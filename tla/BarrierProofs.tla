--------------------------- MODULE BarrierProofs ---------------------------
(***************************************************************************)
(* Theorems about OperationBarrier, and about RequestPath, which uses it,  *)
(* for any finite set of tasks.                                            *)
(***************************************************************************)
EXTENDS RequestPath, TLAPS, FiniteSetTheorems

(***************************************************************************)
(* What every reachable state of the barrier satisfies: beside its         *)
(* properties, that a reset that is inside met no shared lease and no      *)
(* other reset, and that whoever asks or holds has a mode.                 *)
(***************************************************************************)
OneResetAtATime ==
  /\ exclusive => shared = 0
  /\ \A t, s \in Holders("exclusive") : t = s

ModesAreKnown == \A t \in Tasks : mode[t] = "none" <=> place[t] = "away"

BarrierInv ==
  /\ BarrierTypeOK
  /\ ModesAreKnown
  /\ LeasesAreCounted
  /\ OneResetAtATime
  /\ NoLostWakeup

LEMMA HoldersFinite ==
  ASSUME NEW m
  PROVE  IsFiniteSet(Holders(m)) /\ Cardinality(Holders(m)) \in Nat
<1>1. Holders(m) \in SUBSET Tasks
  BY DEF Holders
<1> QED
  BY <1>1, TasksFinite, FS_Subset, FS_CardinalityType

LEMMA InitBarrierInv == BarrierInit => BarrierInv
<1> SUFFICES ASSUME BarrierInit PROVE BarrierInv
  OBVIOUS
<1>1. Holders("shared") = {} /\ Holders("exclusive") = {}
  BY DEF BarrierInit, Holders
<1>2. LeasesAreCounted
  BY <1>1, FS_EmptySet DEF BarrierInit, LeasesAreCounted
<1> QED
  BY <1>1, <1>2 DEF BarrierInit, BarrierInv, BarrierTypeOK, ModesAreKnown,
                    OneResetAtATime, NoLostWakeup

(***************************************************************************)
(* One turn of the while loop, for a new task or one that was notified.    *)
(***************************************************************************)
LEMMA TakeOrWaitKeeps ==
  ASSUME BarrierInv, NEW t \in Tasks, NEW m \in {"shared", "exclusive"},
         place[t] # "inside", mode' = [mode EXCEPT ![t] = m], TakeOrWait(t, m)
  PROVE  BarrierInv'
<1> USE DEF BarrierInv, BarrierTypeOK
<1>1. CASE Blocked(m)
  <2>1. place' = [place EXCEPT ![t] = "parked"] /\ UNCHANGED <<shared, exclusive>>
    BY <1>1 DEF TakeOrWait
  <2>2. \A k : Holders(k)' = Holders(k)
    BY <2>1 DEF Holders
  <2>3. BarrierTypeOK' /\ ModesAreKnown' /\ OneResetAtATime'
    BY <2>1, <2>2 DEF ModesAreKnown, OneResetAtATime
  <2>4. LeasesAreCounted'
    BY <2>1, <2>2 DEF LeasesAreCounted
  <2>5. NoLostWakeup'
    BY <1>1, <2>1 DEF NoLostWakeup, Blocked
  <2> QED
    BY <2>3, <2>4, <2>5
<1>2. CASE ~ Blocked(m)
  <2>1. /\ place' = [place EXCEPT ![t] = "inside"]
        /\ shared' = IF m = "shared" THEN shared + 1 ELSE shared
        /\ exclusive' = (exclusive \/ m = "exclusive")
    BY <1>2 DEF TakeOrWait
  <2>2. t \notin Holders("shared") /\ t \notin Holders("exclusive")
    BY DEF Holders
  <2>3. Holders(m)' = Holders(m) \cup {t}
    BY <2>1 DEF Holders
  <2>4. \A k : k # m => Holders(k)' = Holders(k)
    BY <2>1, <2>2 DEF Holders
  <2>5. ~ exclusive /\ Holders("exclusive") = {}
    BY <1>2 DEF Blocked, LeasesAreCounted
  <2>6. BarrierTypeOK' /\ ModesAreKnown'
    BY <2>1 DEF ModesAreKnown
  <2>7. LeasesAreCounted'
    <3>1. CASE m = "shared"
      BY <2>1, <2>2, <2>3, <2>4, <2>5, <3>1, HoldersFinite, FS_AddElement
         DEF LeasesAreCounted
    <3>2. CASE m = "exclusive"
      BY <2>1, <2>3, <2>4, <3>2 DEF LeasesAreCounted
    <3> QED
      BY <3>1, <3>2
  <2>8. OneResetAtATime'
    BY <1>2, <2>1, <2>3, <2>4, <2>5 DEF OneResetAtATime, Blocked
  <2>9. NoLostWakeup'
    BY <2>1 DEF NoLostWakeup, Blocked
  <2> QED
    BY <2>6, <2>7, <2>8, <2>9
<1> QED
  BY <1>1, <1>2

LEMMA LeaveKeeps ==
  ASSUME BarrierInv, NEW t \in Tasks, Leave(t)
  PROVE  BarrierInv'
<1> USE DEF BarrierInv, BarrierTypeOK
<1>1. /\ place[t] = "inside"
      /\ shared' = IF mode[t] = "shared" THEN shared - 1 ELSE shared
      /\ exclusive' = (exclusive /\ mode[t] # "exclusive")
      /\ mode' = [mode EXCEPT ![t] = "none"]
  BY DEF Leave
<1>2. \A s \in Tasks : place'[s] = IF s = t THEN "away"
                                  ELSE IF place[s] = "parked" THEN "woken" ELSE place[s]
  BY DEF Leave, NotifyAll
<1>3. place' \in [Tasks -> {"away", "parked", "woken", "inside"}]
  BY DEF Leave, NotifyAll
<1>4. \A k \in {"shared", "exclusive"} : Holders(k)' = Holders(k) \ {t}
  BY <1>1, <1>2 DEF Holders
<1>5. mode[t] \in {"shared", "exclusive"} /\ t \in Holders(mode[t])
  BY <1>1 DEF ModesAreKnown, Holders
<1>6. CASE mode[t] = "shared"
  <2>1. Holders("exclusive") = {} /\ ~ exclusive
    <3>1. Holders("shared") # {}
      BY <1>5, <1>6
    <3>2. shared # 0
      BY <3>1, HoldersFinite, FS_EmptySet DEF LeasesAreCounted
    <3> QED
      BY <3>2 DEF OneResetAtATime, LeasesAreCounted
  <2>2. Cardinality(Holders("shared")') = Cardinality(Holders("shared")) - 1
    BY <1>4, <1>5, <1>6, HoldersFinite, FS_RemoveElement
  <2>3. LeasesAreCounted'
    BY <1>1, <1>4, <1>6, <2>1, <2>2 DEF LeasesAreCounted
  <2>4. shared' \in Nat
    <3>1. Cardinality(Holders("shared")') \in Nat
      BY <1>4, HoldersFinite, FS_RemoveElement, FS_CardinalityType
    <3> QED
      BY <2>3, <3>1 DEF LeasesAreCounted
  <2> QED
    BY <1>1, <1>2, <1>3, <1>4, <1>6, <2>1, <2>3, <2>4
       DEF ModesAreKnown, OneResetAtATime, NoLostWakeup
<1>7. CASE mode[t] = "exclusive"
  <2>1. Holders("exclusive")' = {}
    BY <1>4, <1>5, <1>7 DEF OneResetAtATime
  <2>2. Holders("shared")' = Holders("shared")
    BY <1>4, <1>7 DEF Holders
  <2>3. LeasesAreCounted'
    BY <1>1, <1>7, <2>1, <2>2 DEF LeasesAreCounted
  <2> QED
    BY <1>1, <1>2, <1>3, <1>7, <2>1, <2>3
       DEF ModesAreKnown, OneResetAtATime, NoLostWakeup
<1> QED
  BY <1>5, <1>6, <1>7

LEMMA NextBarrierInv == BarrierInv /\ [BarrierNext]_barrierVars => BarrierInv'
<1> SUFFICES ASSUME BarrierInv, [BarrierNext]_barrierVars
             PROVE  BarrierInv'
  OBVIOUS
<1>1. ASSUME NEW t \in Tasks, NEW m \in {"shared", "exclusive"}, Ask(t, m)
      PROVE  BarrierInv'
  BY <1>1, TakeOrWaitKeeps DEF Ask
<1>2. ASSUME NEW t \in Tasks, Recheck(t)
      PROVE  BarrierInv'
  <2>1. mode[t] \in {"shared", "exclusive"}
    BY <1>2 DEF Recheck, BarrierInv, BarrierTypeOK, ModesAreKnown
  <2>2. mode' = [mode EXCEPT ![t] = mode[t]]
    BY <1>2 DEF Recheck, BarrierInv, BarrierTypeOK
  <2> QED
    BY <1>2, <2>1, <2>2, TakeOrWaitKeeps DEF Recheck
<1>3. ASSUME NEW t \in Tasks, Leave(t)
      PROVE  BarrierInv'
  BY <1>3, LeaveKeeps
<1>4. CASE UNCHANGED barrierVars
  BY <1>4 DEF barrierVars, BarrierInv, BarrierTypeOK, ModesAreKnown, LeasesAreCounted,
              OneResetAtATime, NoLostWakeup, Holders, Blocked
<1> QED
  BY <1>1, <1>2, <1>3, <1>4 DEF BarrierNext

-----------------------------------------------------------------------------
(* RequestPath. *)

(***************************************************************************)
(* Where a request stands tells whether it is in the barrier, and in which *)
(* mode a reset is there.                                                  *)
(***************************************************************************)
StepsMatchPlaces ==
  \A t \in Tasks :
    /\ step[t] \in {"idle", "delayed", "routed"} => place[t] = "away"
    /\ step[t] = "leasing" => place[t] # "away"
    /\ step[t] = "found" => place[t] = "inside"
    /\ place[t] \in {"parked", "woken"} => step[t] = "leasing"
    /\ step[t] = "leasing" /\ kind[t] = "reset" => mode[t] = "exclusive"

RequestInv ==
  /\ TypeOK
  /\ StepsMatchPlaces
  /\ LeasedFilesStay
  /\ FaultsAreExact

LEMMA ResetAlone == BarrierInv => ResetIsAlone
<1> SUFFICES ASSUME BarrierInv,
                    NEW t \in Tasks, NEW s \in Tasks,
                    t \in Holders("exclusive"), place[s] = "inside"
             PROVE  s = t
  BY DEF ResetIsAlone
<1>1. Holders("shared") = {}
  BY HoldersFinite, FS_EmptySet DEF BarrierInv, LeasesAreCounted, OneResetAtATime
<1>2. mode[s] = "exclusive"
  BY <1>1 DEF BarrierInv, BarrierTypeOK, ModesAreKnown, Holders
<1> QED
  BY <1>2 DEF BarrierInv, OneResetAtATime, Holders

LEMMA NextUsesBarrier == [Next]_vars => [BarrierNext]_barrierVars
<1> SUFFICES ASSUME [Next]_vars PROVE [BarrierNext]_barrierVars
  OBVIOUS
<1> USE DEF Fail, Pass, BarrierNext
<1>1. ASSUME NEW t \in Tasks, NEW k \in Kinds, Arrive(t, k)
      PROVE  [BarrierNext]_barrierVars
  BY <1>1 DEF Arrive
<1>2. ASSUME NEW t \in Tasks, DelayEnds(t)
      PROVE  [BarrierNext]_barrierVars
  BY <1>2 DEF DelayEnds
<1>3. ASSUME NEW t \in Tasks, AskForReset(t) \/ LookAgain(t) \/ Finish(t) \/ EndLease(t)
      PROVE  [BarrierNext]_barrierVars
  BY <1>3 DEF AskForReset, LookAgain, Finish, EndLease
<1>4. ASSUME NEW t \in Tasks,
             \/ \E c \in Configs : Configure(t, c)
             \/ \E f \in Files : Resolve(t, f)
             \/ DeleteUploads(t) \/ SendHead(t) \/ OpenBody(t) \/ EndBody(t)
      PROVE  [BarrierNext]_barrierVars
  BY <1>4 DEF Configure, Resolve, DeleteUploads, SendHead, OpenBody, EndBody
<1>5. CASE UNCHANGED vars
  BY <1>5 DEF vars
<1> QED
  BY <1>1, <1>2, <1>3, <1>4, <1>5 DEF Next, Proceed

(***************************************************************************)
(* The middleware and the routes keep to the barrier's protocol.           *)
(***************************************************************************)
THEOREM KeepsToBarrier == Spec => UsesBarrier
<1>1. Init => BarrierInit
  BY DEF Init
<1> QED
  BY <1>1, NextUsesBarrier, PTL DEF Spec, UsesBarrier, BarrierSpec

LEMMA BarrierInvHolds == Spec => []BarrierInv
<1>1. BarrierSpec => []BarrierInv
  BY InitBarrierInv, NextBarrierInv, PTL DEF BarrierSpec
<1> QED
  BY <1>1, KeepsToBarrier, PTL DEF UsesBarrier

(***************************************************************************)
(* A resetter that got its lease is alone, whoever waited, was woken or    *)
(* came in between.                                                        *)
(***************************************************************************)
THEOREM ResetAlwaysAlone == Spec => []ResetIsAlone
BY ResetAlone, BarrierInvHolds, PTL

(***************************************************************************)
(* The counter and the flag always say who is inside.                      *)
(***************************************************************************)
THEOREM LeasesAlwaysCounted == Spec => []LeasesAreCounted
<1>1. BarrierInv => LeasesAreCounted
  BY DEF BarrierInv
<1> QED
  BY <1>1, BarrierInvHolds, PTL

(***************************************************************************)
(* notify_all after every lease leaves nobody waiting for what is already  *)
(* the case.                                                               *)
(***************************************************************************)
THEOREM NoWakeupIsLost == Spec => []NoLostWakeup
<1>1. BarrierInv => NoLostWakeup
  BY DEF BarrierInv
<1> QED
  BY <1>1, BarrierInvHolds, PTL

-----------------------------------------------------------------------------
(* The steps of a request keep its invariant. *)

LEMMA InitRequestInv == Init => RequestInv
<1> SUFFICES ASSUME Init PROVE RequestInv
  OBVIOUS
<1>1. BarrierTypeOK
  BY InitBarrierInv DEF Init, BarrierInv
<1>2. NoChaos \in Configs /\ 0 \in 0..MaxFailNext
  BY BoundAssumption DEF NoChaos, Configs
<1>3. TypeOK
  BY <1>1, <1>2 DEF Init, TypeOK
<1>4. StepsMatchPlaces /\ LeasedFilesStay
  BY DEF Init, BarrierInit, StepsMatchPlaces, LeasedFilesStay
<1>5. FaultsAreExact
  BY DEF Init, FaultsAreExact, NoChaos
<1> QED
  BY <1>3, <1>4, <1>5 DEF RequestInv

LEMMA AskPlaces ==
  ASSUME BarrierTypeOK, NEW t \in Tasks, NEW m \in {"shared", "exclusive"}, Ask(t, m)
  PROVE  /\ place[t] = "away" /\ mode' = [mode EXCEPT ![t] = m]
         /\ \E p \in {"inside", "parked"} : place' = [place EXCEPT ![t] = p]
         /\ BarrierTypeOK'
<1>1. \E p \in {"inside", "parked"} : place' = [place EXCEPT ![t] = p]
  BY DEF Ask, TakeOrWait
<1>2. shared' \in Nat
  BY DEF Ask, TakeOrWait, BarrierTypeOK
<1>4. exclusive' \in BOOLEAN
  BY Zenon DEF Ask, TakeOrWait, BarrierTypeOK
<1>3. place[t] = "away" /\ mode' = [mode EXCEPT ![t] = m]
  BY DEF Ask
<1> QED
  BY <1>1, <1>2, <1>3, <1>4 DEF BarrierTypeOK

LEMMA LeavePlaces ==
  ASSUME BarrierInv, NEW t \in Tasks, Leave(t)
  PROVE  /\ place[t] = "inside" /\ mode' = [mode EXCEPT ![t] = "none"]
         /\ place'[t] = "away"
         /\ \A s \in Tasks \ {t} :
              /\ place'[s] \in {"parked", "woken"} <=> place[s] \in {"parked", "woken"}
              /\ place'[s] = "inside" <=> place[s] = "inside"
              /\ place'[s] = "away" <=> place[s] = "away"
         /\ BarrierTypeOK'
<1>1. BarrierTypeOK'
  BY LeaveKeeps DEF BarrierInv
<1> QED
  BY <1>1 DEF Leave, NotifyAll, BarrierInv, BarrierTypeOK

LEMMA FailKeeps ==
  ASSUME RequestInv, NEW t \in Tasks, NEW c \in Configs, Fail(t, c),
         place[t] = "away", read' \in [Tasks -> Configs]
  PROVE  RequestInv'
<1>1. config' \in Configs /\ injected' \in Nat /\ overlap' \in BOOLEAN
  BY BoundAssumption DEF Fail, RequestInv, TypeOK, Configs
<1>2. TypeOK'
  BY <1>1 DEF Fail, Ends, Goes, RequestInv, TypeOK, barrierVars, BarrierTypeOK
<1>3. FaultsAreExact'
  <2>1. CASE c = config /\ ~ overlap
    <3>1. injected + config.failNext = asked /\ config.failNext \in 0..MaxFailNext
      BY <2>1 DEF RequestInv, TypeOK, FaultsAreExact, Configs
    <3>2. config'.failNext = config.failNext - 1
      BY <2>1 DEF Fail, Configs
    <3> QED
      BY <3>1, <3>2, BoundAssumption DEF Fail, RequestInv, TypeOK, FaultsAreExact
  <2>2. CASE c # config \/ overlap
    BY <2>2 DEF Fail, FaultsAreExact
  <2> QED
    BY <2>1, <2>2
<1>4. StepsMatchPlaces' /\ LeasedFilesStay'
  BY DEF Fail, Ends, Goes, RequestInv, TypeOK, StepsMatchPlaces, LeasedFilesStay, barrierVars
<1> QED
  BY <1>2, <1>3, <1>4 DEF RequestInv

LEMMA PassKeeps ==
  ASSUME RequestInv, NEW t \in Tasks, NEW k \in Kinds \cup {NoRequest}, Pass(t, k),
         place[t] = "away", read' \in [Tasks -> Configs]
  PROVE  RequestInv'
<1> USE DEF RequestInv, TypeOK
<1>1. /\ kind' = [kind EXCEPT ![t] = k]
      /\ UNCHANGED <<uploads, file, config, asked, injected, overlap>>
  BY DEF Pass
<1>2. FaultsAreExact'
  BY <1>1 DEF FaultsAreExact
<1>3. CASE k \in Leased
  <2>1. step' = [step EXCEPT ![t] = "leasing"] /\ Ask(t, "shared")
    BY <1>3 DEF Pass, Goes
  <2>2. PICK p \in {"inside", "parked"} : place' = [place EXCEPT ![t] = p]
    BY <2>1, AskPlaces
  <2>3. BarrierTypeOK' /\ mode' = [mode EXCEPT ![t] = "shared"]
    BY <2>1, AskPlaces
  <2>4. StepsMatchPlaces'
    BY <1>1, <1>3, <2>1, <2>2, <2>3 DEF StepsMatchPlaces, BarrierTypeOK, Leased
  <2>5. LeasedFilesStay'
    BY <1>1, <2>1, <2>2 DEF LeasedFilesStay, BarrierTypeOK
  <2> QED
    BY <1>1, <1>2, <2>1, <2>3, <2>4, <2>5
<1>4. CASE k \notin Leased
  <2>1. step' = [step EXCEPT ![t] = "routed"] /\ UNCHANGED barrierVars
    BY <1>4 DEF Pass, Goes
  <2>2. BarrierTypeOK' /\ StepsMatchPlaces' /\ LeasedFilesStay'
    BY <1>1, <2>1 DEF StepsMatchPlaces, LeasedFilesStay, BarrierTypeOK, barrierVars
  <2> QED
    BY <1>1, <1>2, <2>1, <2>2
<1> QED
  BY <1>3, <1>4

LEMMA ArriveKeeps ==
  ASSUME RequestInv, NEW t \in Tasks, NEW k \in Kinds, Arrive(t, k)
  PROVE  RequestInv'
<1>1. place[t] = "away"
  BY DEF Arrive, RequestInv, StepsMatchPlaces
<1>2. read \in [Tasks -> Configs] /\ config \in Configs
  BY DEF RequestInv, TypeOK
<1>3. CASE Pass(t, k) /\ UNCHANGED read
  BY <1>1, <1>2, <1>3, PassKeeps
<1>4. CASE Fail(t, config) /\ UNCHANGED read
  BY <1>1, <1>2, <1>4, FailKeeps
<1>5. CASE /\ read' = [read EXCEPT ![t] = config]
           /\ Goes(t, "delayed")
           /\ kind' = [kind EXCEPT ![t] = k]
           /\ UNCHANGED <<barrierVars, uploads, file, config, asked, injected, overlap>>
  BY <1>1, <1>5 DEF RequestInv, TypeOK, StepsMatchPlaces, LeasedFilesStay, FaultsAreExact,
                    Goes, barrierVars, BarrierTypeOK
<1> QED
  BY <1>3, <1>4, <1>5 DEF Arrive

LEMMA DelayEndsKeeps ==
  ASSUME RequestInv, NEW t \in Tasks, DelayEnds(t)
  PROVE  RequestInv'
<1>1. /\ place[t] = "away" /\ read[t] \in Configs /\ kind[t] \in Kinds \cup {NoRequest}
      /\ read' \in [Tasks -> Configs]
  BY BoundAssumption DEF DelayEnds, RequestInv, StepsMatchPlaces, TypeOK, NoChaos, Configs
<1>2. CASE Fail(t, read[t])
  BY <1>1, <1>2, FailKeeps
<1>3. CASE Pass(t, kind[t])
  BY <1>1, <1>3, PassKeeps
<1> QED
  BY <1>2, <1>3 DEF DelayEnds

LEMMA AskForResetKeeps ==
  ASSUME RequestInv, NEW t \in Tasks, AskForReset(t)
  PROVE  RequestInv'
<1> USE DEF RequestInv, TypeOK
<1>1. /\ step' = [step EXCEPT ![t] = "leasing"] /\ Ask(t, "exclusive")
      /\ UNCHANGED <<kind, read, file, uploads, config, asked, injected, overlap>>
  BY DEF AskForReset, Goes
<1>2. PICK p \in {"inside", "parked"} : place' = [place EXCEPT ![t] = p]
  BY <1>1, AskPlaces
<1>3. BarrierTypeOK' /\ mode' = [mode EXCEPT ![t] = "exclusive"]
  BY <1>1, AskPlaces
<1>4. StepsMatchPlaces' /\ LeasedFilesStay'
  BY <1>1, <1>2, <1>3 DEF StepsMatchPlaces, LeasedFilesStay, BarrierTypeOK
<1> QED
  BY <1>1, <1>3, <1>4 DEF FaultsAreExact

LEMMA LookAgainKeeps ==
  ASSUME RequestInv, NEW t \in Tasks, BarrierInv', LookAgain(t)
  PROVE  RequestInv'
<1> USE DEF RequestInv, TypeOK
<1>1. UNCHANGED requestVars /\ place[t] = "woken" /\ UNCHANGED mode
  BY DEF LookAgain, Recheck
<1>2. PICK p \in {"inside", "parked"} : place' = [place EXCEPT ![t] = p]
  BY DEF LookAgain, Recheck, TakeOrWait
<1>3. BarrierTypeOK'
  BY DEF BarrierInv
<1>4. step[t] = "leasing"
  BY <1>1 DEF StepsMatchPlaces
<1>5. StepsMatchPlaces'
  BY <1>1, <1>2, <1>4 DEF StepsMatchPlaces, BarrierTypeOK, requestVars
<1>6. LeasedFilesStay'
  <2> SUFFICES ASSUME NEW s \in Tasks,
                      step[s] = "found" \/ (step[s] = "headed" /\ place'[s] = "inside")
               PROVE  file[s] \in uploads
    BY <1>1 DEF LeasedFilesStay, requestVars
  <2> QED
    BY <1>1, <1>2, <1>4 DEF LeasedFilesStay, BarrierTypeOK
<1> QED
  BY <1>1, <1>3, <1>5, <1>6 DEF FaultsAreExact, requestVars

(***************************************************************************)
(* What a handler does while it holds its lease.  The reset deletes files  *)
(* alone (ResetIsAlone), so nobody else has one in hand.                   *)
(***************************************************************************)
LEMMA HandlersKeep ==
  ASSUME RequestInv, BarrierInv, NEW t \in Tasks,
         \/ \E c \in Configs : Configure(t, c)
         \/ \E f \in Files : Resolve(t, f)
         \/ DeleteUploads(t) \/ SendHead(t) \/ OpenBody(t) \/ EndBody(t)
  PROVE  RequestInv'
<1> USE DEF RequestInv, TypeOK, BarrierTypeOK, barrierVars, Goes
<1>1. ASSUME NEW c \in Configs, Configure(t, c)
      PROVE  RequestInv'
  <2>1. asked' \in 0..MaxFailNext /\ FaultsAreExact'
    BY <1>1, BoundAssumption DEF Configure, Configs, FaultsAreExact
  <2> QED
    BY <1>1, <2>1 DEF Configure, Handling, StepsMatchPlaces, LeasedFilesStay
<1>2. ASSUME NEW f \in Files, Resolve(t, f)
      PROVE  RequestInv'
  BY <1>2 DEF Resolve, Handling, StepsMatchPlaces, LeasedFilesStay, FaultsAreExact
<1>3. CASE DeleteUploads(t)
  <2>1. t \in Holders("exclusive")
    BY <1>3 DEF DeleteUploads, Handling, StepsMatchPlaces, Holders
  <2>2. \A s \in Tasks : place[s] = "inside" => s = t
    BY <2>1, ResetAlone DEF ResetIsAlone
  <2>3. LeasedFilesStay'
    BY <1>3, <2>2 DEF DeleteUploads, Handling, StepsMatchPlaces, LeasedFilesStay
  <2>4. TypeOK' /\ StepsMatchPlaces' /\ FaultsAreExact'
    BY <1>3 DEF DeleteUploads, Handling, StepsMatchPlaces, FaultsAreExact
  <2> QED
    BY <2>3, <2>4
<1>4. CASE SendHead(t)
  BY <1>4 DEF SendHead, StepsMatchPlaces, LeasedFilesStay, FaultsAreExact
<1>5. CASE OpenBody(t)
  BY <1>5 DEF OpenBody, StepsMatchPlaces, LeasedFilesStay, FaultsAreExact
<1>6. CASE EndBody(t)
  BY <1>6 DEF EndBody, Ends, StepsMatchPlaces, LeasedFilesStay, FaultsAreExact
<1> QED
  BY <1>1, <1>2, <1>3, <1>4, <1>5, <1>6

LEMMA LeasesEnd ==
  ASSUME RequestInv, BarrierInv, NEW t \in Tasks, Finish(t) \/ EndLease(t)
  PROVE  RequestInv'
<1> USE DEF RequestInv, TypeOK
<1>1. Leave(t)
  BY DEF Finish, EndLease
<1>2. /\ BarrierTypeOK' /\ mode' = [mode EXCEPT ![t] = "none"]
      /\ place'[t] = "away"
      /\ \A s \in Tasks \ {t} :
           /\ place'[s] \in {"parked", "woken"} <=> place[s] \in {"parked", "woken"}
           /\ place'[s] = "inside" <=> place[s] = "inside"
           /\ place'[s] = "away" <=> place[s] = "away"
  BY <1>1, LeavePlaces
<1>3. CASE Finish(t)
  <2>1. /\ step' = [step EXCEPT ![t] = "idle"] /\ kind' = [kind EXCEPT ![t] = NoRequest]
        /\ UNCHANGED <<read, file, uploads, config, asked, injected, overlap>>
    BY <1>3 DEF Finish, Ends, Goes
  <2>2. StepsMatchPlaces' /\ LeasedFilesStay'
    BY <1>2, <2>1 DEF StepsMatchPlaces, LeasedFilesStay, BarrierTypeOK
  <2> QED
    BY <1>2, <2>1, <2>2 DEF FaultsAreExact
<1>4. CASE EndLease(t)
  <2>1. step[t] \in {"headed", "open"} /\ UNCHANGED requestVars
    BY <1>4 DEF EndLease
  <2>2. StepsMatchPlaces' /\ LeasedFilesStay'
    BY <1>2, <2>1 DEF StepsMatchPlaces, LeasedFilesStay, BarrierTypeOK, requestVars
  <2> QED
    BY <1>2, <2>1, <2>2 DEF FaultsAreExact, requestVars
<1> QED
  BY <1>3, <1>4

LEMMA NextRequestInv == RequestInv /\ BarrierInv /\ BarrierInv' /\ [Next]_vars => RequestInv'
<1> SUFFICES ASSUME RequestInv, BarrierInv, BarrierInv', [Next]_vars
             PROVE  RequestInv'
  OBVIOUS
<1>1. ASSUME NEW t \in Tasks, NEW k \in Kinds, Arrive(t, k)
      PROVE  RequestInv'
  BY <1>1, ArriveKeeps
<1>2. ASSUME NEW t \in Tasks, Proceed(t)
      PROVE  RequestInv'
  BY <1>2, DelayEndsKeeps, AskForResetKeeps, LookAgainKeeps, HandlersKeep, LeasesEnd
     DEF Proceed
<1>3. CASE UNCHANGED vars
  BY <1>3 DEF vars, requestVars, barrierVars, RequestInv, TypeOK, BarrierTypeOK,
              StepsMatchPlaces, LeasedFilesStay, FaultsAreExact
<1> QED
  BY <1>1, <1>2, <1>3 DEF Next

LEMMA RequestInvHolds == Spec => []RequestInv
BY InitRequestInv, NextRequestInv, BarrierInvHolds, PTL DEF Spec

(***************************************************************************)
(* No reset deletes a file between the look-up of a download and the end   *)
(* of its lease.                                                           *)
(***************************************************************************)
THEOREM LeasedFilesAlwaysStay == Spec => []LeasedFilesStay
<1>1. RequestInv => LeasedFilesStay
  BY DEF RequestInv
<1> QED
  BY <1>1, RequestInvHolds, PTL

(***************************************************************************)
(* Injected faults are counted down exactly while no delayed request works *)
(* with an outdated configuration.                                         *)
(***************************************************************************)
THEOREM FaultsAlwaysExact == Spec => []FaultsAreExact
<1>1. RequestInv => FaultsAreExact
  BY DEF RequestInv
<1> QED
  BY <1>1, RequestInvHolds, PTL

(***************************************************************************)
(* Every variable keeps its type.                                          *)
(***************************************************************************)
THEOREM TypeCorrect == Spec => []TypeOK
<1>1. RequestInv => TypeOK
  BY DEF RequestInv
<1> QED
  BY <1>1, RequestInvHolds, PTL
=============================================================================
