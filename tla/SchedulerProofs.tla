--------------------------- MODULE SchedulerProofs ---------------------------
(***************************************************************************)
(* Theorems about DeadlineScheduler, for any charges, deadlines and seed.  *)
(***************************************************************************)
EXTENDS DeadlineScheduler, WellFoundedInduction, TLAPS

(***************************************************************************)
(* A set of naturals that is not empty has a smallest element.             *)
(***************************************************************************)
LEMMA MinOfNaturals ==
  ASSUME NEW S \in SUBSET Nat, S # {}
  PROVE  Min(S) \in S /\ \A n \in S : Min(S) <= n
<1>1. PICK n \in S : \A m \in S : ~ (<<m, n>> \in OpToRel(<, Nat))
  <2>1. IsWellFoundedOn(OpToRel(<, Nat), Nat)
    BY NatLessThanWellFounded
  <2> QED
    BY <2>1, WFMin
<1>2. \A m \in S : n <= m
  <2> SUFFICES ASSUME NEW m \in S, m < n PROVE FALSE
    OBVIOUS
  <2>1. <<m, n>> \in OpToRel(<, Nat)
    BY DEF OpToRel
  <2> QED
    BY <1>1, <2>1
<1> QED
  BY <1>2 DEF Min

USE DEF Unset, Instants, IsExpired

LEMMA AheadIsDated ==
  ASSUME TypeOK
  PROVE  /\ Ahead \in SUBSET Deadlines
         /\ Ahead \in SUBSET Nat
         /\ \A c \in Outstanding : due[c] \in Nat
<1>1. /\ Deadlines \in SUBSET Nat
      /\ \A c \in Outstanding : due[c] \in Deadlines
  BY DeadlineAssumption DEF TypeOK, Outstanding
<1> QED
  BY <1>1 DEF Ahead

LEMMA ReconciliationTyped ==
  TypeOK => Reconciliation \in [Charges -> Deadlines \cup {Unset}]
BY DEF TypeOK, Reconciliation

-----------------------------------------------------------------------------

(***************************************************************************)
(* Between the two parts of a wake-up nothing that is outstanding has      *)
(* elapsed, unless a fault cut the wake-up short.                          *)
(***************************************************************************)
RearmsAhead ==
  phase = "re-arming" /\ ~ dropped => \A c \in Outstanding : due[c] > now

SchedulerInv == TypeOK /\ RearmsAhead

LEMMA SchedulerInit == Init => SchedulerInv
<1> SUFFICES ASSUME Init PROVE SchedulerInv
  OBVIOUS
<1>1. now \in Instants /\ timer \in Deadlines \cup {Unset}
  BY DEF Init
<1>2. dropped \in BOOLEAN
  BY Zenon DEF Init
<1>3. TypeOK
  BY <1>1, <1>2, Zenon DEF Init, TypeOK
<1> QED
  BY <1>3 DEF Init, SchedulerInv, RearmsAhead

LEMMA ArmKeeps == SchedulerInv /\ Arm => SchedulerInv'
<1> SUFFICES ASSUME SchedulerInv, Arm PROVE SchedulerInv'
  OBVIOUS
<1>1. timer' \in Deadlines \cup {Unset}
  BY AheadIsDated, MinOfNaturals DEF Arm, SchedulerInv
<1> QED
  BY <1>1 DEF Arm, SchedulerInv, TypeOK, RearmsAhead

LEMMA WakeKeeps == SchedulerInv /\ Wake => SchedulerInv'
<1> SUFFICES ASSUME SchedulerInv, Wake PROVE SchedulerInv'
  OBVIOUS
<1>1. TypeOK'
  BY ReconciliationTyped DEF Wake, SchedulerInv, TypeOK
<1>2. CASE due' = Reconciliation
  <2>1. ASSUME NEW c \in Outstanding' PROVE due'[c] > now
    <3>1. c \in Outstanding \ Elapsed /\ due'[c] = due[c]
      BY <1>2, <2>1 DEF Reconciliation, Outstanding
    <3>2. due[c] \in Nat /\ now \in Nat
      BY <3>1, AheadIsDated DEF SchedulerInv, TypeOK
    <3> QED
      BY <3>1, <3>2 DEF Elapsed
  <2> QED
    BY <1>1, <2>1 DEF SchedulerInv, RearmsAhead, Wake
<1>3. CASE UNCHANGED <<due, phase>>
  BY <1>1, <1>3 DEF SchedulerInv, RearmsAhead, Wake
<1> QED
  BY <1>2, <1>3 DEF Wake

LEMMA TickKeeps == SchedulerInv /\ Tick => SchedulerInv'
<1> SUFFICES ASSUME SchedulerInv, Tick PROVE SchedulerInv'
  OBVIOUS
<1>1. TypeOK'
  BY DEF Tick, SchedulerInv, TypeOK
<1>2. RearmsAhead'
  BY AheadIsDated DEF Tick, SchedulerInv, TypeOK, RearmsAhead, Outstanding
<1> QED
  BY <1>1, <1>2 DEF SchedulerInv

LEMMA RequestsKeep ==
  SchedulerInv /\ (Read \/ StudentDecides \/ RaiseCharge \/ Reset) => SchedulerInv'
<1> SUFFICES ASSUME SchedulerInv, Read \/ StudentDecides \/ RaiseCharge \/ Reset
             PROVE  SchedulerInv'
  OBVIOUS
<1>1. due' \in [Charges -> Deadlines \cup {Unset}]
  BY ReconciliationTyped, DeadlineAssumption
     DEF SchedulerInv, TypeOK, Read, StudentDecides, RaiseCharge, Reset
<1>2. phase = "serving" /\ UNCHANGED <<now, timer, phase, dropped>>
  BY DEF Read, StudentDecides, RaiseCharge, Reset
<1> QED
  BY <1>1, <1>2 DEF SchedulerInv, TypeOK, RearmsAhead

LEMMA NextKeepsScheduler == SchedulerInv /\ [Next]_vars => SchedulerInv'
<1>1. SchedulerInv /\ UNCHANGED vars => SchedulerInv'
  BY DEF vars, SchedulerInv, TypeOK, RearmsAhead, Outstanding
<1> QED
  BY <1>1, ArmKeeps, WakeKeeps, TickKeeps, RequestsKeep DEF Next

(***************************************************************************)
(* The task only ever sleeps until the deadline of some charge: the timer  *)
(* is never a delay, a deadline of nobody's or a moment already past that  *)
(* was picked for want of another.                                         *)
(***************************************************************************)
THEOREM SchedulerTyped == Spec => []TypeOK
<1>1. SchedulerInv => TypeOK
  BY DEF SchedulerInv
<1> QED
  BY <1>1, SchedulerInit, NextKeepsScheduler, PTL DEF Spec

(***************************************************************************)
(* A wake-up that no fault cuts short skips nobody: when it has re-armed,  *)
(* every charge that is still outstanding is still ahead, and the task     *)
(* sleeps until the nearest of their deadlines; it stops only when there   *)
(* is none.  Reconciliation's `now >= deadline' and re-arming's `deadline  *)
(* > now' leave nothing between them.                                      *)
(***************************************************************************)
SkipsNobody ==
  phase = "re-arming" /\ phase' = "serving" /\ ~ dropped' =>
    IF Outstanding' = {} THEN timer' = Unset
    ELSE /\ \E c \in Outstanding' : timer' = due'[c]
         /\ \A c \in Outstanding' : now' < timer' /\ timer' <= due'[c]

THEOREM WakeUpSkipsNobody == Spec => [][SkipsNobody]_vars
<1>1. SchedulerInv /\ [Next]_vars => [SkipsNobody]_vars
  <2> SUFFICES ASSUME SchedulerInv, Next, phase = "re-arming", phase' = "serving", ~ dropped'
               PROVE  IF Outstanding' = {} THEN timer' = Unset
                      ELSE /\ \E c \in Outstanding' : timer' = due'[c]
                           /\ \A c \in Outstanding' : now' < timer' /\ timer' <= due'[c]
    BY DEF SkipsNobody
  <2>1. Arm
    BY DEF Next, Wake, Tick, Read, StudentDecides, RaiseCharge, Reset
  <2>2. Outstanding' = Outstanding /\ due' = due /\ now' = now /\ ~ dropped
    BY <2>1 DEF Arm, Outstanding
  <2>3. Ahead = {due[c] : c \in Outstanding}
    BY <2>2 DEF SchedulerInv, RearmsAhead, Ahead
  <2>4. CASE Outstanding = {}
    BY <2>1, <2>2, <2>3, <2>4 DEF Arm
  <2>5. CASE Outstanding # {}
    <3>1. Ahead # {} /\ Ahead \in SUBSET Nat /\ timer' = Min(Ahead)
      BY <2>1, <2>3, <2>5, AheadIsDated DEF Arm, SchedulerInv
    <3>2. timer' \in Ahead /\ \A n \in Ahead : timer' <= n
      BY <3>1, MinOfNaturals
    <3>3. \A c \in Outstanding : due[c] > now
      BY <2>2 DEF SchedulerInv, RearmsAhead
    <3> QED
      BY <2>2, <2>3, <2>5, <3>2, <3>3
  <2> QED
    BY <2>2, <2>4, <2>5
<1> QED
  BY <1>1, SchedulerInit, NextKeepsScheduler, PTL DEF Spec
=============================================================================
