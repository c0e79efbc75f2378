---------------------------- MODULE RuntimeProofs ----------------------------
(***************************************************************************)
(* Theorems about RuntimeDirectory, for any sets of processes, charges and *)
(* files.                                                                  *)
(***************************************************************************)
EXTENDS RuntimeDirectory, TLAPS

(***************************************************************************)
(* The default breakdown of any amount has no negative part and makes up   *)
(* the amount: neither the parts rounded down nor the tax rounded to the   *)
(* nearest unit lose one or leave the adjustment negative, which the       *)
(* response schema would refuse.                                           *)
(***************************************************************************)
THEOREM DefaultAddsUp ==
  ASSUME NEW amount \in Nat
  PROVE  AddsUp(DefaultCostBreakdown(amount), amount)
<1> DEFINE preTax    == (amount * 100) \div 120
           materials == (preTax * 46) \div 100
           labour    == (preTax * 34) \div 100
           service   == (preTax * 20) \div 100
           tax       == (preTax * 20 + 50) \div 100
           rounding  == amount - materials - labour - service - tax
<1>1. preTax \in Nat /\ 120 * preTax <= 100 * amount
  OBVIOUS
<1> HIDE DEF preTax
<1>2. /\ materials \in Nat /\ 100 * materials <= preTax * 46
      /\ labour \in Nat /\ 100 * labour <= preTax * 34
      /\ service \in Nat /\ 100 * service <= preTax * 20
      /\ tax \in Nat /\ 100 * tax <= preTax * 20 + 50
  BY <1>1
<1> HIDE DEF materials, labour, service, tax
<1>3. rounding \in Int /\ 100 * rounding >= -50
  BY <1>1, <1>2
<1>4. rounding >= 0
  BY <1>3
<1>5. DefaultCostBreakdown(amount) =
        [ materials |-> materials, labour |-> labour, service |-> service, tax |-> tax,
          rounding |-> rounding ]
  BY DEF DefaultCostBreakdown, TaxRate, preTax, materials, labour, service, tax
<1> QED
  BY <1>2, <1>3, <1>4, <1>5 DEF AddsUp, Total

ServingPlaces == {"serving", "moving", "deleting", "persisting", "replaced", "rolling back"}

BackendPlaces ==
  {"down", "opened", "owner", "marked", "cleared", "writing", "loaded"} \cup ServingPlaces
ScriptPlaces ==
  {"down", "safe", "opened", "owner", "state removed", "marker removed", "temps removed",
   "released"}
Working == (BackendPlaces \cup ScriptPlaces) \ {"down", "safe", "opened", "released"}

-----------------------------------------------------------------------------
(* The lock. *)

LockTypes ==
  /\ lockFile \in Inodes \cup {NoInode}
  /\ holder \in [Inodes -> Processes \cup {Nobody}]
  /\ fd \in [Processes -> Inodes \cup {NoInode}]
  /\ pc \in [Processes -> BackendPlaces \cup ScriptPlaces]
  /\ orphaned \in BOOLEAN

(***************************************************************************)
(* Who works on the directory holds the lock of the file it has open, and  *)
(* unless a file was unlinked under somebody, that is the file that is     *)
(* there: so there is one lock only.                                       *)
(***************************************************************************)
OwnersHoldLocks ==
  \A p \in Processes : Owns(p) => fd[p] \in Inodes /\ holder[fd[p]] = p

OpenedFiles ==
  \A p \in Processes : pc[p] = "opened" => fd[p] \in Inodes

OneLockFile ==
  ~ orphaned => \A p \in Processes : fd[p] # NoInode => fd[p] = lockFile

LockInv == LockTypes /\ OwnersHoldLocks /\ OpenedFiles /\ OneLockFile

LEMMA OwnersAreWorking ==
  ASSUME LockTypes, NEW p \in Processes
  PROVE  Owns(p) <=> pc[p] \in Working
BY DEF LockTypes, Owns, Working

LEMMA OneOwnerFollows == LockInv => OneOwner
BY RuntimeAssumption DEF LockInv, OwnersHoldLocks, OneLockFile, OneOwner

(* What the steps do to the lock. *)
Drops(p) ==
  /\ LetGo(p)
  /\ Goes(p, "down") \/ Goes(p, "released")
  /\ UNCHANGED <<lockFile, orphaned>>

Advances(p) ==
  /\ Owns(p)
  /\ \E s \in Working : Goes(p, s)
  /\ UNCHANGED <<lockFile, holder, fd, orphaned>>

LEMMA LockInit == Init => LockInv
<1> SUFFICES ASSUME Init PROVE LockInv
  OBVIOUS
<1>1. LockTypes
  BY DEF Init, LockTypes, BackendPlaces
<1>2. \A p \in Processes : pc[p] = "down" /\ fd[p] = NoInode
  BY DEF Init
<1>3. OwnersHoldLocks /\ OpenedFiles /\ OneLockFile
  BY <1>2 DEF OwnersHoldLocks, OpenedFiles, OneLockFile, Owns
<1> QED
  BY <1>1, <1>3 DEF LockInv

LEMMA OpenKeepsLock ==
  ASSUME LockInv, NEW p \in Processes, OpenLock(p)
  PROVE  LockInv'
<1> USE DEF LockInv
<1>1. PICK i \in Inodes : lockFile' = i /\ fd' = [fd EXCEPT ![p] = i]
  BY DEF OpenLock, LockTypes
<1>2. pc' = [pc EXCEPT ![p] = "opened"] /\ UNCHANGED <<holder, orphaned>>
  BY DEF OpenLock, Goes
<1>3. lockFile = NoInode \/ lockFile = i
  BY <1>1 DEF OpenLock, LockTypes
<1>4. LockTypes'
  BY <1>1, <1>2 DEF LockTypes, BackendPlaces
<1>5. OwnersHoldLocks' /\ OpenedFiles'
  BY <1>1, <1>2 DEF OwnersHoldLocks, OpenedFiles, Owns, LockTypes
<1>6. OneLockFile'
  BY <1>1, <1>2, <1>3 DEF OneLockFile, LockTypes
<1> QED
  BY <1>4, <1>5, <1>6

LEMMA FlockKeepsLock ==
  ASSUME LockInv, NEW p \in Processes, Flock(p)
  PROVE  LockInv'
<1> USE DEF LockInv
<1>1. /\ fd[p] \in Inodes /\ holder[fd[p]] = Nobody
      /\ holder' = [holder EXCEPT ![fd[p]] = p]
      /\ pc' = [pc EXCEPT ![p] = "owner"]
      /\ UNCHANGED <<lockFile, fd, orphaned>>
  BY DEF Flock, Goes, OpenedFiles
<1>2. LockTypes'
  BY <1>1 DEF LockTypes, BackendPlaces
<1>3. OwnersHoldLocks'
  BY <1>1, RuntimeAssumption DEF OwnersHoldLocks, Owns, LockTypes
<1>4. OpenedFiles' /\ OneLockFile'
  BY <1>1 DEF OpenedFiles, OneLockFile, LockTypes
<1> QED
  BY <1>2, <1>3, <1>4

LEMMA DropKeepsLock ==
  ASSUME LockInv, NEW p \in Processes, Drops(p)
  PROVE  LockInv'
<1> USE DEF LockInv
<1>1. PICK s \in {"down", "released"} : pc' = [pc EXCEPT ![p] = s]
  BY DEF Drops, Goes
<1>2. /\ fd' = [fd EXCEPT ![p] = NoInode]
      /\ holder' = [i \in Inodes |-> IF holder[i] = p THEN Nobody ELSE holder[i]]
      /\ UNCHANGED <<lockFile, orphaned>>
  BY DEF Drops, LetGo
<1>3. LockTypes'
  BY <1>1, <1>2 DEF LockTypes, BackendPlaces, ScriptPlaces
<1>4. OwnersHoldLocks'
  BY <1>1, <1>2 DEF OwnersHoldLocks, Owns, LockTypes
<1>5. OpenedFiles' /\ OneLockFile'
  BY <1>1, <1>2 DEF OpenedFiles, OneLockFile, LockTypes
<1> QED
  BY <1>3, <1>4, <1>5

LEMMA AdvanceKeepsLock ==
  ASSUME LockInv, NEW p \in Processes, Advances(p)
  PROVE  LockInv'
<1> USE DEF LockInv
<1>1. PICK s \in Working : pc' = [pc EXCEPT ![p] = s]
  BY DEF Advances, Goes
<1>2. s # "opened" /\ s \in BackendPlaces \cup ScriptPlaces
  BY DEF Working
<1>3. Owns(p) /\ UNCHANGED <<lockFile, holder, fd, orphaned>>
  BY DEF Advances
<1>4. LockTypes'
  BY <1>1, <1>2, <1>3 DEF LockTypes
<1>5. OwnersHoldLocks' /\ OpenedFiles' /\ OneLockFile'
  BY <1>1, <1>2, <1>3 DEF OwnersHoldLocks, OpenedFiles, OneLockFile, Owns, LockTypes
<1> QED
  BY <1>4, <1>5

LEMMA SafeKeepsLock ==
  ASSUME LockInv, NEW s \in Scripts, AssertSafe(s)
  PROVE  LockInv'
<1>1. pc' = [pc EXCEPT ![s] = "safe"] /\ UNCHANGED <<lockFile, holder, fd, orphaned>>
  BY DEF AssertSafe, ScriptStep, Goes
<1>2. LockTypes'
  BY <1>1 DEF LockInv, LockTypes, ScriptPlaces
<1> QED
  BY <1>1, <1>2 DEF LockInv, OwnersHoldLocks, OpenedFiles, OneLockFile, Owns, LockTypes

LEMMA UnlinkKeepsLock ==
  ASSUME LockInv, NEW s \in Scripts, UnlinkLock(s)
  PROVE  LockInv'
<1>1. /\ pc' = [pc EXCEPT ![s] = "down"] /\ UNCHANGED <<holder, fd>>
      /\ lockFile' = NoInode
      /\ orphaned' = (orphaned \/ \E p \in Processes : fd[p] # NoInode)
  BY DEF UnlinkLock, ScriptStep, Goes
<1>2. orphaned' \in BOOLEAN
  BY <1>1
<1>3. LockTypes'
  BY <1>1, <1>2 DEF LockInv, LockTypes, ScriptPlaces
<1>4. OwnersHoldLocks' /\ OpenedFiles'
  BY <1>1 DEF LockInv, OwnersHoldLocks, OpenedFiles, Owns, LockTypes
<1>5. OneLockFile'
  BY <1>1 DEF OneLockFile
<1> QED
  BY <1>3, <1>4, <1>5 DEF LockInv

LEMMA StayKeepsLock ==
  LockInv /\ UNCHANGED <<lockFile, holder, fd, pc, orphaned>> => LockInv'
BY DEF LockInv, LockTypes, OwnersHoldLocks, OpenedFiles, OneLockFile, Owns

-----------------------------------------------------------------------------
(* Who takes the step, and whether it may touch the files. *)

LEMMA BackendStep ==
  ASSUME LockTypes, NEW b \in Backends, Opening(b)
  PROVE  Owns(b) /\ (Advances(b) \/ Drops(b))
<1>1. CASE WriteMarker(b)
  BY <1>1 DEF WriteMarker, Step, Goes, Owns, Advances, Working, BackendPlaces
<1>2. CASE ClearTemps(b)
  BY <1>2 DEF ClearTemps, Step, Goes, Owns, Advances, Working, BackendPlaces
<1>3. CASE LoadState(b)
  BY <1>3 DEF LoadState, Goes, Owns, Advances, Working, BackendPlaces
<1>4. CASE ReplaceState(b)
  BY <1>4 DEF ReplaceState, Step, Goes, Owns, Advances, Working, BackendPlaces
<1>5. CASE Sweep(b)
  BY <1>5 DEF Sweep, Step, Goes, Owns, Advances, Working, BackendPlaces, ServingPlaces
<1>6. CASE LoadRefused(b) \/ WriteRefused(b) \/ VerifyRefused(b)
  BY <1>6 DEF LoadRefused, WriteRefused, VerifyRefused, Exits, Owns, Drops
<1> QED
  BY <1>1, <1>2, <1>3, <1>4, <1>5, <1>6 DEF Opening

LEMMA ServingAdvances ==
  ASSUME NEW b \in Backends, Serving(b)
  PROVE  /\ Owns(b) /\ Advances(b)
         /\ pc[b] \in ServingPlaces
         /\ \E to \in ServingPlaces : pc' = [pc EXCEPT ![b] = to]
<1>1. PICK from \in ServingPlaces, to \in ServingPlaces : ServingStep(b, from, to)
  BY DEF Serving, DevRaiseCharge, OtherCommit, ContestBegins, MoveFile, MoveFails, WriteMoved,
         ResetBegins, DeleteUpload, ResetWrites, ReplaceFile, Commits, WriteFails, SyncFails,
         RollBack, StartsWriting, ServingPlaces
<1>2. pc[b] = from /\ Goes(b, to) /\ UNCHANGED <<lockFile, holder, fd, orphaned>>
  BY <1>1 DEF ServingStep, Step
<1>3. from \notin {"down", "safe", "opened", "released"} /\ to \in Working
  BY DEF ServingPlaces, Working, BackendPlaces
<1> QED
  BY <1>2, <1>3 DEF Owns, Advances, Goes

Removing(s) ==
  RemoveState(s) \/ RemoveMarker(s) \/ RemoveTemps(s) \/ RemoveUpload(s)

LEMMA RemovingStep ==
  ASSUME NEW s \in Scripts, Removing(s)
  PROVE  /\ Owns(s)
         /\ Advances(s) \/ UNCHANGED <<lockFile, holder, fd, pc, orphaned>>
<1>1. CASE RemoveState(s)
  BY <1>1 DEF RemoveState, ScriptStep, Goes, Owns, Advances, Working, ScriptPlaces
<1>2. CASE RemoveMarker(s)
  BY <1>2 DEF RemoveMarker, ScriptStep, Goes, Owns, Advances, Working, ScriptPlaces
<1>3. CASE RemoveTemps(s)
  BY <1>3 DEF RemoveTemps, ScriptStep, Goes, Owns, Advances, Working, ScriptPlaces
<1>4. CASE RemoveUpload(s)
  BY <1>4 DEF RemoveUpload, Owns
<1> QED
  BY <1>1, <1>2, <1>3, <1>4 DEF Removing

LEMMA NextKeepsLock == LockInv /\ [Next]_vars => LockInv'
<1> SUFFICES ASSUME LockInv, [Next]_vars PROVE LockInv'
  OBVIOUS
<1>1. ASSUME NEW p \in Processes, Locking(p) \/ Dies(p) PROVE LockInv'
  <2>1. FlockRefused(p) \/ Dies(p) => Drops(p)
    BY DEF FlockRefused, Dies, Drops
  <2> QED
    BY <1>1, <2>1, OpenKeepsLock, FlockKeepsLock, DropKeepsLock DEF Locking
<1>2. ASSUME NEW b \in Backends, Opening(b) \/ Serving(b) PROVE LockInv'
  <2>1. b \in Processes
    BY DEF Processes
  <2> QED
    BY <1>2, <2>1, BackendStep, ServingAdvances, AdvanceKeepsLock, DropKeepsLock, StayKeepsLock
       DEF LockInv
<1>3. ASSUME NEW s \in Scripts, Resetting(s) PROVE LockInv'
  <2>1. s \in Processes
    BY DEF Processes
  <2>2. Release(s) => Drops(s)
    BY DEF Release, ScriptStep, Drops
  <2>3. AssertSafe(s) \/ Removing(s) \/ Release(s) \/ UnlinkLock(s)
    BY <1>3 DEF Resetting, Removing
  <2> QED
    BY <2>1, <2>2, <2>3, RemovingStep, SafeKeepsLock, UnlinkKeepsLock, AdvanceKeepsLock,
       DropKeepsLock, StayKeepsLock
<1>4. CASE UNCHANGED vars
  BY <1>4, StayKeepsLock DEF vars
<1> QED
  BY <1>1, <1>2, <1>3, <1>4 DEF Next

(***************************************************************************)
(* However processes race for runtime.lock and wherever they die, one of   *)
(* them at most works on the directory, until a script unlinks the lock    *)
(* file under somebody who has it open.                                    *)
(***************************************************************************)
THEOREM AlwaysOneOwner == Spec => []OneOwner
BY LockInit, NextKeepsLock, OneOwnerFollows, PTL DEF Spec

-----------------------------------------------------------------------------
(* The files. *)

(***************************************************************************)
(* How memory (m), the snapshot about to be committed (w), state.json      *)
(* (st), the uploads (up) and the faults so far (bl) agree while a backend *)
(* is at a place: what each later step relies on.                          *)
(***************************************************************************)
Writing == {"moving", "persisting", "replaced", "rolling back"}
Preparing == {"moving", "persisting", "replaced"}

StateAgrees(place, m, w, st, bl) ==
  /\ place = "writing" => \/ st = Absent /\ m.refs = {}
                          \/ st \in Snapshot /\ m = Upgraded(st)
  /\ place = "loaded" => st = m
  /\ place \in ServingPlaces \ {"replaced"} =>
       /\ "unsynced write" \notin bl => st = m
       /\ "unsynced contest" \notin bl => st \in Snapshot /\ st.refs \subseteq m.refs
  /\ place = "replaced" => st = w

UploadsAgree(place, m, w, up, bl) ==
  /\ place \in ServingPlaces =>
       ("unfinished reset" \notin bl => m.refs \subseteq up)
  /\ place \in {"serving", "deleting"} =>
       (bl \cap {"unfinished reset", "strays"} = {} => up \subseteq m.refs)
  /\ place \in Writing =>
       /\ m.refs \subseteq w.refs \/ (w.refs = {} /\ place # "moving")
       /\ bl \cap {"unfinished reset", "strays"} = {} => up \subseteq m.refs \cup w.refs
  /\ place \in Preparing =>
       ("unfinished reset" \notin bl => w.refs \subseteq up)

Resolves(st, up, bl) ==
  bl \cap Dangling = {} /\ st \notin {Unusable, Absent} => st.refs \subseteq up

(***************************************************************************)
(* What a process that works on the directory may rely on: what it saw or  *)
(* made of the files at an earlier step is still so.                       *)
(***************************************************************************)
Sees(p) ==
  /\ p \in Backends =>
       /\ StateAgrees(pc[p], mem[p], working[p], state, blame)
       /\ UploadsAgree(pc[p], mem[p], working[p], uploads, blame)
  /\ pc[p] \in {"state removed", "marker removed", "temps removed"} => state = Absent

DirectoryInv ==
  ~ orphaned => Resolves(state, uploads, blame) /\ \A p \in Processes : Sees(p)

(* Nobody relies on anything before it owns the directory and has read it. *)
Unread == {"down", "safe", "opened", "owner", "marked", "cleared", "released"}

LEMMA NothingSeen ==
  ASSUME NEW p \in Processes, pc[p] \in Unread
  PROVE  Sees(p)
BY DEF Sees, Unread, StateAgrees, UploadsAgree, ServingPlaces, Writing, Preparing

FileTypes ==
  /\ state \in Snapshot \cup {Unusable, Absent}
  /\ uploads \in SUBSET Ids
  /\ mem \in [Backends -> Snapshot]
  /\ working \in [Backends -> Snapshot]
  /\ marker \in BOOLEAN /\ temp \in BOOLEAN
  /\ blame \in SUBSET Faults

(* Steps that leave the files alone and say nothing about them. *)
Quiet(p) ==
  /\ \E place \in Unread : pc' = [pc EXCEPT ![p] = place]
  /\ UNCHANGED <<state, uploads, blame>>
  /\ \A b \in Backends : b # p => mem'[b] = mem[b] /\ working'[b] = working[b]
  /\ mem' \in [Backends -> Snapshot] /\ working' \in [Backends -> Snapshot]
  /\ marker' \in BOOLEAN /\ temp' \in BOOLEAN
  /\ orphaned => orphaned'

LEMMA QuietKeepsDirectory ==
  ASSUME LockTypes, DirectoryInv, NEW p \in Processes, Quiet(p)
  PROVE  DirectoryInv'
<1>1. PICK place \in Unread : pc' = [pc EXCEPT ![p] = place]
  BY DEF Quiet
<1>2. UNCHANGED <<state, uploads, blame>> /\ (orphaned => orphaned')
  BY DEF Quiet
<1>3. ASSUME ~ orphaned', NEW q \in Processes PROVE Sees(q)'
  <2>1. CASE q = p
    BY <1>1, <2>1, NothingSeen DEF LockTypes, Sees, Unread, StateAgrees, UploadsAgree,
                                   ServingPlaces, Writing, Preparing
  <2>2. CASE q # p
    <3>1. pc'[q] = pc[q] /\ (q \in Backends => mem'[q] = mem[q] /\ working'[q] = working[q])
      BY <1>1, <2>2 DEF LockTypes, Quiet
    <3> QED
      BY <1>2, <1>3, <3>1 DEF DirectoryInv, Sees
  <2> QED
    BY <2>1, <2>2
<1> QED
  BY <1>2, <1>3 DEF DirectoryInv

LEMMA SeedIsSnapshot == Seed \in Snapshot /\ Seed.refs = {} /\ Seed.rows = SeedRows
BY RuntimeAssumption DEF Seed, Snapshot

LEMMA SnapshotsAreFiles ==
  ASSUME NEW s \in Snapshot
  PROVE  /\ s \notin {Unusable, Absent}
         /\ s.refs \in SUBSET Ids
         /\ s.rows \in [Charges -> Row \cup {NoRow}]
BY RuntimeAssumption DEF Snapshot

LEMMA DefaultIsBreakdown ==
  ASSUME NEW amount \in Nat
  PROVE  DefaultCostBreakdown(amount) \in Breakdown
BY DEF DefaultCostBreakdown, Breakdown, TaxRate

(***************************************************************************)
(* What loading makes of a state: the same uploads, and every row itemised *)
(* if those that were itemised added up.                                   *)
(***************************************************************************)
Complete(s) == \A c \in Charges : s.rows[c] # NoRow => Itemised(s.rows[c])

Sound(s) ==
  \A c \in Charges :
    s.rows[c] # NoRow /\ s.rows[c].breakdown # NoBreakdown => Itemised(s.rows[c])

LEMMA RowParts ==
  ASSUME NEW row \in Row, NEW b \in Breakdown
  PROVE  /\ row.amount \in Nat /\ row # NoRow /\ b # NoBreakdown
         /\ LET new == [row EXCEPT !.breakdown = b]
            IN  new \in Row /\ new.amount = row.amount /\ new.breakdown = b
BY RuntimeAssumption DEF Row

LEMMA BackfilledRow ==
  ASSUME NEW c \in Charges, NEW row \in Row \cup {NoRow}
  PROVE  /\ Backfilled(c, row) \in Row \cup {NoRow}
         /\ (row # NoRow /\ row.breakdown # NoBreakdown => Itemised(row)) =>
              (Backfilled(c, row) # NoRow => Itemised(Backfilled(c, row)))
<1>1. CASE row = NoRow \/ row.breakdown # NoBreakdown
  BY <1>1 DEF Backfilled
<1>2. CASE ~ (row = NoRow \/ row.breakdown # NoBreakdown)
  <2> DEFINE b == IF SeedRows[c] # NoRow /\ SeedRows[c].amount = row.amount
                    THEN SeedRows[c].breakdown
                    ELSE DefaultCostBreakdown(row.amount)
  <2>1. row \in Row /\ row.amount \in Nat
    BY <1>2, RuntimeAssumption DEF Row
  <2>2. b \in Breakdown /\ b # NoBreakdown /\ AddsUp(b, row.amount)
    <3>1. CASE SeedRows[c] # NoRow /\ SeedRows[c].amount = row.amount
      <4>1. SeedRows[c] \in Row /\ Itemised(SeedRows[c])
        BY <3>1, RuntimeAssumption
      <4>2. SeedRows[c].breakdown \in Breakdown \cup {NoBreakdown}
        BY <4>1 DEF Row
      <4> QED
        BY <3>1, <4>1, <4>2 DEF Itemised
    <3>2. CASE ~ (SeedRows[c] # NoRow /\ SeedRows[c].amount = row.amount)
      BY <2>1, <3>2, DefaultIsBreakdown, DefaultAddsUp, RuntimeAssumption
    <3> QED
      BY <3>1, <3>2
  <2>3. Backfilled(c, row) = [row EXCEPT !.breakdown = b]
    BY <1>2 DEF Backfilled
  <2> HIDE DEF b
  <2> QED
    BY <2>1, <2>2, <2>3, RowParts DEF Itemised
<1> QED
  BY <1>1, <1>2

LEMMA UpgradedSnapshot ==
  ASSUME NEW s \in Snapshot
  PROVE  /\ Upgraded(s) \in Snapshot /\ Upgraded(s).refs = s.refs
         /\ Sound(s) => Complete(Upgraded(s))
<1>1. s.rows \in [Charges -> Row \cup {NoRow}]
  BY SnapshotsAreFiles
<1>2. Upgraded(s) = [rows |-> [c \in Charges |-> Backfilled(c, s.rows[c])], refs |-> s.refs]
  BY DEF Upgraded, Snapshot
<1>3. Upgraded(s) \in Snapshot
  BY <1>1, <1>2, BackfilledRow DEF Snapshot
<1>4. Sound(s) => Complete(Upgraded(s))
  BY <1>1, <1>2, BackfilledRow DEF Sound, Complete
<1> QED
  BY <1>2, <1>3, <1>4

RowsInv ==
  /\ state \notin {Unusable, Absent} => Sound(state)
  /\ \A b \in Backends :
       /\ pc[b] \in {"writing", "loaded"} \cup ServingPlaces => Complete(mem[b])
       /\ pc[b] \in Preparing => Complete(working[b])

RuntimeInv == LockInv /\ FileTypes /\ DirectoryInv /\ RowsInv

LEMMA CompleteIsSound ==
  ASSUME NEW s \in Snapshot, Complete(s)
  PROVE  Sound(s)
BY DEF Complete, Sound

LEMMA OldSnapshotsSound ==
  ASSUME NEW s \in OldSnapshots
  PROVE  s \in Snapshot /\ Sound(s)
<1>1. ASSUME NEW amount \in Amounts, NEW row \in OldRow(amount)
      PROVE  row \in Row /\ (row.breakdown # NoBreakdown => Itemised(row))
  <2>1. amount \in Nat
    BY RuntimeAssumption
  <2>2. DefaultCostBreakdown(amount) \in Breakdown /\ AddsUp(DefaultCostBreakdown(amount), amount)
    BY <2>1, DefaultIsBreakdown, DefaultAddsUp
  <2> QED
    BY <1>1, <2>2 DEF OldRow, Row, Itemised
<1>2. \A c \in Charges :
        s.rows[c] = NoRow \/ \E amount \in Amounts : s.rows[c] \in OldRow(amount)
  BY DEF OldSnapshots
<1>3. s.refs \in SUBSET Ids /\ s = [rows |-> s.rows, refs |-> s.refs]
      /\ s.rows = [c \in Charges |-> s.rows[c]]
  BY DEF OldSnapshots
<1>4. s.rows \in [Charges -> Row \cup {NoRow}]
  BY <1>1, <1>2, <1>3
<1> QED
  BY <1>1, <1>2, <1>3, <1>4 DEF Snapshot, Sound

LEMMA RuntimeInit == Init => RuntimeInv
<1> SUFFICES ASSUME Init PROVE RuntimeInv
  OBVIOUS
<1>1. FileTypes
  BY OldSnapshotsSound, SeedIsSnapshot DEF Init, FileTypes, Faults
<1>2. DirectoryInv
  <2>1. Resolves(state, uploads, blame)
    BY DEF Init, Resolves, Dangling
  <2>2. \A p \in Processes : pc[p] \in Unread
    BY DEF Init, Unread
  <2> QED
    BY <2>1, <2>2, NothingSeen DEF DirectoryInv
<1>3. RowsInv
  <2>1. \A b \in Backends : pc[b] = "down"
    BY DEF Init, Processes
  <2> QED
    BY <2>1, OldSnapshotsSound, RuntimeAssumption DEF Init, RowsInv, ServingPlaces, Preparing
<1> QED
  BY <1>1, <1>2, <1>3, LockInit DEF RuntimeInv

-----------------------------------------------------------------------------
(* The steps, and what each does to the files. *)

LEMMA QuietSteps ==
  ASSUME LockTypes, FileTypes, NEW p \in Processes,
         \/ Locking(p) \/ Dies(p)
         \/ p \in Backends /\ ( \/ WriteMarker(p) \/ ClearTemps(p) \/ LoadRefused(p)
                               \/ VerifyRefused(p) )
         \/ p \in Scripts /\ (AssertSafe(p) \/ Release(p) \/ UnlinkLock(p))
  PROVE  Quiet(p)
<1> USE DEF Goes, files, snapshots, Unread
<1>1. CASE OpenLock(p) \/ Flock(p) \/ FlockRefused(p)
  BY <1>1 DEF OpenLock, Flock, FlockRefused, Quiet, FileTypes
<1>2. Forgets(p) =>
        /\ \A b \in Backends : b # p => mem'[b] = mem[b] /\ working'[b] = working[b]
        /\ mem' \in [Backends -> Snapshot] /\ working' \in [Backends -> Snapshot]
  BY SeedIsSnapshot DEF Forgets, FileTypes
<1>3. CASE Dies(p)
  BY <1>2, <1>3 DEF Dies, Quiet, FileTypes
<1>4. CASE p \in Backends /\ (WriteMarker(p) \/ ClearTemps(p))
  <2>1. \E place \in Unread : pc' = [pc EXCEPT ![p] = place]
    BY <1>4 DEF WriteMarker, ClearTemps, Step
  <2>2. marker' \in {TRUE, marker} /\ temp' \in {FALSE, temp}
    BY <1>4 DEF WriteMarker, ClearTemps
  <2>3. UNCHANGED <<state, uploads, blame, mem, working, orphaned>>
    BY <1>4 DEF WriteMarker, ClearTemps
  <2> QED
    BY <2>1, <2>2, <2>3 DEF Quiet, FileTypes
<1>5. CASE p \in Backends /\ (LoadRefused(p) \/ VerifyRefused(p))
  BY <1>2, <1>5 DEF LoadRefused, VerifyRefused, Exits, Quiet, FileTypes
<1>6. CASE p \in Scripts /\ (AssertSafe(p) \/ Release(p) \/ UnlinkLock(p))
  <2>1. \E place \in Unread : pc' = [pc EXCEPT ![p] = place]
    BY <1>6 DEF AssertSafe, Release, UnlinkLock, ScriptStep
  <2>2. UNCHANGED <<state, uploads, blame, mem, working, marker, temp>>
    BY <1>6 DEF AssertSafe, Release, UnlinkLock
  <2>3. orphaned => orphaned'
    BY <1>6 DEF AssertSafe, Release, UnlinkLock
  <2> QED
    BY <2>1, <2>2, <2>3 DEF Quiet, FileTypes
<1> QED
  BY <1>1, <1>3, <1>4, <1>5, <1>6 DEF Locking

(***************************************************************************)
(* Others are not disturbed: where there is one owner, it takes the step.  *)
(***************************************************************************)
LEMMA ActiveKeepsDirectory ==
  ASSUME RuntimeInv, NEW p \in Processes, Owns(p), orphaned' = orphaned,
         \A q \in Processes : q # p => pc'[q] = pc[q],
         ~ orphaned => Sees(p)' /\ Resolves(state, uploads, blame)'
  PROVE  DirectoryInv'
<1>1. ASSUME ~ orphaned, NEW q \in Processes PROVE Sees(q)'
  <2>1. CASE q = p
    BY <1>1, <2>1
  <2>2. CASE q # p
    <3>1. ~ Owns(q)
      BY <1>1, <2>2, OneOwnerFollows DEF OneOwner, RuntimeInv
    <3>2. pc'[q] \in {"down", "safe", "opened", "released"}
      BY <2>2, <3>1 DEF Owns
    <3> QED
      BY <3>2 DEF Sees, StateAgrees, UploadsAgree, ServingPlaces, Writing, Preparing
  <2> QED
    BY <2>1, <2>2
<1> QED
  BY <1>1 DEF DirectoryInv

LEMMA OthersKeepRows ==
  ASSUME RuntimeInv, NEW p \in Processes,
         \A q \in Backends :
           q # p => pc'[q] = pc[q] /\ mem'[q] = mem[q] /\ working'[q] = working[q],
         p \in Backends /\ pc'[p] \in {"writing", "loaded"} \cup ServingPlaces
           => Complete(mem'[p]),
         p \in Backends /\ pc'[p] \in Preparing => Complete(working'[p]),
         state' \notin {Unusable, Absent} => Sound(state')
  PROVE  RowsInv'
<1>1. ASSUME NEW q \in Backends
      PROVE  /\ pc'[q] \in {"writing", "loaded"} \cup ServingPlaces => Complete(mem'[q])
             /\ pc'[q] \in Preparing => Complete(working'[q])
  <2>1. CASE q = p
    BY <2>1
  <2>2. CASE q # p
    BY <2>2 DEF RuntimeInv, RowsInv
  <2> QED
    BY <2>1, <2>2
<1> QED
  BY <1>1 DEF RowsInv, Sound, Complete

(***************************************************************************)
(* A step of a backend that works on the directory, which leaves it at a   *)
(* place with m in memory and w to be committed.                           *)
(***************************************************************************)
BackendMoves(b, place, m, w) ==
  /\ Owns(b)
  /\ pc' = [pc EXCEPT ![b] = place]
  /\ mem' = [mem EXCEPT ![b] = m]
  /\ working' = [working EXCEPT ![b] = w]
  /\ UNCHANGED <<marker, orphaned>>

LEMMA BackendRule ==
  ASSUME RuntimeInv, NEW b \in Backends, NEW place \in BackendPlaces,
         NEW m \in Snapshot, NEW w \in Snapshot,
         BackendMoves(b, place, m, w),
         state' \in Snapshot \cup {Unusable, Absent}, uploads' \in SUBSET Ids,
         temp' \in BOOLEAN, blame' \in SUBSET Faults,
         Complete(m), place \in Preparing => Complete(w),
         state' \notin {Unusable, Absent} => Sound(state'),
         ~ orphaned => /\ StateAgrees(place, m, w, state', blame')
                       /\ UploadsAgree(place, m, w, uploads', blame')
                       /\ Resolves(state', uploads', blame'),
         place \in {"writing", "loaded"} \cup ServingPlaces
  PROVE  FileTypes' /\ DirectoryInv' /\ RowsInv'
<1>1. b \in Processes /\ LockTypes /\ FileTypes
  BY DEF Processes, RuntimeInv, LockInv
<1>2. /\ pc'[b] = place /\ mem'[b] = m /\ working'[b] = w
      /\ \A q \in Processes : q # b => pc'[q] = pc[q]
      /\ \A q \in Backends : q # b => mem'[q] = mem[q] /\ working'[q] = working[q]
  BY <1>1 DEF BackendMoves, LockTypes, FileTypes
<1>3. FileTypes'
  BY <1>1 DEF BackendMoves, FileTypes
<1>4. DirectoryInv'
  <2>1. place \notin {"state removed", "marker removed", "temps removed"}
    BY DEF ServingPlaces
  <2>2. ~ orphaned => Sees(b)' /\ Resolves(state, uploads, blame)'
    BY <1>2, <2>1 DEF Sees, Resolves
  <2> QED
    BY <1>1, <1>2, <2>2, ActiveKeepsDirectory DEF BackendMoves
<1>5. RowsInv'
  <2>1. \A q \in Backends : q # b => pc'[q] = pc[q]
    BY <1>2 DEF Processes
  <2> QED
    BY <1>1, <1>2, <2>1, OthersKeepRows
<1> QED
  BY <1>3, <1>4, <1>5

(* What a backend that works on the directory knows of it. *)
Known(b, place) ==
  /\ b \in Processes /\ Owns(b) /\ pc[b] = place
  /\ mem[b] \in Snapshot /\ working[b] \in Snapshot
  /\ mem = [mem EXCEPT ![b] = mem[b]] /\ working = [working EXCEPT ![b] = working[b]]
  /\ FileTypes
  /\ state \notin {Unusable, Absent} => Sound(state)
  /\ place \in {"writing", "loaded"} \cup ServingPlaces => Complete(mem[b])
  /\ place \in Preparing => Complete(working[b])
  /\ ~ orphaned => /\ StateAgrees(place, mem[b], working[b], state, blame)
                   /\ UploadsAgree(place, mem[b], working[b], uploads, blame)
                   /\ Resolves(state, uploads, blame)

LEMMA BackendKnows ==
  ASSUME RuntimeInv, NEW b \in Backends, NEW place \in BackendPlaces, pc[b] = place,
         place \notin {"down", "opened"}
  PROVE  Known(b, place)
<1>1. b \in Processes /\ FileTypes
  BY DEF Processes, RuntimeInv
<1>2. Owns(b)
  BY DEF Owns, BackendPlaces, ServingPlaces
<1>3. /\ mem[b] \in Snapshot /\ working[b] \in Snapshot
      /\ mem = [mem EXCEPT ![b] = mem[b]] /\ working = [working EXCEPT ![b] = working[b]]
  BY <1>1 DEF FileTypes
<1>4. ~ orphaned => /\ StateAgrees(place, mem[b], working[b], state, blame)
                    /\ UploadsAgree(place, mem[b], working[b], uploads, blame)
                    /\ Resolves(state, uploads, blame)
  BY <1>1 DEF RuntimeInv, DirectoryInv, Sees
<1> QED
  BY <1>1, <1>2, <1>3, <1>4 DEF Known, RuntimeInv, RowsInv

LEMMA LoadKeeps ==
  ASSUME RuntimeInv, NEW b \in Backends, LoadState(b)
  PROVE  FileTypes' /\ DirectoryInv' /\ RowsInv'
<1> DEFINE snapshot == IF state = Absent THEN Seed ELSE Upgraded(state)
<1>1. Known(b, "cleared")
  BY BackendKnows DEF LoadState, BackendPlaces
<1>2. /\ mem' = [mem EXCEPT ![b] = snapshot]
      /\ UNCHANGED <<marker, state, uploads, working, orphaned, blame>>
  BY DEF LoadState
<1>3. /\ snapshot \in Snapshot /\ Complete(snapshot)
      /\ \/ state = Absent /\ snapshot.refs = {}
         \/ state \in Snapshot /\ snapshot = Upgraded(state)
  <2>1. CASE state = Absent
    BY <2>1, SeedIsSnapshot, RuntimeAssumption DEF Complete
  <2>2. CASE state # Absent
    <3>1. state \in Snapshot /\ Sound(state)
      BY <1>1, <2>2, SnapshotsAreFiles DEF LoadState, Known, FileTypes
    <3> QED
      BY <2>2, <3>1, UpgradedSnapshot
  <2> QED
    BY <2>1, <2>2
<1>4. PICK place \in {"loaded", "writing"} :
        /\ pc' = [pc EXCEPT ![b] = place]
        /\ temp' \in {TRUE, temp}
        /\ place = "loaded" => state = snapshot
  BY DEF LoadState, Goes
<1> HIDE DEF snapshot
<1>5. StateAgrees(place, snapshot, working[b], state', blame')
  BY <1>2, <1>3, <1>4 DEF StateAgrees, ServingPlaces
<1>6. UploadsAgree(place, snapshot, working[b], uploads', blame')
  BY <1>4 DEF UploadsAgree, ServingPlaces, Writing, Preparing
<1>7. BackendMoves(b, place, snapshot, working[b])
  BY <1>1, <1>2, <1>4 DEF Known, BackendMoves
<1>8. place \in BackendPlaces /\ place \notin Preparing
  BY DEF BackendPlaces, Preparing
<1>9. temp' \in BOOLEAN
  BY <1>1, <1>4 DEF Known, FileTypes
<1> QED
  BY <1>1, <1>2, <1>3, <1>5, <1>6, <1>7, <1>8, <1>9, BackendRule DEF Known, FileTypes

LEMMA ReplaceKeeps ==
  ASSUME RuntimeInv, NEW b \in Backends, ReplaceState(b)
  PROVE  FileTypes' /\ DirectoryInv' /\ RowsInv'
<1>1. Known(b, "writing")
  BY BackendKnows DEF ReplaceState, Step, BackendPlaces
<1>2. /\ pc' = [pc EXCEPT ![b] = "loaded"] /\ state' = mem[b] /\ temp' = FALSE
      /\ UNCHANGED <<marker, uploads, mem, working, orphaned, blame>>
  BY DEF ReplaceState, Step, Goes, snapshots
<1>3. ~ orphaned => Resolves(state', uploads', blame')
  BY <1>1, <1>2, SnapshotsAreFiles, UpgradedSnapshot
     DEF Known, StateAgrees, Resolves
<1>4. /\ StateAgrees("loaded", mem[b], working[b], state', blame')
      /\ UploadsAgree("loaded", mem[b], working[b], uploads', blame')
  BY <1>2 DEF StateAgrees, UploadsAgree, ServingPlaces, Writing, Preparing
<1>5. BackendMoves(b, "loaded", mem[b], working[b])
  BY <1>1, <1>2 DEF Known, BackendMoves
<1>6. "loaded" \in BackendPlaces /\ "loaded" \notin Preparing
  BY DEF BackendPlaces, Preparing
<1> QED
  BY <1>1, <1>2, <1>3, <1>4, <1>5, <1>6, CompleteIsSound, BackendRule DEF Known, FileTypes

(* The write on opening may fail, and after the replace. *)
LEMMA WriteRefusedKeeps ==
  ASSUME RuntimeInv, NEW b \in Backends, WriteRefused(b)
  PROVE  FileTypes' /\ DirectoryInv' /\ RowsInv'
<1>1. Known(b, "writing")
  BY BackendKnows DEF WriteRefused, BackendPlaces
<1>2. /\ pc' = [pc EXCEPT ![b] = "down"] /\ state' \in {state, mem[b]} /\ temp' = FALSE
      /\ Forgets(b)
      /\ UNCHANGED <<marker, uploads, orphaned, blame>>
  BY DEF WriteRefused, Exits, Goes
<1>3. /\ \A q \in Backends : q # b => mem'[q] = mem[q] /\ working'[q] = working[q]
      /\ mem' \in [Backends -> Snapshot] /\ working' \in [Backends -> Snapshot]
  BY <1>1, <1>2, SeedIsSnapshot DEF Forgets, Known, FileTypes
<1>4. /\ \A q \in Processes : q # b => pc'[q] = pc[q]
      /\ pc'[b] = "down"
  BY <1>1, <1>2 DEF RuntimeInv, LockInv, LockTypes, Known
<1>5. FileTypes'
  BY <1>1, <1>2, <1>3 DEF Known, FileTypes
<1>6. DirectoryInv'
  <2>1. ~ orphaned => Resolves(state', uploads', blame')
    BY <1>1, <1>2, SnapshotsAreFiles, UpgradedSnapshot DEF Known, StateAgrees, Resolves
  <2>2. Sees(b)'
    BY <1>4 DEF Sees, StateAgrees, UploadsAgree, ServingPlaces, Writing, Preparing
  <2> QED
    BY <1>1, <1>2, <1>4, <2>1, <2>2, ActiveKeepsDirectory DEF Known, Resolves
<1>7. RowsInv'
  <2>1. "down" \notin {"writing", "loaded"} \cup ServingPlaces /\ "down" \notin Preparing
    BY DEF ServingPlaces, Preparing
  <2>2. state' \notin {Unusable, Absent} => Sound(state')
    BY <1>1, <1>2, CompleteIsSound DEF Known
  <2>3. \A q \in Backends : q # b => pc'[q] = pc[q]
    BY <1>4 DEF Processes
  <2> QED
    BY <1>1, <1>3, <1>4, <2>1, <2>2, <2>3, OthersKeepRows DEF Known
<1> QED
  BY <1>5, <1>6, <1>7

LEMMA SweepKeeps ==
  ASSUME RuntimeInv, NEW b \in Backends, Sweep(b)
  PROVE  FileTypes' /\ DirectoryInv' /\ RowsInv'
<1>1. Known(b, "loaded")
  BY BackendKnows DEF Sweep, Step, BackendPlaces
<1>2. /\ pc' = [pc EXCEPT ![b] = "serving"] /\ uploads' = mem[b].refs /\ blame' = {}
      /\ UNCHANGED <<marker, state, temp, mem, working, orphaned>>
  BY DEF Sweep, Step, Goes, snapshots
<1>3. ~ orphaned => /\ StateAgrees("serving", mem[b], working[b], state', blame')
                    /\ Resolves(state', uploads', blame')
  BY <1>1, <1>2 DEF Known, StateAgrees, Resolves
<1>4. UploadsAgree("serving", mem[b], working[b], uploads', blame')
  BY <1>2 DEF UploadsAgree, Writing, Preparing
<1>5. BackendMoves(b, "serving", mem[b], working[b])
  BY <1>1, <1>2 DEF Known, BackendMoves
<1>6. "serving" \in ServingPlaces /\ "serving" \in BackendPlaces /\ "serving" \notin Preparing
  BY DEF BackendPlaces, ServingPlaces, Preparing
<1>7. uploads' \in SUBSET Ids
  BY <1>1, <1>2, SnapshotsAreFiles DEF Known
<1> QED
  BY <1>1, <1>2, <1>3, <1>4, <1>5, <1>6, <1>7, BackendRule DEF Known, FileTypes

-----------------------------------------------------------------------------
(* A serving backend. *)

LEMMA ServingKnows ==
  ASSUME RuntimeInv, NEW b \in Backends,
         NEW from \in ServingPlaces, NEW to, ServingStep(b, from, to)
  PROVE  Known(b, from)
<1>1. from \in BackendPlaces /\ from \notin {"down", "opened"}
  BY DEF BackendPlaces, ServingPlaces
<1> QED
  BY <1>1, BackendKnows DEF ServingStep, Step

LEMMA ServingRule ==
  ASSUME RuntimeInv, NEW b \in Backends,
         NEW from \in ServingPlaces, NEW to \in ServingPlaces, ServingStep(b, from, to),
         NEW m \in Snapshot, NEW w \in Snapshot,
         mem' = [mem EXCEPT ![b] = m], working' = [working EXCEPT ![b] = w],
         state' \in Snapshot \cup {Unusable, Absent}, uploads' \in SUBSET Ids,
         temp' \in BOOLEAN, blame' \in SUBSET Faults,
         Complete(m), to \in Preparing => Complete(w),
         state' \notin {Unusable, Absent} => Sound(state'),
         ~ orphaned => /\ StateAgrees(to, m, w, state', blame')
                       /\ UploadsAgree(to, m, w, uploads', blame')
                       /\ Resolves(state', uploads', blame')
  PROVE  FileTypes' /\ DirectoryInv' /\ RowsInv'
<1>1. to \in BackendPlaces
  BY DEF BackendPlaces
<1>2. pc' = [pc EXCEPT ![b] = to] /\ UNCHANGED <<marker, orphaned>>
  BY DEF ServingStep, Step, Goes
<1>3. BackendMoves(b, to, m, w)
  BY <1>2, ServingKnows DEF BackendMoves, Known
<1> QED
  BY <1>1, <1>3, BackendRule

(***************************************************************************)
(* A write begins with a snapshot that references no file or those in      *)
(* memory at least, and only such as are there.                            *)
(***************************************************************************)
LEMMA WritingKeeps ==
  ASSUME RuntimeInv, NEW b \in Backends, NEW from \in {"serving", "moving", "deleting"},
         NEW w \in Snapshot, StartsWriting(b, from, w), Complete(w),
         \/ from = "moving" /\ w = working[b]
         \/ from = "serving" /\ w.refs = mem[b].refs
         \/ w.refs = {} /\ from # "moving"
  PROVE  FileTypes' /\ DirectoryInv' /\ RowsInv'
<1>1. from \in ServingPlaces /\ "persisting" \in ServingPlaces /\ ServingStep(b, from, "persisting")
  BY DEF ServingPlaces, StartsWriting
<1>2. Known(b, from)
  BY <1>1, ServingKnows
<1>3. /\ working' = [working EXCEPT ![b] = w] /\ temp' = TRUE
      /\ UNCHANGED <<state, uploads, mem, blame>>
  BY DEF StartsWriting
<1>4. ~ orphaned => /\ StateAgrees("persisting", mem[b], w, state, blame)
                    /\ UploadsAgree("persisting", mem[b], w, uploads, blame)
  BY <1>2 DEF Known, StateAgrees, UploadsAgree, ServingPlaces, Writing, Preparing
<1>5. Complete(mem[b]) /\ mem' = [mem EXCEPT ![b] = mem[b]]
  BY <1>1, <1>2, <1>3 DEF Known
<1> QED
  BY <1>1, <1>2, <1>3, <1>4, <1>5, ServingRule DEF Known, FileTypes

LEMMA StartsKeep ==
  ASSUME RuntimeInv, NEW b \in Backends,
         DevRaiseCharge(b) \/ OtherCommit(b) \/ WriteMoved(b) \/ ResetWrites(b)
  PROVE  FileTypes' /\ DirectoryInv' /\ RowsInv'
<1>1. mem[b] \in Snapshot /\ working[b] \in Snapshot
  BY DEF RuntimeInv, FileTypes
<1>2. /\ pc[b] = "serving" => Complete(mem[b])
      /\ pc[b] = "moving" => Complete(working[b])
  BY DEF RuntimeInv, RowsInv, ServingPlaces, Preparing
<1>3. CASE DevRaiseCharge(b)
  <2>1. PICK c \in Charges, amount \in Amounts :
          StartsWriting(b, "serving",
            [mem[b] EXCEPT !.rows[c] =
               [amount |-> amount, breakdown |-> DefaultCostBreakdown(amount)]])
    BY <1>3 DEF DevRaiseCharge
  <2> DEFINE row == [amount |-> amount, breakdown |-> DefaultCostBreakdown(amount)]
             snapshot == [mem[b] EXCEPT !.rows[c] = row]
  <2>2. amount \in Nat
    BY RuntimeAssumption
  <2>3. row \in Row /\ Itemised(row)
    BY <2>2, DefaultIsBreakdown, DefaultAddsUp, RuntimeAssumption DEF Row, Itemised
  <2> HIDE DEF row
  <2>4. /\ snapshot \in Snapshot /\ snapshot.refs = mem[b].refs
        /\ snapshot.rows = [mem[b].rows EXCEPT ![c] = row]
        /\ mem[b].rows \in [Charges -> Row \cup {NoRow}]
    BY <1>1, <2>3 DEF Snapshot
  <2>5. pc[b] = "serving"
    BY <2>1 DEF StartsWriting, ServingStep, Step
  <2>6. Complete(snapshot)
    BY <1>2, <2>3, <2>4, <2>5 DEF Complete
  <2>7. StartsWriting(b, "serving", snapshot)
    BY <2>1 DEF snapshot, row
  <2> HIDE DEF snapshot
  <2> QED
    BY <2>4, <2>6, <2>7, WritingKeeps
<1>4. CASE OtherCommit(b)
  BY <1>1, <1>2, <1>4, WritingKeeps DEF OtherCommit, StartsWriting, ServingStep, Step
<1>5. CASE WriteMoved(b)
  BY <1>1, <1>2, <1>5, WritingKeeps DEF WriteMoved, StartsWriting, ServingStep, Step
<1>6. CASE ResetWrites(b)
  <2>1. Complete(Seed)
    BY SeedIsSnapshot, RuntimeAssumption DEF Complete
  <2> QED
    BY <1>6, <2>1, SeedIsSnapshot, WritingKeeps DEF ResetWrites
<1> QED
  BY <1>3, <1>4, <1>5, <1>6

(***************************************************************************)
(* The end of a write: replaced and committed, or failed and rolled back.  *)
(***************************************************************************)
LEMMA EndsKeep ==
  ASSUME RuntimeInv, NEW b \in Backends,
         ReplaceFile(b) \/ Commits(b) \/ WriteFails(b) \/ SyncFails(b) \/ RollBack(b)
  PROVE  FileTypes' /\ DirectoryInv' /\ RowsInv'
<1> DEFINE m == mem[b]
           w == working[b]
<1>0. /\ {"serving", "persisting", "replaced", "rolling back"} \subseteq ServingPlaces
      /\ {"serving", "rolling back"} \cap Preparing = {}
      /\ {"persisting", "replaced"} \subseteq Preparing
  BY DEF ServingPlaces, Preparing
<1>1. CASE ReplaceFile(b)
  <2>1. ServingStep(b, "persisting", "replaced") /\ Known(b, "persisting")
    BY <1>0, <1>1, ServingKnows DEF ReplaceFile
  <2>2. state' = w /\ temp' = FALSE /\ UNCHANGED <<uploads, mem, working, blame>>
    BY <1>1 DEF ReplaceFile, snapshots
  <2>3. ~ orphaned => /\ StateAgrees("replaced", m, w, state', blame')
                      /\ UploadsAgree("replaced", m, w, uploads', blame')
                      /\ Resolves(state', uploads', blame')
    BY <2>1, <2>2
       DEF Known, StateAgrees, UploadsAgree, Resolves, ServingPlaces, Writing, Preparing, Dangling
  <2> QED
    BY <1>0, <2>1, <2>2, <2>3, CompleteIsSound, ServingRule DEF Known, FileTypes
<1>2. CASE Commits(b)
  <2>1. ServingStep(b, "replaced", "serving") /\ Known(b, "replaced")
    BY <1>0, <1>2, ServingKnows DEF Commits
  <2>2. /\ mem' = [mem EXCEPT ![b] = w] /\ working' = [working EXCEPT ![b] = Seed]
        /\ blame' = IF w.refs # {} THEN blame \ {"unsynced write", "unsynced contest"}
                    ELSE IF uploads = {} THEN {} ELSE {"strays"}
        /\ UNCHANGED <<state, temp, uploads>>
    BY <1>2 DEF Commits
  <2>3. w \in Snapshot /\ (~ orphaned => state = w)
    BY <2>1 DEF Known, StateAgrees
  <2>4. ~ orphaned => StateAgrees("serving", w, Seed, state', blame')
    BY <2>2, <2>3 DEF StateAgrees
  <2>5. ~ orphaned => UploadsAgree("serving", w, Seed, uploads', blame')
    <3>1. CASE w.refs = {}
      BY <2>2, <3>1 DEF UploadsAgree, Writing, Preparing
    <3>2. CASE w.refs # {}
      BY <2>1, <2>2, <3>2 DEF Known, UploadsAgree, Writing, Preparing, ServingPlaces
    <3> QED
      BY <3>1, <3>2
  <2>6. ~ orphaned => Resolves(state', uploads', blame')
    <3>1. CASE w.refs = {}
      BY <2>2, <2>3, <3>1 DEF Resolves
    <3>2. CASE w.refs # {}
      BY <2>1, <2>2, <2>3, <3>2 DEF Known, UploadsAgree, Resolves, Preparing, Dangling
    <3> QED
      BY <3>1, <3>2
  <2>7. blame' \in SUBSET Faults
    BY <2>1, <2>2 DEF Known, FileTypes, Faults
  <2> QED
    BY <1>0, <2>1, <2>2, <2>4, <2>5, <2>6, <2>7, SeedIsSnapshot, ServingRule
       DEF Known, FileTypes
<1>3. CASE WriteFails(b)
  <2>1. ServingStep(b, "persisting", "rolling back") /\ Known(b, "persisting")
    BY <1>0, <1>3, ServingKnows DEF WriteFails
  <2>2. temp' = FALSE /\ UNCHANGED <<state, uploads, mem, working, blame>>
    BY <1>3 DEF WriteFails, snapshots
  <2>3. ~ orphaned => /\ StateAgrees("rolling back", m, w, state', blame')
                      /\ UploadsAgree("rolling back", m, w, uploads', blame')
    BY <2>1, <2>2 DEF Known, StateAgrees, UploadsAgree, ServingPlaces, Writing, Preparing
  <2> QED
    BY <1>0, <2>1, <2>2, <2>3, ServingRule DEF Known, FileTypes
<1>4. CASE SyncFails(b)
  <2>1. ServingStep(b, "replaced", "rolling back") /\ Known(b, "replaced")
    BY <1>0, <1>4, ServingKnows DEF SyncFails
  <2>2. /\ blame' = blame \cup {"unsynced write"}
                    \cup (IF w.refs \ m.refs = {} THEN {} ELSE {"unsynced contest"})
        /\ UNCHANGED <<state, temp, uploads, mem, working>>
    BY <1>4 DEF SyncFails, snapshots, Fresh
  <2>3. ~ orphaned => StateAgrees("rolling back", m, w, state', blame')
    BY <2>1, <2>2 DEF Known, StateAgrees, ServingPlaces
  <2>4. ~ orphaned => UploadsAgree("rolling back", m, w, uploads', blame')
    BY <2>1, <2>2 DEF Known, UploadsAgree, ServingPlaces, Writing, Preparing
  <2>5. ~ orphaned => Resolves(state', uploads', blame')
    BY <2>1, <2>2 DEF Known, Resolves
  <2>6. blame' \in SUBSET Faults
    BY <2>1, <2>2 DEF Known, FileTypes, Faults
  <2> QED
    BY <1>0, <2>1, <2>2, <2>3, <2>4, <2>5, <2>6, ServingRule DEF Known, FileTypes
<1>5. CASE RollBack(b)
  <2>0. Known(b, "rolling back")
    BY <1>0, <1>5, ServingKnows DEF RollBack
  <2>1. ASSUME NEW id \in (w.refs \ m.refs) \cap uploads, uploads' = uploads \ {id},
               ServingStep(b, "rolling back", "rolling back"),
               UNCHANGED <<state, temp, mem, working, blame>>
        PROVE  FileTypes' /\ DirectoryInv' /\ RowsInv'
    <3>1. ~ orphaned => StateAgrees("rolling back", m, w, state', blame')
      BY <2>0, <2>1 DEF Known
    <3>2. ~ orphaned => UploadsAgree("rolling back", m, w, uploads', blame')
      BY <2>0, <2>1 DEF Known, UploadsAgree, Writing, Preparing, ServingPlaces
    <3>3. ~ orphaned => Resolves(state', uploads', blame')
      BY <1>0, <2>0, <2>1 DEF Known, StateAgrees, UploadsAgree, Resolves, Dangling
    <3>4. uploads' \in SUBSET Ids
      BY <2>0, <2>1 DEF Known, FileTypes
    <3> QED
      BY <1>0, <2>0, <2>1, <3>1, <3>2, <3>3, <3>4, ServingRule DEF Known, FileTypes
  <2>2. ASSUME ServingStep(b, "rolling back", "serving"), (w.refs \ m.refs) \cap uploads = {},
               working' = [working EXCEPT ![b] = Seed],
               UNCHANGED <<state, temp, uploads, mem, blame>>
        PROVE  FileTypes' /\ DirectoryInv' /\ RowsInv'
    <3>1. ~ orphaned => /\ StateAgrees("serving", m, Seed, state', blame')
                        /\ UploadsAgree("serving", m, Seed, uploads', blame')
      BY <1>0, <2>0, <2>2 DEF Known, StateAgrees, UploadsAgree, Writing, Preparing
    <3> QED
      BY <1>0, <2>0, <2>2, <3>1, SeedIsSnapshot, ServingRule DEF Known, FileTypes
  <2> QED
    BY <1>5, <2>1, <2>2 DEF RollBack, Fresh, snapshots
<1> QED
  BY <1>1, <1>2, <1>3, <1>4, <1>5

(* A contest moves its files; a reset deletes what there is. *)
LEMMA FilesKeep ==
  ASSUME RuntimeInv, NEW b \in Backends,
         ContestBegins(b) \/ MoveFile(b) \/ MoveFails(b) \/ ResetBegins(b) \/ DeleteUpload(b)
  PROVE  FileTypes' /\ DirectoryInv' /\ RowsInv'
<1> DEFINE m == mem[b]
           w == working[b]
<1>0. /\ {"serving", "moving", "deleting"} \subseteq ServingPlaces
      /\ {"serving", "deleting"} \cap Preparing = {} /\ "moving" \in Preparing
  BY DEF ServingPlaces, Preparing
<1>1. CASE ContestBegins(b)
  <2>1. ServingStep(b, "serving", "moving") /\ Known(b, "serving")
    BY <1>0, <1>1, ServingKnows DEF ContestBegins
  <2>2. working' = [working EXCEPT ![b] = m] /\ UNCHANGED <<state, temp, uploads, mem, blame>>
    BY <1>1 DEF ContestBegins
  <2>3. ~ orphaned => /\ StateAgrees("moving", m, m, state', blame')
                      /\ UploadsAgree("moving", m, m, uploads', blame')
    BY <2>1, <2>2 DEF Known, StateAgrees, UploadsAgree, ServingPlaces, Writing, Preparing
  <2> QED
    BY <1>0, <2>1, <2>2, <2>3, ServingRule DEF Known, FileTypes
<1>2. CASE MoveFile(b)
  <2>1. ServingStep(b, "moving", "moving") /\ Known(b, "moving")
    BY <1>0, <1>2, ServingKnows DEF MoveFile
  <2>2. PICK id \in Ids : /\ uploads' = uploads \cup {id}
                          /\ working' = [working EXCEPT ![b].refs = @ \cup {id}]
    BY <1>2 DEF MoveFile
  <2> DEFINE new == [w EXCEPT !.refs = @ \cup {id}]
  <2>3. new \in Snapshot /\ new.refs = w.refs \cup {id} /\ new.rows = w.rows
    BY <2>1 DEF Known, Snapshot
  <2>4. working' = [working EXCEPT ![b] = new] /\ UNCHANGED <<state, temp, mem, blame>>
    BY <1>2, <2>2 DEF MoveFile
  <2> HIDE DEF new
  <2>5. ~ orphaned => StateAgrees("moving", m, new, state', blame')
    <3>1. ~ orphaned => StateAgrees("moving", m, w, state, blame)
      BY <2>1 DEF Known
    <3> HIDE DEF m, w
    <3> QED
      BY <2>4, <3>1 DEF StateAgrees, ServingPlaces
  <2>6. ~ orphaned => UploadsAgree("moving", m, new, uploads', blame')
    <3>1. ~ orphaned => UploadsAgree("moving", m, w, uploads, blame)
      BY <2>1 DEF Known
    <3>2. new.refs = w.refs \cup {id} /\ uploads' = uploads \cup {id} /\ blame' = blame
      BY <2>2, <2>3, <2>4
    <3> HIDE DEF m, w
    <3> QED
      BY <3>1, <3>2 DEF UploadsAgree, ServingPlaces, Writing, Preparing
  <2>7. ~ orphaned => Resolves(state', uploads', blame')
    BY <2>1, <2>2, <2>4 DEF Known, Resolves
  <2>8. Complete(new) /\ uploads' \in SUBSET Ids
    BY <1>0, <2>1, <2>2, <2>3 DEF Known, Complete, FileTypes
  <2> QED
    BY <1>0, <2>1, <2>3, <2>4, <2>5, <2>6, <2>7, <2>8, ServingRule DEF Known, FileTypes
<1>3. CASE MoveFails(b)
  <2>1. ServingStep(b, "moving", "serving") /\ Known(b, "moving")
    BY <1>0, <1>3, ServingKnows DEF MoveFails
  <2>2. /\ working' = [working EXCEPT ![b] = Seed]
        /\ blame' = IF w.refs \ m.refs = {} THEN blame ELSE blame \cup {"strays"}
        /\ UNCHANGED <<state, temp, uploads, mem>>
    BY <1>3 DEF MoveFails, Fresh
  <2>3. ~ orphaned => StateAgrees("serving", m, Seed, state', blame')
    BY <2>1, <2>2 DEF Known, StateAgrees, ServingPlaces
  <2>4. ~ orphaned => UploadsAgree("serving", m, Seed, uploads', blame')
    BY <2>1, <2>2 DEF Known, UploadsAgree, ServingPlaces, Writing, Preparing
  <2>5. ~ orphaned => Resolves(state', uploads', blame')
    BY <2>1, <2>2 DEF Known, Resolves, Dangling
  <2>6. blame' \in SUBSET Faults
    BY <2>1, <2>2 DEF Known, FileTypes, Faults
  <2> QED
    BY <1>0, <2>1, <2>2, <2>3, <2>4, <2>5, <2>6, SeedIsSnapshot, ServingRule
       DEF Known, FileTypes
<1>4. CASE ResetBegins(b)
  <2>1. ServingStep(b, "serving", "deleting") /\ Known(b, "serving")
    BY <1>0, <1>4, ServingKnows DEF ResetBegins
  <2>2. UNCHANGED <<state, temp, uploads, mem, working, blame>>
    BY <1>4 DEF ResetBegins, snapshots
  <2>3. ~ orphaned => /\ StateAgrees("deleting", m, w, state', blame')
                      /\ UploadsAgree("deleting", m, w, uploads', blame')
    BY <2>1, <2>2 DEF Known, StateAgrees, UploadsAgree, ServingPlaces, Writing, Preparing
  <2> QED
    BY <1>0, <2>1, <2>2, <2>3, ServingRule DEF Known, FileTypes
<1>5. CASE DeleteUpload(b)
  <2>1. ServingStep(b, "deleting", "deleting") /\ Known(b, "deleting")
    BY <1>0, <1>5, ServingKnows DEF DeleteUpload
  <2>2. /\ uploads' \subseteq uploads /\ blame' = blame \cup {"unfinished reset"}
        /\ UNCHANGED <<state, temp, mem, working>>
    BY <1>5 DEF DeleteUpload, snapshots
  <2>3. ~ orphaned => StateAgrees("deleting", m, w, state', blame')
    BY <2>1, <2>2 DEF Known, StateAgrees, ServingPlaces
  <2>4. UploadsAgree("deleting", m, w, uploads', blame') /\ Resolves(state', uploads', blame')
    BY <2>2 DEF UploadsAgree, Resolves, Writing, Preparing, Dangling
  <2>5. blame' \in SUBSET Faults /\ uploads' \in SUBSET Ids
    BY <2>1, <2>2 DEF Known, FileTypes, Faults
  <2> QED
    BY <1>0, <2>1, <2>2, <2>3, <2>4, <2>5, ServingRule DEF Known, FileTypes
<1> QED
  BY <1>1, <1>2, <1>3, <1>4, <1>5

LEMMA ServingKeeps ==
  ASSUME RuntimeInv, NEW b \in Backends, Serving(b)
  PROVE  FileTypes' /\ DirectoryInv' /\ RowsInv'
BY StartsKeep, EndsKeep, FilesKeep DEF Serving

-----------------------------------------------------------------------------
(* The script, and all the rest. *)

LEMMA RemovingKeeps ==
  ASSUME RuntimeInv, NEW s \in Scripts, Removing(s)
  PROVE  FileTypes' /\ DirectoryInv' /\ RowsInv'
<1>1. /\ s \in Processes /\ s \notin Backends /\ Owns(s)
      /\ LockTypes /\ FileTypes /\ UNCHANGED <<mem, working, orphaned, blame>>
  BY RuntimeAssumption, RemovingStep
     DEF Processes, RuntimeInv, LockInv, Removing, RemoveState, RemoveMarker, RemoveTemps,
         RemoveUpload, snapshots
<1>2. /\ state' = Absent \/ (state' = state /\ pc[s] \notin {"owner"})
      /\ pc[s] \in {"owner", "state removed", "marker removed", "temps removed"}
      /\ \/ pc' = pc
         \/ \E place \in {"state removed", "marker removed", "temps removed"} :
              pc' = [pc EXCEPT ![s] = place]
  BY DEF Removing, RemoveState, RemoveMarker, RemoveTemps, RemoveUpload, ScriptStep, Goes
<1>3. /\ marker' \in {FALSE, marker} /\ temp' \in {FALSE, temp}
      /\ uploads' \subseteq uploads
  BY DEF Removing, RemoveState, RemoveMarker, RemoveTemps, RemoveUpload
<1>4. FileTypes'
  BY <1>1, <1>2, <1>3 DEF FileTypes
<1>5. DirectoryInv'
  <2>1. ASSUME ~ orphaned PROVE Sees(s)' /\ Resolves(state, uploads, blame)'
    <3>1. state' = Absent
      BY <1>1, <1>2, <2>1 DEF RuntimeInv, DirectoryInv, Sees
    <3> QED
      BY <1>1, <3>1 DEF Sees, Resolves
  <2>2. \A q \in Processes : q # s => pc'[q] = pc[q]
    BY <1>1, <1>2 DEF LockTypes
  <2> QED
    BY <1>1, <2>1, <2>2, ActiveKeepsDirectory
<1>6. RowsInv'
  <2>1. \A q \in Backends : q # s => pc'[q] = pc[q] /\ mem'[q] = mem[q] /\ working'[q] = working[q]
    BY <1>1, <1>2 DEF LockTypes, Processes
  <2>2. state' \notin {Unusable, Absent} => Sound(state')
    BY <1>2 DEF RuntimeInv, RowsInv
  <2> QED
    BY <1>1, <2>1, <2>2, OthersKeepRows
<1> QED
  BY <1>4, <1>5, <1>6

LEMMA QuietKeeps ==
  ASSUME RuntimeInv, NEW p \in Processes, Quiet(p)
  PROVE  FileTypes' /\ DirectoryInv' /\ RowsInv'
<1>1. LockTypes /\ FileTypes /\ UNCHANGED <<state, uploads, blame>>
  BY DEF RuntimeInv, LockInv, Quiet
<1>2. PICK place \in Unread : pc' = [pc EXCEPT ![p] = place]
  BY DEF Quiet
<1>3. FileTypes'
  BY <1>1 DEF FileTypes, Quiet
<1>4. DirectoryInv'
  BY <1>1, QuietKeepsDirectory DEF RuntimeInv
<1>5. RowsInv'
  <2>1. \A q \in Backends : q # p => pc'[q] = pc[q] /\ mem'[q] = mem[q] /\ working'[q] = working[q]
    BY <1>1, <1>2 DEF LockTypes, Processes, Quiet
  <2>2. pc'[p] = place
    BY <1>1, <1>2 DEF LockTypes
  <2>3. place \notin {"writing", "loaded"} \cup ServingPlaces /\ place \notin Preparing
    BY DEF Unread, ServingPlaces, Preparing
  <2>4. state' \notin {Unusable, Absent} => Sound(state')
    BY <1>1 DEF RuntimeInv, RowsInv
  <2> QED
    BY <2>1, <2>2, <2>3, <2>4, OthersKeepRows
<1> QED
  BY <1>3, <1>4, <1>5

LEMMA NextKeepsRuntime == RuntimeInv /\ [Next]_vars => RuntimeInv'
<1> SUFFICES ASSUME RuntimeInv, [Next]_vars PROVE FileTypes' /\ DirectoryInv' /\ RowsInv'
  BY NextKeepsLock DEF RuntimeInv
<1>1. LockTypes /\ FileTypes
  BY DEF RuntimeInv, LockInv
<1>2. ASSUME NEW p \in Processes, Locking(p) \/ Dies(p)
      PROVE  FileTypes' /\ DirectoryInv' /\ RowsInv'
  BY <1>1, <1>2, QuietSteps, QuietKeeps
<1>3. ASSUME NEW b \in Backends, Opening(b) \/ Serving(b)
      PROVE  FileTypes' /\ DirectoryInv' /\ RowsInv'
  <2>1. b \in Processes
    BY DEF Processes
  <2>2. CASE WriteMarker(b) \/ ClearTemps(b) \/ LoadRefused(b) \/ VerifyRefused(b)
    BY <1>1, <2>1, <2>2, QuietSteps, QuietKeeps
  <2> QED
    BY <1>3, <2>2, LoadKeeps, ReplaceKeeps, WriteRefusedKeeps, SweepKeeps, ServingKeeps
       DEF Opening
<1>4. ASSUME NEW s \in Scripts, Resetting(s)
      PROVE  FileTypes' /\ DirectoryInv' /\ RowsInv'
  <2>1. s \in Processes
    BY DEF Processes
  <2>2. CASE AssertSafe(s) \/ Release(s) \/ UnlinkLock(s)
    BY <1>1, <2>1, <2>2, QuietSteps, QuietKeeps
  <2> QED
    BY <1>4, <2>2, RemovingKeeps DEF Resetting, Removing
<1>5. CASE UNCHANGED vars
  <2>1. UNCHANGED <<pc, marker, state, temp, uploads, mem, working, orphaned, blame>>
    BY <1>5 DEF vars, files, snapshots
  <2>2. FileTypes'
    BY <1>1, <2>1 DEF FileTypes
  <2>3. DirectoryInv'
    BY <2>1 DEF RuntimeInv, DirectoryInv, Sees
  <2>4. RowsInv'
    BY <2>1 DEF RuntimeInv, RowsInv, Sound, Complete
  <2> QED
    BY <2>2, <2>3, <2>4
<1> QED
  BY <1>2, <1>3, <1>4, <1>5 DEF Next

LEMMA AlwaysRuntimeInv == Spec => []RuntimeInv
BY RuntimeInit, NextKeepsRuntime, PTL DEF Spec

(***************************************************************************)
(* Wherever a backend or a script is killed, whichever of its writes and   *)
(* moves have failed, the references of the state that is there resolve to *)
(* files that are there.  Excused are a reset over HTTP that deleted files *)
(* and did not replace the state, and a contest that was rolled back after *)
(* its write had replaced it.                                              *)
(***************************************************************************)
THEOREM DirectoryStaysWhole == Spec => []ReferencesResolve
<1>1. RuntimeInv => ReferencesResolve
  BY DEF RuntimeInv, DirectoryInv, Resolves, ReferencesResolve
<1> QED
  BY <1>1, AlwaysRuntimeInv, PTL

(***************************************************************************)
(* Between the requests of a serving backend, state.json holds what it has *)
(* in memory unless the fsync of its last write failed, and the uploads    *)
(* directory what that references unless it left strays or files of an     *)
(* unfinished reset: neither a script that removes what it finds nor a     *)
(* second backend gets at the directory of a live one, unless a script has *)
(* unlinked the lock file under it, and a write that fails or a contest    *)
(* that is rolled back leaves the three as they were.                      *)
(***************************************************************************)
THEOREM ServesWhatItHolds == Spec => []ServesTheDirectory
<1>1. RuntimeInv => ServesTheDirectory
  <2> SUFFICES ASSUME RuntimeInv, ~ orphaned, NEW b \in Backends, pc[b] = "serving"
               PROVE  /\ "unsynced write" \notin blame => state = mem[b]
                      /\ blame \cap {"unfinished reset", "strays"} = {} => uploads = mem[b].refs
    BY DEF ServesTheDirectory
  <2>1. Known(b, "serving")
    BY BackendKnows DEF BackendPlaces, ServingPlaces
  <2> QED
    BY <2>1 DEF Known, StateAgrees, UploadsAgree, ServingPlaces
<1> QED
  BY <1>1, AlwaysRuntimeInv, PTL

(***************************************************************************)
(* A backend that serves has itemised every charge, to the last minor      *)
(* unit, whatever amounts an older build left in the state: the response   *)
(* schema never refuses a charge of its own store.                         *)
(***************************************************************************)
THEOREM EveryChargeAddsUp == Spec => []BreakdownsAddUp
<1>1. RuntimeInv => BreakdownsAddUp
  BY DEF RuntimeInv, RowsInv, Complete, BreakdownsAddUp, ServingPlaces
<1> QED
  BY <1>1, AlwaysRuntimeInv, PTL

(* Types. *)
THEOREM RuntimeTypes == Spec => []TypeOK
<1>1. RuntimeInv => TypeOK
  BY DEF RuntimeInv, LockInv, LockTypes, FileTypes, TypeOK, BackendPlaces, ScriptPlaces,
         ServingPlaces
<1> QED
  BY <1>1, AlwaysRuntimeInv, PTL

(* No backend gets past a state it cannot serve. *)
Past == {"writing", "loaded"} \cup ServingPlaces

NobodyServesIt ==
  state = Unusable => \A b \in Backends : pc[b] \notin Past

LEMMA UsableStaysUsable ==
  ASSUME RuntimeInv, [Next]_vars, state' = Unusable
  PROVE  state = Unusable
<1>1. ASSUME NEW b \in Backends, Opening(b) \/ Serving(b) PROVE state = Unusable
  <2>1. state' \in {state, mem[b], working[b]}
    <3>1. CASE Opening(b)
      BY <3>1 DEF Opening, WriteMarker, ClearTemps, LoadState, ReplaceState, LoadRefused,
                  WriteRefused, VerifyRefused, Sweep
    <3>2. CASE Serving(b)
      BY <3>2 DEF Serving, DevRaiseCharge, OtherCommit, ContestBegins, MoveFile, MoveFails,
                  WriteMoved, ResetBegins, DeleteUpload, ResetWrites, ReplaceFile, Commits,
                  WriteFails, SyncFails, RollBack, StartsWriting
    <3> QED
      BY <1>1, <3>1, <3>2
  <2>2. mem[b] \in Snapshot /\ working[b] \in Snapshot
    BY DEF RuntimeInv, FileTypes
  <2> QED
    BY <2>1, <2>2, SnapshotsAreFiles
<1>2. ASSUME NEW p \in Processes, Locking(p) \/ Dies(p) PROVE state = Unusable
  BY <1>2, QuietSteps DEF Quiet, RuntimeInv, LockInv
<1>3. ASSUME NEW s \in Scripts, Resetting(s) PROVE state = Unusable
  BY <1>3, RuntimeAssumption
     DEF Resetting, AssertSafe, RemoveState, RemoveMarker, RemoveTemps, RemoveUpload,
         Release, UnlinkLock, files
<1>4. CASE UNCHANGED vars
  BY <1>4 DEF vars, files
<1> QED
  BY <1>1, <1>2, <1>3, <1>4 DEF Next

LEMMA StaysElsewhere ==
  ASSUME LockTypes, NEW p \in Processes, NEW b \in Backends,
         pc[b] \notin Past,
         \/ pc' = pc
         \/ \E place : place \notin Past /\ pc' = [pc EXCEPT ![p] = place]
  PROVE  pc'[b] \notin Past
<1>1. b \in DOMAIN pc
  BY DEF LockTypes, Processes
<1> QED
  BY <1>1

LEMMA QuietlyElsewhere ==
  ASSUME LockTypes, NEW p \in Processes, NEW b \in Backends,
         pc[b] \notin Past, Quiet(p)
  PROVE  pc'[b] \notin Past
<1>1. PICK place \in Unread : pc' = [pc EXCEPT ![p] = place]
  BY DEF Quiet
<1>2. place \notin Past
  BY DEF Past, Unread, ServingPlaces
<1> QED
  BY <1>1, <1>2, StaysElsewhere

LEMMA OnlyQuietSteps ==
  ASSUME NEW b \in Backends, pc[b] \notin Past, state = Unusable, Opening(b) \/ Serving(b)
  PROVE  WriteMarker(b) \/ ClearTemps(b) \/ LoadRefused(b)
<1>1. ~ Serving(b)
  BY ServingAdvances DEF Past
<1> QED
  BY <1>1 DEF Past, Opening, LoadState, ReplaceState, WriteRefused, VerifyRefused, Sweep, Step

LEMMA NobodyServesItStill ==
  ASSUME RuntimeInv, NobodyServesIt, [Next]_vars
  PROVE  NobodyServesIt'
<1> SUFFICES ASSUME state' = Unusable, NEW b \in Backends
             PROVE  pc'[b] \notin Past
  BY DEF NobodyServesIt
<1>1. state = Unusable /\ (\A q \in Backends : pc[q] \notin Past) /\ LockTypes
  BY UsableStaysUsable DEF NobodyServesIt, RuntimeInv, LockInv
<1>2. ASSUME NEW p \in Processes, Locking(p) \/ Dies(p)
      PROVE  pc'[b] \notin Past
  BY <1>1, <1>2, QuietSteps, QuietlyElsewhere DEF RuntimeInv
<1>3. ASSUME NEW q \in Backends, Opening(q) \/ Serving(q)
      PROVE  pc'[b] \notin Past
  <2>1. q \in Processes /\ (WriteMarker(q) \/ ClearTemps(q) \/ LoadRefused(q))
    BY <1>1, <1>3, OnlyQuietSteps DEF Processes
  <2> QED
    BY <1>1, <2>1, QuietSteps, QuietlyElsewhere DEF RuntimeInv
<1>4. ASSUME NEW s \in Scripts, Resetting(s)
      PROVE  pc'[b] \notin Past
  <2>1. \/ pc' = pc
        \/ \E place : place \notin Past /\ pc' = [pc EXCEPT ![s] = place]
    BY <1>4 DEF Resetting, AssertSafe, RemoveState, RemoveMarker, RemoveTemps, RemoveUpload,
                Release, UnlinkLock, ScriptStep, Goes, Past, ServingPlaces
  <2>2. s \in Processes
    BY DEF Processes
  <2> QED
    BY <1>1, <2>1, <2>2, StaysElsewhere
<1>5. CASE UNCHANGED vars
  BY <1>1, <1>5 DEF vars
<1> QED
  BY <1>2, <1>3, <1>4, <1>5 DEF Next

(***************************************************************************)
(* State that names a missing file: a backend that opens it may upgrade    *)
(* its rows, and takes none of its files away.                             *)
(***************************************************************************)
LEMMA DanglingIsKept ==
  ASSUME RuntimeInv, Dangles, ~ orphaned, NEW b \in Backends, Opening(b)
  PROVE  state' \in {state, Upgraded(state)} /\ UNCHANGED uploads
<1>1. CASE WriteMarker(b) \/ ClearTemps(b) \/ LoadState(b) \/ LoadRefused(b) \/ VerifyRefused(b)
  BY <1>1 DEF WriteMarker, ClearTemps, LoadState, LoadRefused, VerifyRefused, Exits
<1>2. CASE ReplaceState(b) \/ WriteRefused(b)
  <2>1. Known(b, "writing")
    BY <1>2, BackendKnows DEF ReplaceState, WriteRefused, Step, BackendPlaces
  <2>2. mem[b] = Upgraded(state)
    BY <2>1 DEF Known, StateAgrees, Dangles
  <2> QED
    BY <1>2, <2>2 DEF ReplaceState, WriteRefused, Exits
<1>3. CASE Sweep(b)
  <2>1. Known(b, "loaded") /\ mem[b].refs \subseteq uploads
    BY <1>3, BackendKnows DEF Sweep, Step, BackendPlaces
  <2> QED
    BY <2>1 DEF Known, StateAgrees, Dangles
<1> QED
  BY <1>1, <1>2, <1>3 DEF Opening

(***************************************************************************)
(* State that no backend can serve is still there, with its uploads, for   *)
(* whoever wants to look at it, until a script removes it; and so is state *)
(* that names a missing file, but for the rows upgraded before.            *)
(***************************************************************************)
THEOREM RefusalPreserves == Spec => RefusedStateIsPreserved
<1>1. Init => NobodyServesIt
  BY DEF Init, NobodyServesIt, Processes, Past, ServingPlaces
<1>2. RuntimeInv /\ NobodyServesIt /\ [Next]_vars =>
        [/\ state = Unusable =>
              \/ \E s \in Scripts : Resetting(s)
              \/ UNCHANGED <<state, uploads>>
         /\ Dangles /\ ~ orphaned /\ (\E b \in Backends : Opening(b)) =>
              state' \in {state, Upgraded(state)} /\ UNCHANGED uploads]_vars
  <2> SUFFICES ASSUME RuntimeInv, NobodyServesIt, Next
               PROVE  /\ state = Unusable =>
                           \/ \E s \in Scripts : Resetting(s)
                           \/ UNCHANGED <<state, uploads>>
                      /\ Dangles /\ ~ orphaned /\ (\E b \in Backends : Opening(b)) =>
                           state' \in {state, Upgraded(state)} /\ UNCHANGED uploads
    OBVIOUS
  <2>1. ASSUME NEW p \in Processes, Locking(p) \/ Dies(p) PROVE UNCHANGED <<state, uploads>>
    BY <2>1, QuietSteps DEF Quiet, RuntimeInv, LockInv
  <2>2. ASSUME state = Unusable, NEW b \in Backends, Opening(b) \/ Serving(b)
        PROVE  UNCHANGED <<state, uploads>>
    <3>1. WriteMarker(b) \/ ClearTemps(b) \/ LoadRefused(b)
      BY <2>2, OnlyQuietSteps DEF NobodyServesIt
    <3> QED
      BY <3>1 DEF WriteMarker, ClearTemps, LoadRefused, Exits
  <2> QED
    BY <2>1, <2>2, DanglingIsKept DEF Next
<1> QED
  BY <1>1, <1>2, AlwaysRuntimeInv, NobodyServesItStill, PTL DEF Spec, RefusedStateIsPreserved
=============================================================================
