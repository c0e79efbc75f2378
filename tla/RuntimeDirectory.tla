-------------------------- MODULE RuntimeDirectory --------------------------
(***************************************************************************)
(* The runtime directory and the processes that want it for themselves:    *)
(* backends, which open it (JsonStore.open and close in app/db/store.py),  *)
(* and runs of scripts/reset_runtime.py, which empty it.  Both guard it    *)
(* by an flock on runtime.lock (_RuntimeFileLock).                         *)
(*                                                                         *)
(* One action is one operation on the file system, and a process may die   *)
(* between any two.  A serving backend is here one that rewrites the state *)
(* and moves and deletes uploads; which requests make it do so is in       *)
(* ChargeStore, and how they share the event loop in Attachments.          *)
(***************************************************************************)
EXTENDS CostBreakdown, FiniteSets

CONSTANTS
  Backends, Scripts,  \* processes
  Inodes,             \* lock files, past and present
  Charges,            \* charge ids; SeedRows has those of the seed
  SeedRows,
  Amounts,            \* amountMinor of charges
  Ids,                \* opaque ids of contest files
  NoInode, Nobody, NoRow, NoBreakdown,
  Absent, Unusable    \* what state.json may be besides a snapshot

Processes == Backends \cup Scripts

Row == [amount : Amounts, breakdown : Breakdown \cup {NoBreakdown}]

(***************************************************************************)
(* Of a snapshot matter its charges and the uploads they reference.  A     *)
(* state file may also be one this build cannot serve: unreadable, or of   *)
(* another schema, contract or seed version.                               *)
(***************************************************************************)
Snapshot == [rows : [Charges -> Row \cup {NoRow}], refs : SUBSET Ids]

Seed == [rows |-> SeedRows, refs |-> {}]

(* What the response schema demands of a row. *)
Itemised(row) == row.breakdown # NoBreakdown /\ AddsUp(row.breakdown, row.amount)

VARIABLES
  lockFile,  \* the inode runtime.lock names, or NoInode
  holder,    \* per inode: the process that has it locked
  fd,        \* per process: the inode it has open, or NoInode
  pc,        \* per process: how far it has come
  marker,    \* whether the marker file exists
  state,     \* state.json: a snapshot, Unusable or Absent
  temp,      \* whether a temporary file of _persist lies about
  uploads,   \* the files in uploads/
  mem,       \* per backend: its snapshot once it has one
  working,   \* per backend: the snapshot it is about to commit, while it is
  orphaned,  \* auxiliary: a lock file was unlinked under a process that had it open
  blame      \* auxiliary: the faults that may have set memory, state and files apart

files == <<marker, state, temp, uploads>>
snapshots == <<mem, working>>
vars == <<lockFile, holder, fd, pc, files, snapshots, orphaned, blame>>

(***************************************************************************)
(* What blame may hold.                                                    *)
(*   unsynced write    the state was replaced, but the fsync after it      *)
(*                     failed and the commit with it;                      *)
(*   unsynced contest  the same, and the files the state names were then   *)
(*                     deleted;                                            *)
(*   unfinished reset  POST /reset deleted files and has not replaced the  *)
(*                     state that names them;                              *)
(*   strays            files were left behind that nothing names.          *)
(***************************************************************************)
Faults == {"unsynced write", "unsynced contest", "unfinished reset", "strays"}

Dangling == {"unsynced contest", "unfinished reset"}

ASSUME RuntimeAssumption ==
  /\ Backends \cap Scripts = {}
  /\ Nobody \notin Processes /\ NoInode \notin Inodes
  /\ NoRow \notin Row /\ NoBreakdown \notin Breakdown
  /\ {Absent, Unusable} \cap Snapshot = {} /\ Absent # Unusable
  /\ Amounts \subseteq Nat
  /\ SeedRows \in [Charges -> Row \cup {NoRow}]
  /\ \A c \in Charges : SeedRows[c] # NoRow => Itemised(SeedRows[c])

(***************************************************************************)
(* A directory left by earlier processes: rows come without a breakdown    *)
(* (written before there were any) or with one that adds up, and the files *)
(* the state references exist unless one of those processes was killed in  *)
(* the middle of a reset.                                                  *)
(***************************************************************************)
OldRow(amount) == { [amount |-> amount, breakdown |-> NoBreakdown],
                    [amount |-> amount, breakdown |-> DefaultCostBreakdown(amount)] }

OldSnapshots ==
  [rows : [Charges -> {NoRow} \cup UNION { OldRow(a) : a \in Amounts }], refs : SUBSET Ids]

Init ==
  /\ lockFile \in Inodes \cup {NoInode}
  /\ holder = [i \in Inodes |-> Nobody]
  /\ fd = [p \in Processes |-> NoInode]
  /\ pc = [p \in Processes |-> "down"]
  /\ marker \in BOOLEAN
  /\ temp \in BOOLEAN
  /\ uploads \in SUBSET Ids
  /\ state \in OldSnapshots \cup {Unusable, Absent}
  /\ blame \in {{}, {"unfinished reset"}}
  /\ state \in OldSnapshots /\ blame = {} => state.refs \subseteq uploads
  /\ mem = [b \in Backends |-> Seed]
  /\ working = [b \in Backends |-> Seed]
  /\ orphaned = FALSE

Goes(p, s) == pc' = [pc EXCEPT ![p] = s]

-----------------------------------------------------------------------------
(* _RuntimeFileLock. *)

(***************************************************************************)
(* acquire: os.open creates the file if need be, and only then is the file *)
(* that was opened locked, or found locked.                                *)
(***************************************************************************)
OpenLock(p) ==
  /\ pc[p] = IF p \in Backends THEN "down" ELSE "safe"
  /\ \/ /\ lockFile # NoInode
        /\ fd' = [fd EXCEPT ![p] = lockFile]
        /\ UNCHANGED lockFile
     \/ /\ lockFile = NoInode
        /\ \E i \in Inodes :
             /\ \A q \in Processes : fd[q] # i
             /\ lockFile' = i
             /\ fd' = [fd EXCEPT ![p] = i]
  /\ Goes(p, "opened")
  /\ UNCHANGED <<holder, files, snapshots, orphaned, blame>>

(* Mutant: the lock is taken to be held whatever flock says. *)
FlockIgnored(p) ==
  /\ pc[p] = "opened"
  /\ holder' = [holder EXCEPT ![fd[p]] = p]
  /\ Goes(p, "owner")
  /\ UNCHANGED <<lockFile, fd, files, snapshots, orphaned, blame>>

Flock(p) ==
  /\ pc[p] = "opened"
  /\ holder[fd[p]] = Nobody
  /\ holder' = [holder EXCEPT ![fd[p]] = p]
  /\ Goes(p, "owner")
  /\ UNCHANGED <<lockFile, fd, files, snapshots, orphaned, blame>>

(***************************************************************************)
(* release, and what the kernel does for a process that is gone.           *)
(***************************************************************************)
LetGo(p) ==
  /\ fd' = [fd EXCEPT ![p] = NoInode]
  /\ holder' = [i \in Inodes |-> IF holder[i] = p THEN Nobody ELSE holder[i]]

(* RuntimeLockedError: the file is closed and the process gives up. *)
FlockRefused(p) ==
  /\ pc[p] = "opened"
  /\ holder[fd[p]] # Nobody
  /\ LetGo(p)
  /\ Goes(p, "down")
  /\ UNCHANGED <<lockFile, files, snapshots, orphaned, blame>>

(***************************************************************************)
(* A process is killed, or a backend is shut down: at any point.  What it  *)
(* had in memory is gone.                                                  *)
(***************************************************************************)
Forgets(p) ==
  /\ mem' = [b \in Backends |-> IF b = p THEN Seed ELSE mem[b]]
  /\ working' = [b \in Backends |-> IF b = p THEN Seed ELSE working[b]]

Dies(p) ==
  /\ pc[p] # "down"
  /\ LetGo(p)
  /\ Forgets(p)
  /\ Goes(p, "down")
  /\ UNCHANGED <<lockFile, files, orphaned, blame>>

-----------------------------------------------------------------------------
(* JsonStore.open. *)

Step(b, from, to) == b \in Backends /\ pc[b] = from /\ Goes(b, to)

(* _write_marker. *)
WriteMarker(b) ==
  /\ Step(b, "owner", "marked")
  /\ marker' = TRUE
  /\ UNCHANGED <<lockFile, holder, fd, state, temp, uploads, snapshots, orphaned, blame>>

(* Mutant: what is not referenced is removed before the state is read.     *)
ClearTempsAndSweep(b) ==
  /\ Step(b, "marked", "cleared")
  /\ temp' = FALSE
  /\ uploads' = IF state \in {Absent, Unusable} THEN {} ELSE uploads \cap state.refs
  /\ UNCHANGED <<lockFile, holder, fd, marker, state, snapshots, orphaned, blame>>

(* _clear_staging, as far as it concerns temporary files of _persist. *)
ClearTemps(b) ==
  /\ Step(b, "marked", "cleared")
  /\ temp' = FALSE
  /\ UNCHANGED <<lockFile, holder, fd, marker, state, uploads, snapshots, orphaned, blame>>

(***************************************************************************)
(* _backfill_cost_breakdowns: a row without a breakdown gets the seed's if *)
(* the seed has the charge at the same amount, else the default one.       *)
(***************************************************************************)
(* Mutant: the seed's breakdown is taken whatever the amount. *)
BackfilledFromSeed(c, row) ==
  IF row = NoRow \/ row.breakdown # NoBreakdown THEN row
  ELSE [row EXCEPT !.breakdown = IF SeedRows[c] # NoRow
                                   THEN SeedRows[c].breakdown
                                   ELSE DefaultCostBreakdown(row.amount)]

Backfilled(c, row) ==
  IF row = NoRow \/ row.breakdown # NoBreakdown THEN row
  ELSE [row EXCEPT !.breakdown =
          IF SeedRows[c] # NoRow /\ SeedRows[c].amount = row.amount
            THEN SeedRows[c].breakdown
            ELSE DefaultCostBreakdown(row.amount)]

Upgraded(s) == [s EXCEPT !.rows = [c \in Charges |-> Backfilled(c, s.rows[c])]]

(* Mutant: what the file holds is served as it is. *)
LoadStateUnseen(b) ==
  /\ Step(b, "cleared", "loaded")
  /\ mem' = [mem EXCEPT ![b] = state]
  /\ UNCHANGED <<lockFile, holder, fd, files, working, orphaned, blame>>

(***************************************************************************)
(* The state is seeded, or read and upgraded; what is new or was changed   *)
(* goes through a temporary file.                                          *)
(***************************************************************************)
LoadState(b) ==
  /\ b \in Backends /\ pc[b] = "cleared"
  /\ state # Unusable
  /\ LET snapshot == IF state = Absent THEN Seed ELSE Upgraded(state)
     IN  /\ mem' = [mem EXCEPT ![b] = snapshot]
         /\ IF snapshot = state
              THEN Goes(b, "loaded") /\ UNCHANGED temp
              ELSE Goes(b, "writing") /\ temp' = TRUE
  /\ UNCHANGED <<lockFile, holder, fd, marker, state, uploads, working, orphaned, blame>>

ReplaceState(b) ==
  /\ Step(b, "writing", "loaded")
  /\ state' = mem[b]
  /\ temp' = FALSE
  /\ UNCHANGED <<lockFile, holder, fd, marker, uploads, snapshots, orphaned, blame>>

(***************************************************************************)
(* CorruptRuntimeStateError, IncompatibleRuntimeStateError, a write that   *)
(* fails, or references that lead nowhere: open() raises and the process   *)
(* ends.                                                                   *)
(***************************************************************************)
Exits(b) ==
  /\ LetGo(b)
  /\ Forgets(b)
  /\ Goes(b, "down")
  /\ UNCHANGED <<lockFile, marker, uploads, orphaned, blame>>

LoadRefused(b) ==
  /\ b \in Backends /\ pc[b] = "cleared"
  /\ state = Unusable
  /\ Exits(b) /\ UNCHANGED <<state, temp>>

(* The write may fail after the file was replaced. *)
WriteRefused(b) ==
  /\ b \in Backends /\ pc[b] = "writing"
  /\ state' \in {state, mem[b]}
  /\ Exits(b) /\ temp' = FALSE

VerifyRefused(b) ==
  /\ b \in Backends /\ pc[b] = "loaded"
  /\ ~ mem[b].refs \subseteq uploads
  /\ Exits(b) /\ UNCHANGED <<state, temp>>

(***************************************************************************)
(* _verify_attachments and _remove_unreferenced_uploads.                   *)
(***************************************************************************)
Sweep(b) ==
  /\ Step(b, "loaded", "serving")
  /\ mem[b].refs \subseteq uploads
  /\ uploads' = mem[b].refs
  /\ blame' = {}
  /\ UNCHANGED <<lockFile, holder, fd, marker, state, temp, snapshots, orphaned>>

-----------------------------------------------------------------------------
(* A serving backend. *)

ServingStep(b, from, to) ==
  Step(b, from, to) /\ UNCHANGED <<lockFile, holder, fd, marker, orphaned>>

(***************************************************************************)
(* commit and _persist: the new snapshot goes to a temporary file, which   *)
(* replaces state.json; the directory is synced, and only then is the new  *)
(* snapshot the one in memory.  No other request takes a step meanwhile.   *)
(***************************************************************************)
StartsWriting(b, from, snapshot) ==
  /\ ServingStep(b, from, "persisting")
  /\ working' = [working EXCEPT ![b] = snapshot]
  /\ temp' = TRUE
  /\ UNCHANGED <<state, uploads, mem, blame>>

ReplaceFile(b) ==
  /\ ServingStep(b, "persisting", "replaced")
  /\ state' = working[b]
  /\ temp' = FALSE
  /\ UNCHANGED <<uploads, snapshots, blame>>

(***************************************************************************)
(* A complete write repairs what a half-failed one did, and one that       *)
(* references no file a reset that was not finished.                       *)
(***************************************************************************)
Commits(b) ==
  /\ ServingStep(b, "replaced", "serving")
  /\ mem' = [mem EXCEPT ![b] = working[b]]
  /\ working' = [working EXCEPT ![b] = Seed]
  /\ blame' = IF working[b].refs # {} THEN blame \ {"unsynced write", "unsynced contest"}
              ELSE IF uploads = {} THEN {} ELSE {"strays"}
  /\ UNCHANGED <<state, temp, uploads>>

(* The write fails before the file was replaced, or the fsync after it. *)
WriteFails(b) ==
  /\ ServingStep(b, "persisting", "rolling back")
  /\ temp' = FALSE
  /\ UNCHANGED <<state, uploads, snapshots, blame>>

(* The files a contest has moved. *)
Fresh(b) == working[b].refs \ mem[b].refs

SyncFails(b) ==
  /\ ServingStep(b, "replaced", "rolling back")
  /\ blame' = blame \cup {"unsynced write"}
                    \cup (IF Fresh(b) = {} THEN {} ELSE {"unsynced contest"})
  /\ UNCHANGED <<state, temp, uploads, snapshots>>

(* rollback deletes what finalize has moved, file by file. *)
RollBack(b) ==
  \/ /\ ServingStep(b, "rolling back", "rolling back")
     /\ \E id \in Fresh(b) \cap uploads : uploads' = uploads \ {id}
     /\ UNCHANGED <<state, temp, snapshots, blame>>
  \/ /\ ServingStep(b, "rolling back", "serving")
     /\ Fresh(b) \cap uploads = {}
     /\ working' = [working EXCEPT ![b] = Seed]
     /\ UNCHANGED <<state, temp, uploads, mem, blame>>

(***************************************************************************)
(* A contest moves its files to uploads/ one by one, under ids never used  *)
(* before, and then writes the snapshot that references them.              *)
(***************************************************************************)
ContestBegins(b) ==
  /\ ServingStep(b, "serving", "moving")
  /\ working' = [working EXCEPT ![b] = mem[b]]
  /\ UNCHANGED <<state, temp, uploads, mem, blame>>

NamedIds ==
  UNION { mem[b].refs \cup working[b].refs : b \in Backends }
    \cup (IF state \in {Absent, Unusable} THEN {} ELSE state.refs)

MoveFile(b) ==
  /\ ServingStep(b, "moving", "moving")
  /\ \E id \in Ids \ (uploads \cup NamedIds) :
       /\ uploads' = uploads \cup {id}
       /\ working' = [working EXCEPT ![b].refs = @ \cup {id}]
  /\ UNCHANGED <<state, temp, mem, blame>>

(* finalize raises before it returns the ids, so none is rolled back. *)
MoveFails(b) ==
  /\ ServingStep(b, "moving", "serving")
  /\ working' = [working EXCEPT ![b] = Seed]
  /\ blame' = IF Fresh(b) = {} THEN blame ELSE blame \cup {"strays"}
  /\ UNCHANGED <<state, temp, uploads, mem>>

WriteMoved(b) == StartsWriting(b, "moving", working[b])

DevRaiseCharge(b) ==
  \E c \in Charges, amount \in Amounts :
    /\ mem[b].rows[c] = NoRow
    /\ StartsWriting(b, "serving",
         [mem[b] EXCEPT !.rows[c] =
            [amount |-> amount, breakdown |-> DefaultCostBreakdown(amount)]])

(* Any other mutation leaves amounts and references as they are. *)
OtherCommit(b) == StartsWriting(b, "serving", mem[b])

(***************************************************************************)
(* POST /reset: rmtree, file by file, passes over what it cannot delete;   *)
(* then the seed is written and, if that succeeds, put in memory.          *)
(***************************************************************************)
ResetBegins(b) ==
  /\ ServingStep(b, "serving", "deleting")
  /\ UNCHANGED <<state, temp, uploads, snapshots, blame>>

DeleteUpload(b) ==
  /\ ServingStep(b, "deleting", "deleting")
  /\ \E id \in uploads : uploads' = uploads \ {id}
  /\ blame' = blame \cup {"unfinished reset"}
  /\ UNCHANGED <<state, temp, snapshots>>

ResetWrites(b) == StartsWriting(b, "deleting", Seed)

-----------------------------------------------------------------------------
(* scripts/reset_runtime.py. *)

ScriptStep(s, from, to) == s \in Scripts /\ pc[s] = from /\ Goes(s, to)

(* assert_safe: without a marker the script refuses. *)
AssertSafe(s) ==
  /\ ScriptStep(s, "down", "safe")
  /\ marker
  /\ UNCHANGED <<lockFile, holder, fd, files, snapshots, orphaned, blame>>

(* Mutant: the uploads go first. *)
RemoveStateLast(s) ==
  /\ s \in Scripts /\ pc[s] = "owner"
  /\ \/ \E id \in uploads : uploads' = uploads \ {id} /\ UNCHANGED <<pc, state>>
     \/ uploads = {} /\ state' = Absent /\ Goes(s, "state removed") /\ UNCHANGED uploads
  /\ UNCHANGED <<lockFile, holder, fd, marker, temp, snapshots, orphaned, blame>>

RemoveState(s) ==
  /\ ScriptStep(s, "owner", "state removed")
  /\ state' = Absent
  /\ UNCHANGED <<lockFile, holder, fd, marker, temp, uploads, snapshots, orphaned, blame>>

RemoveMarker(s) ==
  /\ ScriptStep(s, "state removed", "marker removed")
  /\ marker' = FALSE
  /\ UNCHANGED <<lockFile, holder, fd, state, temp, uploads, snapshots, orphaned, blame>>

(* Mutant: the lock is let go before the uploads are removed. *)
RemoveTempsAndRelease(s) ==
  /\ ScriptStep(s, "marker removed", "temps removed")
  /\ temp' = FALSE
  /\ LetGo(s)
  /\ UNCHANGED <<lockFile, marker, state, uploads, snapshots, orphaned, blame>>

RemoveTemps(s) ==
  /\ ScriptStep(s, "marker removed", "temps removed")
  /\ temp' = FALSE
  /\ UNCHANGED <<lockFile, holder, fd, marker, state, uploads, snapshots, orphaned, blame>>

(* rmtree removes one file after the other. *)
RemoveUpload(s) ==
  /\ s \in Scripts /\ pc[s] = "temps removed"
  /\ \E id \in uploads : uploads' = uploads \ {id}
  /\ UNCHANGED <<lockFile, holder, fd, pc, marker, state, temp, snapshots, orphaned, blame>>

Release(s) ==
  /\ ScriptStep(s, "temps removed", "released")
  /\ uploads = {}
  /\ LetGo(s)
  /\ UNCHANGED <<lockFile, files, snapshots, orphaned, blame>>

(***************************************************************************)
(* Only now is the lock file unlinked.  Who has opened it meanwhile keeps  *)
(* the old inode, and who comes later creates another.                     *)
(***************************************************************************)
UnlinkLock(s) ==
  /\ ScriptStep(s, "released", "down")
  /\ lockFile' = NoInode
  /\ orphaned' = (orphaned \/ \E p \in Processes : fd[p] # NoInode)
  /\ UNCHANGED <<holder, fd, files, snapshots, blame>>

-----------------------------------------------------------------------------

Locking(p) == OpenLock(p) \/ Flock(p) \/ FlockRefused(p)

Opening(b) ==
  \/ WriteMarker(b) \/ ClearTemps(b) \/ LoadState(b) \/ ReplaceState(b)
  \/ LoadRefused(b) \/ WriteRefused(b) \/ VerifyRefused(b) \/ Sweep(b)

Serving(b) ==
  \/ DevRaiseCharge(b) \/ OtherCommit(b)
  \/ ContestBegins(b) \/ MoveFile(b) \/ MoveFails(b) \/ WriteMoved(b)
  \/ ResetBegins(b) \/ DeleteUpload(b) \/ ResetWrites(b)
  \/ ReplaceFile(b) \/ Commits(b) \/ WriteFails(b) \/ SyncFails(b) \/ RollBack(b)

Resetting(s) ==
  \/ AssertSafe(s) \/ RemoveState(s) \/ RemoveMarker(s) \/ RemoveTemps(s)
  \/ RemoveUpload(s) \/ Release(s) \/ UnlinkLock(s)

Next ==
  \/ \E p \in Processes : Locking(p) \/ Dies(p)
  \/ \E b \in Backends : Opening(b) \/ Serving(b)
  \/ \E s \in Scripts : Resetting(s)

Spec == Init /\ [][Next]_vars

-----------------------------------------------------------------------------
(* Properties. *)

TypeOK ==
  /\ lockFile \in Inodes \cup {NoInode}
  /\ holder \in [Inodes -> Processes \cup {Nobody}]
  /\ fd \in [Processes -> Inodes \cup {NoInode}]
  /\ pc \in [Processes -> {"down", "opened", "owner",
                           "marked", "cleared", "writing", "loaded",
                           "serving", "moving", "deleting",
                           "persisting", "replaced", "rolling back",
                           "safe", "state removed", "marker removed", "temps removed",
                           "released"}]
  /\ marker \in BOOLEAN /\ temp \in BOOLEAN /\ orphaned \in BOOLEAN
  /\ state \in Snapshot \cup {Unusable, Absent}
  /\ uploads \in SUBSET Ids
  /\ mem \in [Backends -> Snapshot] /\ working \in [Backends -> Snapshot]
  /\ blame \subseteq Faults

Owns(p) == pc[p] \notin {"down", "safe", "opened", "released"}

(***************************************************************************)
(* At most one process, backend or script, works on the directory, however *)
(* they race for the lock and wherever they die - until a script unlinks   *)
(* the lock file under a process that has it open.                         *)
(***************************************************************************)
OneOwner == ~ orphaned => \A p, q \in Processes : Owns(p) /\ Owns(q) => p = q

(***************************************************************************)
(* Between requests of a serving backend, the file holds what it has in    *)
(* memory, unless the fsync of its last write failed (the file is then     *)
(* ahead), and the uploads are the files it references, unless it failed   *)
(* to move or to delete some: nobody else changes the directory, and       *)
(* neither a failed write nor a contest rolled back sets them apart.       *)
(***************************************************************************)
ServesTheDirectory ==
  ~ orphaned =>
    \A b \in Backends : pc[b] = "serving" =>
      /\ "unsynced write" \notin blame => state = mem[b]
      /\ blame \cap {"unfinished reset", "strays"} = {} => uploads = mem[b].refs

(***************************************************************************)
(* Wherever a script or a backend was killed, starting, committing or with *)
(* a contest half moved, the state file references only files that exist,  *)
(* so that no later backend refuses it.  Two faults break this, and they   *)
(* alone: a reset over HTTP that deleted files and did not get as far as   *)
(* replacing the state, and a contest rolled back after its write had      *)
(* replaced it.                                                            *)
(***************************************************************************)
ReferencesResolve ==
  ~ orphaned /\ blame \cap Dangling = {} /\ state \notin {Unusable, Absent}
    => state.refs \subseteq uploads

(***************************************************************************)
(* Every charge of a backend that serves has a breakdown that adds up,     *)
(* whatever build wrote the state: responses are never refused for it.     *)
(***************************************************************************)
BreakdownsAddUp ==
  \A b \in Backends : pc[b] = "serving" =>
    \A c \in Charges : mem[b].rows[c] # NoRow => Itemised(mem[b].rows[c])

Dangles == state \notin {Unusable, Absent} /\ ~ state.refs \subseteq uploads

(***************************************************************************)
(* State that this build refuses to serve is preserved, with its uploads:  *)
(* only the script removes it.  State that names a missing file is also    *)
(* refused with every upload in place, but a backend may have upgraded its *)
(* rows before it found out.                                               *)
(***************************************************************************)
RefusedStateIsPreserved ==
  [][/\ state = Unusable =>
          \/ \E s \in Scripts : Resetting(s)
          \/ UNCHANGED <<state, uploads>>
     /\ Dangles /\ ~ orphaned /\ (\E b \in Backends : Opening(b)) =>
          state' \in {state, Upgraded(state)} /\ UNCHANGED uploads]_vars
=============================================================================
