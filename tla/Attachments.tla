---------------------------- MODULE Attachments ----------------------------
(***************************************************************************)
(* Contest attachments: files and the state that references them           *)
(* (app/services/attachment_service.py, contest_charge in                  *)
(* app/api/v1/endpoints/commands.py, and JsonStore.open, reset and         *)
(* resolve_attachment in app/db/store.py).                                 *)
(*                                                                         *)
(* Parts are staged while other requests run; finalising them, writing the *)
(* state and rolling back is one stretch of the event loop, in which no    *)
(* other request takes a step but the process may die.  So an action is    *)
(* one file-system operation, and a request or a reset in such a stretch   *)
(* holds everybody else up.                                                *)
(*                                                                         *)
(* A snapshot is reduced to the charges already contested and the opaque   *)
(* ids of uploaded files it references; seed media never change.           *)
(***************************************************************************)
EXTENDS Naturals

CONSTANTS
  Requests,        \* contest requests in progress at one time
  Charges,
  Ids,             \* opaque ids; a new one is never one in use
  MaxAttachments   \* MAX_ATTACHMENTS

ASSUME AttachmentAssumption == MaxAttachments \in Nat \ {0}

VARIABLES
  server,   \* "up", "down", or "refused": the state file was not accepted
  mem,      \* the store's snapshot
  disk,     \* the snapshot in state.json
  uploads,  \* ids of the files in uploads/
  staging,  \* how many parts each request has in staging/
  phase,    \* where each request is
  target,   \* the charge each request contests
  parts,    \* how many staged parts each request still knows of
  moved,    \* ids each request has finalised
  reset,    \* where a reset is: "idle", "deleting" or "writing"
  blame     \* auxiliary: the faults that may have set files and state apart

vars == <<server, mem, disk, uploads, staging, phase, target, parts, moved,
          reset, blame>>

requests == <<staging, phase, target, parts, moved>>

Seed == [contested |-> {}, refs |-> {}]

Init ==
  /\ server = "up" /\ mem = Seed /\ disk = Seed
  /\ uploads = {}
  /\ staging = [r \in Requests |-> 0]
  /\ phase = [r \in Requests |-> "idle"]
  /\ target \in [Requests -> Charges]
  /\ parts = [r \in Requests |-> 0]
  /\ moved = [r \in Requests |-> {}]
  /\ reset = "idle"
  /\ blame = {}

(***************************************************************************)
(* Nobody is in the middle of a stretch that does not suspend.             *)
(***************************************************************************)
Free ==
  /\ server = "up" /\ reset = "idle"
  /\ \A r \in Requests : phase[r] \in {"idle", "staging"}

-----------------------------------------------------------------------------
(* A contest request.  It holds a shared lease from Arrive to Leave.       *)

(***************************************************************************)
(* The request is over: the stager's directory is discarded.               *)
(***************************************************************************)
Leave(r) ==
  /\ phase' = [phase EXCEPT ![r] = "idle"]
  /\ staging' = [staging EXCEPT ![r] = 0]
  /\ parts' = [parts EXCEPT ![r] = 0]
  /\ moved' = [moved EXCEPT ![r] = {}]
  /\ UNCHANGED target

Arrive(r) ==
  /\ Free /\ phase[r] = "idle"
  /\ phase' = [phase EXCEPT ![r] = "staging"]
  /\ \E c \in Charges : target' = [target EXCEPT ![r] = c]
  /\ UNCHANGED <<server, mem, disk, uploads, staging, parts, moved, reset, blame>>

(***************************************************************************)
(* One part is streamed to staging/, and the loop runs others meanwhile.   *)
(***************************************************************************)
(* Mutant: the limit lets one part too many through. *)
StageOffByOne(r) ==
  /\ Free /\ phase[r] = "staging" /\ parts[r] <= MaxAttachments
  /\ staging' = [staging EXCEPT ![r] = @ + 1]
  /\ parts' = [parts EXCEPT ![r] = @ + 1]
  /\ UNCHANGED <<server, mem, disk, uploads, phase, target, moved, reset, blame>>

Stage(r) ==
  /\ Free /\ phase[r] = "staging" /\ parts[r] < MaxAttachments
  /\ staging' = [staging EXCEPT ![r] = @ + 1]
  /\ parts' = [parts EXCEPT ![r] = @ + 1]
  /\ UNCHANGED <<server, mem, disk, uploads, phase, target, moved, reset, blame>>

(***************************************************************************)
(* The request fails before the commit (too many parts, a bad type, a      *)
(* broken connection), or the commit answers it without finalising: a      *)
(* replay, a version conflict or a charge no longer outstanding.           *)
(***************************************************************************)
Refused(r) ==
  /\ Free /\ phase[r] = "staging"
  /\ Leave(r)
  /\ UNCHANGED <<server, mem, disk, uploads, reset, blame>>

(***************************************************************************)
(* The commit accepts the contest and starts to finalise.                  *)
(***************************************************************************)
Accepted(r) ==
  /\ Free /\ phase[r] = "staging" /\ target[r] \notin mem.contested
  /\ phase' = [phase EXCEPT ![r] = "moving"]
  /\ UNCHANGED <<server, mem, disk, uploads, staging, target, parts, moved,
                 reset, blame>>

Unused == Ids \ (uploads \cup mem.refs \cup disk.refs)

Move(r) ==
  /\ server = "up" /\ phase[r] = "moving"
  /\ parts[r] > 0 /\ staging[r] > 0
  /\ \E id \in Unused :
       /\ uploads' = uploads \cup {id}
       /\ moved' = [moved EXCEPT ![r] = @ \cup {id}]
  /\ parts' = [parts EXCEPT ![r] = @ - 1]
  /\ staging' = [staging EXCEPT ![r] = @ - 1]
  /\ UNCHANGED <<server, mem, disk, phase, target, reset, blame>>

(***************************************************************************)
(* A rename fails, or the chmod of the file just renamed.  finalize()      *)
(* raises before it returns the ids it has moved, so rollback is given an  *)
(* empty list.                                                             *)
(***************************************************************************)
MoveFails(r) ==
  /\ server = "up" /\ phase[r] = "moving"
  /\ parts[r] > 0 \/ moved[r] # {}
  /\ Leave(r)
  /\ blame' = IF moved[r] = {} THEN blame ELSE blame \cup {"strays"}
  /\ UNCHANGED <<server, mem, disk, uploads, reset>>

(***************************************************************************)
(* The write of the new snapshot: it succeeds, fails before the file is    *)
(* replaced, or fails after.  A failure is rolled back.                    *)
(***************************************************************************)
Contested(r) ==
  [ contested |-> mem.contested \cup {target[r]},
    refs      |-> mem.refs \cup moved[r] ]

(* Mutant: the snapshot is written before the last files are moved. *)
WriteBeforeMoving(r) ==
  /\ server = "up" /\ phase[r] = "moving" /\ parts[r] > 0
  /\ \E id \in Unused :
       /\ disk' = [Contested(r) EXCEPT !.refs = @ \cup {id}]
       /\ mem' = disk'
  /\ UNCHANGED <<server, uploads, staging, phase, target, parts, moved, reset,
                 blame>>

Write(r) ==
  /\ server = "up" /\ phase[r] = "moving" /\ parts[r] = 0
  /\ mem' = Contested(r) /\ disk' = mem'
  /\ Leave(r)
  /\ blame' = blame \ {"unsynced contest"}
  /\ UNCHANGED <<server, uploads, reset>>

WriteFails(r) ==
  /\ server = "up" /\ phase[r] = "moving" /\ parts[r] = 0
  /\ \/ UNCHANGED <<disk, blame>>
     \/ /\ disk' = Contested(r)
        /\ blame' = IF moved[r] = {} THEN blame
                    ELSE blame \cup {"unsynced contest"}
  /\ phase' = [phase EXCEPT ![r] = "rolling back"]
  /\ UNCHANGED <<server, mem, uploads, staging, target, parts, moved, reset>>

RollBack(r) ==
  /\ server = "up" /\ phase[r] = "rolling back"
  /\ IF moved[r] = {}
     THEN Leave(r) /\ UNCHANGED uploads
     ELSE /\ \E id \in moved[r] :
               /\ uploads' = uploads \ {id}
               /\ moved' = [moved EXCEPT ![r] = @ \ {id}]
          /\ UNCHANGED <<staging, phase, target, parts>>
  /\ UNCHANGED <<server, mem, disk, reset, blame>>

(***************************************************************************)
(* Any other mutation rewrites the file from memory.                       *)
(***************************************************************************)
OtherCommit ==
  /\ Free
  /\ disk' = mem
  /\ blame' = blame \ {"unsynced contest"}
  /\ UNCHANGED <<server, mem, uploads, requests, reset>>

-----------------------------------------------------------------------------
(* Reset, death and restart. *)

(***************************************************************************)
(* The exclusive lease: no request is in progress.                         *)
(***************************************************************************)
(* Mutant: the reset does not wait for the requests in progress. *)
ResetBeginsAnyway ==
  /\ Free
  /\ reset' = "deleting"
  /\ UNCHANGED <<server, mem, disk, uploads, requests, blame>>

ResetBegins ==
  /\ Free /\ \A r \in Requests : phase[r] = "idle"
  /\ reset' = "deleting"
  /\ UNCHANGED <<server, mem, disk, uploads, requests, blame>>

(***************************************************************************)
(* rmtree, file by file; one it cannot delete it leaves.  Then staging/ is *)
(* cleared, and the seed written and put in memory.                        *)
(***************************************************************************)
ResetDeletes ==
  /\ server = "up" /\ reset = "deleting"
  /\ \E id \in uploads : uploads' = uploads \ {id}
  /\ blame' = blame \cup {"interrupted reset"}
  /\ UNCHANGED <<server, mem, disk, requests, reset>>

ResetClearsStaging ==
  /\ server = "up" /\ reset = "deleting"
  /\ reset' = "writing"
  /\ staging' = [r \in Requests |-> 0]
  /\ UNCHANGED <<server, mem, disk, uploads, phase, target, parts, moved, blame>>

ResetWrites ==
  /\ server = "up" /\ reset = "writing"
  /\ reset' = "idle"
  /\ \/ /\ mem' = Seed /\ disk' = Seed
        /\ blame' = IF uploads = {} THEN {} ELSE {"strays"}
     \/ disk' = Seed /\ UNCHANGED <<mem, blame>>
     \/ UNCHANGED <<mem, disk, blame>>
  /\ UNCHANGED <<server, uploads, requests>>

(***************************************************************************)
(* The process dies, wherever it is.  What it had in memory is gone; its   *)
(* staging directories stay until the next start.                          *)
(***************************************************************************)
Crash ==
  /\ server = "up"
  /\ server' = "down"
  /\ mem' = Seed
  /\ phase' = [r \in Requests |-> "idle"]
  /\ parts' = [r \in Requests |-> 0]
  /\ moved' = [r \in Requests |-> {}]
  /\ reset' = "idle"
  /\ UNCHANGED <<disk, uploads, staging, target, blame>>

(***************************************************************************)
(* The next process clears staging/, refuses a state that references a     *)
(* missing file, and otherwise deletes the uploads it does not reference.  *)
(***************************************************************************)
(* Mutant: uploads nobody references are kept. *)
StartWithoutSweep ==
  /\ server = "down" /\ disk.refs \subseteq uploads
  /\ server' = "up" /\ mem' = disk
  /\ staging' = [r \in Requests |-> 0]
  /\ blame' = {}
  /\ UNCHANGED <<disk, uploads, phase, target, parts, moved, reset>>

Start ==
  /\ server = "down" /\ disk.refs \subseteq uploads
  /\ server' = "up" /\ mem' = disk
  /\ uploads' = disk.refs
  /\ staging' = [r \in Requests |-> 0]
  /\ blame' = {}
  /\ UNCHANGED <<disk, phase, target, parts, moved, reset>>

StartRefused ==
  /\ server = "down" /\ ~ disk.refs \subseteq uploads
  /\ server' = "refused"
  /\ staging' = [r \in Requests |-> 0]
  /\ UNCHANGED <<mem, disk, uploads, phase, target, parts, moved, reset, blame>>

Next ==
  \/ \E r \in Requests :
       \/ Arrive(r) \/ Stage(r) \/ Refused(r) \/ Accepted(r)
       \/ Move(r) \/ MoveFails(r) \/ Write(r) \/ WriteFails(r) \/ RollBack(r)
  \/ OtherCommit
  \/ ResetBegins \/ ResetDeletes \/ ResetClearsStaging \/ ResetWrites
  \/ Crash \/ Start \/ StartRefused

Spec == Init /\ [][Next]_vars

-----------------------------------------------------------------------------
(* Properties. *)

(***************************************************************************)
(* Type invariant, with the limit on the parts of one contest.             *)
(***************************************************************************)
Snapshot == [contested : SUBSET Charges, refs : SUBSET Ids]

TypeOK ==
  /\ server \in {"up", "down", "refused"}
  /\ mem \in Snapshot /\ disk \in Snapshot
  /\ uploads \subseteq Ids
  /\ staging \in [Requests -> 0 .. MaxAttachments]
  /\ phase \in [Requests -> {"idle", "staging", "moving", "rolling back"}]
  /\ target \in [Requests -> Charges]
  /\ parts \in [Requests -> 0 .. MaxAttachments]
  /\ moved \in [Requests -> SUBSET Ids]
  /\ reset \in {"idle", "deleting", "writing"}
  /\ blame \subseteq {"strays", "unsynced contest", "interrupted reset"}

(***************************************************************************)
(* The state file references only files that exist, at every instant at    *)
(* which the process may die, so that the next start accepts it.  Files    *)
(* are moved before the state that names them is written, and deleted      *)
(* only when no written state names them; two faults alone break this, a   *)
(* contest's write that fails after the replace and a reset that does not  *)
(* reach the end.                                                          *)
(***************************************************************************)
StateIsLoadable ==
  blame \cap {"unsynced contest", "interrupted reset"} = {}
    => disk.refs \subseteq uploads

(***************************************************************************)
(* Between requests, uploads/ holds exactly the files the state            *)
(* references: no refused, failed, rolled back or interrupted contest      *)
(* leaves a file behind, and no committed one loses one, unless a move or  *)
(* a reset failed half way since the last start or complete reset.         *)
(***************************************************************************)
UploadsMatchState ==
  Free /\ blame \subseteq {"unsynced contest"} => uploads = mem.refs

(***************************************************************************)
(* The parts a request has staged are there when it wants to move them: no *)
(* reset and no start of the process clears them under a request that is   *)
(* still being served.                                                     *)
(***************************************************************************)
PartsAreStaged ==
  \A r \in Requests : phase[r] # "idle" => staging[r] = parts[r]

-----------------------------------------------------------------------------
(* What the documents say and the code does not do. *)

(***************************************************************************)
(* app/db/store.py: attachment finalise and ledger write are atomic, and   *)
(* no code path persists half of a mutation: whenever no request is being  *)
(* committed, the files of a persisted contest are there.                  *)
(***************************************************************************)
NoHalfMutation == Free => disk.refs \subseteq uploads
=============================================================================
