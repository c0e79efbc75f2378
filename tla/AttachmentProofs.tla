-------------------------- MODULE AttachmentProofs --------------------------
(***************************************************************************)
(* Theorems about Attachments, for any requests, charges and opaque ids    *)
(* and any limit on the parts of a contest.                                *)
(***************************************************************************)
EXTENDS Attachments, TLAPS

-----------------------------------------------------------------------------
(* The inductive invariant. *)

Busy(r) == phase[r] \in {"moving", "rolling back"}

(***************************************************************************)
(* A request that finalises or rolls back is alone: no other is in such a  *)
(* stretch, no reset runs and the process lives.  A dead process keeps     *)
(* nothing in memory.                                                      *)
(***************************************************************************)
StretchesAreExclusive ==
  /\ \A r, q \in Requests : Busy(r) /\ Busy(q) => r = q
  /\ \A r \in Requests : Busy(r) => server = "up" /\ reset = "idle"
  /\ reset # "idle" => server = "up" /\ \A r \in Requests : phase[r] = "idle"
  /\ server # "up" => mem = Seed /\ \A r \in Requests : phase[r] = "idle"

(***************************************************************************)
(* What a request has moved is its own: in uploads/, not in the committed  *)
(* snapshot, and in the file only after a write that half failed.          *)
(***************************************************************************)
MovedFilesAreOwn ==
  \A r \in Requests :
    /\ ~ Busy(r) => moved[r] = {}
    /\ moved[r] \subseteq uploads
    /\ moved[r] \cap mem.refs = {}
    /\ "unsynced contest" \notin blame => moved[r] \cap disk.refs = {}

MemoryIsLoadable ==
  "interrupted reset" \notin blame => mem.refs \subseteq uploads

(***************************************************************************)
(* Unless a move or a reset failed half way, every file is referenced or   *)
(* was moved by the request in progress.                                   *)
(***************************************************************************)
UploadsAccountedFor ==
  server = "up" /\ blame \subseteq {"unsynced contest"} =>
    \A id \in uploads : id \in mem.refs \/ \E r \in Requests : id \in moved[r]

StagingMatchesParts ==
  \A r \in Requests :
    /\ server = "up" => staging[r] = parts[r]
    /\ phase[r] = "idle" => parts[r] = 0

(* What every reachable state satisfies, and every step preserves. *)
Inv ==
  /\ TypeOK
  /\ StretchesAreExclusive
  /\ MovedFilesAreOwn
  /\ MemoryIsLoadable
  /\ StateIsLoadable
  /\ UploadsAccountedFor
  /\ StagingMatchesParts

(***************************************************************************)
(* What the end of a request does to its own state and to the others'.     *)
(***************************************************************************)
LEMMA LeaveEffect ==
  ASSUME TypeOK, NEW r \in Requests, Leave(r)
  PROVE  /\ staging' \in [Requests -> 0 .. MaxAttachments]
         /\ phase' \in [Requests -> {"idle", "staging", "moving", "rolling back"}]
         /\ target' \in [Requests -> Charges]
         /\ parts' \in [Requests -> 0 .. MaxAttachments]
         /\ moved' \in [Requests -> SUBSET Ids]
         /\ phase'[r] = "idle" /\ staging'[r] = 0
         /\ parts'[r] = 0 /\ moved'[r] = {}
         /\ \A q \in Requests \ {r} :
              /\ phase'[q] = phase[q] /\ staging'[q] = staging[q]
              /\ parts'[q] = parts[q] /\ moved'[q] = moved[q]
<1>1. 0 \in 0 .. MaxAttachments
  BY AttachmentAssumption
<1> QED
  BY <1>1 DEF TypeOK, Leave

-----------------------------------------------------------------------------
(* Requests. *)

LEMMA ArriveKeepsInv ==
  ASSUME Inv, NEW r \in Requests, Arrive(r)
  PROVE  Inv'
<1>1. TypeOK'
  <2>1. PICK c \in Charges : target' = [target EXCEPT ![r] = c]
    BY DEF Arrive
  <2>2. target' \in [Requests -> Charges]
    BY <2>1 DEF Inv, TypeOK
  <2>3. phase' \in [Requests -> {"idle", "staging", "moving", "rolling back"}]
    BY DEF Arrive, Inv, TypeOK
  <2> QED
    BY <2>2, <2>3 DEF Arrive, Inv, TypeOK
<1>2. \A q \in Requests : Busy(q)' <=> Busy(q)
  BY DEF Arrive, Inv, TypeOK, Busy
<1>3. StretchesAreExclusive'
  BY <1>2 DEF Arrive, Free, Inv, StretchesAreExclusive
<1>4. (MovedFilesAreOwn /\ MemoryIsLoadable /\ StateIsLoadable /\ UploadsAccountedFor)'
  BY <1>2 DEF Arrive, Inv, MovedFilesAreOwn, MemoryIsLoadable, StateIsLoadable,
              UploadsAccountedFor
<1>5. StagingMatchesParts'
  BY DEF Arrive, Inv, TypeOK, StagingMatchesParts
<1> QED
  BY <1>1, <1>3, <1>4, <1>5 DEF Inv

LEMMA StageKeepsInv ==
  ASSUME Inv, NEW r \in Requests, Stage(r)
  PROVE  Inv'
<1>1. staging[r] = parts[r] /\ parts[r] + 1 \in 0 .. MaxAttachments
  <2>1. parts[r] \in 0 .. MaxAttachments /\ staging[r] = parts[r]
    BY DEF Stage, Free, Inv, TypeOK, StagingMatchesParts
  <2>2. parts[r] < MaxAttachments
    BY DEF Stage
  <2> QED
    BY <2>1, <2>2, AttachmentAssumption
<1>2. TypeOK'
  <2>1. /\ staging' \in [Requests -> 0 .. MaxAttachments]
        /\ parts' \in [Requests -> 0 .. MaxAttachments]
    BY <1>1 DEF Stage, Inv, TypeOK
  <2> QED
    BY <2>1 DEF Stage, Inv, TypeOK
<1>3. StretchesAreExclusive'
  BY DEF Stage, Inv, StretchesAreExclusive, Busy
<1>4. (MovedFilesAreOwn /\ MemoryIsLoadable /\ StateIsLoadable /\ UploadsAccountedFor)'
  BY DEF Stage, Inv, MovedFilesAreOwn, Busy, MemoryIsLoadable, StateIsLoadable,
         UploadsAccountedFor
<1>5. StagingMatchesParts'
  BY DEF Stage, Inv, TypeOK, StagingMatchesParts
<1> QED
  BY <1>2, <1>3, <1>4, <1>5 DEF Inv

LEMMA RefusedKeepsInv ==
  ASSUME Inv, NEW r \in Requests, Refused(r)
  PROVE  Inv'
<1>1. Leave(r) /\ TypeOK
  BY DEF Refused, Inv
<1>2. TypeOK'
  BY <1>1, LeaveEffect DEF Refused, TypeOK
<1>3. /\ \A q \in Requests : Busy(q)' <=> Busy(q)
      /\ \A q \in Requests : moved'[q] = moved[q]
  BY <1>1, LeaveEffect DEF Refused, Inv, Busy, MovedFilesAreOwn
<1>4. StretchesAreExclusive'
  BY <1>3 DEF Refused, Free, Inv, StretchesAreExclusive
<1>5. (MovedFilesAreOwn /\ MemoryIsLoadable /\ StateIsLoadable /\ UploadsAccountedFor)'
  BY <1>3 DEF Refused, Inv, MovedFilesAreOwn, MemoryIsLoadable, StateIsLoadable,
              UploadsAccountedFor
<1>6. StagingMatchesParts'
  BY <1>1, LeaveEffect DEF Refused, Inv, StagingMatchesParts
<1> QED
  BY <1>2, <1>4, <1>5, <1>6 DEF Inv

LEMMA AcceptedKeepsInv ==
  ASSUME Inv, NEW r \in Requests, Accepted(r)
  PROVE  Inv'
<1>1. \A q \in Requests : ~ Busy(q)
  BY DEF Accepted, Free, Busy
<1>2. \A q \in Requests : q # r => ~ Busy(q)'
  BY <1>1 DEF Accepted, Busy, Inv, TypeOK
<1>3. TypeOK'
  BY DEF Accepted, Inv, TypeOK
<1>4. StretchesAreExclusive'
  BY <1>2 DEF Accepted, Free, Inv, StretchesAreExclusive
<1>5. (MovedFilesAreOwn /\ MemoryIsLoadable /\ StateIsLoadable /\ UploadsAccountedFor)'
  BY <1>1 DEF Accepted, Inv, MovedFilesAreOwn, MemoryIsLoadable,
              StateIsLoadable, UploadsAccountedFor
<1>6. StagingMatchesParts'
  BY DEF Accepted, Inv, TypeOK, StagingMatchesParts
<1> QED
  BY <1>3, <1>4, <1>5, <1>6 DEF Inv

(***************************************************************************)
(* While r is busy, whatever else was moved is nobody's.                   *)
(***************************************************************************)
LEMMA OthersMovedNothing ==
  ASSUME Inv, NEW r \in Requests, Busy(r), NEW q \in Requests, q # r
  PROVE  ~ Busy(q) /\ moved[q] = {}
BY DEF Inv, StretchesAreExclusive, MovedFilesAreOwn

LEMMA MoveKeepsInv ==
  ASSUME Inv, NEW r \in Requests, Move(r)
  PROVE  Inv'
<1>1. PICK id \in Unused : /\ uploads' = uploads \cup {id}
                           /\ moved' = [moved EXCEPT ![r] = @ \cup {id}]
  BY DEF Move
<1>2. /\ id \in Ids /\ id \notin mem.refs /\ id \notin disk.refs
      /\ Busy(r) /\ \A q \in Requests : Busy(q)' <=> Busy(q)
  BY DEF Unused, Move, Busy
<1>3. /\ moved'[r] = moved[r] \cup {id}
      /\ \A q \in Requests : q # r => moved'[q] = moved[q]
  BY <1>1 DEF Inv, TypeOK
<1>4. TypeOK'
  <2>1. uploads' \subseteq Ids /\ moved' \in [Requests -> SUBSET Ids]
    BY <1>1, <1>2 DEF Inv, TypeOK
  <2>2. /\ parts[r] - 1 \in 0 .. MaxAttachments
        /\ staging[r] - 1 \in 0 .. MaxAttachments
    <3>1. parts[r] \in 0 .. MaxAttachments /\ staging[r] \in 0 .. MaxAttachments
      BY DEF Inv, TypeOK
    <3>2. parts[r] > 0 /\ staging[r] > 0
      BY DEF Move
    <3> QED
      BY <3>1, <3>2, AttachmentAssumption
  <2>3. /\ parts' \in [Requests -> 0 .. MaxAttachments]
        /\ staging' \in [Requests -> 0 .. MaxAttachments]
    BY <2>2 DEF Move, Inv, TypeOK
  <2> QED
    BY <2>1, <2>3 DEF Move, Inv, TypeOK
<1>5. StretchesAreExclusive'
  BY <1>2 DEF Move, Inv, StretchesAreExclusive
<1>6. MovedFilesAreOwn'
  <2> SUFFICES ASSUME NEW q \in Requests
               PROVE  /\ ~ Busy(q) => moved'[q] = {}
                      /\ moved'[q] \subseteq uploads'
                      /\ moved'[q] \cap mem.refs = {}
                      /\ "unsynced contest" \notin blame
                           => moved'[q] \cap disk.refs = {}
    BY <1>2 DEF Move, MovedFilesAreOwn
  <2>1. CASE q = r
    BY <2>1, <1>1, <1>2, <1>3 DEF Inv, MovedFilesAreOwn
  <2>2. CASE q # r
    BY <2>2, <1>1, <1>3 DEF Inv, MovedFilesAreOwn
  <2> QED
    BY <2>1, <2>2
<1>7. (MemoryIsLoadable /\ StateIsLoadable)'
  BY <1>1 DEF Move, Inv, MemoryIsLoadable, StateIsLoadable
<1>8. UploadsAccountedFor'
  <2> SUFFICES ASSUME server = "up", blame \subseteq {"unsynced contest"},
                      NEW x \in uploads'
               PROVE  x \in mem.refs \/ \E q \in Requests : x \in moved'[q]
    BY DEF Move, UploadsAccountedFor
  <2>1. CASE x = id
    BY <2>1, <1>3
  <2>2. CASE x \in uploads
    BY <2>2, <1>3 DEF Inv, UploadsAccountedFor
  <2> QED
    BY <2>1, <2>2, <1>1
<1>9. StagingMatchesParts'
  BY DEF Move, Inv, TypeOK, StagingMatchesParts
<1> QED
  BY <1>4, <1>5, <1>6, <1>7, <1>8, <1>9 DEF Inv

LEMMA MoveFailsKeepsInv ==
  ASSUME Inv, NEW r \in Requests, MoveFails(r)
  PROVE  Inv'
<1>1. Leave(r) /\ TypeOK /\ Busy(r)
  BY DEF MoveFails, Inv, Busy
<1>2. /\ ~ Busy(r)' /\ moved'[r] = {}
      /\ \A q \in Requests \ {r} : /\ Busy(q)' <=> Busy(q)
                                   /\ moved'[q] = moved[q]
  BY <1>1, LeaveEffect DEF Busy
<1>3. blame \subseteq blame' /\ blame' \subseteq blame \cup {"strays"}
      /\ (moved[r] # {} => "strays" \in blame')
  BY DEF MoveFails
<1>4. TypeOK'
  BY <1>1, <1>3, LeaveEffect DEF MoveFails, TypeOK
<1>5. StretchesAreExclusive'
  BY <1>1, <1>2, OthersMovedNothing DEF MoveFails, Inv, StretchesAreExclusive
<1>6. (MovedFilesAreOwn /\ MemoryIsLoadable /\ StateIsLoadable)'
  BY <1>2, <1>3 DEF MoveFails, Inv, MovedFilesAreOwn, MemoryIsLoadable,
                    StateIsLoadable
<1>7. UploadsAccountedFor'
  BY <1>2, <1>3 DEF MoveFails, Inv, UploadsAccountedFor
<1>8. StagingMatchesParts'
  BY <1>1, LeaveEffect DEF MoveFails, Inv, StagingMatchesParts
<1> QED
  BY <1>4, <1>5, <1>6, <1>7, <1>8 DEF Inv

LEMMA ContestedType ==
  ASSUME TypeOK, NEW r \in Requests
  PROVE  Contested(r) \in Snapshot /\ Contested(r).refs = mem.refs \cup moved[r]
BY DEF Contested, TypeOK, Snapshot

LEMMA WriteKeepsInv ==
  ASSUME Inv, NEW r \in Requests, Write(r)
  PROVE  Inv'
<1>1. Leave(r) /\ TypeOK /\ Busy(r)
  BY DEF Write, Inv, Busy
<1>2. /\ ~ Busy(r)' /\ moved'[r] = {}
      /\ \A q \in Requests \ {r} : ~ Busy(q)' /\ moved'[q] = {}
  BY <1>1, LeaveEffect, OthersMovedNothing DEF Busy
<1>3. /\ mem' \in Snapshot /\ disk' = mem'
      /\ mem'.refs = mem.refs \cup moved[r]
  BY <1>1, ContestedType DEF Write
<1>4. TypeOK'
  BY <1>1, <1>3, LeaveEffect DEF Write, TypeOK
<1>5. StretchesAreExclusive'
  BY <1>1, <1>2 DEF Write, Inv, StretchesAreExclusive
<1>6. MovedFilesAreOwn'
  BY <1>2 DEF MovedFilesAreOwn
<1>7. (MemoryIsLoadable /\ StateIsLoadable)'
  BY <1>3 DEF Write, Inv, MovedFilesAreOwn, MemoryIsLoadable, StateIsLoadable
<1>8. UploadsAccountedFor'
  <2> SUFFICES ASSUME server = "up", blame' \subseteq {"unsynced contest"},
                      NEW x \in uploads
               PROVE  x \in mem'.refs
    BY DEF Write, UploadsAccountedFor
  <2>1. x \in mem.refs \/ \E q \in Requests : x \in moved[q]
    BY DEF Write, Inv, UploadsAccountedFor
  <2> QED
    BY <2>1, <1>1, <1>3, OthersMovedNothing
<1>9. StagingMatchesParts'
  BY <1>1, LeaveEffect DEF Write, Inv, StagingMatchesParts
<1> QED
  BY <1>4, <1>5, <1>6, <1>7, <1>8, <1>9 DEF Inv

LEMMA WriteFailsKeepsInv ==
  ASSUME Inv, NEW r \in Requests, WriteFails(r)
  PROVE  Inv'
<1>1. /\ Busy(r) /\ phase' = [phase EXCEPT ![r] = "rolling back"]
      /\ \A q \in Requests : Busy(q)' <=> Busy(q)
  BY DEF WriteFails, Inv, TypeOK, Busy
<1>2. \/ disk' = disk /\ blame' = blame
      \/ /\ disk' = Contested(r)
         /\ IF moved[r] = {} THEN blame' = blame
            ELSE blame' = blame \cup {"unsynced contest"}
  BY DEF WriteFails
<1>3. disk' \in Snapshot /\ (disk' # disk => disk'.refs = mem.refs \cup moved[r])
  BY <1>2, ContestedType DEF Inv, TypeOK
<1>4. TypeOK'
  BY <1>1, <1>2, <1>3 DEF WriteFails, Inv, TypeOK
<1>5. StretchesAreExclusive'
  BY <1>1 DEF WriteFails, Inv, TypeOK, StretchesAreExclusive
<1>6. MovedFilesAreOwn'
  <2> SUFFICES ASSUME NEW q \in Requests, "unsynced contest" \notin blame'
               PROVE  moved[q] \cap disk'.refs = {}
    BY <1>1 DEF WriteFails, Inv, MovedFilesAreOwn
  <2>1. moved[q] \cap disk.refs = {} /\ moved[q] \cap mem.refs = {}
    BY <1>2 DEF Inv, MovedFilesAreOwn
  <2>2. CASE disk' = Contested(r) /\ moved[r] = {}
    BY <2>1, <2>2, <1>3
  <2> QED
    BY <2>1, <2>2, <1>2
<1>7. (MemoryIsLoadable /\ UploadsAccountedFor)'
  BY <1>2 DEF WriteFails, Inv, MemoryIsLoadable, UploadsAccountedFor
<1>8. StateIsLoadable'
  BY <1>2, <1>3 DEF WriteFails, Inv, MovedFilesAreOwn, MemoryIsLoadable,
                    StateIsLoadable
<1>9. StagingMatchesParts'
  BY DEF WriteFails, Inv, TypeOK, StagingMatchesParts
<1> QED
  BY <1>4, <1>5, <1>6, <1>7, <1>8, <1>9 DEF Inv

(***************************************************************************)
(* Rolling back takes one file away, or finds none left and ends.          *)
(***************************************************************************)
LEMMA RollBackKeepsInv ==
  ASSUME Inv, NEW r \in Requests, RollBack(r)
  PROVE  Inv'
<1>1. TypeOK /\ Busy(r) /\ UNCHANGED <<server, mem, disk, reset, blame>>
  BY DEF RollBack, Inv, Busy
<1>2. CASE moved[r] = {}
  <2>1. Leave(r) /\ UNCHANGED uploads
    BY <1>2 DEF RollBack
  <2>2. /\ \A q \in Requests : moved'[q] = moved[q]
        /\ \A q \in Requests : ~ Busy(q)'
    BY <1>1, <1>2, <2>1, LeaveEffect, OthersMovedNothing DEF Busy
  <2>3. TypeOK'
    BY <1>1, <2>1, LeaveEffect DEF TypeOK
  <2>4. StretchesAreExclusive'
    BY <1>1, <2>2 DEF Inv, StretchesAreExclusive
  <2>5. (MovedFilesAreOwn /\ MemoryIsLoadable /\ StateIsLoadable /\ UploadsAccountedFor)'
    BY <1>1, <1>2, <2>1, <2>2, OthersMovedNothing
    DEF Inv, MovedFilesAreOwn, MemoryIsLoadable, StateIsLoadable,
        UploadsAccountedFor
  <2>6. StagingMatchesParts'
    BY <1>1, <2>1, LeaveEffect DEF Inv, StagingMatchesParts
  <2> QED
    BY <2>3, <2>4, <2>5, <2>6 DEF Inv
<1>3. CASE moved[r] # {}
  <2>1. PICK id \in moved[r] : /\ uploads' = uploads \ {id}
                               /\ moved' = [moved EXCEPT ![r] = @ \ {id}]
    BY <1>3 DEF RollBack
  <2>2. UNCHANGED <<staging, phase, target, parts>>
    BY <1>3 DEF RollBack
  <2>3. /\ moved'[r] = moved[r] \ {id}
        /\ \A q \in Requests \ {r} : moved'[q] = {} /\ ~ Busy(q)
    BY <1>1, <2>1, OthersMovedNothing DEF TypeOK
  <2>4. /\ id \notin mem.refs
        /\ "unsynced contest" \notin blame => id \notin disk.refs
    BY DEF Inv, MovedFilesAreOwn
  <2>5. TypeOK'
    <3>1. uploads' \subseteq Ids /\ moved' \in [Requests -> SUBSET Ids]
      BY <2>1 DEF Inv, TypeOK
    <3> QED
      BY <1>1, <2>2, <3>1 DEF TypeOK
  <2>6. StretchesAreExclusive'
    BY <1>1, <2>2 DEF Inv, StretchesAreExclusive, Busy
  <2>7. MovedFilesAreOwn'
    <3> SUFFICES ASSUME NEW q \in Requests
                 PROVE  /\ ~ Busy(q) => moved'[q] = {}
                        /\ moved'[q] \subseteq uploads'
                        /\ moved'[q] \cap mem.refs = {}
                        /\ "unsynced contest" \notin blame
                             => moved'[q] \cap disk.refs = {}
      BY <1>1, <2>2 DEF MovedFilesAreOwn, Busy
    <3>1. CASE q = r
      <4>1. /\ moved[r] \subseteq uploads
            /\ moved[r] \cap mem.refs = {}
            /\ "unsynced contest" \notin blame => moved[r] \cap disk.refs = {}
        BY DEF Inv, MovedFilesAreOwn
      <4>2. moved'[q] = moved[r] \ {id} /\ Busy(q)
        BY <3>1, <1>1, <2>3
      <4>3. moved'[q] \subseteq uploads'
        BY <2>1, <4>1, <4>2
      <4> QED
        BY <4>1, <4>2, <4>3
    <3>2. CASE q # r
      <4>1. moved'[q] = {}
        BY <3>2, <2>3
      <4> QED
        BY <4>1
    <3> QED
      BY <3>1, <3>2
  <2>8. (MemoryIsLoadable /\ StateIsLoadable)'
    BY <1>1, <2>1, <2>4 DEF Inv, MemoryIsLoadable, StateIsLoadable
  <2>9. UploadsAccountedFor'
    <3> SUFFICES ASSUME server = "up", blame \subseteq {"unsynced contest"},
                        NEW x \in uploads'
                 PROVE  x \in mem.refs \/ x \in moved'[r]
      BY <1>1 DEF UploadsAccountedFor
    <3>1. x # id /\ (x \in mem.refs \/ \E q \in Requests : x \in moved[q])
      BY <2>1 DEF Inv, UploadsAccountedFor
    <3> QED
      BY <1>1, <2>3, <3>1, OthersMovedNothing
  <2>10. StagingMatchesParts'
    BY <1>1, <2>2 DEF Inv, StagingMatchesParts
  <2> QED
    BY <2>5, <2>6, <2>7, <2>8, <2>9, <2>10 DEF Inv
<1> QED
  BY <1>2, <1>3

-----------------------------------------------------------------------------
(* Other commits, reset, death and restart. *)

LEMMA NobodyBusy ==
  ASSUME Inv, \A r \in Requests : phase[r] \in {"idle", "staging"}
  PROVE  \A r \in Requests : ~ Busy(r) /\ moved[r] = {}
BY DEF Inv, Busy, MovedFilesAreOwn

LEMMA OtherCommitKeepsInv ==
  ASSUME Inv, OtherCommit
  PROVE  Inv'
<1>1. /\ disk' = mem /\ blame' = blame \ {"unsynced contest"}
      /\ UNCHANGED <<server, mem, uploads, requests, reset>>
  BY DEF OtherCommit
<1>2. \A r \in Requests : moved[r] = {}
  BY NobodyBusy DEF OtherCommit, Free
<1>3. TypeOK'
  BY <1>1 DEF requests, Inv, TypeOK
<1>4. StretchesAreExclusive'
  BY <1>1 DEF requests, Inv, StretchesAreExclusive, Busy
<1>5. (MovedFilesAreOwn /\ MemoryIsLoadable /\ StateIsLoadable /\ UploadsAccountedFor)'
  BY <1>1, <1>2 DEF requests, Inv, MovedFilesAreOwn, Busy, MemoryIsLoadable,
                    StateIsLoadable, UploadsAccountedFor
<1>6. StagingMatchesParts'
  BY <1>1 DEF requests, Inv, StagingMatchesParts
<1> QED
  BY <1>3, <1>4, <1>5, <1>6 DEF Inv

LEMMA ResetBeginsKeepsInv ==
  ASSUME Inv, ResetBegins
  PROVE  Inv'
<1>1. /\ reset' = "deleting"
      /\ UNCHANGED <<server, mem, disk, uploads, requests, blame>>
      /\ server = "up" /\ \A r \in Requests : phase[r] = "idle"
  BY DEF ResetBegins, Free
<1>2. TypeOK'
  BY <1>1 DEF requests, Inv, TypeOK
<1>3. StretchesAreExclusive'
  BY <1>1 DEF requests, StretchesAreExclusive, Busy
<1>4. (MovedFilesAreOwn /\ MemoryIsLoadable /\ StateIsLoadable /\ UploadsAccountedFor)'
  BY <1>1 DEF requests, Inv, MovedFilesAreOwn, Busy, MemoryIsLoadable,
              StateIsLoadable, UploadsAccountedFor
<1>5. StagingMatchesParts'
  BY <1>1 DEF requests, Inv, StagingMatchesParts
<1> QED
  BY <1>2, <1>3, <1>4, <1>5 DEF Inv

(***************************************************************************)
(* Under a reset no request is in progress and nothing is moved.           *)
(***************************************************************************)
LEMMA ResetIsAlone ==
  ASSUME Inv, reset # "idle"
  PROVE  /\ server = "up"
         /\ \A r \in Requests : phase[r] = "idle" /\ moved[r] = {} /\ parts[r] = 0
BY DEF Inv, StretchesAreExclusive, MovedFilesAreOwn, StagingMatchesParts, Busy

LEMMA ResetDeletesKeepsInv ==
  ASSUME Inv, ResetDeletes
  PROVE  Inv'
<1>1. /\ uploads' \subseteq uploads
      /\ blame' = blame \cup {"interrupted reset"}
      /\ UNCHANGED <<server, mem, disk, requests, reset>>
      /\ reset # "idle"
  BY DEF ResetDeletes
<1>2. TypeOK'
  BY <1>1 DEF requests, Inv, TypeOK
<1>3. StretchesAreExclusive'
  BY <1>1 DEF requests, Inv, StretchesAreExclusive, Busy
<1>4. MovedFilesAreOwn'
  BY <1>1, ResetIsAlone DEF requests, MovedFilesAreOwn
<1>5. (MemoryIsLoadable /\ StateIsLoadable /\ UploadsAccountedFor)'
  BY <1>1 DEF MemoryIsLoadable, StateIsLoadable, UploadsAccountedFor
<1>6. StagingMatchesParts'
  BY <1>1 DEF requests, Inv, StagingMatchesParts
<1> QED
  BY <1>2, <1>3, <1>4, <1>5, <1>6 DEF Inv

LEMMA NothingStaged ==
  [r \in Requests |-> 0] \in [Requests -> 0 .. MaxAttachments]
<1>1. 0 \in 0 .. MaxAttachments
  BY AttachmentAssumption
<1> QED
  BY <1>1

LEMMA ResetClearsStagingKeepsInv ==
  ASSUME Inv, ResetClearsStaging
  PROVE  Inv'
<1>1. /\ reset # "idle" /\ reset' = "writing"
      /\ staging' = [r \in Requests |-> 0]
      /\ UNCHANGED <<server, mem, disk, uploads, phase, target, parts, moved, blame>>
  BY DEF ResetClearsStaging
<1>2. TypeOK'
  BY <1>1, NothingStaged DEF Inv, TypeOK
<1>3. StretchesAreExclusive'
  BY <1>1 DEF Inv, StretchesAreExclusive, Busy
<1>4. (MovedFilesAreOwn /\ MemoryIsLoadable /\ StateIsLoadable /\ UploadsAccountedFor)'
  BY <1>1 DEF Inv, MovedFilesAreOwn, Busy, MemoryIsLoadable, StateIsLoadable,
              UploadsAccountedFor
<1>5. StagingMatchesParts'
  BY <1>1, ResetIsAlone DEF StagingMatchesParts
<1> QED
  BY <1>2, <1>3, <1>4, <1>5 DEF Inv

LEMMA SeedType == Seed \in Snapshot /\ Seed.refs = {}
BY DEF Seed, Snapshot

LEMMA ResetWritesKeepsInv ==
  ASSUME Inv, ResetWrites
  PROVE  Inv'
<1>1. reset # "idle" /\ reset' = "idle" /\ UNCHANGED <<server, uploads, requests>>
  BY DEF ResetWrites
<1>2. \/ /\ mem' = Seed /\ disk' = Seed
         /\ blame' = IF uploads = {} THEN {} ELSE {"strays"}
      \/ disk' = Seed /\ UNCHANGED <<mem, blame>>
      \/ UNCHANGED <<mem, disk, blame>>
  BY DEF ResetWrites
<1>3. TypeOK'
  <2>1. /\ mem' \in Snapshot /\ disk' \in Snapshot
        /\ blame' \subseteq {"strays", "unsynced contest", "interrupted reset"}
    BY <1>2, SeedType DEF Inv, TypeOK
  <2> QED
    BY <1>1, <2>1 DEF requests, Inv, TypeOK
<1>4. StretchesAreExclusive'
  BY <1>1, ResetIsAlone DEF requests, StretchesAreExclusive, Busy
<1>5. MovedFilesAreOwn'
  BY <1>1, ResetIsAlone DEF requests, MovedFilesAreOwn
<1>6. (MemoryIsLoadable /\ StateIsLoadable)'
  BY <1>1, <1>2, SeedType DEF Inv, MemoryIsLoadable, StateIsLoadable
<1>7. UploadsAccountedFor'
  BY <1>1, <1>2 DEF requests, Inv, UploadsAccountedFor
<1>8. StagingMatchesParts'
  BY <1>1 DEF requests, Inv, StagingMatchesParts
<1> QED
  BY <1>3, <1>4, <1>5, <1>6, <1>7, <1>8 DEF Inv

LEMMA CrashKeepsInv ==
  ASSUME Inv, Crash
  PROVE  Inv'
<1>1. /\ server' = "down" /\ mem' = Seed /\ reset' = "idle"
      /\ phase' = [r \in Requests |-> "idle"]
      /\ parts' = [r \in Requests |-> 0]
      /\ moved' = [r \in Requests |-> {}]
      /\ UNCHANGED <<disk, uploads, staging, target, blame>>
  BY DEF Crash
<1>2. TypeOK'
  <2>1. /\ phase' \in [Requests -> {"idle", "staging", "moving", "rolling back"}]
        /\ parts' \in [Requests -> 0 .. MaxAttachments]
        /\ moved' \in [Requests -> SUBSET Ids]
    BY <1>1, NothingStaged
  <2> QED
    BY <1>1, <2>1, SeedType DEF Inv, TypeOK
<1>3. StretchesAreExclusive'
  BY <1>1 DEF StretchesAreExclusive, Busy, Seed
<1>4. (MovedFilesAreOwn /\ MemoryIsLoadable /\ StateIsLoadable /\ UploadsAccountedFor)'
  BY <1>1, SeedType DEF Inv, MovedFilesAreOwn, MemoryIsLoadable,
                        StateIsLoadable, UploadsAccountedFor
<1>5. StagingMatchesParts'
  BY <1>1 DEF StagingMatchesParts
<1> QED
  BY <1>2, <1>3, <1>4, <1>5 DEF Inv

(***************************************************************************)
(* A process that starts, or refuses to, finds no request in progress.     *)
(***************************************************************************)
LEMMA StartFindsNobody ==
  ASSUME Inv, server # "up"
  PROVE  /\ reset = "idle"
         /\ \A r \in Requests : phase[r] = "idle" /\ moved[r] = {} /\ parts[r] = 0
BY DEF Inv, StretchesAreExclusive, MovedFilesAreOwn, StagingMatchesParts, Busy

LEMMA StartKeepsInv ==
  ASSUME Inv, Start
  PROVE  Inv'
<1>1. /\ server # "up" /\ server' = "up"
      /\ mem' = disk /\ uploads' = disk.refs /\ blame' = {}
      /\ staging' = [r \in Requests |-> 0]
      /\ UNCHANGED <<disk, phase, target, parts, moved, reset>>
  BY DEF Start
<1>2. TypeOK'
  BY <1>1, NothingStaged DEF Inv, TypeOK, Snapshot
<1>3. StretchesAreExclusive'
  BY <1>1, StartFindsNobody DEF StretchesAreExclusive, Busy
<1>4. (MovedFilesAreOwn /\ MemoryIsLoadable /\ StateIsLoadable /\ UploadsAccountedFor)'
  BY <1>1, StartFindsNobody DEF MovedFilesAreOwn, MemoryIsLoadable,
                                StateIsLoadable, UploadsAccountedFor
<1>5. StagingMatchesParts'
  BY <1>1, StartFindsNobody DEF StagingMatchesParts
<1> QED
  BY <1>2, <1>3, <1>4, <1>5 DEF Inv

LEMMA StartRefusedKeepsInv ==
  ASSUME Inv, StartRefused
  PROVE  Inv'
<1>1. /\ server # "up" /\ server' = "refused"
      /\ staging' = [r \in Requests |-> 0]
      /\ UNCHANGED <<mem, disk, uploads, phase, target, parts, moved, reset, blame>>
  BY DEF StartRefused
<1>2. TypeOK'
  BY <1>1, NothingStaged DEF Inv, TypeOK
<1>3. StretchesAreExclusive'
  BY <1>1 DEF Inv, StretchesAreExclusive, Busy
<1>4. (MovedFilesAreOwn /\ MemoryIsLoadable /\ StateIsLoadable /\ UploadsAccountedFor)'
  BY <1>1 DEF Inv, MovedFilesAreOwn, Busy, MemoryIsLoadable, StateIsLoadable,
              UploadsAccountedFor
<1>5. StagingMatchesParts'
  BY <1>1, StartFindsNobody DEF StagingMatchesParts
<1> QED
  BY <1>2, <1>3, <1>4, <1>5 DEF Inv

-----------------------------------------------------------------------------
(* The theorems. *)

LEMMA InitImpliesInv == Init => Inv
<1> SUFFICES ASSUME Init PROVE Inv
  OBVIOUS
<1>1. TypeOK
  BY SeedType, AttachmentAssumption DEF Init, TypeOK
<1>2. StretchesAreExclusive /\ StagingMatchesParts
  BY DEF Init, StretchesAreExclusive, StagingMatchesParts, Busy
<1>3. MovedFilesAreOwn /\ MemoryIsLoadable /\ StateIsLoadable /\ UploadsAccountedFor
  BY SeedType DEF Init, MovedFilesAreOwn, MemoryIsLoadable, StateIsLoadable,
                  UploadsAccountedFor
<1> QED
  BY <1>1, <1>2, <1>3 DEF Inv

LEMMA StutterKeepsInv ==
  ASSUME Inv, UNCHANGED vars
  PROVE  Inv'
BY DEF vars, Inv, TypeOK, StretchesAreExclusive, Busy, MovedFilesAreOwn,
       MemoryIsLoadable, StateIsLoadable, UploadsAccountedFor,
       StagingMatchesParts

LEMMA NextKeepsInv == Inv /\ [Next]_vars => Inv'
<1> SUFFICES ASSUME Inv, [Next]_vars PROVE Inv'
  OBVIOUS
<1>1. ASSUME NEW r \in Requests,
             \/ Arrive(r) \/ Stage(r) \/ Refused(r) \/ Accepted(r)
             \/ Move(r) \/ MoveFails(r) \/ Write(r) \/ WriteFails(r) \/ RollBack(r)
      PROVE  Inv'
  BY <1>1, ArriveKeepsInv, StageKeepsInv, RefusedKeepsInv, AcceptedKeepsInv,
     MoveKeepsInv, MoveFailsKeepsInv, WriteKeepsInv, WriteFailsKeepsInv,
     RollBackKeepsInv
<1>2. CASE OtherCommit
  BY <1>2, OtherCommitKeepsInv
<1>3. CASE ResetBegins \/ ResetDeletes \/ ResetClearsStaging \/ ResetWrites
  BY <1>3, ResetBeginsKeepsInv, ResetDeletesKeepsInv,
     ResetClearsStagingKeepsInv, ResetWritesKeepsInv
<1>4. CASE Crash \/ Start \/ StartRefused
  BY <1>4, CrashKeepsInv, StartKeepsInv, StartRefusedKeepsInv
<1>5. CASE UNCHANGED vars
  BY <1>5, StutterKeepsInv
<1> QED
  BY <1>1, <1>2, <1>3, <1>4, <1>5 DEF Next

(***************************************************************************)
(* The invariant that carries the four properties below: files and state   *)
(* through finalise, rollback, reset, death and restart.                   *)
(***************************************************************************)
THEOREM InvHolds == Spec => []Inv
BY InitImpliesInv, NextKeepsInv, PTL DEF Spec

(***************************************************************************)
(* No contest ever holds more parts than the limit, and every variable     *)
(* keeps its type.                                                         *)
(***************************************************************************)
THEOREM TypeCorrect == Spec => []TypeOK
<1>1. Inv => TypeOK
  BY DEF Inv
<1> QED
  BY <1>1, InvHolds, PTL

(***************************************************************************)
(* Wherever the process dies, the next one accepts the state, but for the  *)
(* two faults (JsonStore._verify_attachments never refuses it).            *)
(***************************************************************************)
THEOREM StateAlwaysLoadable == Spec => []StateIsLoadable
<1>1. Inv => StateIsLoadable
  BY DEF Inv
<1> QED
  BY <1>1, InvHolds, PTL

(***************************************************************************)
(* finalize, rollback, the write and the startup sweep together leave      *)
(* exactly the referenced files in uploads/.                               *)
(***************************************************************************)
THEOREM UploadsAlwaysMatch == Spec => []UploadsMatchState
<1>1. Inv => UploadsMatchState
  <2> SUFFICES ASSUME Inv, Free, blame \subseteq {"unsynced contest"}
               PROVE  uploads = mem.refs
    BY DEF UploadsMatchState
  <2>1. mem.refs \subseteq uploads
    BY DEF Inv, MemoryIsLoadable
  <2>2. \A r \in Requests : moved[r] = {}
    BY NobodyBusy DEF Free
  <2>3. uploads \subseteq mem.refs
    BY <2>2 DEF Free, Inv, UploadsAccountedFor
  <2> QED
    BY <2>1, <2>3
<1> QED
  BY <1>1, InvHolds, PTL

(***************************************************************************)
(* The operation barrier keeps _clear_staging away from a request's parts. *)
(***************************************************************************)
THEOREM PartsAlwaysStaged == Spec => []PartsAreStaged
<1>1. Inv => PartsAreStaged
  BY DEF Inv, StretchesAreExclusive, StagingMatchesParts, PartsAreStaged
<1> QED
  BY <1>1, InvHolds, PTL
=============================================================================
