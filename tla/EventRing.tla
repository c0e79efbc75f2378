------------------------------ MODULE EventRing ------------------------------
(***************************************************************************)
(* The event ring kept inside the snapshot (app/db/store.py and            *)
(* app/db/models.py) and the resolution of Last-Event-ID against it        *)
(* (app/services/event_bus.py).                                            *)
(*                                                                         *)
(* An event id is the tuple <<streamEpoch, storeRevision, ordinal>>.  A    *)
(* ring is a record with the three fields that describe it in a snapshot:  *)
(*   events          the retained events, oldest first                     *)
(*   streamCursor    id of the newest event ever appended                  *)
(*   evictedThrough  id of the newest event that left the ring             *)
(***************************************************************************)
EXTENDS Naturals, Sequences

EventIds == Nat \X Nat \X Nat

BaselineCursor(epoch) == <<epoch, 0, 0>>

EmptyRing(epoch) == [ events         |-> << >>,
                      streamCursor   |-> BaselineCursor(epoch),
                      evictedThrough |-> BaselineCursor(epoch) ]

(***************************************************************************)
(* Positions order the ids of one epoch; the code compares the pairs       *)
(* (revision, ordinal) lexicographically.                                  *)
(***************************************************************************)
Before(a, b) == a[2] < b[2] \/ (a[2] = b[2] /\ a[3] < b[3])
AtMost(a, b) == a = b \/ Before(a, b)

(***************************************************************************)
(* The events a commit stores: its drafts, numbered from 1 under the       *)
(* commit's own revision.                                                  *)
(***************************************************************************)
StoredEvents(epoch, revision, drafts) ==
  [i \in 1 .. Len(drafts) |->
     [id      |-> <<epoch, revision, i>>,
      entity  |-> drafts[i].entity,
      version |-> drafts[i].version]]

(***************************************************************************)
(* Append, keep the newest `capacity' events and remember the newest       *)
(* evicted one.  Without drafts nothing changes.                           *)
(***************************************************************************)
AppendEvents(ring, stored, capacity) ==
  LET combined == ring.events \o stored
      surplus  == Len(combined) - capacity
  IN  IF stored = << >> THEN ring
      ELSE [ events         |-> IF surplus > 0
                                THEN SubSeq(combined, surplus + 1, Len(combined))
                                ELSE combined,
             streamCursor   |-> stored[Len(stored)].id,
             evictedThrough |-> IF surplus > 0 THEN combined[surplus].id
                                               ELSE ring.evictedThrough ]

(* The elements of s, and those of them that are in S, in the order of s. *)
Elements(s) == {s[i] : i \in 1 .. Len(s)}

Within(s, S) ==
  LET upto[n \in 0 .. Len(s)] ==
        IF n = 0 THEN << >>
        ELSE IF s[n] \in S THEN Append(upto[n - 1], s[n])
        ELSE upto[n - 1]
  IN  upto[Len(s)]

(***************************************************************************)
(* Last-Event-ID is servable when it belongs to the current stream epoch   *)
(* and nothing after it has been evicted; the replay is every retained     *)
(* event behind it.                                                        *)
(***************************************************************************)
Servable(ring, epoch, cursor) ==
  /\ cursor[1] = epoch
  /\ ring.evictedThrough[1] = epoch
  /\ ~ Before(cursor, ring.evictedThrough)

ReplayFrom(ring, cursor) ==
  Within(ring.events, {e \in Elements(ring.events) : Before(cursor, e.id)})
=============================================================================
