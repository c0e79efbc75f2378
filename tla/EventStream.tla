---------------------------- MODULE EventStream ----------------------------
(***************************************************************************)
(* The event stream: the broker and its bounded subscriber queues          *)
(* (app/services/event_bus.py), the SSE endpoint                           *)
(* (app/api/v1/endpoints/events.py), the reset that closes streams before  *)
(* it reseeds (app/services/demo_reset.py), and clients that resume with   *)
(* Last-Event-ID and fall back to /sync-snapshot.                          *)
(*                                                                         *)
(* Of the store only what the stream depends on is kept: epoch, revision   *)
(* and ring, in memory and in the file, with the outcomes of a write that  *)
(* ChargeStore has in full.  One action is one stretch of a coroutine      *)
(* between two suspensions: the store and broker locks are never held      *)
(* across one, so each action finds them free.                             *)
(***************************************************************************)
EXTENDS EventRing, SequencesExt

CONSTANTS
  Clients,
  RingCapacity,    \* EVENT_RING_CAPACITY
  QueueCapacity,   \* sse_queue_capacity
  WireCapacity,    \* frames the transport takes before the sender has to wait
  \* Bounds of the model; the code has none of them.
  MaxBatch, MaxRevision, MaxEpoch, MaxRequests

ASSUME StreamAssumption ==
  /\ RingCapacity \in Nat \ {0}
  /\ QueueCapacity \in Nat \ {0}
  /\ WireCapacity \in Nat \ {0}
  /\ MaxBatch \in Nat /\ MaxRevision \in Nat
  /\ MaxEpoch \in Nat /\ MaxRequests \in Nat

VARIABLES
  mem,           \* the store's snapshot
  disk,          \* the snapshot in state.json
  epochsIssued,  \* auxiliary: epochs are fresh, and numbered as they are made
  requests,      \* shared leases held by requests in progress
  resetters,     \* resets that have closed the streams and wait for the lease
  sub,           \* the subscriber behind each client's connection
  cursor,        \* the Last-Event-ID each client would send
  told           \* auxiliary: what each client has been told of, in order

vars == <<mem, disk, epochsIssued, requests, resetters, sub, cursor, told>>

(***************************************************************************)
(* A snapshot.  `log' is auxiliary: every event of the epoch, evicted or   *)
(* not.                                                                    *)
(***************************************************************************)
Fresh(epoch) == [epoch |-> epoch, revision |-> 1, ring |-> EmptyRing(epoch),
                 log |-> << >>]

(***************************************************************************)
(* A subscriber is in the broker's registry exactly while it is "open":    *)
(* all who set `closed' take it out.  A "closed" one is still drained by   *)
(* its stream.  The queue may hold the end marker (None in the code).      *)
(***************************************************************************)
NoSubscriber == [state |-> "off", epoch |-> 0, maxsize |-> 0,
                 queue |-> << >>, wire |-> << >>]

NoCursor == <<0, 0, 0>>

EndMarker == [id |-> NoCursor, entity |-> "end", version |-> 0]

-----------------------------------------------------------------------------
(* The broker. *)

(* Mutant: the queue has the configured size whatever it must replay. *)
RegisteredFixedSize(replay) ==
  [ state |-> "open", epoch |-> mem.epoch, maxsize |-> QueueCapacity,
    queue |-> replay, wire |-> << >> ]

Registered(replay) ==
  [ state   |-> "open",
    epoch   |-> mem.epoch,
    maxsize |-> IF QueueCapacity > Len(replay) + 1 THEN QueueCapacity
                                                   ELSE Len(replay) + 1,
    queue   |-> replay,
    wire    |-> << >> ]

Room(s) == s.maxsize - Len(s.queue)

(***************************************************************************)
(* Fan-out to one subscriber: the queue takes what fits; at the first      *)
(* event that does not, the subscriber is closed and leaves the registry.  *)
(* Its queue being full, the end marker is never accepted here.            *)
(***************************************************************************)
(* Mutant: an overflowing client is dropped from the registry, unmarked. *)
DeliveredUnmarked(s, events) ==
  IF s.state # "open" THEN s
  ELSE IF Len(events) <= Room(s) THEN [s EXCEPT !.queue = @ \o events]
  ELSE [s EXCEPT !.state = "forgotten",
                 !.queue = @ \o SubSeq(events, 1, Room(s))]

Delivered(s, events) ==
  IF s.state # "open" THEN s
  ELSE IF Len(events) <= Room(s) THEN [s EXCEPT !.queue = @ \o events]
  ELSE [s EXCEPT !.state = "closed",
                 !.queue = @ \o SubSeq(events, 1, Room(s))]

Publish(events) == sub' = [c \in Clients |-> Delivered(sub[c], events)]

Closed(s) ==
  IF s.state # "open" THEN s
  ELSE [s EXCEPT !.state = "closed",
                 !.queue = IF Room(s) > 0 THEN Append(@, EndMarker) ELSE @]

CloseAll == sub' = [c \in Clients |-> Closed(sub[c])]

-----------------------------------------------------------------------------
(* The store, as far as the stream sees it. *)

Init ==
  /\ mem = Fresh(1) /\ disk = Fresh(1)
  /\ epochsIssued = 1
  /\ requests = 0 /\ resetters = 0
  /\ sub = [c \in Clients |-> NoSubscriber]
  /\ cursor = [c \in Clients |-> NoCursor]
  /\ told = [c \in Clients |-> << >>]

(***************************************************************************)
(* A commit of n events.  `write' keeps apart the two commits that may     *)
(* claim one revision: the one whose write failed half way and the one     *)
(* that succeeded after it.                                                *)
(***************************************************************************)
Committed(n, write) ==
  LET stored == StoredEvents(mem.epoch, mem.revision + 1,
                  [i \in 1 .. n |-> [entity |-> write, version |-> i]])
  IN  [ epoch    |-> mem.epoch,
        revision |-> mem.revision + 1,
        ring     |-> AppendEvents(mem.ring, stored, RingCapacity),
        log      |-> mem.log \o stored ]

NewEvents(after) == SubSeq(after.log, Len(mem.log) + 1, Len(after.log))

(***************************************************************************)
(* Any mutation, of a request or of the deadline scheduler (which holds no *)
(* lease); each announces at least one event.  A write that fails before   *)
(* the file is replaced changes nothing.                                   *)
(***************************************************************************)
Commit ==
  /\ mem.revision < MaxRevision
  /\ \E n \in 1 .. MaxBatch :
       \/ /\ mem' = Committed(n, "synced")
          /\ disk' = mem'
          /\ Publish(NewEvents(mem'))
       \/ /\ disk' = Committed(n, "unsynced")
          /\ UNCHANGED <<mem, sub>>
  /\ UNCHANGED <<epochsIssued, requests, resetters, cursor, told>>

RequestBegins ==
  /\ requests < MaxRequests
  /\ requests' = requests + 1
  /\ UNCHANGED <<mem, disk, epochsIssued, resetters, sub, cursor, told>>

RequestEnds ==
  /\ requests > 0
  /\ requests' = requests - 1
  /\ UNCHANGED <<mem, disk, epochsIssued, resetters, sub, cursor, told>>

Reseed ==
  LET fresh == Fresh(epochsIssued + 1)
  IN  /\ epochsIssued' = epochsIssued + 1
      /\ \/ mem' = fresh /\ disk' = fresh
         \/ disk' = fresh /\ UNCHANGED mem
         \/ UNCHANGED <<mem, disk>>

(***************************************************************************)
(* A reset closes every stream and asks for the exclusive lease.  With no  *)
(* request in progress it gets the lease without being suspended;          *)
(* otherwise it waits, and whatever arrives meanwhile is served.           *)
(***************************************************************************)
ResetAtOnce ==
  /\ epochsIssued + resetters < MaxEpoch
  /\ requests = 0
  /\ CloseAll
  /\ Reseed
  /\ UNCHANGED <<requests, resetters, cursor, told>>

ResetWaits ==
  /\ epochsIssued + resetters < MaxEpoch
  /\ requests > 0
  /\ CloseAll
  /\ resetters' = resetters + 1
  /\ UNCHANGED <<mem, disk, epochsIssued, requests, cursor, told>>

ResetGranted ==
  /\ resetters > 0 /\ requests = 0
  /\ resetters' = resetters - 1
  /\ Reseed
  /\ UNCHANGED <<requests, sub, cursor, told>>

(***************************************************************************)
(* The process dies; the next one loads the file and has no connections.   *)
(***************************************************************************)
Restart ==
  /\ mem' = disk
  /\ sub' = [c \in Clients |-> NoSubscriber]
  /\ requests' = 0 /\ resetters' = 0
  /\ UNCHANGED <<disk, epochsIssued, cursor, told>>

-----------------------------------------------------------------------------
(* The endpoint and its clients. *)

Off(c) == sub[c].state = "off"

CanResume(c) ==
  cursor[c] = NoCursor \/ Servable(mem.ring, mem.epoch, cursor[c])

(***************************************************************************)
(* Subscribe: ring, cursor and registry are looked at in one critical      *)
(* section of the store lock, so no commit falls between the replay and    *)
(* the live events.  A client that names no cursor asks for what happens   *)
(* from now on.                                                            *)
(***************************************************************************)
(* Mutant: registered after the lock is released; a commit slips between. *)
ConnectLate(c) ==
  /\ Off(c) /\ CanResume(c)
  /\ LET replay == IF cursor[c] = NoCursor THEN << >>
                                           ELSE ReplayFrom(mem.ring, cursor[c])
     IN  sub' = [sub EXCEPT ![c] =
                   Registered(IF replay = << >> THEN << >> ELSE Front(replay))]
  /\ told' = IF cursor[c] = NoCursor THEN [told EXCEPT ![c] = mem.log] ELSE told
  /\ UNCHANGED <<mem, disk, epochsIssued, requests, resetters, cursor>>

Connect(c) ==
  /\ Off(c) /\ CanResume(c)
  /\ LET replay == IF cursor[c] = NoCursor THEN << >>
                                           ELSE ReplayFrom(mem.ring, cursor[c])
     IN  sub' = [sub EXCEPT ![c] = Registered(replay)]
  /\ told' = IF cursor[c] = NoCursor THEN [told EXCEPT ![c] = mem.log] ELSE told
  /\ UNCHANGED <<mem, disk, epochsIssued, requests, resetters, cursor>>

(***************************************************************************)
(* /sync-snapshot: rows and stream cursor of one revision.                 *)
(***************************************************************************)
(* Mutant: rows and cursor are read at two moments. *)
SyncTorn(c) ==
  /\ Off(c)
  /\ cursor' = [cursor EXCEPT ![c] = mem.ring.streamCursor]
  /\ told' = [told EXCEPT ![c] = IF mem.log = << >> THEN @ ELSE Front(mem.log)]
  /\ UNCHANGED <<mem, disk, epochsIssued, requests, resetters, sub>>

Sync(c) ==
  /\ Off(c)
  /\ cursor' = [cursor EXCEPT ![c] = mem.ring.streamCursor]
  /\ told' = [told EXCEPT ![c] = mem.log]
  /\ UNCHANGED <<mem, disk, epochsIssued, requests, resetters, sub>>

(***************************************************************************)
(* An unservable cursor is answered with one id-less sync.required and the *)
(* end of the stream; the client then takes a snapshot.                    *)
(***************************************************************************)
SyncRequired(c) == ~ CanResume(c) /\ Sync(c)

(***************************************************************************)
(* One turn of the stream's loop: the next event goes out to the client.   *)
(* A heartbeat timeout on an open stream changes nothing.                  *)
(***************************************************************************)
Send(c) ==
  /\ sub[c].queue # << >> /\ Head(sub[c].queue) # EndMarker
  /\ Len(sub[c].wire) < WireCapacity
  /\ sub' = [sub EXCEPT ![c].wire  = Append(@, Head(sub[c].queue)),
                        ![c].queue = Tail(@)]
  /\ UNCHANGED <<mem, disk, epochsIssued, requests, resetters, cursor, told>>

Receive(c) ==
  /\ sub[c].wire # << >>
  /\ LET event == Head(sub[c].wire)
     IN  /\ cursor' = [cursor EXCEPT ![c] = event.id]
         /\ told' = [told EXCEPT ![c] = Append(@, event)]
  /\ sub' = [sub EXCEPT ![c].wire = Tail(@)]
  /\ UNCHANGED <<mem, disk, epochsIssued, requests, resetters>>

(***************************************************************************)
(* The loop returns when it finds the end marker, or when a heartbeat      *)
(* passes over an empty queue of a closed subscriber; the client sees the  *)
(* end after the frames sent before it.                                    *)
(***************************************************************************)
StreamEnds(c) ==
  /\ sub[c].state = "closed" /\ sub[c].wire = << >>
  /\ Head(Append(sub[c].queue, EndMarker)) = EndMarker
  /\ sub' = [sub EXCEPT ![c] = NoSubscriber]
  /\ UNCHANGED <<mem, disk, epochsIssued, requests, resetters, cursor, told>>

(***************************************************************************)
(* The connection breaks, or the client hangs up: what was queued or on    *)
(* the wire is lost, and the stream unregisters itself.                    *)
(***************************************************************************)
Drop(c) ==
  /\ ~ Off(c)
  /\ sub' = [sub EXCEPT ![c] = NoSubscriber]
  /\ UNCHANGED <<mem, disk, epochsIssued, requests, resetters, cursor, told>>

Next ==
  \/ Commit \/ RequestBegins \/ RequestEnds
  \/ ResetAtOnce \/ ResetWaits \/ ResetGranted \/ Restart
  \/ \E c \in Clients :
       \/ Connect(c) \/ Sync(c) \/ Send(c) \/ Receive(c)
       \/ StreamEnds(c) \/ Drop(c)

Spec == Init /\ [][Next]_vars

(***************************************************************************)
(* The stream's loop is a task of the event loop and its wait for an event *)
(* is bounded by the heartbeat, so it keeps taking turns; a client reads   *)
(* its socket, and reconnects or resyncs as docs/contract-v1.md, section   *)
(* 10, asks of it.  Nothing else is assumed to happen.                     *)
(***************************************************************************)
Fairness ==
  \A c \in Clients :
    /\ WF_vars(Send(c)) /\ WF_vars(StreamEnds(c))
    /\ WF_vars(Receive(c)) /\ WF_vars(Connect(c)) /\ WF_vars(SyncRequired(c))

FairSpec == Spec /\ Fairness

-----------------------------------------------------------------------------
(* Properties. *)

(***************************************************************************)
(* Type invariant of the store's view and of every client's connection.    *)
(***************************************************************************)
Event == [ id : EventIds, entity : {"synced", "unsynced"}, version : Nat ]

Ring == [ events : Seq(Event), streamCursor : EventIds, evictedThrough : EventIds ]

Store == [ epoch : Nat, revision : Nat, ring : Ring, log : Seq(Event) ]

Subscriber == [ state   : {"off", "open", "closed"},
                epoch   : Nat,
                maxsize : Nat,
                queue   : Seq(Event \cup {EndMarker}),
                wire    : Seq(Event) ]

TypeOK ==
  /\ mem \in Store /\ disk \in Store
  /\ epochsIssued \in Nat /\ requests \in Nat /\ resetters \in Nat
  /\ sub \in [Clients -> Subscriber]
  /\ \A c \in Clients : Len(sub[c].queue) <= sub[c].maxsize
  /\ cursor \in [Clients -> EventIds]
  /\ told \in [Clients -> Seq(Event)]

(***************************************************************************)
(* What a connected client has been told, what is on its wire and what is  *)
(* queued for it make up, in order and each once, the events of the        *)
(* current epoch: all of them while it is registered, the first of them    *)
(* once an overflow or a reset has closed it.  Holds across replay, live   *)
(* delivery, overflow in the middle of a commit's batch, and reset.  (The  *)
(* end marker is of no epoch.)                                             *)
(***************************************************************************)
Current(events) == Within(events, {e \in Event : e.id[1] = mem.epoch})

StreamIsTheLog ==
  \A c \in Clients :
    LET stream == Current(told[c] \o sub[c].wire \o sub[c].queue)
    IN  /\ sub[c].state = "open" => stream = mem.log
        /\ sub[c].state = "closed" => IsPrefix(stream, mem.log)

(***************************************************************************)
(* Seen by one client, the stream is the feed EventFeed promises: the      *)
(* client hears the events of an epoch in order, none twice and none       *)
(* skipped, and jumps ahead only by taking a snapshot.                     *)
(***************************************************************************)
Feed(c) == INSTANCE EventFeed WITH
             epoch <- mem.epoch, log <- mem.log, heard <- Current(told[c])

RefinesFeed ==
  /\ \A c \in Clients : Feed(c)!FInit
  /\ [][\A c \in Clients : [Feed(c)!FNext]_(Feed(c)!fvars)]_vars

(***************************************************************************)
(* If connections stop breaking and the process stops dying, every client  *)
(* ends up knowing every event of the epoch, however slow it is and        *)
(* however often its queue overflowed: nothing is lost for good.           *)
(***************************************************************************)
Faulty == Restart \/ \E c \in Clients : Drop(c)

CaughtUp == \A c \in Clients : Current(told[c]) = mem.log

EventuallyCaughtUp == <>[][~ Faulty]_vars => <>[]CaughtUp

-----------------------------------------------------------------------------
(* What the documents say and the code does not do. *)

(***************************************************************************)
(* demo_reset.py and docs/contract-v1.md, section 14: a reset closes live  *)
(* streams, so none that was opened before it is served after it.          *)
(***************************************************************************)
ResetClosesStreams ==
  \A c \in Clients : sub[c].state = "open" => sub[c].epoch = mem.epoch
=============================================================================
