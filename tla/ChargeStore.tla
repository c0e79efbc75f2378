----------------------------- MODULE ChargeStore -----------------------------
(***************************************************************************)
(* The mock backend's store (app/db/store.py, JsonStore) and every         *)
(* operation that changes it (app/services/charge_service.py): the student *)
(* commands with their idempotency ledger, the operator's dev controls,    *)
(* deadline reconciliation, reset, and the death and restart of the        *)
(* process.                                                                *)
(*                                                                         *)
(* One action is one critical section of the store lock.  No mutator and   *)
(* no step of JsonStore.commit suspends the event loop while it holds that *)
(* lock, so the section runs without interleaving; only the outcome of the *)
(* write to disk is open.  Requests reach the store in any order, at any   *)
(* time and any number of times: a client that lost a response may send    *)
(* the same request again for ever.                                        *)
(***************************************************************************)
EXTENDS ChargeLifecycle, EventRing, FiniteSets

CONSTANTS
  Keys,          \* Idempotency-Key values the clients use
  Tasks,         \* client-generated task ids
  SeedCharges,   \* the charges of the seed files, in file order
  Deadlines,     \* deadlineAt values an operator's charge can be raised with
  RingCapacity,  \* EVENT_RING_CAPACITY
  \* Bounds of the model; the code has none of them.
  MaxCharges, MaxVersion, MaxRevision, MaxEpoch, MaxTime

ASSUME SeedAssumption ==
  /\ SeedCharges \in Seq(Row)
  /\ \A c \in DOMAIN SeedCharges :
       WellFormed(SeedCharges[c]) /\ InTime(SeedCharges[c], 1)
  /\ Deadlines \subseteq Instants

ASSUME BoundAssumption ==
  /\ RingCapacity \in Nat \ {0}
  /\ MaxCharges \in Nat /\ MaxVersion \in Nat /\ MaxRevision \in Nat
  /\ MaxEpoch \in Nat /\ MaxTime \in Nat

(***************************************************************************)
(* A charge is named by its position in the snapshot's list: commands find *)
(* a charge by id, new charges are appended and none is ever removed.      *)
(*                                                                         *)
(* A student request carries its Idempotency-Key, the operation and the    *)
(* resource it addresses (with the key, the ledger's scope) and the two    *)
(* preconditions, the part of the payload the digest covers that the store *)
(* also looks at.  Task creation has no version; it sends 0.               *)
(***************************************************************************)
Request == [ key      : Keys,
             op       : StudentEvents \cup {"createTask"},
             resource : Nat \cup Tasks,
             epoch    : Nat,
             version  : Nat ]

Scope(request)  == <<request.op, request.resource>>
Digest(request) == <<request.epoch, request.version>>

(***************************************************************************)
(* A ledger record.  The response body of a charge command is the very     *)
(* object that sits in the snapshot's charge list, and copying a snapshot  *)
(* copies that sharing with it, so `shared' says that the body *is* the    *)
(* current row.  Encoding the snapshot as JSON writes the body out, and    *)
(* from then on `body' holds it.                                           *)
(***************************************************************************)
Record == [ request : Request, shared : BOOLEAN, body : Row ]

(***************************************************************************)
(* Auxiliary: one entry for every committed student request, kept with the *)
(* snapshot so that it survives, or is lost, exactly as the effects do.    *)
(***************************************************************************)
Effect == [ request : Request, revision : Nat, body : Row ]

Entity == [ kind : {"charge", "task", "notification"}, id : Nat \cup Tasks ]
Draft  == [ entity : Entity, version : Nat ]
Event  == [ id : EventIds, entity : Entity, version : Nat ]
Ring   == [ events         : Seq(Event),
            streamCursor   : EventIds,
            evictedThrough : EventIds ]

Notification == [ charge : Nat, read : BOOLEAN ]

Snapshot == [ epoch         : Nat,   \* stateEpoch and streamEpoch change together
              revision      : Nat,   \* storeRevision
              charges       : Seq(Row),
              tasks         : SUBSET Tasks,
              notifications : Seq(Notification),
              ring          : Ring,
              ledger        : SUBSET Record,
              effects       : SUBSET Effect ]

VARIABLES
  now,            \* the clock
  mem,            \* JsonStore._snapshot
  disk,           \* state.json
  epochsIssued,   \* how many fresh epochs have been drawn
  acked,          \* auxiliary: committed requests whose 2xx response went out
  lastPublished   \* auxiliary: id of the newest event handed to the broker

vars == <<now, mem, disk, epochsIssued, acked, lastPublished>>

-----------------------------------------------------------------------------
(* The snapshot as data. *)

(* Mutant: a reseed keeps the first stream epoch. *)
SeedSnapshotSameEpoch(epoch) ==
  [ epoch |-> 1, revision |-> 1, charges |-> SeedCharges, tasks |-> {},
    notifications |-> << >>, ring |-> EmptyRing(1), ledger |-> {},
    effects |-> {} ]

SeedSnapshot(epoch) ==
  [ epoch         |-> epoch,
    revision      |-> 1,
    charges       |-> SeedCharges,
    tasks         |-> {},
    notifications |-> << >>,
    ring          |-> EmptyRing(epoch),
    ledger        |-> {},
    effects       |-> {} ]

ResponseBody(snapshot, record) ==
  IF record.shared THEN snapshot.charges[record.request.resource]
                   ELSE record.body

(***************************************************************************)
(* What json.dumps and json.loads make of a snapshot: the sharing between  *)
(* a ledger record and the charge list is gone.                            *)
(***************************************************************************)
Encoded(snapshot) ==
  [snapshot EXCEPT !.ledger =
     {[request |-> r.request,
       shared  |-> FALSE,
       body    |-> ResponseBody(snapshot, r)] : r \in @}]

(***************************************************************************)
(* What a mutator hands to the store: the working copy, the draft events,  *)
(* whether to persist, and the effect whose success the caller is told     *)
(* (none after an error, a replay or an operator's or system's change).    *)
(***************************************************************************)
Outcome(working, drafts, persist, reply) ==
  [working |-> working, drafts |-> drafts, persist |-> persist, reply |-> reply]

NextRevision == mem.revision + 1

Unchanged == Outcome(mem, << >>, FALSE, {})

ChargeEvent(c, version) ==
  [entity |-> [kind |-> "charge", id |-> c], version |-> version]
NotificationEvent(n) ==
  [entity |-> [kind |-> "notification", id |-> n], version |-> 0]
TaskEvent(t) ==
  [entity |-> [kind |-> "task", id |-> t], version |-> 0]

-----------------------------------------------------------------------------
(* Deadline reconciliation: one pass over the list, in list order. *)

OverdueIn(charges) == {c \in DOMAIN charges : Overdue(charges[c], now)}

InListOrder(S) ==
  CHOOSE s \in [1 .. Cardinality(S) -> S] :
    \A i, j \in DOMAIN s : i < j => s[i] < s[j]

ReconciledCharges(charges) ==
  [c \in DOMAIN charges |-> Reconciled(charges[c], now)]

ReconciliationDrafts(charges) ==
  LET due == InListOrder(OverdueIn(charges))
  IN  [i \in 1 .. Cardinality(OverdueIn(charges)) |->
         ChargeEvent(due[i], charges[due[i]].version + 1)]

ReconcileDeadlines(snapshot) ==
  [snapshot EXCEPT !.charges = ReconciledCharges(@)]

(***************************************************************************)
(* Reads and the scheduler persist the pass only if it found something.    *)
(***************************************************************************)
ReconcileNowOutcome ==
  LET drafts == ReconciliationDrafts(mem.charges)
  IN  Outcome(ReconcileDeadlines(mem), drafts, drafts # << >>, {})

-----------------------------------------------------------------------------
(* Student commands. *)

(***************************************************************************)
(* A key's record answers only a request of its own scope; a record of     *)
(* another scope is ignored, and overwritten if this request commits.      *)
(***************************************************************************)
RecordsFor(request) ==
  {r \in mem.ledger : /\ r.request.key = request.key
                      /\ Scope(r.request) = Scope(request)}

(***************************************************************************)
(* A matching digest replays the recorded body, any other is refused;      *)
(* neither changes the store.                                              *)
(***************************************************************************)
ReplayOutcome(request) ==
  IF \A r \in RecordsFor(request) : Digest(r.request) = Digest(request)
  THEN Outcome(mem, << >>, FALSE, {e \in mem.effects : e.request = request})
  ELSE Unchanged

(***************************************************************************)
(* Reconciliation that preceded a refused command is committed on its own; *)
(* the command is refused all the same and leaves nothing in the ledger.   *)
(***************************************************************************)
(* Mutant: the reconciled rows are committed, their events are dropped. *)
FailAfterReconciliationSilent ==
  Outcome(ReconcileDeadlines(mem), << >>, OverdueIn(mem.charges) # {}, {})

FailAfterReconciliation == ReconcileNowOutcome

(***************************************************************************)
(* The record of a success replaces whatever the key held before.          *)
(***************************************************************************)
(* Mutant: a key that already holds a record keeps it (setdefault). *)
RecordSuccessFirstWins(snapshot, request, shared, body) ==
  [snapshot EXCEPT
     !.ledger  = IF \E r \in @ : r.request.key = request.key THEN @
                 ELSE @ \cup {[request |-> request, shared |-> shared,
                               body |-> IF shared THEN NoRow ELSE body]},
     !.effects = @ \cup {[request  |-> request,
                          revision |-> NextRevision,
                          body     |-> body]}]

RecordSuccess(snapshot, request, shared, body) ==
  [snapshot EXCEPT
     !.ledger  = {r \in @ : r.request.key # request.key}
                   \cup {[request |-> request, shared |-> shared,
                          body    |-> IF shared THEN NoRow ELSE body]},
     !.effects = @ \cup {[request  |-> request,
                          revision |-> NextRevision,
                          body     |-> body]}]

Latest(snapshot, request) ==
  {e \in snapshot.effects :
     e.request = request /\ e.revision = NextRevision}

(* Mutant: the transition is applied to a copy, not to the row in the list. *)
CommandSucceedsOnCopy(request) ==
  LET reconciled == ReconcileDeadlines(mem)
      c       == request.resource
      row     == After(reconciled.charges[c], request.op, now)
      working == RecordSuccess(reconciled, request, FALSE, row)
  IN  Outcome(working,
              Append(ReconciliationDrafts(mem.charges),
                     ChargeEvent(c, row.version)),
              TRUE,
              Latest(working, request))

CommandSucceeds(request) ==
  LET reconciled == ReconcileDeadlines(mem)
      c       == request.resource
      row     == After(reconciled.charges[c], request.op, now)
      working == RecordSuccess([reconciled EXCEPT !.charges[c] = row],
                               request, TRUE, row)
  IN  Outcome(working,
              Append(ReconciliationDrafts(mem.charges),
                     ChargeEvent(c, row.version)),
              TRUE,
              Latest(working, request))

(***************************************************************************)
(* apply_charge_command: replay, epoch, reconciliation, lookup, version,   *)
(* transition, in this order.                                              *)
(***************************************************************************)
ChargeCommandOutcome(request) ==
  LET charges == ReconciledCharges(mem.charges)
      c       == request.resource
  IN  IF RecordsFor(request) # {} THEN ReplayOutcome(request)
      ELSE IF request.epoch # mem.epoch THEN Unchanged
      ELSE IF /\ c \in DOMAIN charges
              /\ charges[c].version = request.version
              /\ CanReceive(charges[c].status, request.op)
           THEN CommandSucceeds(request)
           ELSE FailAfterReconciliation

(***************************************************************************)
(* create_task does not reconcile.                                         *)
(***************************************************************************)
TaskCreated(request) ==
  LET t       == request.resource
      working == RecordSuccess([mem EXCEPT !.tasks = @ \cup {t}],
                               request, FALSE, NoRow)
  IN  Outcome(working, <<TaskEvent(t)>>, TRUE, Latest(working, request))

(* Mutant: no check for a task with the same id. *)
CreateTaskOutcomeDuplicates(request, bookingExists) ==
  IF RecordsFor(request) # {} THEN ReplayOutcome(request)
  ELSE IF request.epoch = mem.epoch /\ bookingExists
       THEN TaskCreated(request)
       ELSE Unchanged

CreateTaskOutcome(request, bookingExists) ==
  IF RecordsFor(request) # {} THEN ReplayOutcome(request)
  ELSE IF /\ request.epoch = mem.epoch
          /\ bookingExists
          /\ request.resource \notin mem.tasks
       THEN TaskCreated(request)
       ELSE Unchanged

MarkReadOutcome(n, epoch) ==
  IF epoch = mem.epoch /\ n \in DOMAIN mem.notifications
                       /\ ~ mem.notifications[n].read
  THEN Outcome([mem EXCEPT !.notifications[n].read = TRUE],
               <<NotificationEvent(n)>>, TRUE, {})
  ELSE Unchanged

-----------------------------------------------------------------------------
(* The operator's dev controls: no key, no epoch, no reconciliation. *)

Notified(snapshot, c) ==
  [snapshot EXCEPT !.notifications = Append(@, [charge |-> c, read |-> FALSE])]

NotifiedDrafts(c, version) ==
  <<ChargeEvent(c, version), NotificationEvent(Len(mem.notifications) + 1)>>

(***************************************************************************)
(* The new charge takes the next place in the list; a duplicate id or an   *)
(* unknown booking is refused and changes nothing.                         *)
(***************************************************************************)
RaiseChargeOutcome(c, deadlineAt, bookingExists) ==
  IF bookingExists /\ c \notin DOMAIN mem.charges
  THEN Outcome(Notified([mem EXCEPT !.charges = Append(@, NewRow(deadlineAt))], c),
               NotifiedDrafts(c, 1), TRUE, {})
  ELSE Unchanged

ResolveChargeOutcome(c, event) ==
  IF c \in DOMAIN mem.charges /\ CanReceive(mem.charges[c].status, event)
  THEN LET row == After(mem.charges[c], event, now)
       IN  Outcome(Notified([mem EXCEPT !.charges[c] = row], c),
                   NotifiedDrafts(c, row.version), TRUE, {})
  ELSE Unchanged

-----------------------------------------------------------------------------
(* JsonStore.commit. *)

(***************************************************************************)
(* Three things can become of a write: it is done; it fails before         *)
(* os.replace and leaves the old file; or the file is replaced and the     *)
(* fsync of the directory fails.  The caller sees the last two alike.      *)
(*                                                                         *)
(* The working copy becomes the snapshot only after the write, and only    *)
(* then are the events published and the caller answered.                  *)
(***************************************************************************)
CommitDone(working, reply) ==
  /\ mem' = working
  /\ disk' = Encoded(working)
  /\ acked' = acked \cup reply
  /\ lastPublished' = working.ring.streamCursor

CommitFailed ==
  UNCHANGED <<mem, disk, acked, lastPublished>>

(* Mutant: the snapshot is swapped in before the write that then fails. *)
CommitUnsyncedSwapFirst(working) ==
  mem' = working /\ UNCHANGED <<disk, acked, lastPublished>>

CommitUnsynced(working) ==
  /\ disk' = Encoded(working)
  /\ UNCHANGED <<mem, acked, lastPublished>>

(***************************************************************************)
(* A replay answers the caller without touching the store.                 *)
(***************************************************************************)
Answer(reply) ==
  /\ acked' = acked \cup reply
  /\ UNCHANGED <<mem, disk, lastPublished>>

Working(outcome) ==
  [outcome.working EXCEPT
     !.revision = NextRevision,
     !.ring     = AppendEvents(@, StoredEvents(mem.epoch, NextRevision,
                                               outcome.drafts),
                               RingCapacity)]

(* Mutant: the events are published before the write that then fails. *)
CommitPublishFirst(outcome) ==
  /\ IF outcome.persist
     THEN /\ NextRevision <= MaxRevision
          /\ \/ CommitDone(Working(outcome), outcome.reply)
             \/ /\ lastPublished' = Working(outcome).ring.streamCursor
                /\ UNCHANGED <<mem, disk, acked>>
     ELSE Answer(outcome.reply)
  /\ UNCHANGED <<now, epochsIssued>>

Commit(outcome) ==
  /\ IF outcome.persist
     THEN /\ NextRevision <= MaxRevision
          /\ \/ CommitDone(Working(outcome), outcome.reply)
             \/ CommitFailed
             \/ CommitUnsynced(Working(outcome))
     ELSE Answer(outcome.reply)
  /\ UNCHANGED <<now, epochsIssued>>

-----------------------------------------------------------------------------
(* The system. *)

Init ==
  /\ now = 1
  /\ mem = SeedSnapshot(1)
  /\ disk = SeedSnapshot(1)
  /\ epochsIssued = 1
  /\ acked = {}
  /\ lastPublished = BaselineCursor(1)

ChargeIds == 1 .. MaxCharges
EpochsSeen == 1 .. epochsIssued

(***************************************************************************)
(* One student request on a charge, first sent or sent again.              *)
(***************************************************************************)
ApplyChargeCommand(event) ==
  \E k \in Keys, c \in ChargeIds, e \in EpochsSeen,
     v \in 1 .. MaxVersion :
       Commit(ChargeCommandOutcome([key |-> k, op |-> event, resource |-> c,
                                    epoch |-> e, version |-> v]))

AcceptCharge  == ApplyChargeCommand("accept")
ContestCharge == ApplyChargeCommand("contest")
PayCharge     == ApplyChargeCommand("pay")

CreateTask ==
  \E k \in Keys, t \in Tasks, e \in EpochsSeen,
     bookingExists \in BOOLEAN :
       Commit(CreateTaskOutcome([key |-> k, op |-> "createTask", resource |-> t,
                                 epoch |-> e, version |-> 0], bookingExists))

MarkNotificationRead ==
  \E n \in DOMAIN mem.notifications, e \in EpochsSeen :
    Commit(MarkReadOutcome(n, e))

DevRaiseCharge ==
  \E c \in ChargeIds, d \in Deadlines, bookingExists \in BOOLEAN :
       /\ c <= Len(mem.charges) + 1
       /\ Commit(RaiseChargeOutcome(c, d, bookingExists))

DevResolveCharge ==
  \E c \in ChargeIds, event \in OperatorEvents :
    Commit(ResolveChargeOutcome(c, event))

(***************************************************************************)
(* Before every Hub and charge read, and whenever the scheduler wakes.     *)
(***************************************************************************)
ReconcileNow ==
  Commit(ReconcileNowOutcome)

(***************************************************************************)
(* A destructive reseed: new epochs, empty ring, empty ledger, and no      *)
(* event.                                                                  *)
(***************************************************************************)
Reset ==
  LET fresh == SeedSnapshot(epochsIssued + 1)
  IN  /\ epochsIssued < MaxEpoch
      /\ epochsIssued' = epochsIssued + 1
      /\ \/ mem' = fresh /\ disk' = fresh /\ acked' = {}
         \/ UNCHANGED <<mem, disk, acked>>
         \/ disk' = fresh /\ UNCHANGED <<mem, acked>>
      /\ UNCHANGED <<now, lastPublished>>

(***************************************************************************)
(* The process ends, by a crash or in order, and JsonStore.open loads      *)
(* state.json in the next one.  Which requests had been acknowledged       *)
(* matters within a state epoch only.                                      *)
(***************************************************************************)
(* Mutant: the state file is ignored and the seed is loaded. *)
RestartFromSeed ==
  /\ mem' = [SeedSnapshot(1) EXCEPT !.epoch = disk.epoch]
  /\ acked' = {}
  /\ UNCHANGED <<now, disk, epochsIssued, lastPublished>>

Restart ==
  /\ mem' = disk
  /\ acked' = IF disk.epoch = mem.epoch THEN acked ELSE {}
  /\ UNCHANGED <<now, disk, epochsIssued, lastPublished>>

Tick ==
  /\ now < MaxTime
  /\ now' = now + 1
  /\ UNCHANGED <<mem, disk, epochsIssued, acked, lastPublished>>

Next ==
  \/ AcceptCharge \/ ContestCharge \/ PayCharge
  \/ CreateTask \/ MarkNotificationRead
  \/ DevRaiseCharge \/ DevResolveCharge
  \/ ReconcileNow \/ Reset \/ Restart \/ Tick

Spec == Init /\ [][Next]_vars

-----------------------------------------------------------------------------
(* Properties. *)

(***************************************************************************)
(* Type invariant of the store, in memory and on disk.                     *)
(***************************************************************************)
TypeOK ==
  /\ now \in Instants
  /\ mem \in Snapshot
  /\ disk \in Snapshot
  /\ epochsIssued \in Nat
  /\ acked \subseteq Effect
  /\ lastPublished \in EventIds

(***************************************************************************)
(* Every row, in memory and on disk, tells one legal story: the status is  *)
(* the one its timestamps add up to, an acceptance has exactly the origin  *)
(* of the path that led to it, and the version counts the transitions.     *)
(* This is charge_state.py's table seen through every mutator that writes  *)
(* a row, deadline reconciliation and restarts included.                   *)
(***************************************************************************)
RowsWellFormed ==
  \A s \in {mem, disk} : \A c \in DOMAIN s.charges : WellFormed(s.charges[c])

(***************************************************************************)
(* The deadline decides: a student's acceptance or contest is stamped      *)
(* strictly before the deadline, a deadline acceptance bears the deadline  *)
(* itself and only once it has passed, and no later step is stamped before *)
(* an earlier one.  A command that reaches the store at or after the       *)
(* deadline loses to reconciliation, whatever the order of the requests.   *)
(***************************************************************************)
DeadlineDecides ==
  \A s \in {mem, disk} : \A c \in DOMAIN s.charges :
    InTime(s.charges[c], now)

(***************************************************************************)
(* A request takes effect at most once within a state epoch, however often *)
(* it is sent, under whatever keys, and across any crash: two commits      *)
(* never carry out the same operation with the same payload on the same    *)
(* resource.                                                               *)
(***************************************************************************)
AtMostOnce ==
  \A s \in {mem, disk} : \A e, f \in s.effects :
    /\ Scope(e.request) = Scope(f.request)
    /\ Digest(e.request) = Digest(f.request)
    => e = f

(***************************************************************************)
(* Nothing a client was told has succeeded is lost while the state epoch   *)
(* lasts: it is in memory, and in the file a restart would load, even when *)
(* later writes fail half way.                                             *)
(***************************************************************************)
AckedSurvives ==
  /\ acked \subseteq mem.effects
  /\ disk.epoch = mem.epoch => acked \subseteq disk.effects

(***************************************************************************)
(* The ledger and the rows agree: a student's accept, contest or pay shows *)
(* in the row of its charge exactly if a committed request asked for it,   *)
(* so no refused command leaves a record and none takes effect without     *)
(* one.  A contested charge keeps its contestedAt after the decision.      *)
(***************************************************************************)
Shows(row, op) ==
  CASE op = "accept"  -> row.origin = "student"
    [] op = "contest" -> row.contestedAt # Unset
    [] op = "pay"     -> row.paidAt # Unset

EffectsMatchRows ==
  \A s \in {mem, disk} : \A c \in DOMAIN s.charges, op \in StudentEvents :
    Shows(s.charges[c], op) <=>
      \/ c \in DOMAIN SeedCharges /\ Shows(SeedCharges[c], op)
      \/ \E e \in s.effects : Scope(e.request) = <<op, c>>

(***************************************************************************)
(* The key's record is the last request that committed under that key, and *)
(* its body is a row the charge really had at or after that commit, never  *)
(* a newer or a mixed one: sharing the object and encoding it can only let *)
(* a replay move forward along the charge's own history.                   *)
(***************************************************************************)
LedgerHoldsCommittedRows ==
  \A s \in {mem, disk} : \A record \in s.ledger :
    LET body == ResponseBody(s, record)
    IN  /\ \E e \in s.effects :
             /\ e.request = record.request
             /\ \A f \in s.effects :
                  f.request.key = e.request.key => f.revision <= e.revision
             /\ e.body.version <= body.version
        /\ record.request.op # "createTask" =>
             LET row == s.charges[record.request.resource]
             IN  /\ body.version <= row.version
                 /\ body.version = row.version => body = row

(***************************************************************************)
(* The feed names every version of a charge, in order and without a gap:   *)
(* the retained events of one charge carry consecutive versions up to the  *)
(* committed one, and start at its first change as long as the ring has    *)
(* evicted nothing.  A change no event announces would never reach a       *)
(* connected client.                                                       *)
(***************************************************************************)
VersionBefore(c) ==
  IF c \in DOMAIN SeedCharges THEN SeedCharges[c].version ELSE 0

FeedTracksRows ==
  \A s \in {mem, disk} : \A c \in DOMAIN s.charges :
    LET about      == {i \in DOMAIN s.ring.events :
                         s.ring.events[i].entity = [kind |-> "charge", id |-> c]}
        version(i) == s.ring.events[i].version
        announced  == {version(i) : i \in about}
        changes    == VersionBefore(c) + 1 .. s.charges[c].version
    IN  /\ \A i, j \in about : i < j => version(i) < version(j)
        /\ announced \subseteq changes
        /\ \A v \in announced : v .. s.charges[c].version \subseteq announced
        /\ s.ring.evictedThrough = BaselineCursor(s.epoch) => announced = changes

(***************************************************************************)
(* No event handed to the broker is ahead of the state: a client's         *)
(* Last-Event-ID never names an event that a restart would forget, so a    *)
(* resumed stream cannot skip the events that take those ids later.        *)
(***************************************************************************)
CursorNeverAhead ==
  \A s \in {mem, disk} :
    lastPublished[1] = s.epoch => AtMost(lastPublished, s.ring.streamCursor)

(***************************************************************************)
(* Published ids only ever ascend: within a stream epoch by revision and   *)
(* ordinal, across restarts and failed writes too, and an abandoned epoch  *)
(* never publishes again.                                                  *)
(***************************************************************************)
PublishedIdsAscend ==
  [][lastPublished' # lastPublished =>
       \/ lastPublished'[1] > lastPublished[1]
       \/ /\ lastPublished'[1] = lastPublished[1]
          /\ Before(lastPublished, lastPublished')]_vars

(***************************************************************************)
(* Seen one charge at a time, the store keeps the contract's promise: the  *)
(* row the process serves moves only along the lifecycle, whatever mix of  *)
(* commands, deadline passes, failed writes and restarts moves it, and     *)
(* never goes back unless a reset changes the state epoch.                 *)
(***************************************************************************)
RowOf(c) == IF c \in DOMAIN mem.charges THEN mem.charges[c] ELSE NoRow

Promise(c) == INSTANCE ChargePromise WITH epoch <- mem.epoch, row <- RowOf(c)

RefinesPromise ==
  /\ \A c \in ChargeIds : Promise(c)!PInit
  /\ [][\A c \in ChargeIds : [Promise(c)!PNext]_(Promise(c)!pvars)]_vars

-----------------------------------------------------------------------------
(* What the documents say and the code does not do. *)

(***************************************************************************)
(* docs/contract-v1.md, section 7: replaying the same key and digest       *)
(* returns that exact committed response.                                  *)
(***************************************************************************)
ReplayIsExact ==
  \A r \in mem.ledger : \A e \in mem.effects :
    e.request = r.request => ResponseBody(mem, r) = e.body

(***************************************************************************)
(* docs/contract-v1.md, section 7: the scope contains the resource, the    *)
(* same key against a different charge is a different operation, and       *)
(* records live until a reset.                                             *)
(***************************************************************************)
RecordsLiveUntilReset ==
  \A e \in mem.effects : \E r \in mem.ledger : r.request = e.request
=============================================================================
