-------------------------- MODULE ChargeStoreProofs --------------------------
(***************************************************************************)
(* Theorems about ChargeStore, for every set of keys and tasks, every seed *)
(* and every value of the bounds.                                          *)
(***************************************************************************)
EXTENDS ChargeStore, FiniteSetTheorems, SequenceTheorems, TLAPS

-----------------------------------------------------------------------------
(* Rows. *)

(***************************************************************************)
(* Applying any lifecycle event to a row gives a row.                      *)
(***************************************************************************)
LEMMA AfterType ==
  ASSUME NEW row \in Row, NEW event \in Events, NEW at \in Nat
  PROVE  /\ After(row, event, at) \in Row
         /\ After(row, event, at).version = row.version + 1
         /\ After(row, event, at).deadlineAt = row.deadlineAt
<1>1. Target[event] \in Statuses
  BY DEF Events, StudentEvents, SystemEvents, OperatorEvents, Target, Statuses
<1>2. Accepts(event) => AcceptanceOrigin[event] \in Origins
  BY DEF Events, StudentEvents, SystemEvents, OperatorEvents, Target, Accepts,
         AcceptanceOrigin, Origins
<1>3. AcceptedAt(row, event, at) \in Nat
  BY DEF AcceptedAt, Row, Instants
<1> QED
  BY <1>1, <1>2, <1>3 DEF After, Row

LEMMA NewRowType ==
  ASSUME NEW deadlineAt \in Instants
  PROVE  NewRow(deadlineAt) \in Row
BY DEF NewRow, Row, Statuses, Origins, Unset, Instants

LEMMA NoRowType == NoRow \in Row
BY NewRowType DEF NoRow, NewRow, Row, Instants, Statuses, Origins, Unset

LEMMA ReconciledType ==
  ASSUME NEW row \in Row, NEW t \in Nat
  PROVE  Reconciled(row, t) \in Row
BY AfterType DEF Reconciled, Events, SystemEvents, Row

-----------------------------------------------------------------------------
(* The order of the list. *)

Ascending(s, n) == \A i, j \in 1 .. n : i < j => s[i] < s[j]

Enumerations(S) ==
  {s \in [1 .. Cardinality(S) -> S] : Ascending(s, Cardinality(S))}

LEMMA PositionsFinite ==
  ASSUME NEW n \in Nat, NEW S \in SUBSET (1 .. n)
  PROVE  IsFiniteSet(S) /\ Cardinality(S) \in Nat
<1>1. IsFiniteSet(1 .. n)
  BY FS_Interval
<1>2. IsFiniteSet(S)
  BY <1>1, FS_Subset
<1> QED
  BY <1>2, FS_CardinalityType

(***************************************************************************)
(* Every set of list positions can be listed in ascending order.  The      *)
(* least length for which this fails would have to contain its last        *)
(* position, and appending that to the rest's enumeration succeeds.        *)
(***************************************************************************)
LEMMA PositionsEnumerable ==
  \A n \in Nat : \A S \in SUBSET (1 .. n) : Enumerations(S) # {}
<1> DEFINE Bad == {n \in Nat : \E S \in SUBSET (1 .. n) : Enumerations(S) = {}}
<1> SUFFICES ASSUME Bad # {} PROVE FALSE
  OBVIOUS
<1>1. PICK n \in Bad : \A m \in Bad : ~ (<<m, n>> \in OpToRel(<, Nat))
  <2>1. IsWellFoundedOn(OpToRel(<, Nat), Nat)
    BY NatLessThanWellFounded
  <2>2. Bad \subseteq Nat
    OBVIOUS
  <2> HIDE DEF Bad
  <2> QED
    BY <2>1, <2>2, WFMin
<1>2. \A m \in Nat : m < n => m \notin Bad
  BY <1>1 DEF OpToRel
<1>3. PICK S \in SUBSET (1 .. n) : Enumerations(S) = {}
  OBVIOUS
<1>4. IsFiniteSet(S) /\ Cardinality(S) \in Nat
  BY PositionsFinite
<1>5. CASE S = {}
  <2>1. << >> \in Enumerations(S)
    BY <1>5, FS_EmptySet DEF Enumerations, Ascending
  <2> QED
    BY <2>1, <1>3
<1>6. CASE S # {} /\ n \notin S
  <2>1. n \in Nat /\ n # 0
    <3>1. PICK i \in S : i \in 1 .. n
      BY <1>6
    <3> QED
      BY <3>1
  <2>2. n - 1 \in Nat /\ n - 1 < n /\ \A i \in S : i \in 1 .. n - 1
    BY <1>6, <2>1
  <2> QED
    BY <2>2, <1>2, <1>3
<1>7. CASE n \in S
  <2> DEFINE T == S \ {n}
             k == Cardinality(T)
  <2>1. n \in Nat /\ n - 1 \in Nat /\ n - 1 < n /\ T \in SUBSET (1 .. n - 1)
    BY <1>7
  <2>2. IsFiniteSet(T) /\ k \in Nat /\ Cardinality(S) = k + 1
    <3>1. IsFiniteSet(T) /\ k = Cardinality(S) - 1
      BY <1>4, <1>7, FS_RemoveElement
    <3>2. k \in Nat
      BY <3>1, FS_CardinalityType
    <3> QED
      BY <1>4, <3>1, <3>2
  <2>3. PICK s \in [1 .. k -> T] : Ascending(s, k)
    <3>1. Enumerations(T) # {}
      BY <2>1, <1>2
    <3> QED
      BY <3>1 DEF Enumerations
  <2> DEFINE r == [i \in 1 .. k + 1 |-> IF i = k + 1 THEN n ELSE s[i]]
  <2> HIDE DEF T, k
  <2>4. r \in [1 .. k + 1 -> S]
    BY <1>7, <2>2 DEF T
  <2>5. Ascending(r, k + 1)
    <3> SUFFICES ASSUME NEW i \in 1 .. k + 1, NEW j \in 1 .. k + 1, i < j
                 PROVE  r[i] < r[j]
      BY DEF Ascending
    <3>1. i \in 1 .. k /\ s[i] \in T /\ r[i] = s[i]
      BY <2>2, <2>3
    <3>2. CASE j = k + 1
      <4>1. s[i] \in 1 .. n - 1 /\ r[j] = n
        BY <3>1, <3>2, <2>1, <2>2
      <4> QED
        BY <2>1, <3>1, <4>1
    <3>3. CASE j # k + 1
      BY <3>1, <3>3, <2>2, <2>3 DEF Ascending
    <3> QED
      BY <3>2, <3>3
  <2>6. r \in Enumerations(S)
    BY <2>2, <2>4, <2>5 DEF Enumerations
  <2> QED
    BY <2>6, <1>3
<1> QED
  BY <1>5, <1>6, <1>7

(***************************************************************************)
(* InListOrder lists exactly the positions it is given, in order.          *)
(***************************************************************************)
LEMMA InListOrderType ==
  ASSUME NEW n \in Nat, NEW S \in SUBSET (1 .. n)
  PROVE  /\ Cardinality(S) \in Nat
         /\ InListOrder(S) \in [1 .. Cardinality(S) -> S]
<1>1. Cardinality(S) \in Nat
  BY PositionsFinite
<1>2. \E s \in [1 .. Cardinality(S) -> S] :
        \A i, j \in DOMAIN s : i < j => s[i] < s[j]
  <2>1. PICK s \in Enumerations(S) : TRUE
    BY PositionsEnumerable
  <2>2. s \in [1 .. Cardinality(S) -> S] /\ DOMAIN s = 1 .. Cardinality(S)
    BY <2>1 DEF Enumerations
  <2> QED
    BY <2>1, <2>2 DEF Enumerations, Ascending
<1> QED
  BY <1>1, <1>2 DEF InListOrder

-----------------------------------------------------------------------------
(* What a mutator may hand to the store. *)

(***************************************************************************)
(* A snapshot is good if, besides its type, every ledger body that is      *)
(* shared with the charge list is in the list.                             *)
(***************************************************************************)
GoodSnapshot(s) ==
  /\ s \in Snapshot
  /\ \A r \in s.ledger : r.shared => r.request.resource \in DOMAIN s.charges

GoodOutcome(o) ==
  /\ GoodSnapshot(o.working)
  /\ o.drafts \in Seq(Draft)
  /\ o.persist \in BOOLEAN
  /\ o.reply \subseteq Effect

GoodState ==
  /\ now \in Instants
  /\ GoodSnapshot(mem)
  /\ GoodSnapshot(disk)
  /\ epochsIssued \in Nat
  /\ acked \subseteq Effect
  /\ lastPublished \in EventIds

LEMMA ReconciledChargesType ==
  ASSUME NEW charges \in Seq(Row), now \in Instants
  PROVE  /\ ReconciledCharges(charges) \in Seq(Row)
         /\ DOMAIN ReconciledCharges(charges) = DOMAIN charges
<1>1. Len(charges) \in Nat /\ DOMAIN charges = 1 .. Len(charges)
  BY LenProperties
<1>2. \A c \in DOMAIN charges : Reconciled(charges[c], now) \in Row
  BY <1>1, ReconciledType, ElementOfSeq DEF Instants
<1>3. ReconciledCharges(charges) \in [1 .. Len(charges) -> Row]
  BY <1>1, <1>2 DEF ReconciledCharges
<1> QED
  BY <1>1, <1>3, SeqDef

LEMMA ReconciliationDraftsType ==
  ASSUME NEW charges \in Seq(Row)
  PROVE  ReconciliationDrafts(charges) \in Seq(Draft)
<1> DEFINE S == OverdueIn(charges)
           k == Cardinality(S)
<1>1. Len(charges) \in Nat /\ S \in SUBSET (1 .. Len(charges))
  BY LenProperties DEF OverdueIn
<1>2. k \in Nat /\ InListOrder(S) \in [1 .. k -> S]
  BY <1>1, InListOrderType
<1> HIDE DEF S
<1>3. \A c \in S : c \in Nat /\ charges[c] \in Row
  BY <1>1, ElementOfSeq
<1> HIDE DEF k
<1>4. \A i \in 1 .. k :
        ChargeEvent(InListOrder(S)[i], charges[InListOrder(S)[i]].version + 1)
          \in Draft
  <2> SUFFICES ASSUME NEW c \in S
               PROVE  ChargeEvent(c, charges[c].version + 1) \in Draft
    BY <1>2
  <2>1. charges[c].version + 1 \in Nat
    BY <1>3 DEF Row
  <2> QED
    BY <1>3, <2>1 DEF ChargeEvent, Draft, Entity
<1>5. ReconciliationDrafts(charges) \in [1 .. k -> Draft]
  BY <1>4 DEF ReconciliationDrafts, S, k
<1> QED
  BY <1>2, <1>5, SeqDef

(***************************************************************************)
(* Deadline reconciliation is a good outcome.                              *)
(***************************************************************************)
LEMMA ReconcileType ==
  ASSUME GoodState
  PROVE  /\ GoodSnapshot(ReconcileDeadlines(mem))
         /\ GoodOutcome(ReconcileNowOutcome)
<1> DEFINE charges == ReconciledCharges(mem.charges)
<1>1. mem \in Snapshot /\ mem.charges \in Seq(Row)
  BY DEF GoodState, GoodSnapshot, Snapshot
<1>2. charges \in Seq(Row) /\ DOMAIN charges = DOMAIN mem.charges
  BY <1>1, ReconciledChargesType DEF GoodState
<1>3. GoodSnapshot(ReconcileDeadlines(mem))
  <2> HIDE DEF charges
  <2>1. ReconcileDeadlines(mem) = [mem EXCEPT !.charges = charges]
    BY DEF ReconcileDeadlines, charges
  <2> QED
    BY <1>1, <1>2, <2>1 DEF GoodState, GoodSnapshot, Snapshot
<1>4. ReconciliationDrafts(mem.charges) \in Seq(Draft)
  BY <1>1, ReconciliationDraftsType
<1> QED
  BY <1>3, <1>4 DEF GoodOutcome, ReconcileNowOutcome, Outcome

LEMMA RecordSuccessType ==
  ASSUME NEW s, GoodSnapshot(s), NEW request \in Request,
         NEW shared \in BOOLEAN, NEW body \in Row, NextRevision \in Nat,
         shared => request.resource \in DOMAIN s.charges
  PROVE  /\ GoodSnapshot(RecordSuccess(s, request, shared, body))
         /\ Latest(RecordSuccess(s, request, shared, body), request)
              \subseteq Effect
<1> DEFINE record == [request |-> request, shared |-> shared,
                      body    |-> IF shared THEN NoRow ELSE body]
           effect == [request |-> request, revision |-> NextRevision,
                      body    |-> body]
           result == RecordSuccess(s, request, shared, body)
<1>1. record \in Record /\ effect \in Effect
  BY NoRowType DEF Record, Effect
<1>2. result = [s EXCEPT
                 !.ledger  = {r \in s.ledger : r.request.key # request.key}
                               \cup {record},
                 !.effects = s.effects \cup {effect}]
  BY DEF RecordSuccess, GoodSnapshot, Snapshot
<1>3. record.request = request /\ record.shared = shared
  OBVIOUS
<1> HIDE DEF record, effect, result
<1>4. GoodSnapshot(result)
  BY <1>1, <1>2, <1>3 DEF GoodSnapshot, Snapshot
<1> QED
  BY <1>4 DEF result, Latest, GoodSnapshot, Snapshot

LEMMA UnchangedType ==
  ASSUME GoodState
  PROVE  /\ GoodOutcome(Unchanged)
         /\ \A request : GoodOutcome(ReplayOutcome(request))
<1>1. << >> \in Seq(Draft)
  BY EmptySeq
<1>2. mem.effects \subseteq Effect
  BY DEF GoodState, GoodSnapshot, Snapshot
<1> QED
  BY <1>1, <1>2 DEF GoodState, GoodOutcome, Unchanged, ReplayOutcome, Outcome

LEMMA NextRevisionType ==
  ASSUME GoodState
  PROVE  NextRevision \in Nat
BY DEF GoodState, GoodSnapshot, Snapshot, NextRevision

(***************************************************************************)
(* Replacing one row of the list.                                          *)
(***************************************************************************)
LEMMA ChargeUpdateType ==
  ASSUME NEW s, GoodSnapshot(s), NEW c \in DOMAIN s.charges,
         NEW row \in Row
  PROVE  /\ GoodSnapshot([s EXCEPT !.charges[c] = row])
         /\ [s EXCEPT !.charges[c] = row].charges
              = [s.charges EXCEPT ![c] = row]
         /\ DOMAIN [s EXCEPT !.charges[c] = row].charges = DOMAIN s.charges
<1> DEFINE charges == [s.charges EXCEPT ![c] = row]
<1>1. s \in Snapshot /\ s.charges \in Seq(Row)
  BY DEF GoodSnapshot, Snapshot
<1>2. charges \in Seq(Row) /\ DOMAIN charges = DOMAIN s.charges
  BY <1>1, ExceptSeq, LenProperties
<1>3. [s EXCEPT !.charges[c] = row] = [s EXCEPT !.charges = charges]
  BY <1>1 DEF Snapshot
<1> HIDE DEF charges
<1>4. /\ GoodSnapshot([s EXCEPT !.charges = charges])
      /\ [s EXCEPT !.charges = charges].charges = charges
  BY <1>1, <1>2 DEF GoodSnapshot, Snapshot
<1> QED
  BY <1>2, <1>3, <1>4 DEF charges

LEMMA ChargeCommandType ==
  ASSUME GoodState, NEW request \in Request, request.op \in StudentEvents
  PROVE  GoodOutcome(ChargeCommandOutcome(request))
<1> DEFINE reconciled == ReconcileDeadlines(mem)
           c   == request.resource
           row == After(reconciled.charges[c], request.op, now)
<1>1. GoodSnapshot(reconciled) /\ reconciled.charges \in Seq(Row)
  BY ReconcileType DEF GoodSnapshot, Snapshot
<1>2. reconciled.charges = ReconciledCharges(mem.charges)
  BY DEF ReconcileDeadlines, GoodState, GoodSnapshot, Snapshot
<1>3. ASSUME c \in DOMAIN reconciled.charges
      PROVE  GoodOutcome(CommandSucceeds(request))
  <2>1. row \in Row
    <3>1. reconciled.charges[c] \in Row
      BY <1>1, <1>3, ElementOfSeq, LenProperties
    <3> QED
      BY <3>1, AfterType DEF Events, GoodState, Instants
  <2> DEFINE updated == [reconciled EXCEPT !.charges[c] = row]
             working == RecordSuccess(updated, request, TRUE, row)
  <2>2. GoodSnapshot(updated) /\ c \in DOMAIN updated.charges
    <3> HIDE DEF row, reconciled
    <3> QED
      BY <1>1, <1>3, <2>1, ChargeUpdateType
  <2>3. GoodSnapshot(working) /\ Latest(working, request) \subseteq Effect
    <3> HIDE DEF row, updated
    <3> QED
      BY <2>1, <2>2, RecordSuccessType, NextRevisionType
  <2>4. mem.charges \in Seq(Row)
    BY DEF GoodState, GoodSnapshot, Snapshot
  <2>5. ChargeEvent(c, row.version) \in Draft
    <3> HIDE DEF row
    <3> QED
      BY <2>1 DEF ChargeEvent, Draft, Entity, Row, Request
  <2>6. Append(ReconciliationDrafts(mem.charges), ChargeEvent(c, row.version))
          \in Seq(Draft)
    BY <2>4, <2>5, ReconciliationDraftsType, AppendProperties
  <2>7. CommandSucceeds(request) =
          Outcome(working, Append(ReconciliationDrafts(mem.charges),
                                  ChargeEvent(c, row.version)),
                  TRUE, Latest(working, request))
    BY DEF CommandSucceeds
  <2> HIDE DEF working, row
  <2> QED
    BY <2>3, <2>6, <2>7 DEF GoodOutcome, Outcome
<1> QED
  BY <1>2, <1>3, UnchangedType, ReconcileType
  DEF ChargeCommandOutcome, FailAfterReconciliation

LEMMA CreateTaskType ==
  ASSUME GoodState, NEW request \in Request, request.resource \in Tasks,
         NEW bookingExists
  PROVE  GoodOutcome(CreateTaskOutcome(request, bookingExists))
<1> DEFINE t       == request.resource
           added   == [mem EXCEPT !.tasks = @ \cup {t}]
           working == RecordSuccess(added, request, FALSE, NoRow)
<1>1. GoodSnapshot(added)
  BY DEF GoodState, GoodSnapshot, Snapshot
<1>2. GoodSnapshot(working) /\ Latest(working, request) \subseteq Effect
  <2> HIDE DEF added
  <2> QED
    BY <1>1, RecordSuccessType, NextRevisionType, NoRowType
<1>3. <<TaskEvent(t)>> \in Seq(Draft)
  <2>1. TaskEvent(t) \in Draft
    BY DEF TaskEvent, Draft, Entity
  <2> QED
    BY <2>1
<1>4. GoodOutcome(TaskCreated(request))
  <2>1. TaskCreated(request) =
          Outcome(working, <<TaskEvent(t)>>, TRUE, Latest(working, request))
    BY DEF TaskCreated
  <2> HIDE DEF working
  <2> QED
    BY <1>2, <1>3, <2>1 DEF GoodOutcome, Outcome
<1> QED
  BY <1>4, UnchangedType DEF CreateTaskOutcome

LEMMA MarkReadType ==
  ASSUME GoodState, NEW n \in Nat, NEW epoch
  PROVE  GoodOutcome(MarkReadOutcome(n, epoch))
<1>1. CASE n \in DOMAIN mem.notifications
  <2> DEFINE read    == [mem.notifications[n] EXCEPT !.read = TRUE]
             list    == [mem.notifications EXCEPT ![n] = read]
             working == [mem EXCEPT !.notifications[n].read = TRUE]
  <2>1. mem \in Snapshot /\ mem.notifications \in Seq(Notification)
    BY DEF GoodState, GoodSnapshot, Snapshot
  <2>2. read \in Notification
    <3>1. mem.notifications[n] \in Notification
      BY <1>1, <2>1, ElementOfSeq, LenProperties
    <3> QED
      BY <3>1 DEF Notification
  <2>3. list \in Seq(Notification)
    <3> HIDE DEF read
    <3> QED
      BY <1>1, <2>1, <2>2, ExceptSeq, LenProperties
  <2>4. working = [mem EXCEPT !.notifications = list]
    BY <2>1 DEF Snapshot
  <2>5. GoodSnapshot(working)
    <3> HIDE DEF list, working
    <3> QED
      BY <2>1, <2>3, <2>4 DEF GoodState, GoodSnapshot, Snapshot
  <2>6. <<NotificationEvent(n)>> \in Seq(Draft)
    <3>1. NotificationEvent(n) \in Draft
      BY DEF NotificationEvent, Draft, Entity
    <3> QED
      BY <3>1
  <2> HIDE DEF working
  <2>7. GoodOutcome(Outcome(working, <<NotificationEvent(n)>>, TRUE, {}))
    BY <2>5, <2>6 DEF GoodOutcome, Outcome
  <2> QED
    BY <2>7, UnchangedType DEF MarkReadOutcome, working
<1> QED
  BY <1>1, UnchangedType DEF MarkReadOutcome

LEMMA NotifiedType ==
  ASSUME GoodState, NEW s, GoodSnapshot(s), NEW c \in Nat, NEW version \in Nat
  PROVE  /\ GoodSnapshot(Notified(s, c))
         /\ NotifiedDrafts(c, version) \in Seq(Draft)
<1>1. [charge |-> c, read |-> FALSE] \in Notification
  BY DEF Notification
<1>2. Append(s.notifications, [charge |-> c, read |-> FALSE])
        \in Seq(Notification)
  BY <1>1, AppendProperties DEF GoodSnapshot, Snapshot
<1>3. GoodSnapshot(Notified(s, c))
  BY <1>2 DEF Notified, GoodSnapshot, Snapshot
<1>4. Len(mem.notifications) + 1 \in Nat
  BY LenProperties DEF GoodState, GoodSnapshot, Snapshot
<1>5. /\ ChargeEvent(c, version) \in Draft
      /\ NotificationEvent(Len(mem.notifications) + 1) \in Draft
  BY <1>4 DEF ChargeEvent, NotificationEvent, Draft, Entity
<1> QED
  BY <1>3, <1>5 DEF NotifiedDrafts

LEMMA RaiseChargeType ==
  ASSUME GoodState, NEW c \in Nat, NEW d \in Deadlines, NEW bookingExists
  PROVE  GoodOutcome(RaiseChargeOutcome(c, d, bookingExists))
<1> DEFINE raised == [mem EXCEPT !.charges = Append(@, NewRow(d))]
<1>1. NewRow(d) \in Row
  BY NewRowType, SeedAssumption
<1>2. mem.charges \in Seq(Row) /\ mem \in Snapshot
  BY DEF GoodState, GoodSnapshot, Snapshot
<1>3. /\ Append(mem.charges, NewRow(d)) \in Seq(Row)
      /\ DOMAIN mem.charges \subseteq DOMAIN Append(mem.charges, NewRow(d))
  BY <1>1, <1>2, AppendProperties, LenProperties
<1>4. GoodSnapshot(raised)
  BY <1>2, <1>3 DEF GoodState, GoodSnapshot, Snapshot
<1> HIDE DEF raised
<1>5. /\ GoodSnapshot(Notified(raised, c))
      /\ NotifiedDrafts(c, 1) \in Seq(Draft)
  BY <1>4, NotifiedType
<1>6. GoodOutcome(Outcome(Notified(raised, c), NotifiedDrafts(c, 1), TRUE, {}))
  BY <1>5 DEF GoodOutcome, Outcome
<1> QED
  BY <1>6, UnchangedType DEF RaiseChargeOutcome, raised

LEMMA ResolveChargeType ==
  ASSUME GoodState, NEW c \in Nat, NEW event \in OperatorEvents
  PROVE  GoodOutcome(ResolveChargeOutcome(c, event))
<1> DEFINE row     == After(mem.charges[c], event, now)
           decided == [mem EXCEPT !.charges[c] = row]
<1>1. CASE c \in DOMAIN mem.charges
  <2>1. row \in Row /\ row.version \in Nat
    <3>1. mem.charges[c] \in Row
      BY <1>1, ElementOfSeq, LenProperties DEF GoodState, GoodSnapshot, Snapshot
    <3>2. row \in Row
      BY <3>1, AfterType DEF Events, GoodState, Instants
    <3> QED
      BY <3>2 DEF Row
  <2>2. GoodSnapshot(decided)
    <3> HIDE DEF row
    <3> QED
      BY <1>1, <2>1, ChargeUpdateType DEF GoodState
  <2> HIDE DEF row, decided
  <2>3. /\ GoodSnapshot(Notified(decided, c))
        /\ NotifiedDrafts(c, row.version) \in Seq(Draft)
    BY <2>1, <2>2, NotifiedType
  <2>4. GoodOutcome(Outcome(Notified(decided, c),
                            NotifiedDrafts(c, row.version), TRUE, {}))
    BY <2>3 DEF GoodOutcome, Outcome
  <2> QED
    BY <2>4, UnchangedType DEF ResolveChargeOutcome, decided, row
<1> QED
  BY <1>1, UnchangedType DEF ResolveChargeOutcome

-----------------------------------------------------------------------------
(* The store's commit. *)

(***************************************************************************)
(* The events a commit stores, and the ring it leaves.                     *)
(***************************************************************************)
LEMMA StoredEventsType ==
  ASSUME NEW epoch \in Nat, NEW revision \in Nat, NEW drafts \in Seq(Draft)
  PROVE  /\ StoredEvents(epoch, revision, drafts) \in Seq(Event)
         /\ Len(StoredEvents(epoch, revision, drafts)) = Len(drafts)
         /\ \A i \in 1 .. Len(drafts) :
              StoredEvents(epoch, revision, drafts)[i].id
                = <<epoch, revision, i>>
<1> DEFINE stored == StoredEvents(epoch, revision, drafts)
<1>1. Len(drafts) \in Nat
  BY LenProperties
<1>2. \A i \in 1 .. Len(drafts) :
        [id      |-> <<epoch, revision, i>>,
         entity  |-> drafts[i].entity,
         version |-> drafts[i].version] \in Event
  <2> TAKE i \in 1 .. Len(drafts)
  <2>1. drafts[i] \in Draft
    BY ElementOfSeq
  <2>2. <<epoch, revision, i>> \in EventIds
    BY <1>1 DEF EventIds
  <2> QED
    BY <2>1, <2>2 DEF Draft, Event
<1>3. stored \in [1 .. Len(drafts) -> Event]
  BY <1>2 DEF StoredEvents
<1>4. stored \in Seq(Event)
  BY <1>1, <1>3, SeqDef
<1>5. Len(stored) = Len(drafts)
  BY <1>1, <1>3, <1>4, LenProperties
<1> QED
  BY <1>4, <1>5 DEF StoredEvents

LEMMA AppendEventsType ==
  ASSUME NEW ring \in Ring, NEW stored \in Seq(Event)
  PROVE  AppendEvents(ring, stored, RingCapacity) \in Ring
<1> DEFINE combined == ring.events \o stored
           surplus  == Len(combined) - RingCapacity
<1>1. combined \in Seq(Event)
  BY ConcatProperties DEF Ring
<1>2. Len(combined) \in Nat /\ RingCapacity \in Nat
  BY <1>1, LenProperties, BoundAssumption
<1>3. CASE stored = << >>
  BY <1>3 DEF AppendEvents
<1>4. CASE stored # << >>
  <2>1. stored[Len(stored)].id \in EventIds
    <3>1. Len(stored) \in 1 .. Len(stored)
      BY <1>4, EmptySeq
    <3>2. stored[Len(stored)] \in Event
      BY <3>1, ElementOfSeq
    <3> QED
      BY <3>2 DEF Event
  <2> DEFINE kept    == IF surplus > 0
                        THEN SubSeq(combined, surplus + 1, Len(combined))
                        ELSE combined
             evicted == IF surplus > 0 THEN combined[surplus].id
                                       ELSE ring.evictedThrough
  <2> HIDE DEF combined
  <2>2. kept \in Seq(Event) /\ evicted \in EventIds
    <3>1. CASE surplus > 0
      <4>1. \A i \in surplus .. Len(combined) : combined[i] \in Event
        <5> TAKE i \in surplus .. Len(combined)
        <5>1. i \in 1 .. Len(combined)
          BY <1>2, <3>1
        <5> QED
          BY <1>1, <5>1, ElementOfSeq
      <4>2. surplus \in Int /\ surplus <= Len(combined)
        BY <1>2, BoundAssumption
      <4>3. SubSeq(combined, surplus + 1, Len(combined)) \in Seq(Event)
        <5>1. surplus + 1 \in Int /\ Len(combined) \in Int
          BY <1>2, <4>2
        <5>2. \A i \in surplus + 1 .. Len(combined) : combined[i] \in Event
          BY <4>1, <4>2, <1>2
        <5> QED
          BY <5>1, <5>2, SubSeqProperties
      <4>4. combined[surplus] \in Event
        BY <4>1, <4>2, <1>2
      <4> QED
        BY <3>1, <4>3, <4>4 DEF Event
    <3>2. CASE ~ (surplus > 0)
      BY <1>1, <3>2 DEF Ring
    <3> QED
      BY <3>1, <3>2
  <2>3. AppendEvents(ring, stored, RingCapacity) =
          [events         |-> kept,
           streamCursor   |-> stored[Len(stored)].id,
           evictedThrough |-> evicted]
    BY <1>4 DEF AppendEvents, combined
  <2> HIDE DEF kept, evicted
  <2> QED
    BY <2>1, <2>2, <2>3 DEF Ring
<1> QED
  BY <1>3, <1>4

LEMMA WorkingType ==
  ASSUME GoodState, NEW o, GoodOutcome(o)
  PROVE  GoodSnapshot(Working(o))
<1> DEFINE stored == StoredEvents(mem.epoch, NextRevision, o.drafts)
           ring   == AppendEvents(o.working.ring, stored, RingCapacity)
<1>1. NextRevision \in Nat /\ mem.epoch \in Nat
  BY NextRevisionType DEF GoodState, GoodSnapshot, Snapshot
<1>2. stored \in Seq(Event)
  BY <1>1, StoredEventsType DEF GoodOutcome
<1>3. o.working \in Snapshot /\ o.working.ring \in Ring
  BY DEF GoodOutcome, GoodSnapshot, Snapshot
<1>4. ring \in Ring
  <2> HIDE DEF stored
  <2> QED
    BY <1>2, <1>3, AppendEventsType
<1>5. Working(o) = [o.working EXCEPT !.revision = NextRevision, !.ring = ring]
  BY <1>3 DEF Working, Snapshot
<1> HIDE DEF ring
<1> QED
  BY <1>1, <1>3, <1>4, <1>5 DEF GoodOutcome, GoodSnapshot, Snapshot

(***************************************************************************)
(* Writing a snapshot as JSON keeps it good: no body is shared any more.   *)
(***************************************************************************)
LEMMA EncodedType ==
  ASSUME NEW s, GoodSnapshot(s)
  PROVE  GoodSnapshot(Encoded(s))
<1> DEFINE plain(r) == [request |-> r.request, shared |-> FALSE,
                        body    |-> ResponseBody(s, r)]
           ledger   == {plain(r) : r \in s.ledger}
<1>1. s \in Snapshot /\ s.ledger \subseteq Record /\ s.charges \in Seq(Row)
  BY DEF GoodSnapshot, Snapshot
<1>2. ASSUME NEW r \in s.ledger
      PROVE  plain(r) \in Record /\ plain(r).shared = FALSE
  <2>1. ResponseBody(s, r) \in Row
    BY <1>1, ElementOfSeq, LenProperties
    DEF ResponseBody, GoodSnapshot, Record
  <2>2. r.request \in Request
    BY <1>1 DEF Record
  <2> QED
    BY <2>1, <2>2 DEF Record
<1>3. Encoded(s) = [s EXCEPT !.ledger = ledger]
  BY <1>1 DEF Encoded, Snapshot
<1>4. ledger \subseteq Record /\ \A x \in ledger : x.shared = FALSE
  <2> SUFFICES ASSUME NEW x \in ledger
               PROVE  x \in Record /\ x.shared = FALSE
    OBVIOUS
  <2>1. PICK r \in s.ledger : x = plain(r)
    OBVIOUS
  <2> HIDE DEF plain
  <2> QED
    BY <1>2, <2>1
<1> HIDE DEF ledger
<1> QED
  BY <1>1, <1>3, <1>4 DEF GoodSnapshot, Snapshot

LEMMA CommitType ==
  ASSUME GoodState, NEW o, GoodOutcome(o), Commit(o)
  PROVE  GoodState'
<1> DEFINE working == Working(o)
<1>1. GoodSnapshot(working) /\ GoodSnapshot(Encoded(working))
  BY WorkingType, EncodedType
<1>2. working.ring.streamCursor \in EventIds
  BY <1>1 DEF GoodSnapshot, Snapshot, Ring
<1>3. o.reply \subseteq Effect
  BY DEF GoodOutcome
<1> HIDE DEF working
<1>4. /\ now' = now /\ epochsIssued' = epochsIssued
      /\ mem' \in {mem, working}
      /\ disk' \in {disk, Encoded(working)}
      /\ acked' \in {acked, acked \cup o.reply}
      /\ lastPublished' \in {lastPublished, working.ring.streamCursor}
  BY DEF Commit, CommitDone, CommitFailed, CommitUnsynced, Answer, working
<1> QED
  BY <1>1, <1>2, <1>3, <1>4 DEF GoodState, GoodSnapshot

-----------------------------------------------------------------------------
(* Type correctness. *)

LEMMA SeedType ==
  ASSUME NEW epoch \in Nat
  PROVE  GoodSnapshot(SeedSnapshot(epoch))
<1>1. BaselineCursor(epoch) \in EventIds
  BY DEF BaselineCursor, EventIds
<1>2. EmptyRing(epoch) \in Ring
  BY <1>1, EmptySeq DEF EmptyRing, Ring
<1>3. SeedCharges \in Seq(Row) /\ << >> \in Seq(Notification)
  BY SeedAssumption, EmptySeq
<1> QED
  BY <1>2, <1>3 DEF SeedSnapshot, GoodSnapshot, Snapshot

LEMMA InitType == Init => GoodState
<1> SUFFICES ASSUME Init PROVE GoodState
  OBVIOUS
<1>1. GoodSnapshot(SeedSnapshot(1))
  BY SeedType
<1>2. BaselineCursor(1) \in EventIds
  BY DEF BaselineCursor, EventIds
<1> QED
  BY <1>1, <1>2 DEF Init, GoodState, Instants

LEMMA StudentType ==
  ASSUME GoodState, NEW event \in StudentEvents, ApplyChargeCommand(event)
  PROVE  GoodState'
<1>1. PICK k \in Keys, c \in ChargeIds, e \in EpochsSeen, v \in 1 .. MaxVersion :
        Commit(ChargeCommandOutcome([key |-> k, op |-> event, resource |-> c,
                                     epoch |-> e, version |-> v]))
  BY DEF ApplyChargeCommand
<1> DEFINE request == [key |-> k, op |-> event, resource |-> c,
                       epoch |-> e, version |-> v]
<1>2. request \in Request /\ request.op \in StudentEvents
  BY BoundAssumption DEF Request, ChargeIds, EpochsSeen, GoodState
<1> HIDE DEF request
<1>3. GoodOutcome(ChargeCommandOutcome(request))
  BY <1>2, ChargeCommandType
<1> QED
  BY <1>1, <1>3, CommitType DEF request

(***************************************************************************)
(* Every step of the system keeps its type: one step per action.           *)
(***************************************************************************)
LEMMA StepType ==
  ASSUME GoodState, [Next]_vars
  PROVE  GoodState'
<1>1. CASE AcceptCharge
  BY <1>1, StudentType DEF AcceptCharge, StudentEvents
<1>2. CASE ContestCharge
  BY <1>2, StudentType DEF ContestCharge, StudentEvents
<1>3. CASE PayCharge
  BY <1>3, StudentType DEF PayCharge, StudentEvents
<1>4. CASE CreateTask
  <2>1. PICK k \in Keys, t \in Tasks, e \in EpochsSeen, b \in BOOLEAN :
          Commit(CreateTaskOutcome([key |-> k, op |-> "createTask",
                                    resource |-> t, epoch |-> e,
                                    version |-> 0], b))
    BY <1>4 DEF CreateTask
  <2> DEFINE request == [key |-> k, op |-> "createTask", resource |-> t,
                         epoch |-> e, version |-> 0]
  <2>2. request \in Request /\ request.resource \in Tasks
    BY DEF Request, EpochsSeen, GoodState
  <2> HIDE DEF request
  <2>3. GoodOutcome(CreateTaskOutcome(request, b))
    BY <2>2, CreateTaskType
  <2> QED
    BY <2>1, <2>3, CommitType DEF request
<1>5. CASE MarkNotificationRead
  <2>1. PICK n \in DOMAIN mem.notifications, e \in EpochsSeen :
          Commit(MarkReadOutcome(n, e))
    BY <1>5 DEF MarkNotificationRead
  <2>2. n \in Nat
    BY LenProperties DEF GoodState, GoodSnapshot, Snapshot
  <2> QED
    BY <2>1, <2>2, MarkReadType, CommitType
<1>6. CASE DevRaiseCharge
  <2>1. PICK c \in ChargeIds, d \in Deadlines, b \in BOOLEAN :
          Commit(RaiseChargeOutcome(c, d, b))
    BY <1>6 DEF DevRaiseCharge
  <2>2. c \in Nat
    BY BoundAssumption DEF ChargeIds
  <2> QED
    BY <2>1, <2>2, RaiseChargeType, CommitType
<1>7. CASE DevResolveCharge
  <2>1. PICK c \in ChargeIds, event \in OperatorEvents :
          Commit(ResolveChargeOutcome(c, event))
    BY <1>7 DEF DevResolveCharge
  <2>2. c \in Nat
    BY BoundAssumption DEF ChargeIds
  <2> QED
    BY <2>1, <2>2, ResolveChargeType, CommitType
<1>8. CASE ReconcileNow
  BY <1>8, ReconcileType, CommitType DEF ReconcileNow
<1>9. CASE Reset
  <2> DEFINE fresh == SeedSnapshot(epochsIssued + 1)
  <2>1. epochsIssued + 1 \in Nat
    BY DEF GoodState
  <2>2. GoodSnapshot(fresh)
    BY <2>1, SeedType
  <2>3. /\ mem' \in {mem, fresh} /\ disk' \in {disk, fresh}
        /\ acked' \in {acked, {}} /\ epochsIssued' = epochsIssued + 1
        /\ now' = now /\ lastPublished' = lastPublished
    BY <1>9 DEF Reset
  <2> HIDE DEF fresh
  <2> QED
    BY <2>1, <2>2, <2>3 DEF GoodState, GoodSnapshot
<1>10. CASE Restart
  BY <1>10 DEF Restart, GoodState, GoodSnapshot
<1>11. CASE Tick
  BY <1>11 DEF Tick, GoodState, GoodSnapshot, Instants
<1>12. CASE UNCHANGED vars
  BY <1>12 DEF vars, GoodState, GoodSnapshot
<1> QED
  BY <1>1, <1>2, <1>3, <1>4, <1>5, <1>6, <1>7, <1>8, <1>9, <1>10, <1>11, <1>12
  DEF Next

(***************************************************************************)
(* The store, in memory and on disk, always has its type; GoodState adds   *)
(* what makes that inductive: a shared ledger body is a row of the list.   *)
(***************************************************************************)
THEOREM TypeCorrect == Spec => []TypeOK
<1>1. GoodState => TypeOK
  BY DEF GoodState, GoodSnapshot, TypeOK
<1>2. GoodState /\ [Next]_vars => GoodState'
  BY StepType
<1> QED
  BY <1>1, <1>2, InitType, PTL DEF Spec

-----------------------------------------------------------------------------
(* The rows' stories. *)

GoodRow(row) == WellFormed(row) /\ InTime(row, now)

GoodRows(s) == \A c \in DOMAIN s.charges : GoodRow(s.charges[c])

(***************************************************************************)
(* A legal event continues a legal story, provided a student acts before   *)
(* the deadline and the system not before it.                              *)
(***************************************************************************)
LEMMA AfterLegal ==
  ASSUME NEW row \in Row, GoodRow(row), now \in Instants, NEW event \in Events,
         CanReceive(row.status, event),
         event \in {"accept", "contest"} => now < row.deadlineAt,
         event = "deadlineElapsed" => row.deadlineAt <= now
  PROVE  GoodRow(After(row, event, now))
<1> DEFINE next == After(row, event, now)
<1>1. /\ row.deadlineAt \in Nat /\ row.deadlineAt # 0 /\ now \in Nat /\ now # 0
      /\ row.acceptedAt \in Nat /\ row.contestedAt \in Nat
      /\ row.resolvedAt \in Nat /\ row.paidAt \in Nat /\ row.version \in Nat
  BY DEF Row, Instants
<1>2. CASE event \in {"accept", "deadlineElapsed"}
  <2>1. row.status = "outstanding"
    BY <1>2 DEF CanReceive, Source
  <2>2. WellFormed(next)
    BY <1>1, <1>2, <2>1 DEF GoodRow, WellFormed, Stories, After, Accepts,
       AcceptedAt, AcceptanceOrigin, Target, Unset
  <2>3. InTime(next, now)
    BY <1>1, <1>2, <2>1 DEF GoodRow, WellFormed, Stories, InTime, After,
       Accepts, AcceptedAt, AcceptanceOrigin, Target, Unset
  <2> QED
    BY <2>2, <2>3 DEF GoodRow
<1>3. CASE event = "contest"
  <2>1. row.status = "outstanding"
    BY <1>3 DEF CanReceive, Source
  <2>2. WellFormed(next)
    BY <1>1, <1>3, <2>1 DEF GoodRow, WellFormed, Stories, After, Accepts,
       Target, Unset
  <2>3. InTime(next, now)
    BY <1>1, <1>3, <2>1 DEF GoodRow, WellFormed, Stories, InTime, After,
       Accepts, Target, Unset
  <2> QED
    BY <2>2, <2>3 DEF GoodRow
<1>4. CASE event = "pay"
  <2>1. row.status = "accepted"
    BY <1>4 DEF CanReceive, Source
  <2>2. WellFormed(next)
    BY <1>1, <1>4, <2>1 DEF GoodRow, WellFormed, Stories, After, Accepts,
       Target, Unset
  <2>3. InTime(next, now)
    BY <1>1, <1>4, <2>1 DEF GoodRow, WellFormed, Stories, InTime, After,
       Accepts, Target, Unset
  <2> QED
    BY <2>2, <2>3 DEF GoodRow
<1>5. CASE event \in OperatorEvents
  <2>1. row.status = "contested"
    BY <1>5 DEF CanReceive, Source, OperatorEvents
  <2>2. WellFormed(next)
    BY <1>1, <1>5, <2>1 DEF GoodRow, WellFormed, Stories, After, Accepts,
       AcceptedAt, AcceptanceOrigin, Target, Unset, OperatorEvents
  <2>3. InTime(next, now)
    BY <1>1, <1>5, <2>1 DEF GoodRow, WellFormed, Stories, InTime, After,
       Accepts, AcceptedAt, AcceptanceOrigin, Target, Unset, OperatorEvents
  <2> QED
    BY <2>2, <2>3 DEF GoodRow
<1> QED
  BY <1>2, <1>3, <1>4, <1>5 DEF Events, StudentEvents, SystemEvents

LEMMA NewRowLegal ==
  ASSUME NEW deadlineAt \in Instants, now \in Instants
  PROVE  GoodRow(NewRow(deadlineAt))
BY DEF NewRow, GoodRow, WellFormed, Stories, InTime, Unset, Instants

(***************************************************************************)
(* A deadline pass keeps every story legal and leaves nothing overdue.     *)
(***************************************************************************)
LEMMA ReconciledLegal ==
  ASSUME NEW row \in Row, GoodRow(row), now \in Instants
  PROVE  GoodRow(Reconciled(row, now)) /\ ~ Overdue(Reconciled(row, now), now)
<1>1. CASE Overdue(row, now)
  <2>1. /\ CanReceive(row.status, "deadlineElapsed")
        /\ row.deadlineAt <= now /\ "deadlineElapsed" \in Events
    BY <1>1 DEF Overdue, IsExpired, CanReceive, Source, Events, SystemEvents,
       Row, Instants
  <2>2. GoodRow(After(row, "deadlineElapsed", now))
    BY <2>1, AfterLegal
  <2>3. After(row, "deadlineElapsed", now).status = "accepted"
    BY DEF After, Target
  <2> QED
    BY <1>1, <2>2, <2>3 DEF Reconciled, Overdue
<1>2. CASE ~ Overdue(row, now)
  BY <1>2 DEF Reconciled
<1> QED
  BY <1>1, <1>2

LEMMA ReconcileLegal ==
  ASSUME GoodState, GoodRows(mem)
  PROVE  /\ GoodRows(ReconcileDeadlines(mem))
         /\ \A c \in DOMAIN ReconcileDeadlines(mem).charges :
              ~ Overdue(ReconcileDeadlines(mem).charges[c], now)
<1>1. mem.charges \in Seq(Row) /\ now \in Instants
  BY DEF GoodState, GoodSnapshot, Snapshot
<1>2. ReconcileDeadlines(mem).charges = ReconciledCharges(mem.charges)
  BY DEF ReconcileDeadlines, GoodState, GoodSnapshot, Snapshot
<1>3. \A c \in DOMAIN mem.charges : mem.charges[c] \in Row
  BY <1>1, ElementOfSeq, LenProperties
<1> QED
  BY <1>1, <1>2, <1>3, ReconciledLegal DEF GoodRows, ReconciledCharges

LEMMA RecordSuccessLegal ==
  ASSUME NEW s, GoodSnapshot(s), NEW request, NEW shared, NEW body
  PROVE  RecordSuccess(s, request, shared, body).charges = s.charges
BY DEF RecordSuccess, GoodSnapshot, Snapshot

(***************************************************************************)
(* Replacing one row by a legal row.                                       *)
(***************************************************************************)
LEMMA ChargeUpdateLegal ==
  ASSUME NEW s, GoodSnapshot(s), GoodRows(s), NEW c \in DOMAIN s.charges,
         NEW row \in Row, GoodRow(row)
  PROVE  GoodRows([s EXCEPT !.charges[c] = row])
<1>1. /\ [s EXCEPT !.charges[c] = row].charges = [s.charges EXCEPT ![c] = row]
      /\ DOMAIN [s EXCEPT !.charges[c] = row].charges = DOMAIN s.charges
  BY ChargeUpdateType
<1>2. \A d \in DOMAIN s.charges : GoodRow([s.charges EXCEPT ![c] = row][d])
  BY DEF GoodRows
<1> QED
  BY <1>1, <1>2 DEF GoodRows

LEMMA ChargeCommandLegal ==
  ASSUME GoodState, GoodRows(mem), NEW request \in Request,
         request.op \in StudentEvents
  PROVE  GoodRows(ChargeCommandOutcome(request).working)
<1> DEFINE reconciled == ReconcileDeadlines(mem)
           c   == request.resource
           row == After(reconciled.charges[c], request.op, now)
<1>1. GoodSnapshot(reconciled) /\ reconciled.charges \in Seq(Row)
  BY ReconcileType DEF GoodSnapshot, Snapshot
<1>2. reconciled.charges = ReconciledCharges(mem.charges)
  BY DEF ReconcileDeadlines, GoodState, GoodSnapshot, Snapshot
<1>3. /\ GoodRows(reconciled)
      /\ \A d \in DOMAIN reconciled.charges :
           ~ Overdue(reconciled.charges[d], now)
  BY ReconcileLegal
<1>4. ASSUME c \in DOMAIN reconciled.charges,
             CanReceive(reconciled.charges[c].status, request.op)
      PROVE  GoodRows(CommandSucceeds(request).working)
  <2> DEFINE old     == reconciled.charges[c]
             updated == [reconciled EXCEPT !.charges[c] = row]
             working == RecordSuccess(updated, request, TRUE, row)
  <2>1. old \in Row /\ GoodRow(old) /\ ~ Overdue(old, now)
    BY <1>1, <1>3, <1>4, ElementOfSeq, LenProperties DEF GoodRows
  <2>2. request.op \in {"accept", "contest"} => now < old.deadlineAt
    <3> HIDE DEF old
    <3> QED
      BY <1>4, <2>1 DEF old, CanReceive, Source, Overdue, IsExpired, GoodState,
         Row, Instants
  <2>3. row \in Row /\ GoodRow(row)
    <3>1. /\ request.op \in Events /\ request.op # "deadlineElapsed"
          /\ now \in Instants /\ now \in Nat
      BY DEF Events, StudentEvents, GoodState, Instants
    <3> HIDE DEF old
    <3>2. CanReceive(old.status, request.op)
      BY <1>4 DEF old
    <3>3. /\ After(old, request.op, now) \in Row
          /\ GoodRow(After(old, request.op, now))
      BY <2>1, <2>2, <3>1, <3>2, AfterType, AfterLegal
    <3> QED
      BY <3>3 DEF old
  <2>4. GoodSnapshot(updated) /\ GoodRows(updated)
    <3> HIDE DEF row, reconciled
    <3> QED
      BY <1>1, <1>3, <1>4, <2>3, ChargeUpdateType, ChargeUpdateLegal
  <2>5. working.charges = updated.charges
    <3> HIDE DEF updated, row
    <3> QED
      BY <2>4, RecordSuccessLegal
  <2>6. CommandSucceeds(request).working = working
    BY DEF CommandSucceeds, Outcome
  <2> HIDE DEF working, updated
  <2> QED
    BY <2>4, <2>5, <2>6 DEF GoodRows
<1> HIDE DEF row, reconciled
<1>5. /\ ReplayOutcome(request).working = mem /\ Unchanged.working = mem
      /\ FailAfterReconciliation.working = reconciled
  BY DEF ReplayOutcome, Unchanged, FailAfterReconciliation,
     ReconcileNowOutcome, Outcome, reconciled
<1> QED
  BY <1>2, <1>3, <1>4, <1>5 DEF ChargeCommandOutcome

LEMMA CreateTaskLegal ==
  ASSUME GoodState, GoodRows(mem), NEW request, NEW bookingExists
  PROVE  GoodRows(CreateTaskOutcome(request, bookingExists).working)
<1>1. ReplayOutcome(request).working = mem /\ Unchanged.working = mem
  BY DEF ReplayOutcome, Unchanged, Outcome
<1>2. TaskCreated(request).working.charges = mem.charges
  BY DEF TaskCreated, RecordSuccess, Outcome, GoodState, GoodSnapshot, Snapshot
<1> QED
  BY <1>1, <1>2 DEF CreateTaskOutcome, GoodRows

LEMMA MarkReadLegal ==
  ASSUME GoodState, GoodRows(mem), NEW n, NEW epoch
  PROVE  GoodRows(MarkReadOutcome(n, epoch).working)
<1>1. MarkReadOutcome(n, epoch).working.charges = mem.charges
  BY DEF MarkReadOutcome, Unchanged, Outcome, GoodState, GoodSnapshot, Snapshot
<1> QED
  BY <1>1 DEF GoodRows

LEMMA RaiseChargeLegal ==
  ASSUME GoodState, GoodRows(mem), NEW c, NEW d \in Deadlines,
         NEW bookingExists
  PROVE  GoodRows(RaiseChargeOutcome(c, d, bookingExists).working)
<1> DEFINE longer == Append(mem.charges, NewRow(d))
<1>1. GoodRow(NewRow(d)) /\ NewRow(d) \in Row
  BY NewRowLegal, NewRowType, SeedAssumption DEF GoodState
<1>2. mem.charges \in Seq(Row) /\ mem \in Snapshot
  BY DEF GoodState, GoodSnapshot, Snapshot
<1>3. \A i \in DOMAIN longer : GoodRow(longer[i])
  <2> HIDE DEF GoodRow
  <2>1. /\ Len(longer) = Len(mem.charges) + 1 /\ longer \in Seq(Row)
        /\ \A i \in 1 .. Len(mem.charges) : longer[i] = mem.charges[i]
        /\ longer[Len(mem.charges) + 1] = NewRow(d)
    BY <1>1, <1>2, AppendProperties
  <2>2. /\ Len(mem.charges) \in Nat /\ DOMAIN longer = 1 .. Len(longer)
        /\ DOMAIN mem.charges = 1 .. Len(mem.charges)
    BY <1>2, <2>1, LenProperties
  <2> QED
    BY <1>1, <2>1, <2>2 DEF GoodRows
<1>4. \/ RaiseChargeOutcome(c, d, bookingExists).working = mem
      \/ RaiseChargeOutcome(c, d, bookingExists).working.charges = longer
  BY <1>2 DEF RaiseChargeOutcome, Notified, Unchanged, Outcome, Snapshot
<1> QED
  BY <1>3, <1>4 DEF GoodRows

LEMMA ResolveChargeLegal ==
  ASSUME GoodState, GoodRows(mem), NEW c, NEW event \in OperatorEvents
  PROVE  GoodRows(ResolveChargeOutcome(c, event).working)
<1>1. CASE c \in DOMAIN mem.charges /\ CanReceive(mem.charges[c].status, event)
  <2> DEFINE row     == After(mem.charges[c], event, now)
             decided == [mem EXCEPT !.charges[c] = row]
  <2>1. row \in Row /\ GoodRow(row)
    <3>1. mem.charges[c] \in Row /\ GoodRow(mem.charges[c])
      BY <1>1, ElementOfSeq, LenProperties
      DEF GoodState, GoodSnapshot, Snapshot, GoodRows
    <3>2. /\ event \in Events /\ event \notin {"accept", "contest"}
          /\ event # "deadlineElapsed" /\ now \in Instants /\ now \in Nat
      BY DEF Events, OperatorEvents, GoodState, Instants
    <3> QED
      BY <1>1, <3>1, <3>2, AfterType, AfterLegal
  <2> HIDE DEF row
  <2>2. GoodSnapshot(decided) /\ GoodRows(decided)
    BY <1>1, <2>1, ChargeUpdateType, ChargeUpdateLegal DEF GoodState
  <2>3. ResolveChargeOutcome(c, event).working = Notified(decided, c)
    BY <1>1 DEF ResolveChargeOutcome, Outcome, row
  <2> HIDE DEF decided
  <2>4. Notified(decided, c).charges = decided.charges
    BY <2>2 DEF Notified, GoodSnapshot, Snapshot
  <2> QED
    BY <2>2, <2>3, <2>4 DEF GoodRows
<1>2. CASE ~ (c \in DOMAIN mem.charges
              /\ CanReceive(mem.charges[c].status, event))
  BY <1>2 DEF ResolveChargeOutcome, Unchanged, Outcome
<1> QED
  BY <1>1, <1>2

(***************************************************************************)
(* Numbering, appending to the ring and encoding leave the rows alone.     *)
(***************************************************************************)
LEMMA CommitLegal ==
  ASSUME GoodState, GoodRows(mem), GoodRows(disk), NEW o, GoodOutcome(o),
         GoodRows(o.working), Commit(o)
  PROVE  GoodRows(mem)' /\ GoodRows(disk)'
<1> DEFINE working == Working(o)
<1>1. /\ working.charges = o.working.charges
      /\ Encoded(working).charges = working.charges
  BY DEF Working, Encoded, GoodOutcome, GoodSnapshot, Snapshot
<1> HIDE DEF working
<1>2. /\ now' = now
      /\ mem' \in {mem, working} /\ disk' \in {disk, Encoded(working)}
  BY DEF Commit, CommitDone, CommitFailed, CommitUnsynced, Answer, working
<1> QED
  BY <1>1, <1>2 DEF GoodRows, GoodRow

LEMMA StudentLegal ==
  ASSUME GoodState, GoodRows(mem), GoodRows(disk), NEW event \in StudentEvents,
         ApplyChargeCommand(event)
  PROVE  GoodRows(mem)' /\ GoodRows(disk)'
<1>1. PICK k \in Keys, c \in ChargeIds, e \in EpochsSeen, v \in 1 .. MaxVersion :
        Commit(ChargeCommandOutcome([key |-> k, op |-> event, resource |-> c,
                                     epoch |-> e, version |-> v]))
  BY DEF ApplyChargeCommand
<1> DEFINE request == [key |-> k, op |-> event, resource |-> c,
                       epoch |-> e, version |-> v]
<1>2. request \in Request /\ request.op \in StudentEvents
  BY BoundAssumption DEF Request, ChargeIds, EpochsSeen, GoodState
<1> HIDE DEF request
<1>3. /\ GoodOutcome(ChargeCommandOutcome(request))
      /\ GoodRows(ChargeCommandOutcome(request).working)
  BY <1>2, ChargeCommandType, ChargeCommandLegal
<1> QED
  BY <1>1, <1>3, CommitLegal DEF request

LEMMA SeedLegal ==
  ASSUME now \in Instants, NEW epoch
  PROVE  GoodRows(SeedSnapshot(epoch))
<1>1. \A c \in DOMAIN SeedCharges : GoodRow(SeedCharges[c])
  <2> TAKE c \in DOMAIN SeedCharges
  <2>1. SeedCharges[c] \in Row
    BY SeedAssumption, ElementOfSeq, LenProperties
  <2>2. WellFormed(SeedCharges[c]) /\ InTime(SeedCharges[c], 1)
    BY SeedAssumption
  <2> QED
    BY <2>1, <2>2 DEF GoodRow, InTime, Row, Instants
<1> QED
  BY <1>1 DEF GoodRows, SeedSnapshot

LEMMA StepLegal ==
  ASSUME GoodState, GoodRows(mem), GoodRows(disk), [Next]_vars
  PROVE  GoodRows(mem)' /\ GoodRows(disk)'
<1>1. CASE AcceptCharge
  BY <1>1, StudentLegal DEF AcceptCharge, StudentEvents
<1>2. CASE ContestCharge
  BY <1>2, StudentLegal DEF ContestCharge, StudentEvents
<1>3. CASE PayCharge
  BY <1>3, StudentLegal DEF PayCharge, StudentEvents
<1>4. CASE CreateTask
  <2>1. PICK k \in Keys, t \in Tasks, e \in EpochsSeen, b \in BOOLEAN :
          Commit(CreateTaskOutcome([key |-> k, op |-> "createTask",
                                    resource |-> t, epoch |-> e,
                                    version |-> 0], b))
    BY <1>4 DEF CreateTask
  <2> DEFINE request == [key |-> k, op |-> "createTask", resource |-> t,
                         epoch |-> e, version |-> 0]
  <2>2. request \in Request /\ request.resource \in Tasks
    BY DEF Request, EpochsSeen, GoodState
  <2> HIDE DEF request
  <2>3. /\ GoodOutcome(CreateTaskOutcome(request, b))
        /\ GoodRows(CreateTaskOutcome(request, b).working)
    BY <2>2, CreateTaskType, CreateTaskLegal
  <2> QED
    BY <2>1, <2>3, CommitLegal DEF request
<1>5. CASE MarkNotificationRead
  <2>1. PICK n \in DOMAIN mem.notifications, e \in EpochsSeen :
          Commit(MarkReadOutcome(n, e))
    BY <1>5 DEF MarkNotificationRead
  <2>2. n \in Nat
    BY LenProperties DEF GoodState, GoodSnapshot, Snapshot
  <2> QED
    BY <2>1, <2>2, MarkReadType, MarkReadLegal, CommitLegal
<1>6. CASE DevRaiseCharge
  <2>1. PICK c \in ChargeIds, d \in Deadlines, b \in BOOLEAN :
          Commit(RaiseChargeOutcome(c, d, b))
    BY <1>6 DEF DevRaiseCharge
  <2>2. c \in Nat
    BY BoundAssumption DEF ChargeIds
  <2> QED
    BY <2>1, <2>2, RaiseChargeType, RaiseChargeLegal, CommitLegal
<1>7. CASE DevResolveCharge
  <2>1. PICK c \in ChargeIds, event \in OperatorEvents :
          Commit(ResolveChargeOutcome(c, event))
    BY <1>7 DEF DevResolveCharge
  <2>2. c \in Nat
    BY BoundAssumption DEF ChargeIds
  <2> QED
    BY <2>1, <2>2, ResolveChargeType, ResolveChargeLegal, CommitLegal
<1>8. CASE ReconcileNow
  <2>1. ReconcileNowOutcome.working = ReconcileDeadlines(mem)
    BY DEF ReconcileNowOutcome, Outcome
  <2> QED
    BY <1>8, <2>1, ReconcileType, ReconcileLegal, CommitLegal DEF ReconcileNow
<1>9. CASE Reset
  <2> DEFINE fresh == SeedSnapshot(epochsIssued + 1)
  <2>1. GoodRows(fresh)
    BY SeedLegal DEF GoodState
  <2>2. /\ mem' \in {mem, fresh} /\ disk' \in {disk, fresh}
        /\ now' = now
    BY <1>9 DEF Reset
  <2> HIDE DEF fresh
  <2> QED
    BY <2>1, <2>2 DEF GoodRows, GoodRow
<1>10. CASE Restart
  BY <1>10 DEF Restart, GoodRows, GoodRow
<1>11. CASE Tick
  <2>1. ASSUME NEW s, GoodSnapshot(s), GoodRows(s), NEW c \in DOMAIN s.charges
        PROVE  WellFormed(s.charges[c]) /\ InTime(s.charges[c], now')
    <3>1. s.charges[c] \in Row
      BY <2>1, ElementOfSeq, LenProperties DEF GoodSnapshot, Snapshot
    <3>2. now \in Nat /\ now' = now + 1 /\ GoodRow(s.charges[c])
      BY <1>11, <2>1 DEF Tick, GoodState, Instants, GoodRows
    <3> QED
      BY <3>1, <3>2 DEF GoodRow, InTime, Row, Instants
  <2>2. mem' = mem /\ disk' = disk
    BY <1>11 DEF Tick
  <2> QED
    BY <2>1, <2>2 DEF GoodState, GoodRows, GoodRow
<1>12. CASE UNCHANGED vars
  BY <1>12 DEF vars, GoodRows, GoodRow
<1> QED
  BY <1>1, <1>2, <1>3, <1>4, <1>5, <1>6, <1>7, <1>8, <1>9, <1>10, <1>11, <1>12
  DEF Next

LegalState == GoodState /\ GoodRows(mem) /\ GoodRows(disk)

LEMMA LegalInvariant == Spec => []LegalState
<1>1. Init => LegalState
  BY InitType, SeedLegal DEF Init, LegalState, Instants
<1>2. LegalState /\ [Next]_vars => LegalState'
  BY StepType, StepLegal DEF LegalState
<1> QED
  BY <1>1, <1>2, PTL DEF Spec

(***************************************************************************)
(* Every row, in memory and on disk, always tells one of the lifecycle's   *)
(* stories.                                                                *)
(***************************************************************************)
THEOREM StoriesAreLegal == Spec => []RowsWellFormed
<1>1. LegalState => RowsWellFormed
  BY DEF LegalState, GoodRows, GoodRow, RowsWellFormed
<1> QED
  BY <1>1, LegalInvariant, PTL

(***************************************************************************)
(* No student decision is ever stamped at or after its deadline, and no    *)
(* deadline acceptance before it.                                          *)
(***************************************************************************)
THEOREM DeadlineAlwaysDecides == Spec => []DeadlineDecides
<1>1. LegalState => DeadlineDecides
  BY DEF LegalState, GoodRows, GoodRow, DeadlineDecides
<1> QED
  BY <1>1, LegalInvariant, PTL
=============================================================================
