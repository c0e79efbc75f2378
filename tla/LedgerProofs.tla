---------------------------- MODULE LedgerProofs ----------------------------
(***************************************************************************)
(* Theorems about what ChargeStore has committed: the effects of student   *)
(* requests against the rows they left, what clients were told against     *)
(* what the disk holds, the feed's cursor against both, the bodies of the  *)
(* ledger, the events of the feed against the rows they announce, and each *)
(* charge against ChargePromise.  They hold for every seed, every value of *)
(* the bounds and any number of failed writes, resets and restarts.        *)
(***************************************************************************)
EXTENDS ChargeStoreProofs

-----------------------------------------------------------------------------
(* The invariant, in parts. *)

(***************************************************************************)
(* An effect is accounted for if the store can tell that its request was   *)
(* carried out: the task is there, or the charge has moved on from the     *)
(* version the request named.  This is what refuses the request sent again *)
(* under another key.                                                      *)
(***************************************************************************)
Accounted(s, e) ==
  IF e.request.op = "createTask"
  THEN e.request.resource \in s.tasks
  ELSE /\ e.request.resource \in DOMAIN s.charges
       /\ e.request.version < s.charges[e.request.resource].version

Once(s) ==
  \A e, f \in s.effects :
    /\ Scope(e.request) = Scope(f.request)
    /\ Digest(e.request) = Digest(f.request)
    => e = f

Asked(s, c, op) ==
  \/ c \in DOMAIN SeedCharges /\ Shows(SeedCharges[c], op)
  \/ \E e \in s.effects : Scope(e.request) = <<op, c>>

SoundEffects(s) ==
  /\ DOMAIN SeedCharges \subseteq DOMAIN s.charges
  /\ \A e \in s.effects : Accounted(s, e)
  /\ Once(s)
  /\ \A c \in DOMAIN s.charges, op \in StudentEvents :
       Shows(s.charges[c], op) <=> Asked(s, c, op)

(***************************************************************************)
(* The cursor of a snapshot is an id of its own epoch and of a revision it *)
(* has reached, and nothing published in that epoch lies beyond it.        *)
(***************************************************************************)
SoundFeed(s) ==
  /\ s.ring.streamCursor[1] = s.epoch
  /\ s.ring.streamCursor[2] <= s.revision
  /\ lastPublished[1] = s.epoch => AtMost(lastPublished, s.ring.streamCursor)

(***************************************************************************)
(* Only the disk can hold an epoch the process has not seen: a reset whose *)
(* write was not confirmed.                                                *)
(***************************************************************************)
EpochsOrdered ==
  /\ lastPublished[1] <= mem.epoch
  /\ mem.epoch <= disk.epoch
  /\ disk.epoch <= epochsIssued

(***************************************************************************)
(* Whatever was acknowledged is in memory, and whatever is in memory is in *)
(* the file, unless the file is already that of a later epoch.  A replay   *)
(* is answered from memory, so the second half is what makes it safe.      *)
(***************************************************************************)
Durable ==
  /\ acked \subseteq mem.effects
  /\ disk.epoch = mem.epoch => mem.effects \subseteq disk.effects

Committed ==
  /\ SoundEffects(mem) /\ SoundEffects(disk)
  /\ SoundFeed(mem) /\ SoundFeed(disk)
  /\ EpochsOrdered
  /\ Durable

(***************************************************************************)
(* What a mutator may hand to the store, besides its type: the working     *)
(* copy keeps every effect, leaves epoch and ring to the store, and only   *)
(* an effect it holds is reported to the caller.                           *)
(***************************************************************************)
SoundOutcome(o) ==
  /\ SoundEffects(o.working)
  /\ o.working.epoch = mem.epoch /\ o.working.ring = mem.ring
  /\ mem.effects \subseteq o.working.effects
  /\ o.reply \subseteq o.working.effects
  /\ ~ o.persist => o.reply \subseteq mem.effects

-----------------------------------------------------------------------------
(* Rows. *)

(***************************************************************************)
(* A lifecycle event shows in a row if it is a student's, and never hides  *)
(* an earlier one.                                                         *)
(***************************************************************************)
LEMMA AfterShows ==
  ASSUME NEW row \in Row, WellFormed(row), NEW event \in Events,
         CanReceive(row.status, event), NEW at \in Instants,
         NEW op \in StudentEvents
  PROVE  Shows(After(row, event, at), op) <=> Shows(row, op) \/ event = op
<1>1. at # Unset
  BY DEF Instants, Unset
<1>2. event \in {"accept", "deadlineElapsed"} => row.origin = "none"
  BY DEF CanReceive, Source, WellFormed, Stories
<1>3. event = "operatorUphold" => row.origin = "none"
  BY DEF CanReceive, Source, WellFormed, Stories
<1>4. CASE op = "accept"
  BY <1>2, <1>3, <1>4
  DEF Shows, After, Accepts, Target, AcceptanceOrigin, Events, StudentEvents,
      SystemEvents, OperatorEvents
<1>5. CASE op = "contest"
  BY <1>1, <1>5 DEF Shows, After
<1>6. CASE op = "pay"
  BY <1>1, <1>6 DEF Shows, After
<1> QED
  BY <1>4, <1>5, <1>6 DEF StudentEvents

LEMMA NewRowShows ==
  ASSUME NEW d, NEW op \in StudentEvents
  PROVE  ~ Shows(NewRow(d), op)
BY DEF Shows, NewRow, StudentEvents, Unset

-----------------------------------------------------------------------------
(* Changes that carry out no student request. *)

(***************************************************************************)
(* The effects stay, the rows only move on, and no student event appears   *)
(* in any of them.                                                         *)
(***************************************************************************)
Keeps(s, t) ==
  /\ t.effects = s.effects
  /\ s.tasks \subseteq t.tasks
  /\ DOMAIN s.charges \subseteq DOMAIN t.charges
  /\ \A c \in DOMAIN s.charges :
       /\ s.charges[c].version <= t.charges[c].version
       /\ \A op \in StudentEvents :
            Shows(t.charges[c], op) <=> Shows(s.charges[c], op)
  /\ \A c \in DOMAIN t.charges \ DOMAIN s.charges, op \in StudentEvents :
       ~ Shows(t.charges[c], op)

LEMMA RowVersion ==
  ASSUME NEW s, GoodSnapshot(s), NEW c \in DOMAIN s.charges
  PROVE  s.charges[c] \in Row /\ s.charges[c].version \in Nat
<1>1. s.charges[c] \in Row
  BY ElementOfSeq, LenProperties DEF GoodSnapshot, Snapshot
<1> QED
  BY <1>1 DEF Row

LEMMA EffectType ==
  ASSUME NEW s, GoodSnapshot(s), NEW e \in s.effects
  PROVE  /\ e.request.op \in StudentEvents \cup {"createTask"}
         /\ e.request.version \in Nat
BY DEF GoodSnapshot, Snapshot, Effect, Request

(***************************************************************************)
(* Such a change keeps every effect accounted for and visible.             *)
(***************************************************************************)
LEMMA KeepsSound ==
  ASSUME NEW s, GoodSnapshot(s), SoundEffects(s),
         NEW t, GoodSnapshot(t), Keeps(s, t)
  PROVE  SoundEffects(t)
<1>1. \A e \in t.effects : Accounted(t, e)
  <2> TAKE e \in t.effects
  <2>1. e \in s.effects /\ Accounted(s, e) /\ e.request.version \in Nat
    BY EffectType DEF Keeps, SoundEffects
  <2>2. CASE e.request.op = "createTask"
    BY <2>1, <2>2 DEF Accounted, Keeps
  <2>3. CASE e.request.op # "createTask"
    <3> DEFINE c == e.request.resource
    <3>1. /\ c \in DOMAIN s.charges /\ c \in DOMAIN t.charges
          /\ e.request.version < s.charges[c].version
          /\ s.charges[c].version <= t.charges[c].version
      BY <2>1, <2>3 DEF Accounted, Keeps
    <3>2. s.charges[c].version \in Nat /\ t.charges[c].version \in Nat
      BY <3>1, RowVersion
    <3> QED
      BY <2>1, <2>3, <3>1, <3>2 DEF Accounted
  <2> QED
    BY <2>2, <2>3
<1>2. ASSUME NEW c \in DOMAIN t.charges, NEW op \in StudentEvents
      PROVE  Shows(t.charges[c], op) <=> Asked(t, c, op)
  <2>1. Asked(t, c, op) <=> Asked(s, c, op)
    BY DEF Asked, Keeps
  <2>2. CASE c \in DOMAIN s.charges
    BY <2>1, <2>2 DEF Keeps, SoundEffects
  <2>3. CASE c \notin DOMAIN s.charges
    <3>1. ~ Shows(t.charges[c], op)
      BY <2>3 DEF Keeps
    <3>2. \A e \in s.effects : Scope(e.request) # <<op, c>>
      BY <2>3 DEF SoundEffects, Accounted, Scope, StudentEvents
    <3> QED
      BY <2>1, <2>3, <3>1, <3>2 DEF Asked, SoundEffects
  <2> QED
    BY <2>2, <2>3
<1> QED
  BY <1>1, <1>2 DEF SoundEffects, Once, Keeps

LEMMA SameKeeps ==
  ASSUME NEW s, GoodSnapshot(s), NEW t,
         t.effects = s.effects, t.tasks = s.tasks, t.charges = s.charges
  PROVE  Keeps(s, t)
<1>1. \A c \in DOMAIN s.charges : s.charges[c].version \in Nat
  BY RowVersion
<1> QED
  BY <1>1 DEF Keeps

-----------------------------------------------------------------------------
(* One step per operation. *)

(***************************************************************************)
(* A deadline pass accepts on nobody's behalf.                             *)
(***************************************************************************)
LEMMA ReconcileKeeps ==
  ASSUME GoodState, GoodRows(mem)
  PROVE  Keeps(mem, ReconcileDeadlines(mem))
<1> DEFINE t == ReconcileDeadlines(mem)
<1>1. /\ t.effects = mem.effects /\ t.tasks = mem.tasks
      /\ t.charges = ReconciledCharges(mem.charges)
      /\ DOMAIN t.charges = DOMAIN mem.charges
  BY DEF ReconcileDeadlines, ReconciledCharges, GoodState, GoodSnapshot,
     Snapshot
<1>2. ASSUME NEW c \in DOMAIN mem.charges
      PROVE  /\ mem.charges[c].version <= t.charges[c].version
             /\ \A op \in StudentEvents :
                  Shows(t.charges[c], op) <=> Shows(mem.charges[c], op)
  <2> DEFINE row == mem.charges[c]
  <2>1. row \in Row /\ row.version \in Nat /\ WellFormed(row)
    BY RowVersion DEF GoodState, GoodRows, GoodRow
  <2>2. t.charges[c] = Reconciled(row, now)
    BY <1>1 DEF ReconciledCharges
  <2>3. /\ "deadlineElapsed" \in Events
        /\ "deadlineElapsed" \notin StudentEvents
        /\ now \in Instants /\ now \in Nat
    BY DEF Events, SystemEvents, StudentEvents, GoodState, Instants
  <2> HIDE DEF row, t
  <2>4. CASE Overdue(row, now)
    <3>1. t.charges[c] = After(row, "deadlineElapsed", now)
      BY <2>2, <2>4 DEF Reconciled
    <3>2. CanReceive(row.status, "deadlineElapsed")
      BY <2>4 DEF Overdue, CanReceive, Source
    <3>3. t.charges[c].version = row.version + 1
      BY <2>1, <2>3, <3>1, AfterType
    <3>4. \A op \in StudentEvents : Shows(t.charges[c], op) <=> Shows(row, op)
      BY <2>1, <2>3, <3>1, <3>2, AfterShows
    <3> QED
      BY <2>1, <3>3, <3>4 DEF row
  <2>5. CASE ~ Overdue(row, now)
    BY <2>1, <2>2, <2>5 DEF Reconciled, row
  <2> QED
    BY <2>4, <2>5
<1> HIDE DEF t
<1> QED
  BY <1>1, <1>2 DEF Keeps, t

LEMMA ReconcileSound ==
  ASSUME GoodState, GoodRows(mem), SoundEffects(mem)
  PROVE  /\ SoundEffects(ReconcileDeadlines(mem))
         /\ SoundOutcome(ReconcileNowOutcome)
<1>1. SoundEffects(ReconcileDeadlines(mem))
  BY ReconcileKeeps, ReconcileType, KeepsSound DEF GoodState
<1>2. /\ ReconcileNowOutcome.working = ReconcileDeadlines(mem)
      /\ ReconcileNowOutcome.reply = {}
  BY DEF ReconcileNowOutcome, Outcome
<1>3. /\ ReconcileDeadlines(mem).epoch = mem.epoch
      /\ ReconcileDeadlines(mem).ring = mem.ring
      /\ ReconcileDeadlines(mem).effects = mem.effects
  BY DEF ReconcileDeadlines, GoodState, GoodSnapshot, Snapshot
<1> QED
  BY <1>1, <1>2, <1>3 DEF SoundOutcome

LEMMA UnchangedSound ==
  ASSUME GoodState, SoundEffects(mem)
  PROVE  /\ SoundOutcome(Unchanged)
         /\ \A request : SoundOutcome(ReplayOutcome(request))
<1>1. SoundOutcome(Unchanged)
  BY DEF SoundOutcome, Unchanged, Outcome
<1>2. ASSUME NEW request
      PROVE  SoundOutcome(Outcome(mem, << >>, FALSE,
                                  {e \in mem.effects : e.request = request}))
  BY DEF SoundOutcome, Outcome
<1> QED
  BY <1>1, <1>2 DEF ReplayOutcome

(***************************************************************************)
(* Recording a success adds one effect and touches neither rows nor tasks. *)
(***************************************************************************)
NewEffect(request, body) ==
  [request |-> request, revision |-> NextRevision, body |-> body]

LEMMA RecordSuccessSound ==
  ASSUME NEW s, GoodSnapshot(s), NEW request, NEW shared, NEW body
  PROVE  LET w == RecordSuccess(s, request, shared, body)
         IN  /\ w.effects = s.effects \cup {NewEffect(request, body)}
             /\ w.charges = s.charges /\ w.tasks = s.tasks
             /\ w.epoch = s.epoch /\ w.ring = s.ring
             /\ Latest(w, request) \subseteq w.effects
BY DEF RecordSuccess, NewEffect, Latest, GoodSnapshot, Snapshot

(***************************************************************************)
(* A charge command that is accepted names the row's present version, and  *)
(* every earlier effect on that charge an older one.                       *)
(***************************************************************************)
LEMMA CommandSound ==
  ASSUME GoodState, GoodRows(mem), SoundEffects(mem),
         NEW request \in Request, request.op \in StudentEvents,
         request.resource \in DOMAIN ReconcileDeadlines(mem).charges,
         ReconcileDeadlines(mem).charges[request.resource].version
           = request.version,
         CanReceive(ReconcileDeadlines(mem).charges[request.resource].status,
                    request.op)
  PROVE  SoundOutcome(CommandSucceeds(request))
<1> DEFINE s       == ReconcileDeadlines(mem)
           c       == request.resource
           old     == s.charges[c]
           row     == After(old, request.op, now)
           updated == [s EXCEPT !.charges[c] = row]
           w       == RecordSuccess(updated, request, TRUE, row)
           new     == NewEffect(request, row)
<1>1. GoodSnapshot(s) /\ SoundEffects(s) /\ GoodRows(s)
  BY ReconcileType, ReconcileSound, ReconcileLegal
<1>2. /\ s.epoch = mem.epoch /\ s.ring = mem.ring
      /\ s.effects = mem.effects
  BY DEF ReconcileDeadlines, GoodState, GoodSnapshot, Snapshot
<1>3. CommandSucceeds(request).working = w
  BY DEF CommandSucceeds, Outcome
<1>4. /\ CommandSucceeds(request).persist = TRUE
      /\ CommandSucceeds(request).reply = Latest(w, request)
  BY DEF CommandSucceeds, Outcome
<1>5. c \in DOMAIN s.charges /\ old.version = request.version
      /\ CanReceive(old.status, request.op)
  OBVIOUS
<1> HIDE DEF s
<1>6. old \in Row /\ old.version \in Nat /\ WellFormed(old)
  BY <1>1, <1>5, RowVersion DEF GoodRows, GoodRow
<1>7. request.op \in Events /\ now \in Instants /\ now \in Nat
  BY DEF Events, GoodState, Instants
<1> HIDE DEF old
<1>8. /\ row \in Row /\ row.version = old.version + 1
      /\ \A op \in StudentEvents :
           Shows(row, op) <=> Shows(old, op) \/ request.op = op
  BY <1>5, <1>6, <1>7, AfterType, AfterShows
<1> HIDE DEF row
<1>9. /\ GoodSnapshot(updated)
      /\ updated.charges = [s.charges EXCEPT ![c] = row]
      /\ updated.tasks = s.tasks /\ updated.effects = s.effects
      /\ updated.epoch = s.epoch /\ updated.ring = s.ring
  BY <1>1, <1>5, <1>8, ChargeUpdateType DEF GoodSnapshot, Snapshot
<1> HIDE DEF updated
<1>10. /\ w.effects = s.effects \cup {new}
       /\ w.charges = [s.charges EXCEPT ![c] = row]
       /\ w.tasks = s.tasks
       /\ w.epoch = s.epoch /\ w.ring = s.ring
       /\ Latest(w, request) \subseteq w.effects
  <2>1. /\ w.effects = updated.effects \cup {new}
        /\ w.charges = updated.charges /\ w.tasks = updated.tasks
        /\ w.epoch = updated.epoch /\ w.ring = updated.ring
        /\ Latest(w, request) \subseteq w.effects
    BY <1>9, RecordSuccessSound
  <2> HIDE DEF w, new
  <2> QED
    BY <1>9, <2>1
<1> HIDE DEF w
<1>11. new.request = request
  BY DEF NewEffect
<1> HIDE DEF new
<1>12. request.op # "createTask"
  BY DEF StudentEvents
<1>13. \A e \in s.effects : Scope(e.request) = Scope(request)
                               => Digest(e.request) # Digest(request)
  <2> SUFFICES ASSUME NEW e \in s.effects, Scope(e.request) = Scope(request)
               PROVE  e.request.version # request.version
    BY DEF Digest
  <2>1. e.request.op = request.op /\ e.request.resource = c
    BY DEF Scope
  <2>2. e.request.version < old.version /\ e.request.version \in Nat
    BY <1>1, <1>12, <2>1, EffectType DEF SoundEffects, Accounted, old
  <2> QED
    BY <1>5, <1>6, <2>2 DEF old
<1>14. Once(w)
  BY <1>1, <1>10, <1>11, <1>13 DEF Once, SoundEffects
<1>15. \A e \in w.effects : Accounted(w, e)
  <2>1. Accounted(w, new)
    BY <1>5, <1>6, <1>8, <1>10, <1>11, <1>12 DEF Accounted, old
  <2>2. ASSUME NEW e \in s.effects PROVE Accounted(w, e)
    <3>1. Accounted(s, e) /\ e.request.version \in Nat
      BY <1>1, <2>2, EffectType DEF SoundEffects
    <3>2. CASE e.request.op = "createTask"
      BY <1>10, <3>1, <3>2 DEF Accounted
    <3>3. CASE e.request.op # "createTask" /\ e.request.resource = c
      BY <1>5, <1>6, <1>8, <1>10, <3>1, <3>3 DEF Accounted, old
    <3>4. CASE e.request.op # "createTask" /\ e.request.resource # c
      BY <1>10, <3>1, <3>4 DEF Accounted
    <3> QED
      BY <3>2, <3>3, <3>4
  <2> QED
    BY <1>10, <2>1, <2>2
<1>16. ASSUME NEW d \in DOMAIN w.charges, NEW op \in StudentEvents
       PROVE  Shows(w.charges[d], op) <=> Asked(w, d, op)
  <2>1. Asked(w, d, op) <=> Asked(s, d, op) \/ <<request.op, c>> = <<op, d>>
    BY <1>10, <1>11 DEF Asked, Scope
  <2>2. d \in DOMAIN s.charges
    BY <1>10
  <2>3. Shows(s.charges[d], op) <=> Asked(s, d, op)
    BY <1>1, <2>2 DEF SoundEffects
  <2>4. CASE d = c
    <3>1. w.charges[d] = row /\ s.charges[d] = old
      BY <1>10, <2>2, <2>4 DEF old
    <3> QED
      BY <1>8, <2>1, <2>3, <2>4, <3>1
  <2>5. CASE d # c
    BY <1>10, <2>1, <2>2, <2>3, <2>5
  <2> QED
    BY <2>4, <2>5
<1>17. SoundEffects(w)
  BY <1>1, <1>10, <1>14, <1>15, <1>16 DEF SoundEffects
<1> QED
  BY <1>2, <1>3, <1>4, <1>10, <1>17 DEF SoundOutcome

LEMMA ChargeCommandSound ==
  ASSUME GoodState, GoodRows(mem), SoundEffects(mem),
         NEW request \in Request, request.op \in StudentEvents
  PROVE  SoundOutcome(ChargeCommandOutcome(request))
<1>1. ReconcileDeadlines(mem).charges = ReconciledCharges(mem.charges)
  BY DEF ReconcileDeadlines, GoodState, GoodSnapshot, Snapshot
<1> QED
  BY <1>1, CommandSound, UnchangedSound, ReconcileSound
  DEF ChargeCommandOutcome, FailAfterReconciliation


(***************************************************************************)
(* A task is recorded once: creating it needs its id to be unused.         *)
(***************************************************************************)
LEMMA TaskSound ==
  ASSUME GoodState, SoundEffects(mem), NEW request \in Request,
         request.op = "createTask", request.resource \notin mem.tasks
  PROVE  SoundOutcome(TaskCreated(request))
<1> DEFINE t     == request.resource
           added == [mem EXCEPT !.tasks = @ \cup {t}]
           w     == RecordSuccess(added, request, FALSE, NoRow)
           new   == NewEffect(request, NoRow)
<1>1. /\ added.effects = mem.effects /\ added.charges = mem.charges
      /\ added.tasks = mem.tasks \cup {t}
      /\ added.epoch = mem.epoch /\ added.ring = mem.ring
  BY DEF GoodState, GoodSnapshot, Snapshot
<1>2. /\ TaskCreated(request).working = w
      /\ TaskCreated(request).persist = TRUE
      /\ TaskCreated(request).reply = Latest(w, request)
  BY DEF TaskCreated, Outcome
<1>3. w.effects = added.effects \cup {new}
      /\ w.charges = added.charges /\ w.tasks = added.tasks
      /\ w.epoch = added.epoch /\ w.ring = added.ring
      /\ Latest(w, request) \subseteq w.effects
  BY DEF RecordSuccess, NewEffect, Latest, GoodState, GoodSnapshot, Snapshot
<1>4. new.request = request
  BY DEF NewEffect
<1> HIDE DEF w, added, new
<1>5. Once(w)
  <2>1. \A e \in mem.effects : Scope(e.request) # Scope(request)
    BY DEF SoundEffects, Accounted, Scope
  <2> QED
    BY <1>1, <1>3, <1>4, <2>1 DEF Once, SoundEffects
<1>6. \A e \in w.effects : Accounted(w, e)
  <2>1. Accounted(w, new)
    BY <1>1, <1>3, <1>4 DEF Accounted
  <2>2. \A e \in mem.effects : Accounted(w, e)
    BY <1>1, <1>3 DEF Accounted, SoundEffects
  <2> QED
    BY <1>1, <1>3, <2>1, <2>2
<1>7. \A c \in DOMAIN w.charges, op \in StudentEvents :
        Asked(w, c, op) <=> Asked(mem, c, op)
  <2>1. \A c, op : op \in StudentEvents => Scope(request) # <<op, c>>
    BY DEF Scope, StudentEvents
  <2> QED
    BY <1>1, <1>3, <1>4, <2>1 DEF Asked
<1>8. SoundEffects(w)
  BY <1>1, <1>3, <1>5, <1>6, <1>7 DEF SoundEffects
<1> QED
  BY <1>1, <1>2, <1>3, <1>8 DEF SoundOutcome

LEMMA CreateTaskSound ==
  ASSUME GoodState, SoundEffects(mem), NEW request \in Request,
         request.op = "createTask", NEW bookingExists
  PROVE  SoundOutcome(CreateTaskOutcome(request, bookingExists))
BY TaskSound, UnchangedSound DEF CreateTaskOutcome

LEMMA MarkReadSound ==
  ASSUME GoodState, SoundEffects(mem), NEW n \in Nat, NEW epoch
  PROVE  SoundOutcome(MarkReadOutcome(n, epoch))
<1> DEFINE o == MarkReadOutcome(n, epoch)
           t == [mem EXCEPT !.notifications[n].read = TRUE]
<1>1. CASE o = Unchanged
  BY <1>1, UnchangedSound
<1>2. CASE o # Unchanged
  <2>1. o = Outcome(t, <<NotificationEvent(n)>>, TRUE, {})
    BY <1>2 DEF MarkReadOutcome
  <2>2. GoodSnapshot(t)
    <3>1. GoodOutcome(o)
      BY MarkReadType
    <3> HIDE DEF o, t
    <3>2. o.working = t
      BY <2>1 DEF Outcome
    <3> QED
      BY <3>1, <3>2 DEF GoodOutcome
  <2>3. /\ t.effects = mem.effects /\ t.tasks = mem.tasks
        /\ t.charges = mem.charges
        /\ t.epoch = mem.epoch /\ t.ring = mem.ring
    BY DEF GoodState, GoodSnapshot, Snapshot
  <2> HIDE DEF o, t
  <2>4. SoundEffects(t)
    BY <2>2, <2>3, SameKeeps, KeepsSound DEF GoodState
  <2> QED
    BY <2>1, <2>3, <2>4 DEF SoundOutcome, Outcome, o
<1> QED
  BY <1>1, <1>2

(***************************************************************************)
(* A new charge, numbered after all the others, has no student event yet.  *)
(***************************************************************************)
LEMMA RaiseChargeSound ==
  ASSUME GoodState, SoundEffects(mem), NEW c \in Nat, NEW d \in Deadlines,
         NEW bookingExists
  PROVE  SoundOutcome(RaiseChargeOutcome(c, d, bookingExists))
<1> DEFINE o      == RaiseChargeOutcome(c, d, bookingExists)
           raised == [mem EXCEPT !.charges = Append(@, NewRow(d))]
           t      == Notified(raised, c)
<1>1. CASE o = Unchanged
  BY <1>1, UnchangedSound
<1>2. CASE o # Unchanged
  <2>1. o = Outcome(t, NotifiedDrafts(c, 1), TRUE, {})
    BY <1>2 DEF RaiseChargeOutcome
  <2>2. GoodSnapshot(t)
    <3>1. GoodOutcome(o)
      BY RaiseChargeType
    <3> HIDE DEF o, t
    <3>2. o.working = t
      BY <2>1 DEF Outcome
    <3> QED
      BY <3>1, <3>2 DEF GoodOutcome
  <2>3. /\ t.effects = mem.effects /\ t.tasks = mem.tasks
        /\ t.charges = Append(mem.charges, NewRow(d))
        /\ t.epoch = mem.epoch /\ t.ring = mem.ring
    BY DEF Notified, GoodState, GoodSnapshot, Snapshot
  <2> HIDE DEF o, t, raised
  <2>4. /\ DOMAIN mem.charges \subseteq DOMAIN t.charges
        /\ \A i \in DOMAIN mem.charges : t.charges[i] = mem.charges[i]
        /\ \A i \in DOMAIN t.charges \ DOMAIN mem.charges :
             t.charges[i] = NewRow(d)
    <3>1. mem.charges \in Seq(Row) /\ NewRow(d) \in Row
      BY NewRowType, SeedAssumption DEF GoodState, GoodSnapshot, Snapshot
    <3>2. /\ Len(t.charges) = Len(mem.charges) + 1 /\ t.charges \in Seq(Row)
          /\ \A i \in 1 .. Len(mem.charges) : t.charges[i] = mem.charges[i]
          /\ t.charges[Len(mem.charges) + 1] = NewRow(d)
      BY <2>3, <3>1, AppendProperties
    <3>3. /\ Len(mem.charges) \in Nat
          /\ DOMAIN mem.charges = 1 .. Len(mem.charges)
          /\ DOMAIN t.charges = 1 .. Len(t.charges)
      BY <3>1, <3>2, LenProperties
    <3> QED
      BY <3>2, <3>3
  <2>5. Keeps(mem, t)
    <3>1. \A i \in DOMAIN mem.charges : mem.charges[i].version \in Nat
      BY RowVersion DEF GoodState
    <3> QED
      BY <2>3, <2>4, <3>1, NewRowShows DEF Keeps
  <2>6. SoundEffects(t)
    BY <2>2, <2>5, KeepsSound DEF GoodState
  <2> QED
    BY <2>1, <2>3, <2>6 DEF SoundOutcome, Outcome, o
<1> QED
  BY <1>1, <1>2

(***************************************************************************)
(* An operator's decision shows as no student's.                           *)
(***************************************************************************)
LEMMA ResolveChargeSound ==
  ASSUME GoodState, GoodRows(mem), SoundEffects(mem), NEW c \in Nat,
         NEW event \in OperatorEvents
  PROVE  SoundOutcome(ResolveChargeOutcome(c, event))
<1> DEFINE o       == ResolveChargeOutcome(c, event)
           old     == mem.charges[c]
           row     == After(old, event, now)
           decided == [mem EXCEPT !.charges[c] = row]
           t       == Notified(decided, c)
<1>1. CASE o = Unchanged
  BY <1>1, UnchangedSound
<1>2. CASE o # Unchanged
  <2>1. /\ o = Outcome(t, NotifiedDrafts(c, row.version), TRUE, {})
        /\ c \in DOMAIN mem.charges /\ CanReceive(old.status, event)
    BY <1>2 DEF ResolveChargeOutcome
  <2>2. GoodSnapshot(t)
    <3>1. GoodOutcome(o)
      BY ResolveChargeType
    <3> HIDE DEF o, t
    <3>2. o.working = t
      BY <2>1 DEF Outcome
    <3> QED
      BY <3>1, <3>2 DEF GoodOutcome
  <2>3. /\ t.effects = mem.effects /\ t.tasks = mem.tasks
        /\ t.charges = [mem.charges EXCEPT ![c] = row]
        /\ t.epoch = mem.epoch /\ t.ring = mem.ring
    <3> HIDE DEF row
    <3> QED
      BY DEF Notified, GoodState, GoodSnapshot, Snapshot
  <2>4. old \in Row /\ old.version \in Nat /\ WellFormed(old)
    BY <2>1, RowVersion DEF GoodState, GoodRows, GoodRow
  <2>5. /\ event \in Events /\ event \notin StudentEvents
        /\ now \in Instants /\ now \in Nat
    BY DEF Events, OperatorEvents, StudentEvents, GoodState, Instants
  <2> HIDE DEF o, t, old
  <2>6. /\ row.version = old.version + 1
        /\ \A op \in StudentEvents : Shows(row, op) <=> Shows(old, op)
    BY <2>1, <2>4, <2>5, AfterType, AfterShows
  <2> HIDE DEF row
  <2>7. Keeps(mem, t)
    <3>1. \A i \in DOMAIN mem.charges : mem.charges[i].version \in Nat
      BY RowVersion DEF GoodState
    <3> QED
      BY <2>1, <2>3, <2>4, <2>6, <3>1 DEF Keeps, old
  <2>8. SoundEffects(t)
    BY <2>2, <2>7, KeepsSound DEF GoodState
  <2> QED
    BY <2>1, <2>3, <2>8 DEF SoundOutcome, Outcome, o
<1> QED
  BY <1>1, <1>2

-----------------------------------------------------------------------------
(* The store's commit. *)

(***************************************************************************)
(* Appending moves the cursor to an event of the revision being written,   *)
(* or leaves it alone if there is none.                                    *)
(***************************************************************************)
LEMMA CursorMoves ==
  ASSUME GoodState, SoundFeed(mem), NEW o, GoodOutcome(o), SoundOutcome(o)
  PROVE  LET cursor == Working(o).ring.streamCursor
         IN  /\ cursor \in EventIds
             /\ cursor[1] = mem.epoch /\ cursor[2] <= NextRevision
             /\ AtMost(mem.ring.streamCursor, cursor)
<1> DEFINE stored == StoredEvents(mem.epoch, NextRevision, o.drafts)
           ring   == AppendEvents(mem.ring, stored, RingCapacity)
           n      == Len(o.drafts)
<1>1. NextRevision \in Nat /\ mem.epoch \in Nat
  BY NextRevisionType DEF GoodState, GoodSnapshot, Snapshot
<1>2. o.drafts \in Seq(Draft) /\ n \in Nat
  BY LenProperties DEF GoodOutcome
<1>3. /\ stored \in Seq(Event) /\ Len(stored) = n
      /\ \A i \in 1 .. n : stored[i].id = <<mem.epoch, NextRevision, i>>
  BY <1>1, <1>2, StoredEventsType
<1>4. Working(o).ring = ring
  BY DEF Working, GoodOutcome, GoodSnapshot, Snapshot, SoundOutcome
<1>5. Working(o).ring.streamCursor \in EventIds
  BY WorkingType DEF GoodSnapshot, Snapshot, Ring
<1>6. /\ mem.ring.streamCursor \in EventIds /\ mem.revision \in Nat
      /\ NextRevision = mem.revision + 1
  BY DEF GoodState, GoodSnapshot, Snapshot, Ring, NextRevision
<1> HIDE DEF stored, n
<1>7. CASE stored = << >>
  <2>1. ring = mem.ring
    BY <1>7 DEF AppendEvents
  <2> QED
    BY <1>4, <1>5, <1>6, <2>1 DEF SoundFeed, AtMost, EventIds
<1>8. CASE stored # << >>
  <2>1. ring.streamCursor = stored[n].id
    BY <1>3, <1>8 DEF AppendEvents
  <2>2. n \in 1 .. n
    BY <1>2, <1>3, <1>8, EmptySeq
  <2>3. Working(o).ring.streamCursor = <<mem.epoch, NextRevision, n>>
    BY <1>3, <1>4, <2>1, <2>2
  <2> QED
    BY <1>1, <1>5, <1>6, <2>3 DEF SoundFeed, AtMost, Before, EventIds
<1> QED
  BY <1>7, <1>8

PublishedAscends ==
  lastPublished' # lastPublished =>
    \/ lastPublished'[1] > lastPublished[1]
    \/ /\ lastPublished'[1] = lastPublished[1]
       /\ Before(lastPublished, lastPublished')

(***************************************************************************)
(* Writing a snapshot as JSON changes only how the ledger holds a body.    *)
(***************************************************************************)
LEMMA EncodedSound ==
  ASSUME NEW s, GoodSnapshot(s)
  PROVE  LET t == Encoded(s)
         IN  /\ t.effects = s.effects /\ t.tasks = s.tasks
             /\ t.charges = s.charges /\ t.epoch = s.epoch
             /\ t.revision = s.revision /\ t.ring = s.ring
             /\ SoundEffects(s) => SoundEffects(t)
<1> DEFINE t == Encoded(s)
<1>1. /\ t.effects = s.effects /\ t.tasks = s.tasks
      /\ t.charges = s.charges /\ t.epoch = s.epoch
      /\ t.revision = s.revision /\ t.ring = s.ring
  BY DEF Encoded, GoodSnapshot, Snapshot
<1>2. GoodSnapshot(t)
  BY EncodedType
<1> HIDE DEF t
<1>3. Keeps(s, t)
  BY <1>1, SameKeeps
<1>4. SoundEffects(s) => SoundEffects(t)
  BY <1>2, <1>3, KeepsSound
<1> QED
  BY <1>1, <1>4 DEF t

(***************************************************************************)
(* A commit keeps every part of the invariant, whichever way its write     *)
(* ends, and what it publishes lies beyond everything published before.    *)
(***************************************************************************)
LEMMA CommitSound ==
  ASSUME GoodState, Committed, NEW o, GoodOutcome(o), SoundOutcome(o),
         Commit(o)
  PROVE  Committed' /\ PublishedAscends
<1> DEFINE w      == Working(o)
           e      == Encoded(w)
           cursor == w.ring.streamCursor
<1>1. /\ w.effects = o.working.effects /\ w.tasks = o.working.tasks
      /\ w.charges = o.working.charges /\ w.epoch = mem.epoch
      /\ w.revision = NextRevision
  BY DEF Working, GoodOutcome, GoodSnapshot, Snapshot, SoundOutcome
<1>2. GoodSnapshot(w)
  BY WorkingType
<1>3. /\ cursor \in EventIds /\ cursor[1] = mem.epoch
      /\ cursor[2] <= NextRevision /\ AtMost(mem.ring.streamCursor, cursor)
  BY CursorMoves DEF Committed
<1>4. /\ now' = now /\ epochsIssued' = epochsIssued
      /\ \/ /\ mem' = w /\ disk' = e /\ acked' = acked \cup o.reply
            /\ lastPublished' = cursor
         \/ UNCHANGED <<mem, disk, acked, lastPublished>>
         \/ disk' = e /\ UNCHANGED <<mem, acked, lastPublished>>
         \/ /\ o.reply \subseteq mem.effects /\ acked' = acked \cup o.reply
            /\ mem' = mem /\ disk' = disk /\ lastPublished' = lastPublished
  BY DEF Commit, CommitDone, CommitFailed, CommitUnsynced, Answer, SoundOutcome
<1> HIDE DEF w
<1>5. SoundEffects(w)
  <2>1. Keeps(o.working, w)
    BY <1>1, SameKeeps DEF GoodOutcome
  <2> QED
    BY <1>2, <2>1, KeepsSound DEF GoodOutcome, SoundOutcome
<1>6. /\ e.effects = w.effects /\ e.epoch = w.epoch
      /\ e.revision = w.revision /\ e.ring = w.ring
      /\ SoundEffects(e)
  BY <1>2, <1>5, EncodedSound
<1> HIDE DEF e
<1>7. /\ lastPublished \in EventIds /\ mem.ring.streamCursor \in EventIds
      /\ mem.epoch \in Nat /\ disk.epoch \in Nat /\ epochsIssued \in Nat
  BY DEF GoodState, GoodSnapshot, Snapshot, Ring
<1>8. lastPublished[1] = mem.epoch => AtMost(lastPublished, cursor)
  <2>1. lastPublished[1] = mem.epoch
          => AtMost(lastPublished, mem.ring.streamCursor)
    BY DEF Committed, SoundFeed
  <2> QED
    BY <1>3, <1>7, <2>1 DEF AtMost, Before, EventIds
<1>9. AtMost(cursor, cursor)
  BY DEF AtMost
<1>10. /\ acked \subseteq w.effects /\ o.reply \subseteq w.effects
  BY <1>1 DEF Committed, Durable, SoundOutcome
<1> mem.effects \subseteq w.effects
  BY <1>1 DEF SoundOutcome
<1>11. CASE /\ mem' = w /\ disk' = e /\ acked' = acked \cup o.reply
            /\ lastPublished' = cursor
  <2>1. SoundEffects(mem)' /\ SoundEffects(disk)'
    BY <1>5, <1>6, <1>11 DEF SoundEffects, Accounted, Once, Asked
  <2>2. SoundFeed(mem)' /\ SoundFeed(disk)'
    BY <1>1, <1>3, <1>6, <1>9, <1>11 DEF SoundFeed
  <2>3. EpochsOrdered'
    BY <1>1, <1>3, <1>4, <1>6, <1>7, <1>11 DEF EpochsOrdered, Committed
  <2>4. Durable'
    BY <1>6, <1>10, <1>11 DEF Durable
  <2>5. PublishedAscends
    <3>1. lastPublished[1] \in Nat
      BY <1>7 DEF EventIds
    <3> HIDE DEF cursor
    <3> QED
      BY <1>3, <1>7, <1>8, <1>11, <3>1
      DEF PublishedAscends, Committed, EpochsOrdered, AtMost
  <2> QED
    BY <2>1, <2>2, <2>3, <2>4, <2>5 DEF Committed
<1>12. CASE UNCHANGED <<mem, disk, acked, lastPublished>>
  BY <1>4, <1>12
  DEF Committed, SoundEffects, Accounted, Once, Asked, SoundFeed,
      EpochsOrdered, Durable, PublishedAscends
<1>13. CASE disk' = e /\ UNCHANGED <<mem, acked, lastPublished>>
  <2>1. SoundEffects(mem)' /\ SoundEffects(disk)'
    BY <1>6, <1>13 DEF Committed, SoundEffects, Accounted, Once, Asked
  <2>2. SoundFeed(mem)' /\ SoundFeed(disk)'
    BY <1>1, <1>3, <1>6, <1>8, <1>13 DEF Committed, SoundFeed
  <2>3. EpochsOrdered'
    BY <1>1, <1>4, <1>6, <1>7, <1>13 DEF EpochsOrdered, Committed
  <2>4. Durable'
    BY <1>6, <1>10, <1>13 DEF Durable, Committed
  <2> QED
    BY <1>13, <2>1, <2>2, <2>3, <2>4 DEF Committed, PublishedAscends
<1>14. CASE /\ o.reply \subseteq mem.effects /\ acked' = acked \cup o.reply
            /\ mem' = mem /\ disk' = disk /\ lastPublished' = lastPublished
  <2>1. Durable'
    BY <1>14 DEF Committed, Durable
  <2> QED
    BY <1>4, <1>14, <2>1
    DEF Committed, SoundEffects, Accounted, Once, Asked, SoundFeed,
        EpochsOrdered, PublishedAscends
<1> QED
  BY <1>4, <1>11, <1>12, <1>13, <1>14

-----------------------------------------------------------------------------
(* The system. *)

LEMMA SeedSound ==
  ASSUME NEW epoch \in Nat
  PROVE  /\ SoundEffects(SeedSnapshot(epoch))
         /\ SeedSnapshot(epoch).epoch = epoch
         /\ SeedSnapshot(epoch).revision = 1
         /\ SeedSnapshot(epoch).effects = {}
         /\ SeedSnapshot(epoch).ring.streamCursor = <<epoch, 0, 0>>
BY DEF SeedSnapshot, SoundEffects, Once, Asked, EmptyRing, BaselineCursor

LEMMA InitSound == Init => Committed
<1> SUFFICES ASSUME Init PROVE Committed
  OBVIOUS
<1> DEFINE s == SeedSnapshot(1)
<1>1. /\ mem = s /\ disk = s /\ acked = {} /\ epochsIssued = 1
      /\ lastPublished = <<1, 0, 0>>
  BY DEF Init, BaselineCursor
<1>2. /\ SoundEffects(s) /\ s.epoch = 1 /\ s.revision = 1
      /\ s.ring.streamCursor = <<1, 0, 0>>
  BY SeedSound
<1> HIDE DEF s
<1> QED
  BY <1>1, <1>2
  DEF Committed, SoundFeed, EpochsOrdered, Durable, AtMost

LEMMA StudentSound ==
  ASSUME LegalState, Committed, NEW event \in StudentEvents,
         ApplyChargeCommand(event)
  PROVE  Committed' /\ PublishedAscends
<1>1. PICK k \in Keys, c \in ChargeIds, e \in EpochsSeen,
           v \in 1 .. MaxVersion :
        Commit(ChargeCommandOutcome([key |-> k, op |-> event, resource |-> c,
                                     epoch |-> e, version |-> v]))
  BY DEF ApplyChargeCommand
<1> DEFINE request == [key |-> k, op |-> event, resource |-> c,
                       epoch |-> e, version |-> v]
<1>2. request \in Request /\ request.op \in StudentEvents
  BY BoundAssumption DEF Request, ChargeIds, EpochsSeen, LegalState, GoodState
<1> HIDE DEF request
<1>3. /\ GoodOutcome(ChargeCommandOutcome(request))
      /\ SoundOutcome(ChargeCommandOutcome(request))
  BY <1>2, ChargeCommandType, ChargeCommandSound DEF LegalState, Committed
<1> QED
  BY <1>1, <1>3, CommitSound DEF LegalState, request

(***************************************************************************)
(* A reset draws an epoch nobody has used; even if its write is not        *)
(* confirmed, nothing of the old epoch can be taken for the new one.       *)
(***************************************************************************)
LEMMA ResetSound ==
  ASSUME GoodState, Committed, Reset
  PROVE  Committed' /\ PublishedAscends
<1> DEFINE s == SeedSnapshot(epochsIssued + 1)
<1>1. /\ epochsIssued \in Nat /\ mem.epoch \in Nat /\ disk.epoch \in Nat
      /\ lastPublished \in EventIds
  BY DEF GoodState, GoodSnapshot, Snapshot
<1>2. /\ SoundEffects(s) /\ s.epoch = epochsIssued + 1 /\ s.revision = 1
      /\ s.effects = {} /\ s.ring.streamCursor = <<epochsIssued + 1, 0, 0>>
  BY <1>1, SeedSound
<1>3. /\ epochsIssued' = epochsIssued + 1 /\ lastPublished' = lastPublished
      /\ \/ mem' = s /\ disk' = s /\ acked' = {}
         \/ UNCHANGED <<mem, disk, acked>>
         \/ disk' = s /\ UNCHANGED <<mem, acked>>
  BY DEF Reset
<1> HIDE DEF s
<1>4. lastPublished[1] \in Nat /\ lastPublished[1] < s.epoch
  BY <1>1, <1>2 DEF Committed, EpochsOrdered, EventIds
<1>5. SoundEffects(mem)' /\ SoundEffects(disk)'
  BY <1>2, <1>3 DEF Committed, SoundEffects, Accounted, Once, Asked
<1>6. SoundFeed(mem)' /\ SoundFeed(disk)'
  BY <1>1, <1>2, <1>3, <1>4 DEF Committed, SoundFeed
<1>7. EpochsOrdered'
  BY <1>1, <1>2, <1>3, <1>4 DEF Committed, EpochsOrdered
<1>8. Durable'
  BY <1>1, <1>2, <1>3 DEF Committed, EpochsOrdered, Durable
<1> QED
  BY <1>3, <1>5, <1>6, <1>7, <1>8 DEF Committed, PublishedAscends

(***************************************************************************)
(* Every step keeps the invariant and publishes only forwards: one step    *)
(* per action.                                                             *)
(***************************************************************************)
LEMMA StepSound ==
  ASSUME LegalState, Committed, [Next]_vars
  PROVE  Committed' /\ PublishedAscends
<1> GoodState /\ GoodRows(mem) /\ SoundEffects(mem)
  BY DEF LegalState, Committed
<1>1. CASE AcceptCharge
  BY <1>1, StudentSound DEF AcceptCharge, StudentEvents
<1>2. CASE ContestCharge
  BY <1>2, StudentSound DEF ContestCharge, StudentEvents
<1>3. CASE PayCharge
  BY <1>3, StudentSound DEF PayCharge, StudentEvents
<1>4. CASE CreateTask
  <2>1. PICK k \in Keys, t \in Tasks, e \in EpochsSeen, b \in BOOLEAN :
          Commit(CreateTaskOutcome([key |-> k, op |-> "createTask",
                                    resource |-> t, epoch |-> e,
                                    version |-> 0], b))
    BY <1>4 DEF CreateTask
  <2> DEFINE request == [key |-> k, op |-> "createTask", resource |-> t,
                         epoch |-> e, version |-> 0]
  <2>2. /\ request \in Request /\ request.resource \in Tasks
        /\ request.op = "createTask"
    BY DEF Request, EpochsSeen, GoodState
  <2> HIDE DEF request
  <2>3. /\ GoodOutcome(CreateTaskOutcome(request, b))
        /\ SoundOutcome(CreateTaskOutcome(request, b))
    BY <2>2, CreateTaskType, CreateTaskSound
  <2> QED
    BY <2>1, <2>3, CommitSound DEF request
<1>5. CASE MarkNotificationRead
  <2>1. PICK n \in DOMAIN mem.notifications, e \in EpochsSeen :
          Commit(MarkReadOutcome(n, e))
    BY <1>5 DEF MarkNotificationRead
  <2>2. n \in Nat
    BY LenProperties DEF GoodState, GoodSnapshot, Snapshot
  <2> QED
    BY <2>1, <2>2, MarkReadType, MarkReadSound, CommitSound
<1>6. CASE DevRaiseCharge
  <2>1. PICK c \in ChargeIds, d \in Deadlines, b \in BOOLEAN :
          Commit(RaiseChargeOutcome(c, d, b))
    BY <1>6 DEF DevRaiseCharge
  <2>2. c \in Nat
    BY BoundAssumption DEF ChargeIds
  <2> QED
    BY <2>1, <2>2, RaiseChargeType, RaiseChargeSound, CommitSound
<1>7. CASE DevResolveCharge
  <2>1. PICK c \in ChargeIds, event \in OperatorEvents :
          Commit(ResolveChargeOutcome(c, event))
    BY <1>7 DEF DevResolveCharge
  <2>2. c \in Nat
    BY BoundAssumption DEF ChargeIds
  <2> QED
    BY <2>1, <2>2, ResolveChargeType, ResolveChargeSound, CommitSound
<1>8. CASE ReconcileNow
  BY <1>8, ReconcileType, ReconcileSound, CommitSound DEF ReconcileNow
<1>9. CASE Reset
  BY <1>9, ResetSound
<1>10. CASE Restart
  <2>1. /\ mem' = disk /\ disk' = disk /\ lastPublished' = lastPublished
        /\ epochsIssued' = epochsIssued
        /\ acked' = IF disk.epoch = mem.epoch THEN acked ELSE {}
    BY <1>10 DEF Restart
  <2>2. SoundEffects(mem)' /\ SoundEffects(disk)'
    BY <2>1 DEF Committed, SoundEffects, Accounted, Once, Asked
  <2>3. SoundFeed(mem)' /\ SoundFeed(disk)'
    BY <2>1 DEF Committed, SoundFeed
  <2>4. EpochsOrdered'
    <3>1. /\ lastPublished[1] \in Nat
          /\ mem.epoch \in Nat /\ disk.epoch \in Nat
      BY DEF GoodState, GoodSnapshot, Snapshot, EventIds
    <3> QED
      BY <2>1, <3>1 DEF Committed, EpochsOrdered
  <2>5. Durable'
    BY <2>1 DEF Committed, Durable
  <2> QED
    BY <2>1, <2>2, <2>3, <2>4, <2>5 DEF Committed, PublishedAscends
<1>11. CASE Tick
  BY <1>11
  DEF Tick, Committed, SoundEffects, Accounted, Once, Asked, SoundFeed,
      EpochsOrdered, Durable, PublishedAscends
<1>12. CASE UNCHANGED vars
  BY <1>12
  DEF vars, Committed, SoundEffects, Accounted, Once, Asked, SoundFeed,
      EpochsOrdered, Durable, PublishedAscends
<1> QED
  BY <1>1, <1>2, <1>3, <1>4, <1>5, <1>6, <1>7, <1>8, <1>9, <1>10, <1>11, <1>12
  DEF Next

LEMMA CommittedInvariant == Spec => [](LegalState /\ Committed)
<1>1. Init => Committed
  BY InitSound
<1>2. LegalState /\ Committed /\ [Next]_vars => Committed'
  BY StepSound
<1> QED
  BY <1>1, <1>2, LegalInvariant, PTL DEF Spec

(***************************************************************************)
(* However often a request is sent, under whatever keys and across         *)
(* whatever crashes, it takes effect at most once in a state epoch: the    *)
(* version it names is gone, or its task is there.                         *)
(***************************************************************************)
THEOREM EffectsHappenOnce == Spec => []AtMostOnce
<1>1. Committed => AtMostOnce
  BY DEF Committed, SoundEffects, Once, AtMostOnce
<1> QED
  BY <1>1, CommittedInvariant, PTL

(***************************************************************************)
(* A student's step shows in a charge exactly if a committed request asked *)
(* for it: refused commands, deadline passes and operators leave no trace  *)
(* of a student, and no effect is lost from the row.                       *)
(***************************************************************************)
THEOREM RowsShowEffects == Spec => []EffectsMatchRows
<1>1. Committed => EffectsMatchRows
  BY DEF Committed, SoundEffects, Asked, EffectsMatchRows
<1> QED
  BY <1>1, CommittedInvariant, PTL

(***************************************************************************)
(* What a client was told has succeeded survives failed writes and         *)
(* restarts for as long as the state epoch lasts.                          *)
(***************************************************************************)
THEOREM AcknowledgedSurvives == Spec => []AckedSurvives
<1>1. Committed => AckedSurvives
  BY DEF Committed, Durable, AckedSurvives
<1> QED
  BY <1>1, CommittedInvariant, PTL

(***************************************************************************)
(* No published event is one a restart would forget.                       *)
(***************************************************************************)
THEOREM CursorStaysBehind == Spec => []CursorNeverAhead
<1>1. Committed => CursorNeverAhead
  BY DEF Committed, SoundFeed, CursorNeverAhead
<1> QED
  BY <1>1, CommittedInvariant, PTL

(***************************************************************************)
(* Published ids only ascend, and an abandoned epoch publishes no more.    *)
(***************************************************************************)
THEOREM IdsAscend == Spec => PublishedIdsAscend
<1>1. LegalState /\ Committed /\ [Next]_vars => [PublishedAscends]_vars
  BY StepSound
<1>2. [PublishedAscends]_vars
        => [lastPublished' # lastPublished =>
              \/ lastPublished'[1] > lastPublished[1]
              \/ /\ lastPublished'[1] = lastPublished[1]
                 /\ Before(lastPublished, lastPublished')]_vars
  BY DEF PublishedAscends
<1> QED
  BY <1>1, <1>2, CommittedInvariant, PTL DEF Spec, PublishedIdsAscend

-----------------------------------------------------------------------------
(* The ledger's response bodies. *)

(***************************************************************************)
(* What LedgerHoldsCommittedRows says of one record.                       *)
(***************************************************************************)
Backed(s, r) ==
  LET body == ResponseBody(s, r)
  IN  /\ \E e \in s.effects :
           /\ e.request = r.request
           /\ \A f \in s.effects :
                f.request.key = e.request.key => f.revision <= e.revision
           /\ e.body.version <= body.version
      /\ r.request.op # "createTask" =>
           /\ r.request.resource \in DOMAIN s.charges
           /\ body.version <= s.charges[r.request.resource].version
           /\ body.version = s.charges[r.request.resource].version
                => body = s.charges[r.request.resource]

AllBacked(s) == \A r \in s.ledger : Backed(s, r)

RevisionsUpTo(s, n) == \A f \in s.effects : f.revision <= n

SoundLedger(s) == AllBacked(s) /\ RevisionsUpTo(s, s.revision)

LedgerOutcome(o) ==
  AllBacked(o.working) /\ RevisionsUpTo(o.working, NextRevision)

(***************************************************************************)
(* A row that changes changes its version with it, so a recorded body can  *)
(* fall behind its row but never disagree with it.                         *)
(***************************************************************************)
MovesOn(s, t) ==
  /\ t.ledger = s.ledger /\ t.effects = s.effects
  /\ DOMAIN s.charges \subseteq DOMAIN t.charges
  /\ \A c \in DOMAIN s.charges :
       \/ t.charges[c] = s.charges[c]
       \/ s.charges[c].version < t.charges[c].version

LEMMA BodyType ==
  ASSUME NEW s, GoodSnapshot(s), NEW r \in s.ledger
  PROVE  /\ ResponseBody(s, r).version \in Nat
         /\ r.shared => r.request.resource \in DOMAIN s.charges
<1>1. r \in Record /\ (r.shared => r.request.resource \in DOMAIN s.charges)
  BY DEF GoodSnapshot, Snapshot
<1>2. CASE r.shared
  BY <1>1, <1>2, RowVersion DEF ResponseBody
<1>3. CASE ~ r.shared
  BY <1>1, <1>3 DEF ResponseBody, Record, Row
<1> QED
  BY <1>1, <1>2, <1>3

LEMMA EffectNumbers ==
  ASSUME NEW s, GoodSnapshot(s), NEW e \in s.effects
  PROVE  e.revision \in Nat /\ e.body.version \in Nat
BY DEF GoodSnapshot, Snapshot, Effect, Row

LEMMA BackedMovesOn ==
  ASSUME NEW s, GoodSnapshot(s), AllBacked(s),
         NEW t, GoodSnapshot(t), MovesOn(s, t)
  PROVE  AllBacked(t)
<1> SUFFICES ASSUME NEW r \in s.ledger
             PROVE  Backed(t, r)
  BY DEF AllBacked, MovesOn
<1> DEFINE c == r.request.resource
           b == ResponseBody(s, r)
           d == ResponseBody(t, r)
<1>1. Backed(s, r) /\ r \in t.ledger
  BY DEF AllBacked, MovesOn
<1>2. /\ b.version \in Nat /\ d.version \in Nat
      /\ r.shared => c \in DOMAIN s.charges
  BY <1>1, BodyType
<1>3. /\ r.shared => b = s.charges[c] /\ d = t.charges[c]
      /\ ~ r.shared => b = r.body /\ d = r.body
  BY DEF ResponseBody
<1>4. c \in DOMAIN s.charges =>
        /\ s.charges[c].version \in Nat /\ t.charges[c].version \in Nat
        /\ c \in DOMAIN t.charges
        /\ \/ t.charges[c] = s.charges[c]
           \/ s.charges[c].version < t.charges[c].version
  BY RowVersion DEF MovesOn
<1>5. /\ \E e \in s.effects :
           /\ e.request = r.request
           /\ \A f \in s.effects :
                f.request.key = e.request.key => f.revision <= e.revision
           /\ e.body.version <= b.version
      /\ r.request.op # "createTask" =>
           /\ c \in DOMAIN s.charges
           /\ b.version <= s.charges[c].version
           /\ b.version = s.charges[c].version => b = s.charges[c]
  BY <1>1 DEF Backed
<1> HIDE DEF c, b, d
<1>6. b.version <= d.version
  BY <1>2, <1>3, <1>4
<1>7. PICK e \in s.effects :
        /\ e.request = r.request
        /\ \A f \in s.effects :
             f.request.key = e.request.key => f.revision <= e.revision
        /\ e.body.version <= b.version
  BY <1>5
<1>8. e.body.version <= d.version /\ e \in t.effects
  BY <1>2, <1>6, <1>7, EffectNumbers DEF MovesOn
<1>9. r.request.op # "createTask" =>
        /\ c \in DOMAIN t.charges
        /\ d.version <= t.charges[c].version
        /\ d.version = t.charges[c].version => d = t.charges[c]
  BY <1>2, <1>3, <1>4, <1>5
<1> QED
  BY <1>7, <1>8, <1>9 DEF Backed, MovesOn, c, d

LEMMA UnmovedMovesOn ==
  ASSUME NEW s, NEW t, t.ledger = s.ledger, t.effects = s.effects,
         t.charges = s.charges
  PROVE  MovesOn(s, t)
BY DEF MovesOn

LEMMA RecordBacked ==
  ASSUME GoodState, NEW s, GoodSnapshot(s), AllBacked(s),
         RevisionsUpTo(s, mem.revision),
         NEW request \in Request, NEW shared \in BOOLEAN, NEW body \in Row,
         shared => /\ request.resource \in DOMAIN s.charges
                   /\ body = s.charges[request.resource],
         ~ shared => request.op = "createTask"
  PROVE  /\ AllBacked(RecordSuccess(s, request, shared, body))
         /\ RevisionsUpTo(RecordSuccess(s, request, shared, body),
                          NextRevision)
<1> DEFINE w   == RecordSuccess(s, request, shared, body)
           new == NewEffect(request, body)
           rec == [request |-> request, shared |-> shared,
                   body    |-> IF shared THEN NoRow ELSE body]
<1>1. /\ w.effects = s.effects \cup {new} /\ w.charges = s.charges
      /\ w.ledger = {r \in s.ledger : r.request.key # request.key} \cup {rec}
  BY DEF RecordSuccess, NewEffect, GoodSnapshot, Snapshot
<1>2. /\ new.request = request /\ new.revision = NextRevision
      /\ new.body = body
  BY DEF NewEffect
<1>3. /\ rec.request = request /\ rec.shared = shared
      /\ ~ shared => rec.body = body
  OBVIOUS
<1> HIDE DEF w, new, rec
<1>4. mem.revision \in Nat /\ NextRevision = mem.revision + 1
  BY DEF GoodState, GoodSnapshot, Snapshot, NextRevision
<1>5. RevisionsUpTo(w, NextRevision)
  BY <1>1, <1>2, <1>4, EffectNumbers DEF RevisionsUpTo
<1>6. body.version \in Nat
  BY DEF Row
<1>7. ResponseBody(w, rec) = body
  BY <1>1, <1>3 DEF ResponseBody
<1>8. Backed(w, rec)
  BY <1>1, <1>2, <1>3, <1>5, <1>6, <1>7 DEF Backed, RevisionsUpTo
<1>9. ASSUME NEW r \in s.ledger, r.request.key # request.key
      PROVE  Backed(w, r)
  <2>1. ResponseBody(w, r) = ResponseBody(s, r) /\ Backed(s, r)
    BY <1>1, <1>9 DEF ResponseBody, AllBacked
  <2>2. PICK e \in s.effects :
          /\ e.request = r.request
          /\ \A f \in s.effects :
               f.request.key = e.request.key => f.revision <= e.revision
          /\ e.body.version <= ResponseBody(s, r).version
    BY <2>1 DEF Backed
  <2>3. \A f \in w.effects :
          f.request.key = e.request.key => f.revision <= e.revision
    BY <1>1, <1>2, <1>9, <2>2
  <2> QED
    BY <1>1, <2>1, <2>2, <2>3 DEF Backed
<1> QED
  BY <1>1, <1>5, <1>8, <1>9 DEF AllBacked, w

(***************************************************************************)
(* The operations, one by one.                                             *)
(***************************************************************************)
LEMMA MovedOutcome ==
  ASSUME GoodState, SoundLedger(mem), NEW o, GoodSnapshot(o.working),
         MovesOn(mem, o.working)
  PROVE  LedgerOutcome(o)
<1>1. AllBacked(o.working)
  BY BackedMovesOn DEF GoodState, SoundLedger
<1>2. mem.revision \in Nat /\ NextRevision = mem.revision + 1
  BY DEF GoodState, GoodSnapshot, Snapshot, NextRevision
<1>3. \A f \in mem.effects : f.revision \in Nat /\ f.revision <= mem.revision
  BY EffectNumbers DEF GoodState, SoundLedger, RevisionsUpTo
<1>4. RevisionsUpTo(o.working, NextRevision)
  BY <1>2, <1>3 DEF RevisionsUpTo, MovesOn
<1> QED
  BY <1>1, <1>4 DEF LedgerOutcome

LEMMA UnchangedLedger ==
  ASSUME GoodState, SoundLedger(mem)
  PROVE  /\ LedgerOutcome(Unchanged)
         /\ \A request : LedgerOutcome(ReplayOutcome(request))
<1>1. MovesOn(mem, mem)
  BY UnmovedMovesOn
<1>2. /\ Unchanged.working = mem
      /\ \A request : ReplayOutcome(request).working = mem
  BY DEF Unchanged, ReplayOutcome, Outcome
<1> QED
  BY <1>1, <1>2, MovedOutcome DEF GoodState

LEMMA ReconcileMovesOn ==
  ASSUME GoodState
  PROVE  MovesOn(mem, ReconcileDeadlines(mem))
<1> DEFINE t == ReconcileDeadlines(mem)
<1>1. /\ t.effects = mem.effects /\ t.ledger = mem.ledger
      /\ t.charges = ReconciledCharges(mem.charges)
      /\ DOMAIN t.charges = DOMAIN mem.charges
  BY DEF ReconcileDeadlines, ReconciledCharges, GoodState, GoodSnapshot,
     Snapshot
<1> HIDE DEF t
<1>2. ASSUME NEW c \in DOMAIN mem.charges
      PROVE  \/ t.charges[c] = mem.charges[c]
             \/ mem.charges[c].version < t.charges[c].version
  <2> DEFINE row == mem.charges[c]
  <2>1. row \in Row /\ row.version \in Nat
    BY RowVersion DEF GoodState
  <2>2. t.charges[c] = Reconciled(row, now)
    BY <1>1 DEF ReconciledCharges
  <2>3. "deadlineElapsed" \in Events /\ now \in Nat
    BY DEF Events, SystemEvents, GoodState, Instants
  <2> HIDE DEF row
  <2>4. After(row, "deadlineElapsed", now).version = row.version + 1
    BY <2>1, <2>3, AfterType
  <2> QED
    BY <2>1, <2>2, <2>4 DEF Reconciled, row
<1> QED
  BY <1>1, <1>2 DEF MovesOn, t

LEMMA ReconcileLedger ==
  ASSUME GoodState, SoundLedger(mem)
  PROVE  LedgerOutcome(ReconcileNowOutcome)
<1>1. ReconcileNowOutcome.working = ReconcileDeadlines(mem)
  BY DEF ReconcileNowOutcome, Outcome
<1> QED
  BY <1>1, ReconcileType, ReconcileMovesOn, MovedOutcome

LEMMA UpdateMovesOn ==
  ASSUME NEW s, GoodSnapshot(s), NEW c \in DOMAIN s.charges, NEW row \in Row,
         s.charges[c].version < row.version
  PROVE  MovesOn(s, [s EXCEPT !.charges[c] = row])
<1> DEFINE t == [s EXCEPT !.charges[c] = row]
<1>1. t.ledger = s.ledger /\ t.effects = s.effects
  BY DEF GoodSnapshot, Snapshot
<1>2. /\ t.charges = [s.charges EXCEPT ![c] = row]
      /\ DOMAIN t.charges = DOMAIN s.charges
  BY ChargeUpdateType
<1> HIDE DEF t
<1> QED
  BY <1>1, <1>2 DEF MovesOn, t

LEMMA CommandLedger ==
  ASSUME GoodState, SoundLedger(mem),
         NEW request \in Request, request.op \in StudentEvents,
         request.resource \in DOMAIN ReconcileDeadlines(mem).charges
  PROVE  LedgerOutcome(CommandSucceeds(request))
<1> DEFINE s       == ReconcileDeadlines(mem)
           c       == request.resource
           row     == After(s.charges[c], request.op, now)
           updated == [s EXCEPT !.charges[c] = row]
           w       == RecordSuccess(updated, request, TRUE, row)
<1>1. GoodSnapshot(s) /\ AllBacked(s)
  BY ReconcileType, ReconcileMovesOn, BackedMovesOn DEF GoodState, SoundLedger
<1>2. s.effects = mem.effects
  BY DEF ReconcileDeadlines, GoodState, GoodSnapshot, Snapshot
<1>3. CommandSucceeds(request).working = w
  BY DEF CommandSucceeds, Outcome
<1>4. c \in DOMAIN s.charges
  OBVIOUS
<1> HIDE DEF s
<1>5. row \in Row /\ s.charges[c].version < row.version
  <2>1. s.charges[c] \in Row /\ s.charges[c].version \in Nat
    BY <1>1, <1>4, RowVersion
  <2>2. request.op \in Events /\ now \in Nat
    BY DEF Events, GoodState, Instants
  <2>3. row \in Row /\ row.version = s.charges[c].version + 1
    BY <2>1, <2>2, AfterType
  <2> HIDE DEF row
  <2> QED
    BY <2>1, <2>3
<1> HIDE DEF row
<1>6. /\ GoodSnapshot(updated) /\ AllBacked(updated)
      /\ updated.charges = [s.charges EXCEPT ![c] = row]
      /\ updated.effects = s.effects
  <2>1. GoodSnapshot(updated) /\ MovesOn(s, updated)
    BY <1>1, <1>4, <1>5, ChargeUpdateType, UpdateMovesOn
  <2>2. updated.charges = [s.charges EXCEPT ![c] = row]
    BY <1>1, <1>4, <1>5, ChargeUpdateType
  <2> HIDE DEF updated
  <2>3. AllBacked(updated)
    BY <1>1, <2>1, BackedMovesOn
  <2> QED
    BY <2>1, <2>2, <2>3 DEF MovesOn
<1> HIDE DEF updated
<1>7. RevisionsUpTo(updated, mem.revision)
  BY <1>2, <1>6 DEF RevisionsUpTo, SoundLedger
<1>8. c \in DOMAIN updated.charges /\ row = updated.charges[c]
  BY <1>4, <1>6
<1>9. AllBacked(w) /\ RevisionsUpTo(w, NextRevision)
  BY <1>5, <1>6, <1>7, <1>8, RecordBacked
<1> HIDE DEF w
<1> QED
  BY <1>3, <1>9 DEF LedgerOutcome

LEMMA ChargeCommandLedger ==
  ASSUME GoodState, SoundLedger(mem),
         NEW request \in Request, request.op \in StudentEvents
  PROVE  LedgerOutcome(ChargeCommandOutcome(request))
<1>1. ReconcileDeadlines(mem).charges = ReconciledCharges(mem.charges)
  BY DEF ReconcileDeadlines, GoodState, GoodSnapshot, Snapshot
<1> QED
  BY <1>1, CommandLedger, UnchangedLedger, ReconcileLedger
  DEF ChargeCommandOutcome, FailAfterReconciliation

LEMMA CreateTaskLedger ==
  ASSUME GoodState, SoundLedger(mem), NEW request \in Request,
         request.op = "createTask", request.resource \in Tasks,
         NEW bookingExists
  PROVE  LedgerOutcome(CreateTaskOutcome(request, bookingExists))
<1> DEFINE added == [mem EXCEPT !.tasks = @ \cup {request.resource}]
           w     == RecordSuccess(added, request, FALSE, NoRow)
<1>1. /\ GoodSnapshot(added) /\ added.effects = mem.effects
      /\ added.ledger = mem.ledger /\ added.charges = mem.charges
  BY DEF GoodState, GoodSnapshot, Snapshot
<1>2. TaskCreated(request).working = w
  BY DEF TaskCreated, Outcome
<1> HIDE DEF added
<1>3. AllBacked(added) /\ RevisionsUpTo(added, mem.revision)
  BY <1>1, UnmovedMovesOn, BackedMovesOn
  DEF GoodState, SoundLedger, RevisionsUpTo
<1>4. AllBacked(w) /\ RevisionsUpTo(w, NextRevision)
  BY <1>1, <1>3, RecordBacked, NoRowType
<1> HIDE DEF w
<1>5. LedgerOutcome(TaskCreated(request))
  BY <1>2, <1>4 DEF LedgerOutcome
<1> QED
  BY <1>5, UnchangedLedger DEF CreateTaskOutcome

LEMMA MarkReadLedger ==
  ASSUME GoodState, SoundLedger(mem), NEW n \in Nat, NEW epoch
  PROVE  LedgerOutcome(MarkReadOutcome(n, epoch))
<1> DEFINE w == MarkReadOutcome(n, epoch).working
<1>1. GoodSnapshot(w)
  BY MarkReadType DEF GoodOutcome
<1>2. /\ w.effects = mem.effects /\ w.ledger = mem.ledger
      /\ w.charges = mem.charges
  BY DEF MarkReadOutcome, Unchanged, Outcome, GoodState, GoodSnapshot, Snapshot
<1> QED
  BY <1>1, <1>2, UnmovedMovesOn, MovedOutcome

LEMMA RaiseChargeLedger ==
  ASSUME GoodState, SoundLedger(mem), NEW c \in Nat, NEW d \in Deadlines,
         NEW bookingExists
  PROVE  LedgerOutcome(RaiseChargeOutcome(c, d, bookingExists))
<1> DEFINE w == RaiseChargeOutcome(c, d, bookingExists).working
<1>1. GoodSnapshot(w)
  BY RaiseChargeType DEF GoodOutcome
<1>2. /\ w.effects = mem.effects /\ w.ledger = mem.ledger
      /\ \/ w.charges = mem.charges
         \/ w.charges = Append(mem.charges, NewRow(d))
  BY DEF RaiseChargeOutcome, Notified, Unchanged, Outcome, GoodState,
     GoodSnapshot, Snapshot
<1> HIDE DEF w
<1>3. MovesOn(mem, w)
  <2>1. mem.charges \in Seq(Row) /\ NewRow(d) \in Row
    BY NewRowType, SeedAssumption DEF GoodState, GoodSnapshot, Snapshot
  <2>2. LET longer == Append(mem.charges, NewRow(d))
        IN  /\ DOMAIN mem.charges \subseteq DOMAIN longer
            /\ \A i \in DOMAIN mem.charges : longer[i] = mem.charges[i]
    BY <2>1, AppendProperties, LenProperties
  <2> QED
    BY <1>2, <2>2 DEF MovesOn
<1> QED
  BY <1>1, <1>3, MovedOutcome DEF w

LEMMA ResolveChargeLedger ==
  ASSUME GoodState, SoundLedger(mem), NEW c \in Nat,
         NEW event \in OperatorEvents
  PROVE  LedgerOutcome(ResolveChargeOutcome(c, event))
<1> DEFINE w       == ResolveChargeOutcome(c, event).working
           row     == After(mem.charges[c], event, now)
           decided == [mem EXCEPT !.charges[c] = row]
<1>1. GoodSnapshot(w)
  BY ResolveChargeType DEF GoodOutcome
<1>2. CASE w = mem
  BY <1>1, <1>2, UnmovedMovesOn, MovedOutcome
<1>3. CASE w # mem
  <2>1. w = Notified(decided, c) /\ c \in DOMAIN mem.charges
    BY <1>3 DEF ResolveChargeOutcome, Unchanged, Outcome
  <2>2. row \in Row /\ mem.charges[c].version < row.version
    <3>1. mem.charges[c] \in Row /\ mem.charges[c].version \in Nat
      BY <2>1, RowVersion DEF GoodState
    <3>2. event \in Events /\ now \in Nat
      BY DEF Events, GoodState, Instants
    <3>3. row \in Row /\ row.version = mem.charges[c].version + 1
      BY <3>1, <3>2, AfterType
    <3> HIDE DEF row
    <3> QED
      BY <3>1, <3>3
  <2> HIDE DEF row, w
  <2>3. MovesOn(mem, decided) /\ GoodSnapshot(decided)
    BY <2>1, <2>2, UpdateMovesOn, ChargeUpdateType DEF GoodState
  <2> HIDE DEF decided
  <2>4. /\ w.ledger = decided.ledger /\ w.effects = decided.effects
        /\ w.charges = decided.charges
    BY <2>1, <2>3 DEF Notified, GoodSnapshot, Snapshot
  <2>5. MovesOn(mem, w)
    BY <2>3, <2>4 DEF MovesOn
  <2> QED
    BY <1>1, <2>5, MovedOutcome DEF w
<1> QED
  BY <1>2, <1>3

(***************************************************************************)
(* Numbering the revision leaves every body alone; writing the bodies out  *)
(* gives each record the very row it shared.                               *)
(***************************************************************************)
LEMMA EncodedBacked ==
  ASSUME NEW s, GoodSnapshot(s), SoundLedger(s)
  PROVE  SoundLedger(Encoded(s))
<1> DEFINE t        == Encoded(s)
           plain(r) == [request |-> r.request, shared |-> FALSE,
                        body    |-> ResponseBody(s, r)]
<1>1. /\ t.effects = s.effects /\ t.charges = s.charges
      /\ t.revision = s.revision
      /\ t.ledger = {plain(r) : r \in s.ledger}
  BY DEF Encoded, GoodSnapshot, Snapshot
<1> HIDE DEF t
<1>2. ASSUME NEW r \in s.ledger
      PROVE  Backed(t, plain(r))
  <2>1. /\ ResponseBody(t, plain(r)) = ResponseBody(s, r)
        /\ plain(r).request = r.request
    BY DEF ResponseBody
  <2>2. Backed(s, r)
    BY DEF SoundLedger, AllBacked
  <2> HIDE DEF plain
  <2> QED
    BY <1>1, <2>1, <2>2 DEF Backed
<1> HIDE DEF plain
<1>3. AllBacked(t)
  BY <1>1, <1>2 DEF AllBacked
<1> QED
  BY <1>1, <1>3 DEF SoundLedger, RevisionsUpTo, t

LEMMA CommitLedger ==
  ASSUME GoodState, SoundLedger(mem), SoundLedger(disk),
         NEW o, GoodOutcome(o), LedgerOutcome(o), Commit(o)
  PROVE  SoundLedger(mem)' /\ SoundLedger(disk)'
<1> DEFINE w == Working(o)
<1>1. /\ w.effects = o.working.effects /\ w.ledger = o.working.ledger
      /\ w.charges = o.working.charges /\ w.revision = NextRevision
  BY DEF Working, GoodOutcome, GoodSnapshot, Snapshot
<1>2. GoodSnapshot(w)
  BY WorkingType
<1>3. mem' \in {mem, w} /\ disk' \in {disk, Encoded(w)}
  BY DEF Commit, CommitDone, CommitFailed, CommitUnsynced, Answer
<1> HIDE DEF w
<1>4. SoundLedger(w)
  <2>1. MovesOn(o.working, w)
    BY <1>1, UnmovedMovesOn
  <2>2. AllBacked(w)
    BY <1>2, <2>1, BackedMovesOn DEF GoodOutcome, LedgerOutcome
  <2> QED
    BY <1>1, <2>2 DEF SoundLedger, LedgerOutcome, RevisionsUpTo
<1>5. SoundLedger(Encoded(w))
  BY <1>2, <1>4, EncodedBacked
<1> QED
  BY <1>3, <1>4, <1>5
  DEF SoundLedger, AllBacked, Backed, RevisionsUpTo, ResponseBody

LEMMA StudentLedger ==
  ASSUME GoodState, SoundLedger(mem), SoundLedger(disk),
         NEW event \in StudentEvents, ApplyChargeCommand(event)
  PROVE  SoundLedger(mem)' /\ SoundLedger(disk)'
<1>1. PICK k \in Keys, c \in ChargeIds, e \in EpochsSeen,
           v \in 1 .. MaxVersion :
        Commit(ChargeCommandOutcome([key |-> k, op |-> event, resource |-> c,
                                     epoch |-> e, version |-> v]))
  BY DEF ApplyChargeCommand
<1> DEFINE request == [key |-> k, op |-> event, resource |-> c,
                       epoch |-> e, version |-> v]
<1>2. request \in Request /\ request.op \in StudentEvents
  BY BoundAssumption DEF Request, ChargeIds, EpochsSeen, GoodState
<1> HIDE DEF request
<1>3. /\ GoodOutcome(ChargeCommandOutcome(request))
      /\ LedgerOutcome(ChargeCommandOutcome(request))
  BY <1>2, ChargeCommandType, ChargeCommandLedger
<1> QED
  BY <1>1, <1>3, CommitLedger DEF request

LEMMA StepLedger ==
  ASSUME GoodState, SoundLedger(mem), SoundLedger(disk), [Next]_vars
  PROVE  SoundLedger(mem)' /\ SoundLedger(disk)'
<1>1. CASE AcceptCharge
  BY <1>1, StudentLedger DEF AcceptCharge, StudentEvents
<1>2. CASE ContestCharge
  BY <1>2, StudentLedger DEF ContestCharge, StudentEvents
<1>3. CASE PayCharge
  BY <1>3, StudentLedger DEF PayCharge, StudentEvents
<1>4. CASE CreateTask
  <2>1. PICK k \in Keys, t \in Tasks, e \in EpochsSeen, b \in BOOLEAN :
          Commit(CreateTaskOutcome([key |-> k, op |-> "createTask",
                                    resource |-> t, epoch |-> e,
                                    version |-> 0], b))
    BY <1>4 DEF CreateTask
  <2> DEFINE request == [key |-> k, op |-> "createTask", resource |-> t,
                         epoch |-> e, version |-> 0]
  <2>2. /\ request \in Request /\ request.resource \in Tasks
        /\ request.op = "createTask"
    BY DEF Request, EpochsSeen, GoodState
  <2> HIDE DEF request
  <2>3. /\ GoodOutcome(CreateTaskOutcome(request, b))
        /\ LedgerOutcome(CreateTaskOutcome(request, b))
    BY <2>2, CreateTaskType, CreateTaskLedger
  <2> QED
    BY <2>1, <2>3, CommitLedger DEF request
<1>5. CASE MarkNotificationRead
  <2>1. PICK n \in DOMAIN mem.notifications, e \in EpochsSeen :
          Commit(MarkReadOutcome(n, e))
    BY <1>5 DEF MarkNotificationRead
  <2>2. n \in Nat
    BY LenProperties DEF GoodState, GoodSnapshot, Snapshot
  <2> QED
    BY <2>1, <2>2, MarkReadType, MarkReadLedger, CommitLedger
<1>6. CASE DevRaiseCharge
  <2>1. PICK c \in ChargeIds, d \in Deadlines, b \in BOOLEAN :
          Commit(RaiseChargeOutcome(c, d, b))
    BY <1>6 DEF DevRaiseCharge
  <2>2. c \in Nat
    BY BoundAssumption DEF ChargeIds
  <2> QED
    BY <2>1, <2>2, RaiseChargeType, RaiseChargeLedger, CommitLedger
<1>7. CASE DevResolveCharge
  <2>1. PICK c \in ChargeIds, event \in OperatorEvents :
          Commit(ResolveChargeOutcome(c, event))
    BY <1>7 DEF DevResolveCharge
  <2>2. c \in Nat
    BY BoundAssumption DEF ChargeIds
  <2> QED
    BY <2>1, <2>2, ResolveChargeType, ResolveChargeLedger, CommitLedger
<1>8. CASE ReconcileNow
  BY <1>8, ReconcileType, ReconcileLedger, CommitLedger DEF ReconcileNow
<1>9. CASE Reset
  <2> DEFINE s == SeedSnapshot(epochsIssued + 1)
  <2>1. SoundLedger(s)
    BY DEF SeedSnapshot, SoundLedger, AllBacked, RevisionsUpTo
  <2>2. mem' \in {mem, s} /\ disk' \in {disk, s}
    BY <1>9 DEF Reset
  <2> HIDE DEF s
  <2> QED
    BY <2>1, <2>2
    DEF SoundLedger, AllBacked, Backed, RevisionsUpTo, ResponseBody
<1>10. CASE Restart \/ Tick \/ UNCHANGED vars
  <2>1. mem' \in {mem, disk} /\ disk' = disk
    BY <1>10 DEF Restart, Tick, vars
  <2> QED
    BY <2>1 DEF SoundLedger, AllBacked, Backed, RevisionsUpTo, ResponseBody
<1> QED
  BY <1>1, <1>2, <1>3, <1>4, <1>5, <1>6, <1>7, <1>8, <1>9, <1>10 DEF Next

(***************************************************************************)
(* A replay is answered with a row its charge really had: the key's record *)
(* is the last request committed under it, and the recorded body, shared   *)
(* or written out, is never older than that commit, never newer than the   *)
(* row, and the row itself when their versions agree.                      *)
(***************************************************************************)
THEOREM RecordsAreBacked == Spec => []LedgerHoldsCommittedRows
<1> DEFINE Inv == GoodState /\ SoundLedger(mem) /\ SoundLedger(disk)
<1>1. Init => Inv
  <2>1. SoundLedger(SeedSnapshot(1))
    BY DEF SeedSnapshot, SoundLedger, AllBacked, RevisionsUpTo
  <2> QED
    BY <2>1, InitType DEF Init
<1>2. Inv /\ [Next]_vars => Inv'
  BY StepType, StepLedger
<1>3. Inv => LedgerHoldsCommittedRows
  BY DEF SoundLedger, AllBacked, Backed, LedgerHoldsCommittedRows
<1> HIDE DEF Inv
<1> QED
  BY <1>1, <1>2, <1>3, PTL DEF Spec

-----------------------------------------------------------------------------
(***************************************************************************)
(* What the feed says of a charge.  The retained events name a window of   *)
(* its versions, in order, that reaches up to the present one; the drafts  *)
(* of a commit name exactly the versions the commit makes; and so does the *)
(* ring, from the seed on, as long as it has evicted nothing.  (Below, q   *)
(* is a sequence of events or of drafts.)                                  *)
(***************************************************************************)
Names(q, i, c) == q[i].entity = [kind |-> "charge", id |-> c]

InOrder(q, c) ==
  \A i, j \in 1 .. Len(q) :
    Names(q, i, c) /\ Names(q, j, c) /\ i < j => q[i].version < q[j].version

Says(q, c, v) == \E i \in 1 .. Len(q) : Names(q, i, c) /\ q[i].version = v

(* Versions after lo, without a gap up to hi. *)
Window(q, c, lo, hi) ==
  /\ InOrder(q, c)
  /\ \A v \in Nat : Says(q, c, v) =>
       /\ lo < v /\ v <= hi
       /\ \A w \in v .. hi : Says(q, c, w)

(* All of them. *)
Chain(q, c, lo, hi) ==
  /\ InOrder(q, c)
  /\ \A v \in Nat : Says(q, c, v) <=> lo < v /\ v <= hi

VersionOf(s, c) == IF c \in DOMAIN s.charges THEN s.charges[c].version ELSE 0

Tracked(s) ==
  /\ \A i \in 1 .. Len(s.ring.events) : s.ring.events[i].id[3] # 0
  /\ \A c \in Nat :
       /\ VersionBefore(c) <= VersionOf(s, c)
       /\ Window(s.ring.events, c, VersionBefore(c), VersionOf(s, c))
  /\ s.ring.evictedThrough = BaselineCursor(s.epoch) =>
       \A c \in Nat : Chain(s.ring.events, c, VersionBefore(c), VersionOf(s, c))

(* What a mutator hands to the store announces what it changes. *)
Announces(o) ==
  o.persist =>
    \A c \in Nat :
      /\ VersionOf(mem, c) <= VersionOf(o.working, c)
      /\ Chain(o.drafts, c, VersionOf(mem, c), VersionOf(o.working, c))

(* Sequences whose elements have a version. *)
Versioned(q) == \A i \in 1 .. Len(q) : q[i].version \in Nat

LEMMA EventsVersioned ==
  /\ \A q \in Seq(Event) : Len(q) \in Nat /\ Versioned(q)
  /\ \A q \in Seq(Draft) : Len(q) \in Nat /\ Versioned(q)
<1>1. ASSUME NEW q \in Seq(Event) PROVE Len(q) \in Nat /\ Versioned(q)
  <2>1. \A i \in 1 .. Len(q) : q[i] \in Event
    BY ElementOfSeq
  <2> QED
    BY <2>1, LenProperties DEF Versioned, Event
<1>2. ASSUME NEW q \in Seq(Draft) PROVE Len(q) \in Nat /\ Versioned(q)
  <2>1. \A i \in 1 .. Len(q) : q[i] \in Draft
    BY ElementOfSeq
  <2> QED
    BY <2>1, LenProperties DEF Versioned, Draft
<1> QED
  BY <1>1, <1>2

(* t is p followed by q, as far as positions go. *)
Follows(t, p, q) ==
  /\ Len(p) \in Nat /\ Len(q) \in Nat /\ Len(t) = Len(p) + Len(q)
  /\ \A i \in 1 .. Len(p) : t[i] = p[i]
  /\ \A i \in 1 .. Len(q) : t[Len(p) + i].entity = q[i].entity
                            /\ t[Len(p) + i].version = q[i].version

LEMMA SaysEither ==
  ASSUME NEW t, NEW p, NEW q, Follows(t, p, q), NEW c, NEW v
  PROVE  Says(t, c, v) <=> Says(p, c, v) \/ Says(q, c, v)
<1>1. ASSUME NEW i \in 1 .. Len(t)
      PROVE  i \in 1 .. Len(p) \/ \E j \in 1 .. Len(q) : i = Len(p) + j
  <2>1. i \in 1 .. Len(p) \/ (i - Len(p) \in 1 .. Len(q) /\ i = Len(p) + (i - Len(p)))
    BY DEF Follows
  <2> QED
    BY <2>1
<1>2. /\ \A i \in 1 .. Len(p) : i \in 1 .. Len(t)
      /\ \A j \in 1 .. Len(q) : Len(p) + j \in 1 .. Len(t)
  BY DEF Follows
<1>3. /\ \A i \in 1 .. Len(p) : t[i] = p[i]
      /\ \A j \in 1 .. Len(q) : t[Len(p) + j].entity = q[j].entity
                               /\ t[Len(p) + j].version = q[j].version
  BY DEF Follows
<1>4. ASSUME Says(t, c, v) PROVE Says(p, c, v) \/ Says(q, c, v)
  <2>1. PICK i \in 1 .. Len(t) : Names(t, i, c) /\ t[i].version = v
    BY <1>4 DEF Says
  <2>2. CASE i \in 1 .. Len(p)
    BY <1>3, <2>1, <2>2 DEF Says, Names
  <2>3. CASE \E j \in 1 .. Len(q) : i = Len(p) + j
    BY <1>3, <2>1, <2>3 DEF Says, Names
  <2> QED
    BY <1>1, <2>2, <2>3
<1>5. ASSUME Says(p, c, v) PROVE Says(t, c, v)
  BY <1>2, <1>3, <1>5 DEF Says, Names
<1>6. ASSUME Says(q, c, v) PROVE Says(t, c, v)
  <2>1. PICK j \in 1 .. Len(q) : Names(q, j, c) /\ q[j].version = v
    BY <1>6 DEF Says
  <2> DEFINE i == Len(p) + j
  <2>2. i \in 1 .. Len(t) /\ t[i].entity = q[j].entity /\ t[i].version = q[j].version
    BY <1>2, <1>3
  <2> HIDE DEF i
  <2> QED
    BY <2>1, <2>2 DEF Says, Names
<1> QED
  BY <1>4, <1>5, <1>6

LEMMA OrderFollows ==
  ASSUME NEW t, NEW p, NEW q, Follows(t, p, q), NEW c, NEW mid \in Nat,
         Versioned(p), Versioned(q), InOrder(p, c), InOrder(q, c),
         \A v \in Nat : Says(p, c, v) => v <= mid,
         \A v \in Nat : Says(q, c, v) => mid < v
  PROVE  InOrder(t, c)
<1> SUFFICES ASSUME NEW i \in 1 .. Len(t), NEW j \in 1 .. Len(t),
                    Names(t, i, c), Names(t, j, c), i < j
             PROVE  t[i].version < t[j].version
  BY DEF InOrder
<1>0. Len(p) \in Nat /\ Len(q) \in Nat /\ Len(t) = Len(p) + Len(q)
  BY DEF Follows
<1>1. CASE j \in 1 .. Len(p)
  <2>1. i \in 1 .. Len(p)
    BY <1>0, <1>1
  <2> QED
    BY <1>1, <2>1 DEF Follows, InOrder, Names
<1>2. CASE i \in 1 .. Len(p) /\ j \notin 1 .. Len(p)
  <2> DEFINE k == j - Len(p)
  <2>1. k \in 1 .. Len(q) /\ j = Len(p) + k
    BY <1>0, <1>2
  <2> HIDE DEF k
  <2>2. /\ t[i] = p[i] /\ t[j].entity = q[k].entity /\ t[j].version = q[k].version
    BY <1>2, <2>1 DEF Follows
  <2>3. Names(p, i, c) /\ Names(q, k, c) /\ p[i].version \in Nat /\ q[k].version \in Nat
    BY <1>2, <2>1, <2>2 DEF Names, Versioned
  <2>4. p[i].version <= mid /\ mid < q[k].version
    BY <1>2, <2>1, <2>3 DEF Says
  <2> QED
    BY <2>2, <2>3, <2>4
<1>3. CASE i \notin 1 .. Len(p) /\ j \notin 1 .. Len(p)
  <2> DEFINE k == i - Len(p)
             l == j - Len(p)
  <2>1. /\ k \in 1 .. Len(q) /\ i = Len(p) + k
        /\ l \in 1 .. Len(q) /\ j = Len(p) + l /\ k < l
    BY <1>0, <1>3
  <2> HIDE DEF k, l
  <2>2. /\ t[i].entity = q[k].entity /\ t[i].version = q[k].version
        /\ t[j].entity = q[l].entity /\ t[j].version = q[l].version
    BY <2>1 DEF Follows
  <2> QED
    BY <2>1, <2>2 DEF InOrder, Names
<1> QED
  BY <1>1, <1>2, <1>3, <1>0

LEMMA WindowGrows ==
  ASSUME NEW t, NEW p, NEW q, Follows(t, p, q), Versioned(p), Versioned(q), NEW c,
         NEW lo \in Nat, NEW mid \in Nat, NEW hi \in Nat, lo <= mid, mid <= hi,
         Window(p, c, lo, mid), Chain(q, c, mid, hi)
  PROVE  Window(t, c, lo, hi)
<1>1. InOrder(t, c)
  BY OrderFollows DEF Window, Chain
<1>2. \A v \in Nat : Says(t, c, v) <=> Says(p, c, v) \/ Says(q, c, v)
  BY SaysEither
<1>3. \A v \in Nat : Says(q, c, v) <=> mid < v /\ v <= hi
  BY DEF Chain
<1>4. \A v \in Nat : Says(p, c, v) =>
        lo < v /\ v <= mid /\ \A w \in v .. mid : Says(p, c, w)
  BY DEF Window
<1>5. ASSUME NEW v \in Nat, Says(t, c, v), NEW w \in v .. hi
      PROVE  lo < v /\ v <= hi /\ Says(t, c, w)
  <2>1. w \in Nat
    BY <1>5
  <2>2. CASE w <= mid
    BY <1>2, <1>3, <1>4, <1>5, <2>1, <2>2
  <2>3. CASE mid < w
    BY <1>2, <1>3, <1>4, <1>5, <2>1, <2>3
  <2> QED
    BY <2>1, <2>2, <2>3
<1>6. ASSUME NEW v \in Nat, Says(t, c, v)
      PROVE  lo < v /\ v <= hi
  BY <1>2, <1>3, <1>4, <1>6
<1> QED
  BY <1>1, <1>5, <1>6 DEF Window

LEMMA ChainGrows ==
  ASSUME NEW t, NEW p, NEW q, Follows(t, p, q), Versioned(p), Versioned(q), NEW c,
         NEW lo \in Nat, NEW mid \in Nat, NEW hi \in Nat, lo <= mid, mid <= hi,
         Chain(p, c, lo, mid), Chain(q, c, mid, hi)
  PROVE  Chain(t, c, lo, hi)
<1>1. InOrder(t, c)
  BY OrderFollows DEF Chain
<1>2. \A v \in Nat : Says(t, c, v) <=> Says(p, c, v) \/ Says(q, c, v)
  BY SaysEither
<1> QED
  BY <1>1, <1>2 DEF Chain

(* What is left of a window when its oldest events are evicted. *)
LEMMA WindowShrinks ==
  ASSUME NEW t, NEW q, NEW k \in Nat, Len(q) \in Nat, Len(t) = Len(q) - k, k <= Len(q),
         \A i \in 1 .. Len(t) : t[i] = q[k + i],
         Versioned(q), NEW c, NEW lo \in Nat, NEW hi \in Nat, Window(q, c, lo, hi)
  PROVE  Window(t, c, lo, hi)
<1>1. \A i \in 1 .. Len(t) : k + i \in 1 .. Len(q)
  OBVIOUS
<1>2. InOrder(t, c)
  BY <1>1 DEF Window, InOrder, Names
<1>3. \A v : Says(t, c, v) => Says(q, c, v)
  BY <1>1 DEF Says, Names
<1>4. ASSUME NEW v \in Nat, Says(t, c, v), NEW w \in v .. hi
      PROVE  Says(t, c, w)
  <2>1. PICK i \in 1 .. Len(t) : Names(t, i, c) /\ t[i].version = v
    BY <1>4 DEF Says
  <2>2. Says(q, c, w)
    BY <1>3, <1>4 DEF Window
  <2>3. PICK j \in 1 .. Len(q) : Names(q, j, c) /\ q[j].version = w
    BY <2>2 DEF Says
  <2>4. Names(q, k + i, c) /\ q[k + i].version = v /\ k + i \in 1 .. Len(q)
    BY <1>1, <2>1 DEF Names
  <2>5. ~ (j < k + i)
    <3>1. ASSUME j < k + i PROVE w < v
      BY <2>3, <2>4, <3>1 DEF Window, InOrder
    <3> QED
      BY <1>4, <3>1
  <2>6. j - k \in 1 .. Len(t) /\ k + (j - k) = j
    BY <2>1, <2>5
  <2>7. t[j - k] = q[j]
    BY <2>6
  <2> QED
    BY <2>3, <2>6, <2>7 DEF Says, Names
<1>5. \A v \in Nat : Says(t, c, v) => lo < v /\ v <= hi
  BY <1>3 DEF Window
<1> QED
  BY <1>2, <1>4, <1>5 DEF Window

(* All of the versions are a window of them. *)
LEMMA ChainIsWindow ==
  ASSUME NEW q, NEW c, NEW lo \in Nat, NEW hi \in Nat, Chain(q, c, lo, hi)
  PROVE  Window(q, c, lo, hi)
BY DEF Chain, Window

-----------------------------------------------------------------------------
(* Drafts. *)

LEMMA ChainEmpty ==
  ASSUME NEW c, NEW v \in Nat
  PROVE  Chain(<< >>, c, v, v)
<1>1. Len(<< >>) = 0
  BY EmptySeq
<1> QED
  BY <1>1 DEF Chain, InOrder, Says

LEMMA AppendFollows ==
  ASSUME NEW q \in Seq(Draft), NEW d \in Draft
  PROVE  /\ Append(q, d) \in Seq(Draft)
         /\ Follows(Append(q, d), q, <<d>>)
         /\ <<d>> \in Seq(Draft)
<1>1. Len(<<d>>) = 1 /\ <<d>>[1] = d /\ <<d>> \in Seq(Draft)
  OBVIOUS
<1>2. Len(q) \in Nat
  BY LenProperties
<1> DEFINE t == Append(q, d)
<1>3. /\ t \in Seq(Draft) /\ Len(t) = Len(q) + 1
      /\ \A i \in 1 .. Len(q) : t[i] = q[i]
      /\ t[Len(q) + 1] = d
  BY AppendProperties
<1> HIDE DEF t
<1>4. Follows(t, q, <<d>>)
  BY <1>1, <1>2, <1>3 DEF Follows
<1> QED
  BY <1>1, <1>3, <1>4 DEF t

LEMMA ChainOfOne ==
  ASSUME NEW d \in Draft, NEW c, NEW lo \in Nat
  PROVE  /\ d.entity # [kind |-> "charge", id |-> c] => Chain(<<d>>, c, lo, lo)
         /\ d.entity = [kind |-> "charge", id |-> c] /\ d.version = lo + 1
              => Chain(<<d>>, c, lo, lo + 1)
<1>1. Len(<<d>>) = 1 /\ <<d>>[1] = d
  OBVIOUS
<1> DEFINE q == <<d>>
<1> HIDE DEF q
<1>2. InOrder(q, c)
  BY <1>1 DEF InOrder, q
<1>3. \A v : Says(q, c, v) <=> d.entity = [kind |-> "charge", id |-> c] /\ d.version = v
  BY <1>1 DEF Says, Names, q
<1>4. \A v \in Nat : (lo < v /\ v <= lo + 1) <=> v = lo + 1
  OBVIOUS
<1> QED
  BY <1>2, <1>3, <1>4 DEF Chain, q

LEMMA ChainNext ==
  ASSUME NEW q \in Seq(Draft), NEW d \in Draft, NEW c,
         NEW lo \in Nat, NEW mid \in Nat, lo <= mid, Chain(q, c, lo, mid)
  PROVE  /\ d.entity # [kind |-> "charge", id |-> c] => Chain(Append(q, d), c, lo, mid)
         /\ d.entity = [kind |-> "charge", id |-> c] /\ d.version = mid + 1
              => Chain(Append(q, d), c, lo, mid + 1)
<1>1. /\ Follows(Append(q, d), q, <<d>>) /\ <<d>> \in Seq(Draft)
      /\ Versioned(q) /\ Versioned(<<d>>)
  BY AppendFollows, EventsVersioned
<1> DEFINE t == Append(q, d)
           p == <<d>>
<1>2. /\ d.entity # [kind |-> "charge", id |-> c] => Chain(p, c, mid, mid)
      /\ d.entity = [kind |-> "charge", id |-> c] /\ d.version = mid + 1
              => Chain(p, c, mid, mid + 1)
  BY ChainOfOne
<1>3. Follows(t, q, p) /\ Versioned(p)
  BY <1>1
<1> HIDE DEF t, p
<1>4. mid + 1 \in Nat /\ mid <= mid /\ mid <= mid + 1
  OBVIOUS
<1>5. Chain(p, c, mid, mid) => Chain(t, c, lo, mid)
  BY <1>1, <1>3, <1>4, ChainGrows
<1>6. Chain(p, c, mid, mid + 1) => Chain(t, c, lo, mid + 1)
  BY <1>1, <1>3, <1>4, ChainGrows
<1> QED
  BY <1>2, <1>5, <1>6 DEF t

(* Every overdue charge is listed once. *)
LEMMA InListOrderListsAll ==
  ASSUME NEW n \in Nat, NEW S \in SUBSET (1 .. n)
  PROVE  /\ \A c \in S : \E i \in 1 .. Cardinality(S) : InListOrder(S)[i] = c
         /\ \A i, j \in 1 .. Cardinality(S) :
              InListOrder(S)[i] = InListOrder(S)[j] => i = j
<1> DEFINE k == Cardinality(S)
           f == InListOrder(S)
<1>1. k \in Nat /\ IsFiniteSet(S)
  BY PositionsFinite
<1>2. f \in [1 .. k -> S] /\ \A i, j \in 1 .. k : i < j => f[i] < f[j]
  <2>1. PICK s \in Enumerations(S) : TRUE
    BY PositionsEnumerable
  <2>2. /\ s \in [1 .. Cardinality(S) -> S] /\ DOMAIN s = 1 .. Cardinality(S)
        /\ \A i, j \in DOMAIN s : i < j => s[i] < s[j]
    BY <2>1 DEF Enumerations, Ascending
  <2>3. /\ f \in [1 .. Cardinality(S) -> S]
        /\ \A i, j \in DOMAIN f : i < j => f[i] < f[j]
    BY <2>2 DEF InListOrder
  <2> QED
    BY <2>3
<1>3. Cardinality(1 .. k) = Cardinality(S)
  <2> HIDE DEF k
  <2>1. Cardinality(1 .. k) = IF 1 > k THEN 0 ELSE k - 1 + 1
    BY <1>1, FS_Interval
  <2>2. Cardinality(1 .. k) = k
    BY <1>1, <2>1
  <2> QED
    BY <2>2 DEF k
<1> HIDE DEF f, k
<1>4. ASSUME NEW i \in 1 .. k, NEW j \in 1 .. k, f[i] = f[j]
      PROVE  i = j
  <2>1. f[i] \in S /\ f[j] \in S
    BY <1>2
  <2>2. \A x \in S : x \in Nat
    OBVIOUS
  <2>3. f[i] \in Nat /\ f[j] \in Nat
    BY <2>1, <2>2
  <2> QED
    BY <1>1, <1>2, <1>4, <2>3
<1>5. f \in Injection(1 .. k, S)
  BY <1>2, <1>4 DEF Injection, IsInjective
<1>6. f \in Surjection(1 .. k, S)
  BY <1>1, <1>3, <1>5, FS_Injection
<1> QED
  BY <1>4, <1>6 DEF Surjection, f, k

LEMMA SameLength ==
  ASSUME NEW m \in Nat, NEW n \in Nat, 1 .. m = 1 .. n
  PROVE  m = n
<1>1. \A i \in Nat : (1 <= i /\ i <= m) <=> (1 <= i /\ i <= n)
  <2> TAKE i \in Nat
  <2>1. i \in 1 .. m <=> i \in 1 .. n
    OBVIOUS
  <2> QED
    BY <2>1
<1> QED
  BY <1>1

(* A deadline pass announces each acceptance it makes, and nothing else. *)
LEMMA ReconciliationAnnounces ==
  ASSUME NEW charges \in Seq(Row), now \in Instants, NEW c \in Nat
  PROVE  LET before == IF c \in DOMAIN charges THEN charges[c].version ELSE 0
             after  == IF c \in DOMAIN charges
                       THEN ReconciledCharges(charges)[c].version ELSE 0
         IN  /\ before \in Nat /\ after \in Nat /\ before <= after
             /\ Chain(ReconciliationDrafts(charges), c, before, after)
<1> DEFINE S == OverdueIn(charges)
           k == Cardinality(S)
           due == InListOrder(S)
           q == ReconciliationDrafts(charges)
           before == IF c \in DOMAIN charges THEN charges[c].version ELSE 0
           after  == IF c \in DOMAIN charges
                     THEN ReconciledCharges(charges)[c].version ELSE 0
<1>1. Len(charges) \in Nat /\ S \in SUBSET (1 .. Len(charges)) /\ S \subseteq DOMAIN charges
  BY LenProperties DEF OverdueIn
<1>2. k \in Nat /\ due \in [1 .. k -> S]
  BY <1>1, InListOrderType
<1>3. /\ \A s \in S : \E i \in 1 .. k : due[i] = s
      /\ \A i, j \in 1 .. k : due[i] = due[j] => i = j
  BY <1>1, InListOrderListsAll
<1>4. q = [i \in 1 .. k |-> ChargeEvent(due[i], charges[due[i]].version + 1)]
  BY DEF ReconciliationDrafts
<1>5. Len(q) = k
  <2>1. q \in Seq(Draft)
    BY ReconciliationDraftsType
  <2>2. DOMAIN q = 1 .. Len(q) /\ Len(q) \in Nat
    BY <2>1, LenProperties
  <2>3. DOMAIN q = 1 .. k
    BY DEF ReconciliationDrafts
  <2> HIDE DEF q, k, due
  <2> QED
    BY <1>2, <2>2, <2>3, SameLength
<1>6. c \in S <=> c \in DOMAIN charges /\ Overdue(charges[c], now)
  <2>1. S = {i \in DOMAIN charges : Overdue(charges[i], now)}
    BY DEF OverdueIn
  <2> HIDE DEF S
  <2> QED
    BY <2>1
<1>7. c \in DOMAIN charges => charges[c] \in Row /\ charges[c].version \in Nat
  <2>1. DOMAIN charges = 1 .. Len(charges)
    BY LenProperties
  <2>2. c \in DOMAIN charges => charges[c] \in Row
    BY <2>1, ElementOfSeq
  <2> QED
    BY <2>2 DEF Row
<1>8. c \in DOMAIN charges => ReconciledCharges(charges)[c] = Reconciled(charges[c], now)
  BY DEF ReconciledCharges
<1> HIDE DEF S, k, due, q
<1>9. before \in Nat /\ after = IF c \in S THEN before + 1 ELSE before
  <2>1. CASE c \in S
    <3>1. after = After(charges[c], "deadlineElapsed", now).version
      BY <1>6, <1>8, <2>1 DEF Reconciled
    <3>2. "deadlineElapsed" \in Events /\ now \in Nat
      BY DEF Events, SystemEvents, Instants
    <3> QED
      BY <1>6, <1>7, <2>1, <3>1, <3>2, AfterType
  <2>2. CASE c \notin S
    BY <1>6, <1>7, <1>8, <2>2 DEF Reconciled
  <2> QED
    BY <2>1, <2>2
<1>10. \A i \in 1 .. k : (Names(q, i, c) <=> due[i] = c)
                          /\ q[i].version = charges[due[i]].version + 1
  BY <1>4 DEF Names, ChargeEvent
<1>11. InOrder(q, c)
  BY <1>2, <1>3, <1>5, <1>10 DEF InOrder
<1> HIDE DEF after
<1>12. CASE c \in S
  <2>1. before = charges[c].version
    BY <1>1, <1>12
  <2>2. \A v : Says(q, c, v) <=> v = before + 1
    BY <1>3, <1>5, <1>10, <1>12, <2>1 DEF Says
  <2> HIDE DEF before
  <2>3. \A v \in Nat : (before < v /\ v <= before + 1) <=> v = before + 1
    BY <1>9
  <2> QED
    BY <1>9, <1>11, <1>12, <2>2, <2>3 DEF Chain, after, before, q
<1>13. CASE c \notin S
  <2>1. \A v : ~ Says(q, c, v)
    BY <1>2, <1>5, <1>10, <1>13 DEF Says
  <2> HIDE DEF before
  <2>2. \A v \in Nat : ~ (before < v /\ v <= before)
    BY <1>9
  <2> QED
    BY <1>9, <1>11, <1>13, <2>1, <2>2 DEF Chain, after, before, q
<1> QED
  BY <1>12, <1>13

-----------------------------------------------------------------------------
(* Every operation announces what it changes. *)

LEMMA VersionsAreNat ==
  /\ \A s : GoodSnapshot(s) => \A c : VersionOf(s, c) \in Nat
  /\ \A c : VersionBefore(c) \in Nat
<1>1. ASSUME NEW s, GoodSnapshot(s), NEW c PROVE VersionOf(s, c) \in Nat
  <2>1. c \in DOMAIN s.charges => s.charges[c].version \in Nat
    BY <1>1, RowVersion
  <2> QED
    BY <2>1 DEF VersionOf
<1>2. ASSUME NEW c PROVE VersionBefore(c) \in Nat
  <2>1. c \in DOMAIN SeedCharges => SeedCharges[c] \in Row
    BY SeedAssumption, ElementOfSeq, LenProperties
  <2> QED
    BY <2>1 DEF VersionBefore, Row
<1> QED
  BY <1>1, <1>2

LEMMA ReconcileAnnounces ==
  ASSUME GoodState
  PROVE  /\ Announces(ReconcileNowOutcome)
         /\ \A c \in Nat :
              /\ VersionOf(mem, c) <= VersionOf(ReconcileDeadlines(mem), c)
              /\ Chain(ReconciliationDrafts(mem.charges), c,
                       VersionOf(mem, c), VersionOf(ReconcileDeadlines(mem), c))
<1>1. mem.charges \in Seq(Row) /\ now \in Instants
  BY DEF GoodState, GoodSnapshot, Snapshot
<1>2. ReconcileDeadlines(mem).charges = ReconciledCharges(mem.charges)
  BY DEF ReconcileDeadlines, GoodState, GoodSnapshot, Snapshot
<1>3. DOMAIN ReconciledCharges(mem.charges) = DOMAIN mem.charges
  BY DEF ReconciledCharges
<1>4. ASSUME NEW c \in Nat
      PROVE  /\ VersionOf(mem, c) <= VersionOf(ReconcileDeadlines(mem), c)
             /\ Chain(ReconciliationDrafts(mem.charges), c,
                      VersionOf(mem, c), VersionOf(ReconcileDeadlines(mem), c))
  BY <1>1, <1>2, <1>3, ReconciliationAnnounces DEF VersionOf
<1>5. /\ ReconcileNowOutcome.working = ReconcileDeadlines(mem)
      /\ ReconcileNowOutcome.drafts = ReconciliationDrafts(mem.charges)
  BY DEF ReconcileNowOutcome, Outcome
<1> QED
  BY <1>4, <1>5 DEF Announces

LEMMA UnchangedAnnounces ==
  /\ Announces(Unchanged)
  /\ \A request : Announces(ReplayOutcome(request))
BY DEF Announces, Unchanged, ReplayOutcome, Outcome

(* Another charge is another entity. *)
LEMMA OtherEntity ==
  /\ \A c, d, v : ChargeEvent(c, v).version = v
       /\ (ChargeEvent(c, v).entity = [kind |-> "charge", id |-> d] <=> c = d)
  /\ \A n, d : NotificationEvent(n).entity # [kind |-> "charge", id |-> d]
  /\ \A x, d : TaskEvent(x).entity # [kind |-> "charge", id |-> d]
BY DEF ChargeEvent, NotificationEvent, TaskEvent

(* What moves one row one version on, and announces it last. *)
LEMMA UpdateAnnounced ==
  ASSUME NEW s, NEW t, NEW q \in Seq(Draft), NEW c \in DOMAIN s.charges, c \in Nat,
         GoodSnapshot(s), GoodSnapshot(t), GoodState,
         NEW row \in Row, row.version = s.charges[c].version + 1,
         t.charges = [s.charges EXCEPT ![c] = row],
         \A d \in Nat : /\ VersionOf(mem, d) <= VersionOf(s, d)
                        /\ Chain(q, d, VersionOf(mem, d), VersionOf(s, d))
  PROVE  \A d \in Nat :
           /\ VersionOf(mem, d) <= VersionOf(t, d)
           /\ Chain(Append(q, ChargeEvent(c, row.version)), d,
                    VersionOf(mem, d), VersionOf(t, d))
<1> TAKE d \in Nat
<1>1. /\ VersionOf(mem, d) \in Nat /\ VersionOf(s, d) \in Nat /\ VersionOf(t, d) \in Nat
  BY VersionsAreNat DEF GoodState
<1>2. ChargeEvent(c, row.version) \in Draft
  BY DEF ChargeEvent, Draft, Entity, Row
<1>3. VersionOf(t, d) = IF d = c THEN VersionOf(s, d) + 1 ELSE VersionOf(s, d)
  BY DEF VersionOf
<1>4. /\ VersionOf(mem, d) <= VersionOf(s, d)
      /\ Chain(q, d, VersionOf(mem, d), VersionOf(s, d))
  OBVIOUS
<1>5. d = c => row.version = VersionOf(s, d) + 1
  BY DEF VersionOf
<1> DEFINE lo == VersionOf(mem, d)
           mid == VersionOf(s, d)
           hi == VersionOf(t, d)
           e == ChargeEvent(c, row.version)
<1>6. /\ e.entity = [kind |-> "charge", id |-> d] <=> c = d
      /\ e.version = row.version
  BY OtherEntity
<1> HIDE DEF lo, mid, hi, e
<1>7. /\ e.entity # [kind |-> "charge", id |-> d] => Chain(Append(q, e), d, lo, mid)
      /\ e.entity = [kind |-> "charge", id |-> d] /\ e.version = mid + 1
              => Chain(Append(q, e), d, lo, mid + 1)
  BY <1>1, <1>2, <1>4, ChainNext DEF lo, mid, e
<1>8. lo \in Nat /\ mid \in Nat /\ lo <= mid /\ hi = IF d = c THEN mid + 1 ELSE mid
  BY <1>1, <1>3, <1>4 DEF lo, mid, hi
<1>9. lo <= hi /\ Chain(Append(q, e), d, lo, hi)
  BY <1>5, <1>6, <1>7, <1>8 DEF mid
<1> QED
  BY <1>9 DEF lo, hi, e

LEMMA RecordKeepsRows ==
  ASSUME NEW s, GoodSnapshot(s), NEW request, NEW body
  PROVE  /\ RecordSuccess(s, request, TRUE, body).charges = s.charges
         /\ RecordSuccess(s, request, FALSE, body).charges = s.charges
BY DEF RecordSuccess, GoodSnapshot, Snapshot

LEMMA OneThenTwo ==
  ASSUME NEW D, NEW e \in D, NEW f \in D
  PROVE  /\ Append(<< >>, e) = <<e>> /\ <<e>> \in Seq(D)
         /\ Append(<<e>>, f) = <<e, f>>
<1>1. << >> \in Seq(D) /\ Len(<< >>) = 0 /\ <<e>> \in Seq(D) /\ Len(<<e>>) = 1
  OBVIOUS
<1>2. Append(<< >>, e) = <<e>>
  OBVIOUS
<1> DEFINE p == <<e>>
           q == <<e, f>>
<1>4. q \in Seq(D) /\ Len(q) = 2 /\ q[1] = e /\ q[2] = f
  OBVIOUS
<1>5. Len(p) = 1 /\ p[1] = e /\ p \in Seq(D)
  OBVIOUS
<1> HIDE DEF p, q
<1>6. /\ Append(p, f) \in Seq(D) /\ Len(Append(p, f)) = 2
      /\ Append(p, f)[1] = e /\ Append(p, f)[2] = f
  <2>1. /\ Append(p, f) \in Seq(D) /\ Len(Append(p, f)) = Len(p) + 1
        /\ \A i \in 1 .. Len(p) : Append(p, f)[i] = p[i]
        /\ Append(p, f)[Len(p) + 1] = f
    <3>1. p \in Seq(D) /\ f \in D
      BY <1>5
    <3> HIDE <1>4, <1>5
    <3> QED
      BY <3>1, AppendProperties
  <2> DEFINE b == Append(p, f)
  <2> HIDE DEF b
  <2>2. 1 \in 1 .. Len(p) /\ Len(p) + 1 = 2
    BY <1>5
  <2> QED
    BY <1>5, <2>1, <2>2 DEF b
<1> DEFINE a == Append(p, f)
<1> HIDE DEF a
<1>7. \A i \in 1 .. Len(a) : a[i] = q[i]
  <2>1. \A i \in 1 .. 2 : i = 1 \/ i = 2
    OBVIOUS
  <2> QED
    BY <1>4, <1>6, <2>1 DEF a
<1>8. a = q
  BY <1>4, <1>6, <1>7, SeqEqual DEF a
<1>3. Append(<<e>>, f) = <<e, f>>
  BY <1>8 DEF a, p, q
<1> QED
  BY <1>1, <1>2, <1>3

LEMMA CommandAnnounces ==
  ASSUME GoodState, NEW request \in Request, request.op \in StudentEvents,
         request.resource \in DOMAIN ReconcileDeadlines(mem).charges
  PROVE  Announces(CommandSucceeds(request))
<1> DEFINE s   == ReconcileDeadlines(mem)
           c   == request.resource
           row == After(s.charges[c], request.op, now)
           updated == [s EXCEPT !.charges[c] = row]
           w   == RecordSuccess(updated, request, TRUE, row)
<1>1. GoodSnapshot(s) /\ s.charges \in Seq(Row)
  BY ReconcileType DEF GoodSnapshot, Snapshot
<1>2. c \in DOMAIN s.charges /\ c \in Nat /\ s.charges[c] \in Row
  <2>1. DOMAIN s.charges = 1 .. Len(s.charges)
    BY <1>1, LenProperties
  <2>2. c \in 1 .. Len(s.charges)
    BY <2>1
  <2> HIDE DEF s, c
  <2> QED
    BY <1>1, <2>1, <2>2, ElementOfSeq
<1>3. row \in Row /\ row.version = s.charges[c].version + 1
  <2> HIDE DEF s, c
  <2> QED
    BY <1>2, AfterType DEF Events, GoodState, Instants
<1>4. CommandSucceeds(request) =
        Outcome(w, Append(ReconciliationDrafts(mem.charges), ChargeEvent(c, row.version)),
                TRUE, Latest(w, request))
  BY DEF CommandSucceeds
<1> HIDE DEF s, row
<1>5. /\ GoodSnapshot(updated)
      /\ updated.charges = [s.charges EXCEPT ![c] = row]
  BY <1>1, <1>2, <1>3, ChargeUpdateType
<1> HIDE DEF updated
<1>6. w.charges = updated.charges
  BY <1>5, RecordKeepsRows
<1> HIDE DEF c, w
<1>7. \A d \in Nat : /\ VersionOf(mem, d) <= VersionOf(s, d)
                     /\ Chain(ReconciliationDrafts(mem.charges), d,
                              VersionOf(mem, d), VersionOf(s, d))
  BY ReconcileAnnounces DEF s
<1>8. ReconciliationDrafts(mem.charges) \in Seq(Draft)
  BY ReconciliationDraftsType DEF GoodState, GoodSnapshot, Snapshot
<1>9. \A d \in Nat :
        /\ VersionOf(mem, d) <= VersionOf(updated, d)
        /\ Chain(Append(ReconciliationDrafts(mem.charges), ChargeEvent(c, row.version)), d,
                 VersionOf(mem, d), VersionOf(updated, d))
  BY <1>1, <1>2, <1>3, <1>5, <1>7, <1>8, UpdateAnnounced
<1>10. \A d : VersionOf(w, d) = VersionOf(updated, d)
  BY <1>6 DEF VersionOf
<1> DEFINE o == CommandSucceeds(request)
<1>11. /\ o.working = w
       /\ o.drafts = Append(ReconciliationDrafts(mem.charges), ChargeEvent(c, row.version))
  BY <1>4 DEF Outcome
<1> HIDE DEF o
<1>12. Announces(o)
  BY <1>9, <1>10, <1>11 DEF Announces
<1> QED
  BY <1>12 DEF o

LEMMA ChargeCommandAnnounces ==
  ASSUME GoodState, NEW request \in Request, request.op \in StudentEvents
  PROVE  Announces(ChargeCommandOutcome(request))
<1>1. ReconcileDeadlines(mem).charges = ReconciledCharges(mem.charges)
  BY DEF ReconcileDeadlines, GoodState, GoodSnapshot, Snapshot
<1> QED
  BY <1>1, CommandAnnounces, ReconcileAnnounces, UnchangedAnnounces
  DEF ChargeCommandOutcome, FailAfterReconciliation

(* What leaves the rows alone announces something else. *)
LEMMA ElsewhereAnnounces ==
  ASSUME GoodState, NEW o, NEW d \in Draft, o.drafts = <<d>>,
         o.working.charges = mem.charges,
         \A c : d.entity # [kind |-> "charge", id |-> c]
  PROVE  Announces(o)
<1>1. \A c : VersionOf(o.working, c) = VersionOf(mem, c) /\ VersionOf(mem, c) \in Nat
  BY VersionsAreNat DEF VersionOf, GoodState
<1>2. ASSUME NEW c \in Nat
      PROVE  Chain(<<d>>, c, VersionOf(mem, c), VersionOf(mem, c))
  BY <1>1, ChainOfOne
<1> QED
  BY <1>1, <1>2 DEF Announces

LEMMA CreateTaskAnnounces ==
  ASSUME GoodState, NEW request \in Request, request.resource \in Tasks,
         NEW bookingExists
  PROVE  Announces(CreateTaskOutcome(request, bookingExists))
<1> DEFINE x     == request.resource
           added == [mem EXCEPT !.tasks = @ \cup {x}]
           w     == RecordSuccess(added, request, FALSE, NoRow)
           o     == TaskCreated(request)
<1>1. GoodSnapshot(added) /\ added.charges = mem.charges
  BY DEF GoodState, GoodSnapshot, Snapshot
<1>2. o.working = w /\ o.drafts = <<TaskEvent(x)>>
  BY DEF TaskCreated, Outcome
<1> HIDE DEF added, o
<1>3. w.charges = added.charges
  BY <1>1, RecordKeepsRows
<1> HIDE DEF w
<1>4. TaskEvent(x) \in Draft
  BY DEF TaskEvent, Draft, Entity
<1>5. Announces(o)
  BY <1>1, <1>2, <1>3, <1>4, OtherEntity, ElsewhereAnnounces
<1> QED
  BY <1>5, UnchangedAnnounces DEF CreateTaskOutcome, o

LEMMA MarkReadAnnounces ==
  ASSUME GoodState, NEW n \in Nat, NEW epoch
  PROVE  Announces(MarkReadOutcome(n, epoch))
<1> DEFINE w == [mem EXCEPT !.notifications[n].read = TRUE]
           o == Outcome(w, <<NotificationEvent(n)>>, TRUE, {})
<1>1. w.charges = mem.charges
  BY DEF GoodState, GoodSnapshot, Snapshot
<1>2. NotificationEvent(n) \in Draft
  BY DEF NotificationEvent, Draft, Entity
<1> HIDE DEF w
<1>3. o.working = w /\ o.drafts = <<NotificationEvent(n)>>
  BY DEF Outcome
<1> HIDE DEF o
<1>4. Announces(o)
  BY <1>1, <1>2, <1>3, OtherEntity, ElsewhereAnnounces
<1> QED
  BY <1>4, UnchangedAnnounces DEF MarkReadOutcome, o, w

LEMMA RaiseChargeAnnounces ==
  ASSUME GoodState, NEW c \in Nat, c \in 1 .. Len(mem.charges) + 1,
         NEW deadlineAt \in Deadlines, NEW bookingExists
  PROVE  Announces(RaiseChargeOutcome(c, deadlineAt, bookingExists))
<1> SUFFICES ASSUME bookingExists, c \notin DOMAIN mem.charges
             PROVE  Announces(RaiseChargeOutcome(c, deadlineAt, bookingExists))
  BY UnchangedAnnounces DEF RaiseChargeOutcome
<1> DEFINE row    == NewRow(deadlineAt)
           raised == [mem EXCEPT !.charges = Append(@, row)]
           w      == Notified(raised, c)
           o      == RaiseChargeOutcome(c, deadlineAt, bookingExists)
           e      == ChargeEvent(c, 1)
           f      == NotificationEvent(Len(mem.notifications) + 1)
           rows   == Append(mem.charges, row)
<1>1. mem.charges \in Seq(Row) /\ DOMAIN mem.charges = 1 .. Len(mem.charges)
      /\ Len(mem.charges) \in Nat
  BY LenProperties DEF GoodState, GoodSnapshot, Snapshot
<1>2. c = Len(mem.charges) + 1
  BY <1>1
<1>3. row \in Row /\ row.version = 1
  <2>1. deadlineAt \in Instants
    BY SeedAssumption
  <2>2. row.version = 1
    BY DEF NewRow
  <2> QED
    BY <2>1, <2>2, NewRowType
<1>4. w.charges = rows
  BY DEF Notified, GoodState, GoodSnapshot, Snapshot
<1>5. o.working = w /\ o.drafts = <<e, f>>
  BY DEF RaiseChargeOutcome, Outcome, NotifiedDrafts
<1> HIDE DEF row
<1>6. /\ DOMAIN rows = DOMAIN mem.charges \cup {c}
      /\ rows[c] = row /\ \A d \in DOMAIN mem.charges : rows[d] = mem.charges[d]
  <2>1. /\ rows \in Seq(Row) /\ Len(rows) = Len(mem.charges) + 1
        /\ \A d \in 1 .. Len(mem.charges) : rows[d] = mem.charges[d]
        /\ rows[Len(mem.charges) + 1] = row
    BY <1>1, <1>3, AppendProperties
  <2> HIDE DEF rows
  <2>2. DOMAIN rows = 1 .. Len(mem.charges) + 1
    BY <2>1, LenProperties
  <2> QED
    BY <1>1, <1>2, <2>1, <2>2
<1> HIDE DEF rows, w, o
<1>7. /\ e \in Draft /\ f \in Draft
  <2>1. Len(mem.notifications) + 1 \in Nat
    BY LenProperties DEF GoodState, GoodSnapshot, Snapshot
  <2> QED
    BY <2>1 DEF ChargeEvent, NotificationEvent, Draft, Entity
<1>8. e.version = 1 /\ \A d : /\ (e.entity = [kind |-> "charge", id |-> d] <=> c = d)
                              /\ f.entity # [kind |-> "charge", id |-> d]
  BY OtherEntity
<1> HIDE DEF e, f
<1>9. <<e>> \in Seq(Draft) /\ Append(<<e>>, f) = <<e, f>>
  BY <1>7, OneThenTwo
<1>10. ASSUME NEW d \in Nat
       PROVE  /\ VersionOf(mem, d) <= VersionOf(w, d)
              /\ Chain(<<e, f>>, d, VersionOf(mem, d), VersionOf(w, d))
  <2> DEFINE lo == VersionOf(mem, d)
             hi == VersionOf(w, d)
  <2>1. lo \in Nat /\ hi = IF d = c THEN lo + 1 ELSE lo
    <3>1. lo \in Nat
      BY VersionsAreNat DEF GoodState
    <3>2. CASE d = c
      BY <1>1, <1>2, <1>3, <1>4, <1>6, <3>2 DEF VersionOf
    <3>3. CASE d # c
      <4>1. d \in DOMAIN rows <=> d \in DOMAIN mem.charges
        BY <1>6, <3>3
      <4>2. d \in DOMAIN mem.charges => rows[d] = mem.charges[d]
        BY <1>6
      <4>3. VersionOf(mem, d) = VersionOf(w, d)
        BY <1>4, <4>1, <4>2 DEF VersionOf
      <4> QED
        BY <3>1, <3>3, <4>3
    <3> QED
      BY <3>1, <3>2, <3>3
  <2>2. d = c => lo = 0
    BY <1>1, <1>2 DEF VersionOf
  <2> HIDE DEF lo, hi
  <2>3. Chain(<<e>>, d, lo, hi)
    <3>1. CASE d = c
      <4>1. e.entity = [kind |-> "charge", id |-> d] /\ hi = lo + 1 /\ e.version = lo + 1
        BY <1>8, <2>1, <2>2, <3>1
      <4> QED
        BY <1>7, <2>1, <4>1, ChainOfOne
    <3>2. CASE d # c
      <4>1. e.entity # [kind |-> "charge", id |-> d] /\ hi = lo
        BY <1>8, <2>1, <3>2
      <4> QED
        BY <1>7, <2>1, <4>1, ChainOfOne
    <3> QED
      BY <3>1, <3>2
  <2>4. hi \in Nat /\ lo <= hi
    BY <2>1
  <2>5. Chain(Append(<<e>>, f), d, lo, hi)
    BY <1>7, <1>8, <1>9, <2>1, <2>3, <2>4, ChainNext
  <2> QED
    BY <1>9, <2>4, <2>5 DEF lo, hi
<1>11. Announces(o)
  BY <1>5, <1>10 DEF Announces
<1> QED
  BY <1>11 DEF o

LEMMA ResolveChargeAnnounces ==
  ASSUME GoodState, NEW c \in Nat, NEW event \in OperatorEvents
  PROVE  Announces(ResolveChargeOutcome(c, event))
<1> SUFFICES ASSUME c \in DOMAIN mem.charges, CanReceive(mem.charges[c].status, event)
             PROVE  Announces(ResolveChargeOutcome(c, event))
  BY UnchangedAnnounces DEF ResolveChargeOutcome
<1> DEFINE row     == After(mem.charges[c], event, now)
           decided == [mem EXCEPT !.charges[c] = row]
           w       == Notified(decided, c)
           o       == ResolveChargeOutcome(c, event)
           e       == ChargeEvent(c, row.version)
           f       == NotificationEvent(Len(mem.notifications) + 1)
<1>1. GoodSnapshot(mem) /\ mem.charges[c] \in Row
  BY RowVersion DEF GoodState
<1>2. row \in Row /\ row.version = mem.charges[c].version + 1
  BY <1>1, AfterType DEF Events, GoodState, Instants
<1>3. o.working = w /\ o.drafts = <<e, f>>
  BY DEF ResolveChargeOutcome, Outcome, NotifiedDrafts
<1> HIDE DEF row, o
<1>4. GoodSnapshot(decided) /\ decided.charges = [mem.charges EXCEPT ![c] = row]
  BY <1>1, <1>2, ChargeUpdateType
<1> HIDE DEF decided
<1>5. w.charges = decided.charges
  BY <1>4 DEF Notified, GoodSnapshot, Snapshot
<1> HIDE DEF w
<1>6. \A d \in Nat : /\ VersionOf(mem, d) <= VersionOf(mem, d)
                     /\ Chain(<< >>, d, VersionOf(mem, d), VersionOf(mem, d))
  BY <1>1, VersionsAreNat, ChainEmpty
<1>7. << >> \in Seq(Draft)
  BY EmptySeq
<1>8. \A d \in Nat :
        /\ VersionOf(mem, d) <= VersionOf(decided, d)
        /\ Chain(Append(<< >>, e), d, VersionOf(mem, d), VersionOf(decided, d))
  BY <1>1, <1>2, <1>4, <1>6, <1>7, UpdateAnnounced
<1>9. /\ e \in Draft /\ f \in Draft
  <2>1. row.version \in Nat
    BY <1>2 DEF Row
  <2>2. Len(mem.notifications) + 1 \in Nat
    <3>1. mem.notifications \in Seq(Notification)
      BY DEF GoodState, GoodSnapshot, Snapshot
    <3> QED
      BY <3>1, LenProperties
  <2> QED
    BY <2>1, <2>2 DEF ChargeEvent, NotificationEvent, Draft, Entity
<1>10. \A d : f.entity # [kind |-> "charge", id |-> d]
  BY DEF NotificationEvent
<1> HIDE DEF e, f
<1>11. /\ Append(<< >>, e) = <<e>> /\ <<e>> \in Seq(Draft)
       /\ Append(<<e>>, f) = <<e, f>>
  BY <1>9, OneThenTwo
<1>12. ASSUME NEW d \in Nat
       PROVE  /\ VersionOf(mem, d) <= VersionOf(w, d)
              /\ Chain(<<e, f>>, d, VersionOf(mem, d), VersionOf(w, d))
  <2> DEFINE lo == VersionOf(mem, d)
             hi == VersionOf(decided, d)
  <2>1. VersionOf(w, d) = hi
    BY <1>5 DEF VersionOf
  <2>2. lo \in Nat /\ hi \in Nat
    BY <1>1, <1>4, VersionsAreNat
  <2>3. lo <= hi /\ Chain(<<e>>, d, lo, hi)
    BY <1>8, <1>11
  <2> HIDE DEF lo, hi
  <2>4. Chain(Append(<<e>>, f), d, lo, hi)
    BY <1>9, <1>10, <1>11, <2>2, <2>3, ChainNext
  <2> QED
    BY <1>11, <2>1, <2>3, <2>4 DEF lo
<1>13. Announces(o)
  BY <1>3, <1>12 DEF Announces
<1> QED
  BY <1>13 DEF o

-----------------------------------------------------------------------------
(* The ring of a commit. *)

LEMMA RingMoves ==
  ASSUME NEW ring \in Ring, NEW stored \in Seq(Event)
  PROVE  \E k \in Nat :
           LET all  == ring.events \o stored
               next == AppendEvents(ring, stored, RingCapacity)
           IN  /\ k <= Len(all) /\ Len(next.events) = Len(all) - k
               /\ \A i \in 1 .. Len(next.events) : next.events[i] = all[k + i]
               /\ k = 0 => /\ next.events = all
                           /\ next.evictedThrough = ring.evictedThrough
               /\ k # 0 => k \in 1 .. Len(all) /\ next.evictedThrough = all[k].id
<1> DEFINE all     == ring.events \o stored
           next    == AppendEvents(ring, stored, RingCapacity)
           surplus == Len(all) - RingCapacity
<1>1. ring.events \in Seq(Event) /\ all \in Seq(Event) /\ Len(all) \in Nat
  BY ConcatProperties, LenProperties DEF Ring
<1>2. CASE stored = << >>
  <2>1. next = ring /\ all = ring.events
    BY <1>1, <1>2, ConcatEmptySeq DEF AppendEvents
  <2> HIDE DEF all, next
  <2>2. /\ 0 <= Len(all) /\ Len(next.events) = Len(all) - 0
        /\ \A i \in 1 .. Len(next.events) : next.events[i] = all[0 + i]
        /\ next.events = all /\ next.evictedThrough = ring.evictedThrough
    BY <1>1, <2>1
  <2> QED
    BY <2>2 DEF all, next
<1>3. CASE stored # << >> /\ ~ (surplus > 0)
  <2>1. next.events = all /\ next.evictedThrough = ring.evictedThrough
    BY <1>3 DEF AppendEvents
  <2> HIDE DEF all, next
  <2>2. /\ 0 <= Len(all) /\ Len(next.events) = Len(all) - 0
        /\ \A i \in 1 .. Len(next.events) : next.events[i] = all[0 + i]
    BY <1>1, <2>1
  <2> QED
    BY <2>1, <2>2 DEF all, next
<1>4. CASE stored # << >> /\ surplus > 0
  <2>1. /\ next.events = SubSeq(all, surplus + 1, Len(all))
        /\ next.evictedThrough = all[surplus].id
    BY <1>4 DEF AppendEvents
  <2> HIDE DEF all, next
  <2>2. surplus \in Nat /\ surplus \in 1 .. Len(all) /\ surplus + 1 \in Int /\ Len(all) \in Int
    BY <1>1, <1>4, BoundAssumption
  <2> HIDE DEF surplus
  <2>3. \A i \in surplus + 1 .. Len(all) : all[i] \in Event
    BY <1>1, <2>2, ElementOfSeq
  <2> DEFINE kept == SubSeq(all, surplus + 1, Len(all))
             lo == surplus + 1
             n == Len(all)
  <2>4. /\ Len(kept) = IF lo <= n THEN n - lo + 1 ELSE 0
        /\ \A i \in 1 .. n - lo + 1 : kept[i] = all[lo + i - 1]
    <3> HIDE DEF lo, n
    <3> QED
      BY <2>2, <2>3, SubSeqProperties DEF lo, n
  <2> HIDE DEF kept
  <2>5. Len(kept) = Len(all) - surplus
    BY <1>1, <2>2, <2>4
  <2>6. \A i \in 1 .. Len(kept) : kept[i] = all[surplus + i]
    <3> TAKE i \in 1 .. Len(kept)
    <3>1. i \in 1 .. n - lo + 1 /\ lo + i - 1 = surplus + i
      BY <1>1, <2>2, <2>5
    <3> QED
      BY <2>4, <3>1
  <2>7. /\ surplus <= Len(all) /\ Len(next.events) = Len(all) - surplus
        /\ \A i \in 1 .. Len(next.events) : next.events[i] = all[surplus + i]
        /\ surplus # 0
    BY <2>1, <2>2, <2>5, <2>6 DEF kept
  <2> QED
    BY <2>1, <2>2, <2>7 DEF all, next
<1> QED
  BY <1>2, <1>3, <1>4

(* What a store is tracked by: its ring, its rows and its epoch. *)
LEMMA TrackedSame ==
  ASSUME NEW s, NEW t, t.ring = s.ring, t.charges = s.charges, t.epoch = s.epoch,
         Tracked(s)
  PROVE  Tracked(t)
BY DEF Tracked, VersionOf

LEMMA SeedTracked ==
  ASSUME NEW epoch \in Nat
  PROVE  Tracked(SeedSnapshot(epoch))
<1> DEFINE s == SeedSnapshot(epoch)
<1>1. s.ring.events = << >> /\ s.charges = SeedCharges
  BY DEF SeedSnapshot, EmptyRing
<1> HIDE DEF s
<1>2. \A c : VersionOf(s, c) = VersionBefore(c) /\ VersionBefore(c) \in Nat
  BY <1>1, VersionsAreNat DEF VersionOf, VersionBefore
<1>3. \A c \in Nat : /\ Chain(<< >>, c, VersionBefore(c), VersionOf(s, c))
                     /\ Window(<< >>, c, VersionBefore(c), VersionOf(s, c))
  <2> TAKE c \in Nat
  <2>1. Chain(<< >>, c, VersionBefore(c), VersionOf(s, c))
    BY <1>2, ChainEmpty
  <2> QED
    BY <1>2, <2>1, ChainIsWindow
<1>4. \A i \in 1 .. Len(s.ring.events) : s.ring.events[i].id[3] # 0
  BY <1>1, EmptySeq
<1>5. \A c \in Nat : VersionBefore(c) <= VersionOf(s, c)
  BY <1>2
<1> QED
  BY <1>1, <1>3, <1>4, <1>5 DEF Tracked, s

(* The events a commit stores carry its drafts, and their places. *)
LEMMA StoredFollow ==
  ASSUME NEW events \in Seq(Event), NEW drafts \in Seq(Draft),
         NEW epoch \in Nat, NEW revision \in Nat
  PROVE  LET stored == StoredEvents(epoch, revision, drafts)
         IN  /\ stored \in Seq(Event) /\ events \o stored \in Seq(Event)
             /\ Follows(events \o stored, events, drafts)
             /\ \A i \in 1 .. Len(events \o stored) :
                  \/ \E j \in 1 .. Len(events) : (events \o stored)[i] = events[j]
                  \/ (events \o stored)[i].id[3] # 0
<1> DEFINE stored == StoredEvents(epoch, revision, drafts)
           all    == events \o stored
<1>1. /\ stored \in Seq(Event) /\ Len(stored) = Len(drafts)
      /\ \A i \in 1 .. Len(drafts) : stored[i].id = <<epoch, revision, i>>
  BY StoredEventsType
<1>2. Len(events) \in Nat /\ Len(drafts) \in Nat
  BY LenProperties
<1>3. \A i \in 1 .. Len(drafts) : /\ stored[i].entity = drafts[i].entity
                                   /\ stored[i].version = drafts[i].version
  BY DEF StoredEvents
<1> HIDE DEF stored
<1>4. /\ all \in Seq(Event) /\ Len(all) = Len(events) + Len(drafts)
      /\ \A i \in 1 .. Len(events) + Len(drafts) :
           all[i] = IF i <= Len(events) THEN events[i] ELSE stored[i - Len(events)]
  <2>1. events \in Seq(Event) /\ stored \in Seq(Event)
    BY <1>1
  <2>2. /\ all \in Seq(Event) /\ Len(all) = Len(events) + Len(stored)
        /\ \A i \in 1 .. Len(events) + Len(stored) :
             all[i] = IF i <= Len(events) THEN events[i] ELSE stored[i - Len(events)]
    BY <2>1, ConcatProperties
  <2> HIDE DEF all
  <2> QED
    BY <1>1, <2>2
<1> HIDE DEF all
<1>5. \A i \in 1 .. Len(events) : all[i] = events[i]
  BY <1>2, <1>4
<1>6. \A i \in 1 .. Len(drafts) : all[Len(events) + i] = stored[i]
  <2> TAKE i \in 1 .. Len(drafts)
  <2>1. /\ Len(events) + i \in 1 .. Len(events) + Len(drafts)
        /\ ~ (Len(events) + i <= Len(events)) /\ Len(events) + i - Len(events) = i
    BY <1>2
  <2> QED
    BY <1>4, <2>1
<1>7. Follows(all, events, drafts)
  BY <1>2, <1>3, <1>4, <1>5, <1>6 DEF Follows
<1>8. ASSUME NEW i \in 1 .. Len(all)
      PROVE  (\E j \in 1 .. Len(events) : all[i] = events[j]) \/ all[i].id[3] # 0
  <2>1. CASE i <= Len(events)
    <3>1. i \in 1 .. Len(events)
      BY <1>2, <1>4, <1>8, <2>1
    <3> QED
      BY <1>5, <3>1
  <2>2. CASE ~ (i <= Len(events))
    <3> DEFINE k == i - Len(events)
    <3>1. k \in 1 .. Len(drafts) /\ i = Len(events) + k
      BY <1>2, <1>4, <1>8, <2>2
    <3> HIDE DEF k
    <3>2. all[i] = stored[k] /\ stored[k].id = <<epoch, revision, k>>
      BY <1>1, <1>6, <3>1
    <3>3. all[i].id[3] = k /\ k # 0
      BY <1>2, <3>1, <3>2
    <3> QED
      BY <3>3
  <2> QED
    BY <2>1, <2>2
<1> QED
  BY <1>1, <1>4, <1>7, <1>8 DEF all, stored

LEMMA WorkingTracked ==
  ASSUME GoodState, Tracked(mem), NEW o, GoodOutcome(o), SoundOutcome(o),
         Announces(o), o.persist
  PROVE  Tracked(Working(o))
<1> DEFINE events == mem.ring.events
           stored == StoredEvents(mem.epoch, NextRevision, o.drafts)
           all    == events \o stored
           w      == Working(o)
           next   == AppendEvents(mem.ring, stored, RingCapacity)
<1>1. /\ mem.epoch \in Nat /\ NextRevision \in Nat /\ o.drafts \in Seq(Draft)
      /\ mem.ring \in Ring /\ events \in Seq(Event)
  BY NextRevisionType DEF GoodState, GoodSnapshot, Snapshot, Ring, GoodOutcome
<1>2. /\ w.ring = next /\ w.charges = o.working.charges /\ w.epoch = mem.epoch
  BY DEF Working, SoundOutcome, GoodOutcome, GoodSnapshot, Snapshot
<1>3. /\ stored \in Seq(Event) /\ all \in Seq(Event)
      /\ Follows(all, events, o.drafts)
      /\ \A i \in 1 .. Len(all) : \/ \E j \in 1 .. Len(events) : all[i] = events[j]
                                 \/ all[i].id[3] # 0
  BY <1>1, StoredFollow
<1> HIDE DEF w, stored
<1>4. PICK k \in Nat :
           /\ k <= Len(all) /\ Len(next.events) = Len(all) - k
           /\ \A i \in 1 .. Len(next.events) : next.events[i] = all[k + i]
           /\ k = 0 => next.events = all /\ next.evictedThrough = mem.ring.evictedThrough
           /\ k # 0 => k \in 1 .. Len(all) /\ next.evictedThrough = all[k].id
  BY <1>1, <1>3, RingMoves
<1> HIDE DEF all, next, events
<1>5. /\ Versioned(events) /\ Versioned(o.drafts) /\ Versioned(all)
      /\ Len(all) \in Nat
  BY <1>1, <1>3, EventsVersioned
<1>6. \A i \in 1 .. Len(all) : all[i].id[3] # 0
  BY <1>3 DEF Tracked, events
<1>7. \A c : VersionOf(w, c) = VersionOf(o.working, c)
  BY <1>2 DEF VersionOf
<1>8. \A c : /\ VersionBefore(c) \in Nat /\ VersionOf(mem, c) \in Nat
             /\ VersionOf(o.working, c) \in Nat
  BY VersionsAreNat DEF GoodState, GoodOutcome
<1>9. \A i \in 1 .. Len(next.events) : next.events[i].id[3] # 0
  <2>1. \A i \in 1 .. Len(next.events) : k + i \in 1 .. Len(all)
    BY <1>4, <1>5
  <2> QED
    BY <1>4, <1>6, <2>1
<1>10. ASSUME NEW c \in Nat
       PROVE  /\ VersionBefore(c) <= VersionOf(w, c)
              /\ Window(next.events, c, VersionBefore(c), VersionOf(w, c))
  <2> DEFINE lo  == VersionBefore(c)
             mid == VersionOf(mem, c)
             hi  == VersionOf(o.working, c)
  <2>1. /\ lo \in Nat /\ mid \in Nat /\ hi \in Nat
    BY <1>8
  <2>2. lo <= mid /\ Window(events, c, lo, mid)
    BY DEF Tracked, events
  <2>3. mid <= hi /\ Chain(o.drafts, c, mid, hi)
    BY DEF Announces
  <2>4. VersionOf(w, c) = hi
    BY <1>7
  <2> HIDE DEF lo, mid, hi
  <2>5. Window(all, c, lo, hi)
    BY <1>3, <1>5, <2>1, <2>2, <2>3, WindowGrows
  <2> DEFINE kept == next.events
  <2>6. /\ k <= Len(all) /\ Len(kept) = Len(all) - k
        /\ \A i \in 1 .. Len(kept) : kept[i] = all[k + i]
    BY <1>4
  <2> HIDE DEF kept
  <2>7. Window(kept, c, lo, hi)
    BY <1>5, <2>1, <2>5, <2>6, WindowShrinks
  <2> QED
    BY <2>1, <2>2, <2>3, <2>4, <2>7 DEF kept, lo
<1>11. ASSUME next.evictedThrough = BaselineCursor(mem.epoch), NEW c \in Nat
       PROVE  Chain(next.events, c, VersionBefore(c), VersionOf(w, c))
  <2> DEFINE lo  == VersionBefore(c)
             mid == VersionOf(mem, c)
             hi  == VersionOf(o.working, c)
  <2>1. k = 0
    <3>1. BaselineCursor(mem.epoch)[3] = 0
      BY DEF BaselineCursor
    <3>2. ASSUME k # 0 PROVE next.evictedThrough[3] # 0
      BY <1>4, <1>6, <3>2
    <3> QED
      BY <1>11, <3>1, <3>2
  <2>2. next.events = all /\ mem.ring.evictedThrough = BaselineCursor(mem.epoch)
    BY <1>4, <1>11, <2>1
  <2>3. lo <= mid /\ Chain(events, c, lo, mid)
    BY <2>2 DEF Tracked, events
  <2>4. mid <= hi /\ Chain(o.drafts, c, mid, hi)
    BY DEF Announces
  <2>5. /\ lo \in Nat /\ mid \in Nat /\ hi \in Nat
    BY <1>8
  <2>6. VersionOf(w, c) = hi
    BY <1>7
  <2> HIDE DEF lo, mid, hi
  <2>7. Chain(all, c, lo, hi)
    BY <1>3, <1>5, <2>3, <2>4, <2>5, ChainGrows
  <2> QED
    BY <2>2, <2>6, <2>7 DEF lo
<1> QED
  BY <1>2, <1>9, <1>10, <1>11 DEF Tracked, w

LEMMA CommitTracked ==
  ASSUME GoodState, Tracked(mem), Tracked(disk), NEW o, GoodOutcome(o),
         SoundOutcome(o), Announces(o), Commit(o)
  PROVE  Tracked(mem') /\ Tracked(disk')
<1> DEFINE w == Working(o)
<1>1. CASE o.persist
  <2>1. GoodSnapshot(w) /\ Tracked(w)
    BY <1>1, WorkingType, WorkingTracked
  <2>2. mem' \in {mem, w} /\ disk' \in {disk, Encoded(w)}
    BY <1>1 DEF Commit, CommitDone, CommitFailed, CommitUnsynced
  <2> HIDE DEF w
  <2>3. Tracked(Encoded(w))
    <3>1. LET t == Encoded(w)
          IN  t.ring = w.ring /\ t.charges = w.charges /\ t.epoch = w.epoch
      BY <2>1, EncodedSound
    <3> QED
      BY <2>1, <3>1, TrackedSame
  <2> QED
    BY <2>1, <2>2, <2>3
<1>2. CASE ~ o.persist
  BY <1>2 DEF Commit, Answer
<1> QED
  BY <1>1, <1>2

LEMMA StudentTracked ==
  ASSUME LegalState, Committed, Tracked(mem), Tracked(disk),
         NEW event \in StudentEvents, ApplyChargeCommand(event)
  PROVE  Tracked(mem') /\ Tracked(disk')
<1>1. PICK k \in Keys, c \in ChargeIds, e \in EpochsSeen,
           v \in 1 .. MaxVersion :
        Commit(ChargeCommandOutcome([key |-> k, op |-> event, resource |-> c,
                                     epoch |-> e, version |-> v]))
  BY DEF ApplyChargeCommand
<1> DEFINE request == [key |-> k, op |-> event, resource |-> c,
                       epoch |-> e, version |-> v]
<1>2. request \in Request /\ request.op \in StudentEvents
  BY BoundAssumption DEF Request, ChargeIds, EpochsSeen, LegalState, GoodState
<1> HIDE DEF request
<1>3. GoodState /\ GoodRows(mem) /\ SoundEffects(mem)
  BY DEF LegalState, Committed
<1>4. /\ GoodOutcome(ChargeCommandOutcome(request))
      /\ SoundOutcome(ChargeCommandOutcome(request))
      /\ Announces(ChargeCommandOutcome(request))
  BY <1>2, <1>3, ChargeCommandType, ChargeCommandSound, ChargeCommandAnnounces
<1> QED
  BY <1>1, <1>3, <1>4, CommitTracked DEF request

LEMMA StepTracked ==
  ASSUME LegalState, Committed, Tracked(mem), Tracked(disk), [Next]_vars
  PROVE  Tracked(mem') /\ Tracked(disk')
<1> GoodState /\ GoodRows(mem) /\ SoundEffects(mem)
  BY DEF LegalState, Committed
<1>1. CASE AcceptCharge
  BY <1>1, StudentTracked DEF AcceptCharge, StudentEvents
<1>2. CASE ContestCharge
  BY <1>2, StudentTracked DEF ContestCharge, StudentEvents
<1>3. CASE PayCharge
  BY <1>3, StudentTracked DEF PayCharge, StudentEvents
<1>4. CASE CreateTask
  <2>1. PICK k \in Keys, t \in Tasks, e \in EpochsSeen, b \in BOOLEAN :
          Commit(CreateTaskOutcome([key |-> k, op |-> "createTask",
                                    resource |-> t, epoch |-> e,
                                    version |-> 0], b))
    BY <1>4 DEF CreateTask
  <2> DEFINE request == [key |-> k, op |-> "createTask", resource |-> t,
                         epoch |-> e, version |-> 0]
  <2>2. /\ request \in Request /\ request.resource \in Tasks
        /\ request.op = "createTask"
    BY DEF Request, EpochsSeen, GoodState
  <2> HIDE DEF request
  <2>3. /\ GoodOutcome(CreateTaskOutcome(request, b))
        /\ SoundOutcome(CreateTaskOutcome(request, b))
        /\ Announces(CreateTaskOutcome(request, b))
    BY <2>2, CreateTaskType, CreateTaskSound, CreateTaskAnnounces
  <2> QED
    BY <2>1, <2>3, CommitTracked DEF request
<1>5. CASE MarkNotificationRead
  <2>1. PICK n \in DOMAIN mem.notifications, e \in EpochsSeen :
          Commit(MarkReadOutcome(n, e))
    BY <1>5 DEF MarkNotificationRead
  <2>2. n \in Nat
    BY LenProperties DEF GoodState, GoodSnapshot, Snapshot
  <2> QED
    BY <2>1, <2>2, MarkReadType, MarkReadSound, MarkReadAnnounces, CommitTracked
<1>6. CASE DevRaiseCharge
  <2>1. PICK c \in ChargeIds, d \in Deadlines, b \in BOOLEAN :
          c <= Len(mem.charges) + 1 /\ Commit(RaiseChargeOutcome(c, d, b))
    BY <1>6 DEF DevRaiseCharge
  <2>2. c \in Nat /\ c \in 1 .. Len(mem.charges) + 1
    BY <2>1, BoundAssumption, LenProperties DEF ChargeIds, GoodState, GoodSnapshot, Snapshot
  <2> QED
    BY <2>1, <2>2, RaiseChargeType, RaiseChargeSound, RaiseChargeAnnounces,
       CommitTracked
<1>7. CASE DevResolveCharge
  <2>1. PICK c \in ChargeIds, event \in OperatorEvents :
          Commit(ResolveChargeOutcome(c, event))
    BY <1>7 DEF DevResolveCharge
  <2>2. c \in Nat
    BY BoundAssumption DEF ChargeIds
  <2> QED
    BY <2>1, <2>2, ResolveChargeType, ResolveChargeSound, ResolveChargeAnnounces,
       CommitTracked
<1>8. CASE ReconcileNow
  BY <1>8, ReconcileType, ReconcileSound, ReconcileAnnounces, CommitTracked
  DEF ReconcileNow
<1>9. CASE Reset
  <2> DEFINE s == SeedSnapshot(epochsIssued + 1)
  <2>1. Tracked(s)
    BY SeedTracked DEF GoodState
  <2>2. mem' \in {mem, s} /\ disk' \in {disk, s}
    BY <1>9 DEF Reset
  <2> HIDE DEF s
  <2> QED
    BY <2>1, <2>2
<1>10. CASE Restart \/ Tick \/ UNCHANGED vars
  <2>1. mem' \in {mem, disk} /\ disk' = disk
    BY <1>10 DEF Restart, Tick, vars
  <2> QED
    BY <2>1
<1> QED
  BY <1>1, <1>2, <1>3, <1>4, <1>5, <1>6, <1>7, <1>8, <1>9, <1>10 DEF Next

(* What is tracked is what the property says of one snapshot. *)
LEMMA TrackedRows ==
  ASSUME NEW s, GoodSnapshot(s), Tracked(s), NEW c \in DOMAIN s.charges
  PROVE  LET about      == {i \in DOMAIN s.ring.events :
                              s.ring.events[i].entity = [kind |-> "charge", id |-> c]}
             version(i) == s.ring.events[i].version
             announced  == {version(i) : i \in about}
             changes    == VersionBefore(c) + 1 .. s.charges[c].version
         IN  /\ \A i, j \in about : i < j => version(i) < version(j)
             /\ announced \subseteq changes
             /\ \A v \in announced : v .. s.charges[c].version \subseteq announced
             /\ s.ring.evictedThrough = BaselineCursor(s.epoch) => announced = changes
<1> DEFINE q     == s.ring.events
           about == {i \in DOMAIN q : q[i].entity = [kind |-> "charge", id |-> c]}
           announced == {q[i].version : i \in about}
           lo == VersionBefore(c)
           hi == s.charges[c].version
           changes == lo + 1 .. hi
<1>1. q \in Seq(Event) /\ DOMAIN q = 1 .. Len(q) /\ c \in Nat
  BY LenProperties DEF GoodSnapshot, Snapshot, Ring
<1>2. lo \in Nat /\ hi \in Nat /\ VersionOf(s, c) = hi
  BY VersionsAreNat DEF VersionOf
<1>3. Window(q, c, lo, hi)
  BY <1>1, <1>2 DEF Tracked
<1>4. s.ring.evictedThrough = BaselineCursor(s.epoch) => Chain(q, c, lo, hi)
  BY <1>1, <1>2 DEF Tracked
<1>5. Versioned(q)
  BY <1>1, EventsVersioned
<1> HIDE DEF q, lo, hi
<1>6. announced \subseteq Nat
  BY <1>1, <1>5 DEF Versioned
<1>7. \A v : v \in announced <=> Says(q, c, v)
  BY <1>1 DEF Says, Names
<1>8. \A i, j \in about : i < j => q[i].version < q[j].version
  BY <1>1, <1>3 DEF Window, InOrder, Names
<1> HIDE DEF announced
<1>9. announced \subseteq changes
  BY <1>2, <1>3, <1>6, <1>7 DEF Window
<1>10. ASSUME NEW v \in announced PROVE v .. hi \subseteq announced
  <2>1. v \in Nat /\ Says(q, c, v)
    BY <1>6, <1>7
  <2>2. \A w \in v .. hi : Says(q, c, w)
    BY <1>3, <2>1 DEF Window
  <2> QED
    BY <1>7, <2>2
<1>11. ASSUME s.ring.evictedThrough = BaselineCursor(s.epoch)
       PROVE  announced = changes
  <2>1. \A v \in Nat : Says(q, c, v) <=> lo < v /\ v <= hi
    BY <1>4, <1>11 DEF Chain
  <2>2. \A v : v \in changes <=> v \in Nat /\ lo < v /\ v <= hi
    BY <1>2
  <2> HIDE DEF changes
  <2>3. \A v : v \in announced <=> v \in changes
    BY <1>6, <1>7, <2>1, <2>2
  <2> QED
    BY <2>3
<1> QED
  BY <1>8, <1>9, <1>10, <1>11 DEF announced, q, lo, hi

(***************************************************************************)
(* No change of a charge goes unannounced: of every charge the retained    *)
(* events name consecutive versions, in order, up to the committed one,    *)
(* and all of its changes as long as nothing was evicted, in memory and in *)
(* the file, through reconciliation, failed writes, resets and restarts.   *)
(***************************************************************************)
THEOREM FeedFollowsRows == Spec => []FeedTracksRows
<1> DEFINE Inv == Tracked(mem) /\ Tracked(disk)
<1>1. Init => Inv
  BY SeedTracked DEF Init
<1>2. LegalState /\ Committed /\ Inv /\ [Next]_vars => Inv'
  BY StepTracked
<1>3. LegalState /\ Inv => FeedTracksRows
  BY TrackedRows DEF LegalState, GoodState, FeedTracksRows
<1> HIDE DEF Inv
<1> QED
  BY <1>1, <1>2, <1>3, CommittedInvariant, PTL DEF Spec

-----------------------------------------------------------------------------
(* The promise made to each charge. *)

RowIn(s, c) == IF c \in DOMAIN s.charges THEN s.charges[c] ELSE NoRow

(***************************************************************************)
(* One step of ChargePromise from row r to row q, made or made visible at  *)
(* time t.                                                                 *)
(***************************************************************************)
Reaches(r, q, t) ==
  \/ q = r
  \/ r = NoRow /\ \E d \in Instants : q = NewRow(d)
  \/ /\ r.status = "outstanding" /\ r # NoRow
     /\ \/ \E at \in 1 .. t, event \in {"accept", "contest"} :
             at < r.deadlineAt /\ q = After(r, event, at)
        \/ r.deadlineAt <= t /\ q = After(r, "deadlineElapsed", t)
        \/ \E at \in r.deadlineAt .. t :
             q = After(After(r, "deadlineElapsed", at), "pay", at)
  \/ /\ r.status = "accepted"
     /\ \E at \in r.acceptedAt .. t : q = After(r, "pay", at)
  \/ /\ r.status = "contested"
     /\ \E at \in r.contestedAt .. t, event \in OperatorEvents :
          q = After(r, event, at)

(***************************************************************************)
(* The file a restart would load is the served state, or one commit ahead  *)
(* of it, or the seed of a reset that was not confirmed.                   *)
(***************************************************************************)
Linked ==
  /\ disk.epoch = mem.epoch
       => \A c : Reaches(RowIn(mem, c), RowIn(disk, c), now)
  /\ disk.epoch # mem.epoch => disk.charges = SeedCharges

PromiseKept ==
  \A c \in ChargeIds : [Promise(c)!PNext]_(Promise(c)!pvars)

PromisedOutcome(o) ==
  \A c : Reaches(RowIn(mem, c), RowIn(o.working, c), now)

LEMMA ReachesSame ==
  ASSUME NEW r, NEW t
  PROVE  Reaches(r, r, t)
BY DEF Reaches

(***************************************************************************)
(* A step that could be shown at time t can be shown later.                *)
(***************************************************************************)
LEMMA ReachesLater ==
  ASSUME NEW r \in Row, NEW q, NEW t \in Nat, Reaches(r, q, t)
  PROVE  Reaches(r, q, t + 1)
<1>1. /\ r.deadlineAt \in Nat /\ r.acceptedAt \in Nat
      /\ r.contestedAt \in Nat
  BY DEF Row, Instants
<1>2. After(r, "deadlineElapsed", t) = After(r, "deadlineElapsed", t + 1)
  BY DEF After, AcceptedAt
<1>3. /\ 1 .. t \subseteq 1 .. t + 1
      /\ r.deadlineAt .. t \subseteq r.deadlineAt .. t + 1
      /\ r.acceptedAt .. t \subseteq r.acceptedAt .. t + 1
      /\ r.contestedAt .. t \subseteq r.contestedAt .. t + 1
      /\ r.deadlineAt <= t => r.deadlineAt <= t + 1
  BY <1>1
<1> QED
  BY <1>2, <1>3 DEF Reaches

(***************************************************************************)
(* The promise speaks of the same rows as the store.                       *)
(***************************************************************************)
LEMMA SameLifecycle ==
  ASSUME NEW c
  PROVE  /\ \A r, event, at :
              Promise(c)!After(r, event, at) = After(r, event, at)
         /\ \A d : Promise(c)!NewRow(d) = NewRow(d)
         /\ Promise(c)!NoRow = NoRow
         /\ Promise(c)!Instants = Instants
         /\ Promise(c)!OperatorEvents = OperatorEvents
         /\ \A r : Promise(c)!WellFormed(r) <=> WellFormed(r)
         /\ \A r, t : Promise(c)!InTime(r, t) <=> InTime(r, t)
<1>1. Promise(c)!Target = Target
  BY DEF Promise!Target, Target
<1>2. Promise(c)!AcceptanceOrigin = AcceptanceOrigin
  BY DEF Promise!AcceptanceOrigin, AcceptanceOrigin
<1>3. \A r, event, at :
        Promise(c)!AcceptedAt(r, event, at) = AcceptedAt(r, event, at)
  BY DEF Promise!AcceptedAt, AcceptedAt
<1>4. \A event : Promise(c)!Accepts(event) <=> Accepts(event)
  BY <1>1 DEF Promise!Accepts, Accepts
<1>5. \A r, event, at : Promise(c)!After(r, event, at) = After(r, event, at)
  BY <1>1, <1>2, <1>3, <1>4 DEF Promise!After, After
<1>6. /\ \A d : Promise(c)!NewRow(d) = NewRow(d)
      /\ Promise(c)!NoRow = NoRow
  BY DEF Promise!NewRow, NewRow, Promise!NoRow, NoRow, Promise!Unset, Unset
<1>7. \A r : Promise(c)!WellFormed(r) <=> WellFormed(r)
  BY DEF Promise!WellFormed, WellFormed, Promise!Stories, Stories,
         Promise!Unset, Unset
<1>8. \A r, t : Promise(c)!InTime(r, t) <=> InTime(r, t)
  BY DEF Promise!InTime, InTime, Promise!Unset, Unset
<1>9. /\ Promise(c)!Instants = Instants
      /\ Promise(c)!OperatorEvents = OperatorEvents
  BY DEF Promise!Instants, Instants, Promise!OperatorEvents, OperatorEvents
<1> QED
  BY <1>5, <1>6, <1>7, <1>8, <1>9

LEMMA ReachesNext ==
  ASSUME NEW c \in ChargeIds, Reaches(RowIn(mem, c), RowIn(mem, c)', now),
         now' = now, mem'.epoch = mem.epoch
  PROVE  [Promise(c)!PNext]_(Promise(c)!pvars)
<1>1. RowOf(c) = RowIn(mem, c) /\ RowOf(c)' = RowIn(mem, c)'
  BY DEF RowOf, RowIn
<1> DEFINE r == RowOf(c)
           q == RowOf(c)'
<1>2. Reaches(r, q, now)
  BY <1>1
<1> HIDE DEF r, q
<1>3. CASE q = r
  BY <1>3 DEF Promise!pvars, r, q
<1>4. CASE r = NoRow /\ \E d \in Instants : q = NewRow(d)
  <2>1. PICK d \in Instants : q = NewRow(d)
    BY <1>4
  <2>2. q.deadlineAt = d
    BY <2>1 DEF NewRow
  <2> QED
    BY <1>4, <2>1, <2>2, SameLifecycle
    DEF Promise!PNext, Promise!Raised, Promise!Exists, r, q
<1>5. CASE r.status = "outstanding" /\ r # NoRow
  <2>1. CASE \E at \in 1 .. now, event \in {"accept", "contest"} :
               at < r.deadlineAt /\ q = After(r, event, at)
    BY <1>5, <2>1, SameLifecycle
    DEF Promise!PNext, Promise!StudentDecides, Promise!Exists, Promise!Step,
        r, q
  <2>2. CASE r.deadlineAt <= now /\ q = After(r, "deadlineElapsed", now)
    BY <1>5, <2>2, SameLifecycle
    DEF Promise!PNext, Promise!DeadlineAccepts, Promise!Exists, Promise!Step,
        r, q
  <2>3. CASE \E at \in r.deadlineAt .. now :
               q = After(After(r, "deadlineElapsed", at), "pay", at)
    BY <1>5, <2>3, SameLifecycle
    DEF Promise!PNext, Promise!DeadlineAcceptsThenPaid, Promise!Exists,
        Promise!Step, r, q
  <2>4. CASE q = r
    BY <1>3, <2>4
  <2> QED
    BY <1>2, <1>5, <2>1, <2>2, <2>3, <2>4 DEF Reaches
<1>6. CASE /\ r.status = "accepted"
           /\ \E at \in r.acceptedAt .. now : q = After(r, "pay", at)
  BY <1>6, SameLifecycle DEF Promise!PNext, Promise!Paid, Promise!Step, r, q
<1>7. CASE /\ r.status = "contested"
           /\ \E at \in r.contestedAt .. now, event \in OperatorEvents :
                q = After(r, event, at)
  BY <1>7, SameLifecycle
  DEF Promise!PNext, Promise!OperatorDecides, Promise!Step, r, q
<1> QED
  BY <1>2, <1>3, <1>4, <1>5, <1>6, <1>7 DEF Reaches

(***************************************************************************)
(* The operations, one by one.                                             *)
(***************************************************************************)
LEMMA StoredRow ==
  ASSUME NEW s, GoodSnapshot(s), GoodRows(s), NEW c \in DOMAIN s.charges
  PROVE  /\ s.charges[c] \in Row /\ GoodRow(s.charges[c])
         /\ s.charges[c] # NoRow /\ RowIn(s, c) = s.charges[c]
<1>1. s.charges[c] \in Row /\ GoodRow(s.charges[c])
  BY RowVersion DEF GoodRows
<1>2. s.charges[c].version # 0
  BY <1>1 DEF GoodRow, WellFormed, Stories
<1> QED
  BY <1>1, <1>2 DEF NoRow, NewRow, RowIn

LEMMA SameRowsPromised ==
  ASSUME NEW o, o.working.charges = mem.charges
  PROVE  PromisedOutcome(o)
<1>1. \A c : RowIn(o.working, c) = RowIn(mem, c)
  BY DEF RowIn
<1> QED
  BY <1>1, ReachesSame DEF PromisedOutcome

(***************************************************************************)
(* A deadline pass leaves a row alone or accepts it for the deadline.      *)
(***************************************************************************)
LEMMA ReconcilePromised ==
  ASSUME GoodState, GoodRows(mem)
  PROVE  \A c : /\ Reaches(RowIn(mem, c),
                           RowIn(ReconcileDeadlines(mem), c), now)
                /\ c \in DOMAIN mem.charges =>
                     RowIn(ReconcileDeadlines(mem), c)
                       = Reconciled(mem.charges[c], now)
<1> TAKE c
<1> DEFINE t == ReconcileDeadlines(mem)
<1>1. /\ t.charges = ReconciledCharges(mem.charges)
      /\ DOMAIN t.charges = DOMAIN mem.charges
  BY DEF ReconcileDeadlines, ReconciledCharges, GoodState, GoodSnapshot,
     Snapshot
<1> HIDE DEF t
<1>2. CASE c \in DOMAIN mem.charges
  <2> DEFINE r == mem.charges[c]
  <2>1. RowIn(t, c) = Reconciled(r, now) /\ RowIn(mem, c) = r
    BY <1>1, <1>2 DEF RowIn, ReconciledCharges
  <2>2. r # NoRow
    BY <1>2, StoredRow DEF GoodState
  <2> HIDE DEF r
  <2>3. Reaches(r, Reconciled(r, now), now)
    BY <2>2 DEF Reaches, Reconciled, Overdue, IsExpired
  <2> QED
    BY <2>1, <2>3 DEF r, t
<1>3. CASE c \notin DOMAIN mem.charges
  BY <1>1, <1>3, ReachesSame DEF RowIn, t
<1> QED
  BY <1>2, <1>3

(***************************************************************************)
(* A student's command moves its own charge one step, or through the       *)
(* deadline to its payment; the pass that precedes it moves the others.    *)
(***************************************************************************)
LEMMA CommandPromised ==
  ASSUME GoodState, GoodRows(mem),
         NEW request \in Request, request.op \in StudentEvents,
         request.resource \in DOMAIN ReconcileDeadlines(mem).charges,
         CanReceive(ReconcileDeadlines(mem).charges[request.resource].status,
                    request.op)
  PROVE  PromisedOutcome(CommandSucceeds(request))
<1> DEFINE s   == ReconcileDeadlines(mem)
           c   == request.resource
           r   == mem.charges[c]
           old == s.charges[c]
           row == After(old, request.op, now)
           w   == CommandSucceeds(request).working
<1>1. GoodSnapshot(s)
  BY ReconcileType
<1>2. c \in DOMAIN mem.charges /\ DOMAIN s.charges = DOMAIN mem.charges
  BY DEF ReconcileDeadlines, ReconciledCharges, GoodState, GoodSnapshot,
     Snapshot
<1>3. /\ r \in Row /\ GoodRow(r) /\ r # NoRow /\ RowIn(mem, c) = r
  BY <1>2, StoredRow DEF GoodState
<1>4. old = Reconciled(r, now)
  BY <1>2, ReconcilePromised DEF RowIn
<1>5. CanReceive(old.status, request.op)
  OBVIOUS
<1>6. now \in Nat /\ now >= 1 /\ r.deadlineAt \in Nat /\ r.acceptedAt \in Nat
  BY <1>3 DEF GoodState, Instants, Row
<1>7. w.charges = [s.charges EXCEPT ![c] = row]
  <2> DEFINE updated == [s EXCEPT !.charges[c] = row]
  <2>1. w = RecordSuccess(updated, request, TRUE, row)
    BY DEF CommandSucceeds, Outcome
  <2> HIDE DEF s, w
  <2>2. updated.charges = [s.charges EXCEPT ![c] = row] /\ s \in Snapshot
    BY <1>1 DEF GoodSnapshot, Snapshot
  <2>4. w.charges = updated.charges
    BY <1>1, <2>1 DEF RecordSuccess, GoodSnapshot, Snapshot
  <2> QED
    BY <2>2, <2>4
<1> HIDE DEF w, s, old
<1>8. Reaches(r, row, now)
  <2>1. CASE Overdue(r, now)
    <3>1. old = After(r, "deadlineElapsed", now)
      BY <1>4, <2>1 DEF Reconciled
    <3>2. old.status = "accepted"
      BY <3>1 DEF After, Target
    <3>3. request.op = "pay"
      BY <1>5, <3>2 DEF CanReceive, Source, StudentEvents
    <3>4. now \in r.deadlineAt .. now /\ r.status = "outstanding"
      BY <1>6, <2>1 DEF Overdue, IsExpired
    <3> QED
      BY <1>3, <3>1, <3>3, <3>4 DEF Reaches
  <2>2. CASE ~ Overdue(r, now)
    <3>1. old = r
      BY <1>4, <2>2 DEF Reconciled
    <3>2. CASE request.op \in {"accept", "contest"}
      <4>1. r.status = "outstanding" /\ now < r.deadlineAt /\ now \in 1 .. now
        BY <1>5, <1>6, <2>2, <3>1, <3>2
        DEF CanReceive, Source, Overdue, IsExpired
      <4> QED
        BY <1>3, <3>1, <3>2, <4>1 DEF Reaches
    <3>3. CASE request.op = "pay"
      <4>1. r.status = "accepted" /\ now \in r.acceptedAt .. now
        BY <1>3, <1>5, <1>6, <3>1, <3>3
        DEF CanReceive, Source, GoodRow, InTime
      <4> QED
        BY <3>1, <3>3, <4>1 DEF Reaches
    <3> QED
      BY <3>2, <3>3 DEF StudentEvents
  <2> QED
    BY <2>1, <2>2
<1> HIDE DEF row
<1>9. ASSUME NEW d PROVE Reaches(RowIn(mem, d), RowIn(w, d), now)
  <2>1. CASE d = c
    BY <1>2, <1>3, <1>7, <1>8, <2>1 DEF RowIn
  <2>2. CASE d # c
    <3>1. RowIn(w, d) = RowIn(s, d)
      BY <1>7, <2>2 DEF RowIn
    <3> QED
      BY <3>1, ReconcilePromised DEF s
  <2> QED
    BY <2>1, <2>2
<1> QED
  BY <1>9 DEF PromisedOutcome, w

LEMMA ChargeCommandPromised ==
  ASSUME GoodState, GoodRows(mem),
         NEW request \in Request, request.op \in StudentEvents
  PROVE  PromisedOutcome(ChargeCommandOutcome(request))
<1>1. ReconcileDeadlines(mem).charges = ReconciledCharges(mem.charges)
  BY DEF ReconcileDeadlines, GoodState, GoodSnapshot, Snapshot
<1>2. PromisedOutcome(ReplayOutcome(request)) /\ PromisedOutcome(Unchanged)
  <2>1. ReplayOutcome(request).working = mem /\ Unchanged.working = mem
    BY DEF ReplayOutcome, Unchanged, Outcome
  <2> QED
    BY <2>1, SameRowsPromised
<1>3. PromisedOutcome(ReconcileNowOutcome)
  <2>1. ReconcileNowOutcome.working = ReconcileDeadlines(mem)
    BY DEF ReconcileNowOutcome, Outcome
  <2> QED
    BY <2>1, ReconcilePromised DEF PromisedOutcome
<1> QED
  BY <1>1, <1>2, <1>3, CommandPromised
  DEF ChargeCommandOutcome, FailAfterReconciliation

LEMMA RaiseChargePromised ==
  ASSUME GoodState, NEW c, NEW d \in Deadlines, NEW bookingExists
  PROVE  PromisedOutcome(RaiseChargeOutcome(c, d, bookingExists))
<1> DEFINE w == RaiseChargeOutcome(c, d, bookingExists).working
           n == Len(mem.charges)
<1>1. \/ w.charges = mem.charges
      \/ w.charges = Append(mem.charges, NewRow(d))
  BY DEF RaiseChargeOutcome, Notified, Unchanged, Outcome, GoodState,
     GoodSnapshot, Snapshot
<1> HIDE DEF w
<1>2. CASE w.charges = mem.charges
  BY <1>2, SameRowsPromised DEF w
<1>3. CASE w.charges = Append(mem.charges, NewRow(d))
  <2>1. mem.charges \in Seq(Row) /\ NewRow(d) \in Row /\ d \in Instants
    BY NewRowType, SeedAssumption DEF GoodState, GoodSnapshot, Snapshot
  <2>2. /\ w.charges \in Seq(Row) /\ Len(w.charges) = n + 1
        /\ \A i \in 1 .. n : w.charges[i] = mem.charges[i]
        /\ w.charges[n + 1] = NewRow(d)
    BY <1>3, <2>1, AppendProperties
  <2>3. /\ n \in Nat /\ DOMAIN mem.charges = 1 .. n
        /\ DOMAIN w.charges = 1 .. n + 1
    BY <2>1, <2>2, LenProperties
  <2> HIDE DEF n
  <2>4. \A i : \/ RowIn(w, i) = RowIn(mem, i)
               \/ RowIn(mem, i) = NoRow /\ RowIn(w, i) = NewRow(d)
    BY <2>2, <2>3 DEF RowIn
  <2>5. Reaches(NoRow, NewRow(d), now)
    BY <2>1 DEF Reaches
  <2> QED
    BY <2>4, <2>5, ReachesSame DEF PromisedOutcome, w
<1> QED
  BY <1>1, <1>2, <1>3

LEMMA ResolveChargePromised ==
  ASSUME GoodState, GoodRows(mem), NEW c, NEW event \in OperatorEvents
  PROVE  PromisedOutcome(ResolveChargeOutcome(c, event))
<1> DEFINE w   == ResolveChargeOutcome(c, event).working
           r   == mem.charges[c]
           row == After(r, event, now)
<1>1. \/ w.charges = mem.charges
      \/ /\ c \in DOMAIN mem.charges /\ CanReceive(r.status, event)
         /\ w.charges = [mem.charges EXCEPT ![c] = row]
  <2> HIDE DEF row
  <2>1. w = IF c \in DOMAIN mem.charges /\ CanReceive(r.status, event)
            THEN Notified([mem EXCEPT !.charges[c] = row], c) ELSE mem
    BY DEF ResolveChargeOutcome, Unchanged, Outcome, row
  <2> HIDE DEF w
  <2> QED
    BY <2>1 DEF Notified, GoodState, GoodSnapshot, Snapshot
<1> HIDE DEF w
<1>2. CASE w.charges = mem.charges
  BY <1>2, SameRowsPromised DEF w
<1>3. CASE /\ c \in DOMAIN mem.charges /\ CanReceive(r.status, event)
           /\ w.charges = [mem.charges EXCEPT ![c] = row]
  <2>1. /\ r \in Row /\ GoodRow(r) /\ RowIn(mem, c) = r
    BY <1>3, StoredRow DEF GoodState
  <2> HIDE DEF r
  <2>2. r.status = "contested" /\ now \in r.contestedAt .. now
    BY <1>3, <2>1
    DEF CanReceive, Source, OperatorEvents, GoodRow, InTime, GoodState, Row,
        Instants
  <2>3. Reaches(r, row, now)
    BY <2>2 DEF Reaches
  <2> HIDE DEF row
  <2>4. \A i : \/ RowIn(w, i) = RowIn(mem, i)
               \/ RowIn(mem, i) = r /\ RowIn(w, i) = row
    BY <1>3, <2>1 DEF RowIn
  <2> QED
    BY <2>3, <2>4, ReachesSame DEF PromisedOutcome, w
<1> QED
  BY <1>1, <1>2, <1>3

(***************************************************************************)
(* A commit that becomes visible is one step of every charge's promise; an *)
(* unconfirmed one is a step the next process may show.                    *)
(***************************************************************************)
LEMMA CommitPromised ==
  ASSUME GoodState, Linked, NEW o, GoodOutcome(o), SoundOutcome(o),
         PromisedOutcome(o), Commit(o)
  PROVE  Linked' /\ PromiseKept
<1> DEFINE w == Working(o)
           e == Encoded(w)
<1>1. w.charges = o.working.charges /\ w.epoch = mem.epoch
  BY DEF Working, GoodOutcome, GoodSnapshot, Snapshot, SoundOutcome
<1>2. e.charges = w.charges /\ e.epoch = w.epoch
  BY WorkingType, EncodedSound
<1>3. /\ now' = now
      /\ \/ mem' = w /\ disk' = e
         \/ mem' = mem /\ disk' = disk
         \/ mem' = mem /\ disk' = e
  BY DEF Commit, CommitDone, CommitFailed, CommitUnsynced, Answer
<1> HIDE DEF w, e
<1>4. \A c : /\ Reaches(RowIn(mem, c), RowIn(w, c), now)
             /\ RowIn(e, c) = RowIn(w, c)
  BY <1>1, <1>2 DEF PromisedOutcome, RowIn
<1>5. Linked'
  BY <1>1, <1>2, <1>3, <1>4, ReachesSame DEF Linked
<1>6. \A c : Reaches(RowIn(mem, c), RowIn(mem, c)', now)
  <2>1. \A c : RowIn(mem, c)' = RowIn(mem', c)
    BY DEF RowIn
  <2> QED
    BY <1>3, <1>4, <2>1, ReachesSame
<1>7. mem'.epoch = mem.epoch
  BY <1>1, <1>3
<1> QED
  BY <1>3, <1>5, <1>6, <1>7, ReachesNext DEF PromiseKept

LEMMA SameRowsKeepPromise ==
  ASSUME GoodState, Linked, NEW o, GoodOutcome(o), SoundOutcome(o),
         o.working.charges = mem.charges, Commit(o)
  PROVE  Linked' /\ PromiseKept
BY SameRowsPromised, CommitPromised

LEMMA StudentPromised ==
  ASSUME LegalState, Committed, Linked, NEW event \in StudentEvents,
         ApplyChargeCommand(event)
  PROVE  Linked' /\ PromiseKept
<1>1. PICK k \in Keys, c \in ChargeIds, e \in EpochsSeen,
           v \in 1 .. MaxVersion :
        Commit(ChargeCommandOutcome([key |-> k, op |-> event, resource |-> c,
                                     epoch |-> e, version |-> v]))
  BY DEF ApplyChargeCommand
<1> DEFINE request == [key |-> k, op |-> event, resource |-> c,
                       epoch |-> e, version |-> v]
<1>2. request \in Request /\ request.op \in StudentEvents
  BY BoundAssumption DEF Request, ChargeIds, EpochsSeen, LegalState, GoodState
<1> HIDE DEF request
<1>3. /\ GoodOutcome(ChargeCommandOutcome(request))
      /\ SoundOutcome(ChargeCommandOutcome(request))
      /\ PromisedOutcome(ChargeCommandOutcome(request))
  BY <1>2, ChargeCommandType, ChargeCommandSound, ChargeCommandPromised
  DEF LegalState, Committed
<1> QED
  BY <1>1, <1>3, CommitPromised DEF LegalState, request

(***************************************************************************)
(* Nothing about the rows or the epoch changed.                            *)
(***************************************************************************)
LEMMA QuietKeepsPromise ==
  ASSUME mem' = mem, now' = now
  PROVE  PromiseKept
<1>1. \A c : RowIn(mem, c)' = RowIn(mem, c)
  BY DEF RowIn
<1> QED
  BY <1>1, ReachesSame, ReachesNext DEF PromiseKept

(***************************************************************************)
(* A later epoch starts from the seed, all rows at once.                   *)
(***************************************************************************)
LEMMA ReseedKeepsPromise ==
  ASSUME now' = now, mem'.charges = SeedCharges, mem'.epoch > mem.epoch
  PROVE  PromiseKept
<1> SUFFICES ASSUME NEW c \in ChargeIds
             PROVE  Promise(c)!Reseeded
  BY DEF PromiseKept, Promise!PNext
<1> DEFINE q == RowOf(c)'
<1>1. q = IF c \in DOMAIN SeedCharges THEN SeedCharges[c] ELSE NoRow
  BY DEF RowOf
<1> HIDE DEF q
<1>2. q = NoRow \/ (WellFormed(q) /\ InTime(q, 1))
  BY <1>1, SeedAssumption
<1> QED
  BY <1>2, SameLifecycle DEF Promise!Reseeded, q

LEMMA StepPromised ==
  ASSUME LegalState, Committed, Linked, [Next]_vars
  PROVE  Linked' /\ PromiseKept
<1> GoodState /\ GoodRows(mem) /\ SoundEffects(mem)
  BY DEF LegalState, Committed
<1>1. CASE AcceptCharge
  BY <1>1, StudentPromised DEF AcceptCharge, StudentEvents
<1>2. CASE ContestCharge
  BY <1>2, StudentPromised DEF ContestCharge, StudentEvents
<1>3. CASE PayCharge
  BY <1>3, StudentPromised DEF PayCharge, StudentEvents
<1>4. CASE CreateTask
  <2>1. PICK k \in Keys, t \in Tasks, e \in EpochsSeen, b \in BOOLEAN :
          Commit(CreateTaskOutcome([key |-> k, op |-> "createTask",
                                    resource |-> t, epoch |-> e,
                                    version |-> 0], b))
    BY <1>4 DEF CreateTask
  <2> DEFINE request == [key |-> k, op |-> "createTask", resource |-> t,
                         epoch |-> e, version |-> 0]
             o       == CreateTaskOutcome(request, b)
  <2>2. /\ request \in Request /\ request.resource \in Tasks
        /\ request.op = "createTask"
    BY DEF Request, EpochsSeen, GoodState
  <2> HIDE DEF request
  <2>3. GoodOutcome(o) /\ SoundOutcome(o)
    BY <2>2, CreateTaskType, CreateTaskSound
  <2>4. o.working.charges = mem.charges
    <3>1. ReplayOutcome(request).working = mem /\ Unchanged.working = mem
      BY DEF ReplayOutcome, Unchanged, Outcome
    <3>2. TaskCreated(request).working.charges = mem.charges
      BY DEF TaskCreated, RecordSuccess, Outcome, GoodState, GoodSnapshot,
             Snapshot
    <3> QED
      BY <3>1, <3>2 DEF CreateTaskOutcome
  <2> HIDE DEF o
  <2> QED
    BY <2>1, <2>3, <2>4, SameRowsKeepPromise DEF request, o
<1>5. CASE MarkNotificationRead
  <2>1. PICK n \in DOMAIN mem.notifications, e \in EpochsSeen :
          Commit(MarkReadOutcome(n, e))
    BY <1>5 DEF MarkNotificationRead
  <2>2. n \in Nat
    BY LenProperties DEF GoodState, GoodSnapshot, Snapshot
  <2>3. MarkReadOutcome(n, e).working.charges = mem.charges
    BY DEF MarkReadOutcome, Unchanged, Outcome, GoodState, GoodSnapshot,
           Snapshot
  <2> QED
    BY <2>1, <2>2, <2>3, MarkReadType, MarkReadSound, SameRowsKeepPromise
<1>6. CASE DevRaiseCharge
  <2>1. PICK c \in ChargeIds, d \in Deadlines, b \in BOOLEAN :
          Commit(RaiseChargeOutcome(c, d, b))
    BY <1>6 DEF DevRaiseCharge
  <2>2. c \in Nat
    BY BoundAssumption DEF ChargeIds
  <2> QED
    BY <2>1, <2>2, RaiseChargeType, RaiseChargeSound, RaiseChargePromised,
       CommitPromised
<1>7. CASE DevResolveCharge
  <2>1. PICK c \in ChargeIds, event \in OperatorEvents :
          Commit(ResolveChargeOutcome(c, event))
    BY <1>7 DEF DevResolveCharge
  <2>2. c \in Nat
    BY BoundAssumption DEF ChargeIds
  <2> QED
    BY <2>1, <2>2, ResolveChargeType, ResolveChargeSound,
       ResolveChargePromised, CommitPromised
<1>8. CASE ReconcileNow
  <2>1. PromisedOutcome(ReconcileNowOutcome)
    BY ReconcilePromised DEF PromisedOutcome, ReconcileNowOutcome, Outcome
  <2> QED
    BY <1>8, <2>1, ReconcileType, ReconcileSound, CommitPromised
    DEF ReconcileNow
<1>9. CASE Reset
  <2> DEFINE s == SeedSnapshot(epochsIssued + 1)
  <2>1. /\ now' = now
        /\ \/ mem' = s /\ disk' = s
           \/ mem' = mem /\ disk' = disk
           \/ mem' = mem /\ disk' = s
    BY <1>9 DEF Reset
  <2>2. s.charges = SeedCharges /\ s.epoch = epochsIssued + 1
    BY DEF SeedSnapshot
  <2>3. /\ epochsIssued \in Nat /\ mem.epoch \in Nat /\ disk.epoch \in Nat
        /\ mem.epoch <= disk.epoch /\ disk.epoch <= epochsIssued
    BY DEF GoodState, GoodSnapshot, Snapshot, Committed, EpochsOrdered
  <2> HIDE DEF s
  <2>4. s.epoch > mem.epoch
    BY <2>2, <2>3
  <2>5. Linked'
    BY <2>1, <2>2, <2>3, <2>4, ReachesSame DEF Linked
  <2> QED
    BY <2>1, <2>2, <2>4, <2>5, QuietKeepsPromise, ReseedKeepsPromise
<1>10. CASE Restart
  <2>1. mem' = disk /\ disk' = disk /\ now' = now
    BY <1>10 DEF Restart
  <2>2. Linked'
    BY <2>1, ReachesSame DEF Linked
  <2>3. CASE disk.epoch = mem.epoch
    <3>1. \A c : RowIn(mem, c)' = RowIn(disk, c)
      BY <2>1 DEF RowIn
    <3> QED
      BY <2>1, <2>2, <2>3, <3>1, ReachesNext DEF Linked, PromiseKept
  <2>4. CASE disk.epoch # mem.epoch
    <3>1. mem.epoch \in Nat /\ disk.epoch \in Nat /\ mem.epoch <= disk.epoch
      BY DEF GoodState, GoodSnapshot, Snapshot, Committed, EpochsOrdered
    <3> QED
      BY <2>1, <2>2, <2>4, <3>1, ReseedKeepsPromise DEF Linked
  <2> QED
    BY <2>3, <2>4
<1>11. CASE Tick
  <2>1. mem' = mem /\ disk' = disk /\ now' = now + 1 /\ now \in Nat
    BY <1>11 DEF Tick, GoodState, Instants
  <2>2. \A c : RowIn(mem, c) \in Row
    BY RowVersion, NoRowType DEF RowIn, GoodState
  <2>3. Linked'
    <3>1. \A c : /\ RowIn(mem, c)' = RowIn(mem, c)
                 /\ RowIn(disk, c)' = RowIn(disk, c)
      BY <2>1 DEF RowIn
    <3> QED
      BY <2>1, <2>2, <3>1, ReachesLater DEF Linked
  <2>4. PromiseKept
    <3>1. \A c : RowOf(c)' = RowOf(c)
      BY <2>1 DEF RowOf
    <3> QED
      BY <2>1, <3>1 DEF PromiseKept, Promise!PNext, Promise!TimePasses
  <2> QED
    BY <2>3, <2>4
<1>12. CASE UNCHANGED vars
  <2>1. mem' = mem /\ disk' = disk /\ now' = now
    BY <1>12 DEF vars
  <2>2. Linked'
    BY <2>1 DEF Linked, RowIn
  <2> QED
    BY <2>1, <2>2, QuietKeepsPromise
<1> QED
  BY <1>1, <1>2, <1>3, <1>4, <1>5, <1>6, <1>7, <1>8, <1>9, <1>10, <1>11, <1>12
  DEF Next

LEMMA InitPromised ==
  ASSUME Init
  PROVE  /\ Linked
         /\ \A c \in ChargeIds : Promise(c)!PInit
<1>1. mem = disk /\ now = 1 /\ mem.charges = SeedCharges /\ mem.epoch = 1
  BY DEF Init, SeedSnapshot
<1>2. Linked
  BY <1>1, ReachesSame DEF Linked
<1>3. ASSUME NEW c \in ChargeIds PROVE Promise(c)!PInit
  <2>1. RowOf(c) = IF c \in DOMAIN SeedCharges THEN SeedCharges[c] ELSE NoRow
    BY <1>1 DEF RowOf
  <2>2. \/ RowOf(c) = NoRow
        \/ WellFormed(RowOf(c)) /\ InTime(RowOf(c), now)
    BY <1>1, <2>1, SeedAssumption
  <2> QED
    BY <1>1, <2>2, SameLifecycle DEF Promise!PInit
<1> QED
  BY <1>2, <1>3

(***************************************************************************)
(* The store implements the contract's promise to every charge: whatever   *)
(* mix of commands, deadline passes, unconfirmed writes, restarts and      *)
(* resets moves it, the row the process serves takes only the promise's    *)
(* steps.                                                                  *)
(***************************************************************************)
THEOREM PromiseIsKept == Spec => RefinesPromise
<1> DEFINE Inv == LegalState /\ Committed
<1>1. Init => Linked /\ \A c \in ChargeIds : Promise(c)!PInit
  BY InitPromised
<1>2. Inv /\ Linked /\ [Next]_vars => Linked' /\ [PromiseKept]_vars
  BY StepPromised
<1>3. [PromiseKept]_vars
        => [\A c \in ChargeIds : [Promise(c)!PNext]_(Promise(c)!pvars)]_vars
  BY DEF PromiseKept
<1>4. Spec => []Inv
  BY CommittedInvariant
<1> HIDE DEF Inv
<1> QED
  BY <1>1, <1>2, <1>3, <1>4, PTL DEF Spec, RefinesPromise
=============================================================================
