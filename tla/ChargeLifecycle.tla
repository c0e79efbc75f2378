--------------------------- MODULE ChargeLifecycle ---------------------------
(***************************************************************************)
(* The pure charge lifecycle of app/domain/charge_state.py, the inclusive  *)
(* deadline test of app/domain/deadline.py, and the row a charge is stored *)
(* as.  Instants are positive naturals; 0 stands for a null timestamp.     *)
(***************************************************************************)
EXTENDS Naturals

Unset == 0
Instants == Nat \ {0}

Statuses == {"outstanding", "accepted", "contested", "resolved", "paid"}

StudentEvents  == {"accept", "contest", "pay"}
SystemEvents   == {"deadlineElapsed"}
OperatorEvents == {"operatorUphold", "operatorDismiss"}
Events == StudentEvents \cup SystemEvents \cup OperatorEvents

(***************************************************************************)
(* _TRANSITIONS pairs every event with exactly one source status, so the   *)
(* table is two functions of the event.                                    *)
(***************************************************************************)
Source == [ accept          |-> "outstanding",
            contest         |-> "outstanding",
            deadlineElapsed |-> "outstanding",
            pay             |-> "accepted",
            operatorUphold  |-> "contested",
            operatorDismiss |-> "contested" ]

Target == [ accept          |-> "accepted",
            contest         |-> "contested",
            deadlineElapsed |-> "accepted",
            pay             |-> "paid",
            operatorUphold  |-> "accepted",
            operatorDismiss |-> "resolved" ]

(* Mutant: a student may still contest what is already accepted. *)
CanReceiveContestAccepted(status, event) ==
  status = Source[event] \/ (event = "contest" /\ status = "accepted")

CanReceive(status, event) == status = Source[event]

Origins == {"none", "student", "deadline", "operator"}

(* Mutant: the origin is recorded as the name of the event. *)
AcceptanceOriginEventName == [ accept          |-> "accept",
                               deadlineElapsed |-> "deadlineElapsed",
                               operatorUphold  |-> "operatorUphold" ]

AcceptanceOrigin == [ accept          |-> "student",
                      deadlineElapsed |-> "deadline",
                      operatorUphold  |-> "operator" ]

(* Mutant: the boundary instant is not expired yet. *)
IsExpiredExclusive(now, deadlineAt) == now > deadlineAt

IsExpired(now, deadlineAt) == now >= deadlineAt

(***************************************************************************)
(* A stored charge: its status, optimistic-lock version and the timestamps *)
(* its lifecycle fills in.  Descriptive fields never change and are left   *)
(* out, and so is updatedAt, which nothing reads back.                     *)
(***************************************************************************)
Row == [ status      : Statuses,
         version     : Nat,
         deadlineAt  : Instants,
         acceptedAt  : Nat,
         origin      : Origins,
         contestedAt : Nat,
         resolvedAt  : Nat,
         paidAt      : Nat ]

NewRow(deadlineAt) ==
  [ status |-> "outstanding", version |-> 1, deadlineAt |-> deadlineAt,
    acceptedAt |-> Unset, origin |-> "none",
    contestedAt |-> Unset, resolvedAt |-> Unset, paidAt |-> Unset ]

(* The row of a charge that does not exist. *)
NoRow == [NewRow(1) EXCEPT !.version = 0]

(***************************************************************************)
(* What a legal event writes into the row.  `at' is the handler's clock    *)
(* reading; deadlineElapsed stamps the deadline itself instead.            *)
(***************************************************************************)
AcceptedAt(row, event, at) ==
  IF event = "deadlineElapsed" THEN row.deadlineAt ELSE at

Accepts(event) == Target[event] = "accepted"

After(row, event, at) ==
  [ status      |-> Target[event],
    version     |-> row.version + 1,
    deadlineAt  |-> row.deadlineAt,
    acceptedAt  |-> IF Accepts(event) THEN AcceptedAt(row, event, at)
                                      ELSE row.acceptedAt,
    origin      |-> IF Accepts(event) THEN AcceptanceOrigin[event]
                                      ELSE row.origin,
    contestedAt |-> IF event = "contest" THEN at ELSE row.contestedAt,
    resolvedAt  |-> IF event = "operatorDismiss" THEN at ELSE row.resolvedAt,
    paidAt      |-> IF event = "pay" THEN at ELSE row.paidAt ]

(***************************************************************************)
(* One deadline pass over one row (the body of _reconcile_deadlines).      *)
(***************************************************************************)
Overdue(row, now) ==
  row.status = "outstanding" /\ IsExpired(now, row.deadlineAt)

Reconciled(row, now) ==
  IF Overdue(row, now) THEN After(row, "deadlineElapsed", now) ELSE row

(***************************************************************************)
(* What a row's fields say of one another (export_fixtures.py demands much *)
(* of this from the seed): status, origin and version name one of the      *)
(* lifecycle's nine stories, and the timestamps are those the story fills  *)
(* in.                                                                     *)
(***************************************************************************)
Stories ==
  { <<"outstanding", "none", 1>>, <<"contested", "none", 2>>,
    <<"resolved", "none", 3>>,
    <<"accepted", "student", 2>>, <<"accepted", "deadline", 2>>,
    <<"accepted", "operator", 3>>,
    <<"paid", "student", 3>>, <<"paid", "deadline", 3>>,
    <<"paid", "operator", 4>> }

WellFormed(row) ==
  /\ <<row.status, row.origin, row.version>> \in Stories
  /\ row.acceptedAt # Unset <=> row.origin # "none"
  /\ row.contestedAt # Unset <=>
       row.status \in {"contested", "resolved"} \/ row.origin = "operator"
  /\ row.resolvedAt # Unset <=> row.status = "resolved"
  /\ row.paidAt # Unset <=> row.status = "paid"

(***************************************************************************)
(* How a row's timestamps lie around its deadline, at time `now'.          *)
(***************************************************************************)
InTime(row, now) ==
  /\ row.origin = "student" => row.acceptedAt < row.deadlineAt
  /\ row.origin = "deadline" => row.acceptedAt = row.deadlineAt
  /\ row.contestedAt # Unset => row.contestedAt < row.deadlineAt
  /\ row.origin = "operator" => row.contestedAt <= row.acceptedAt
  /\ row.resolvedAt # Unset => row.contestedAt <= row.resolvedAt
  /\ row.paidAt # Unset => row.acceptedAt <= row.paidAt
  /\ row.acceptedAt <= now /\ row.contestedAt <= now
  /\ row.resolvedAt <= now /\ row.paidAt <= now
=============================================================================
