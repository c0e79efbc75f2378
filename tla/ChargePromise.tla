---------------------------- MODULE ChargePromise ----------------------------
(***************************************************************************)
(* What the contract promises about one charge (docs/contract-v1.md,       *)
(* sections 4 and 5), without a store, a ledger, a file or a process: the  *)
(* row only moves along the lifecycle, a student acts before the deadline  *)
(* or not at all, the deadline itself accepts what was left outstanding,   *)
(* and only a reset, which changes the state epoch, starts over.           *)
(*                                                                         *)
(* A step may become visible after the instant it is stamped with: a       *)
(* process that dies between writing a commit and answering shows it when  *)
(* the next process loads the file.                                        *)
(***************************************************************************)
EXTENDS ChargeLifecycle

VARIABLES now, epoch, row

pvars == <<now, epoch, row>>

Exists == row # NoRow

PInit ==
  /\ now = 1
  /\ epoch = 1
  /\ row = NoRow \/ (WellFormed(row) /\ InTime(row, now))

Step(next) == row' = next /\ UNCHANGED <<now, epoch>>

Raised ==
  /\ ~ Exists
  /\ row' = NewRow(row'.deadlineAt) /\ row'.deadlineAt \in Instants
  /\ UNCHANGED <<now, epoch>>

StudentDecides ==
  /\ row.status = "outstanding" /\ Exists
  /\ \E at \in 1 .. now, event \in {"accept", "contest"} :
       /\ at < row.deadlineAt
       /\ Step(After(row, event, at))

DeadlineAccepts ==
  /\ row.status = "outstanding" /\ Exists
  /\ row.deadlineAt <= now
  /\ Step(After(row, "deadlineElapsed", now))

Paid ==
  /\ row.status = "accepted"
  /\ \E at \in row.acceptedAt .. now : Step(After(row, "pay", at))

(***************************************************************************)
(* A Pay that names the version the deadline is about to create meets an   *)
(* overdue charge: one commit accepts it and pays it.                      *)
(***************************************************************************)
DeadlineAcceptsThenPaid ==
  /\ row.status = "outstanding" /\ Exists
  /\ \E at \in row.deadlineAt .. now :
       Step(After(After(row, "deadlineElapsed", at), "pay", at))

OperatorDecides ==
  /\ row.status = "contested"
  /\ \E at \in row.contestedAt .. now, event \in OperatorEvents :
       Step(After(row, event, at))

Reseeded ==
  /\ epoch' > epoch
  /\ row' = NoRow \/ (WellFormed(row') /\ InTime(row', 1))
  /\ UNCHANGED now

TimePasses == now' = now + 1 /\ UNCHANGED <<epoch, row>>

PNext ==
  \/ Raised \/ StudentDecides \/ DeadlineAccepts \/ Paid
  \/ DeadlineAcceptsThenPaid \/ OperatorDecides \/ Reseeded \/ TimePasses

PSpec == PInit /\ [][PNext]_pvars
=============================================================================
