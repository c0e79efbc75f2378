-------------------------- MODULE DeadlineScheduler --------------------------
(***************************************************************************)
(* The backend's own wake-ups for deadlines: _schedule_next_deadline in    *)
(* app/main.py, AsyncioScheduler in app/core/clock.py, reconcile_now and   *)
(* next_deadline_seconds in app/services/charge_service.py.                *)
(*                                                                         *)
(* One behaviour is one process, from its start on.  The two parts of a    *)
(* wake-up, reconciliation and re-arming, read the clock one after the     *)
(* other; no request is served between them, but time may pass.            *)
(***************************************************************************)
EXTENDS ChargeLifecycle, FiniteSetsExt

CONSTANTS
  Charges,
  Deadlines,       \* deadlineAt values in the state file and of new charges
  SeedDeadlines,   \* per charge: its deadline in the seed if outstanding, or Unset
  MaxTime          \* bound of the model

ASSUME DeadlineAssumption ==
  /\ Deadlines \subseteq Instants
  /\ SeedDeadlines \in [Charges -> Deadlines \cup {Unset}]
  /\ MaxTime \in Nat

VARIABLES
  now,       \* the clock
  due,       \* the deadline of every outstanding charge; Unset for any other
  timer,     \* when the sleeping task means to wake up; Unset without one
  phase,     \* "starting", "serving", or "re-arming" within a wake-up
  dropped    \* auxiliary: a fault has cut a wake-up short

vars == <<now, due, timer, phase, dropped>>

Init ==
  /\ now = 1
  /\ due \in [Charges -> Deadlines \cup {Unset}]
  /\ timer = Unset
  /\ phase = "starting"
  /\ dropped = FALSE

Outstanding == {c \in Charges : due[c] # Unset}

(* Mutant: at the boundary instant the charge is not elapsed yet. *)
ElapsedExclusive == {c \in Outstanding : now > due[c]}

Elapsed == {c \in Outstanding : IsExpired(now, due[c])}

Reconciliation == [c \in Charges |-> IF c \in Elapsed THEN Unset ELSE due[c]]

-----------------------------------------------------------------------------
(* The scheduler. *)

(***************************************************************************)
(* At startup and at the end of a wake-up: sleep until the nearest of the  *)
(* deadlines that are still ahead; with none, nothing is scheduled, and    *)
(* nobody will schedule anything again.                                    *)
(***************************************************************************)
Ahead == {due[c] : c \in {c \in Outstanding : due[c] > now}}

(* Mutant: the delay is taken for the instant to wake up at. *)
ArmByDelay ==
  /\ phase # "serving"
  /\ phase' = "serving"
  /\ timer' = IF Ahead = {} THEN Unset ELSE Min(Ahead) - now
  /\ UNCHANGED <<now, due, dropped>>

Arm ==
  /\ phase # "serving"
  /\ phase' = "serving"
  /\ timer' = IF Ahead = {} THEN Unset ELSE Min(Ahead)
  /\ UNCHANGED <<now, due, dropped>>

(***************************************************************************)
(* The task wakes up, reconciles and goes on to re-arm.  It slept by the   *)
(* event loop's clock, so the wall clock may still be short of the         *)
(* deadline.  If the commit fails the exception ends the task.             *)
(***************************************************************************)
Wake ==
  /\ phase = "serving" /\ timer # Unset
  /\ timer' = Unset
  /\ \/ /\ due' = Reconciliation
        /\ phase' = "re-arming"
        /\ UNCHANGED dropped
     \/ /\ Elapsed # {}
        /\ dropped' = TRUE
        /\ UNCHANGED <<due, phase>>
  /\ UNCHANGED now

(***************************************************************************)
(* A deadline that falls between a wake-up's two readings of the clock was *)
(* not elapsed for the first and is not ahead for the second.              *)
(***************************************************************************)
Tick ==
  /\ now < MaxTime
  /\ now' = now + 1
  /\ dropped' = \/ dropped
                \/ phase = "re-arming" /\ \E c \in Outstanding : due[c] = now'
  /\ UNCHANGED <<due, timer, phase>>

-----------------------------------------------------------------------------
(* Requests.  None of them touches the scheduler. *)

(***************************************************************************)
(* Reads reconcile; so does a student's command before it decides its      *)
(* charge.                                                                 *)
(***************************************************************************)
Read ==
  /\ phase = "serving"
  /\ due' = Reconciliation
  /\ UNCHANGED <<now, timer, phase, dropped>>

StudentDecides ==
  /\ phase = "serving"
  /\ \E c \in Outstanding \ Elapsed :
       due' = [Reconciliation EXCEPT ![c] = Unset]
  /\ UNCHANGED <<now, timer, phase, dropped>>

(***************************************************************************)
(* The operator raises a charge, with any deadline, even an elapsed one.   *)
(* (The names of decided charges are used again.)                          *)
(***************************************************************************)
RaiseCharge ==
  /\ phase = "serving"
  /\ \E c \in Charges \ Outstanding, d \in Deadlines :
       due' = [due EXCEPT ![c] = d]
  /\ UNCHANGED <<now, timer, phase, dropped>>

Reset ==
  /\ phase = "serving"
  /\ due' = SeedDeadlines
  /\ UNCHANGED <<now, timer, phase, dropped>>

Next ==
  \/ Arm \/ Wake \/ Tick
  \/ Read \/ StudentDecides \/ RaiseCharge \/ Reset

Spec == Init /\ [][Next]_vars

(***************************************************************************)
(* The clock goes on, a sleep ends once its time has come, and the event   *)
(* loop finishes what a wake-up began.  Nobody has to send a request.      *)
(***************************************************************************)
WakeInTime == timer <= now /\ Wake

Fairness == WF_vars(Tick) /\ WF_vars(WakeInTime) /\ WF_vars(Arm)

FairSpec == Spec /\ Fairness

-----------------------------------------------------------------------------
(* Properties. *)

(***************************************************************************)
(* Type invariant; a task always sleeps until the deadline of a charge.    *)
(***************************************************************************)
TypeOK ==
  /\ now \in Instants
  /\ due \in [Charges -> Deadlines \cup {Unset}]
  /\ timer \in Deadlines \cup {Unset}
  /\ phase \in {"starting", "serving", "re-arming"}
  /\ dropped \in BOOLEAN

(***************************************************************************)
(* While a task sleeps, no outstanding charge is forgotten: also one       *)
(* raised since with an earlier deadline, one brought by a reset and one   *)
(* that was overdue when the process started is decided in the end,        *)
(* without any request, by this wake-up or by one that follows from it.    *)
(* Reconciliation's now >= deadline and re-arming's deadline > now leave   *)
(* no charge between them, unless a commit fails or a deadline falls       *)
(* between the two.                                                        *)
(***************************************************************************)
SleeperForgetsNobody ==
  \A c \in Charges :
    (timer # Unset /\ c \in Outstanding) ~> (c \notin Outstanding \/ dropped)

-----------------------------------------------------------------------------
(* What the documents say and the code does not do. *)

(***************************************************************************)
(* docs/contract-v1.md, section 5: the server reconciles deadlines from    *)
(* its own scheduler, so an elapsed charge does not wait for a request.    *)
(***************************************************************************)
SchedulerReconciles ==
  \A c \in Charges : (c \in Elapsed) ~> (c \notin Elapsed \/ dropped)
=============================================================================
