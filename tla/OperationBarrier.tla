-------------------------- MODULE OperationBarrier --------------------------
(***************************************************************************)
(* OperationBarrier of app/db/store.py: the shared/exclusive lease taken   *)
(* by every finite operation, built on an asyncio.Condition.               *)
(*                                                                         *)
(* The condition's own lock is held only between two suspension points:    *)
(* its holders suspend nowhere but in wait(), which gives it up.  So the   *)
(* lock is never contended, and each stretch from one suspension to the    *)
(* next is one action: asking for the lease (Ask), looking again after a   *)
(* notification (Recheck), and giving the lease back (Leave).              *)
(***************************************************************************)
EXTENDS Naturals, FiniteSets

CONSTANT Tasks  \* the coroutines that ask for leases

ASSUME TasksFinite == IsFiniteSet(Tasks)

VARIABLES shared,     \* _shared, the number of shared leases
          exclusive,  \* _exclusive
          mode,       \* the lease each task asks for or holds, or "none"
          place       \* where each task is in shared() or exclusive()

barrierVars == <<shared, exclusive, mode, place>>

BarrierInit ==
  /\ shared = 0
  /\ exclusive = FALSE
  /\ mode = [t \in Tasks |-> "none"]
  /\ place = [t \in Tasks |-> "away"]

(***************************************************************************)
(* The condition under which a lease of mode m is waited for.              *)
(***************************************************************************)
Blocked(m) == exclusive \/ (m = "exclusive" /\ shared > 0)

(***************************************************************************)
(* One turn of the while loop: take the lease, or wait to be notified.     *)
(***************************************************************************)
TakeOrWait(t, m) ==
  \/ /\ ~ Blocked(m)
     /\ place' = [place EXCEPT ![t] = "inside"]
     /\ shared' = IF m = "shared" THEN shared + 1 ELSE shared
     /\ exclusive' = (exclusive \/ m = "exclusive")
  \/ /\ Blocked(m)
     /\ place' = [place EXCEPT ![t] = "parked"]
     /\ UNCHANGED <<shared, exclusive>>

(* Mutant: `if' where the code has `while': a notified task goes in.       *)
TakeAnyway(t, m) ==
  /\ place' = [place EXCEPT ![t] = "inside"]
  /\ shared' = IF m = "shared" THEN shared + 1 ELSE shared
  /\ exclusive' = (exclusive \/ m = "exclusive")

Ask(t, m) ==
  /\ place[t] = "away"
  /\ mode' = [mode EXCEPT ![t] = m]
  /\ TakeOrWait(t, m)

(***************************************************************************)
(* A task that was notified runs again, after any others that came first,  *)
(* and tests the condition anew.                                           *)
(***************************************************************************)
RecheckWithIf(t) ==
  /\ place[t] = "woken"
  /\ TakeAnyway(t, mode[t])
  /\ UNCHANGED mode

Recheck(t) ==
  /\ place[t] = "woken"
  /\ TakeOrWait(t, mode[t])
  /\ UNCHANGED mode

(* Mutant: nobody is told. *)
NotifyNobody(p) == p

(* Mutant: notify(), which wakes one of those that wait.                   *)
NotifyOne(p) ==
  IF \E s \in Tasks : p[s] = "parked"
    THEN [p EXCEPT ![CHOOSE s \in Tasks : p[s] = "parked"] = "woken"]
    ELSE p

(***************************************************************************)
(* notify_all: every waiting task will look again.                         *)
(***************************************************************************)
NotifyAll(p) == [s \in Tasks |-> IF p[s] = "parked" THEN "woken" ELSE p[s]]

(***************************************************************************)
(* The finally clauses: give the lease back and tell everyone.             *)
(***************************************************************************)
(* Mutant: only the end of a reset is announced. *)
LeaveSharedSilently(t) ==
  /\ place[t] = "inside"
  /\ shared' = IF mode[t] = "shared" THEN shared - 1 ELSE shared
  /\ exclusive' = (exclusive /\ mode[t] # "exclusive")
  /\ mode' = [mode EXCEPT ![t] = "none"]
  /\ place' = IF mode[t] = "shared" THEN [place EXCEPT ![t] = "away"]
                                    ELSE NotifyAll([place EXCEPT ![t] = "away"])

(* Mutant: the counter is a flag: the first to leave clears it.             *)
LeaveClears(t) ==
  /\ place[t] = "inside"
  /\ shared' = IF mode[t] = "shared" THEN 0 ELSE shared
  /\ exclusive' = (exclusive /\ mode[t] # "exclusive")
  /\ mode' = [mode EXCEPT ![t] = "none"]
  /\ place' = NotifyAll([place EXCEPT ![t] = "away"])

Leave(t) ==
  /\ place[t] = "inside"
  /\ shared' = IF mode[t] = "shared" THEN shared - 1 ELSE shared
  /\ exclusive' = (exclusive /\ mode[t] # "exclusive")
  /\ mode' = [mode EXCEPT ![t] = "none"]
  /\ place' = NotifyAll([place EXCEPT ![t] = "away"])

BarrierNext ==
  \E t \in Tasks :
    \/ \E m \in {"shared", "exclusive"} : Ask(t, m)
    \/ Recheck(t)
    \/ Leave(t)

BarrierSpec == BarrierInit /\ [][BarrierNext]_barrierVars

-----------------------------------------------------------------------------
(* Properties. *)

Holders(m) == { t \in Tasks : place[t] = "inside" /\ mode[t] = m }

BarrierTypeOK ==
  /\ shared \in Nat
  /\ exclusive \in BOOLEAN
  /\ mode \in [Tasks -> {"none", "shared", "exclusive"}]
  /\ place \in [Tasks -> {"away", "parked", "woken", "inside"}]

(***************************************************************************)
(* A resetter that holds the barrier is alone: nobody else is inside, in   *)
(* either mode, though each of them tested the condition before it         *)
(* suspended and was woken in an order of its own.                         *)
(***************************************************************************)
ResetIsAlone ==
  \A t, s \in Tasks :
    (t \in Holders("exclusive") /\ place[s] = "inside") => s = t

(***************************************************************************)
(* The counter and the flag say who is inside.  A lease that was not given *)
(* back would keep every reset out for ever.                               *)
(***************************************************************************)
LeasesAreCounted ==
  /\ shared = Cardinality(Holders("shared"))
  /\ exclusive <=> Holders("exclusive") # {}

(***************************************************************************)
(* A task waits for a notification only while what keeps it out is still   *)
(* the case: the notification that would let it in is not behind it.       *)
(***************************************************************************)
NoLostWakeup == \A t \in Tasks : place[t] = "parked" => Blocked(mode[t])
=============================================================================
