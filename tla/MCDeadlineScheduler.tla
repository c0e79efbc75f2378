------------------------ MODULE MCDeadlineScheduler ------------------------
(* Instances of DeadlineScheduler small enough for TLC. *)
EXTENDS DeadlineScheduler

CONSTANTS c1, c2

(* The seed's only outstanding charge is c1, with the middle deadline. *)
SeedC1 == [c \in Charges |-> IF c = c1 THEN 3 ELSE Unset]
=============================================================================
