------------------------ MODULE MCRuntimeDirectory ------------------------
(* Instances of RuntimeDirectory small enough for TLC. *)
EXTENDS RuntimeDirectory, TLC

CONSTANT c1

(* The seed has c1 at 12 units, itemised in its own way. *)
SeedRowsC1 ==
  [c \in Charges |->
     IF c = c1 THEN [ amount |-> 12,
                      breakdown |-> [materials |-> 6, labour |-> 4, service |-> 0,
                                     tax |-> 2, rounding |-> 0] ]
     ELSE NoRow]

Symmetry ==
  Permutations(Backends) \cup Permutations(Scripts) \cup Permutations(Inodes)
    \cup Permutations(Ids)
=============================================================================
