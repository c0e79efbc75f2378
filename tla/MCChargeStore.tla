---------------------------- MODULE MCChargeStore ----------------------------
(* Instances of ChargeStore small enough for TLC. *)
EXTENDS ChargeStore, TLC

(* The store never looks at a key but to compare it. *)
KeySymmetry == Permutations(Keys)

Fresh == NewRow(2)

SeedOne == <<Fresh>>
=============================================================================
