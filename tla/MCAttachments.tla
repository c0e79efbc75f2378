--------------------------- MODULE MCAttachments ---------------------------
(* Instances of Attachments small enough for TLC. *)
EXTENDS Attachments, TLC

(* Requests, charges and opaque ids are only ever compared. *)
Symmetry ==
  Permutations(Requests) \cup Permutations(Charges) \cup Permutations(Ids)
=============================================================================
