------------------------------ MODULE MCInput ------------------------------
(***************************************************************************)
(* What the program does with input: ContestUpload and Graphemes side by   *)
(* side, and the arithmetic of ByteRanges and CostBreakdown.  They share   *)
(* no state, so a behaviour is one of the first or one of the second.      *)
(***************************************************************************)
EXTENDS ContestUpload, Graphemes, FiniteSets

ASSUME RangesAreExactHere ==
  LET B == INSTANCE ByteRanges
  IN  \A size_ \in 0 .. 5, first, last \in -1 .. 7 :
        LET r == [first |-> first, last |-> last]
        IN  /\ B!Body(r, size_) = B!Wanted(r, size_)
            /\ B!Satisfiable(r, size_) <=> B!Wanted(r, size_) # {}

ASSUME DefaultAddsUpHere ==
  LET C == INSTANCE CostBreakdown
  IN  \A amount \in 0 .. 1300 : C!AddsUp(C!DefaultCostBreakdown(amount), amount)

(***************************************************************************)
(* Sound files up to a chunk over the limit, and flawed ones of one chunk; *)
(* Content-Length is right where it is declared.                           *)
(***************************************************************************)
Files ==
  { [size |-> n, flaw |-> "none"] : n \in 0 .. MaxAttachmentBytes + 1 }
    \cup { [size |-> 1, flaw |-> f] : f \in {"name", "type"} }

FileLists == UNION { [1 .. n -> Files] : n \in 0 .. MaxAttachments + 2 }

Sent(files, reason, declares) ==
  LET u == [ form |-> 1, metadata |-> "sound", reason |-> reason, others |-> 0,
             files |-> files, declared |-> Undeclared ]
  IN  IF declares THEN [u EXCEPT !.declared = BodySize(u)] ELSE u

(* Metadata comes as a field, as a file part, or beside another such part. *)
SomeUploads ==
  { Sent(files, reason, declares) :
      files \in FileLists, reason \in {MinReason - 1, MinReason, MaxReason, MaxReason + 1},
      declares \in BOOLEAN }
    \cup { [Sent(files, MinReason, FALSE) EXCEPT !.metadata = m] :
             files \in FileLists, m \in {"invalid", "malformed"} }
    \cup { [Sent(files, MinReason, FALSE) EXCEPT !.metadata = m, !.others = n] :
             files \in FileLists, m \in {"sound", "undecodable"}, n \in {1, 2} }

Init == UploadInit /\ ScanInit

Next ==
  \/ UploadNext /\ text = <<>> /\ UNCHANGED scan
  \/ ScanNext /\ stage = "idle" /\ upload = Sent(<<>>, MinReason, FALSE) /\ UNCHANGED intake

Spec == Init /\ [][Next]_<<intake, scan>>
=============================================================================
