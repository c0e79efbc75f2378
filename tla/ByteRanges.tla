----------------------------- MODULE ByteRanges -----------------------------
(***************************************************************************)
(* The Range header of a download (download_attachment in                  *)
(* app/api/v1/endpoints/attachments.py, read_range in                      *)
(* app/services/attachment_service.py).  A header the pattern accepts has  *)
(* a first and a last position, and either may be left out.                *)
(***************************************************************************)
EXTENDS Integers

None == -1  \* a position that is left out

Header == [first : Nat \cup {None}, last : Nat \cup {None}]

Least(a, b) == IF a < b THEN a ELSE b
Most(a, b) == IF a < b THEN b ELSE a

Start(r, size) == IF r.first = None THEN Most(size - r.last, 0) ELSE r.first

Last(r, size) == IF r.first = None \/ r.last = None THEN size - 1 ELSE r.last

(* Anything else is answered by 416. *)
Satisfiable(r, size) ==
  /\ r.first = None => r.last > 0
  /\ Start(r, size) < size
  /\ Start(r, size) <= Last(r, size)

(* The positions of the bytes in the 206 response. *)
Body(r, size) ==
  IF Satisfiable(r, size) THEN Start(r, size) .. Least(Last(r, size), size - 1) ELSE {}

(***************************************************************************)
(* What the header asks for: the last so many bytes of the file, or those  *)
(* it has from the first position to the last one.                         *)
(***************************************************************************)
Wanted(r, size) ==
  { i \in 0 .. size - 1 :
      IF r.first = None THEN r.last # None /\ i >= size - r.last
      ELSE i >= r.first /\ (r.last = None \/ i <= r.last) }
=============================================================================
