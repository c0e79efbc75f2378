----------------------------- MODULE InputProofs -----------------------------
(***************************************************************************)
(* What the program makes of its input, whatever is sent: the limits and   *)
(* the answers of ContestUpload, the clusters of Graphemes and the         *)
(* positions of ByteRanges.                                                *)
(***************************************************************************)
EXTENDS ContestUpload, Graphemes, WellFoundedInduction, TLAPS

Bytes == INSTANCE ByteRanges

(***************************************************************************)
(* A download sends exactly the bytes of the file that the Range header    *)
(* asks for, whatever the size of the file and the positions, and is       *)
(* refused exactly when there are none: neither the suffix longer than the *)
(* file, nor the last position beyond its end, nor the empty file is off   *)
(* by one.                                                                 *)
(***************************************************************************)
THEOREM RangesAreExact ==
  ASSUME NEW length \in Nat, NEW r \in Bytes!Header
  PROVE  /\ Bytes!Body(r, length) = Bytes!Wanted(r, length)
         /\ Bytes!Satisfiable(r, length) <=> Bytes!Wanted(r, length) # {}
<1> USE DEF Bytes!Header, Bytes!None, Bytes!Start, Bytes!Last, Bytes!Most, Bytes!Least
<1>1. CASE Bytes!Satisfiable(r, length)
  <2>1. \A i : i \in Bytes!Body(r, length) <=> i \in Bytes!Wanted(r, length)
    BY <1>1 DEF Bytes!Body, Bytes!Satisfiable, Bytes!Wanted
  <2>2. Bytes!Start(r, length) \in Bytes!Wanted(r, length)
    BY <1>1 DEF Bytes!Satisfiable, Bytes!Wanted
  <2> QED
    BY <1>1, <2>1, <2>2
<1>2. CASE ~ Bytes!Satisfiable(r, length)
  <2>1. \A i : i \notin Bytes!Wanted(r, length)
    BY <1>2 DEF Bytes!Satisfiable, Bytes!Wanted
  <2> QED
    BY <1>2, <2>1 DEF Bytes!Body
<1> QED
  BY <1>1, <1>2

-----------------------------------------------------------------------------
(* ContestUpload: the limits hold whatever their values are and whatever is sent. *)

(* The directory holds what has been counted, for files that may be staged. *)
DiskIsCounted ==
  stage = "staging" => disk = total + size /\ Len(upload.files) <= MaxAttachments

NothingStagedYet ==
  stage \in {"idle", "receiving", "splitting"} => staged = <<>> /\ total = 0 /\ size = 0

LimitInv == UploadTypeOK /\ StagingIsBounded /\ DiskIsCounted /\ NothingStagedYet

LEMMA Limits ==
  /\ MaxRequestBytes \in Nat /\ MaxAttachments \in Nat
  /\ MaxAttachmentBytes \in Nat /\ MaxTotalBytes \in Nat
  /\ Uploads \subseteq Upload
BY UploadAssumption

LEMMA UploadParts ==
  ASSUME NEW u \in Upload
  PROVE  /\ Len(u.files) \in Nat
         /\ \A i \in 1 .. Len(u.files) : u.files[i].size \in Nat
<1>1. u.files \in Seq(File)
  BY DEF Upload
<1>2. \A f \in File : f.size \in Nat
  BY DEF File
<1> QED
  BY <1>1, <1>2

LEMMA InitLimits == UploadInit => LimitInv
<1> SUFFICES ASSUME UploadInit PROVE LimitInv
  OBVIOUS
<1>1. <<>> \in Seq(1 .. MaxAttachmentBytes)
  OBVIOUS
<1>2. upload \in Upload
  BY Limits DEF UploadInit
<1>3. UploadTypeOK
  BY <1>1, <1>2, Limits DEF UploadInit, UploadTypeOK, Codes
<1> QED
  BY <1>3, Limits DEF UploadInit, LimitInv, StagingIsBounded, DiskIsCounted, NothingStagedYet

LEMMA AnswersKeepsLimits ==
  ASSUME LimitInv, NEW c \in Codes \cup {"none", "accepted", "gone"}, Answers(c)
  PROVE  LimitInv'
<1>1. UploadTypeOK'
  BY Limits DEF LimitInv, UploadTypeOK, Answers
<1> QED
  BY <1>1, Limits DEF LimitInv, Answers, StagingIsBounded, DiskIsCounted, NothingStagedYet

LEMMA WriteKeepsLimits == LimitInv /\ WriteChunk => LimitInv'
<1> SUFFICES ASSUME LimitInv, WriteChunk PROVE LimitInv'
  OBVIOUS
<1>1. /\ stage = "staging" /\ size \in Nat /\ disk \in Nat /\ total \in Nat
      /\ disk = total + size
  BY DEF LimitInv, UploadTypeOK, DiskIsCounted, WriteChunk, Chunk, Staging
<1>2. UploadTypeOK'
  BY <1>1, Limits DEF LimitInv, UploadTypeOK, WriteChunk
<1>3. StagingIsBounded' /\ DiskIsCounted' /\ NothingStagedYet'
  BY <1>1, Limits DEF LimitInv, WriteChunk, StagingIsBounded, DiskIsCounted, NothingStagedYet
<1> QED
  BY <1>2, <1>3 DEF LimitInv

LEMMA StagedKeepsLimits == LimitInv /\ Staged => LimitInv'
<1> SUFFICES ASSUME LimitInv, Staged PROVE LimitInv'
  OBVIOUS
<1>1. /\ stage = "staging" /\ size \in 1 .. MaxAttachmentBytes /\ total \in Nat
      /\ disk = total + size
      /\ Len(upload.files) <= MaxAttachments /\ Len(staged) < Len(upload.files)
      /\ staged \in Seq(1 .. MaxAttachmentBytes)
  BY Limits DEF LimitInv, UploadTypeOK, DiskIsCounted, Staged, FileRead, Staging
<1>2. /\ staged' \in Seq(1 .. MaxAttachmentBytes)
      /\ Len(staged') = Len(staged) + 1 /\ Len(staged) \in Nat
  BY <1>1 DEF Staged
<1>3. Len(upload.files) \in Nat
  BY UploadParts DEF LimitInv, UploadTypeOK
<1>4. UploadTypeOK'
  BY <1>1, <1>2, <1>3, Limits DEF LimitInv, UploadTypeOK, Staged
<1>5. StagingIsBounded' /\ DiskIsCounted' /\ NothingStagedYet'
  BY <1>1, Limits DEF LimitInv, Staged, StagingIsBounded, DiskIsCounted, NothingStagedYet
<1> QED
  BY <1>4, <1>5 DEF LimitInv

LEMMA ReceiveKeepsLimits == LimitInv /\ Receive => LimitInv'
<1> SUFFICES ASSUME LimitInv, Receive PROVE LimitInv'
  OBVIOUS
<1>1. UploadTypeOK'
  BY Limits DEF LimitInv, UploadTypeOK, Receive
<1> QED
  BY <1>1 DEF LimitInv, Receive, StagingIsBounded, DiskIsCounted, NothingStagedYet

LEMMA PassingOnKeepsLimits == LimitInv /\ (Admit \/ Parsed \/ Split) => LimitInv'
<1> SUFFICES ASSUME LimitInv, Admit \/ Parsed \/ Split PROVE LimitInv'
  OBVIOUS
<1>1. UploadTypeOK'
  BY DEF LimitInv, UploadTypeOK, Admit, Parsed, Split
<1>2. disk = 0 /\ total + size = 0
  BY DEF LimitInv, StagingIsBounded, NothingStagedYet, Admit, Parsed, Split
<1>3. StagingIsBounded' /\ DiskIsCounted' /\ NothingStagedYet'
  BY <1>2 DEF LimitInv, StagingIsBounded, DiskIsCounted, NothingStagedYet, Admit, Parsed, Split
<1> QED
  BY <1>1, <1>3 DEF LimitInv

(***************************************************************************)
(* No client can make a request stage more than MAX_ATTACHMENT_TOTAL_BYTES *)
(* or leave any of it behind, nor pass the limits of a body or a file.     *)
(***************************************************************************)
THEOREM LimitsHold == UploadSpec => [](UploadTypeOK /\ StagingIsBounded)
<1>1. LimitInv /\ [UploadNext]_intake => LimitInv'
  <2> SUFFICES ASSUME LimitInv, [UploadNext]_intake PROVE LimitInv'
    OBVIOUS
  <2>1. CASE RejectDeclared \/ ParserFails \/ ClientGoes \/ MetadataMalformed
               \/ MetadataUndecodable \/ TooMany \/ MetadataInvalid \/ ReasonInvalid
    BY <2>1, AnswersKeepsLimits
       DEF RejectDeclared, ParserFails, ClientGoes, MetadataMalformed, MetadataUndecodable,
           TooMany, MetadataInvalid, ReasonInvalid, Codes
  <2>2. CASE NameInvalid \/ TooLarge \/ TotalTooLarge \/ Empty \/ UnsupportedType \/ Accept
    BY <2>2, AnswersKeepsLimits
       DEF NameInvalid, TooLarge, TotalTooLarge, Empty, UnsupportedType, Accept, Codes
  <2>3. CASE UNCHANGED intake
    BY <2>3 DEF intake, LimitInv, UploadTypeOK, StagingIsBounded, DiskIsCounted,
                NothingStagedYet
  <2> QED
    BY <2>1, <2>2, <2>3, PassingOnKeepsLimits, ReceiveKeepsLimits, WriteKeepsLimits,
       StagedKeepsLimits DEF UploadNext
<1>2. LimitInv => UploadTypeOK /\ StagingIsBounded
  BY DEF LimitInv
<1> QED
  BY <1>1, <1>2, InitLimits, PTL DEF UploadSpec

-----------------------------------------------------------------------------
(***************************************************************************)
(* ContestUpload: the answers.  What a form adds up to is the last of its  *)
(* subtotals, which the stager goes through one by one.  (UpTo is          *)
(* induction, with the set of the good positions for the predicate.)       *)
(***************************************************************************)

LEMMA UpTo ==
  ASSUME NEW N \in Nat, NEW G, 0 \in G,
         \A n \in 0 .. N : n < N /\ n \in G => n + 1 \in G
  PROVE  \A n \in 0 .. N : n \in G
<1> DEFINE Bad == {n \in 0 .. N : n \notin G}
<1> SUFFICES ASSUME Bad # {} PROVE FALSE
  OBVIOUS
<1>1. PICK n \in Bad : \A m \in Bad : ~ (<<m, n>> \in OpToRel(<, Nat))
  <2>1. IsWellFoundedOn(OpToRel(<, Nat), Nat)
    BY NatLessThanWellFounded
  <2>2. Bad \subseteq Nat
    OBVIOUS
  <2> HIDE DEF Bad
  <2> QED
    BY <2>1, <2>2, WFMin
<1>2. n \in 1 .. N /\ n - 1 \in 0 .. N /\ n - 1 < N
  OBVIOUS
<1>3. n - 1 \in Bad
  BY <1>2
<1>4. <<n - 1, n>> \in OpToRel(<, Nat)
  BY <1>2 DEF OpToRel
<1> QED
  BY <1>1, <1>3, <1>4

(* g is what FileBytes computes on the way; *)
Sums(g, u) ==
  g = [n \in 0 .. Len(u.files) |-> IF n = 0 THEN 0 ELSE g[n - 1] + u.files[n].size]

(* the same, up to n; *)
Summed(u, n) ==
  {g \in [0 .. n -> Nat] :
     g[0] = 0 /\ \A m \in 1 .. n : g[m] = g[m - 1] + u.files[m].size}

(* and from one file to the next. *)
Adds(g, u) ==
  /\ g \in [0 .. Len(u.files) -> Nat]
  /\ g[0] = 0 /\ g[Len(u.files)] = FileBytes(u)
  /\ \A n \in 1 .. Len(u.files) : g[n] = g[n - 1] + u.files[n].size

LEMMA SumExists ==
  ASSUME NEW u \in Upload
  PROVE  \E g \in [0 .. Len(u.files) -> Nat] : Sums(g, u)
<1> DEFINE N == Len(u.files)
           G == {n \in 0 .. N : Summed(u, n) # {}}
<1>1. N \in Nat /\ \A i \in 1 .. N : u.files[i].size \in Nat
  BY UploadParts
<1> HIDE DEF N
<1>2. 0 \in G
  <2>1. [m \in 0 .. 0 |-> 0] \in Summed(u, 0)
    BY DEF Summed
  <2> QED
    BY <1>1, <2>1
<1>3. ASSUME NEW n \in 0 .. N, n < N, n \in G
      PROVE  n + 1 \in G
  <2>1. PICK g : g \in Summed(u, n)
    BY <1>3
  <2> DEFINE e == g[n] + u.files[n + 1].size
             h == [m \in 0 .. n + 1 |-> IF m = n + 1 THEN e ELSE g[m]]
  <2>2. n + 1 \in 1 .. N /\ n + 1 \in 0 .. N
    BY <1>1, <1>3
  <2>3. e \in Nat
    BY <1>1, <2>1, <2>2 DEF Summed
  <2>4. h \in [0 .. n + 1 -> Nat] /\ h[0] = 0
    BY <1>1, <2>1, <2>3 DEF Summed
  <2>5. ASSUME NEW m \in 1 .. n + 1
        PROVE  h[m] = h[m - 1] + u.files[m].size
    <3>1. CASE m = n + 1
      BY <1>1, <3>1
    <3>2. CASE m # n + 1
      BY <1>1, <2>1, <3>2 DEF Summed
    <3> QED
      BY <3>1, <3>2
  <2> HIDE DEF h
  <2>6. h \in Summed(u, n + 1)
    BY <2>4, <2>5 DEF Summed
  <2> QED
    BY <2>2, <2>6
<1> HIDE DEF G
<1>4. \A n \in 0 .. N : n \in G
  BY <1>1, <1>2, <1>3, UpTo
<1>5. PICK g : g \in Summed(u, N)
  BY <1>1, <1>4 DEF G
<1>6. g \in [0 .. N -> Nat] /\ g[0] = 0
  BY <1>5 DEF Summed
<1>7. \A m \in 0 .. N : g[m] = IF m = 0 THEN 0 ELSE g[m - 1] + u.files[m].size
  <2> TAKE m \in 0 .. N
  <2>1. m = 0 \/ m \in 1 .. N
    BY <1>1
  <2> QED
    BY <2>1, <1>5 DEF Summed
<1> QED
  BY <1>6, <1>7 DEF Sums, N

LEMMA FilesAddUp ==
  ASSUME NEW u \in Upload
  PROVE  \E g : Adds(g, u)
<1> DEFINE N == Len(u.files)
           f == CHOOSE g : Sums(g, u)
<1>1. N \in Nat /\ \A i \in 1 .. N : u.files[i].size \in Nat
  BY UploadParts
<1>2. Sums(f, u)
  BY SumExists
<1>3. FileBytes(u) = f[N]
  BY DEF FileBytes, Sums
<1> HIDE DEF f
<1>4. f = [n \in 0 .. N |-> IF n = 0 THEN 0 ELSE f[n - 1] + u.files[n].size]
  BY <1>2 DEF Sums
<1> HIDE DEF N
<1>5. f[0] = 0 /\ \A n \in 1 .. N : f[n] = f[n - 1] + u.files[n].size
  BY <1>1, <1>4
<1>6. \A n \in 0 .. N : f[n] \in Nat
  <2> DEFINE G == {n \in 0 .. N : f[n] \in Nat}
  <2>1. 0 \in G
    BY <1>1, <1>5
  <2>2. ASSUME NEW n \in 0 .. N, n < N, n \in G
        PROVE  n + 1 \in G
    <3>1. n + 1 \in 1 .. N /\ n + 1 \in 0 .. N /\ (n + 1) - 1 = n
      BY <1>1, <2>2
    <3>2. f[n + 1] = f[n] + u.files[n + 1].size
      BY <1>5, <3>1
    <3> QED
      BY <1>1, <2>2, <3>1, <3>2
  <2> HIDE DEF G
  <2>3. \A n \in 0 .. N : n \in G
    BY <1>1, <2>1, <2>2, UpTo
  <2> QED
    BY <2>3 DEF G
<1>7. f \in [0 .. N -> Nat]
  BY <1>4, <1>6
<1> QED
  BY <1>3, <1>5, <1>7 DEF Adds, N

(* A subtotal is not more than the total. *)
LEMMA SubtotalsGrow ==
  ASSUME NEW u \in Upload, NEW g, Adds(g, u), NEW k \in 0 .. Len(u.files)
  PROVE  g[k] <= FileBytes(u)
<1> DEFINE N == Len(u.files)
           G == {n \in 0 .. N : k <= n => g[k] <= g[n]}
<1>1. N \in Nat /\ \A i \in 1 .. N : u.files[i].size \in Nat
  BY UploadParts
<1>2. /\ \A n \in 0 .. N : g[n] \in Nat
      /\ \A n \in 1 .. N : g[n] = g[n - 1] + u.files[n].size
      /\ g[N] = FileBytes(u)
  BY DEF Adds
<1>3. k \in 0 .. N
  OBVIOUS
<1> HIDE DEF N
<1>4. 0 \in G
  BY <1>1, <1>2, <1>3
<1>5. ASSUME NEW n \in 0 .. N, n < N, n \in G
      PROVE  n + 1 \in G
  <2>1. n + 1 \in 1 .. N /\ n + 1 \in 0 .. N /\ (n + 1) - 1 = n
    BY <1>1, <1>5
  <2>2. g[n + 1] = g[n] + u.files[n + 1].size
    BY <1>2, <2>1
  <2>3. g[n + 1] \in Nat /\ g[n] \in Nat /\ g[k] \in Nat /\ u.files[n + 1].size \in Nat
    BY <1>1, <1>2, <1>3, <2>1
  <2>4. k <= n + 1 => k <= n \/ k = n + 1
    BY <1>3
  <2> QED
    BY <1>5, <2>1, <2>2, <2>3, <2>4
<1> HIDE DEF G
<1>6. \A n \in 0 .. N : n \in G
  BY <1>1, <1>4, <1>5, UpTo
<1>7. N \in G
  BY <1>1, <1>6
<1> QED
  BY <1>2, <1>3, <1>7 DEF G

Subtotals(u) == CHOOSE g : Adds(g, u)

LEMMA SubtotalsAdd ==
  ASSUME NEW u \in Upload
  PROVE  /\ Adds(Subtotals(u), u)
         /\ FileBytes(u) \in Nat /\ BodySize(u) \in Nat
         /\ \A k \in 0 .. Len(u.files) :
              Subtotals(u)[k] \in Nat /\ Subtotals(u)[k] <= FileBytes(u)
<1>1. Adds(Subtotals(u), u)
  BY FilesAddUp DEF Subtotals
<1>2. \A k \in 0 .. Len(u.files) : Subtotals(u)[k] \in Nat
  BY <1>1 DEF Adds
<1>3. Len(u.files) \in 0 .. Len(u.files)
  BY UploadParts
<1>4. FileBytes(u) \in Nat
  BY <1>1, <1>2, <1>3 DEF Adds
<1>5. u.form \in Nat
  BY DEF Upload
<1> QED
  BY <1>1, <1>2, <1>4, <1>5, SubtotalsGrow DEF BodySize

(***************************************************************************)
(* How far a request has come says what it has passed: its header is       *)
(* checked before its body, the body and the number of its files before    *)
(* they are looked at, the metadata and the reason before anything is      *)
(* staged, and each file before the next.                                  *)
(***************************************************************************)
Checked(u, i) ==
  u.files[i].flaw = "none" /\ u.files[i].size \in 1 .. MaxAttachmentBytes

PassedSoFar ==
  /\ stage # "answered" => code = "none"
  /\ stage \in {"receiving", "splitting", "staging"} => upload.declared <= MaxRequestBytes
  /\ stage \in {"splitting", "staging"} =>
       BodySize(upload) <= MaxRequestBytes /\ FileParts(upload) <= MaxAttachments + 1
  /\ stage = "staging" =>
       /\ upload.metadata = "sound" /\ upload.reason \in MinReason .. MaxReason
       /\ Len(staged) <= Len(upload.files)
       /\ total = Subtotals(upload)[Len(staged)]
       /\ \A i \in 1 .. Len(staged) :
            staged[i] = upload.files[i].size /\ Checked(upload, i)

AnswerInv == LimitInv /\ PassedSoFar /\ AcceptedIsSound /\ RefusedForCause

(* What AnswerInv says of a request that has not been answered. *)
LEMMA OnTheWay ==
  ASSUME AnswerInv
  PROVE  /\ upload \in Upload /\ seen \in 0 .. MaxRequestBytes
         /\ Len(upload.files) \in Nat /\ upload.declared \in Int
         /\ FileParts(upload) \in Nat
         /\ BodySize(upload) \in Nat /\ FileBytes(upload) \in Nat
         /\ stage # "answered" => code = "none"
<1>1. upload \in Upload /\ seen \in 0 .. MaxRequestBytes /\ (stage # "answered" => code = "none")
  BY DEF AnswerInv, LimitInv, UploadTypeOK, PassedSoFar
<1>2. upload.declared \in Int /\ upload.others \in Nat
  BY <1>1 DEF Upload, Undeclared
<1>3. Len(upload.files) \in Nat
  BY <1>1, UploadParts
<1> QED
  BY <1>1, <1>2, <1>3, SubtotalsAdd DEF FileParts

LEMMA RefusalKeepsAnswers ==
  ASSUME AnswerInv, NEW c \in Codes \cup {"gone"}, Answers(c),
         \/ c \in Deserved(upload) \cup {"gone"}
         \/ c = "server.internal" /\ upload.metadata = "undecodable"
  PROVE  AnswerInv'
<1>1. c \in Codes \cup {"none", "accepted", "gone"} /\ c # "accepted"
  BY DEF Codes
<1>2. LimitInv'
  BY <1>1, AnswersKeepsLimits DEF AnswerInv
<1>3. PassedSoFar' /\ AcceptedIsSound'
  BY <1>1 DEF Answers, PassedSoFar, AcceptedIsSound
<1>4. RefusedForCause'
  <2>1. Deserved(upload)' = Deserved(upload)
    BY DEF Answers, Deserved, FileBytes, BodySize, FileParts
  <2> QED
    BY <2>1 DEF Answers, RefusedForCause
<1> QED
  BY <1>2, <1>3, <1>4 DEF AnswerInv

(* Each refusal before the staging has its cause. *)
LEMMA EarlyRefusals ==
  ASSUME AnswerInv,
         \/ RejectDeclared \/ ParserFails \/ ClientGoes \/ MetadataMalformed
         \/ MetadataUndecodable \/ TooMany \/ MetadataInvalid \/ ReasonInvalid
  PROVE  AnswerInv'
<1>0. "server.internal" \in Codes /\ Deserved(upload) \subseteq Codes
  BY DEF Codes, Deserved
<1>1. CASE RejectDeclared
  <2>1. "attachment.total_too_large" \in Deserved(upload)
    BY <1>1 DEF RejectDeclared, Declares, Deserved, Codes
  <2> QED
    BY <1>1, <2>1, <1>0, RefusalKeepsAnswers DEF RejectDeclared
<1>2. CASE ParserFails
  <2>1. seen < BodySize(upload) /\ seen + 1 > MaxRequestBytes => BodySize(upload) > MaxRequestBytes
    BY OnTheWay, Limits
  <2>2. "request.malformed" \in Deserved(upload)
    BY <1>2, <2>1 DEF ParserFails, Deserved, Codes
  <2> QED
    BY <1>2, <2>2, <1>0, RefusalKeepsAnswers DEF ParserFails
<1>3. CASE ClientGoes
  BY <1>3, <1>0, RefusalKeepsAnswers DEF ClientGoes
<1>4. CASE MetadataMalformed
  <2>1. "request.malformed" \in Deserved(upload)
    BY <1>4 DEF MetadataMalformed, Deserved, Codes
  <2> QED
    BY <1>4, <2>1, <1>0, RefusalKeepsAnswers DEF MetadataMalformed
<1>5. CASE TooMany
  <2>1. "attachment.too_many" \in Deserved(upload)
    BY <1>5 DEF TooMany, Deserved, Codes
  <2> QED
    BY <1>5, <2>1, <1>0, RefusalKeepsAnswers DEF TooMany
<1>6. CASE MetadataInvalid
  <2>1. "validation.failed" \in Deserved(upload)
    BY <1>6 DEF MetadataInvalid, Deserved, Codes
  <2> QED
    BY <1>6, <2>1, <1>0, RefusalKeepsAnswers DEF MetadataInvalid
<1>7. CASE ReasonInvalid
  <2>1. "contest.reason_invalid" \in Deserved(upload)
    BY <1>7 DEF ReasonInvalid, Deserved, Codes
  <2> QED
    BY <1>7, <2>1, <1>0, RefusalKeepsAnswers DEF ReasonInvalid
<1>8. CASE MetadataUndecodable
  BY <1>0, <1>8, RefusalKeepsAnswers DEF MetadataUndecodable
<1> QED
  BY <1>1, <1>2, <1>3, <1>4, <1>5, <1>6, <1>7, <1>8

(* The file being staged, and what it adds to the subtotal. *)
LEMMA CurrentFile ==
  ASSUME AnswerInv, Staging
  PROVE  /\ Len(staged) \in Nat /\ Len(staged) + 1 \in 1 .. Len(upload.files)
         /\ Current = upload.files[Len(staged) + 1]
         /\ Current \in { upload.files[i] : i \in 1 .. Len(upload.files) }
         /\ Current.size \in Nat /\ size \in Nat /\ total \in Nat
         /\ Subtotals(upload)[Len(staged) + 1] = total + Current.size
         /\ total + Current.size <= FileBytes(upload)
<1>1. upload \in Upload /\ Len(upload.files) \in Nat
  BY OnTheWay
<1>2. Len(staged) \in Nat /\ size \in Nat /\ total \in Nat
  BY Limits DEF AnswerInv, LimitInv, UploadTypeOK
<1> DEFINE n == Len(staged)
<1>3. n + 1 \in 1 .. Len(upload.files) /\ (n + 1) - 1 = n
  BY <1>1, <1>2 DEF Staging
<1>4. Current = upload.files[n + 1]
  BY DEF Current
<1>5. upload.files[n + 1].size \in Nat
  BY <1>1, <1>3, UploadParts
<1>6. total = Subtotals(upload)[n]
  BY DEF AnswerInv, PassedSoFar, Staging
<1> HIDE DEF n
<1>7. Subtotals(upload)[n + 1] = Subtotals(upload)[n] + upload.files[n + 1].size
  BY <1>1, <1>3, SubtotalsAdd DEF Adds
<1>8. Subtotals(upload)[n + 1] <= FileBytes(upload)
  BY <1>1, <1>3, SubtotalsAdd
<1> QED
  BY <1>2, <1>3, <1>4, <1>5, <1>6, <1>7, <1>8 DEF n

LEMMA LateRefusals ==
  ASSUME AnswerInv, NameInvalid \/ TooLarge \/ TotalTooLarge \/ Empty \/ UnsupportedType
  PROVE  AnswerInv'
<1> DEFINE sent == { upload.files[i] : i \in 1 .. Len(upload.files) }
<1>0. Deserved(upload) \subseteq Codes
  BY DEF Deserved
<1>1. Staging
  BY DEF NameInvalid, TooLarge, TotalTooLarge, Empty, UnsupportedType, Chunk, FileRead
<1>2. /\ Current \in sent /\ Current.size \in Nat /\ size \in Nat /\ total \in Nat
      /\ total + Current.size <= FileBytes(upload) /\ FileBytes(upload) \in Nat
  BY <1>1, CurrentFile, OnTheWay
<1>3. CASE NameInvalid
  <2>1. "attachment.invalid_name" \in Deserved(upload)
    BY <1>2, <1>3 DEF NameInvalid, Deserved, Codes
  <2> QED
    BY <1>3, <2>1, <1>0, RefusalKeepsAnswers DEF NameInvalid
<1>4. CASE TooLarge
  <2>1. Current.size > MaxAttachmentBytes
    BY <1>2, <1>4, Limits DEF TooLarge, Chunk
  <2>2. "attachment.too_large" \in Deserved(upload)
    BY <1>2, <2>1 DEF Deserved, Codes
  <2> QED
    BY <1>4, <2>2, <1>0, RefusalKeepsAnswers DEF TooLarge
<1>5. CASE TotalTooLarge
  <2>1. FileBytes(upload) > MaxTotalBytes
    BY <1>2, <1>5, Limits DEF TotalTooLarge, Chunk
  <2>2. "attachment.total_too_large" \in Deserved(upload)
    BY <2>1 DEF Deserved, Codes
  <2> QED
    BY <1>5, <2>2, <1>0, RefusalKeepsAnswers DEF TotalTooLarge
<1>6. CASE Empty
  <2>1. Current.size = 0
    BY <1>6 DEF Empty, FileRead
  <2>2. "attachment.empty" \in Deserved(upload)
    BY <1>2, <2>1 DEF Deserved, Codes
  <2> QED
    BY <1>6, <2>2, <1>0, RefusalKeepsAnswers DEF Empty
<1>7. CASE UnsupportedType
  <2>1. "attachment.unsupported_media_type" \in Deserved(upload)
    BY <1>2, <1>7 DEF UnsupportedType, Deserved, Codes
  <2> QED
    BY <1>7, <2>1, <1>0, RefusalKeepsAnswers DEF UnsupportedType
<1> QED
  BY <1>3, <1>4, <1>5, <1>6, <1>7

(* Who gets to the end has passed everything. *)
LEMMA AcceptKeepsAnswers ==
  ASSUME AnswerInv, Accept
  PROVE  AnswerInv'
<1>1. LimitInv'
  BY AnswersKeepsLimits DEF AnswerInv, Accept
<1>2. PassedSoFar' /\ RefusedForCause'
  BY DEF Accept, Answers, PassedSoFar, RefusedForCause
<1>3. /\ stage = "staging" /\ Len(staged) = Len(upload.files)
      /\ Len(upload.files) <= MaxAttachments /\ disk = total + size
      /\ disk <= MaxTotalBytes /\ total \in Nat /\ size \in Nat
      /\ staged \in Seq(1 .. MaxAttachmentBytes)
  BY Limits DEF AnswerInv, LimitInv, UploadTypeOK, StagingIsBounded, DiskIsCounted, Accept
<1>4. /\ upload.declared <= MaxRequestBytes /\ BodySize(upload) <= MaxRequestBytes
      /\ FileParts(upload) <= MaxAttachments + 1
      /\ upload.metadata = "sound" /\ upload.reason \in MinReason .. MaxReason
      /\ total = Subtotals(upload)[Len(staged)]
      /\ \A i \in 1 .. Len(upload.files) :
           staged[i] = upload.files[i].size /\ Checked(upload, i)
  BY <1>3 DEF AnswerInv, PassedSoFar
<1>5. total = FileBytes(upload)
  BY <1>3, <1>4, OnTheWay, SubtotalsAdd DEF Adds
<1>6. FileBytes(upload) <= MaxTotalBytes
  BY <1>3, <1>5, Limits
<1>7. \A f \in { upload.files[i] : i \in 1 .. Len(upload.files) } :
        f.flaw = "none" /\ f.size \in 1 .. MaxAttachmentBytes
  BY <1>4 DEF Checked
<1>8. Deserved(upload) = {}
  <2> DEFINE body == BodySize(upload)
             files == FileBytes(upload)
             n == Len(upload.files)
             parts == FileParts(upload)
  <2>0. /\ body \in Nat /\ files \in Nat /\ upload.declared \in Int /\ n \in Nat
        /\ parts \in Nat /\ parts <= MaxAttachments + 1
        /\ body <= MaxRequestBytes /\ files <= MaxTotalBytes
        /\ upload.declared <= MaxRequestBytes /\ n <= MaxAttachments
    BY <1>3, <1>4, <1>6, OnTheWay
  <2> HIDE DEF body, files, n, parts
  <2>1. /\ ~ body > MaxRequestBytes /\ ~ files > MaxTotalBytes
        /\ ~ upload.declared > MaxRequestBytes
        /\ ~ n > MaxAttachments /\ ~ parts > MaxAttachments + 1
    BY <2>0, Limits
  <2>2. \A f \in { upload.files[i] : i \in 1 .. Len(upload.files) } :
          /\ f.flaw # "name" /\ f.flaw # "type"
          /\ ~ f.size > MaxAttachmentBytes /\ f.size # 0
    BY <1>7, Limits
  <2> QED
    BY <1>4, <2>1, <2>2 DEF Deserved, body, files, n, parts
<1>9. staged = [i \in 1 .. Len(upload.files) |-> upload.files[i].size]
  BY <1>3, <1>4
<1>10. AcceptedIsSound'
  <2>1. upload' = upload /\ staged' = staged
    BY DEF Accept, Answers
  <2>2. Deserved(upload)' = Deserved(upload)
    BY <2>1 DEF Deserved, FileBytes, BodySize, FileParts
  <2> QED
    BY <1>8, <1>9, <2>1, <2>2 DEF AcceptedIsSound
<1> QED
  BY <1>1, <1>2, <1>10 DEF AnswerInv

(* The steps that answer nothing. *)
LEMMA PassingKeepsAnswers ==
  ASSUME AnswerInv, UploadNext, UNCHANGED <<upload, code>>, PassedSoFar', LimitInv'
  PROVE  AnswerInv'
<1>1. stage # "answered"
  BY DEF UploadNext, RejectDeclared, Admit, Receive, ParserFails, ClientGoes, Parsed,
         MetadataMalformed, MetadataUndecodable, TooMany, MetadataInvalid, ReasonInvalid, Split,
         NameInvalid,
         TooLarge, TotalTooLarge, WriteChunk, Empty, UnsupportedType, Staged, Accept,
         Staging, Chunk, FileRead
<1>2. code' = "none"
  BY <1>1, OnTheWay
<1> QED
  BY <1>2 DEF AnswerInv, AcceptedIsSound, RefusedForCause

LEMMA AdmissionKeepsAnswers ==
  ASSUME AnswerInv, Admit \/ Receive \/ Parsed \/ Split
  PROVE  AnswerInv'
<1>1. LimitInv'
  BY PassingOnKeepsLimits, ReceiveKeepsLimits DEF AnswerInv
<1>2. /\ upload' = upload /\ code' = code /\ staged' = staged /\ total' = total
      /\ code = "none" /\ BodySize(upload)' = BodySize(upload)
      /\ FileParts(upload)' = FileParts(upload)
      /\ stage \in {"idle", "receiving", "splitting"} /\ staged = <<>> /\ total = 0
  BY OnTheWay DEF Admit, Receive, Parsed, Split, BodySize, FileBytes, FileParts, AnswerInv,
                  LimitInv, NothingStagedYet
<1>3. CASE Admit
  <2>1. upload.declared <= MaxRequestBytes
    BY <1>3, OnTheWay, Limits DEF Admit, Declares, Undeclared
  <2> QED
    BY <1>1, <1>2, <1>3, <2>1, PassingKeepsAnswers DEF PassedSoFar, Admit, UploadNext
<1>4. CASE Receive
  BY <1>1, <1>2, <1>4, PassingKeepsAnswers DEF AnswerInv, PassedSoFar, Receive, UploadNext
<1>5. CASE Parsed
  <2>1. BodySize(upload) <= MaxRequestBytes
    BY <1>5, OnTheWay, Limits DEF Parsed
  <2> QED
    BY <1>1, <1>2, <1>5, <2>1, PassingKeepsAnswers
       DEF AnswerInv, PassedSoFar, Parsed, UploadNext
<1>6. CASE Split
  <2>1. Len(staged) = 0 /\ Subtotals(upload)[0] = 0 /\ Len(upload.files) \in Nat
    BY <1>2, OnTheWay, SubtotalsAdd DEF Adds
  <2>2. Subtotals(upload)' = Subtotals(upload)
    BY <1>2 DEF Subtotals, Adds, FileBytes
  <2>3. PassedSoFar'
    BY <1>2, <1>6, <2>1, <2>2 DEF AnswerInv, PassedSoFar, Split
  <2> QED
    BY <1>1, <1>2, <1>6, <2>3, PassingKeepsAnswers DEF UploadNext
<1> QED
  BY <1>3, <1>4, <1>5, <1>6

LEMMA StagingKeepsAnswers ==
  ASSUME AnswerInv, WriteChunk \/ Staged
  PROVE  AnswerInv'
<1>1. LimitInv'
  BY WriteKeepsLimits, StagedKeepsLimits DEF AnswerInv
<1>2. /\ upload' = upload /\ code' = code /\ stage' = stage /\ stage = "staging" /\ Staging
      /\ Subtotals(upload)' = Subtotals(upload) /\ BodySize(upload)' = BodySize(upload)
      /\ FileParts(upload)' = FileParts(upload)
  <2>1. /\ upload' = upload /\ code' = code /\ stage' = stage
        /\ stage = "staging" /\ Staging
    BY DEF WriteChunk, Staged, Chunk, FileRead, Staging
  <2>2. Subtotals(upload)' = Subtotals(upload)
    BY <2>1 DEF Subtotals, Adds
  <2>3. BodySize(upload)' = BodySize(upload) /\ FileParts(upload)' = FileParts(upload)
    BY <2>1 DEF BodySize, FileBytes, FileParts
  <2> QED
    BY <2>1, <2>2, <2>3
<1>3. CASE WriteChunk
  <2>1. staged' = staged /\ total' = total
    BY <1>3 DEF WriteChunk
  <2>2. PassedSoFar'
    BY <1>2, <2>1 DEF AnswerInv, PassedSoFar, Checked
  <2> QED
    BY <1>1, <1>2, <1>3, <2>2, PassingKeepsAnswers DEF UploadNext
<1>4. CASE Staged
  <2> DEFINE n == Len(staged)
  <2>1. /\ n \in Nat /\ n + 1 \in 1 .. Len(upload.files) /\ n + 1 <= Len(upload.files)
        /\ Subtotals(upload)[n + 1] = total + size
    BY <1>2, <1>4, CurrentFile DEF Staged, FileRead
  <2>2. upload.files[n + 1].size = size /\ Checked(upload, n + 1)
    <3>1. upload.files[n + 1].size = size /\ upload.files[n + 1].flaw = "none"
      BY <1>2, <1>4, CurrentFile DEF Staged, FileRead
    <3>2. size \in Nat /\ size > 0 /\ size <= MaxAttachmentBytes
      BY <1>4, Limits DEF Staged, AnswerInv, LimitInv, UploadTypeOK
    <3> QED
      BY <3>1, <3>2, Limits DEF Checked
  <2>3. /\ Len(staged') = n + 1 /\ staged'[n + 1] = size
        /\ \A i \in 1 .. n : staged'[i] = staged[i]
    <3>1. staged \in Seq(1 .. MaxAttachmentBytes)
      BY DEF AnswerInv, LimitInv, UploadTypeOK
    <3> QED
      BY <1>4, <3>1 DEF Staged
  <2>4. total' = total + size
    BY <1>4 DEF Staged
  <2>5. \A i \in 1 .. n : staged[i] = upload.files[i].size /\ Checked(upload, i)
    BY <1>2 DEF AnswerInv, PassedSoFar
  <2> HIDE DEF n
  <2>6. \A i \in 1 .. n + 1 : staged'[i] = upload.files[i].size /\ Checked(upload, i)
    BY <2>1, <2>2, <2>3, <2>5
  <2>7. PassedSoFar'
    BY <1>2, <2>1, <2>3, <2>4, <2>6 DEF AnswerInv, PassedSoFar, Checked
  <2> QED
    BY <1>1, <1>2, <1>4, <2>7, PassingKeepsAnswers DEF UploadNext
<1> QED
  BY <1>3, <1>4

LEMMA AnswersAreSound == UploadSpec => []AnswerInv
<1>1. UploadInit => AnswerInv
  BY InitLimits DEF UploadInit, AnswerInv, PassedSoFar, AcceptedIsSound, RefusedForCause
<1>2. AnswerInv /\ [UploadNext]_intake => AnswerInv'
  <2> SUFFICES ASSUME AnswerInv, [UploadNext]_intake PROVE AnswerInv'
    OBVIOUS
  <2>1. CASE UNCHANGED intake
    <3>1. LimitInv'
      BY <2>1 DEF intake, AnswerInv, LimitInv, UploadTypeOK, StagingIsBounded, DiskIsCounted,
                  NothingStagedYet
    <3>2. /\ upload' = upload /\ stage' = stage /\ code' = code /\ staged' = staged
          /\ total' = total
          /\ Deserved(upload)' = Deserved(upload) /\ BodySize(upload)' = BodySize(upload)
          /\ Subtotals(upload)' = Subtotals(upload) /\ FileParts(upload)' = FileParts(upload)
      BY <2>1 DEF intake, Deserved, BodySize, FileBytes, FileParts, Subtotals, Adds
    <3>3. PassedSoFar'
      BY <3>2 DEF AnswerInv, PassedSoFar, Checked
    <3>4. AcceptedIsSound' /\ RefusedForCause'
      BY <3>2 DEF AnswerInv, AcceptedIsSound, RefusedForCause
    <3> QED
      BY <3>1, <3>3, <3>4 DEF AnswerInv
  <2>2. CASE UploadNext
    BY <2>2, EarlyRefusals, LateRefusals, AcceptKeepsAnswers, AdmissionKeepsAnswers,
       StagingKeepsAnswers DEF UploadNext
  <2> QED
    BY <2>1, <2>2
<1> QED
  BY <1>1, <1>2, PTL DEF UploadSpec

(***************************************************************************)
(* Whatever the limits are and whatever is sent, what contest_charge       *)
(* accepts broke none of them and was staged to the last byte.             *)
(***************************************************************************)
THEOREM AcceptanceIsEarned == UploadSpec => []AcceptedIsSound
<1>1. AnswerInv => AcceptedIsSound
  BY DEF AnswerInv
<1> QED
  BY <1>1, AnswersAreSound, PTL

(***************************************************************************)
(* And every refusal, at each of the places that refuse, names a thing     *)
(* that is wrong with what was sent, and no limit is off by one; metadata  *)
(* that is not UTF-8 alone is answered as a fault of the server.           *)
(***************************************************************************)
THEOREM RefusalIsEarned == UploadSpec => []RefusedForCause
<1>1. AnswerInv => RefusedForCause
  BY DEF AnswerInv
<1> QED
  BY <1>1, AnswersAreSound, PTL

-----------------------------------------------------------------------------
(***************************************************************************)
(* Graphemes: clusters begin where the rules begin them, in texts of every *)
(* length whose joiners the code reads as the standard does.  The          *)
(* invariant says what `pending` and `run` stand for there: what looking   *)
(* back over the text would find.                                          *)
(***************************************************************************)

(* After an emoji with its marks, and after a joiner that follows it. *)
EmojiInv ==
  /\ EmojiBefore(text, Len(text)) => pending
  /\ text # <<>> /\ text[Len(text)] = "zwj" /\ EmojiBefore(text, Len(text) - 1) => pending

PlainInv ==
  text # <<>> /\ text[Len(text)] \notin Control /\ PlainBefore(text, Len(text)) => ~ pending

PendingInv == EmojiInv /\ PlainInv

RunInv ==
  /\ text # <<>> /\ text[Len(text)] = "prepend" => run = 0
  /\ Joining(text) /\ text # <<>> /\ text[Len(text)] = "ri" =>
       \E m \in 1 .. Len(text) : IsRun(text, Len(text), m) /\ m % 2 = run % 2

ScanInv == ScanTypeOK /\ PendingInv /\ RunInv /\ BreaksByTheRules

USE DEF Control, Extend, SpacingMark, Pictographic, Chars, Marks

-----------------------------------------------------------------------------
(* Texts that grow. *)

LEMMA Grows ==
  ASSUME text \in Seq(Chars), NEW c \in Chars, text' = Append(text, c)
  PROVE  /\ text' \in Seq(Chars)
         /\ Len(text') = Len(text) + 1
         /\ Len(text) \in Nat
         /\ \A k \in 1 .. Len(text) : text'[k] = text[k] /\ text[k] \in Chars
         /\ text'[Len(text) + 1] = c
         /\ text' # <<>>
         /\ text # <<>> <=> Len(text) > 0
OBVIOUS

(* Texts that begin alike. *)
LEMMA SameBeginning ==
  ASSUME NEW t, NEW u, NEW n \in Nat, \A k \in 1 .. n : u[k] = t[k]
  PROVE  /\ EmojiBefore(u, n) <=> EmojiBefore(t, n)
         /\ PlainBefore(u, n) <=> PlainBefore(t, n)
         /\ \A m \in 1 .. n : IsRun(u, n, m) <=> IsRun(t, n, m)
<1>1. ASSUME NEW j \in 0 .. n, NEW S, NEW T
      PROVE  /\ j > 0 => (u[j] \in T <=> t[j] \in T)
             /\ (\A k \in j + 1 .. n : u[k] \in S) <=> (\A k \in j + 1 .. n : t[k] \in S)
  <2>1. \A k \in j + 1 .. n : k \in 1 .. n
    OBVIOUS
  <2> QED
    BY <2>1
<1>2. EmojiBefore(u, n) <=> EmojiBefore(t, n)
  <2>1. \A j \in 1 .. n : j \in 0 .. n /\ u[j] = t[j]
    OBVIOUS
  <2> QED
    BY <1>1, <2>1 DEF EmojiBefore
<1>3. PlainBefore(u, n) <=> PlainBefore(t, n)
  <2> HIDE DEF Chars
  <2> QED
    BY <1>1 DEF PlainBefore
<1>4. ASSUME NEW m \in 1 .. n
      PROVE  IsRun(u, n, m) <=> IsRun(t, n, m)
  <2>1. /\ \A k \in n - m + 1 .. n : k \in 1 .. n
        /\ m < n => n - m \in 1 .. n
    OBVIOUS
  <2> QED
    BY <2>1 DEF IsRun
<1> QED
  BY <1>2, <1>3, <1>4

(* A rule looks at what comes before only. *)
LEMMA RuleLooksBack ==
  ASSUME text \in Seq(Chars), NEW c \in Chars, text' = Append(text, c),
         NEW i \in 2 .. Len(text)
  PROVE  RuleBreaks(text', i) <=> RuleBreaks(text, i)
<1>1. /\ Len(text) \in Nat
      /\ \A k \in 1 .. Len(text) : text'[k] = text[k]
  BY Grows
<1>2. /\ i - 1 \in Nat /\ i - 2 \in Nat
      /\ \A k \in 1 .. i - 1 : text'[k] = text[k]
      /\ \A k \in 1 .. i - 2 : text'[k] = text[k]
      /\ text'[i] = text[i] /\ text'[i - 1] = text[i - 1]
  BY <1>1
<1>3. EmojiBefore(text', i - 2) <=> EmojiBefore(text, i - 2)
  BY <1>2, SameBeginning
<1>4. \A m \in 1 .. i - 1 : IsRun(text', i - 1, m) <=> IsRun(text, i - 1, m)
  BY <1>2, SameBeginning
<1>5. OddRun(text', i - 1) <=> OddRun(text, i - 1)
  BY <1>4 DEF OddRun
<1> HIDE DEF Marks, Control
<1> QED
  BY <1>2, <1>3, <1>5 DEF RuleBreaks

LEMMA JoiningShrinks ==
  ASSUME text \in Seq(Chars), NEW c \in Chars, text' = Append(text, c), Joining(text')
  PROVE  Joining(text)
<1> DEFINE n == Len(text)
<1>1. /\ n \in Nat /\ Len(text') = n + 1
      /\ \A k \in 1 .. n : text'[k] = text[k]
  BY Grows
<1> SUFFICES ASSUME NEW m \in 1 .. n, text[m] = "zwj"
             PROVE  \/ /\ EmojiBefore(text, m - 1)
                       /\ m < n => text[m + 1] \notin {"ri", "symbol"}
                    \/ PlainBefore(text, m - 1)
  BY DEF Joining
<1> HIDE DEF n
<1>2. m - 1 \in Nat /\ \A k \in 1 .. m - 1 : text'[k] = text[k]
  BY <1>1
<1>3. /\ EmojiBefore(text', m - 1) <=> EmojiBefore(text, m - 1)
      /\ PlainBefore(text', m - 1) <=> PlainBefore(text, m - 1)
  BY <1>2, SameBeginning
<1>4. m \in 1 .. n + 1 /\ m < n + 1 /\ text'[m] = "zwj"
  BY <1>1
<1>5. \/ EmojiBefore(text', m - 1) /\ text'[m + 1] \notin {"ri", "symbol"}
      \/ PlainBefore(text', m - 1)
  BY <1>1, <1>4 DEF Joining
<1>6. m < n => text'[m + 1] = text[m + 1]
  BY <1>1
<1> QED
  BY <1>3, <1>5, <1>6

(* No emoji sequence after plain text. *)
LEMMA PlainIsNoEmoji ==
  ASSUME NEW t, NEW n \in Nat, PlainBefore(t, n)
  PROVE  ~ EmojiBefore(t, n)
<1>1. PICK p \in 0 .. n :
        (p > 0 => t[p] \in Plain) /\ \A k \in p + 1 .. n : t[k] \in {"extend", "zwj"}
  BY DEF PlainBefore
<1>2. ASSUME NEW j \in 1 .. n, t[j] = "pict", \A k \in j + 1 .. n : t[k] \in Marks
      PROVE  FALSE
  <2>1. CASE j > p
    BY <1>1, <1>2, <2>1
  <2>2. CASE j = p
    BY <1>1, <1>2, <2>2 DEF Plain
  <2>3. CASE j < p
    BY <1>1, <1>2, <2>3 DEF Plain
  <2> QED
    BY <2>1, <2>2, <2>3
<1> QED
  BY <1>2 DEF EmojiBefore

(* A text ends in one run at most. *)
LEMMA OneRun ==
  ASSUME NEW t, NEW n \in Nat, NEW m \in 1 .. n, NEW o \in 1 .. n,
         IsRun(t, n, m), IsRun(t, n, o)
  PROVE  m = o
<1>1. ASSUME NEW a \in 1 .. n, NEW b \in 1 .. n, IsRun(t, n, a), IsRun(t, n, b), a < b
      PROVE  FALSE
  BY <1>1 DEF IsRun
<1> QED
  BY <1>1

-----------------------------------------------------------------------------
(* One round of the loop. *)

LEMMA KeepsEmoji ==
  ASSUME ScanTypeOK, EmojiInv, NEW c \in Chars, ScanChar(c)
  PROVE  EmojiInv'
<1> DEFINE n == Len(text)
<1>1. /\ n \in Nat /\ Len(text') = n + 1
      /\ \A k \in 1 .. n : text'[k] = text[k] /\ text[k] \in Chars
      /\ text'[n + 1] = c
      /\ text # <<>> <=> n > 0
  BY Grows DEF ScanTypeOK, ScanChar
<1>2. c \in Pictographic => pending'
  BY DEF ScanChar, Begin, Continue, PendingWithin
<1>3. ASSUME c \in {"extend", "zwj"}, EmojiBefore(text, n)
      PROVE  pending'
  <2>1. n > 0 /\ text[n] \in {"pict", "extend", "modifier", "tone"}
    BY <1>1, <1>3 DEF EmojiBefore
  <2>2. ~ (text = <<>> \/ BreaksBetween(text[n], c))
    BY <1>1, <1>3, <2>1 DEF BreaksBetween, Attached
  <2>3. pending
    BY <1>3 DEF EmojiInv
  <2> QED
    BY <1>3, <2>2, <2>3 DEF ScanChar, Continue, PendingWithin
<1> HIDE DEF n
<1>4. ASSUME EmojiBefore(text', n + 1)
      PROVE  pending'
  <2>1. c = "pict" \/ (c \in Marks /\ EmojiBefore(text, n))
    BY <1>1, <1>4 DEF EmojiBefore
  <2> QED
    BY <1>2, <1>3, <2>1
<1>5. ASSUME c = "zwj", EmojiBefore(text', n)
      PROVE  pending'
  <2>1. EmojiBefore(text, n)
    BY <1>1, <1>5 DEF EmojiBefore
  <2> QED
    BY <1>3, <1>5, <2>1
<1>6. Len(text') - 1 = n /\ text'[Len(text')] = c
  BY <1>1
<1> QED
  BY <1>1, <1>4, <1>5, <1>6 DEF EmojiInv

LEMMA KeepsPlain ==
  ASSUME ScanTypeOK, PlainInv, NEW c \in Chars, ScanChar(c)
  PROVE  PlainInv'
<1> DEFINE n == Len(text)
<1>1. /\ n \in Nat /\ Len(text') = n + 1
      /\ \A k \in 1 .. n : text'[k] = text[k] /\ text[k] \in Chars
      /\ text'[n + 1] = c
      /\ text # <<>> <=> n > 0
  BY Grows DEF ScanTypeOK, ScanChar
<1> SUFFICES ASSUME c \notin Control, PlainBefore(text', n + 1)
             PROVE  ~ pending'
  BY <1>1 DEF PlainInv
<1>2. c \in Plain \/ (c \in {"extend", "zwj"} /\ PlainBefore(text, n))
  <2> HIDE DEF n
  <2>1. PICK j \in 0 .. n + 1 :
          /\ j > 0 => text'[j] \in Plain
          /\ \A k \in j + 1 .. n + 1 : text'[k] \in {"extend", "zwj"}
    BY DEF PlainBefore
  <2>2. CASE j = n + 1
    BY <1>1, <2>1, <2>2
  <2>3. CASE j # n + 1
    BY <1>1, <2>1, <2>3 DEF PlainBefore
  <2> QED
    BY <2>2, <2>3
<1>3. c \notin Pictographic
  BY <1>2 DEF Plain
<1>4. CASE c \in Plain
  <2>1. c \notin Extend \cup {"zwj"}
    BY <1>4 DEF Plain
  <2> QED
    BY <1>3, <2>1 DEF ScanChar, Begin, Continue, PendingWithin
<1>5. CASE c \in {"extend", "zwj"} /\ PlainBefore(text, n)
  <2>1. CASE text = <<>> \/ BreaksBetween(text[n], c)
    BY <1>3, <2>1 DEF ScanChar, Begin
  <2>2. CASE ~ (text = <<>> \/ BreaksBetween(text[n], c))
    <3>1. n > 0 /\ text[n] \notin Control
      BY <1>1, <2>2 DEF BreaksBetween
    <3>2. ~ pending
      BY <1>1, <1>5, <3>1 DEF PlainInv
    <3> QED
      BY <1>3, <2>2, <3>2 DEF ScanChar, Continue, PendingWithin
  <2> QED
    BY <2>1, <2>2
<1> QED
  BY <1>2, <1>4, <1>5

LEMMA KeepsPending ==
  ASSUME ScanTypeOK, PendingInv, NEW c \in Chars, ScanChar(c)
  PROVE  PendingInv'
BY KeepsEmoji, KeepsPlain DEF PendingInv

(***************************************************************************)
(* What `pending` means to the character after a joiner.                   *)
(***************************************************************************)
LEMMA JoinsTheRightOnes ==
  ASSUME ScanTypeOK, PendingInv, NEW c \in Chars, ScanChar(c), Joining(text'),
         text # <<>>, text[Len(text)] = "zwj"
  PROVE  \/ pending /\ EmojiBefore(text', Len(text) - 1) /\ c \notin {"ri", "symbol"}
         \/ ~ pending /\ ~ EmojiBefore(text', Len(text) - 1)
<1> DEFINE n == Len(text)
<1>1. /\ n \in Nat \ {0} /\ Len(text') = n + 1
      /\ \A k \in 1 .. n : text'[k] = text[k] /\ text[k] \in Chars
      /\ text'[n + 1] = c
  BY Grows DEF ScanTypeOK, ScanChar
<1>2. text[n] = "zwj"
  OBVIOUS
<1> HIDE DEF n
<1>3. \/ EmojiBefore(text', n - 1) /\ c \notin {"ri", "symbol"}
      \/ PlainBefore(text', n - 1)
  <2>1. n \in 1 .. n + 1 /\ n < n + 1 /\ text'[n] = "zwj"
    BY <1>1, <1>2
  <2> QED
    BY <1>1, <2>1 DEF Joining
<1>4. CASE EmojiBefore(text', n - 1) /\ c \notin {"ri", "symbol"}
  <2>1. EmojiBefore(text, n - 1)
    BY <1>1, <1>4 DEF EmojiBefore
  <2>2. pending
    BY <1>2, <2>1 DEF PendingInv, EmojiInv, n
  <2> QED
    BY <1>4, <2>2 DEF n
<1>5. CASE PlainBefore(text', n - 1)
  <2>1. PlainBefore(text, n)
    <3>1. PICK j \in 0 .. n - 1 :
            /\ j > 0 => text'[j] \in Plain
            /\ \A k \in j + 1 .. n - 1 : text'[k] \in {"extend", "zwj"}
      BY <1>5 DEF PlainBefore
    <3>2. j \in 0 .. n /\ (j > 0 => text[j] \in Plain)
      BY <1>1, <3>1
    <3>3. \A k \in j + 1 .. n : text[k] \in {"extend", "zwj"}
      BY <1>1, <1>2, <3>1
    <3> QED
      BY <3>2, <3>3 DEF PlainBefore
  <2>2. ~ pending
    BY <1>2, <2>1 DEF PendingInv, PlainInv, n
  <2>3. ~ EmojiBefore(text', n - 1)
    BY <1>1, <1>5, PlainIsNoEmoji
  <2> QED
    BY <2>2, <2>3 DEF n
<1> QED
  BY <1>3, <1>4, <1>5

(* One more regional indicator makes a run of them one longer. *)
LEMMA RunGrows ==
  ASSUME NEW t, NEW u, NEW n \in Nat, NEW m \in 1 .. n, IsRun(t, n, m),
         \A k \in 1 .. n : u[k] = t[k],  u[n + 1] = "ri"
  PROVE  IsRun(u, n + 1, m + 1)
<1>1. /\ (n + 1) - (m + 1) + 1 = n - m + 1
      /\ (n + 1) - (m + 1) = n - m
      /\ m + 1 < n + 1 => m < n /\ n - m \in 1 .. n
  OBVIOUS
<1>2. ASSUME NEW k \in n - m + 1 .. n + 1
      PROVE  u[k] = "ri"
  <2>1. CASE k = n + 1
    BY <2>1
  <2>2. CASE k # n + 1
    <3>1. k \in 1 .. n /\ k \in n - m + 1 .. n
      BY <2>2
    <3> QED
      BY <3>1 DEF IsRun
  <2> QED
    BY <2>1, <2>2
<1>3. m + 1 < n + 1 => u[n - m] # "ri"
  BY <1>1 DEF IsRun
<1> QED
  BY <1>1, <1>2, <1>3 DEF IsRun

LEMMA KeepsRun ==
  ASSUME ScanTypeOK, PendingInv, RunInv, NEW c \in Chars, ScanChar(c)
  PROVE  RunInv'
<1> DEFINE n == Len(text)
<1>1. /\ n \in Nat /\ Len(text') = n + 1
      /\ \A k \in 1 .. n : text'[k] = text[k] /\ text[k] \in Chars
      /\ text'[n + 1] = c
      /\ text # <<>> <=> n > 0
  BY Grows DEF ScanTypeOK, ScanChar
<1>2. CASE text = <<>> \/ BreaksBetween(text[n], c)
  <2>1. run' = One(c)
    BY <1>2 DEF ScanChar, Begin
  <2>2. c = "prepend" => run' = 0
    BY <2>1 DEF One
  <2>3. ASSUME c = "ri", Joining(text')
        PROVE  \E m \in 1 .. n + 1 : IsRun(text', n + 1, m) /\ m % 2 = run' % 2
    <3>1. run' = 1
      BY <2>1, <2>3 DEF One
    <3>2. CASE n > 0 /\ text[n] = "ri"
      <4>1. Joining(text)
        BY <2>3, JoiningShrinks DEF ScanTypeOK, ScanChar
      <4>2. PICK m \in 1 .. n : IsRun(text, n, m) /\ m % 2 = run % 2
        BY <1>1, <3>2, <4>1 DEF RunInv
      <4>3. run % 2 # 1
        BY <1>1, <1>2, <2>3, <3>2 DEF BreaksBetween
      <4>4. (m + 1) % 2 = 1
        BY <4>2, <4>3 DEF ScanTypeOK
      <4>5. IsRun(text', n + 1, m + 1)
        BY <1>1, <2>3, <4>2, RunGrows
      <4> QED
        BY <1>1, <3>1, <4>4, <4>5
    <3>3. CASE ~ (n > 0 /\ text[n] = "ri")
      <4>1. IsRun(text', n + 1, 1)
        BY <1>1, <2>3, <3>3 DEF IsRun
      <4> QED
        BY <1>1, <3>1, <4>1
    <3> QED
      BY <3>2, <3>3
  <2> QED
    BY <1>1, <2>2, <2>3 DEF RunInv
<1>3. CASE ~ (text = <<>> \/ BreaksBetween(text[n], c))
  <2>1. run' = run + One(c)
    BY <1>3 DEF ScanChar, Continue
  <2>2. n > 0 /\ (c \notin Control => text[n] \notin Control)
    BY <1>1, <1>3 DEF BreaksBetween
  <2>3. ASSUME c = "prepend" PROVE run' = 0
    <3>1. text[n] = "prepend"
      BY <1>1, <1>3, <2>2, <2>3 DEF BreaksBetween, Attached
    <3> QED
      BY <1>1, <2>1, <2>2, <2>3, <3>1 DEF RunInv, One
  <2>4. ASSUME c = "ri", Joining(text')
        PROVE  \E m \in 1 .. n + 1 : IsRun(text', n + 1, m) /\ m % 2 = run' % 2
    <3>1. Joining(text)
      BY <2>4, JoiningShrinks DEF ScanTypeOK, ScanChar
    <3>0. ~ (text[n] = "zwj" /\ pending)
      BY <1>1, <2>2, <2>4, JoinsTheRightOnes
    <3>2. text[n] = "prepend" \/ (text[n] = "ri" /\ run % 2 = 1)
      BY <1>1, <1>3, <2>2, <2>4, <3>0 DEF BreaksBetween, Attached
    <3>3. CASE text[n] = "prepend"
      <4>1. run' = 1
        BY <1>1, <2>1, <2>2, <2>4, <3>3 DEF RunInv, One
      <4>2. IsRun(text', n + 1, 1)
        BY <1>1, <2>2, <2>4, <3>3 DEF IsRun
      <4> QED
        BY <1>1, <4>1, <4>2
    <3>4. CASE text[n] = "ri" /\ run % 2 = 1
      <4>1. PICK m \in 1 .. n : IsRun(text, n, m) /\ m % 2 = run % 2
        BY <1>1, <2>2, <3>1, <3>4 DEF RunInv
      <4>2. (m + 1) % 2 = run' % 2
        BY <2>1, <2>4, <3>4, <4>1 DEF ScanTypeOK, One
      <4>3. IsRun(text', n + 1, m + 1)
        BY <1>1, <2>4, <4>1, RunGrows
      <4> QED
        BY <1>1, <4>2, <4>3
    <3> QED
      BY <3>2, <3>3, <3>4
  <2> QED
    BY <1>1, <2>3, <2>4 DEF RunInv
<1> QED
  BY <1>2, <1>3

(***************************************************************************)
(* Whether a cluster begins at the new character: the loop and the rules   *)
(* agree.                                                                  *)
(***************************************************************************)
LEMMA BreaksAgree ==
  ASSUME ScanTypeOK, PendingInv, RunInv, NEW c \in Chars, ScanChar(c), text # <<>>,
         Joining(text')
  PROVE  BreaksBetween(text[Len(text)], c) <=> RuleBreaks(text', Len(text) + 1)
<1> DEFINE n == Len(text)
<1>1. /\ n \in Nat \ {0}
      /\ \A k \in 1 .. n : text'[k] = text[k] /\ text[k] \in Chars
      /\ text'[n] = text[n]
      /\ text'[n + 1] = c
  BY Grows DEF ScanTypeOK, ScanChar
<1>2. Joining(text)
  BY JoiningShrinks DEF ScanTypeOK, ScanChar
<1>3. text[n] = "zwj" =>
        \/ pending /\ EmojiBefore(text', n - 1) /\ c \notin {"ri", "symbol"}
        \/ ~ pending /\ ~ EmojiBefore(text', n - 1)
  BY JoinsTheRightOnes
<1>4. ASSUME c = "ri"
      PROVE  (text[n] = "ri" /\ run % 2 = 1) <=> OddRun(text', n)
  <2>1. CASE text[n] # "ri"
    <3>1. \A m \in 1 .. n : ~ IsRun(text', n, m)
      BY <1>1, <2>1 DEF IsRun
    <3> QED
      BY <2>1, <3>1 DEF OddRun
  <2>2. CASE text[n] = "ri"
    <3>1. PICK m \in 1 .. n : IsRun(text, n, m) /\ m % 2 = run % 2
      BY <1>1, <1>2, <2>2 DEF RunInv
    <3>2. IsRun(text', n, m)
      BY <1>1, <3>1, SameBeginning
    <3>3. \A o \in 1 .. n : IsRun(text', n, o) => o = m
      BY <1>1, <3>2, OneRun
    <3> QED
      BY <2>2, <3>1, <3>2, <3>3 DEF OddRun
  <2> QED
    BY <2>1, <2>2
<1>5. (n + 1) - 1 = n /\ (n + 1) - 2 = n - 1
  BY <1>1
<1>6. RuleBreaks(text', n + 1) <=>
        /\ ~ (text[n] = "cr" /\ c = "lf")
        /\ \/ text[n] \in Control \/ c \in Control
           \/ /\ ~ Attached(text[n], c)
              /\ ~ (text[n] = "zwj" /\ c = "pict" /\ EmojiBefore(text', n - 1))
              /\ ~ (c = "ri" /\ OddRun(text', n))
  BY <1>1, <1>5 DEF RuleBreaks, Attached, Syllable
<1> HIDE DEF n
<1>7. BreaksBetween(text[n], c) <=>
        /\ ~ (text[n] = "cr" /\ c = "lf")
        /\ \/ text[n] \in Control \/ c \in Control
           \/ /\ ~ Attached(text[n], c)
              /\ ~ (text[n] = "zwj" /\ pending /\ c \in Pictographic)
              /\ ~ (text[n] = "ri" /\ c = "ri" /\ run % 2 = 1)
  BY DEF BreaksBetween
<1>8. c \notin Control /\ ~ Attached(text[n], c) =>
        (c \in Pictographic <=> c \in {"pict", "ri", "symbol"})
  BY DEF Attached
<1>9. BreaksBetween(text[n], c) <=> RuleBreaks(text', n + 1)
  BY <1>3, <1>4, <1>6, <1>7, <1>8
<1> QED
  BY <1>9 DEF n

LEMMA KeepsBreaks ==
  ASSUME ScanInv, NEW c \in Chars, ScanChar(c)
  PROVE  BreaksByTheRules'
<1> DEFINE n == Len(text)
<1> SUFFICES ASSUME Joining(text'), NEW i \in 1 .. Len(text')
             PROVE  i \in starts' <=> i = 1 \/ RuleBreaks(text', i)
  BY DEF BreaksByTheRules
<1>1. /\ n \in Nat /\ Len(text') = n + 1
      /\ text # <<>> <=> n > 0
      /\ starts \subseteq 1 .. n
      /\ text \in Seq(Chars) /\ text' = Append(text, c)
  BY Grows DEF ScanInv, ScanTypeOK, ScanChar
<1>2. Joining(text)
  BY <1>1, JoiningShrinks
<1>3. IF text = <<>> \/ BreaksBetween(text[n], c) THEN starts' = starts \cup {n + 1}
                                                ELSE starts' = starts
  BY DEF ScanChar, Begin, Continue
<1>4. CASE i \in 1 .. n
  <2>1. i \in starts' <=> i \in starts
    BY <1>1, <1>3, <1>4
  <2>2. i \in starts <=> i = 1 \/ RuleBreaks(text, i)
    BY <1>2, <1>4 DEF ScanInv, BreaksByTheRules
  <2>3. i # 1 => (RuleBreaks(text', i) <=> RuleBreaks(text, i))
    BY <1>1, <1>4, RuleLooksBack
  <2> QED
    BY <2>1, <2>2, <2>3
<1>5. CASE i = n + 1
  <2>1. i \in starts' <=> text = <<>> \/ BreaksBetween(text[n], c)
    BY <1>1, <1>3, <1>5
  <2>2. text = <<>> <=> i = 1
    BY <1>1, <1>5
  <2>3. text # <<>> => (BreaksBetween(text[n], c) <=> RuleBreaks(text', i))
    BY <1>5, BreaksAgree DEF ScanInv
  <2> QED
    BY <2>1, <2>2, <2>3
<1> QED
  BY <1>1, <1>4, <1>5

LEMMA KeepsTypes ==
  ASSUME ScanTypeOK, NEW c \in Chars, ScanChar(c)
  PROVE  ScanTypeOK'
<1>1. text' \in Seq(Chars)
  BY Grows DEF ScanTypeOK, ScanChar
<1> DEFINE n == Len(text)
<1>0. n \in Nat /\ Len(text') = n + 1
  BY Grows DEF ScanTypeOK, ScanChar
<1>2. One(c) \in Nat
  BY DEF One
<1>3. CASE Begin(c)
  <2>1. pending' \in BOOLEAN
    BY <1>3 DEF Begin
  <2>2. starts' \subseteq 1 .. Len(text') /\ run' \in Nat
    <3>1. starts' = starts \cup {n + 1} /\ run' = One(c)
      BY <1>3 DEF Begin
    <3>2. starts \subseteq 1 .. n
      BY DEF ScanTypeOK
    <3> HIDE DEF n
    <3> QED
      BY <1>0, <1>2, <3>1, <3>2
  <2> QED
    BY <1>1, <2>1, <2>2 DEF ScanTypeOK
<1>4. CASE Continue(c)
  <2>1. pending' \in BOOLEAN
    BY <1>4 DEF ScanTypeOK, Continue, PendingWithin
  <2> QED
    BY <1>0, <1>1, <1>2, <1>4, <2>1 DEF ScanTypeOK, Continue
<1> QED
  BY <1>3, <1>4 DEF ScanChar

(***************************************************************************)
(* grapheme_clusters begins its clusters where UAX #29 does, over the      *)
(* classes of Graphemes, in every text of any length that is Joining; and  *)
(* its types.                                                              *)
(***************************************************************************)
THEOREM ClustersFollowTheRules == ScanSpec => [](ScanTypeOK /\ BreaksByTheRules)
<1>1. ScanInit => ScanInv
  <2> SUFFICES ASSUME ScanInit PROVE ScanInv
    OBVIOUS
  <2>1. ScanTypeOK
    <3> HIDE DEF Chars
    <3>1. <<>> \in Seq(Chars)
      OBVIOUS
    <3> QED
      BY <3>1 DEF ScanInit, ScanTypeOK
  <2>2. PendingInv /\ RunInv
    <3>1. Len(text) = 0
      BY DEF ScanInit
    <3> QED
      BY <3>1 DEF ScanInit, PendingInv, EmojiInv, PlainInv, RunInv, EmojiBefore
  <2>3. BreaksByTheRules
    <3>1. Len(text) = 0
      BY DEF ScanInit
    <3> QED
      BY <3>1 DEF BreaksByTheRules
  <2> QED
    BY <2>1, <2>2, <2>3 DEF ScanInv
<1>2. ScanInv /\ [ScanNext]_scan => ScanInv'
  <2> SUFFICES ASSUME ScanInv, [ScanNext]_scan PROVE ScanInv'
    OBVIOUS
  <2>1. CASE UNCHANGED scan
    BY <2>1 DEF scan, ScanInv, ScanTypeOK, PendingInv, EmojiInv, PlainInv, RunInv,
      BreaksByTheRules
  <2>2. CASE ScanNext
    <3>1. PICK c \in Chars : ScanChar(c)
      BY <2>2 DEF ScanNext
    <3> QED
      BY <3>1, KeepsTypes, KeepsPending, KeepsRun, KeepsBreaks DEF ScanInv
  <2> QED
    BY <2>1, <2>2
<1>3. ScanInv => ScanTypeOK /\ BreaksByTheRules
  BY DEF ScanInv
<1> QED
  BY <1>1, <1>2, <1>3, PTL DEF ScanSpec
=============================================================================
