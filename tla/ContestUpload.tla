---------------------------- MODULE ContestUpload ----------------------------
(***************************************************************************)
(* How one contest request is taken in: the body under the limit of        *)
(* MaxBodySizeMiddleware (app/main.py), the parts of the form              *)
(* (contest_charge in app/api/v1/endpoints/commands.py) and the files      *)
(* under those of AttachmentStager.stage.  Sizes are in chunks; what       *)
(* happens to a staged request is in Attachments, and how long a reason is *)
(* in Graphemes.                                                           *)
(***************************************************************************)
EXTENDS Integers, Sequences

CONSTANTS
  MaxRequestBytes,      \* limits of the code: MAX_REQUEST_BYTES,
  MaxAttachments,       \* MAX_ATTACHMENTS,
  MaxAttachmentBytes,   \* MAX_ATTACHMENT_BYTES,
  MaxTotalBytes,        \* MAX_ATTACHMENT_TOTAL_BYTES,
  MinReason, MaxReason, \* CONTEST_REASON_MIN_GRAPHEMES, ..._MAX_GRAPHEMES
  Uploads               \* what clients send

(***************************************************************************)
(* A file has a size and may have a flaw: a name that sanitises to nothing *)
(* or content that does not agree with its type.  Metadata that is         *)
(* malformed cannot be read from the body, be it that this is no multipart *)
(* form; invalid metadata does not have the fields of ContestMetadata.     *)
(* Metadata may come as a field of the form or, as a browser sends a blob, *)
(* as a file part; then it is one of the others, and may be undecodable    *)
(* bytes.                                                                  *)
(***************************************************************************)
File == [size : Nat, flaw : {"none", "name", "type"}]

Undeclared == -1  \* no Content-Length header

Upload == [ declared : Nat \cup {Undeclared},  \* Content-Length
            form     : Nat,                    \* the size of everything but the files
            metadata : {"sound", "invalid", "malformed", "undecodable"},
            reason   : Nat,                    \* in grapheme clusters
            others   : Nat,                    \* file parts that are no attachments
            files    : Seq(File) ]             \* the attachments

ASSUME UploadAssumption ==
  /\ {MaxRequestBytes, MaxAttachments, MaxAttachmentBytes, MaxTotalBytes} \subseteq Nat
  /\ MinReason \in Nat /\ MaxReason \in Nat
  /\ MaxTotalBytes <= MaxRequestBytes
  /\ Uploads \subseteq Upload
  /\ \A u \in Uploads : u.metadata = "undecodable" => u.others > 0

VARIABLES
  stage,   \* "idle", "receiving", "splitting", "staging" or "answered"
  upload,  \* what the client sends
  seen,    \* the bytes of the body the middleware has counted
  staged,  \* the sizes of the files that are staged, and
  total,   \* of all of them (_total_bytes)
  size,    \* what has been read of the file being staged
  disk,    \* the bytes in the request's staging directory
  code     \* the answer: an error code, or "accepted"

intake == <<stage, upload, seen, staged, total, size, disk, code>>

FileBytes(u) ==
  LET upTo[n \in 0 .. Len(u.files)] == IF n = 0 THEN 0 ELSE upTo[n - 1] + u.files[n].size
  IN  upTo[Len(u.files)]

BodySize(u) == u.form + FileBytes(u)

(* What the parser counts as files. *)
FileParts(u) == u.others + Len(u.files)

UploadInit ==
  /\ stage = "idle" /\ upload \in Uploads
  /\ seen = 0 /\ staged = <<>> /\ total = 0 /\ size = 0 /\ disk = 0 /\ code = "none"

(***************************************************************************)
(* The request is answered; leaving the `async with` discards the staging  *)
(* directory.                                                              *)
(***************************************************************************)
Answers(c) ==
  /\ stage' = "answered" /\ code' = c
  /\ size' = 0 /\ disk' = 0
  /\ UNCHANGED <<upload, seen, staged, total>>

-----------------------------------------------------------------------------
(* MaxBodySizeMiddleware. *)

Declares(n) == upload.declared # Undeclared /\ upload.declared > n

RejectDeclared ==
  /\ stage = "idle" /\ Declares(MaxRequestBytes)
  /\ Answers("attachment.total_too_large")

Admit ==
  /\ stage = "idle" /\ ~ Declares(MaxRequestBytes)
  /\ stage' = "receiving"
  /\ UNCHANGED <<upload, seen, staged, total, size, disk, code>>

Receive ==
  /\ stage = "receiving" /\ seen < BodySize(upload)
  /\ seen + 1 <= MaxRequestBytes
  /\ seen' = seen + 1
  /\ UNCHANGED <<stage, upload, staged, total, size, disk, code>>

(***************************************************************************)
(* One byte too many, and the parser is told that the client has gone: the *)
(* body is "malformed", not too large.  So is a form with more file parts, *)
(* of whatever name, than the parser is told to take, and what is not a    *)
(* form.                                                                   *)
(***************************************************************************)
ParserFails ==
  /\ stage = "receiving"
  /\ \/ seen < BodySize(upload) /\ seen + 1 > MaxRequestBytes
     \/ FileParts(upload) > MaxAttachments + 1
     \/ upload.metadata = "malformed"
  /\ Answers("request.malformed")

(* The client really goes, and nobody hears the answer. *)
ClientGoes ==
  /\ stage = "receiving" /\ seen < BodySize(upload)
  /\ Answers("gone")

Parsed ==
  /\ stage = "receiving" /\ seen = BodySize(upload)
  /\ FileParts(upload) <= MaxAttachments + 1
  /\ stage' = "splitting"
  /\ UNCHANGED <<upload, seen, staged, total, size, disk, code>>

-----------------------------------------------------------------------------
(* contest_charge. *)

MetadataMalformed ==
  /\ stage = "splitting" /\ upload.metadata = "malformed"
  /\ Answers("request.malformed")

(***************************************************************************)
(* Bytes that are not UTF-8 are decoded outside the try that would call    *)
(* them malformed, and nothing else handles the exception.                 *)
(***************************************************************************)
MetadataUndecodable ==
  /\ stage = "splitting" /\ upload.metadata = "undecodable"
  /\ Answers("server.internal")

TooMany ==
  /\ stage = "splitting" /\ upload.metadata \in {"sound", "invalid"}
  /\ Len(upload.files) > MaxAttachments
  /\ Answers("attachment.too_many")

MetadataInvalid ==
  /\ stage = "splitting" /\ upload.metadata = "invalid"
  /\ Len(upload.files) <= MaxAttachments
  /\ Answers("validation.failed")

ReasonInvalid ==
  /\ stage = "splitting" /\ upload.metadata = "sound"
  /\ Len(upload.files) <= MaxAttachments
  /\ upload.reason \notin MinReason .. MaxReason
  /\ Answers("contest.reason_invalid")

Split ==
  /\ stage = "splitting" /\ upload.metadata = "sound"
  /\ Len(upload.files) <= MaxAttachments
  /\ upload.reason \in MinReason .. MaxReason
  /\ stage' = "staging"
  /\ UNCHANGED <<upload, seen, staged, total, size, disk, code>>

-----------------------------------------------------------------------------
(* AttachmentStager.stage, for one file after the other. *)

Staging == stage = "staging" /\ Len(staged) < Len(upload.files)

Current == upload.files[Len(staged) + 1]

NameInvalid ==
  /\ Staging /\ Current.flaw = "name" /\ size = 0
  /\ Answers("attachment.invalid_name")

(* A chunk is read, counted and, if the limits allow it, written. *)
Chunk == Staging /\ Current.flaw # "name" /\ size < Current.size

TooLarge ==
  /\ Chunk /\ size + 1 > MaxAttachmentBytes
  /\ Answers("attachment.too_large")

(* Mutant: the last byte that the limit allows is too much. *)
TotalTooLargeOffByOne ==
  /\ Chunk /\ size + 1 <= MaxAttachmentBytes
  /\ total + size + 1 >= MaxTotalBytes
  /\ Answers("attachment.total_too_large")

TotalTooLarge ==
  /\ Chunk /\ size + 1 <= MaxAttachmentBytes
  /\ total + size + 1 > MaxTotalBytes
  /\ Answers("attachment.total_too_large")

(* Mutant: the limit of a file is left to the total. *)
WriteChunkUnlimited ==
  /\ Chunk
  /\ total + size + 1 <= MaxTotalBytes
  /\ size' = size + 1 /\ disk' = disk + 1
  /\ UNCHANGED <<stage, upload, seen, staged, total, code>>

(* Mutant: the total is checked without the file that is being read. *)
WriteChunkBesideTotal ==
  /\ Chunk /\ size + 1 <= MaxAttachmentBytes
  /\ total <= MaxTotalBytes
  /\ size' = size + 1 /\ disk' = disk + 1
  /\ UNCHANGED <<stage, upload, seen, staged, total, code>>

WriteChunk ==
  /\ Chunk /\ size + 1 <= MaxAttachmentBytes
  /\ total + size + 1 <= MaxTotalBytes
  /\ size' = size + 1 /\ disk' = disk + 1
  /\ UNCHANGED <<stage, upload, seen, staged, total, code>>

FileRead == Staging /\ Current.flaw # "name" /\ size = Current.size

Empty == FileRead /\ size = 0 /\ Answers("attachment.empty")

(* resolve_media_type looks at the head only once the file is on disk. *)
UnsupportedType ==
  /\ FileRead /\ size > 0 /\ Current.flaw = "type"
  /\ Answers("attachment.unsupported_media_type")

Staged ==
  /\ FileRead /\ size > 0 /\ Current.flaw = "none"
  /\ staged' = Append(staged, size) /\ total' = total + size
  /\ size' = 0
  /\ UNCHANGED <<stage, upload, seen, disk, code>>

(***************************************************************************)
(* The request goes on to the commit.  (Attachments moves its files out of *)
(* the directory; here they are gone with it.)                             *)
(***************************************************************************)
Accept ==
  /\ stage = "staging" /\ Len(staged) = Len(upload.files)
  /\ Answers("accepted")

UploadNext ==
  \/ RejectDeclared \/ Admit \/ Receive \/ ParserFails \/ ClientGoes \/ Parsed
  \/ MetadataMalformed \/ MetadataUndecodable \/ TooMany \/ MetadataInvalid \/ ReasonInvalid \/ Split
  \/ NameInvalid \/ TooLarge \/ TotalTooLarge \/ WriteChunk
  \/ Empty \/ UnsupportedType \/ Staged \/ Accept

UploadSpec == UploadInit /\ [][UploadNext]_intake

-----------------------------------------------------------------------------
(* Properties. *)

Codes == { "request.malformed", "validation.failed", "contest.reason_invalid",
           "attachment.too_many", "attachment.invalid_name", "attachment.too_large",
           "attachment.total_too_large", "attachment.empty",
           "attachment.unsupported_media_type", "server.internal" }

(***************************************************************************)
(* The answers an upload gives cause for.  No upload is to be answered     *)
(* "server.internal".                                                      *)
(***************************************************************************)
Deserved(u) ==
  LET sent == { u.files[i] : i \in 1 .. Len(u.files) }
  IN  { c \in Codes :
        \/ c = "request.malformed" /\ ( \/ BodySize(u) > MaxRequestBytes
                                       \/ FileParts(u) > MaxAttachments + 1
                                       \/ u.metadata \in {"malformed", "undecodable"} )
        \/ c = "validation.failed" /\ u.metadata = "invalid"
        \/ c = "attachment.total_too_large" /\ ( \/ FileBytes(u) > MaxTotalBytes
                                                 \/ u.declared > MaxRequestBytes )
        \/ c = "attachment.too_many" /\ Len(u.files) > MaxAttachments
        \/ c = "contest.reason_invalid" /\ u.reason \notin MinReason .. MaxReason
        \/ c = "attachment.invalid_name" /\ (\E f \in sent : f.flaw = "name")
        \/ c = "attachment.too_large" /\ (\E f \in sent : f.size > MaxAttachmentBytes)
        \/ c = "attachment.empty" /\ (\E f \in sent : f.size = 0)
        \/ c = "attachment.unsupported_media_type" /\ (\E f \in sent : f.flaw = "type") }

UploadTypeOK ==
  /\ stage \in {"idle", "receiving", "splitting", "staging", "answered"}
  /\ upload \in Upload
  /\ seen \in 0 .. MaxRequestBytes
  /\ staged \in Seq(1 .. MaxAttachmentBytes) /\ Len(staged) <= MaxAttachments
  /\ size \in 0 .. MaxAttachmentBytes
  /\ disk \in Nat /\ total \in Nat
  /\ code \in Codes \cup {"none", "accepted", "gone"}

(***************************************************************************)
(* Whatever is sent, and whenever the client goes, the staging directory   *)
(* of a request never holds more than the limit of a whole contest, and    *)
(* nothing before and after: the limits are checked before the write.      *)
(***************************************************************************)
StagingIsBounded ==
  /\ disk <= MaxTotalBytes
  /\ stage # "staging" => disk = 0

(***************************************************************************)
(* What is accepted gave no cause for a refusal, and its files were staged *)
(* to the last byte, although each limit is checked at another place and   *)
(* on another count: of the header, the body, the form, a file, the files. *)
(***************************************************************************)
AcceptedIsSound ==
  code = "accepted" =>
    /\ Deserved(upload) = {}
    /\ staged = [i \in 1 .. Len(upload.files) |-> upload.files[i].size]

(***************************************************************************)
(* Who sends a sound contest and stays to hear is not refused, however     *)
(* close to the limits it is, and a refusal names what is wrong - but for  *)
(* metadata in bytes that are not UTF-8, which is answered as a fault of   *)
(* the server.  (A body over its limit that does not say so in advance is  *)
(* "malformed", though "attachment.total_too_large" is what the contract   *)
(* calls it, and so are more attachments than the limit beside metadata in *)
(* a file part, though "attachment.too_many" is that.)                     *)
(***************************************************************************)
RefusedForCause ==
  \/ code \in {"none", "accepted", "gone"} \cup Deserved(upload)
  \/ code = "server.internal" /\ upload.metadata = "undecodable"
=============================================================================
