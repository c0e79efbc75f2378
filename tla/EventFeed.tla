----------------------------- MODULE EventFeed -----------------------------
(***************************************************************************)
(* What the event stream promises one client (docs/contract-v1.md, section *)
(* 10), without ring, broker, queue or connection: within an epoch the     *)
(* events form one growing log, and the client hears it from the front     *)
(* without a gap.  Only a fresh snapshot lets it jump, and then to the end *)
(* of the log.                                                             *)
(***************************************************************************)
EXTENDS Naturals, Sequences

VARIABLES epoch, log, heard

fvars == <<epoch, log, heard>>

FInit == epoch = 1 /\ log = << >> /\ heard = << >>

(***************************************************************************)
(* A commit, or a restart that brings back one nobody was told of.         *)
(***************************************************************************)
LogGrows ==
  /\ Len(log) < Len(log') /\ log = SubSeq(log', 1, Len(log))
  /\ UNCHANGED <<epoch, heard>>

HearNext ==
  /\ heard # log
  /\ heard' = SubSeq(log, 1, Len(heard) + 1)
  /\ UNCHANGED <<epoch, log>>

TakeSnapshot ==
  /\ heard' = log
  /\ UNCHANGED <<epoch, log>>

(***************************************************************************)
(* A reset starts over.                                                    *)
(***************************************************************************)
NewEpoch ==
  /\ epoch' > epoch
  /\ log' = << >> /\ heard' = << >>

FNext == LogGrows \/ HearNext \/ TakeSnapshot \/ NewEpoch

FSpec == FInit /\ [][FNext]_fvars
=============================================================================
