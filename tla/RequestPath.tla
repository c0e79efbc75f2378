---------------------------- MODULE RequestPath ----------------------------
(***************************************************************************)
(* What a request goes through around its handler: the injected delay and  *)
(* fault (app/core/chaos.py), the lease (request_context in app/main.py    *)
(* and reset_demo_state), and, for a download, the body that is sent when  *)
(* the handler has returned (download_attachment in                        *)
(* app/api/v1/endpoints/attachments.py and Starlette's FileResponse).      *)
(*                                                                         *)
(* One action is one stretch of a request's coroutine between two points   *)
(* at which it suspends.                                                   *)
(***************************************************************************)
EXTENDS OperationBarrier

CONSTANTS
  Files,        \* contest files present when the model begins
  MaxFailNext   \* bound of the model; the schema allows 1000

ASSUME BoundAssumption == MaxFailNext \in Nat

VARIABLES
  step,      \* how far each request has come
  kind,      \* what it asks for
  read,      \* the chaos configuration its apply() has read
  file,      \* the file its handler has resolved
  uploads,   \* the files in uploads/
  config,    \* ChaosController._config
  asked,     \* auxiliary: failNext as the dev route last set it
  injected,  \* auxiliary: faults injected since
  overlap    \* auxiliary: one of them overwrote a newer configuration

requestVars == <<step, kind, read, file, uploads, config, asked, injected, overlap>>

vars == <<barrierVars, requestVars>>

(***************************************************************************)
(* Requests by what matters here: `health' is excluded from chaos,         *)
(* `configure' is the chaos route, `reset' either reset route, `download'  *)
(* one of a whole file, and `work' any other finite operation.  To the     *)
(* barrier the registration of a client on /events is `work' as well: its  *)
(* route takes the lease that the middleware leaves to it, and gives it    *)
(* back before the stream begins.                                          *)
(***************************************************************************)
Leased == {"health", "work", "configure", "download"}

Kinds == Leased \cup {"reset"}

NoRequest == "none"

ExcludedPaths == {"health"}

Configs == [latency : BOOLEAN, failNext : 0..MaxFailNext]

NoChaos == [latency |-> FALSE, failNext |-> 0]

NoFile == "no file"

Init ==
  /\ BarrierInit
  /\ step = [t \in Tasks |-> "idle"]
  /\ kind = [t \in Tasks |-> NoRequest]
  /\ read = [t \in Tasks |-> NoChaos]
  /\ file = [t \in Tasks |-> NoFile]
  /\ uploads = Files
  /\ config = NoChaos
  /\ asked = 0 /\ injected = 0 /\ overlap = FALSE

Goes(t, s) == step' = [step EXCEPT ![t] = s]

Ends(t) == Goes(t, "idle") /\ kind' = [kind EXCEPT ![t] = NoRequest]

-----------------------------------------------------------------------------
(* Chaos, before the lease. *)

(***************************************************************************)
(* The end of apply(): a request that is to fail counts failNext down in   *)
(* the configuration c it has read, and puts that in place of whatever the *)
(* controller holds by now.                                                *)
(***************************************************************************)
(* Mutant: the last fault is not the last. *)
FailUnguarded(t, c) ==
  /\ config' = [c EXCEPT !.failNext = @ - 1]
  /\ injected' = injected + 1
  /\ overlap' = (overlap \/ c # config)
  /\ Ends(t)
  /\ UNCHANGED <<barrierVars, uploads, file, asked>>

(* Mutant: the fault is raised before it is counted.                       *)
FailUncounted(t, c) ==
  /\ c.failNext > 0
  /\ injected' = injected + 1
  /\ overlap' = (overlap \/ c # config)
  /\ Ends(t)
  /\ UNCHANGED <<barrierVars, uploads, file, config, asked>>

Fail(t, c) ==
  /\ c.failNext > 0
  /\ config' = [c EXCEPT !.failNext = @ - 1]
  /\ injected' = injected + 1
  /\ overlap' = (overlap \/ c # config)
  /\ Ends(t)
  /\ UNCHANGED <<barrierVars, uploads, file, asked>>

(***************************************************************************)
(* Past chaos, a finite operation asks for its shared lease at once.  A    *)
(* reset goes on to its route without one.                                 *)
(***************************************************************************)
Pass(t, k) ==
  /\ IF k \in Leased
       THEN Goes(t, "leasing") /\ Ask(t, "shared")
       ELSE Goes(t, "routed") /\ UNCHANGED barrierVars
  /\ kind' = [kind EXCEPT ![t] = k]
  /\ UNCHANGED <<uploads, file, config, asked, injected, overlap>>

Arrive(t, k) ==
  /\ step[t] = "idle"
  /\ \/ /\ k \in ExcludedPaths
        /\ Pass(t, k)
        /\ UNCHANGED read
     \/ /\ k \notin ExcludedPaths /\ config.latency
        /\ read' = [read EXCEPT ![t] = config]
        /\ Goes(t, "delayed")
        /\ kind' = [kind EXCEPT ![t] = k]
        /\ UNCHANGED <<barrierVars, uploads, file, config, asked, injected, overlap>>
     \/ /\ k \notin ExcludedPaths /\ ~ config.latency
        /\ Fail(t, config) \/ (config.failNext = 0 /\ Pass(t, k))
        /\ UNCHANGED read

DelayEnds(t) ==
  /\ step[t] = "delayed"
  /\ Fail(t, read[t]) \/ (read[t].failNext = 0 /\ Pass(t, kind[t]))
  /\ read' = [read EXCEPT ![t] = NoChaos]

-----------------------------------------------------------------------------
(* The lease and the handlers under it. *)

(***************************************************************************)
(* The reset route reaches barrier.exclusive().                            *)
(***************************************************************************)
AskForReset(t) ==
  /\ step[t] = "routed"
  /\ Goes(t, "leasing")
  /\ Ask(t, "exclusive")
  /\ UNCHANGED <<kind, read, file, uploads, config, asked, injected, overlap>>

LookAgain(t) ==
  /\ Recheck(t)
  /\ UNCHANGED requestVars

Handling(t, k) == step[t] = "leasing" /\ place[t] = "inside" /\ kind[t] = k

Configure(t, c) ==
  /\ Handling(t, "configure")
  /\ config' = c
  /\ asked' = c.failNext /\ injected' = 0 /\ overlap' = FALSE
  /\ Goes(t, "handled")
  /\ UNCHANGED <<barrierVars, kind, read, file, uploads>>

(***************************************************************************)
(* store.reset removes uploads/ without suspending.                        *)
(***************************************************************************)
DeleteUploads(t) ==
  /\ Handling(t, "reset")
  /\ uploads' = {}
  /\ Goes(t, "handled")
  /\ UNCHANGED <<barrierVars, kind, read, file, config, asked, injected, overlap>>

(***************************************************************************)
(* A download without a Range header finds its file and leaves the rest to *)
(* FileResponse.  With one, the handler reads the bytes itself before it   *)
(* suspends, so it ends as any other operation does.                       *)
(***************************************************************************)
Resolve(t, f) ==
  /\ Handling(t, "download")
  /\ f \in uploads
  /\ file' = [file EXCEPT ![t] = f]
  /\ Goes(t, "found")
  /\ UNCHANGED <<barrierVars, kind, read, uploads, config, asked, injected, overlap>>

(* Mutant: the lease is forgotten instead of given back. *)
FinishForgetting(t) ==
  /\ step[t] \in {"leasing", "handled"} /\ place[t] = "inside"
  /\ place' = [place EXCEPT ![t] = "away"]
  /\ Ends(t)
  /\ UNCHANGED <<shared, exclusive, mode, read, file, uploads, config, asked,
                 injected, overlap>>

(***************************************************************************)
(* The handler answers, with success or an error, and the lease is given   *)
(* back.                                                                   *)
(***************************************************************************)
Finish(t) ==
  /\ step[t] \in {"leasing", "handled"}
  /\ Leave(t)
  /\ Ends(t)
  /\ UNCHANGED <<read, file, uploads, config, asked, injected, overlap>>

-----------------------------------------------------------------------------
(* The body of a full download. *)

(***************************************************************************)
(* FileResponse looks at the file's size in a thread and sends the head of *)
(* the response.                                                           *)
(***************************************************************************)
SendHead(t) ==
  /\ step[t] = "found"
  /\ Goes(t, "headed")
  /\ UNCHANGED <<barrierVars, kind, read, file, uploads, config, asked, injected, overlap>>

(***************************************************************************)
(* The head has made call_next return, which ends the lease.               *)
(***************************************************************************)
(* Mutant: the lease ends when the handler has returned.                   *)
EndLeaseAtOnce(t) ==
  /\ step[t] \in {"found", "headed", "open"}
  /\ Leave(t)
  /\ UNCHANGED requestVars

EndLease(t) ==
  /\ step[t] \in {"headed", "open"}
  /\ Leave(t)
  /\ UNCHANGED requestVars

(***************************************************************************)
(* FileResponse opens the file.  From then on it can be read to its end,   *)
(* deleted or not; if it is gone before, the response is cut short.        *)
(***************************************************************************)
OpenBody(t) ==
  /\ step[t] = "headed"
  /\ Goes(t, IF file[t] \in uploads THEN "open" ELSE "cut")
  /\ UNCHANGED <<barrierVars, kind, read, file, uploads, config, asked, injected, overlap>>

EndBody(t) ==
  /\ step[t] \in {"open", "cut"} /\ place[t] = "away"
  /\ Ends(t)
  /\ file' = [file EXCEPT ![t] = NoFile]
  /\ UNCHANGED <<barrierVars, read, uploads, config, asked, injected, overlap>>

Proceed(t) ==
  \/ DelayEnds(t) \/ AskForReset(t) \/ LookAgain(t)
  \/ (\E c \in Configs : Configure(t, c)) \/ DeleteUploads(t)
  \/ (\E f \in Files : Resolve(t, f)) \/ Finish(t)
  \/ SendHead(t) \/ EndLease(t) \/ OpenBody(t) \/ EndBody(t)

Next == \E t \in Tasks : Proceed(t) \/ \E k \in Kinds : Arrive(t, k)

Spec == Init /\ [][Next]_vars

(***************************************************************************)
(* The event loop runs every task that is ready, sleeps end, and handlers  *)
(* return.  No request has to arrive.                                      *)
(***************************************************************************)
FairSpec == Spec /\ \A t \in Tasks : WF_vars(Proceed(t))

-----------------------------------------------------------------------------
(* Properties. *)

TypeOK ==
  /\ BarrierTypeOK
  /\ step \in [Tasks -> {"idle", "delayed", "routed", "leasing", "handled",
                         "found", "headed", "open", "cut"}]
  /\ kind \in [Tasks -> Kinds \cup {NoRequest}]
  /\ read \in [Tasks -> Configs]
  /\ file \in [Tasks -> Files \cup {NoFile}]
  /\ uploads \subseteq Files
  /\ config \in Configs
  /\ asked \in 0..MaxFailNext
  /\ injected \in Nat /\ overlap \in BOOLEAN

(***************************************************************************)
(* The middleware and the routes use the barrier as its two context        *)
(* managers mean it to be used: no path gives back a lease twice, asks for *)
(* a second one, or forgets one.                                           *)
(***************************************************************************)
UsesBarrier == BarrierSpec

(***************************************************************************)
(* A file that was looked up under a lease is still there when its size is *)
(* read, and when its body is opened before the lease has ended: a reset   *)
(* can cut short only bodies that are opened later.                        *)
(***************************************************************************)
LeasedFilesStay ==
  \A t \in Tasks :
    (step[t] = "found" \/ (step[t] = "headed" /\ place[t] = "inside"))
      => file[t] \in uploads

(***************************************************************************)
(* As many faults are injected as the dev route asked for, unless one      *)
(* delayed request overwrites what another, or the dev route, has written  *)
(* since it read the configuration.                                        *)
(***************************************************************************)
FaultsAreExact == ~ overlap => injected + config.failNext = asked

(***************************************************************************)
(* Once no more resets come, every other request is served: none is left   *)
(* waiting for a lease, whatever the load.                                 *)
(***************************************************************************)
ResetArrives == \E t \in Tasks : Arrive(t, "reset")

RequestsAreServed ==
  <>[][~ ResetArrives]_vars =>
    \A t \in Tasks : kind[t] \in Leased ~> step[t] = "idle"

(***************************************************************************)
(* Once no more requests come, everybody is served, resets too.            *)
(***************************************************************************)
RequestArrives == \E t \in Tasks : \E k \in Kinds : Arrive(t, k)

EveryoneIsServed ==
  <>[][~ RequestArrives]_vars => <>[](\A t \in Tasks : step[t] = "idle")
=============================================================================
