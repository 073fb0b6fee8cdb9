----------------------------- MODULE WasmRequest -----------------------------
(***************************************************************************)
(* One client request in one nginx worker: the server_rewrite, rewrite and *)
(* content handlers of the module, the request body they buffer, the       *)
(* resume handler, and the subrequests a guest launches.  The guest's runs *)
(* are those of ExecContract, which WasmExec implements.                   *)
(*                                                                         *)
(* The handlers live on nginx's own machinery, which is external: the      *)
(* phase engine, the reference count of the request, the list of posted    *)
(* requests, ngx_http_finalize_request and the event loop.  They are       *)
(* modelled by what the code relies on: a posted request has its           *)
(* write_event_handler called before the worker polls again, the request   *)
(* is destroyed when the last reference goes, and a finished subrequest    *)
(* posts its parent.                                                       *)
(***************************************************************************)
EXTENDS Naturals, Sequences, SequencesExt

CONSTANTS
  Budget,        \* wasm_fuel_limit
  MaxSubs,       \* bound: subrequests that may be unfinished at a time
  Sites          \* the deployments and clients to consider: records with
                 \* phases     the phases that have a handler (set = 1)
                 \* buffering  wasm_request_body_buffer_size > 0
                 \* body       what the client sends: see Bodies

PhaseOrder == <<"server_rewrite", "rewrite", "content">>
PhaseNames == Range(PhaseOrder)
Rewrites == {"server_rewrite", "rewrite"}

\* No body; one that came with the headers; one that comes later; one whose
\* Content-Length is over the limit; one that turns out over it when read.
Bodies == {"none", "here", "slow", "toolarge", "overflow"}

ASSUME RequestAssumption ==
  /\ Budget \in Nat /\ MaxSubs \in Nat
  /\ Sites \subseteq [phases : SUBSET PhaseNames, buffering : BOOLEAN, body : Bodies]

VARIABLES
  site,          \* the element of Sites this behaviour is about
  status, wait, spent, accounted,   \* ctx->exec, as in ExecContract
  bound,         \* ctx->exec.conf, "none" before the first phase
  completed,     \* ctx->exec_completed
  waiting,       \* ctx->waiting
  reading,       \* ctx->request_body_reading
  ready,         \* ctx->request_body_ready
  bodyStatus,    \* ctx->request_body_status: "ok" or "error"
  bodySet,       \* ctx->exec.abi.request_body_set
  produced,      \* status_set, body_set or content_type_set in ctx->exec.abi
  active,        \* ctx->subrequest.active
  pc,            \* where the worker is
  caller,        \* who runs the exec: the phase engine or the resume handler
  rc,            \* what the handler returns to its caller
  phase,         \* the phase r->phase_handler points at
  weh,           \* r->write_event_handler
  count,         \* r->main->count
  posted,        \* r->main->posted_requests
  upstream,      \* subrequests that wait for an event of their own
  sent,          \* a response header has been sent
  conn           \* "open", "closed" by finalization, or "aborted"

execVars == <<status, wait, spent, accounted>>
bodyVars == <<reading, ready, bodyStatus>>
abiVars  == <<bodySet, produced>>
ctxVars  == <<bound, completed, waiting>>
nginxVars == <<phase, weh, count, posted, upstream, sent, conn>>
vars == <<site, execVars, ctxVars, bodyVars, abiVars, active, pc, caller, rc,
          nginxVars>>

Exec == INSTANCE ExecContract

\* Subrequests that are not finished: those posted to start, and those waiting.
Subs(queue) == Cardinality({i \in DOMAIN queue : queue[i] = "sub"})
Unfinished == upstream + Subs(posted)

TypeOK ==
  /\ site \in Sites
  /\ status \in Exec!Idle \cup {"RUNNING", "DESTROYED"}
  /\ wait \in Exec!Kinds
  /\ spent \in 0..Budget /\ accounted \in 0..Budget
  /\ bound \in PhaseNames \cup {"none"}
  /\ completed \in BOOLEAN /\ waiting \in BOOLEAN
  /\ reading \in BOOLEAN /\ ready \in BOOLEAN
  /\ bodyStatus \in {"ok", "error"}
  /\ bodySet \in BOOLEAN /\ produced \in BOOLEAN
  /\ active \in BOOLEAN
  /\ pc \in {"phases", "bind", "body", "run", "exec", "return", "posted",
             "events", "over"}
  /\ caller \in {"phase", "resume"}
  /\ rc \in {"done", "declined", "ok", "error"}
  /\ phase \in PhaseNames
  /\ weh \in {"phases", "resume", "empty", "writer"}
  /\ count \in 0..(MaxSubs + 2)
  /\ posted \in Seq({"main", "sub"})
  /\ upstream \in 0..MaxSubs
  /\ sent \in BOOLEAN
  /\ conn \in {"open", "closed", "aborted"}

\* The request has been read and nginx starts its phases.
Init ==
  /\ site \in Sites
  /\ Exec!Init
  /\ bound = "none" /\ completed = FALSE /\ waiting = FALSE
  /\ reading = FALSE /\ ready = FALSE /\ bodyStatus = "ok"
  /\ bodySet = FALSE /\ produced = FALSE
  /\ active = FALSE
  /\ pc = "phases" /\ caller = "phase" /\ rc = "ok"
  /\ phase = "server_rewrite" /\ weh = "phases"
  /\ count = 1 /\ posted = <<>> /\ upstream = 0
  /\ sent = FALSE /\ conn = "open"

-----------------------------------------------------------------------------
(* nginx: the request's references and its end.                            *)

NextPhase(p) == IF p = "server_rewrite" THEN "rewrite" ELSE "content"

\* ngx_http_free_request: the pool goes, and with it the execution context.
Free(how) ==
  /\ conn' = how
  /\ status' = "DESTROYED"
  /\ count' = 0
  /\ posted' = <<>>
  /\ upstream' = 0
  /\ pc' = "over"
  /\ UNCHANGED <<wait, spent, accounted>>

\* ngx_http_finalize_connection: one reference goes, the last one frees.
Release ==
  IF count = 1
  THEN Free("closed")
  ELSE /\ count' = count - 1
       /\ pc' = "posted"
       /\ UNCHANGED <<execVars, posted, upstream, conn>>

\* A request whose output waits for its subrequests is finalized again by
\* ngx_http_writer; the others give their reference back.
FinalizeOutput ==
  IF Unfinished > 0
  THEN /\ weh' = "writer"
       /\ pc' = "posted"
       /\ UNCHANGED <<execVars, count, posted, upstream, conn>>
  ELSE /\ weh' = "empty"
       /\ Release

\* ngx_http_finalize_request for each kind of return code.  An error is
\* answered with an error page unless a response has been started, and the
\* error page may fail as well.
Finalize(code) ==
  \/ code = "done" /\ Release /\ UNCHANGED <<weh, sent>>
  \/ code = "ok" /\ FinalizeOutput /\ UNCHANGED sent
  \/ code = "error" /\ ~sent /\ sent' = TRUE /\ FinalizeOutput
  \/ code = "error" /\ Free("aborted") /\ UNCHANGED <<weh, sent>>

-----------------------------------------------------------------------------
(* The phase engine calls the handlers.                                    *)

\* A phase without a wasm handler; the content is then somebody else's.
SkipPhase ==
  /\ pc = "phases"
  /\ phase \notin site.phases
  /\ IF phase = "content"
     THEN /\ sent' = TRUE
          /\ FinalizeOutput
          /\ UNCHANGED phase
     ELSE /\ phase' = NextPhase(phase)
          /\ UNCHANGED <<execVars, pc, weh, count, posted, upstream, sent, conn>>
  /\ UNCHANGED <<site, ctxVars, bodyVars, abiVars, active, caller, rc>>

\* The phase checker calls the handler; the one of the content phase takes
\* nginx's write handler away first.
EnterPhase ==
  /\ pc = "phases"
  /\ phase \in site.phases
  /\ weh' = IF phase = "content" THEN "empty" ELSE weh
  /\ caller' = "phase"
  /\ pc' = "bind"
  /\ UNCHANGED <<site, execVars, ctxVars, bodyVars, abiVars, active, rc, phase,
                 count, posted, upstream, sent, conn>>

\* A completed context is initialised again even for the phase it completed.
BindsAnewMutant == bound = "none" \/ completed

\* ngx_http_wasm_get_or_create_ctx initialises the exec of a new context, and
\* of one that has completed another phase.
BindsAnew == bound = "none" \/ (completed /\ bound # phase)

\* The new phase gets no fuel of its own.
InitRequestExecMutant ==
  /\ status' = "READY" /\ wait' = "NONE"
  /\ UNCHANGED <<spent, accounted>>
  /\ bound' = phase
  /\ completed' = FALSE
  /\ bodySet' = FALSE /\ produced' = FALSE

\* ngx_http_wasm_init_request_exec
InitRequestExec ==
  /\ status' = "READY" /\ wait' = "NONE" /\ spent' = 0 /\ accounted' = 0
  /\ bound' = phase
  /\ completed' = FALSE
  /\ bodySet' = FALSE /\ produced' = FALSE

\* ngx_http_wasm_run_phase up to the request body: the context is bound to the
\* phase, and a rewrite phase that has completed is left to the next one.
BindPhase ==
  /\ pc = "bind"
  /\ IF BindsAnew
     THEN InitRequestExec
     ELSE UNCHANGED <<execVars, bound, completed, abiVars>>
  /\ IF bound' # phase
     THEN pc' = "return" /\ rc' = "error"
     ELSE IF completed' /\ phase \in Rewrites
          THEN pc' = "return" /\ rc' = "declined"
          ELSE pc' = "body" /\ UNCHANGED rc
  /\ UNCHANGED <<site, waiting, bodyVars, active, caller, nginxVars>>

\* There is no memory for a context, or for its cleanup.
ContextFails ==
  /\ pc = "bind" /\ bound = "none"
  /\ pc' = "return" /\ rc' = "error"
  /\ UNCHANGED <<site, execVars, ctxVars, bodyVars, abiVars, active, caller,
                 nginxVars>>

-----------------------------------------------------------------------------
(* The request body: ngx_http_wasm_prepare_request_body and its callback.  *)

\* The body is stored, or cannot be: ngx_http_wasm_store_request_body.
StoreBody ==
  \/ /\ site.body # "overflow"
     /\ bodyStatus' = "ok" /\ ready' = TRUE /\ bodySet' = TRUE
  \/ /\ bodyStatus' = "error" /\ ready' = FALSE /\ UNCHANGED bodySet

ReturnFromBody(code) == pc' = "return" /\ rc' = code

\* No buffering (the body is discarded), or the body is already there.
NothingToRead == ~site.buffering \/ ready

\* A body that failed before, or announces more than the limit.
BodyRefused ==
  \/ bodyStatus = "error"
  \/ ~NothingToRead /\ site.body = "toolarge"

\* ngx_http_read_client_request_body takes a reference, ...
Taken == count + 1

\* ... which stays with the request.
GivenBackMutant == Taken

\* ... which prepare_request_body gives back when the callback has been called.
GivenBack == Taken - 1

\* The whole of prepare_request_body.  Nginx may fail to discard the body, or to
\* read it, and then takes no reference.  Reading a body that is here runs the
\* callback before ngx_http_read_client_request_body returns.  When the body has
\* still to come, run_phase gives the reference back with
\* ngx_http_finalize_request(r, NGX_DONE) and returns NGX_DONE; nginx has put its
\* empty handler in write_event_handler meanwhile.
PrepareBody ==
  /\ pc = "body"
  /\ \/ /\ BodyRefused \/ ~site.buffering
        /\ ReturnFromBody("error")
        /\ UNCHANGED <<bodyVars, bodySet, nginxVars>>
     \/ /\ ~BodyRefused /\ NothingToRead
        /\ pc' = "run"
        /\ UNCHANGED <<rc, bodyVars, bodySet, nginxVars>>
     \/ /\ ~BodyRefused /\ ~NothingToRead /\ site.body = "none"
        /\ ready' = TRUE /\ bodySet' = TRUE
        /\ pc' = "run"
        /\ UNCHANGED <<rc, reading, bodyStatus, nginxVars>>
     \/ /\ ~BodyRefused /\ ~NothingToRead /\ site.body \in {"here", "overflow"}
        /\ StoreBody
        /\ IF bodyStatus' = "ok"
           THEN pc' = "run" /\ UNCHANGED rc
           ELSE ReturnFromBody("error")
        /\ count' = GivenBack
        /\ UNCHANGED <<reading, phase, weh, posted, upstream, sent, conn>>
     \/ /\ ~BodyRefused /\ ~NothingToRead
        /\ bodyStatus' = "error"
        /\ ReturnFromBody("error")
        /\ UNCHANGED <<reading, ready, bodySet, nginxVars>>
     \/ /\ ~BodyRefused /\ ~NothingToRead /\ site.body = "slow"
        /\ reading' = TRUE
        /\ weh' = "empty"
        /\ ReturnFromBody("done")
        /\ count' = Taken - 1
        /\ UNCHANGED <<ready, bodyStatus, bodySet, phase, posted, upstream, sent,
                       conn>>
  /\ UNCHANGED <<site, execVars, ctxVars, produced, active, caller>>

\* ngx_http_wasm_request_body_handler, from the event loop: the body is stored
\* and the resume handler is called at once, or the request is finalized.
BodyArrives ==
  /\ pc = "events"
  /\ reading
  /\ reading' = FALSE
  /\ StoreBody
  /\ caller' = "resume"
  /\ IF bodyStatus' = "ok"
     THEN pc' = "run" /\ UNCHANGED rc
     ELSE pc' = "return" /\ rc' = "error"
  /\ UNCHANGED <<site, execVars, ctxVars, produced, active, nginxVars>>

\* The client goes away, or client_body_timeout passes.
BodyLost ==
  /\ pc = "events"
  /\ reading
  /\ reading' = FALSE
  /\ Free("aborted")
  /\ UNCHANGED <<site, ctxVars, ready, bodyStatus, abiVars, active, caller, rc,
                 phase, weh, sent>>

-----------------------------------------------------------------------------
(* ngx_http_wasm_run_request.                                              *)

\* ngx_http_wasm_runtime_run is entered, with a context in whatever state.
StartRun ==
  /\ pc = "run"
  /\ status' = "RUNNING" /\ wait' = "NONE"
  /\ pc' = "exec"
  /\ UNCHANGED <<site, spent, accounted, ctxVars, bodyVars, abiVars, active,
                 caller, rc, nginxVars>>

\* The guest works; it may set a response status, type or body.
GuestWork ==
  /\ pc = "exec"
  /\ UNCHANGED wait
  /\ Exec!Work
  /\ produced' \in {produced, TRUE}
  /\ UNCHANGED <<site, ctxVars, bodyVars, bodySet, active, pc, caller, rc,
                 nginxVars>>

\* The guard of ngx_http_wasm_abi_subrequest.
MayLaunch == ~active /\ Unfinished < MaxSubs

\* ngx_wasm_subreq: the subrequest is posted and counted, and the run is asked
\* to wait for it; unless the copy of the headers fails after that, which
\* reports an error for a subrequest that goes on.
GuestSubrequest ==
  /\ pc = "exec"
  /\ MayLaunch
  /\ \/ wait' = "WAIT_IO" /\ active' = TRUE
     \/ UNCHANGED <<wait, active>>
  /\ Exec!Work
  /\ count' = count + 1
  /\ posted' = Append(posted, "sub")
  /\ UNCHANGED <<site, ctxVars, bodyVars, abiVars, pc, caller, rc, phase, weh,
                 upstream, sent, conn>>

\* A suspended request is never posted.
RepostMutant(kind) == posted

\* The request is posted when it only asked for another turn.
Repost(kind) ==
  IF kind = "RESCHEDULE" THEN Append(posted, "main") ELSE posted

\* A reference for every suspension, and none at all.
HoldMutant == phase = "content"
NoHoldMutant == FALSE

\* The first suspension in the content phase takes a reference: the handler's
\* NGX_DONE will be finalized.
Hold == ~waiting /\ phase = "content"

RunSuspends ==
  /\ pc = "exec"
  /\ \E kind \in Exec!Kinds :
       /\ Exec!Suspend(kind)
       /\ posted' = Repost(kind)
  /\ weh' = "resume"
  /\ count' = IF Hold THEN count + 1 ELSE count
  /\ waiting' = TRUE
  /\ pc' = "return" /\ rc' = "done"
  /\ UNCHANGED <<site, bound, completed, bodyVars, abiVars, active, caller,
                 phase, upstream, sent, conn>>

\* The request cannot be posted: the handler fails, and its context stays suspended.
RepostFails ==
  /\ pc = "exec"
  /\ Exec!Suspend("RESCHEDULE")
  /\ weh' = "resume"
  /\ pc' = "return" /\ rc' = "error"
  /\ UNCHANGED <<site, ctxVars, bodyVars, abiVars, active, caller, phase, count,
                 posted, upstream, sent, conn>>

RunFails ==
  /\ pc = "exec"
  /\ Exec!Fail
  /\ pc' = "return" /\ rc' = "error"
  /\ UNCHANGED <<site, ctxVars, bodyVars, abiVars, active, caller, nginxVars>>

\* Whatever the handler produced.
PassesOnMutant == phase \in Rewrites

\* A rewrite handler that produced nothing lets the request go on.
PassesOn == phase \in Rewrites /\ ~produced

MarkCompletedMutant == UNCHANGED completed

MarkCompleted == completed' = TRUE

\* The guest is done: the request goes on, or its response is sent; the header
\* filters may refuse it, and the output may fail after the header.
RunFinishes ==
  /\ pc = "exec"
  /\ Exec!Finish
  /\ MarkCompleted
  /\ waiting' = FALSE
  /\ pc' = "return"
  /\ \/ PassesOn /\ rc' = "declined" /\ UNCHANGED sent
     \/ ~PassesOn /\ sent' = TRUE /\ rc' \in {"ok", "error"}
     \/ ~PassesOn /\ rc' = "error" /\ UNCHANGED sent
  /\ UNCHANGED <<site, bound, bodyVars, abiVars, active, caller, phase, weh,
                 count, posted, upstream, conn>>

-----------------------------------------------------------------------------
(* Back in the caller of the handler.                                      *)

\* The rewrite checker: NGX_DECLINED goes on, NGX_DONE stops, the rest ends.
ReturnToRewrite ==
  /\ pc = "return" /\ caller = "phase" /\ phase \in Rewrites
  /\ \/ /\ rc = "declined"
        /\ phase' = NextPhase(phase)
        /\ pc' = "phases"
        /\ UNCHANGED <<execVars, weh, count, posted, upstream, sent, conn>>
     \/ /\ rc = "done"
        /\ pc' = "posted"
        /\ UNCHANGED <<execVars, nginxVars>>
     \/ /\ rc \in {"ok", "error"}
        /\ Finalize(rc)
        /\ UNCHANGED phase
  /\ UNCHANGED <<site, ctxVars, bodyVars, abiVars, active, caller, rc>>

\* The content checker finalizes whatever the handler returns.
ReturnToContent ==
  /\ pc = "return" /\ caller = "phase" /\ phase = "content"
  /\ Finalize(rc)
  /\ UNCHANGED <<site, ctxVars, bodyVars, abiVars, active, caller, rc, phase>>

\* The rest of ngx_http_wasm_resume_handler.  After NGX_DECLINED the phases go
\* on at the handler that was suspended.
ReturnToResume ==
  /\ pc = "return" /\ caller = "resume"
  /\ \/ /\ rc = "done"
        /\ pc' = "posted"
        /\ UNCHANGED <<execVars, nginxVars>>
     \/ /\ rc = "declined"
        /\ weh' = "phases"
        /\ pc' = "phases"
        /\ UNCHANGED <<execVars, phase, count, posted, upstream, sent, conn>>
     \/ /\ rc \in {"ok", "error"}
        /\ Finalize(rc)
        /\ UNCHANGED phase
  /\ UNCHANGED <<site, ctxVars, bodyVars, abiVars, active, caller, rc>>

-----------------------------------------------------------------------------
(* The posted requests and the event loop.                                 *)

\* ngx_http_run_posted_requests takes the request itself from the list: the
\* resume handler runs the guest again, unless the body has failed.
RunPosted ==
  /\ pc = "posted"
  /\ posted # <<>> /\ Head(posted) = "main"
  /\ posted' = Tail(posted)
  /\ \/ /\ weh = "resume"
        /\ caller' = "resume"
        /\ IF bodyStatus = "ok"
           THEN pc' = "run" /\ UNCHANGED rc
           ELSE pc' = "return" /\ rc' = "error"
     \/ /\ weh = "empty" \/ (weh = "writer" /\ Unfinished > 0)
        /\ UNCHANGED <<pc, caller, rc>>
  /\ UNCHANGED <<site, execVars, ctxVars, bodyVars, abiVars, active, phase, weh,
                 count, upstream, sent, conn>>

\* ngx_http_writer, when the subrequests are done.
RunWriter ==
  /\ pc = "posted"
  /\ posted # <<>> /\ Head(posted) = "main"
  /\ weh = "writer" /\ Unfinished = 0
  /\ weh' = "empty"
  /\ IF count = 1
     THEN Free("closed")
     ELSE /\ count' = count - 1
          /\ posted' = Tail(posted)
          /\ UNCHANGED <<execVars, pc, upstream, conn>>
  /\ UNCHANGED <<site, ctxVars, bodyVars, abiVars, active, caller, rc, phase,
                 sent>>

\* ngx_http_wasm_abi_subrequest_done
SubrequestDone == active' = FALSE

\* A subrequest starts: it finishes at once, or waits for an event.
StartSubrequest ==
  /\ pc = "posted"
  /\ posted # <<>> /\ Head(posted) = "sub"
  /\ \/ /\ SubrequestDone
        /\ count' = count - 1
        /\ posted' = Append(Tail(posted), "main")
        /\ UNCHANGED upstream
     \/ /\ posted' = Tail(posted)
        /\ upstream' = upstream + 1
        /\ UNCHANGED <<active, count>>
  /\ UNCHANGED <<site, execVars, ctxVars, bodyVars, abiVars, pc, caller, rc,
                 phase, weh, sent, conn>>

\* The event of a waiting subrequest comes: it finishes and posts its parent.
SubrequestEvent ==
  /\ pc = "events"
  /\ upstream > 0
  /\ upstream' = upstream - 1
  /\ SubrequestDone
  /\ count' = count - 1
  /\ posted' = Append(posted, "main")
  /\ pc' = "posted"
  /\ UNCHANGED <<site, execVars, ctxVars, bodyVars, abiVars, caller, rc, phase,
                 weh, sent, conn>>

\* A subrequest finds the client gone, or fails: the whole request ends.
SubrequestAborts ==
  /\ pc = "events"
  /\ upstream > 0
  /\ Free("aborted")
  /\ UNCHANGED <<site, ctxVars, bodyVars, abiVars, active, caller, rc, phase,
                 weh, sent>>

\* Nothing is posted: the worker polls for events and serves other requests.
Poll ==
  /\ pc = "posted"
  /\ posted = <<>>
  /\ pc' = "events"
  /\ UNCHANGED <<site, execVars, ctxVars, bodyVars, abiVars, active, caller, rc,
                 nginxVars>>

\* The end of the behaviour.
Over == pc = "over" /\ UNCHANGED vars

\* What the worker does by itself, and what it waits for.
WorkerStep ==
  \/ SkipPhase \/ EnterPhase \/ BindPhase \/ ContextFails \/ PrepareBody \/ StartRun
  \/ GuestWork \/ GuestSubrequest
  \/ RunSuspends \/ RepostFails \/ RunFails \/ RunFinishes
  \/ ReturnToRewrite \/ ReturnToContent \/ ReturnToResume
  \/ RunPosted \/ RunWriter \/ StartSubrequest \/ Poll

BodyEvent == BodyArrives \/ BodyLost
UpstreamEvent == SubrequestEvent \/ SubrequestAborts

Next == WorkerStep \/ BodyEvent \/ UpstreamEvent \/ Over

Spec == Init /\ [][Next]_vars

\* The worker runs the handlers to their end; a body arrives or times out, and
\* a subrequest's upstream answers or times out.
FairSpec ==
  Spec /\ WF_vars(WorkerStep) /\ WF_vars(BodyEvent) /\ WF_vars(UpstreamEvent)

-----------------------------------------------------------------------------
(* Properties.                                                             *)

\* Suspension and reference counting agree whenever a handler has returned to
\* nginx: the request holds one reference for itself and one for each
\* unfinished subrequest.  One too few frees a live request, one too many
\* leaks it.
CountMatches ==
  pc \in {"posted", "events"} => count = 1 + Unfinished

\* No lost wake-up: when the worker polls, a suspended request has an
\* unfinished subrequest that will post it, one that only asked for another
\* turn is not left behind, and a request that is not suspended waits for its
\* body or for its postponed output.
NoLostWakeup ==
  pc = "events" =>
    \/ status = "SUSPENDED" /\ weh = "resume" /\ wait = "WAIT_IO" /\ upstream > 0
    \/ status # "SUSPENDED" /\ reading
    \/ weh = "writer" /\ upstream > 0

\* Whatever was posted twice, and whichever handler comes next: the error branch
\* "request context already bound to a different phase" of run_phase is never
\* reached, and run_request never enters the runtime with a context that has
\* finished or failed.
RunsOnlyLive ==
  /\ pc = "bind" => bound \in {"none", phase} \/ completed
  /\ pc = "run" => status \in {"READY", "SUSPENDED"}

\* A request that nginx finalizes without an abort has been answered.
AnsweredWhenClosed == conn = "closed" => sent

\* The handlers use the execution context as ExecContract says: it is
\* initialised again only after DONE and never destroyed while it runs.
UsesContract == Exec!Spec

Precedes(p, q) == p # q /\ (p = "server_rewrite" \/ q = "content")

\* The phases run in nginx's order, each once, and only after every earlier
\* configured one came back without a response.
PhasesInOrder ==
  [][bound' # bound =>
       /\ bound' = phase
       /\ bound # "none" => completed /\ ~produced /\ status = "DONE"
       /\ \A p \in site.phases :
            Precedes(p, bound') => bound # "none" /\ ~Precedes(bound, p)]_vars

\* Every request ends.
EveryRequestEnds == <>(conn # "open")

\* What t/006-request-body-basic.t says: "content_by_wasm can read a
\* fixed-length request body".
GuestSeesBody ==
  pc = "exec" /\ site.buffering => bodySet

-----------------------------------------------------------------------------
(* Why they hold: the state of the execution, of nginx's request and of the *)
(* body at each place where the worker can be.                              *)

\* The request ends once, and its context with it.
EndsOnce ==
  /\ pc = "over" <=> conn # "open"
  /\ pc = "over" <=> status = "DESTROYED"

\* Before a phase is bound, the context is new, or has completed an earlier
\* phase (or this one, when it was suspended in it) without a response.
BetweenPhases ==
  pc \in {"phases", "bind"} =>
    /\ \/ /\ bound = "none" /\ Exec!Init
          /\ posted = <<>> /\ upstream = 0
       \/ bound \in Rewrites /\ completed /\ status = "DONE" /\ ~produced
    /\ \A p \in site.phases :
         Precedes(p, phase) => bound # "none" /\ ~Precedes(bound, p)

\* A handler at work has the context for its phase, and it is live.
AtWork ==
  /\ pc = "exec" <=> status = "RUNNING"
  /\ pc = "body" => status = "READY"
  /\ pc = "run" => status \in {"READY", "SUSPENDED"}
  /\ pc \in {"body", "run", "exec"} => bound = phase /\ ~completed

\* What a return code says of the context.
Returned ==
  pc = "return" =>
    /\ rc = "done" => status = "SUSPENDED" \/ reading
    /\ rc = "declined" =>
         /\ bound = phase /\ phase \in Rewrites
         /\ completed /\ status = "DONE" /\ ~produced /\ ~waiting
    /\ rc = "ok" => status = "DONE" /\ sent

\* ctx->waiting says whether the content phase has its extra reference; it is not set
\* when the request could not be posted, and then the handler fails.
WaitingIsHeld ==
  /\ pc \in {"phases", "bind", "body"} => ~waiting
  /\ pc \in {"bind", "body"} => caller = "phase"
  /\ pc \in {"run", "exec"} =>
       /\ caller = "phase" => ~waiting
       /\ caller = "resume" /\ phase = "content" => waiting
  /\ status = "SUSPENDED" => bound = phase /\ ~completed
  /\ pc = "return" /\ rc = "done" /\ status = "SUSPENDED" => waiting

\* The reference of a suspended content handler is given back by its checker.
Held ==
  /\ pc = "return" /\ rc = "done" /\ status = "SUSPENDED"
  /\ caller = "phase" /\ phase = "content"
ReferencesMatch ==
  /\ Unfinished <= MaxSubs
  /\ pc # "over" => count = 1 + Unfinished + (IF Held THEN 1 ELSE 0)

Has(queue, who) == \E i \in DOMAIN queue : queue[i] = who

\* Back in nginx, whoever has still to be called will be: a suspended request is
\* posted or will be by a subrequest, and so is one whose output is postponed.
WakeUpComes ==
  /\ pc \in {"posted", "events"} =>
       \/ /\ status = "SUSPENDED" /\ weh = "resume"
          /\ Has(posted, "main") \/ (wait = "WAIT_IO" /\ Unfinished > 0)
       \/ reading
       \/ weh = "writer" /\ (Unfinished > 0 \/ Has(posted, "main"))
  /\ pc = "return" /\ rc = "done" /\ status = "SUSPENDED" =>
       /\ weh = "resume"
       /\ Has(posted, "main") \/ (wait = "WAIT_IO" /\ Unfinished > 0)
  /\ pc = "events" => posted = <<>>
  /\ pc \in {"posted", "events"} /\ weh = "resume" => status = "SUSPENDED" /\ waiting
  /\ pc = "exec" => wait = "NONE" \/ (wait = "WAIT_IO" /\ Unfinished > 0)

\* A body is read in time unless the content phase is the first to read it.
ReadsInTime(s) == s.buffering /\ s.body = "slow" => s.phases \cap Rewrites # {}

\* The first phase reads the body, and its handler waits for it.
BodyFirst ==
  /\ reading /\ pc # "over" =>
       /\ pc \in {"return", "posted", "events"}
       /\ status = "READY" /\ weh = "empty"
       /\ bound = phase /\ ~completed /\ ~waiting
       /\ posted = <<>> /\ upstream = 0
       /\ pc = "return" => rc = "done" /\ caller = "phase"
       /\ phase = "content" => ~ReadsInTime(site)
       /\ phase = "content" => pc = "return"
  /\ site.buffering =>
       /\ pc \in {"phases", "bind"} /\ bound # "none" => ready
       /\ pc = "body" /\ ~ready =>
            /\ posted = <<>> /\ upstream = 0
            /\ \A p \in site.phases : ~Precedes(p, phase)
       /\ pc \in {"run", "exec"} \/ status = "SUSPENDED" => ready
       /\ pc = "return" /\ rc = "declined" => ready

\* Only a response is postponed.
Answered ==
  /\ weh = "writer" => sent
  /\ conn = "closed" /\ ReadsInTime(site) => sent

IInv ==
  /\ TypeOK /\ EndsOnce /\ BetweenPhases /\ AtWork /\ Returned
  /\ WaitingIsHeld /\ ReferencesMatch /\ WakeUpComes /\ BodyFirst /\ Answered
=============================================================================
