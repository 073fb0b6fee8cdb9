----------------------------- MODULE Subrequest -----------------------------
(***************************************************************************)
(* The subrequests of one guest (ngx_http_wasm_subrequest_state_t): the    *)
(* headers it stages, the launch and its failures, the handler that nginx  *)
(* calls when a subrequest is finalized, and what the guest reads          *)
(* afterwards.  The run of the guest is reduced to what this depends on:   *)
(* timeslices, yields and the wake-ups of the request (WasmExec and        *)
(* WasmRequest have the rest).                                             *)
(*                                                                         *)
(* External: nginx runs a subrequest between two runs of the guest and     *)
(* finalizes it.  With a status of 300 and more it first calls the done    *)
(* handler with that status; when an error_page then redirects the         *)
(* subrequest it goes on, and the handler is called again at its end.      *)
(* Bytes, the URI and the method are left out; so are failures before the  *)
(* launch has changed anything, which look like a refusal to the guest.    *)
(***************************************************************************)
EXTENDS Naturals

CONSTANTS
  Names,           \* names of headers a guest stages
  Blank,           \* a header whose name or value could not be copied
  Environments,    \* the sets of troubles that are met together, see below
  MaxLaunches,     \* bound: subrequests of a request
  MaxPosts         \* bound: pending wake-ups that are counted

Troubles == {"timeslice", "no_memory", "header_copy", "error_page"}

ASSUME SubrequestAssumption ==
  /\ Blank \notin Names
  /\ Environments \subseteq SUBSET Troubles
  /\ MaxLaunches \in Nat /\ MaxPosts \in Nat \ {0}

VARIABLES
  env,             \* the troubles of this behaviour
  run,             \* the run of the guest
  yielded, wait,   \* ctx->yielded, ctx->suspend_kind
  posts,           \* entries of the request in r->main->posted_requests
  pending,         \* state->pending_headers
  subrequest,      \* state->subrequest: the number of a launch, 0 for NULL
  capture,         \* state->capture_body
  active, done,    \* state->active, state->done
  rc,              \* state->rc: "ok", or not
  progress,        \* external: what each subrequest does
  headers,         \* external: the headers it was given
  launches,        \* external: how many there are
  last,            \* history: the last launch that was reported a success
  staged,          \* history: the headers staged with success since then
  given,           \* history: whose answer the guest was given since a launch
  overlapped       \* history: a subrequest may have started beside another

runVars   == <<run, yielded, wait, posts>>
stateVars == <<pending, subrequest, capture, active, done, rc>>
subVars   == <<progress, headers, launches>>
historyVars == <<last, staged, given, overlapped>>
vars == <<env, runVars, stateVars, subVars, historyVars>>

Launches == 1..MaxLaunches
Runs == {"running", "suspended", "done", "error"}

TypeOK ==
  /\ env \in Environments
  /\ run \in Runs
  /\ yielded \in BOOLEAN /\ wait \in {"NONE", "RESCHEDULE", "WAIT_IO"}
  /\ posts \in 0..MaxPosts
  /\ pending \subseteq Names \cup {Blank}
  /\ subrequest \in 0..MaxLaunches
  /\ capture \in BOOLEAN /\ active \in BOOLEAN /\ done \in BOOLEAN
  /\ rc \in {"ok", "error"}
  /\ progress \in [Launches -> {"none", "running", "redirected", "ended"}]
  /\ headers \in [Launches -> SUBSET (Names \cup {Blank})]
  /\ launches \in 0..MaxLaunches
  /\ last \in 0..MaxLaunches /\ given \in 0..MaxLaunches
  /\ staged \subseteq Names /\ overlapped \in BOOLEAN

\* The guest's first run; the state is that of a new context.
Init ==
  /\ env \in Environments
  /\ run = "running" /\ yielded = FALSE /\ wait = "NONE" /\ posts = 0
  /\ pending = {} /\ subrequest = 0 /\ capture = FALSE
  /\ active = FALSE /\ done = FALSE /\ rc = "ok"
  /\ progress = [i \in Launches |-> "none"]
  /\ headers = [i \in Launches |-> {}]
  /\ launches = 0
  /\ last = 0 /\ staged = {} /\ given = 0 /\ overlapped = FALSE

-----------------------------------------------------------------------------
(* The host functions.                                                     *)

\* ngx_http_wasm_abi_subrequest_set_header.  The element is pushed before its
\* name and value are copied: a copy that fails leaves it blank.
SetHeader(h) ==
  /\ run = "running" /\ ~active
  /\ \/ /\ pending' = pending \cup {h}
        /\ staged' = staged \cup {h}
     \/ /\ "no_memory" \in env
        /\ pending' = pending \cup {Blank}
        /\ UNCHANGED staged
  /\ UNCHANGED <<env, runVars, subrequest, capture, active, done, rc, subVars,
                 last, given, overlapped>>

\* ngx_http_wasm_host_subreq, when the launch is a success.
HostSubreq ==
  /\ yielded' = TRUE
  /\ wait' = "WAIT_IO"
  /\ UNCHANGED <<run, posts>>

\* A launch is tried although one is active.
MayLaunchMutant == run = "running" /\ launches < MaxLaunches

\* One subrequest at a time.
MayLaunch == run = "running" /\ ~active /\ launches < MaxLaunches

\* What a launch makes of the state before it calls ngx_http_subrequest: the
\* answer of the previous one is gone.
BeginLaunch ==
  /\ done' = FALSE
  /\ rc' = "ok"
  /\ capture' \in BOOLEAN

\* nginx has made the subrequest and posted it, with the headers of its parent
\* and those that are staged.
Posted(hs) ==
  /\ launches' = launches + 1
  /\ progress' = [progress EXCEPT ![launches + 1] = "running"]
  /\ headers' = [headers EXCEPT ![launches + 1] = hs]
  /\ subrequest' = launches + 1

\* The guest runs between the two calls of the done handler that an error_page makes
\* of one end, and launches another subrequest.
Overlaps == \E i \in Launches : progress[i] = "redirected"

\* The staged headers are used and kept.
LaunchMutant ==
  /\ MayLaunch
  /\ BeginLaunch
  /\ Posted(pending)
  /\ active' = TRUE
  /\ UNCHANGED pending
  /\ HostSubreq
  /\ last' = launches + 1 /\ staged' = {} /\ given' = 0
  /\ overlapped' = (overlapped \/ Overlaps)
  /\ UNCHANGED env

\* ngx_http_wasm_abi_subrequest, to its end.
Launch ==
  /\ MayLaunch
  /\ BeginLaunch
  /\ Posted(pending)
  /\ active' = TRUE
  /\ pending' = {}
  /\ HostSubreq
  /\ last' = launches + 1 /\ staged' = {} /\ given' = 0
  /\ overlapped' = (overlapped \/ Overlaps)
  /\ UNCHANGED env

LaunchFailsMutant ==
  /\ MayLaunch
  /\ "no_memory" \in env
  /\ BeginLaunch
  /\ subrequest' = 0
  /\ active' = TRUE
  /\ given' = 0
  /\ UNCHANGED <<env, runVars, pending, subVars, last, staged, overlapped>>

\* ngx_http_subrequest fails.
LaunchFails ==
  /\ MayLaunch
  /\ "no_memory" \in env
  /\ BeginLaunch
  /\ subrequest' = 0
  /\ active' = FALSE
  /\ given' = 0
  /\ UNCHANGED <<env, runVars, pending, subVars, last, staged, overlapped>>

\* The staged headers cannot be copied: the guest is told that the launch has
\* failed, the subrequest runs all the same with some of them.
LaunchHalf ==
  /\ MayLaunch
  /\ "header_copy" \in env
  /\ pending # {}
  /\ BeginLaunch
  /\ \E hs \in SUBSET pending : hs # pending /\ Posted(hs)
  /\ active' = FALSE
  /\ given' = 0 /\ overlapped' = TRUE
  /\ UNCHANGED <<env, runVars, pending, last, staged>>

\* ngx_http_wasm_abi_subrequest_get_status, and _get_header likewise.
Readable == done /\ subrequest # 0 /\ rc = "ok"

\* ngx_http_wasm_abi_subrequest_get_body and _get_body_len.
BodyReadable == Readable /\ capture

GuestReads ==
  /\ run = "running"
  /\ \E body \in BOOLEAN : IF body THEN BodyReadable ELSE Readable
  /\ given' = subrequest
  /\ UNCHANGED <<env, runVars, stateVars, subVars, last, staged, overlapped>>

-----------------------------------------------------------------------------
(* The run.                                                                *)

\* ngx_http_wasm_host_yield
HostYield ==
  /\ run = "running"
  /\ yielded' = TRUE
  /\ UNCHANGED <<env, run, wait, posts, stateVars, subVars, historyVars>>

OneMore(n) == IF n < MaxPosts THEN n + 1 ELSE n

\* The request is posted again, unless it waits for its subrequest.
Suspend(kind) ==
  /\ run' = "suspended"
  /\ wait' = kind
  /\ posts' = IF kind = "WAIT_IO" THEN posts ELSE OneMore(posts)
  /\ UNCHANGED yielded

\* The poll is pending: the call is interrupted, whatever it has asked for.
SliceEnds ==
  /\ run = "running" /\ "timeslice" \in env
  /\ Suspend("RESCHEDULE")
  /\ UNCHANGED <<env, stateVars, subVars, historyVars>>

\* The export returns.
GuestReturns ==
  /\ run = "running"
  /\ IF yielded
     THEN Suspend(IF wait = "NONE" THEN "RESCHEDULE" ELSE wait)
     ELSE run' \in {"done", "error"} /\ UNCHANGED <<yielded, wait, posts>>
  /\ UNCHANGED <<env, stateVars, subVars, historyVars>>

\* ngx_http_wasm_resume_handler: a posted request that is still suspended runs
\* again, and begin_run forgets what the run before it has asked for.
Resume ==
  /\ run # "running" /\ posts > 0
  /\ posts' = posts - 1
  /\ IF run = "suspended"
     THEN run' = "running" /\ yielded' = FALSE /\ wait' = "NONE"
     ELSE UNCHANGED <<run, yielded, wait>>
  /\ UNCHANGED <<env, stateVars, subVars, historyVars>>

\* The next phase has a handler as well: its guest finds the subrequest state
\* as the previous one has left it.
NextPhase ==
  /\ run = "done"
  /\ run' = "running" /\ yielded' = FALSE /\ wait' = "NONE"
  /\ UNCHANGED <<env, posts, stateVars, subVars, historyVars>>

-----------------------------------------------------------------------------
(* The subrequests.                                                        *)

\* ngx_http_wasm_abi_subrequest_done, for whichever subrequest is finalized.
DoneHandler(i, status, long) ==
  /\ subrequest' = i
  /\ done' = TRUE
  /\ active' = FALSE
  /\ rc' = IF capture /\ long THEN "error" ELSE status
  /\ UNCHANGED <<pending, capture>>

\* The subrequest ends and nginx posts its parent.
SubrequestEnds(i) ==
  /\ run # "running"
  /\ progress[i] \in {"running", "redirected"}
  /\ \E long \in BOOLEAN : DoneHandler(i, "ok", long)
  /\ progress' = [progress EXCEPT ![i] = "ended"]
  /\ posts' = OneMore(posts)
  /\ UNCHANGED <<env, run, yielded, wait, headers, launches, historyVars>>

\* It is finalized with an error that an error_page redirects.
SubrequestRedirects(i) ==
  /\ run # "running" /\ "error_page" \in env
  /\ progress[i] = "running"
  /\ DoneHandler(i, "error", FALSE)
  /\ progress' = [progress EXCEPT ![i] = "redirected"]
  /\ UNCHANGED <<env, runVars, headers, launches, historyVars>>

Guest ==
  \/ \E h \in Names : SetHeader(h)
  \/ Launch \/ LaunchFails \/ LaunchHalf
  \/ GuestReads \/ HostYield

Next ==
  \/ Guest \/ SliceEnds \/ GuestReturns
  \/ Resume \/ NextPhase
  \/ \E i \in Launches : SubrequestEnds(i) \/ SubrequestRedirects(i)

Spec == Init /\ [][Next]_vars

\* A guest returns or is interrupted, and posted requests are run.  Its fuel
\* lasts for so many slices only: nginx gets to a subrequest in the end, which
\* is strong fairness here, where fuel is left out.
FairSpec ==
  /\ Spec
  /\ WF_vars(SliceEnds \/ GuestReturns) /\ WF_vars(Resume)
  /\ \A i \in Launches : SF_vars(SubrequestEnds(i))

-----------------------------------------------------------------------------
(* Properties.                                                             *)

\* The answer a guest is given is that of its last launch, and it is complete: never
\* the answer of an earlier subrequest that ended late, nor the error that an error_page
\* is about to replace.  The code lets a second subrequest start beside the first in
\* two cases, and only from then on it may be otherwise: after a launch that has failed
\* when nginx had posted it already, and when the guest, run on by its timeslice,
\* launches between the two ends of a subrequest.
AnswersTheLastLaunch ==
  ~overlapped /\ given # 0 => given = last /\ progress[given] = "ended"

\* "Staged headers are consumed by the next successful ngx_wasm_subreq call"
\* (docs/abi.md): that call sends every header staged since the previous one,
\* and none staged before, whatever has failed in between.
HeadersAsStaged ==
  [][last' # last => headers'[last'] \ {Blank} = staged]_vars

\* No failure of a launch, and no way a subrequest ends, leaves the state
\* active for good, which would refuse every later launch of the request.
NeverLockedOut == active ~> ~active

\* A launch "yields the current guest execution" (docs/abi.md), "the parent
\* request should suspend with WAIT_IO" (docs/design.md): a handler does not
\* finish while the subrequest it has launched is active.
ParentWaits == run = "done" => ~active

\* What makes these inductive.  The staged headers are in the array, beside blank
\* ones, whatever has failed since the last launch.
PendingIsStaged == pending \ {Blank} = staged

\* A subrequest that nginx works for.
InProgress(i) == progress[i] \in {"running", "redirected"}

\* Until two may overlap, only the last launch is ever in progress, and there is an
\* answer only when it has come to an end at least once.
OneInProgress ==
  ~overlapped =>
    /\ launches = last
    /\ \A i \in Launches : InProgress(i) => i = last
    /\ \A i \in Launches : progress[i] = "running" => active
    /\ done /\ subrequest # 0 =>
         /\ subrequest = last
         /\ \/ progress[last] = "ended"
            \/ progress[last] = "redirected" /\ rc = "error"

IInv == TypeOK /\ PendingIsStaged /\ OneInProgress /\ AnswersTheLastLaunch
=============================================================================
