----------------------------- MODULE WasmResponse -----------------------------
(***************************************************************************)
(* The response of one request, from the content handler to the release of *)
(* the request: the header filter, which runs its guest in one turn and    *)
(* turns a suspension into an error; the error page that nginx then sends  *)
(* through the same filters, in the same location or in another one, with  *)
(* the context forgotten; the body filter (BodyFilter); the log handler;   *)
(* and the cleanup of the contexts, with the Wasmtime stores they own.     *)
(*                                                                         *)
(* How the content handler gets its answer is WasmRequest's matter: here   *)
(* the guest answers or fails.  A location without content_by_wasm stands  *)
(* for a file or an upstream.  What nginx does with the filters' results   *)
(* is external.                                                            *)
(***************************************************************************)
EXTENDS BodyFilter

CONSTANTS
  Locations,  \* what is configured: [content, header, redirect : BOOLEAN], for
              \* content_by_wasm, header_filter_by_wasm, and an error_page
              \* that redirects
  ErrorPage   \* the chains of an error page

ASSUME ResponseAssumption ==
  /\ Locations \subseteq [content : BOOLEAN, header : BOOLEAN, redirect : BOOLEAN]
  /\ Sendable(ErrorPage)

VARIABLES
  location,
  stage,   \* "content", "header", "body", or "gone" with the pool destroyed
  page,    \* an error page takes the place of the response
  header,  \* ctx->header_filter_exec: "unset", or how its last run ended:
           \* "done", "suspended" or "failed"
  sent,    \* r->header_sent
  past,    \* the contexts forgotten by redirects
  stores   \* the Wasmtime stores in memory, by context and execution

responseVars == <<location, stage, page, header, sent, past, stores>>
allVars == <<vars, responseVars>>

\* The contexts of the request, of which the last is the current one, and the
\* stores of that one.
Contexts == Append(past, ctx)
Store(exec) == <<Len(past) + 1, exec>>

ResponseInit ==
  /\ Init /\ ctx = "none"
  /\ location \in Locations
  /\ stage = (IF location.content THEN "content" ELSE "header")
  /\ page = FALSE /\ header = "unset" /\ sent = FALSE
  /\ past = <<>> /\ stores = {}

-----------------------------------------------------------------------------
\* A function of nginx goes on with the response: nothing else works for it.
Calls(s) == stage = s /\ conn = "open" /\ ~terminated /\ pc = "idle"

bodyVars == <<pc, caller, in, out, queueVars, threadVars, buffered, terminated,
              seen, passed>>

\* nginx answers with an error page instead: another location's, which starts
\* with no context, or its own, through the filters of this one.
SpecialResponse(c, h) ==
  /\ page' = TRUE /\ stage' = "header"
  /\ response' = ErrorPage /\ calls' = ErrorPage
  /\ IF location.redirect
     THEN ctx' = "none" /\ header' = "unset" /\ past' = Append(past, c)
     ELSE ctx' = c /\ header' = h /\ UNCHANGED past
  /\ UNCHANGED <<bodyVars, conn, location>>

\* The content handler's guest answers, or fails, or there is no context for it.
RunContent ==
  /\ Calls("content")
  /\ UNCHANGED sent
  /\ \/ /\ ctx' = "registered" /\ stage' = "header"
        /\ stores' = stores \cup {Store("content")}
        /\ UNCHANGED <<response, calls, bodyVars, conn, location, page, header, past>>
     \/ SpecialResponse("registered", header) /\ stores' = stores \cup {Store("content")}
     \/ \E c \in {"none", "bare"} : SpecialResponse(c, header) /\ UNCHANGED stores

\* The guest's result is returned as it is.
HeaderFilterMutant(c, h, rc) ==
  \/ ~location.header /\ c = ctx /\ h = header /\ rc = "OK" /\ UNCHANGED stores
  \/ /\ location.header /\ ctx = "none"
     /\ c \in {"none", "bare"} /\ h = header /\ rc = "ERROR" /\ UNCHANGED stores
  \/ /\ location.header
     /\ c = (IF ctx = "none" THEN "registered" ELSE ctx)
     /\ h \in {"done", "suspended", "failed"}
     /\ rc = (IF h = "done" THEN "OK" ELSE IF h = "failed" THEN "ERROR" ELSE "AGAIN")
     /\ stores' = stores \cup {Store("header")}

\* ngx_http_wasm_header_filter_handler up to the next filter: it leaves the
\* context c and its header execution h, and rc.  A run that was suspended is
\* resumed; a context whose cleanup could not be added is used from then on.
HeaderFilter(c, h, rc) ==
  \/ ~location.header /\ c = ctx /\ h = header /\ rc = "OK" /\ UNCHANGED stores
  \/ /\ location.header /\ ctx = "none"
     /\ c \in {"none", "bare"} /\ h = header /\ rc = "ERROR" /\ UNCHANGED stores
  \/ /\ location.header
     /\ c = (IF ctx = "none" THEN "registered" ELSE ctx)
     /\ h \in {"done", "suspended", "failed"}
     /\ rc = (IF h = "done" THEN "OK" ELSE "ERROR")
     /\ stores' = stores \cup {Store("header")}

\* The next filters: the last one marks the header as sent, whether it can write
\* it or not.
NextFilters(rc, result) ==
  \/ rc = "OK" /\ sent' = TRUE /\ result \in {"OK", "ERROR"}
  \/ rc = "OK" /\ UNCHANGED sent /\ result = "ERROR"
  \/ rc # "OK" /\ UNCHANGED sent /\ result = rc

\* ngx_http_send_header, and what its callers do with NGX_ERROR: the content
\* handler's response becomes an internal server error, unless the header was
\* sent; the others, and a second error, end the request.  Any other result
\* lets the body follow.
SendHeader ==
  /\ Calls("header")
  /\ \E c \in {"none", "bare", "registered"},
        h \in {"unset", "done", "suspended", "failed"},
        rc, result \in {"OK", "ERROR", "AGAIN"} :
       /\ HeaderFilter(c, h, rc)
       /\ NextFilters(rc, result)
       /\ \/ /\ result = "ERROR" /\ location.content /\ ~page /\ ~sent'
             /\ SpecialResponse(c, h)
          \/ /\ result = "ERROR" /\ ~(location.content /\ ~page /\ ~sent')
             /\ conn' = "error" /\ ctx' = c /\ header' = h
             /\ UNCHANGED <<response, calls, bodyVars, location, stage, page, past>>
          \/ /\ result # "ERROR"
             /\ stage' = "body" /\ ctx' = c /\ header' = h
             /\ UNCHANGED <<response, calls, bodyVars, conn, location, page, past>>

\* The body filter's guest runs in a store of its own, which the run that fails
\* may have made.
BodyStep ==
  /\ stage = "body"
  /\ \/ /\ Handler \/ QueueFails \/ NoContext \/ Worker
        /\ stores' = IF seen' = seen THEN stores ELSE stores \cup {Store("body")}
     \/ /\ ProcessFails \/ ChunkFails
        /\ stores' = stores \cup {Store("body")}
  /\ UNCHANGED <<location, stage, page, header, sent, past>>

\* What happens to the request whatever its stage.
Environment ==
  /\ stage # "gone" /\ (ThreadRead \/ TaskTimesOut \/ Abort)
  /\ UNCHANGED responseVars

-----------------------------------------------------------------------------
(* ngx_http_free_request: the log handlers run, and the pool is destroyed.   *)

\* The execution is left to the context.
LogHandlerMutant(c, made) ==
  \/ ctx = "none" /\ c \in {"none", "bare"} /\ made = {}
  \/ c = (IF ctx = "none" THEN "registered" ELSE ctx) /\ made = {Store("log")}

\* ngx_http_wasm_log_handler: however its guest ends, the store it made is gone
\* when it returns.
LogHandler(c, made) ==
  \/ ctx = "none" /\ c \in {"none", "bare"} /\ made = {}
  \/ c = (IF ctx = "none" THEN "registered" ELSE ctx) /\ made = {}

\* ngx_http_wasm_cleanup_ctx, of a context that was registered: its executions.
Cleaned(contexts) ==
  {i \in DOMAIN contexts : contexts[i] = "registered"} \X {"content", "header", "body"}

FreeRequest ==
  /\ stage # "gone" /\ conn \in {"finished", "error", "aborted"}
  /\ task = "none"
  /\ stage' = "gone"
  /\ \E c \in {"none", "bare", "registered"}, made \in SUBSET {Store("log")} :
       /\ LogHandler(c, made)
       /\ ctx' = c
       /\ stores' = (stores \cup made) \ Cleaned(Append(past, c))
  /\ UNCHANGED <<response, calls, bodyVars, conn, location, page, header, sent, past>>

\* The end of the behaviour; the process is gone after a crash.
Gone == (stage = "gone" \/ conn = "crashed") /\ UNCHANGED allVars

System == RunContent \/ SendHeader \/ BodyStep \/ FreeRequest

ResponseNext == System \/ Environment \/ Gone

ResponseSpec == ResponseInit /\ [][ResponseNext]_allVars

\* The worker handles its events, the producer sends all it has, and a thread
\* comes to the end of its read.
FairResponseSpec ==
  /\ ResponseSpec
  /\ WF_allVars(System)
  /\ WF_allVars(stage # "gone" /\ ThreadRead /\ UNCHANGED responseVars)

-----------------------------------------------------------------------------
(* Properties.                                                             *)

\* What the context's executions made is released with the request, through
\* error pages, redirects, suspended headers and aborts; but for a context
\* whose cleanup could not be added.
EveryStoreFreed ==
  stage = "gone" => \A s \in stores : Contexts[s[1]] = "bare"

\* No body goes out without its header, and no header that the guest of the
\* header filter has not let pass: it failed or was suspended before.
BodyFollowsHeader ==
  /\ passed # <<>> => sent
  /\ sent /\ location.header => header = "done"

\* A file-backed buffer has nothing behind it.
FileComesLast ==
  LET bufs == FlattenSeq(response)
  IN \A i \in DOMAIN bufs : bufs[i].file => i = Len(bufs)

\* A response whose file-backed buffer, if it has one, is the last one ends, is
\* logged and released: each read schedules the next one, nothing is left in the
\* queue, and no error page leads to another.
EveryResponseEnds == []FileComesLast => <>(stage = "gone" \/ conn = "crashed")

\* What makes these inductive.  Types.
ResponseTypeOK ==
  /\ TypeOK
  /\ location \in Locations
  /\ stage \in {"content", "header", "body", "gone"}
  /\ page \in BOOLEAN /\ sent \in BOOLEAN
  /\ header \in {"unset", "done", "suspended", "failed"}
  /\ past \in Seq({"none", "bare", "registered"})
  /\ stores \subseteq (Nat \ {0}) \X {"content", "header", "body"}

\* Before the body there is no work of the body filter, and no header was sent;
\* before the header no context either.
NothingEarly ==
  stage \in {"content", "header"} =>
    /\ pc = "idle" /\ task = "none" /\ ~waiting /\ ~buffered
    /\ pending = <<>> /\ passed = <<>>
    /\ conn = "open" => ~sent
    /\ stage = "content" => ctx = "none" /\ past = <<>> /\ stores = {}

\* The loop of process and a read exclude each other, and both have a context,
\* with a queue; a worker in process works for a live request, and nginx knows of the
\* queue it found.
OneAtWork ==
  /\ pc = "process" =>
       /\ task = "none" /\ ~waiting /\ conn = "open" /\ ctx # "none" /\ stage = "body"
       /\ ~terminated /\ (pending # <<>> => buffered)
  /\ waiting /\ conn = "open" =>
       task # "none" /\ pendingLast /\ ctx # "none" /\ stage = "body"

\* The file-backed buffers that a producer sends are not empty; the remainder of
\* one may be, and is met only by the event handler.
FilesHaveContent ==
  /\ Sendable(calls)
  /\ pc = "process" /\ caller = "handler" =>
       \A j \in DOMAIN in : in[j].file => ~IsEmpty(in[j])

\* The body comes after its header.
HeaderSent == stage = "body" => sent

\* A store belongs to a context, and the current one has none before it is set.
StoresHaveContext ==
  \A s \in stores : s[1] \in DOMAIN Contexts /\ Contexts[s[1]] # "none"

ResponseIInv ==
  /\ ResponseTypeOK /\ NothingEarly /\ OneAtWork /\ FilesHaveContent
  /\ ThreadOwnsRequest /\ BufferedIsHonest
  /\ HeaderSent /\ BodyFollowsHeader
  /\ StoresHaveContext /\ EveryStoreFreed

-----------------------------------------------------------------------------
(* Why nothing of the content is lost.                                     *)

\* Between two calls process has nothing in its hands.
NothingInHand == pc = "idle" => in = <<>> /\ out = <<>>

\* Before the body nothing of the response has come.
Untouched ==
  stage \in {"content", "header"} => calls = response /\ seen = <<>>

\* Whatever the producer sends is with the next filter, in the filter's hands or its
\* queue, being read, or still to come; the guest has seen all that goes on.
NothingLost ==
  conn = "open" /\ ~terminated =>
    /\ AllUnits(response) \subseteq
         Units(passed) \cup Units(out) \cup Units(in) \cup Units(pending) \cup AllUnits(calls)
           \cup (IF waiting THEN UnitsOf(chunk) ELSE {})
    /\ Units(passed) \cup Units(out) \subseteq Units(seen)

WholeIInv == Untouched /\ NothingInHand /\ NothingLost /\ FinishedIsComplete

-----------------------------------------------------------------------------
(* Why the content keeps its order.                                        *)

\* Buffers that take the content from a to b.
Piece(n, bufs, a, b) ==
  /\ \A i \in DOMAIN bufs : Fits(n, Before(bufs, a, i), bufs[i])
  /\ b = Before(bufs, a, Len(bufs) + 1)

\* Chains that do.
Stream(n, chains, a, b) ==
  \E at \in [0..Len(chains) -> 0..(n + 1)] :
    /\ at[0] = a /\ at[Len(chains)] = b
    /\ \A i \in DOMAIN chains : Piece(n, chains[i], at[i - 1], at[i])

\* A response whose buffers are the content, in order, and its end of file.
Orderly(chains) ==
  Total(chains) \in Nat /\ Stream(Total(chains), chains, 0, Total(chains) + 1)

\* What the filter has still to pass on, without the empty remainder of a file.
Live(bufs) ==
  IF bufs # <<>> /\ Head(bufs).file /\ IsEmpty(Head(bufs)) THEN Tail(bufs) ELSE bufs
Coming ==
  IF pc = "process" THEN Live(in)
  ELSE IF waiting THEN <<chunk>> \o Live(pending) ELSE Live(pending)

\* The content got so far, by the next filter and by the guest, what the filter has
\* still to pass on, and the chains that follow are the content, in order.
Flow(n, got, run, coming, chains) ==
  \E p, q \in 0..(n + 1) :
    /\ Piece(n, got, 0, p) /\ Piece(n, run, 0, p)
    /\ Piece(n, coming, p, q)
    /\ Stream(n, chains, q, n + 1)

\* Only the first buffer in the queue may be the empty remainder of a file, and only
\* while that is read.
OneRemainder ==
  /\ waiting => pending # <<>> /\ pending[1].file
  /\ \A s \in {in, pending} : \A j \in DOMAIN s : j > 1 /\ s[j].file => ~IsEmpty(s[j])
  /\ ~waiting /\ pending # <<>> /\ pending[1].file => ~IsEmpty(pending[1])

\* Until a chain goes past it, what is queued is worked on before what follows.
Flows ==
  conn = "open" /\ ~terminated /\ ~overtaken =>
    /\ OneRemainder
    /\ pc = "process" => pending = <<>>
    /\ Flow(Total(response), passed \o out, seen, Coming, calls)

OrderIInv == Orderly(response) /\ Flows /\ BodyInOrder
=============================================================================
