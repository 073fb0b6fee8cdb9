------------------------------ MODULE BodyFilter ------------------------------
(***************************************************************************)
(* The body filter of one response: the chains of buffers the content      *)
(* handler or the upstream hands to it, the guest it runs on every chunk,  *)
(* and the file-backed buffers that a thread pool reads for it, a chunk at *)
(* a time, while what follows is queued (a build with NGX_THREADS, and a   *)
(* location with wasm_body_filter_file_chunk_size and aio threads).        *)
(*                                                                         *)
(* The content is the numbers 1..n: a buffer holds a range of them, and    *)
(* what the guest puts in the place of a chunk stands for that chunk.      *)
(* "last" is last_buf or last_in_chain, that is, end of file.  The thread  *)
(* pool, the next filter and the rest of nginx are external.               *)
(***************************************************************************)
EXTENDS Integers, Sequences, SequencesExt

CONSTANTS
  Responses,    \* what producers may send: sequences of chains
  ChunkSize     \* wasm_body_filter_file_chunk_size

Bufs == [from : Nat, to : Nat, file : BOOLEAN, last : BOOLEAN]
IsEmpty(b) == b.from > b.to

\* What nginx hands to a filter: a buffer in a file is never empty.
Sendable(chains) ==
  /\ chains \in Seq(Seq(Bufs))
  /\ \A i \in DOMAIN chains : \A j \in DOMAIN chains[i] :
       chains[i][j].file => ~IsEmpty(chains[i][j])

ASSUME BodyFilterAssumption ==
  /\ ChunkSize \in Nat \ {0}
  /\ \A r \in Responses : Sendable(r)

VARIABLES
  response,     \* the choice from Responses
  calls,        \* the chains not yet handed to the filter
  ctx,          \* the request's context: "none", "registered", or "bare" when
                \* it was set but its pool cleanup could not be added
  pc,           \* "idle", or "process" inside body_filter_process
  caller,       \* who called it: "handler" or "event"
  in, out,      \* its chains: still to do, and ready for the next filter
  pending,      \* ctx->body_filter_pending
  pendingLast,  \* ctx->body_filter_pending_last # NULL
  waiting,      \* ctx->body_filter_waiting
  chunk,        \* the chunk being read, with its last flag
  task,         \* the thread task: "none", "reading" or "read"
  timer,        \* its 60 s timer is set
  buffered,     \* NGX_HTTP_WASM_BUFFERED in r->buffered
  blocked,      \* r->main->blocked
  terminated,   \* r->main->terminated
  conn,         \* "open", "finished", "error", "aborted", or "crashed"
  seen, passed, \* history: the chunks the guest, and the next filter, got
  overtaken     \* history: a chain was worked on while earlier ones lay in the queue

threadVars == <<waiting, chunk, task, timer, blocked>>
queueVars == <<pending, pendingLast, overtaken>>
vars == <<response, calls, ctx, pc, caller, in, out, queueVars, threadVars, buffered,
          terminated, conn, seen, passed>>

Buf(from, to, file, last) == [from |-> from, to |-> to, file |-> file, last |-> last]

Init ==
  /\ response \in Responses /\ calls = response
  /\ pc = "idle" /\ caller = "handler" /\ in = <<>> /\ out = <<>>
  /\ ctx \in {"none", "registered"}
  /\ pending = <<>> /\ pendingLast = FALSE
  /\ waiting = FALSE /\ chunk = Buf(1, 0, FALSE, FALSE) /\ task = "none"
  /\ timer = FALSE /\ buffered = FALSE /\ blocked = 0 /\ terminated = FALSE
  /\ conn = "open"
  /\ seen = <<>> /\ passed = <<>> /\ overtaken = FALSE

-----------------------------------------------------------------------------
(* The parts of the handlers.                                              *)

\* The request is finalized, or freed: no handler is called any more.
End(how) == conn' = how /\ pc' = "idle" /\ in' = <<>> /\ out' = <<>>

\* ngx_http_wasm_body_filter_enqueue, for all of a chain.  It writes through
\* pending_last.
Enqueue(bufs) == pending' = pending \o bufs /\ UNCHANGED <<pendingLast, overtaken>>
MayEnqueue(bufs) == pendingLast \/ bufs = <<>>

\* ngx_http_wasm_body_filter_run_chunk, when the guest returns 0; what it puts
\* in place of the chunk, or the chunk, goes to the output.
RunChunk(b) == seen' = Append(seen, b)

\* ngx_http_wasm_next_body_filter
Pass == passed' = passed \o out

\* What is still to be read of the file buffer b after size units.
Remainder(b, size) == [b EXCEPT !.from = @ + size]

-----------------------------------------------------------------------------
(* ngx_http_wasm_body_filter_handler and _process.                         *)

\* ngx_http_wasm_body_filter_get_or_create_ctx, when it succeeds.  Only a
\* context made here gets a queue.
GetOrCreateCtx ==
  /\ ctx' = IF ctx = "none" THEN "registered" ELSE ctx
  /\ pendingLast' = (pendingLast \/ ctx = "none")

\* The producer sends a chain.
Call ==
  /\ pc = "idle" /\ conn = "open" /\ ~terminated /\ calls # <<>>
  /\ calls' = Tail(calls) /\ caller' = "handler"
  /\ UNCHANGED <<response, threadVars, seen, passed>>

\* Process it at once, whatever a file that is read no longer has left in the queue.
Process ==
  /\ in' = Head(calls) /\ out' = <<>> /\ pc' = "process"
  /\ GetOrCreateCtx
  /\ overtaken' = (overtaken \/ (~waiting /\ pending # <<>>))
  /\ UNCHANGED <<pending, buffered, conn>>

\* Chains that come while the thread reads overtake what is queued.
HandlerMutant == Call /\ Process /\ UNCHANGED terminated

\* While the thread reads, the chain is queued.
Handler ==
  /\ Call /\ UNCHANGED terminated
  /\ IF waiting
     THEN /\ buffered' = TRUE /\ UNCHANGED ctx
          /\ IF MayEnqueue(Head(calls))
             THEN Enqueue(Head(calls)) /\ UNCHANGED <<pc, in, out, conn>>
             ELSE End("crashed") /\ UNCHANGED queueVars
     ELSE Process

\* There is no memory to queue all of it: nginx terminates the request, which then
\* waits for its thread.
QueueFails ==
  /\ Call
  /\ waiting
  /\ \E i \in 0..Len(Head(calls)) - 1 :
       LET queued == SubSeq(Head(calls), 1, i)
       IN MayEnqueue(queued) /\ Enqueue(queued)
  /\ terminated' = TRUE
  /\ UNCHANGED <<ctx, pc, in, out, buffered, conn>>

\* There is no memory for a context, or for its cleanup.
NoContext ==
  /\ Call
  /\ ctx = "none" /\ ctx' \in {"none", "bare"}
  /\ End("error")
  /\ UNCHANGED <<queueVars, buffered, terminated>>

\* A buffer in memory: the guest runs unless it is empty and not the end.
ProcessMemory ==
  /\ pc = "process" /\ in # <<>> /\ ~Head(in).file
  /\ in' = Tail(in)
  /\ out' = Append(out, Head(in))
  /\ IF IsEmpty(Head(in)) /\ ~Head(in).last
     THEN UNCHANGED seen
     ELSE RunChunk(Head(in))
  /\ UNCHANGED <<response, ctx, calls, caller, pc, queueVars, threadVars, buffered,
                 terminated, conn, passed>>

\* Whether ngx_http_wasm_body_filter_process and the event handler set the
\* buffered flag at their end, or clear it; and with the queue forgotten.
HoldsMutant(reading, queue) == reading
Holds(reading, queue) == reading \/ queue # <<>>

SizeOfChunk(b) == IF b.to - b.from + 1 > ChunkSize THEN ChunkSize ELSE b.to - b.from + 1

\* The request is not marked as blocked.
ReadMutant(from, size, last) ==
  /\ chunk' = Buf(from, from + size - 1, FALSE, last)
  /\ waiting' = TRUE /\ task' = "reading" /\ timer' = TRUE /\ UNCHANGED blocked

\* ngx_http_wasm_body_filter_thread_handler: the task is posted, and the request
\* blocked and given 60 s.
Read(from, size, last) ==
  /\ chunk' = Buf(from, from + size - 1, FALSE, last)
  /\ waiting' = TRUE /\ task' = "reading" /\ timer' = TRUE /\ blocked' = blocked + 1

\* The remainder is not queued.
ScheduleMutant(b, rest) ==
  /\ Read(b.from, SizeOfChunk(b), b.last /\ Len(rest) = 0)
  /\ Enqueue(rest)

\* ngx_http_wasm_body_filter_schedule_file_chunk, of a buffer with something
\* left: its next chunk, which takes over the flags when it is the whole, is
\* read by a thread (ngx_http_wasm_body_filter_thread_handler), the remainder
\* and what follows are queued, even when nothing remains.
Schedule(b, rest) ==
  LET size == SizeOfChunk(b) IN
  /\ Read(b.from, size, b.last /\ b.from + size > b.to)
  /\ Enqueue(<<Remainder(b, size)>> \o rest)

\* A file buffer: the output so far goes on, and the handler returns.  Of an
\* empty one only what follows is queued.  The event handler sets the flag
\* once more.
ProcessFile ==
  /\ pc = "process" /\ in # <<>> /\ Head(in).file
  /\ Pass
  /\ LET b == Head(in)
         queued == IF IsEmpty(b) THEN Tail(in) ELSE in
     IN IF ~MayEnqueue(queued)
        THEN End("crashed") /\ UNCHANGED <<queueVars, threadVars, buffered>>
        ELSE /\ IF IsEmpty(b)
                THEN Enqueue(Tail(in)) /\ UNCHANGED threadVars
                ELSE Schedule(b, Tail(in))
             /\ buffered' = (caller = "handler" \/ Holds(waiting', pending'))
             /\ pc' = "idle" /\ in' = <<>> /\ out' = <<>>
             /\ UNCHANGED conn
  /\ UNCHANGED <<response, ctx, calls, caller, terminated, seen>>

\* The chain is done.  If nothing came of it, the flag is cleared at most.
EndOfChain ==
  /\ pc = "process" /\ in = <<>>
  /\ Pass
  /\ buffered' = (Holds(waiting, pending) /\ (out # <<>> \/ buffered))
  /\ pc' = "idle" /\ out' = <<>>
  /\ UNCHANGED <<response, ctx, calls, caller, in, queueVars, threadVars, terminated,
                 conn, seen>>

\* The guest traps, is out of fuel or is suspended by its timeslice, memory is
\* short, the thread pool refuses the task, or the next filter fails.
ProcessFails ==
  /\ pc = "process"
  /\ End("error")
  /\ UNCHANGED <<response, ctx, calls, caller, queueVars, threadVars, buffered,
                 terminated, seen, passed>>

-----------------------------------------------------------------------------
(* The thread pool and ngx_http_wasm_body_filter_thread_event_handler.     *)

\* The thread has read the chunk, or failed to.
ThreadRead ==
  /\ task = "reading"
  /\ task' = "read"
  /\ UNCHANGED <<response, ctx, calls, caller, pc, in, out, queueVars, waiting, chunk,
                 timer, blocked,
                 buffered, terminated, conn, seen, passed>>

\* The event handler is called for the timer: it only logs.
TaskTimesOut ==
  /\ pc = "idle" /\ timer
  /\ timer' = FALSE
  /\ UNCHANGED <<response, ctx, calls, caller, pc, in, out, queueVars, waiting, chunk,
                 task, blocked,
                 buffered, terminated, conn, seen, passed>>

TaskOver == task' = "none" /\ timer' = FALSE /\ blocked' = blocked - 1

\* The chunk goes on, and the queue waits for the next one.
ChunkCompletesMutant ==
  /\ pc = "idle" /\ task = "read" /\ ~terminated
  /\ TaskOver
  /\ RunChunk(chunk)
  /\ waiting' = FALSE
  /\ caller' = "event" /\ out' = <<chunk>> /\ pc' = "process"
  /\ UNCHANGED <<response, ctx, calls, in, queueVars, chunk, buffered, terminated,
                 conn, passed>>

\* ... for the task: the chunk goes to the guest, and what is queued is
\* processed after it.
ChunkCompletes ==
  /\ pc = "idle" /\ task = "read" /\ ~terminated
  /\ TaskOver
  /\ RunChunk(chunk)
  /\ waiting' = FALSE
  /\ caller' = "event" /\ out' = <<chunk>> /\ in' = pending
  /\ pending' = <<>> /\ pendingLast' = TRUE /\ UNCHANGED overtaken
  /\ pc' = "process"
  /\ UNCHANGED <<response, ctx, calls, chunk, buffered, terminated, conn, passed>>

\* ... but the read came short, or the guest fails.
ChunkFails ==
  /\ pc = "idle" /\ task = "read" /\ ~terminated
  /\ TaskOver
  /\ End("error")
  /\ UNCHANGED <<response, ctx, calls, caller, queueVars, waiting, chunk, buffered,
                 terminated, seen, passed>>

\* ... but the request is terminated and only waits for it.
TerminatedChunk ==
  /\ pc = "idle" /\ task = "read" /\ terminated
  /\ TaskOver
  /\ End("aborted")
  /\ UNCHANGED <<response, ctx, calls, caller, queueVars, waiting, chunk, buffered,
                 terminated, seen, passed>>

\* The client goes away, or send_timeout passes: nginx frees the request unless
\* a thread still works for it.
Abort ==
  /\ pc = "idle" /\ conn = "open" /\ ~terminated
  /\ terminated' = TRUE
  /\ IF blocked = 0 THEN End("aborted") ELSE UNCHANGED <<conn, pc, in, out>>
  /\ UNCHANGED <<response, ctx, calls, caller, queueVars, threadVars, buffered, seen,
                 passed>>

\* The producer is done and nothing is buffered: nginx finalizes the request.
Finish ==
  /\ pc = "idle" /\ conn = "open" /\ ~terminated
  /\ calls = <<>> /\ ~buffered
  /\ End("finished")
  /\ UNCHANGED <<response, ctx, calls, caller, queueVars, threadVars, buffered,
                 terminated, seen, passed>>

\* The end of the behaviour.
Over == conn # "open" /\ task = "none" /\ ~timer /\ UNCHANGED vars

Worker ==
  \/ ProcessMemory \/ ProcessFile \/ EndOfChain \/ ProcessFails
  \/ ChunkCompletes \/ ChunkFails \/ TerminatedChunk \/ Finish

Next == Handler \/ QueueFails \/ NoContext \/ Worker \/ ThreadRead \/ TaskTimesOut \/ Abort \/ Over

Spec == Init /\ [][Next]_vars

-----------------------------------------------------------------------------
(* Properties.                                                             *)

\* Types; a request is blocked by at most one task.
TypeOK ==
  /\ response \in Seq(Seq(Bufs)) /\ calls \in Seq(Seq(Bufs))
  /\ ctx \in {"none", "bare", "registered"}
  /\ pc \in {"idle", "process"} /\ caller \in {"handler", "event"}
  /\ in \in Seq(Bufs) /\ out \in Seq(Bufs) /\ pending \in Seq(Bufs)
  /\ seen \in Seq(Bufs) /\ passed \in Seq(Bufs)
  /\ chunk \in Bufs
  /\ pendingLast \in BOOLEAN /\ waiting \in BOOLEAN /\ timer \in BOOLEAN
  /\ buffered \in BOOLEAN /\ terminated \in BOOLEAN /\ overtaken \in BOOLEAN
  /\ task \in {"none", "reading", "read"}
  /\ blocked \in 0..1
  /\ conn \in {"open", "finished", "error", "aborted", "crashed"}

\* The content counts its units from 1, and the end of file as one more behind the
\* last.  How far it has come after a buffer, and before the i-th of the buffers that
\* follow the first "at" units.
After(b) == IF b.last THEN b.to + 1 ELSE b.to
Before(bufs, at, i) == IF i = 1 THEN at ELSE After(bufs[i - 1])

\* A buffer goes on where the content stands, and only the end carries end of file.
Fits(n, at, b) ==
  b.from = at + 1 /\ b.from <= b.to + 1 /\ b.to <= n /\ (b.last => b.to = n)

Total(chains) ==
  Max({0} \cup UNION {{chains[i][j].to : j \in DOMAIN chains[i]} : i \in DOMAIN chains})
InOrder(bufs) == \A i \in DOMAIN bufs : Fits(Total(response), Before(bufs, 0, i), bufs[i])

\* The units that buffers hold, end of file among them; in the empty remainder of a
\* file there is nothing.
UnitsOf(b) ==
  IF b.file /\ IsEmpty(b) THEN {} ELSE b.from..b.to \cup (IF b.last THEN {b.to + 1} ELSE {})
Units(bufs) == UNION {UnitsOf(bufs[i]) : i \in DOMAIN bufs}
AllUnits(chains) == UNION {Units(chains[i]) : i \in DOMAIN chains}

\* The guest and the next filter get the content in order, each unit once,
\* whether it came from memory, from a file, or through the queue; end of file
\* comes with or after the last of it, and once.  There is one exception: when all of a
\* file has been read, schedule_file_chunk leaves what follows it in the queue with
\* body_filter_waiting unset, and a chain that comes then goes past it.
BodyInOrder == ~overtaken => InOrder(seen) /\ InOrder(passed)

\* The chunk's memory belongs to the request: it is not freed while a thread
\* writes to it, and blocked counts exactly the task in flight.
ThreadOwnsRequest ==
  /\ blocked = (IF task = "none" THEN 0 ELSE 1)
  /\ task # "none" => conn = "open" /\ waiting

\* Between two calls nginx is told of whatever the filter holds back, and of
\* nothing else: else the request ends early or is held for ever.
BufferedIsHonest ==
  pc = "idle" /\ conn = "open" => (buffered <=> waiting \/ pending # <<>>)

\* A response that nginx finalizes without an error is complete, its end of file
\* included, even if one chain went past another: what the filter forgets to work on
\* it at least holds back, and the request with it.
FinishedIsComplete ==
  conn = "finished" =>
    AllUnits(response) \subseteq Units(passed) /\ AllUnits(response) \subseteq Units(seen)

\* What t/008-body-filter-basic.t says: "header_filter_by_wasm and
\* body_filter_by_wasm can run together".
NeverCrashes == conn # "crashed"
=============================================================================
