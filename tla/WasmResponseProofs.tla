-------------------------- MODULE WasmResponseProofs --------------------------
(***************************************************************************)
(* The memory, the order and the stores of WasmResponse, for responses of  *)
(* any length, chunks of any size, and every configuration.  The second    *)
(* half is about the content, whatever the producer sends: a response that *)
(* is finished is whole.  And if its buffers are the content in order, the *)
(* content reaches the guest and the next filter in order, each unit once, *)
(* until a chain goes past what the filter has forgotten in its queue.     *)
(***************************************************************************)
EXTENDS WasmResponse, SequenceTheorems, TLAPS

\* The first element of a sequence, and the others.
LEMMA Split ==
  ASSUME NEW S, NEW s \in Seq(S), s # <<>>
  PROVE  /\ Head(s) \in S /\ Head(s) = s[1] /\ 1 \in DOMAIN s
         /\ Tail(s) \in Seq(S)
         /\ \A i \in DOMAIN Tail(s) : i + 1 \in DOMAIN s /\ Tail(s)[i] = s[i + 1]
<1>1. Len(s) \in Nat /\ DOMAIN s = 1..Len(s) /\ s \in [1..Len(s) -> S]
  BY LenProperties
<1>2. Len(s) # 0
  BY EmptySeq
<1>3. Tail(s) \in Seq(S) /\ Len(Tail(s)) = Len(s) - 1
  BY HeadTailProperties
<1>4. DOMAIN Tail(s) = 1..(Len(s) - 1)
  BY <1>3, LenProperties
<1>5. \A i \in 1..(Len(s) - 1) : Tail(s)[i] = s[i + 1]
  BY HeadTailProperties
<1> QED
  BY <1>1, <1>2, <1>3, <1>4, <1>5, HeadTailProperties

\* What is left of the chains after the first, and that one itself.
LEMMA SendableSplit ==
  ASSUME NEW chains, Sendable(chains), chains # <<>>
  PROVE  /\ Sendable(Tail(chains)) /\ Head(chains) \in Seq(Bufs)
         /\ \A j \in DOMAIN Head(chains) : Head(chains)[j].file => ~IsEmpty(Head(chains)[j])
<1>1. chains \in Seq(Seq(Bufs))
  BY DEF Sendable
<1> QED
  BY <1>1, Split DEF Sendable

\* The chunk of a file that is read, and what is left of it, are buffers.
LEMMA ChunkType ==
  ASSUME NEW b \in Bufs, ~IsEmpty(b), NEW last \in BOOLEAN
  PROVE  /\ SizeOfChunk(b) \in Nat \ {0}
         /\ Buf(b.from, b.from + SizeOfChunk(b) - 1, FALSE, last) \in Bufs
         /\ Remainder(b, SizeOfChunk(b)) \in Bufs
<1>1. b.from \in Nat /\ b.to \in Nat /\ b.from <= b.to
  BY DEF Bufs, IsEmpty
<1>2. SizeOfChunk(b) \in Nat \ {0}
  BY <1>1, BodyFilterAssumption DEF SizeOfChunk
<1>3. b.from + SizeOfChunk(b) - 1 \in Nat /\ b.from + SizeOfChunk(b) \in Nat
  BY <1>1, <1>2
<1>4. Remainder(b, SizeOfChunk(b)) \in Bufs
  BY <1>1, <1>3 DEF Remainder, Bufs
<1> QED
  BY <1>1, <1>2, <1>3, <1>4 DEF Buf, Bufs

\* A response that begins satisfies the invariant.
LEMMA InitIInv == ResponseInit => ResponseIInv
<1> SUFFICES ASSUME ResponseInit PROVE ResponseIInv
  OBVIOUS
<1> USE DEF ResponseInit, Init
<1>1. Sendable(response) /\ Sendable(calls)
  BY BodyFilterAssumption
<1>2. <<>> \in Seq(Bufs) /\ <<>> \in Seq({"none", "bare", "registered"})
  BY EmptySeq
<1>3. chunk \in Bufs
  BY DEF Buf, Bufs
<1>4. TypeOK
  <2>1. response \in Seq(Seq(Bufs)) /\ calls \in Seq(Seq(Bufs))
    BY <1>1 DEF Sendable
  <2>2. pendingLast \in BOOLEAN /\ waiting \in BOOLEAN /\ timer \in BOOLEAN
        /\ buffered \in BOOLEAN /\ terminated \in BOOLEAN /\ overtaken \in BOOLEAN
    OBVIOUS
  <2>3. /\ in \in Seq(Bufs) /\ out \in Seq(Bufs) /\ pending \in Seq(Bufs)
        /\ seen \in Seq(Bufs) /\ passed \in Seq(Bufs)
    BY <1>2
  <2>4. /\ ctx \in {"none", "bare", "registered"} /\ pc \in {"idle", "process"}
        /\ caller \in {"handler", "event"} /\ task \in {"none", "reading", "read"}
        /\ blocked \in 0..1
        /\ conn \in {"open", "finished", "error", "aborted", "crashed"}
    OBVIOUS
  <2> QED
    BY <1>3, <2>1, <2>2, <2>3, <2>4 DEF TypeOK
<1>5. ResponseTypeOK
  BY <1>2, <1>4 DEF ResponseTypeOK
<1>6. NothingEarly
  BY DEF NothingEarly
<1>7. OneAtWork /\ ThreadOwnsRequest /\ BufferedIsHonest /\ HeaderSent /\ BodyFollowsHeader
  BY DEF OneAtWork, ThreadOwnsRequest, BufferedIsHonest, HeaderSent, BodyFollowsHeader
<1>8. FilesHaveContent /\ StoresHaveContext /\ EveryStoreFreed
  BY <1>1 DEF FilesHaveContent, StoresHaveContext, EveryStoreFreed
<1> QED
  BY <1>5, <1>6, <1>7, <1>8 DEF ResponseIInv

-----------------------------------------------------------------------------
(* Types.                                                                  *)

\* The end of a request empties what process works on.
LEMMA EndType ==
  ASSUME NEW how \in {"finished", "error", "aborted", "crashed"}, End(how)
  PROVE  /\ in' \in Seq(Bufs) /\ out' \in Seq(Bufs) /\ pc' = "idle" /\ conn' = how
         /\ conn' \in {"open", "finished", "error", "aborted", "crashed"}
  BY EmptySeq DEF End

\* A part of a chain, from its first buffer.
LEMMA Part ==
  ASSUME NEW s \in Seq(Bufs), NEW i \in 0..Len(s) - 1
  PROVE  SubSeq(s, 1, i) \in Seq(Bufs)
<1>1. \A j \in 1..i : s[j] \in Bufs
  BY ElementOfSeq, LenProperties
<1> QED
  BY <1>1, SubSeqProperties, LenProperties

\* A chain comes, with or without memory for it, or for a context.
LEMMA HandlerType ==
  ASSUME TypeOK, FilesHaveContent, Handler \/ QueueFails \/ NoContext PROVE TypeOK'
<1> USE DEF Handler, QueueFails, NoContext, Call, Process, GetOrCreateCtx, queueVars, threadVars
<1>1. Sendable(Tail(calls)) /\ Head(calls) \in Seq(Bufs)
  BY SendableSplit DEF FilesHaveContent
<1>2. calls' \in Seq(Seq(Bufs)) /\ caller' \in {"handler", "event"}
  BY <1>1 DEF Sendable
<1>3. pending' \in Seq(Bufs)
  <2>1. CASE QueueFails
    <3>1. PICK i \in 0..Len(Head(calls)) - 1 : pending' = pending \o SubSeq(Head(calls), 1, i)
      BY <2>1 DEF Enqueue
    <3>2. SubSeq(Head(calls), 1, i) \in Seq(Bufs)
      BY <1>1, Part
    <3> QED
      BY <3>1, <3>2, ConcatProperties DEF TypeOK
  <2>2. pending \o Head(calls) \in Seq(Bufs)
    BY <1>1, ConcatProperties DEF TypeOK
  <2>3. CASE Handler \/ NoContext
    BY <2>2, <2>3 DEF TypeOK, Enqueue
  <2> QED
    BY <2>1, <2>3
<1>4. in' \in Seq(Bufs) /\ out' \in Seq(Bufs)
  BY <1>1, EmptySeq DEF TypeOK, End
<1>5. ctx' \in {"none", "bare", "registered"} /\ pc' \in {"idle", "process"}
      /\ conn' \in {"open", "finished", "error", "aborted", "crashed"}
  BY DEF TypeOK, End
<1>6. /\ buffered' \in BOOLEAN /\ pendingLast' \in BOOLEAN /\ terminated' \in BOOLEAN
      /\ overtaken' \in BOOLEAN
  BY DEF TypeOK, Enqueue
<1> QED
  BY <1>2, <1>3, <1>4, <1>5, <1>6 DEF TypeOK

\* The loop of process.
LEMMA ProcessType ==
  ASSUME TypeOK, OneAtWork, ThreadOwnsRequest,
         ProcessMemory \/ EndOfChain \/ ProcessFails
  PROVE  TypeOK'
<1> USE DEF threadVars, queueVars
<1>1. CASE ProcessMemory
  <2>1. Head(in) \in Bufs /\ Tail(in) \in Seq(Bufs)
    BY <1>1, Split DEF ProcessMemory, TypeOK
  <2>2. out' \in Seq(Bufs)
    BY <1>1, <2>1, AppendProperties DEF ProcessMemory, TypeOK
  <2>3. seen' \in Seq(Bufs)
    <3>1. seen' = seen \/ seen' = Append(seen, Head(in))
      BY <1>1 DEF ProcessMemory, RunChunk
    <3>2. seen \in Seq(Bufs)
      BY DEF TypeOK
    <3>3. Append(seen, Head(in)) \in Seq(Bufs)
      BY <2>1, <3>2, AppendProperties
    <3> QED
      BY <3>1, <3>2, <3>3
  <2>4. in' \in Seq(Bufs) /\ UNCHANGED <<response, ctx, calls, caller, pc, queueVars,
                                        threadVars, buffered, terminated, conn, passed>>
    BY <1>1, <2>1 DEF ProcessMemory
  <2> QED
    BY <2>2, <2>3, <2>4 DEF TypeOK
<1>2. CASE EndOfChain
  <2>1. passed' \in Seq(Bufs) /\ out' \in Seq(Bufs)
    BY <1>2, ConcatProperties, EmptySeq DEF EndOfChain, TypeOK, Pass
  <2>2. buffered' \in BOOLEAN
    BY <1>2 DEF EndOfChain, Holds, TypeOK
  <2> QED
    BY <1>2, <2>1, <2>2 DEF EndOfChain, TypeOK
<1>3. CASE ProcessFails
  BY <1>3, EndType DEF ProcessFails, TypeOK
<1> QED
  BY <1>1, <1>2, <1>3

\* A file is met by process: nothing reads, so the request is blocked once.
LEMMA FileType ==
  ASSUME TypeOK, OneAtWork, ThreadOwnsRequest, ProcessFile PROVE TypeOK'
<1> USE DEF ProcessFile, queueVars, threadVars
<1> DEFINE b == Head(in)
<1>1. b \in Bufs /\ Tail(in) \in Seq(Bufs) /\ blocked = 0
  BY Split DEF TypeOK, OneAtWork, ThreadOwnsRequest
<1>2. passed' \in Seq(Bufs)
  BY ConcatProperties DEF TypeOK, Pass
<1>3. in' \in Seq(Bufs) /\ out' \in Seq(Bufs)
  BY EmptySeq DEF TypeOK, End
<1>4. pending' \in Seq(Bufs)
  <2>1. CASE pending' = pending
    BY <2>1 DEF TypeOK
  <2>2. CASE Enqueue(Tail(in))
    BY <1>1, <2>2, ConcatProperties DEF TypeOK, Enqueue
  <2>3. CASE ~IsEmpty(b) /\ Schedule(b, Tail(in))
    <3>1. <<Remainder(b, SizeOfChunk(b))>> \in Seq(Bufs)
      <4>1. Remainder(b, SizeOfChunk(b)) \in Bufs
        BY <1>1, <2>3, ChunkType
      <4> QED
        BY <4>1
    <3>2. <<Remainder(b, SizeOfChunk(b))>> \o Tail(in) \in Seq(Bufs)
      BY <1>1, <3>1, ConcatProperties
    <3> QED
      BY <2>3, <3>2, ConcatProperties DEF TypeOK, Schedule, Enqueue
  <2> QED
    BY <2>1, <2>2, <2>3
<1>5. chunk' \in Bufs /\ blocked' \in 0..1 /\ task' \in {"none", "reading", "read"}
  <2>1. CASE UNCHANGED <<chunk, blocked, task>>
    BY <2>1 DEF TypeOK
  <2>2. CASE ~IsEmpty(b) /\ Schedule(b, Tail(in))
    <3>1. chunk' \in Bufs
      BY <1>1, <2>2, ChunkType DEF Schedule, Read, Bufs
    <3>2. blocked' = blocked + 1 /\ task' = "reading"
      BY <2>2 DEF Schedule, Read
    <3> QED
      BY <1>1, <3>1, <3>2
  <2> QED
    BY <2>1, <2>2
<1>6. /\ waiting' \in BOOLEAN /\ timer' \in BOOLEAN /\ pendingLast' \in BOOLEAN
      /\ overtaken' \in BOOLEAN
  BY DEF TypeOK, Schedule, Read, Enqueue
<1>7. buffered' \in BOOLEAN
  BY DEF TypeOK, Holds
<1>8. pc' \in {"idle", "process"} /\ conn' \in {"open", "finished", "error", "aborted", "crashed"}
  BY DEF TypeOK, End
<1> QED
  BY <1>2, <1>3, <1>4, <1>5, <1>6, <1>7, <1>8 DEF TypeOK

\* What comes of a read, and what happens to the request.
LEMMA EventType ==
  ASSUME TypeOK, ThreadOwnsRequest,
         \/ ChunkCompletes \/ ChunkFails \/ TerminatedChunk \/ Finish
         \/ ThreadRead \/ TaskTimesOut \/ Abort
  PROVE  TypeOK'
<1> USE DEF threadVars, queueVars
<1>1. CASE ChunkCompletes
  <2>1. seen' \in Seq(Bufs) /\ out' \in Seq(Bufs) /\ pending' \in Seq(Bufs)
    BY <1>1, AppendProperties, EmptySeq DEF ChunkCompletes, RunChunk, TypeOK
  <2>2. blocked' \in 0..1
    BY <1>1 DEF ChunkCompletes, TaskOver, ThreadOwnsRequest
  <2> QED
    BY <1>1, <2>1, <2>2 DEF ChunkCompletes, TaskOver, TypeOK
<1>2. CASE ChunkFails \/ TerminatedChunk
  <2>1. blocked' \in 0..1
    BY <1>2 DEF ChunkFails, TerminatedChunk, TaskOver, ThreadOwnsRequest
  <2> QED
    BY <1>2, <2>1, EndType DEF ChunkFails, TerminatedChunk, TaskOver, TypeOK
<1>3. CASE Finish
  BY <1>3, EndType DEF Finish, TypeOK
<1>4. CASE ThreadRead \/ TaskTimesOut
  <2>1. /\ UNCHANGED <<response, calls, ctx, pc, caller, in, out, pending, pendingLast, overtaken>>
        /\ UNCHANGED <<waiting, chunk, blocked, buffered, terminated, conn, seen, passed>>
        /\ task' \in {task, "read"} /\ timer' \in {timer, FALSE}
    BY <1>4 DEF ThreadRead, TaskTimesOut
  <2>2. task' \in {"none", "reading", "read"} /\ timer' \in BOOLEAN
    BY <2>1 DEF TypeOK
  <2> QED
    BY <2>1, <2>2 DEF TypeOK
<1>5. CASE Abort
  BY <1>5, EndType DEF Abort, TypeOK
<1> QED
  BY <1>1, <1>2, <1>3, <1>4, <1>5

\* Every step of the response keeps the types.
LEMMA ResponseTypeStep ==
  ASSUME ResponseIInv, ResponseNext PROVE ResponseTypeOK'
<1>1. /\ ResponseTypeOK /\ TypeOK /\ OneAtWork /\ ThreadOwnsRequest /\ FilesHaveContent
      /\ \A i \in 1..Len(past) + 1 : i \in Nat \ {0}
      /\ Len(past) \in Nat
  BY LenProperties DEF ResponseIInv, ResponseTypeOK
<1>2. Store("content") \in (Nat \ {0}) \X {"content", "header", "body"}
      /\ Store("header") \in (Nat \ {0}) \X {"content", "header", "body"}
      /\ Store("body") \in (Nat \ {0}) \X {"content", "header", "body"}
  BY <1>1 DEF Store
<1>3. ASSUME NEW c \in {"none", "bare", "registered"},
             NEW h \in {"unset", "done", "suspended", "failed"}, SpecialResponse(c, h)
      PROVE  /\ TypeOK' /\ location' \in Locations /\ stage' = "header" /\ page' \in BOOLEAN
             /\ header' \in {"unset", "done", "suspended", "failed"}
             /\ past' \in Seq({"none", "bare", "registered"})
  <2>1. ErrorPage \in Seq(Seq(Bufs))
    BY ResponseAssumption DEF Sendable
  <2>2. past' \in Seq({"none", "bare", "registered"})
    BY <1>1, <1>3, AppendProperties DEF SpecialResponse, ResponseTypeOK
  <2>3. ctx' \in {"none", "bare", "registered"}
        /\ header' \in {"unset", "done", "suspended", "failed"}
    BY <1>3 DEF SpecialResponse
  <2>4. TypeOK'
    BY <1>1, <1>3, <2>1, <2>3 DEF SpecialResponse, TypeOK, bodyVars, queueVars, threadVars
  <2> QED
    BY <1>1, <1>3, <2>2, <2>3, <2>4 DEF SpecialResponse, ResponseTypeOK
<1>4. CASE RunContent
  <2>1. stores' \subseteq (Nat \ {0}) \X {"content", "header", "body"} /\ sent' \in BOOLEAN
    BY <1>1, <1>2, <1>4 DEF RunContent, ResponseTypeOK
  <2>2. CASE \E c \in {"none", "bare", "registered"} : SpecialResponse(c, header)
    BY <1>1, <1>3, <2>1, <2>2 DEF ResponseTypeOK
  <2>3. CASE /\ ctx' = "registered" /\ stage' = "header"
             /\ UNCHANGED <<response, calls, bodyVars, conn, location, page, header, past>>
    BY <1>1, <2>1, <2>3 DEF ResponseTypeOK, TypeOK, bodyVars, queueVars, threadVars
  <2> QED
    BY <1>4, <2>2, <2>3 DEF RunContent
<1>5. CASE SendHeader
  <2>1. PICK c \in {"none", "bare", "registered"},
             h \in {"unset", "done", "suspended", "failed"},
             rc \in {"OK", "ERROR", "AGAIN"}, result \in {"OK", "ERROR", "AGAIN"} :
               /\ HeaderFilter(c, h, rc)
               /\ NextFilters(rc, result)
               /\ \/ SpecialResponse(c, h)
                  \/ /\ conn' = "error" /\ ctx' = c /\ header' = h
                     /\ UNCHANGED <<response, calls, bodyVars, location, stage, page, past>>
                  \/ /\ stage' = "body" /\ ctx' = c /\ header' = h
                     /\ UNCHANGED <<response, calls, bodyVars, conn, location, page, past>>
    BY <1>5 DEF SendHeader
  <2>2. stores' \subseteq (Nat \ {0}) \X {"content", "header", "body"} /\ sent' \in BOOLEAN
    BY <1>1, <1>2, <2>1 DEF HeaderFilter, NextFilters, ResponseTypeOK
  <2>3. CASE SpecialResponse(c, h)
    BY <1>3, <2>2, <2>3 DEF ResponseTypeOK
  <2>4. CASE /\ conn' \in {conn, "error"} /\ ctx' = c /\ header' = h
             /\ stage' \in {stage, "body"}
             /\ UNCHANGED <<response, calls, bodyVars, location, page, past>>
    BY <1>1, <2>2, <2>4 DEF ResponseTypeOK, TypeOK, bodyVars, queueVars, threadVars
  <2> QED
    BY <2>1, <2>3, <2>4
<1>6. CASE BodyStep
  <2>1. TypeOK'
    BY <1>1, <1>6, HandlerType, ProcessType, FileType, EventType DEF BodyStep, Worker
  <2>2. stores' \subseteq (Nat \ {0}) \X {"content", "header", "body"}
    BY <1>1, <1>2, <1>6 DEF BodyStep, ResponseTypeOK
  <2> QED
    BY <1>1, <1>6, <2>1, <2>2 DEF BodyStep, ResponseTypeOK
<1>7. CASE FreeRequest
  <2>1. stores' \subseteq stores
    BY <1>7 DEF FreeRequest, LogHandler
  <2>2. ctx' \in {"none", "bare", "registered"} /\ stage' = "gone"
    BY <1>7 DEF FreeRequest
  <2>3. UNCHANGED <<response, calls, bodyVars, conn, location, page, header, sent, past>>
    BY <1>7 DEF FreeRequest
  <2> QED
    BY <1>1, <2>1, <2>2, <2>3 DEF ResponseTypeOK, TypeOK, bodyVars, queueVars, threadVars
<1>8. CASE Environment
  BY <1>1, <1>8, EventType DEF Environment, ResponseTypeOK, responseVars
<1>9. CASE Gone
  BY <1>1, <1>9 DEF Gone, allVars, vars, responseVars, ResponseTypeOK, TypeOK, queueVars,
     threadVars
<1> QED
  BY <1>4, <1>5, <1>6, <1>7, <1>8, <1>9 DEF ResponseNext, System

-----------------------------------------------------------------------------
(* The thread and the buffered flag.                                       *)

\* Before the body nothing but what is in NothingEarly happens.
LEMMA EarlyStep ==
  ASSUME ResponseIInv, ResponseNext PROVE NothingEarly'
<1> USE DEF NothingEarly
<1>1. ResponseTypeOK /\ TypeOK /\ NothingEarly /\ OneAtWork
  BY DEF ResponseIInv, ResponseTypeOK
<1>2. CASE RunContent
  BY <1>1, <1>2 DEF RunContent, Calls, SpecialResponse, bodyVars, queueVars, threadVars
<1>3. CASE SendHeader
  <2>1. PICK c \in {"none", "bare", "registered"},
             h \in {"unset", "done", "suspended", "failed"},
             rc \in {"OK", "ERROR", "AGAIN"}, result \in {"OK", "ERROR", "AGAIN"} :
               \/ ~sent' /\ SpecialResponse(c, h)
               \/ /\ conn' = "error" /\ UNCHANGED <<bodyVars, stage>>
               \/ stage' = "body"
    BY <1>3 DEF SendHeader
  <2>2. /\ stage = "header" /\ pc = "idle" /\ task = "none" /\ ~waiting /\ ~buffered
        /\ pending = <<>> /\ passed = <<>>
    BY <1>1, <1>3 DEF SendHeader, Calls
  <2> QED
    BY <2>1, <2>2 DEF SpecialResponse, bodyVars, queueVars, threadVars
<1>4. CASE BodyStep \/ FreeRequest
  BY <1>4 DEF BodyStep, FreeRequest
<1>5. CASE Environment
  BY <1>1, <1>5 DEF Environment, ThreadRead, TaskTimesOut, Abort, End, responseVars,
     threadVars, queueVars
<1>6. CASE Gone
  BY <1>1, <1>6 DEF Gone, allVars, vars, responseVars, queueVars, threadVars
<1> QED
  BY <1>2, <1>3, <1>4, <1>5, <1>6 DEF ResponseNext, System

\* What a step of the worker in the body filter is for the thread: process runs
\* with nothing in flight, starts at most one read, and a read that is over leads
\* to process or to the end.
LEMMA BodyThread ==
  ASSUME TypeOK, OneAtWork, ThreadOwnsRequest, BufferedIsHonest,
         stage = "body", stage' = "body",
         Handler \/ QueueFails \/ NoContext \/ Worker
  PROVE  OneAtWork' /\ ThreadOwnsRequest'
<1> USE DEF OneAtWork, ThreadOwnsRequest, queueVars, threadVars
<1>1. CASE Handler \/ QueueFails
  BY <1>1 DEF Handler, QueueFails, Call, Process, GetOrCreateCtx, Enqueue, MayEnqueue, End,
     BufferedIsHonest
<1>2. CASE NoContext
  BY <1>2 DEF NoContext, Call, End
<1>3. CASE ProcessMemory \/ EndOfChain \/ ProcessFails
  BY <1>3 DEF ProcessMemory, EndOfChain, ProcessFails, End
<1>4. CASE ProcessFile
  <2>1. pc = "process" /\ task = "none" /\ ~waiting /\ conn = "open" /\ ctx # "none"
        /\ blocked = 0 /\ pc' = "idle" /\ ctx' = ctx
    BY <1>4 DEF ProcessFile, End
  <2>2. CASE UNCHANGED threadVars
    BY <2>1, <2>2
  <2>3. CASE /\ conn' = "open" /\ waiting' /\ task' = "reading" /\ blocked' = blocked + 1
             /\ pendingLast'
    BY <2>1, <2>3
  <2>4. in # <<>> /\ Head(in).file
    BY <1>4 DEF ProcessFile
  <2>5. UNCHANGED threadVars
        \/ /\ conn' = "open" /\ waiting' /\ task' = "reading" /\ blocked' = blocked + 1
           /\ pendingLast'
    BY <1>4, <2>1, <2>4 DEF ProcessFile, Schedule, Read, Enqueue, MayEnqueue, TypeOK
  <2> QED
    BY <2>2, <2>3, <2>5
<1>5. CASE ChunkCompletes
  BY <1>5 DEF ChunkCompletes, TaskOver, TypeOK
<1>6. CASE ChunkFails \/ TerminatedChunk
  BY <1>6 DEF ChunkFails, TerminatedChunk, TaskOver, End, TypeOK
<1>7. CASE Finish
  <2>1. conn' = "finished" /\ pc' = "idle" /\ UNCHANGED <<threadVars, buffered>>
    BY <1>7 DEF Finish, End
  <2>2. ~waiting
    BY <1>7 DEF Finish, BufferedIsHonest
  <2> QED
    BY <2>1, <2>2
<1> QED
  BY <1>1, <1>2, <1>3, <1>4, <1>5, <1>6, <1>7 DEF Worker

\* The thread comes to its end, its timer fires, or the client leaves.
LEMMA EnvironmentThread ==
  ASSUME TypeOK, OneAtWork, ThreadOwnsRequest, ThreadRead \/ TaskTimesOut \/ Abort,
         stage' = stage
  PROVE  OneAtWork' /\ ThreadOwnsRequest'
<1> USE DEF OneAtWork, ThreadOwnsRequest, queueVars, threadVars
<1>1. CASE ThreadRead \/ TaskTimesOut
  BY <1>1 DEF ThreadRead, TaskTimesOut
<1>2. CASE Abort
  BY <1>2 DEF Abort, End
<1> QED
  BY <1>1, <1>2

\* In every stage.
LEMMA ThreadStep ==
  ASSUME ResponseIInv, ResponseNext PROVE OneAtWork' /\ ThreadOwnsRequest'
<1>1. TypeOK /\ NothingEarly /\ OneAtWork /\ ThreadOwnsRequest /\ BufferedIsHonest
  BY DEF ResponseIInv, ResponseTypeOK
<1>2. CASE RunContent \/ SendHeader
  <2>1. stage \in {"content", "header"} /\ UNCHANGED <<pc, waiting, task, blocked>>
    BY <1>2 DEF RunContent, SendHeader, Calls, SpecialResponse, bodyVars, threadVars
  <2> QED
    BY <1>1, <2>1 DEF NothingEarly, OneAtWork, ThreadOwnsRequest
<1>3. CASE BodyStep
  <2>1. stage = "body" /\ stage' = "body" /\ (Handler \/ QueueFails \/ NoContext \/ Worker)
    BY <1>3 DEF BodyStep, Worker
  <2> QED
    BY <1>1, <2>1, BodyThread
<1>4. CASE FreeRequest
  BY <1>1, <1>4 DEF FreeRequest, bodyVars, threadVars, OneAtWork, ThreadOwnsRequest
<1>5. CASE Environment
  BY <1>1, <1>5, EnvironmentThread DEF Environment, responseVars
<1>6. CASE Gone
  BY <1>1, <1>6 DEF Gone, allVars, vars, responseVars, queueVars, threadVars, OneAtWork,
     ThreadOwnsRequest
<1> QED
  BY <1>2, <1>3, <1>4, <1>5, <1>6 DEF ResponseNext, System

\* Only the remainder of a file can be empty, and that is for the event handler.
LEMMA FilesStep ==
  ASSUME ResponseIInv, ResponseNext PROVE FilesHaveContent'
<1>1. FilesHaveContent /\ NothingEarly /\ TypeOK /\ Sendable(calls)
  BY DEF ResponseIInv, ResponseTypeOK, FilesHaveContent
<1>2. CASE UNCHANGED <<calls, pc, caller, in>>
  BY <1>1, <1>2 DEF FilesHaveContent
<1>3. CASE calls' \in {calls, ErrorPage} /\ pc' = "idle"
  BY <1>1, <1>3, ResponseAssumption DEF FilesHaveContent
<1>4. CASE Handler \/ QueueFails \/ NoContext
  <2>1. Sendable(Tail(calls))
        /\ \A j \in DOMAIN Head(calls) : Head(calls)[j].file => ~IsEmpty(Head(calls)[j])
    BY <1>1, <1>4, SendableSplit DEF Handler, QueueFails, NoContext, Call
  <2>2. calls' = Tail(calls) /\ (pc' = "idle" \/ in' = Head(calls))
    BY <1>4 DEF Handler, QueueFails, NoContext, Call, Process, End, Enqueue
  <2> QED
    BY <2>1, <2>2 DEF FilesHaveContent
<1>5. CASE ProcessMemory
  <2>1. UNCHANGED <<calls, pc, caller>> /\ in' = Tail(in) /\ in # <<>> /\ pc = "process"
    BY <1>5 DEF ProcessMemory
  <2>2. \A i \in DOMAIN Tail(in) : i + 1 \in DOMAIN in /\ Tail(in)[i] = in[i + 1]
    BY <1>1, <2>1, Split DEF TypeOK
  <2> QED
    BY <1>1, <2>1, <2>2 DEF FilesHaveContent
<1>6. CASE ProcessFile \/ EndOfChain \/ ProcessFails \/ ChunkFails \/ TerminatedChunk \/ Finish
  BY <1>3, <1>6 DEF ProcessFile, EndOfChain, ProcessFails, ChunkFails, TerminatedChunk,
     Finish, End
<1>7. CASE ChunkCompletes
  BY <1>1, <1>7 DEF ChunkCompletes, FilesHaveContent
<1>8. CASE ThreadRead \/ TaskTimesOut \/ Abort
  <2>1. UNCHANGED <<calls, pc, caller, in>> \/ (calls' = calls /\ pc' = "idle")
    BY <1>8 DEF ThreadRead, TaskTimesOut, Abort, End
  <2> QED
    BY <1>2, <1>3, <2>1
<1>9. CASE RunContent \/ SendHeader
  <2>1. calls' \in {calls, ErrorPage} /\ pc' = "idle"
    BY <1>1, <1>9 DEF RunContent, SendHeader, Calls, SpecialResponse, bodyVars
  <2> QED
    BY <1>3, <2>1
<1>10. CASE FreeRequest \/ Gone
  BY <1>2, <1>10 DEF FreeRequest, Gone, bodyVars, allVars, vars
<1> QED
  BY <1>4, <1>5, <1>6, <1>7, <1>8, <1>9, <1>10 DEF ResponseNext, System, BodyStep, Worker,
     Environment

\* The flag is set again at each end of process, and a chain that comes while the
\* thread reads sets it; a handler never leaves it for an empty file.
LEMMA BufferedStep ==
  ASSUME ResponseIInv, ResponseNext PROVE BufferedIsHonest'
<1> USE DEF BufferedIsHonest
<1>1. /\ TypeOK /\ NothingEarly /\ OneAtWork /\ BufferedIsHonest /\ FilesHaveContent
      /\ stage \in {"content", "header", "body", "gone"}
  BY DEF ResponseIInv, ResponseTypeOK
<1>2. CASE pc' # "idle" \/ conn' # "open"
  BY <1>2
<1>3. CASE pc = "idle" /\ conn = "open" /\ UNCHANGED <<buffered, waiting, pending>>
  BY <1>1, <1>3
<1>4. CASE Handler \/ NoContext
  BY <1>2, <1>4 DEF Handler, NoContext, Call, Process, End, threadVars
<1>15. CASE QueueFails
  BY <1>1, <1>15 DEF QueueFails, Call, threadVars
<1>5. CASE ProcessMemory
  BY <1>1, <1>2, <1>5 DEF ProcessMemory
<1>6. CASE EndOfChain
  <2>1. pc = "process" /\ ~waiting /\ (pending # <<>> => buffered)
    BY <1>1, <1>6 DEF EndOfChain, OneAtWork
  <2> QED
    BY <1>6, <2>1 DEF EndOfChain, Holds, queueVars, threadVars
<1>7. CASE ProcessFails \/ ChunkFails \/ TerminatedChunk \/ Finish
  BY <1>2, <1>7 DEF ProcessFails, ChunkFails, TerminatedChunk, Finish, End
<1>8. CASE ChunkCompletes
  BY <1>2, <1>8 DEF ChunkCompletes
<1>9. CASE ProcessFile
  <2>1. pc = "process" /\ in # <<>> /\ Head(in).file
    BY <1>9 DEF ProcessFile
  <2>2. caller = "handler" => ~IsEmpty(Head(in))
    <3>1. Head(in) = in[1] /\ 1 \in DOMAIN in
      BY <1>1, <2>1, Split DEF TypeOK
    <3> QED
      BY <1>1, <2>1, <3>1 DEF FilesHaveContent
  <2>3. CASE conn' # "open"
    BY <2>3
  <2>4. CASE buffered' = (caller = "handler" \/ Holds(waiting', pending'))
             /\ (IsEmpty(Head(in)) \/ waiting')
    BY <1>1, <2>2, <2>4 DEF Holds, TypeOK
  <2>5. \/ conn' # "open"
        \/ /\ buffered' = (caller = "handler" \/ Holds(waiting', pending'))
           /\ (IsEmpty(Head(in)) \/ waiting')
    BY <1>9 DEF ProcessFile, End, Schedule, Read
  <2> QED
    BY <2>3, <2>4, <2>5
<1>10. CASE ThreadRead \/ TaskTimesOut
  BY <1>1, <1>10 DEF ThreadRead, TaskTimesOut, queueVars
<1>11. CASE Abort
  BY <1>2, <1>3, <1>11 DEF Abort, End, queueVars, threadVars
<1>12. CASE RunContent \/ SendHeader
  <2>1. stage \in {"content", "header"} /\ UNCHANGED <<buffered, waiting, pending>>
    <3>1. CASE RunContent
      BY <3>1 DEF RunContent, Calls, SpecialResponse, bodyVars, queueVars, threadVars
    <3>2. CASE SendHeader
      BY <3>2 DEF SendHeader, Calls, SpecialResponse, bodyVars, queueVars, threadVars
    <3> QED
      BY <1>12, <3>1, <3>2
  <2> QED
    BY <1>1, <2>1 DEF NothingEarly
<1>13. CASE FreeRequest
  BY <1>2, <1>13 DEF FreeRequest
<1>14. CASE Gone
  BY <1>1, <1>14 DEF Gone, allVars, vars, queueVars, threadVars
<1> QED
  BY <1>4, <1>5, <1>6, <1>7, <1>8, <1>9, <1>10, <1>11, <1>12, <1>13, <1>14,
     <1>15
  DEF ResponseNext, System, BodyStep, Worker, Environment

-----------------------------------------------------------------------------
(* The header and the stores.                                              *)

\* What a call of ngx_http_send_header leaves: the header is out only if the guest
\* of the header filter is done, and a body follows only a header that is out.
LEMMA HeaderStep ==
  ASSUME ResponseIInv, ResponseNext PROVE HeaderSent' /\ BodyFollowsHeader'
<1> USE DEF HeaderSent, BodyFollowsHeader
<1>1. NothingEarly /\ HeaderSent /\ BodyFollowsHeader /\ location \in Locations
  BY DEF ResponseIInv, ResponseTypeOK
<1>2. CASE RunContent
  <2>1. /\ stage = "content" /\ conn = "open" /\ stage' = "header" /\ sent' = sent
        /\ passed' = passed
    BY <1>2 DEF RunContent, Calls, SpecialResponse, bodyVars
  <2>2. passed = <<>> /\ ~sent
    BY <1>1, <2>1 DEF NothingEarly
  <2> QED
    BY <2>1, <2>2
<1>3. CASE SendHeader
  <2>1. stage = "header" /\ passed = <<>> /\ ~sent
    BY <1>1, <1>3 DEF SendHeader, Calls, NothingEarly
  <2>2. PICK c \in {"none", "bare", "registered"},
             h \in {"unset", "done", "suspended", "failed"},
             rc \in {"OK", "ERROR", "AGAIN"}, result \in {"OK", "ERROR", "AGAIN"} :
               /\ HeaderFilter(c, h, rc)
               /\ NextFilters(rc, result)
               /\ \/ ~sent' /\ SpecialResponse(c, h)
                  \/ /\ result = "ERROR" /\ header' = h
                     /\ UNCHANGED <<bodyVars, location, stage>>
                  \/ /\ result # "ERROR" /\ header' = h
                     /\ UNCHANGED <<bodyVars, location>>
    BY <1>3 DEF SendHeader
  <2>3. passed' = passed /\ location' = location
    BY <2>2 DEF SpecialResponse, bodyVars
  <2>4. rc \in {"OK", "ERROR"} /\ (rc = "OK" /\ location.header => h = "done")
    BY <2>2 DEF HeaderFilter
  <2>5. sent' => rc = "OK" /\ header' = h
    BY <2>1, <2>2 DEF NextFilters
  <2>6. stage' = "body" => sent'
    BY <2>1, <2>2, <2>4 DEF NextFilters, SpecialResponse
  <2> QED
    BY <2>1, <2>3, <2>4, <2>5, <2>6
<1>4. CASE BodyStep
  BY <1>1, <1>4 DEF BodyStep
<1>5. CASE FreeRequest
  BY <1>1, <1>5 DEF FreeRequest, bodyVars
<1>6. CASE Environment
  BY <1>1, <1>6 DEF Environment, ThreadRead, TaskTimesOut, Abort, responseVars
<1>7. CASE Gone
  BY <1>1, <1>7 DEF Gone, allVars, vars, responseVars
<1> QED
  BY <1>2, <1>3, <1>4, <1>5, <1>6, <1>7 DEF ResponseNext, System

\* The contexts of a request, one by one.
LEMMA ContextsAre ==
  ASSUME NEW S, NEW p \in Seq(S), NEW c
  PROVE  /\ DOMAIN Append(p, c) = 1..(Len(p) + 1) /\ Len(p) \in Nat
         /\ Append(p, c)[Len(p) + 1] = c
         /\ \A i \in 1..Len(p) : Append(p, c)[i] = p[i]
<1>1. p \in Seq(S \cup {c})
  BY SeqMonotonic
<1> QED
  BY <1>1, AppendProperties, LenProperties

\* A store stays with its context, which a redirect only moves, until that is
\* cleaned up.
LEMMA StoresStep ==
  ASSUME ResponseIInv, ResponseNext PROVE StoresHaveContext' /\ EveryStoreFreed'
<1> DEFINE Has(p, c, s) == IF s[1] = Len(p) + 1 THEN c # "none"
                           ELSE s[1] \in 1..Len(p) /\ p[s[1]] # "none"
<1>1. /\ ResponseTypeOK /\ TypeOK /\ NothingEarly /\ OneAtWork /\ ThreadOwnsRequest
      /\ past \in Seq({"none", "bare", "registered"}) /\ Len(past) \in Nat
      /\ stage \in {"content", "header", "body", "gone"}
  BY LenProperties DEF ResponseIInv, ResponseTypeOK
<1>2. past' \in Seq({"none", "bare", "registered"})
  BY ResponseTypeStep DEF ResponseTypeOK
<1>3. \A s \in stores : Has(past, ctx, s)
  <2> SUFFICES ASSUME NEW s \in stores PROVE Has(past, ctx, s)
    OBVIOUS
  <2>1. s[1] \in DOMAIN Append(past, ctx) /\ Append(past, ctx)[s[1]] # "none"
    BY DEF ResponseIInv, StoresHaveContext, Contexts
  <2> QED
    BY <1>1, <2>1, ContextsAre
<1>4. (\A s \in stores' : Has(past', ctx', s)) => StoresHaveContext'
  <2> SUFFICES ASSUME NEW s \in stores', Has(past', ctx', s)
               PROVE  s[1] \in DOMAIN Append(past', ctx') /\ Append(past', ctx')[s[1]] # "none"
    BY DEF StoresHaveContext, Contexts
  <2>1. DOMAIN Append(past', ctx') = 1..(Len(past') + 1) /\ Len(past') \in Nat
        /\ Append(past', ctx')[Len(past') + 1] = ctx'
        /\ \A i \in 1..Len(past') : Append(past', ctx')[i] = past'[i]
    BY <1>2, ContextsAre
  <2> QED
    BY <2>1
<1>5. ASSUME NEW c, past' = past, ctx' = c, ctx # "none" => c = ctx,
             NEW exec, stores' \subseteq stores \cup {Store(exec)},
             stores' \subseteq stores \/ c # "none"
      PROVE  \A s \in stores' : Has(past', ctx', s)
  BY <1>1, <1>3, <1>5 DEF Store
<1>6. ASSUME NEW c \in {"none", "bare", "registered"},
             NEW h, SpecialResponse(c, h), ctx # "none" => c = ctx,
             NEW exec, stores' \subseteq stores \cup {Store(exec)},
             stores' \subseteq stores \/ c # "none"
      PROVE  \A s \in stores' : Has(past', ctx', s)
  <2>1. CASE location.redirect
    <3>1. past' = Append(past, c) /\ ctx' = "none"
      BY <1>6, <2>1 DEF SpecialResponse
    <3>2. /\ Len(past') = Len(past) + 1
          /\ past'[Len(past) + 1] = c
          /\ \A i \in 1..Len(past) : past'[i] = past[i]
      BY <1>1, <3>1, ContextsAre, AppendProperties
    <3> SUFFICES ASSUME NEW s \in stores' PROVE Has(past', ctx', s)
      OBVIOUS
    <3>3. CASE s \in stores
      BY <1>1, <1>3, <1>6, <3>1, <3>2, <3>3
    <3>4. CASE s = Store(exec) /\ c # "none"
      BY <1>1, <3>1, <3>2, <3>4 DEF Store
    <3> QED
      BY <1>6, <3>3, <3>4
  <2>2. CASE ~location.redirect
    <3>1. past' = past /\ ctx' = c
      BY <1>6, <2>2 DEF SpecialResponse
    <3> QED
      BY <1>5, <1>6, <3>1
  <2> QED
    BY <2>1, <2>2
<1>7. CASE RunContent
  <2>1. stage = "content" /\ ctx = "none" /\ stores = {} /\ stage' = "header"
    BY <1>1, <1>7 DEF RunContent, Calls, NothingEarly, SpecialResponse
  <2>2. \/ /\ ctx' = "registered" /\ past' = past
           /\ stores' = stores \cup {Store("content")}
        \/ SpecialResponse("registered", header) /\ stores' = stores \cup {Store("content")}
        \/ \E c \in {"none", "bare"} : SpecialResponse(c, header) /\ stores' = stores
    BY <1>7 DEF RunContent
  <2> QED
    BY <1>4, <1>5, <1>6, <2>1, <2>2 DEF EveryStoreFreed
<1>8. CASE SendHeader
  <2>1. PICK c \in {"none", "bare", "registered"},
             h \in {"unset", "done", "suspended", "failed"},
             rc \in {"OK", "ERROR", "AGAIN"} :
               /\ HeaderFilter(c, h, rc)
               /\ \/ SpecialResponse(c, h)
                  \/ ctx' = c /\ past' = past /\ stage' \in {stage, "body"}
    BY <1>8 DEF SendHeader
  <2>2. stage = "header" /\ stage' # "gone"
    BY <1>8, <2>1 DEF SendHeader, Calls, SpecialResponse
  <2>3. /\ ctx # "none" => c = ctx
        /\ stores' \subseteq stores \cup {Store("header")}
        /\ stores' \subseteq stores \/ c # "none"
    BY <2>1 DEF HeaderFilter
  <2>4. \A s \in stores' : Has(past', ctx', s)
    BY <1>5, <1>6, <2>1, <2>3
  <2> QED
    BY <1>4, <2>2, <2>4 DEF EveryStoreFreed
<1>9. CASE BodyStep
  <2>1. /\ stage = "body" /\ stage' = "body" /\ past' = past
        /\ stores' \subseteq stores \cup {Store("body")}
    BY <1>9 DEF BodyStep
  <2>2. ctx # "none" => ctx' = ctx
    BY <1>9 DEF BodyStep, Handler, QueueFails, NoContext, Call, Process, GetOrCreateCtx,
       Worker, ProcessMemory, ProcessFile, EndOfChain, ProcessFails, ChunkCompletes,
       ChunkFails, TerminatedChunk, Finish
  <2>3. stores' \subseteq stores \/ ctx # "none"
    <3>1. CASE (Handler \/ QueueFails \/ NoContext \/ Worker) /\ seen' = seen /\ stores' = stores
      BY <3>1
    <3>2. CASE pc = "process" \/ task # "none"
      BY <1>1, <3>2 DEF OneAtWork, ThreadOwnsRequest
    <3>3. seen' = seen \/ pc = "process" \/ task # "none"
      BY <1>9 DEF BodyStep, Handler, QueueFails, NoContext, Call, Worker, ProcessMemory,
         ProcessFile, EndOfChain, ProcessFails, ChunkCompletes, ChunkFails, TerminatedChunk, Finish
    <3>4. ProcessFails \/ ChunkFails => pc = "process" \/ task # "none"
      BY DEF ProcessFails, ChunkFails
    <3> QED
      BY <1>9, <3>1, <3>2, <3>3, <3>4 DEF BodyStep
  <2>4. \A s \in stores' : Has(past', ctx', s)
    <3>1. ctx' = ctx' /\ (stores' \subseteq stores \/ ctx' # "none")
      BY <2>2, <2>3
    <3> QED
      BY <1>5, <2>1, <2>2, <3>1
  <2> QED
    BY <1>4, <2>1, <2>4 DEF EveryStoreFreed
<1>10. CASE FreeRequest
  <2>1. PICK c \in {"none", "bare", "registered"} :
          /\ LogHandler(c, {})
          /\ ctx' = c /\ past' = past
          /\ stores' = stores \ Cleaned(Append(past, c))
    <3>1. PICK c \in {"none", "bare", "registered"}, made \in SUBSET {Store("log")} :
            /\ LogHandler(c, made)
            /\ ctx' = c /\ past' = past
            /\ stores' = (stores \cup made) \ Cleaned(Append(past, c))
      BY <1>10 DEF FreeRequest
    <3>2. made = {}
      BY <3>1 DEF LogHandler
    <3> QED
      BY <3>1, <3>2
  <2>2. ctx # "none" => c = ctx
    BY <2>1 DEF LogHandler
  <2>3. \A s \in stores' : Has(past', ctx', s)
    <3>1. stores' \subseteq stores \cup {Store("log")} /\ stores' \subseteq stores
      BY <2>1
    <3> QED
      BY <1>5, <2>1, <2>2, <3>1
  <2>4. StoresHaveContext'
    BY <1>4, <2>3
  <2>5. ASSUME NEW s \in stores' PROVE Append(past', ctx')[s[1]] = "bare"
    <3>1. s[1] \in DOMAIN Append(past, c) /\ Append(past, c)[s[1]] # "none"
      BY <2>1, <2>4 DEF StoresHaveContext, Contexts
    <3>2. /\ DOMAIN Append(past, c) = 1..(Len(past) + 1)
          /\ Append(past, c)[Len(past) + 1] = c
          /\ \A i \in 1..Len(past) : Append(past, c)[i] = past[i]
      BY <1>1, ContextsAre
    <3>3. \A i \in 1..Len(past) : past[i] \in {"none", "bare", "registered"}
      BY <1>1, ElementOfSeq
    <3>4. Append(past, c)[s[1]] \in {"none", "bare", "registered"}
      BY <1>1, <3>1, <3>2, <3>3
    <3>5. s \in stores /\ s \in (Nat \ {0}) \X {"content", "header", "body"}
      BY <1>1, <2>1 DEF ResponseTypeOK
    <3>6. Append(past, c)[s[1]] # "registered"
      BY <2>1, <3>1, <3>5 DEF Cleaned
    <3> QED
      BY <2>1, <3>1, <3>4, <3>6
  <2> QED
    BY <2>4, <2>5 DEF EveryStoreFreed, Contexts
<1>11. CASE Environment
  <2>1. UNCHANGED <<past, ctx, stores, stage>> /\ stage # "gone"
    BY <1>11 DEF Environment, ThreadRead, TaskTimesOut, Abort, responseVars
  <2> QED
    BY <2>1 DEF ResponseIInv, StoresHaveContext, EveryStoreFreed, Contexts
<1>12. CASE Gone
  <2>1. UNCHANGED <<past, ctx, stores, stage>>
    BY <1>12 DEF Gone, allVars, vars, responseVars
  <2> QED
    BY <2>1 DEF ResponseIInv, StoresHaveContext, EveryStoreFreed, Contexts
<1> QED
  BY <1>7, <1>8, <1>9, <1>10, <1>11, <1>12 DEF ResponseNext, System

\* The parts together.
LEMMA NextIInv == ResponseIInv /\ [ResponseNext]_allVars => ResponseIInv'
<1> SUFFICES ASSUME ResponseIInv, [ResponseNext]_allVars PROVE ResponseIInv'
  OBVIOUS
<1>1. CASE ResponseNext
  BY <1>1, ResponseTypeStep, EarlyStep, ThreadStep, FilesStep, BufferedStep, HeaderStep,
     StoresStep DEF ResponseIInv
<1>2. CASE UNCHANGED allVars
  <2> USE <1>2 DEF allVars, vars, responseVars, queueVars, threadVars
  <2>1. ResponseTypeOK'
    BY DEF ResponseIInv, ResponseTypeOK, TypeOK
  <2>2. NothingEarly' /\ OneAtWork' /\ FilesHaveContent'
    BY DEF ResponseIInv, NothingEarly, OneAtWork, FilesHaveContent
  <2>3. ThreadOwnsRequest' /\ BufferedIsHonest' /\ HeaderSent' /\ BodyFollowsHeader'
    BY DEF ResponseIInv, ThreadOwnsRequest, BufferedIsHonest, HeaderSent, BodyFollowsHeader
  <2>4. StoresHaveContext' /\ EveryStoreFreed'
    BY DEF ResponseIInv, StoresHaveContext, EveryStoreFreed, Contexts
  <2> QED
    BY <2>1, <2>2, <2>3, <2>4 DEF ResponseIInv
<1> QED
  BY <1>1, <1>2

-----------------------------------------------------------------------------
(* The theorems.                                                           *)

\* Every reachable state satisfies the invariant.
THEOREM Inductive == ResponseSpec => []ResponseIInv
<1> QED
  BY InitIInv, NextIInv, PTL DEF ResponseSpec

\* Every variable keeps its type; a request is blocked by one task at most.
THEOREM TypeCorrect == ResponseSpec => []ResponseTypeOK
<1>1. ResponseIInv => ResponseTypeOK
  BY DEF ResponseIInv
<1> QED
  BY <1>1, Inductive, PTL

\* A thread never writes to memory of a request that is gone, however timers,
\* aborts and failures interleave with its reads.
THEOREM ThreadHasItsMemory == ResponseSpec => []ThreadOwnsRequest
<1>1. ResponseIInv => ThreadOwnsRequest
  BY DEF ResponseIInv
<1> QED
  BY <1>1, Inductive, PTL

\* Between two calls of the filter r->buffered is set exactly if it holds
\* something back.
THEOREM BufferedIsTrue == ResponseSpec => []BufferedIsHonest
<1>1. ResponseIInv => BufferedIsHonest
  BY DEF ResponseIInv
<1> QED
  BY <1>1, Inductive, PTL

\* No content goes out without a header that the header filter's guest let pass.
THEOREM HeaderComesFirst == ResponseSpec => []BodyFollowsHeader
<1>1. ResponseIInv => BodyFollowsHeader
  BY DEF ResponseIInv
<1> QED
  BY <1>1, Inductive, PTL

\* No Wasmtime store outlives its request, through any number of redirects,
\* unless the context's cleanup could not be registered.
THEOREM StoresAreFreed == ResponseSpec => []EveryStoreFreed
<1>1. ResponseIInv => EveryStoreFreed
  BY DEF ResponseIInv
<1> QED
  BY <1>1, Inductive, PTL

-----------------------------------------------------------------------------
(* The units of the content.                                               *)

\* No buffers and no chains hold any; one buffer holds its own; ...
LEMMA UnitsOfNone == Units(<<>>) = {} /\ AllUnits(<<>>) = {}
<1>1. DOMAIN <<>> = {}
  OBVIOUS
<1> QED
  BY <1>1 DEF Units, AllUnits

LEMMA UnitsOfOne ==
  ASSUME NEW x \in Bufs PROVE Units(<<x>>) = UnitsOf(x)
<1>1. DOMAIN <<x>> = {1} /\ <<x>>[1] = x
  OBVIOUS
<1> QED
  BY <1>1 DEF Units

\* ... buffers that are put together hold what both do; ...
LEMMA UnitsTogether ==
  ASSUME NEW s \in Seq(Bufs), NEW t \in Seq(Bufs)
  PROVE  Units(s \o t) = Units(s) \cup Units(t)
<1>1. /\ Len(s) \in Nat /\ Len(t) \in Nat /\ DOMAIN s = 1..Len(s) /\ DOMAIN t = 1..Len(t)
      /\ DOMAIN (s \o t) = 1..(Len(s) + Len(t))
      /\ \A i \in 1..Len(s) : (s \o t)[i] = s[i]
      /\ \A k \in 1..Len(t) : (s \o t)[Len(s) + k] = t[k]
  BY LenProperties, ConcatProperties
<1> DEFINE u == s \o t
<1> HIDE DEF u
<1>2. ASSUME NEW i \in DOMAIN u
      PROVE  (\E j \in DOMAIN s : u[i] = s[j]) \/ (\E k \in DOMAIN t : u[i] = t[k])
  <2>1. CASE i \in 1..Len(s)
    BY <1>1, <2>1 DEF u
  <2>2. CASE i \notin 1..Len(s)
    <3>1. i \in Nat /\ i - Len(s) \in 1..Len(t) /\ Len(s) + (i - Len(s)) = i
      BY <1>1, <2>2 DEF u
    <3> QED
      BY <1>1, <3>1 DEF u
  <2> QED
    BY <2>1, <2>2
<1>3. ASSUME NEW j \in DOMAIN s PROVE j \in DOMAIN u /\ u[j] = s[j]
  BY <1>1 DEF u
<1>4. ASSUME NEW k \in DOMAIN t PROVE Len(s) + k \in DOMAIN u /\ u[Len(s) + k] = t[k]
  BY <1>1 DEF u
<1>5. Units(u) \subseteq Units(s) \cup Units(t)
  BY <1>2 DEF Units
<1>6. Units(s) \subseteq Units(u)
  BY <1>3 DEF Units
<1>7. Units(t) \subseteq Units(u)
  BY <1>4 DEF Units
<1> QED
  BY <1>5, <1>6, <1>7 DEF u

LEMMA UnitsAppended ==
  ASSUME NEW s \in Seq(Bufs), NEW x \in Bufs
  PROVE  Units(Append(s, x)) = Units(s) \cup UnitsOf(x)
<1>1. <<x>> \in Seq(Bufs) /\ Append(s, x) = s \o <<x>>
  BY AppendIsConcat
<1> QED
  BY <1>1, UnitsOfOne, UnitsTogether

\* ... and all of them are those of the first and of the others.
LEMMA UnitsSplit ==
  ASSUME NEW s \in Seq(Bufs), s # <<>>
  PROVE  Units(s) = UnitsOf(Head(s)) \cup Units(Tail(s))
<1> DEFINE t == Tail(s)
<1>1. /\ Head(s) = s[1] /\ 1 \in DOMAIN s
      /\ \A i \in DOMAIN t : i + 1 \in DOMAIN s /\ t[i] = s[i + 1]
      /\ Len(t) = Len(s) - 1 /\ Len(s) \in Nat
      /\ DOMAIN s = 1..Len(s) /\ DOMAIN t = 1..Len(t)
  BY Split, HeadTailProperties, LenProperties
<1> HIDE DEF t
<1>2. ASSUME NEW i \in DOMAIN s, i # 1 PROVE i - 1 \in DOMAIN t /\ t[i - 1] = s[i]
  <2>1. i - 1 \in DOMAIN t /\ (i - 1) + 1 = i
    BY <1>1, <1>2
  <2> QED
    BY <1>1, <2>1
<1>3. Units(s) \subseteq UnitsOf(s[1]) \cup Units(t)
  BY <1>2 DEF Units
<1>4. UnitsOf(s[1]) \cup Units(t) \subseteq Units(s)
  BY <1>1 DEF Units
<1> QED
  BY <1>1, <1>3, <1>4 DEF t

LEMMA ChainsSplit ==
  ASSUME NEW chains \in Seq(Seq(Bufs)), chains # <<>>
  PROVE  AllUnits(chains) \subseteq Units(Head(chains)) \cup AllUnits(Tail(chains))
<1> DEFINE t == Tail(chains)
<1>1. /\ Head(chains) = chains[1]
      /\ \A i \in DOMAIN t : t[i] = chains[i + 1]
      /\ Len(t) = Len(chains) - 1 /\ Len(chains) \in Nat
      /\ DOMAIN chains = 1..Len(chains) /\ DOMAIN t = 1..Len(t)
  BY Split, HeadTailProperties, LenProperties
<1> HIDE DEF t
<1>2. ASSUME NEW i \in DOMAIN chains, i # 1 PROVE i - 1 \in DOMAIN t /\ t[i - 1] = chains[i]
  <2>1. i - 1 \in DOMAIN t /\ (i - 1) + 1 = i
    BY <1>1, <1>2
  <2> QED
    BY <1>1, <2>1
<1>3. AllUnits(chains) \subseteq Units(chains[1]) \cup AllUnits(t)
  BY <1>2 DEF AllUnits
<1> QED
  BY <1>1, <1>3 DEF t

\* The chunk that is read of a file, and what is left of it.
Chunk(f) ==
  Buf(f.from, f.from + SizeOfChunk(f) - 1, FALSE, f.last /\ f.from + SizeOfChunk(f) > f.to)
Rest(f) == Remainder(f, SizeOfChunk(f))

\* Between them they hold all that the file does; nothing is held by an empty buffer
\* that is not the end, nor by an empty file.
LEMMA FileUnits ==
  ASSUME NEW f \in Bufs
  PROVE  /\ f.file /\ ~IsEmpty(f) => /\ UnitsOf(f) \subseteq UnitsOf(Chunk(f)) \cup UnitsOf(Rest(f))
                                     /\ Chunk(f) \in Bufs /\ Rest(f) \in Bufs
         /\ IsEmpty(f) /\ (f.file \/ ~f.last) => UnitsOf(f) = {}
<1>1. f.from \in Nat /\ f.to \in Nat /\ f.last \in BOOLEAN /\ f.file \in BOOLEAN
  BY DEF Bufs
<1>2. ASSUME f.file, ~IsEmpty(f)
      PROVE  /\ UnitsOf(f) \subseteq UnitsOf(Chunk(f)) \cup UnitsOf(Rest(f))
             /\ Chunk(f) \in Bufs /\ Rest(f) \in Bufs
  <2> DEFINE size == SizeOfChunk(f)
             last == f.last /\ f.from + size > f.to
  <2>1. size \in Nat \ {0} /\ Chunk(f) \in Bufs /\ Rest(f) \in Bufs
    <3>1. last \in BOOLEAN
      BY <1>1
    <3> QED
      BY <1>2, <3>1, ChunkType DEF Chunk, Rest
  <2>2. f.from <= f.to /\ size <= f.to - f.from + 1
    BY <1>1, <1>2, BodyFilterAssumption DEF SizeOfChunk, IsEmpty
  <2>3. /\ Chunk(f).from = f.from /\ Chunk(f).to = f.from + size - 1
        /\ Chunk(f).file = FALSE /\ Chunk(f).last = last
    BY DEF Chunk, Buf
  <2>4. /\ Rest(f).from = f.from + size /\ Rest(f).to = f.to
        /\ Rest(f).file = f.file /\ Rest(f).last = f.last
    BY DEF Rest, Remainder, Bufs
  <2> HIDE DEF size
  <2>5. UnitsOf(Chunk(f)) = f.from..(f.from + size - 1)
                              \cup (IF last THEN {f.from + size} ELSE {})
    <3>1. (f.from + size - 1) + 1 = f.from + size
      BY <1>1, <2>1
    <3> QED
      BY <2>3, <3>1 DEF UnitsOf
  <2>6. CASE f.from + size > f.to
    <3>1. f.from + size - 1 = f.to /\ f.from + size = f.to + 1
      BY <1>1, <2>1, <2>2, <2>6
    <3>2. UnitsOf(Chunk(f)) = f.from..f.to \cup (IF f.last THEN {f.to + 1} ELSE {})
      BY <2>5, <2>6, <3>1
    <3> QED
      BY <1>2, <2>1, <3>2 DEF UnitsOf
  <2>7. CASE ~(f.from + size > f.to)
    <3>1. UnitsOf(Rest(f)) = (f.from + size)..f.to \cup (IF f.last THEN {f.to + 1} ELSE {})
      BY <2>4, <2>7 DEF UnitsOf, IsEmpty
    <3>2. UnitsOf(f) = f.from..f.to \cup (IF f.last THEN {f.to + 1} ELSE {})
      BY <1>2 DEF UnitsOf
    <3>3. f.from..f.to \subseteq f.from..(f.from + size - 1) \cup (f.from + size)..f.to
      BY <1>1, <2>1
    <3> QED
      BY <2>1, <2>5, <3>1, <3>2, <3>3
  <2> QED
    BY <2>6, <2>7
<1>3. ASSUME IsEmpty(f), f.file \/ ~f.last PROVE UnitsOf(f) = {}
  <2>1. f.from..f.to = {}
    BY <1>1, <1>3 DEF IsEmpty
  <2> QED
    BY <1>3, <2>1 DEF UnitsOf
<1> QED
  BY <1>2, <1>3

-----------------------------------------------------------------------------
(* Nothing of the content is lost.                                         *)

\* Before the body all of the response is still to come.
LEMMA EarlyWhole ==
  ASSUME ResponseIInv, WholeIInv, RunContent \/ SendHeader PROVE WholeIInv'
<1> DEFINE Answers == response' = ErrorPage /\ calls' = ErrorPage
           Keeps == UNCHANGED <<response, calls>>
<1>1. /\ stage \in {"content", "header"} /\ pc = "idle" /\ conn = "open"
      /\ UNCHANGED <<pc, in, out, passed, seen>>
      /\ Answers \/ Keeps
      /\ conn' \in {"open", "error"}
  <2>1. CASE RunContent
    BY <2>1 DEF RunContent, Calls, SpecialResponse, bodyVars
  <2>2. CASE SendHeader
    <3>1. stage = "header" /\ pc = "idle" /\ conn = "open"
      BY <2>2 DEF SendHeader, Calls
    <3>2. PICK c, h :
            \/ SpecialResponse(c, h)
            \/ conn' = "error" /\ UNCHANGED <<response, calls, bodyVars>>
            \/ UNCHANGED <<response, calls, bodyVars, conn>>
      BY <2>2 DEF SendHeader
    <3> QED
      BY <3>1, <3>2 DEF SpecialResponse, bodyVars
  <2> QED
    BY <2>1, <2>2
<1>2. passed = <<>> /\ in = <<>> /\ out = <<>> /\ calls = response /\ seen = <<>>
  BY <1>1 DEF ResponseIInv, NothingEarly, WholeIInv, NothingInHand, Untouched
<1>3. calls' = response' /\ conn' # "finished"
  BY <1>1, <1>2
<1>4. Untouched' /\ NothingInHand' /\ FinishedIsComplete'
  BY <1>1, <1>2, <1>3 DEF Untouched, NothingInHand, FinishedIsComplete
<1>5. NothingLost'
  BY <1>1, <1>2, <1>3, UnitsOfNone DEF NothingLost
<1> QED
  BY <1>4, <1>5 DEF WholeIInv

\* A step that moves no content.
LEMMA StillWhole ==
  ASSUME WholeIInv, UNCHANGED <<response, calls, pc, in, out, pending, waiting, chunk, seen, passed>>,
         stage' \in {stage, "gone"}, conn' = conn, terminated => terminated'
  PROVE  WholeIInv'
<1>1. Untouched' /\ NothingInHand' /\ FinishedIsComplete'
  BY DEF WholeIInv, Untouched, NothingInHand, FinishedIsComplete
<1>2. NothingLost'
  BY DEF WholeIInv, NothingLost
<1> QED
  BY <1>1, <1>2 DEF WholeIInv

\* A request that ends with an error or is aborted owes nothing.
LEMMA EndWhole ==
  ASSUME ResponseIInv, WholeIInv, stage' = stage, NEW how \in {"error", "aborted", "crashed"},
         End(how), stage = "body" \/ UNCHANGED <<response, calls, seen>>
  PROVE  WholeIInv'
<1>1. Untouched' /\ NothingInHand' /\ NothingLost' /\ FinishedIsComplete'
  BY DEF End, WholeIInv, Untouched, NothingInHand, NothingLost, FinishedIsComplete
<1> QED
  BY <1>1 DEF WholeIInv

\* A chain comes: it is queued, or in the hands of process.
LEMMA HandlerWhole ==
  ASSUME ResponseIInv, WholeIInv, Handler, stage = "body", stage' = "body" PROVE WholeIInv'
<1>1. CASE conn' = "crashed"
  <2>1. End("crashed")
    BY <1>1 DEF Handler, Call, Process
  <2> QED
    BY <2>1, EndWhole
<1>2. CASE conn' # "crashed"
  <2>1. /\ calls \in Seq(Seq(Bufs)) /\ calls # <<>> /\ calls' = Tail(calls)
        /\ pending \in Seq(Bufs) /\ Head(calls) \in Seq(Bufs)
        /\ pc = "idle" /\ conn = "open" /\ conn' = "open" /\ in = <<>> /\ out = <<>>
        /\ ~terminated /\ UNCHANGED <<response, seen, passed, waiting, chunk>>
    BY <1>2, Split DEF Handler, Call, Process, End, ResponseIInv, ResponseTypeOK, TypeOK,
       WholeIInv, NothingInHand, threadVars
  <2>2. AllUnits(calls) \subseteq Units(Head(calls)) \cup AllUnits(Tail(calls))
    BY <2>1, ChainsSplit
  <2>3. NothingLost /\ Units(in) = {} /\ Units(out) = {}
    BY <2>1, UnitsOfNone DEF WholeIInv
  <2>4. Untouched' /\ FinishedIsComplete'
    BY <2>1 DEF Untouched, FinishedIsComplete
  <2>5. CASE waiting
    <3>1. pending' = pending \o Head(calls) /\ UNCHANGED <<pc, in, out>>
      BY <1>2, <2>1, <2>5 DEF Handler, Enqueue, End
    <3>2. Units(pending') = Units(pending) \cup Units(Head(calls))
      BY <2>1, <3>1, UnitsTogether
    <3>3. NothingLost'
      BY <2>1, <2>2, <2>3, <3>1, <3>2 DEF NothingLost
    <3> QED
      BY <2>1, <2>4, <3>1, <3>3 DEF WholeIInv, NothingInHand
  <2>6. CASE ~waiting
    <3>1. in' = Head(calls) /\ out' = <<>> /\ pc' = "process" /\ pending' = pending
      BY <2>6 DEF Handler, Process
    <3>2. NothingLost'
      BY <2>1, <2>2, <2>3, <3>1 DEF NothingLost
    <3> QED
      BY <2>4, <3>1, <3>2 DEF WholeIInv, NothingInHand
  <2> QED
    BY <2>5, <2>6
<1> QED
  BY <1>1, <1>2

\* A buffer in memory goes to the output, through the guest if it holds anything.
LEMMA MemoryWhole ==
  ASSUME ResponseIInv, WholeIInv, ProcessMemory, stage = "body", stage' = "body"
  PROVE  WholeIInv'
<1> DEFINE x == Head(in)
<1>1. /\ in \in Seq(Bufs) /\ out \in Seq(Bufs) /\ seen \in Seq(Bufs) /\ in # <<>> /\ x \in Bufs
      /\ ~x.file /\ pc = "process" /\ in' = Tail(in) /\ out' = Append(out, x)
      /\ UNCHANGED <<response, calls, pc, pending, waiting, chunk, passed, conn, terminated>>
  BY Split DEF ProcessMemory, ResponseIInv, ResponseTypeOK, TypeOK, queueVars, threadVars
<1>2. seen' = Append(seen, x) \/ (seen' = seen /\ IsEmpty(x) /\ ~x.last)
  BY DEF ProcessMemory, RunChunk
<1> HIDE DEF x
<1>3. Units(seen') = Units(seen) \cup UnitsOf(x)
  <2>1. CASE seen' = Append(seen, x)
    BY <1>1, <2>1, UnitsAppended
  <2>2. CASE seen' = seen /\ IsEmpty(x) /\ ~x.last
    <3>1. UnitsOf(x) = {}
      BY <1>1, <2>2, FileUnits
    <3> QED
      BY <2>2, <3>1
  <2> QED
    BY <1>2, <2>1, <2>2
<1>4. Units(in) = UnitsOf(x) \cup Units(in') /\ Units(out') = Units(out) \cup UnitsOf(x)
  BY <1>1, UnitsSplit, UnitsAppended DEF x
<1>5. NothingLost'
  BY <1>1, <1>3, <1>4 DEF WholeIInv, NothingLost
<1>6. Untouched' /\ NothingInHand' /\ FinishedIsComplete'
  BY <1>1 DEF Untouched, NothingInHand, FinishedIsComplete, ResponseIInv, OneAtWork
<1> QED
  BY <1>5, <1>6 DEF WholeIInv

\* A file: its first chunk is read, and the remainder is queued before what follows.
LEMMA FileWhole ==
  ASSUME ResponseIInv, WholeIInv, ProcessFile, stage = "body", stage' = "body"
  PROVE  WholeIInv'
<1>1. CASE End("crashed")
  BY <1>1, EndWhole
<1>2. CASE ~End("crashed")
  <2> DEFINE x == Head(in)
  <2>1. /\ in \in Seq(Bufs) /\ out \in Seq(Bufs) /\ passed \in Seq(Bufs) /\ pending \in Seq(Bufs)
        /\ in # <<>> /\ x \in Bufs /\ x.file /\ Tail(in) \in Seq(Bufs)
        /\ ~waiting /\ pc = "process" /\ conn = "open" /\ ~terminated
    BY Split DEF ProcessFile, ResponseIInv, ResponseTypeOK, TypeOK, OneAtWork
  <2>2. /\ passed' = passed \o out /\ in' = <<>> /\ out' = <<>> /\ pc' = "idle"
        /\ UNCHANGED <<response, calls, seen, conn, terminated>>
    BY <1>2 DEF ProcessFile, Pass
  <2>3. /\ IsEmpty(x) => pending' = pending \o Tail(in) /\ waiting' = waiting
        /\ ~IsEmpty(x) => /\ pending' = pending \o (<<Rest(x)>> \o Tail(in))
                          /\ waiting' = TRUE /\ chunk' = Chunk(x)
    BY <1>2 DEF ProcessFile, Schedule, Read, Enqueue, Chunk, Rest, threadVars
  <2> HIDE DEF x
  <2>4. Units(in) = UnitsOf(x) \cup Units(Tail(in)) /\ Units(passed') = Units(passed) \cup Units(out)
    BY <2>1, <2>2, UnitsSplit, UnitsTogether DEF x
  <2>5. Units(in') = {} /\ Units(out') = {}
    BY <2>2, UnitsOfNone
  <2>6. NothingLost
    BY DEF WholeIInv
  <2>7. NothingLost'
    <3>1. CASE IsEmpty(x)
      <4>1. Units(pending') = Units(pending) \cup Units(Tail(in)) /\ UnitsOf(x) = {}
        BY <2>1, <2>3, <3>1, UnitsTogether, FileUnits
      <4> QED
        BY <2>1, <2>2, <2>3, <2>4, <2>5, <2>6, <3>1, <4>1 DEF NothingLost
    <3>2. CASE ~IsEmpty(x)
      <4>1. Rest(x) \in Bufs /\ UnitsOf(x) \subseteq UnitsOf(Chunk(x)) \cup UnitsOf(Rest(x))
        BY <2>1, <3>2, FileUnits
      <4>2. <<Rest(x)>> \in Seq(Bufs) /\ Units(<<Rest(x)>>) = UnitsOf(Rest(x))
        BY <4>1, UnitsOfOne
      <4>3. <<Rest(x)>> \o Tail(in) \in Seq(Bufs)
            /\ Units(<<Rest(x)>> \o Tail(in)) = UnitsOf(Rest(x)) \cup Units(Tail(in))
        BY <2>1, <4>2, ConcatProperties, UnitsTogether
      <4>4. Units(pending') = Units(pending) \cup (UnitsOf(Rest(x)) \cup Units(Tail(in)))
        <5> DEFINE t == <<Rest(x)>> \o Tail(in)
        <5>1. t \in Seq(Bufs) /\ pending \in Seq(Bufs) /\ pending' = pending \o t
              /\ Units(t) = UnitsOf(Rest(x)) \cup Units(Tail(in))
          BY <2>1, <2>3, <3>2, <4>3
        <5> HIDE DEF t
        <5>2. Units(pending \o t) = Units(pending) \cup Units(t)
          BY <5>1, UnitsTogether
        <5> QED
          BY <5>1, <5>2
      <4> QED
        BY <2>1, <2>2, <2>3, <2>4, <2>5, <2>6, <3>2, <4>1, <4>4 DEF NothingLost
    <3> QED
      BY <3>1, <3>2
  <2>8. Untouched' /\ NothingInHand' /\ FinishedIsComplete'
    BY <2>1, <2>2 DEF Untouched, NothingInHand, FinishedIsComplete
  <2> QED
    BY <2>7, <2>8 DEF WholeIInv
<1> QED
  BY <1>1, <1>2

\* The end of a chain, and a chunk that has been read.
LEMMA EventWhole ==
  ASSUME ResponseIInv, WholeIInv, EndOfChain \/ ChunkCompletes, stage = "body", stage' = "body"
  PROVE  WholeIInv'
<1>1. /\ out \in Seq(Bufs) /\ passed \in Seq(Bufs) /\ seen \in Seq(Bufs) /\ chunk \in Bufs
      /\ OneAtWork /\ ThreadOwnsRequest /\ NothingLost /\ NothingInHand
  BY DEF ResponseIInv, ResponseTypeOK, TypeOK, WholeIInv
<1>2. CASE EndOfChain
  <2>1. /\ in = <<>> /\ in' = <<>> /\ out' = <<>> /\ passed' = passed \o out /\ conn = "open"
        /\ UNCHANGED <<response, calls, pending, waiting, chunk, seen, conn, terminated>>
    BY <1>1, <1>2 DEF EndOfChain, Pass, OneAtWork, queueVars, threadVars
  <2>2. Units(passed') = Units(passed) \cup Units(out) /\ Units(out') = {}
    BY <1>1, <2>1, UnitsTogether, UnitsOfNone
  <2>3. NothingLost'
    BY <1>1, <2>1, <2>2 DEF NothingLost
  <2> QED
    BY <2>1, <2>3 DEF WholeIInv, Untouched, NothingInHand, FinishedIsComplete
<1>3. CASE ChunkCompletes
  <2>1. /\ in = <<>> /\ out = <<>> /\ waiting /\ ~waiting' /\ conn = "open"
        /\ seen' = Append(seen, chunk) /\ out' = <<chunk>> /\ in' = pending /\ pending' = <<>>
        /\ pc' = "process"
        /\ UNCHANGED <<response, calls, passed, conn, terminated>>
    BY <1>1, <1>3 DEF ChunkCompletes, RunChunk, NothingInHand, ThreadOwnsRequest
  <2>2. /\ Units(seen') = Units(seen) \cup UnitsOf(chunk) /\ Units(out') = UnitsOf(chunk)
        /\ Units(pending') = {} /\ Units(in) = {} /\ Units(out) = {}
    BY <1>1, <2>1, UnitsAppended, UnitsOfOne, UnitsOfNone
  <2>3. NothingLost'
    BY <1>1, <2>1, <2>2 DEF NothingLost
  <2> QED
    BY <2>1, <2>3 DEF WholeIInv, Untouched, NothingInHand, FinishedIsComplete
<1> QED
  BY <1>2, <1>3

\* A request is finished when the flag says that nothing is held back.
LEMMA FinishWhole ==
  ASSUME ResponseIInv, WholeIInv, Finish, stage = "body", stage' = "body" PROVE WholeIInv'
<1>1. /\ pc = "idle" /\ conn = "open" /\ ~terminated /\ calls = <<>> /\ ~buffered
      /\ End("finished") /\ UNCHANGED <<response, calls, seen, passed>>
  BY DEF Finish
<1>2. ~waiting /\ pending = <<>> /\ in = <<>> /\ out = <<>>
  BY <1>1 DEF ResponseIInv, BufferedIsHonest, WholeIInv, NothingInHand
<1>3. AllUnits(response) \subseteq Units(passed) /\ Units(passed) \subseteq Units(seen)
  BY <1>1, <1>2, UnitsOfNone DEF WholeIInv, NothingLost
<1>4. FinishedIsComplete'
  BY <1>1, <1>3 DEF FinishedIsComplete
<1>5. Untouched' /\ NothingInHand' /\ NothingLost'
  BY <1>1 DEF End, Untouched, NothingInHand, NothingLost
<1> QED
  BY <1>4, <1>5 DEF WholeIInv

\* Every step together.
LEMMA WholeStep ==
  ASSUME ResponseIInv, WholeIInv, ResponseNext PROVE WholeIInv'
<1>1. CASE RunContent \/ SendHeader
  BY <1>1, EarlyWhole
<1>2. CASE BodyStep
  <2>1. stage = "body" /\ stage' = "body"
    BY <1>2 DEF BodyStep
  <2>2. CASE NoContext \/ ProcessFails \/ ChunkFails \/ TerminatedChunk
    <3>1. End("error") \/ End("aborted")
      BY <2>2 DEF NoContext, ProcessFails, ChunkFails, TerminatedChunk
    <3> QED
      BY <2>1, <3>1, EndWhole
  <2>3. CASE QueueFails
    <3>1. /\ terminated' /\ conn = "open" /\ pc = "idle"
          /\ UNCHANGED <<pc, in, out, conn>>
      BY <2>3 DEF QueueFails, Call
    <3> QED
      BY <2>1, <3>1 DEF WholeIInv, Untouched, NothingInHand, NothingLost, FinishedIsComplete
  <2> QED
    BY <1>2, <2>1, <2>2, <2>3, HandlerWhole, MemoryWhole, FileWhole, EventWhole, FinishWhole
    DEF BodyStep, Worker
<1>3. CASE FreeRequest
  <2>1. /\ UNCHANGED <<response, calls, bodyVars, conn>> /\ stage' = "gone"
    BY <1>3 DEF FreeRequest
  <2> QED
    BY <2>1, StillWhole DEF bodyVars, queueVars, threadVars
<1>4. CASE Environment
  <2>1. stage' = stage
    BY <1>4 DEF Environment, responseVars
  <2>2. CASE ThreadRead \/ TaskTimesOut
    BY <2>1, <2>2, StillWhole DEF ThreadRead, TaskTimesOut, queueVars
  <2>3. CASE Abort
    <3>1. CASE blocked = 0
      <4>1. End("aborted") /\ UNCHANGED <<response, calls, seen>>
        BY <2>3, <3>1 DEF Abort
      <4> QED
        BY <2>1, <4>1, EndWhole
    <3>2. CASE blocked # 0
      BY <2>1, <2>3, <3>2, StillWhole DEF Abort, queueVars, threadVars
    <3> QED
      BY <3>1, <3>2
  <2> QED
    BY <1>4, <2>2, <2>3 DEF Environment
<1>5. CASE Gone
  <2>1. UNCHANGED <<response, calls, pc, in, out, pending, waiting, chunk, seen, passed>>
        /\ UNCHANGED <<stage, conn, terminated>>
    BY <1>5 DEF Gone, allVars, vars, responseVars, queueVars, threadVars
  <2> QED
    BY <2>1, StillWhole
<1> QED
  BY <1>1, <1>2, <1>3, <1>4, <1>5 DEF ResponseNext, System

LEMMA InitWhole == ResponseInit => WholeIInv
  BY UnitsOfNone DEF ResponseInit, Init, WholeIInv, Untouched, NothingInHand, NothingLost,
     FinishedIsComplete

LEMMA NextWhole == ResponseIInv /\ WholeIInv /\ [ResponseNext]_allVars => WholeIInv'
<1> SUFFICES ASSUME ResponseIInv, WholeIInv, [ResponseNext]_allVars PROVE WholeIInv'
  OBVIOUS
<1>1. CASE UNCHANGED allVars
  <2>1. UNCHANGED <<response, calls, pc, in, out, pending, waiting, chunk, seen, passed>>
        /\ UNCHANGED <<stage, conn, terminated>>
    BY <1>1 DEF allVars, vars, responseVars, queueVars, threadVars
  <2> QED
    BY <2>1, StillWhole
<1> QED
  BY <1>1, WholeStep

\* Whatever the producer sends is with the next filter, in the filter's hands or its
\* queue, in a read, or still to come: no content is dropped, whichever chain is worked
\* on first.
THEOREM WholeIsKept == ResponseSpec => [](ResponseIInv /\ WholeIInv)
<1>1. ResponseInit => ResponseIInv /\ WholeIInv
  BY InitIInv, InitWhole
<1>2. ResponseIInv /\ WholeIInv /\ [ResponseNext]_allVars => (ResponseIInv /\ WholeIInv)'
  BY NextIInv, NextWhole
<1> QED
  BY <1>1, <1>2, PTL DEF ResponseSpec

\* A response that nginx finalizes without an error has reached the guest and the next
\* filter with every unit of its content and its end of file, for any response: with
\* any number of files, anywhere in it, and any number of chains behind them.
THEOREM FinishedIsWhole == ResponseSpec => []FinishedIsComplete
<1>1. WholeIInv => FinishedIsComplete
  BY DEF WholeIInv
<1> QED
  BY <1>1, WholeIsKept, PTL

-----------------------------------------------------------------------------
(* Buffers that take the content from one place to another.                *)

\* Where a buffer that fits leaves the content.
LEMMA AfterFits ==
  ASSUME NEW n \in Nat, NEW a \in 0..(n + 1), NEW x \in Bufs, Fits(n, a, x)
  PROVE  After(x) \in 0..(n + 1)
  BY DEF Fits, After, Bufs

\* No buffers take it nowhere.
LEMMA PieceEmpty ==
  ASSUME NEW n, NEW a, NEW b PROVE Piece(n, <<>>, a, b) <=> a = b
<1>1. Len(<<>>) + 1 = 1 /\ DOMAIN <<>> = {}
  OBVIOUS
<1>2. Before(<<>>, a, Len(<<>>) + 1) = a
  BY <1>1 DEF Before
<1> QED
  BY <1>1, <1>2 DEF Piece

\* One buffer.
LEMMA PieceSingle ==
  ASSUME NEW n, NEW a, NEW x \in Bufs, Fits(n, a, x)
  PROVE  Piece(n, <<x>>, a, After(x))
<1>1. Len(<<x>>) + 1 = 2 /\ DOMAIN <<x>> = {1} /\ <<x>>[1] = x
  OBVIOUS
<1>2. Before(<<x>>, a, 2) = After(x) /\ Before(<<x>>, a, 1) = a
  BY <1>1 DEF Before
<1> QED
  BY <1>1, <1>2 DEF Piece

\* What is before a place in a sequence that is put together.
LEMMA BeforeConcat ==
  ASSUME NEW s \in Seq(Bufs), NEW t \in Seq(Bufs), NEW a
  PROVE  /\ \A i \in 1..(Len(s) + 1) : Before(s \o t, a, i) = Before(s, a, i)
         /\ \A k \in 1..(Len(t) + 1) :
              Before(s \o t, a, Len(s) + k) = Before(t, Before(s, a, Len(s) + 1), k)
<1> DEFINE b == Before(s, a, Len(s) + 1)
<1>1. /\ Len(s) \in Nat /\ Len(t) \in Nat
      /\ \A i \in 1..Len(s) : (s \o t)[i] = s[i]
      /\ \A k \in 1..Len(t) : (s \o t)[Len(s) + k] = t[k]
  BY LenProperties, ConcatProperties
<1>2. ASSUME NEW i \in 1..(Len(s) + 1) PROVE Before(s \o t, a, i) = Before(s, a, i)
  <2>1. CASE i = 1
    BY <2>1 DEF Before
  <2>2. CASE i # 1
    <3>1. i - 1 \in 1..Len(s)
      BY <1>1, <2>2
    <3> QED
      BY <1>1, <2>2, <3>1 DEF Before
  <2> QED
    BY <2>1, <2>2
<1>3. ASSUME NEW k \in 1..(Len(t) + 1)
      PROVE  Before(s \o t, a, Len(s) + k) = Before(t, b, k)
  <2>1. CASE k = 1
    <3>1. Before(s \o t, a, Len(s) + 1) = b
      BY <1>1, <1>2
    <3> QED
      BY <2>1, <3>1 DEF Before
  <2>2. CASE k # 1
    <3>1. k - 1 \in 1..Len(t) /\ Len(s) + k # 1 /\ Len(s) + k - 1 = Len(s) + (k - 1)
      BY <1>1, <2>2
    <3>2. (s \o t)[Len(s) + k - 1] = t[k - 1]
      BY <1>1, <3>1
    <3> QED
      BY <2>2, <3>1, <3>2 DEF Before
  <2> QED
    BY <2>1, <2>2
<1> QED
  BY <1>2, <1>3

\* Sequences of buffers are put together in any order.
LEMMA Together ==
  ASSUME NEW s \in Seq(Bufs), NEW t \in Seq(Bufs), NEW u \in Seq(Bufs)
  PROVE  (s \o t) \o u = s \o (t \o u)
  BY ConcatAssociative

\* A buffer behind two of them is behind the second.
LEMMA AppendBehind ==
  ASSUME NEW s \in Seq(Bufs), NEW t \in Seq(Bufs), NEW x \in Bufs
  PROVE  s \o Append(t, x) = Append(s \o t, x)
<1>1. s \o t \in Seq(Bufs) /\ <<x>> \in Seq(Bufs)
  BY ConcatProperties
<1>2. Append(t, x) = t \o <<x>> /\ Append(s \o t, x) = (s \o t) \o <<x>>
  BY <1>1, AppendIsConcat
<1>3. (s \o t) \o <<x>> = s \o (t \o <<x>>)
  BY <1>1, Together
<1> QED
  BY <1>2, <1>3

\* Two pieces are one, and ...
LEMMA PieceConcat ==
  ASSUME NEW n, NEW s \in Seq(Bufs), NEW t \in Seq(Bufs), NEW a, NEW b, NEW c,
         Piece(n, s, a, b), Piece(n, t, b, c)
  PROVE  Piece(n, s \o t, a, c)
<1>1. /\ Len(s) \in Nat /\ Len(t) \in Nat /\ DOMAIN s = 1..Len(s) /\ DOMAIN t = 1..Len(t)
      /\ DOMAIN (s \o t) = 1..(Len(s) + Len(t)) /\ Len(s \o t) = Len(s) + Len(t)
      /\ \A i \in 1..Len(s) : (s \o t)[i] = s[i]
      /\ \A k \in 1..Len(t) : (s \o t)[Len(s) + k] = t[k]
  BY LenProperties, ConcatProperties
<1>2. b = Before(s, a, Len(s) + 1) /\ c = Before(t, b, Len(t) + 1)
  BY DEF Piece
<1>3. /\ \A i \in 1..(Len(s) + 1) : Before(s \o t, a, i) = Before(s, a, i)
      /\ \A k \in 1..(Len(t) + 1) : Before(s \o t, a, Len(s) + k) = Before(t, b, k)
  BY <1>2, BeforeConcat
<1>4. ASSUME NEW i \in 1..Len(s) PROVE Fits(n, Before(s \o t, a, i), (s \o t)[i])
  <2>1. i \in 1..(Len(s) + 1) /\ i \in DOMAIN s
    BY <1>1
  <2>2. Before(s \o t, a, i) = Before(s, a, i) /\ (s \o t)[i] = s[i]
    BY <1>1, <1>3, <2>1
  <2>3. Fits(n, Before(s, a, i), s[i])
    BY <2>1 DEF Piece
  <2> QED
    BY <2>2, <2>3
<1>5. ASSUME NEW k \in 1..Len(t)
      PROVE  Fits(n, Before(s \o t, a, Len(s) + k), (s \o t)[Len(s) + k])
  <2>1. k \in 1..(Len(t) + 1) /\ k \in DOMAIN t
    BY <1>1
  <2>2. Before(s \o t, a, Len(s) + k) = Before(t, b, k) /\ (s \o t)[Len(s) + k] = t[k]
    BY <1>1, <1>3, <2>1
  <2>3. Fits(n, Before(t, b, k), t[k])
    BY <2>1 DEF Piece
  <2> QED
    BY <2>2, <2>3
<1>6. ASSUME NEW i \in 1..(Len(s) + Len(t)) PROVE Fits(n, Before(s \o t, a, i), (s \o t)[i])
  <2>1. CASE i \in 1..Len(s)
    BY <1>4, <2>1
  <2>2. CASE i \notin 1..Len(s)
    <3>1. i - Len(s) \in 1..Len(t) /\ Len(s) + (i - Len(s)) = i
      BY <1>1, <2>2
    <3> QED
      BY <1>5, <3>1
  <2> QED
    BY <2>1, <2>2
<1>7. Before(s \o t, a, Len(s \o t) + 1) = c
  <2>1. Len(t) + 1 \in 1..(Len(t) + 1) /\ Len(s) + (Len(t) + 1) = Len(s \o t) + 1
    BY <1>1
  <2> QED
    BY <1>2, <1>3, <2>1
<1> QED
  BY <1>1, <1>6, <1>7 DEF Piece

\* ... the first part of one is one.
LEMMA PiecePrefix ==
  ASSUME NEW n, NEW s \in Seq(Bufs), NEW t \in Seq(Bufs), NEW a, NEW c,
         Piece(n, s \o t, a, c)
  PROVE  \A i \in DOMAIN s : Fits(n, Before(s, a, i), s[i])
<1>1. /\ Len(s) \in Nat /\ Len(t) \in Nat /\ DOMAIN s = 1..Len(s)
      /\ DOMAIN (s \o t) = 1..(Len(s) + Len(t))
      /\ \A i \in 1..Len(s) : (s \o t)[i] = s[i]
  BY LenProperties, ConcatProperties
<1>2. /\ \A i \in 1..(Len(s) + 1) : Before(s \o t, a, i) = Before(s, a, i)
      /\ \A k \in 1..(Len(t) + 1) :
           Before(s \o t, a, Len(s) + k) = Before(t, Before(s, a, Len(s) + 1), k)
  BY BeforeConcat
<1> QED
  BY <1>1, <1>2 DEF Piece

\* One more buffer.
LEMMA PieceAppend ==
  ASSUME NEW n, NEW s \in Seq(Bufs), NEW x \in Bufs, NEW a, NEW b,
         Piece(n, s, a, b), Fits(n, b, x)
  PROVE  Piece(n, Append(s, x), a, After(x))
<1>1. <<x>> \in Seq(Bufs) /\ Append(s, x) = s \o <<x>>
  BY AppendIsConcat
<1>2. Piece(n, <<x>>, b, After(x))
  BY PieceSingle
<1> QED
  BY <1>1, <1>2, PieceConcat

\* The first buffer, and the others after it.
LEMMA PieceHead ==
  ASSUME NEW n, NEW s \in Seq(Bufs), s # <<>>, NEW a, NEW b, Piece(n, s, a, b)
  PROVE  Fits(n, a, Head(s)) /\ Piece(n, Tail(s), After(Head(s)), b)
<1> DEFINE t == Tail(s)
<1>1. /\ Head(s) = s[1] /\ 1 \in DOMAIN s /\ t \in Seq(Bufs)
      /\ \A i \in DOMAIN t : i + 1 \in DOMAIN s /\ t[i] = s[i + 1]
      /\ Len(t) = Len(s) - 1 /\ Len(s) \in Nat /\ Len(t) \in Nat
      /\ DOMAIN s = 1..Len(s) /\ DOMAIN t = 1..Len(t)
  BY Split, HeadTailProperties, LenProperties
<1> HIDE DEF t
<1>2. Fits(n, a, s[1])
  <2>1. Before(s, a, 1) = a
    BY DEF Before
  <2> QED
    BY <1>1, <2>1 DEF Piece
<1>3. ASSUME NEW i \in 1..(Len(t) + 1) PROVE Before(t, After(s[1]), i) = Before(s, a, i + 1)
  <2>1. i + 1 # 1 /\ (i + 1) - 1 = i
    OBVIOUS
  <2>2. CASE i = 1
    BY <2>1, <2>2 DEF Before
  <2>3. CASE i # 1
    <3>1. i - 1 \in 1..Len(t) /\ (i - 1) + 1 = i
      BY <1>1, <2>3
    <3>2. t[i - 1] = s[i]
      BY <1>1, <3>1
    <3> QED
      BY <2>1, <2>3, <3>2 DEF Before
  <2> QED
    BY <2>2, <2>3
<1>4. ASSUME NEW i \in DOMAIN t PROVE Fits(n, Before(t, After(s[1]), i), t[i])
  <2>1. i \in 1..(Len(t) + 1) /\ i + 1 \in DOMAIN s /\ t[i] = s[i + 1]
    BY <1>1
  <2> QED
    BY <1>3, <2>1 DEF Piece
<1>5. Before(t, After(s[1]), Len(t) + 1) = b
  <2>1. Len(t) + 1 \in 1..(Len(t) + 1) /\ (Len(t) + 1) + 1 = Len(s) + 1
    BY <1>1
  <2>2. b = Before(s, a, Len(s) + 1)
    BY DEF Piece
  <2> QED
    BY <1>3, <2>1, <2>2
<1>6. Piece(n, t, After(s[1]), b)
  BY <1>4, <1>5 DEF Piece
<1> QED
  BY <1>1, <1>2, <1>6 DEF t

-----------------------------------------------------------------------------
(* Chains, files, and the content as a whole.                              *)

\* No chains take the content nowhere; the first of some takes it on.
LEMMA StreamEmpty ==
  ASSUME NEW n, NEW a, NEW b, Stream(n, <<>>, a, b) PROVE a = b
<1>1. Len(<<>>) = 0
  OBVIOUS
<1> QED
  BY <1>1 DEF Stream

LEMMA StreamHead ==
  ASSUME NEW n \in Nat, NEW chains \in Seq(Seq(Bufs)), chains # <<>>, NEW a, NEW b,
         Stream(n, chains, a, b)
  PROVE  \E m \in 0..(n + 1) : Piece(n, Head(chains), a, m) /\ Stream(n, Tail(chains), m, b)
<1> DEFINE t == Tail(chains)
<1>1. /\ Head(chains) = chains[1] /\ 1 \in DOMAIN chains
      /\ \A i \in DOMAIN t : i + 1 \in DOMAIN chains /\ t[i] = chains[i + 1]
      /\ Len(t) = Len(chains) - 1 /\ Len(chains) \in Nat /\ Len(t) \in Nat
      /\ DOMAIN t = 1..Len(t)
  BY Split, HeadTailProperties, LenProperties
<1> HIDE DEF t
<1>2. PICK at \in [0..Len(chains) -> 0..(n + 1)] :
        /\ at[0] = a /\ at[Len(chains)] = b
        /\ \A i \in DOMAIN chains : Piece(n, chains[i], at[i - 1], at[i])
  BY DEF Stream
<1> DEFINE late == [i \in 0..Len(t) |-> at[i + 1]]
<1>3. /\ late \in [0..Len(t) -> 0..(n + 1)]
      /\ late[0] = at[1] /\ late[Len(t)] = b /\ at[1] \in 0..(n + 1)
  <2>1. \A i \in 0..Len(t) : i + 1 \in 0..Len(chains)
    BY <1>1
  <2>2. 0 \in 0..Len(t) /\ Len(t) \in 0..Len(t) /\ Len(t) + 1 = Len(chains) /\ 0 + 1 = 1
    BY <1>1
  <2> QED
    BY <1>2, <2>1, <2>2
<1>4. ASSUME NEW i \in DOMAIN t PROVE Piece(n, t[i], late[i - 1], late[i])
  <2>1. /\ i \in 0..Len(t) /\ i - 1 \in 0..Len(t) /\ (i - 1) + 1 = i /\ (i + 1) - 1 = i
        /\ i + 1 \in DOMAIN chains /\ t[i] = chains[i + 1]
    BY <1>1
  <2>2. late[i] = at[i + 1] /\ late[i - 1] = at[i]
    BY <2>1
  <2>3. Piece(n, chains[i + 1], at[i], at[i + 1])
    BY <1>2, <2>1
  <2> QED
    BY <2>1, <2>2, <2>3
<1>5. Stream(n, t, at[1], b)
  <2> HIDE DEF late
  <2> QED
    BY <1>3, <1>4 DEF Stream
<1>6. Piece(n, chains[1], a, at[1])
  <2>1. 1 - 1 = 0
    OBVIOUS
  <2> QED
    BY <1>1, <1>2, <2>1
<1> QED
  BY <1>1, <1>3, <1>5, <1>6 DEF t

\* A sequence with an element in front.
LEMMA InFront ==
  ASSUME NEW x \in Bufs, NEW s \in Seq(Bufs)
  PROVE  /\ <<x>> \o s \in Seq(Bufs) /\ <<x>> \o s # <<>>
         /\ Head(<<x>> \o s) = x /\ Tail(<<x>> \o s) = s
         /\ Len(<<x>> \o s) = Len(s) + 1 /\ (<<x>> \o s)[1] = x
         /\ \A j \in DOMAIN (<<x>> \o s) : j > 1 => j - 1 \in DOMAIN s /\ (<<x>> \o s)[j] = s[j - 1]
<1> DEFINE u == <<x>> \o s
<1>1. <<x>> \in Seq(Bufs) /\ Len(<<x>>) = 1 /\ <<x>>[1] = x
  OBVIOUS
<1>2. /\ u \in Seq(Bufs) /\ Len(u) = Len(s) + 1 /\ Len(s) \in Nat
      /\ \A i \in 1..Len(<<x>>) : u[i] = <<x>>[i]
      /\ \A i \in 1..Len(s) : u[Len(<<x>>) + i] = s[i]
      /\ DOMAIN u = 1..Len(u) /\ DOMAIN s = 1..Len(s)
  BY <1>1, ConcatProperties, LenProperties
<1> HIDE DEF u
<1>3. u[1] = x /\ \A i \in 1..Len(s) : u[1 + i] = s[i]
  BY <1>1, <1>2
<1>4. u # <<>>
  BY <1>2, EmptySeq
<1>5. /\ Head(u) = u[1] /\ Tail(u) \in Seq(Bufs) /\ Len(Tail(u)) = Len(u) - 1
      /\ \A i \in 1..Len(Tail(u)) : Tail(u)[i] = u[i + 1]
  BY <1>2, <1>4, HeadTailProperties
<1>6. Tail(u) = s
  <2>1. Len(Tail(u)) = Len(s) /\ \A i \in 1..Len(s) : Tail(u)[i] = s[i]
    BY <1>2, <1>3, <1>5
  <2> QED
    BY <1>5, <2>1, SeqEqual
<1>7. \A j \in DOMAIN u : j > 1 => j - 1 \in DOMAIN s /\ u[j] = s[j - 1]
  BY <1>2, <1>3
<1> QED
  BY <1>2, <1>3, <1>4, <1>5, <1>6, <1>7 DEF u

\* A chunk, and behind it the remainder if it is not empty, take the place of the
\* file; the end of file goes with the last chunk.
LEMMA FileSplits ==
  ASSUME NEW n \in Nat, NEW a \in 0..(n + 1), NEW f \in Bufs, f.file, ~IsEmpty(f), Fits(n, a, f)
  PROVE  /\ Chunk(f) \in Bufs /\ Rest(f) \in Bufs /\ Rest(f).file /\ ~Chunk(f).file
         /\ Fits(n, a, Chunk(f)) /\ After(Chunk(f)) \in 0..(n + 1)
         /\ IsEmpty(Rest(f)) => After(Chunk(f)) = After(f)
         /\ ~IsEmpty(Rest(f)) => Fits(n, After(Chunk(f)), Rest(f)) /\ After(Rest(f)) = After(f)
<1> DEFINE size == SizeOfChunk(f)
           last == f.last /\ f.from + size > f.to
<1>1. /\ f.from \in Nat /\ f.to \in Nat /\ f.last \in BOOLEAN /\ f.from <= f.to
  BY DEF Bufs, IsEmpty
<1>2. f.from = a + 1 /\ f.to <= n /\ (f.last => f.to = n)
  BY DEF Fits
<1>3. size \in Nat \ {0} /\ Chunk(f) \in Bufs /\ Rest(f) \in Bufs
  <2>1. last \in BOOLEAN
    BY <1>1
  <2> QED
    BY <2>1, ChunkType DEF Chunk, Rest
<1>4. size <= f.to - f.from + 1
  BY <1>1, BodyFilterAssumption DEF SizeOfChunk
<1>5. /\ Chunk(f).from = f.from /\ Chunk(f).to = f.from + size - 1
      /\ Chunk(f).file = FALSE /\ Chunk(f).last = last
  BY DEF Chunk, Buf
<1>6. /\ Rest(f).from = f.from + size /\ Rest(f).to = f.to
      /\ Rest(f).file = f.file /\ Rest(f).last = f.last
  BY DEF Rest, Remainder, Bufs
<1> HIDE DEF size
<1>7. IsEmpty(Rest(f)) <=> f.from + size > f.to
  BY <1>6 DEF IsEmpty
<1>8. CASE f.from + size > f.to
  <2>1. f.from + size - 1 = f.to /\ last = f.last
    BY <1>1, <1>3, <1>4, <1>8
  <2>2. Fits(n, a, Chunk(f)) /\ After(Chunk(f)) = After(f)
    BY <1>1, <1>2, <1>5, <2>1 DEF Fits, After
  <2> QED
    BY <1>3, <1>5, <1>6, <1>7, <1>8, <2>2, AfterFits
<1>9. CASE ~(f.from + size > f.to)
  <2>1. ~last
    BY <1>9
  <2>2. Fits(n, a, Chunk(f)) /\ After(Chunk(f)) = f.from + size - 1
    <3>1. f.from <= (f.from + size - 1) + 1 /\ f.from + size - 1 <= n
      BY <1>1, <1>2, <1>3, <1>9
    <3>2. Chunk(f).last = FALSE
      BY <1>1, <1>5, <2>1
    <3> QED
      BY <1>2, <1>5, <3>1, <3>2 DEF Fits, After
  <2>3. Fits(n, f.from + size - 1, Rest(f)) /\ After(Rest(f)) = After(f)
    BY <1>1, <1>2, <1>3, <1>6, <1>9 DEF Fits, After
  <2> QED
    BY <1>3, <1>5, <1>6, <1>7, <1>9, <2>2, <2>3, AfterFits
<1> QED
  BY <1>8, <1>9

\* A file in front of others is replaced so.
LEMMA PieceFile ==
  ASSUME NEW n \in Nat, NEW a \in 0..(n + 1), NEW f \in Bufs, f.file, ~IsEmpty(f),
         NEW s \in Seq(Bufs), NEW b, Fits(n, a, f), Piece(n, s, After(f), b)
  PROVE  Piece(n, <<Chunk(f)>> \o Live(<<Rest(f)>> \o s), a, b)
<1>1. /\ Chunk(f) \in Bufs /\ Rest(f) \in Bufs /\ Rest(f).file
      /\ Fits(n, a, Chunk(f)) /\ After(Chunk(f)) \in 0..(n + 1)
      /\ IsEmpty(Rest(f)) => After(Chunk(f)) = After(f)
      /\ ~IsEmpty(Rest(f)) => Fits(n, After(Chunk(f)), Rest(f)) /\ After(Rest(f)) = After(f)
  BY FileSplits
<1>2. /\ <<Rest(f)>> \o s \in Seq(Bufs) /\ <<Rest(f)>> \o s # <<>>
      /\ Head(<<Rest(f)>> \o s) = Rest(f) /\ Tail(<<Rest(f)>> \o s) = s
  <2>1. Rest(f) \in Bufs
    BY <1>1
  <2> QED
    BY <2>1, InFront
<1>3. <<Chunk(f)>> \in Seq(Bufs) /\ <<Rest(f)>> \in Seq(Bufs)
  BY <1>1
<1>4. Piece(n, <<Chunk(f)>>, a, After(Chunk(f)))
  BY <1>1, PieceSingle
<1>5. CASE IsEmpty(Rest(f))
  <2>1. Live(<<Rest(f)>> \o s) = s
    BY <1>1, <1>2, <1>5 DEF Live
  <2> QED
    BY <1>1, <1>3, <1>4, <1>5, <2>1, PieceConcat
<1>6. CASE ~IsEmpty(Rest(f))
  <2>1. Live(<<Rest(f)>> \o s) = <<Rest(f)>> \o s
    BY <1>1, <1>2, <1>6 DEF Live
  <2>2. Piece(n, <<Rest(f)>>, After(Chunk(f)), After(f))
    BY <1>1, <1>6, PieceSingle
  <2>3. Piece(n, <<Rest(f)>> \o s, After(Chunk(f)), b)
    BY <1>3, <2>2, PieceConcat
  <2> QED
    BY <1>2, <1>3, <1>4, <2>1, <2>3, PieceConcat
<1> QED
  BY <1>5, <1>6

-----------------------------------------------------------------------------
(* How the content flows.                                                  *)

\* A response that begins.
LEMMA FlowBegins ==
  ASSUME NEW chains, Orderly(chains)
  PROVE  Flow(Total(chains), <<>>, <<>>, <<>>, chains)
<1>1. Total(chains) \in Nat /\ Stream(Total(chains), chains, 0, Total(chains) + 1)
  BY DEF Orderly
<1>2. 0 \in 0..(Total(chains) + 1)
  BY <1>1
<1>3. Piece(Total(chains), <<>>, 0, 0)
  BY PieceEmpty
<1> QED
  BY <1>1, <1>2, <1>3 DEF Flow

\* The next chain comes behind what is coming.
LEMMA FlowChain ==
  ASSUME NEW n \in Nat, NEW got, NEW run, NEW coming \in Seq(Bufs),
         NEW chains \in Seq(Seq(Bufs)), chains # <<>>, Flow(n, got, run, coming, chains)
  PROVE  Flow(n, got, run, coming \o Head(chains), Tail(chains))
<1>1. PICK p \in 0..(n + 1), q \in 0..(n + 1) :
        /\ Piece(n, got, 0, p) /\ Piece(n, run, 0, p)
        /\ Piece(n, coming, p, q) /\ Stream(n, chains, q, n + 1)
  BY DEF Flow
<1>2. PICK m \in 0..(n + 1) :
        Piece(n, Head(chains), q, m) /\ Stream(n, Tail(chains), m, n + 1)
  BY <1>1, StreamHead
<1>3. Head(chains) \in Seq(Bufs)
  BY Split
<1>4. Piece(n, coming \o Head(chains), p, m)
  BY <1>1, <1>2, <1>3, PieceConcat
<1> QED
  BY <1>1, <1>2, <1>4 DEF Flow

\* The first buffer that comes goes on; the guest need not see one with nothing in it.
LEMMA FlowHead ==
  ASSUME NEW n \in Nat, NEW got \in Seq(Bufs), NEW run \in Seq(Bufs),
         NEW coming \in Seq(Bufs), coming # <<>>, NEW chains,
         Flow(n, got, run, coming, chains)
  PROVE  /\ Flow(n, Append(got, Head(coming)), Append(run, Head(coming)), Tail(coming), chains)
         /\ IsEmpty(Head(coming)) /\ ~Head(coming).last =>
              Flow(n, Append(got, Head(coming)), run, Tail(coming), chains)
<1> DEFINE x == Head(coming)
<1>1. PICK p \in 0..(n + 1), q \in 0..(n + 1) :
        /\ Piece(n, got, 0, p) /\ Piece(n, run, 0, p)
        /\ Piece(n, coming, p, q) /\ Stream(n, chains, q, n + 1)
  BY DEF Flow
<1>2. x \in Bufs
  BY Split
<1> HIDE DEF x
<1>3. Fits(n, p, x) /\ Piece(n, Tail(coming), After(x), q)
  BY <1>1, PieceHead DEF x
<1>4. After(x) \in 0..(n + 1)
  BY <1>2, <1>3, AfterFits
<1>5. Piece(n, Append(got, x), 0, After(x)) /\ Piece(n, Append(run, x), 0, After(x))
  BY <1>1, <1>2, <1>3, PieceAppend
<1>6. IsEmpty(x) /\ ~x.last => After(x) = p
  BY <1>2, <1>3 DEF IsEmpty, Fits, After, Bufs
<1> QED
  BY <1>1, <1>3, <1>4, <1>5, <1>6 DEF Flow, x

\* A file is read a chunk at a time.
LEMMA FlowFile ==
  ASSUME NEW n \in Nat, NEW got, NEW run,
         NEW coming \in Seq(Bufs), coming # <<>>, NEW chains,
         Head(coming).file, ~IsEmpty(Head(coming)),
         Flow(n, got, run, coming, chains)
  PROVE  Flow(n, got, run,
              <<Chunk(Head(coming))>> \o Live(<<Rest(Head(coming))>> \o Tail(coming)), chains)
<1> DEFINE x == Head(coming)
<1>1. PICK p \in 0..(n + 1), q \in 0..(n + 1) :
        /\ Piece(n, got, 0, p) /\ Piece(n, run, 0, p)
        /\ Piece(n, coming, p, q) /\ Stream(n, chains, q, n + 1)
  BY DEF Flow
<1>2. x \in Bufs /\ Tail(coming) \in Seq(Bufs)
  BY Split
<1>3. Fits(n, p, x) /\ Piece(n, Tail(coming), After(x), q)
  BY <1>1, PieceHead
<1>4. Piece(n, <<Chunk(x)>> \o Live(<<Rest(x)>> \o Tail(coming)), p, q)
  BY <1>2, <1>3, PieceFile
<1> QED
  BY <1>1, <1>4 DEF Flow

\* What flows has come in order.
LEMMA FlowInOrder ==
  ASSUME NEW n, NEW got \in Seq(Bufs), NEW more \in Seq(Bufs), NEW run,
         NEW coming, NEW chains, Flow(n, got \o more, run, coming, chains)
  PROVE  /\ \A i \in DOMAIN got : Fits(n, Before(got, 0, i), got[i])
         /\ \A i \in DOMAIN (got \o more) :
              Fits(n, Before(got \o more, 0, i), (got \o more)[i])
         /\ \A i \in DOMAIN run : Fits(n, Before(run, 0, i), run[i])
<1>1. PICK p : Piece(n, got \o more, 0, p) /\ Piece(n, run, 0, p)
  BY DEF Flow
<1>2. \A i \in DOMAIN got : Fits(n, Before(got, 0, i), got[i])
  BY <1>1, PiecePrefix
<1> QED
  BY <1>1, <1>2 DEF Piece

-----------------------------------------------------------------------------
(* What is queued, and what comes.                                         *)

\* Only the remainder of a file that has nothing left is not live.
LEMMA LiveIs ==
  ASSUME NEW s \in Seq(Bufs), s # <<>> /\ s[1].file => ~IsEmpty(s[1])
  PROVE  Live(s) = s
  BY Split DEF Live

\* What is queued behind others is live when they are.
LEMMA LiveConcat ==
  ASSUME NEW s \in Seq(Bufs), s # <<>>, NEW t \in Seq(Bufs)
  PROVE  Live(s) \in Seq(Bufs) /\ Live(s \o t) = Live(s) \o t
<1>1. /\ Head(s) \in Bufs /\ Tail(s) \in Seq(Bufs) /\ s = <<Head(s)>> \o Tail(s)
  <2>1. Head(s) \in Bufs /\ Tail(s) \in Seq(Bufs)
    BY Split
  <2>2. s = <<Head(s)>> \o Tail(s)
    <3>1. /\ <<Head(s)>> \o Tail(s) \in Seq(Bufs)
          /\ Len(<<Head(s)>> \o Tail(s)) = Len(Tail(s)) + 1
          /\ (<<Head(s)>> \o Tail(s))[1] = Head(s)
          /\ \A j \in DOMAIN (<<Head(s)>> \o Tail(s)) : j > 1 =>
               j - 1 \in DOMAIN Tail(s) /\ (<<Head(s)>> \o Tail(s))[j] = Tail(s)[j - 1]
      BY <2>1, InFront
    <3>2. /\ Len(Tail(s)) = Len(s) - 1 /\ Len(s) \in Nat /\ Head(s) = s[1]
          /\ \A i \in 1..Len(Tail(s)) : Tail(s)[i] = s[i + 1]
          /\ DOMAIN Tail(s) = 1..Len(Tail(s))
      BY <2>1, HeadTailProperties, LenProperties
    <3> DEFINE u == <<Head(s)>> \o Tail(s)
               t1 == Tail(s)
    <3>3. DOMAIN u = 1..Len(u)
      BY <3>1, LenProperties
    <3> HIDE DEF u, t1
    <3>4. Len(u) = Len(s)
      BY <3>1, <3>2 DEF u
    <3>5. \A j \in 1..Len(s) : u[j] = s[j]
      <4> SUFFICES ASSUME NEW j \in 1..Len(s) PROVE u[j] = s[j]
        OBVIOUS
      <4>1. CASE j = 1
        BY <3>1, <3>2, <4>1 DEF u
      <4>2. CASE j # 1
        <5>1. j > 1 /\ j - 1 \in 1..(Len(s) - 1) /\ (j - 1) + 1 = j /\ j \in DOMAIN u
          BY <3>2, <3>3, <3>4, <4>2
        <5>2. u[j] = t1[j - 1]
          BY <3>1, <5>1 DEF u, t1
        <5>3. t1[j - 1] = s[j]
          BY <3>2, <5>1 DEF t1
        <5> QED
          BY <5>2, <5>3
      <4> QED
        BY <4>1, <4>2
    <3>6. u = s
      <4>1. u \in Seq(Bufs)
        BY <3>1 DEF u
      <4> QED
        BY <3>4, <3>5, <4>1, SeqEqual
    <3> QED
      BY <3>6 DEF u
  <2> QED
    BY <2>1, <2>2
<1>2. /\ <<Head(s)>> \in Seq(Bufs) /\ Tail(s) \o t \in Seq(Bufs)
      /\ s \o t = <<Head(s)>> \o (Tail(s) \o t)
  BY <1>1, ConcatProperties, Together
<1>3. s \o t # <<>> /\ Head(s \o t) = Head(s) /\ Tail(s \o t) = Tail(s) \o t
  BY <1>1, <1>2, InFront
<1> QED
  BY <1>1, <1>3 DEF Live

\* What comes, and what is in the filter's hands, are sequences of buffers.
LEMMA ComingType ==
  ASSUME TypeOK
  PROVE  /\ Coming \in Seq(Bufs) /\ passed \in Seq(Bufs) /\ out \in Seq(Bufs)
         /\ seen \in Seq(Bufs) /\ passed \o out \in Seq(Bufs)
         /\ in \in Seq(Bufs) /\ pending \in Seq(Bufs) /\ calls \in Seq(Seq(Bufs))
         /\ chunk \in Bufs
<1>1. ASSUME NEW s \in Seq(Bufs) PROVE Live(s) \in Seq(Bufs)
  BY <1>1, Split DEF Live
<1>2. Live(in) \in Seq(Bufs) /\ Live(pending) \in Seq(Bufs) /\ <<chunk>> \in Seq(Bufs)
  BY <1>1 DEF TypeOK
<1>3. <<chunk>> \o Live(pending) \in Seq(Bufs) /\ passed \o out \in Seq(Bufs)
  BY <1>2, ConcatProperties DEF TypeOK
<1> QED
  BY <1>2, <1>3 DEF TypeOK, Coming

-----------------------------------------------------------------------------
(* The steps.                                                              *)

\* What every step keeps.
Content == Flows /\ BodyInOrder

\* A step that leaves the content alone.
LEMMA StillStep ==
  ASSUME Content, terminated => terminated',
         UNCHANGED <<response, calls, pc, in, out, pending, waiting, chunk, seen, passed, conn,
                     overtaken>>
  PROVE  Content'
<1>1. Flows'
  BY DEF Content, Flows, Coming, OneRemainder
<1>2. BodyInOrder'
  BY DEF Content, BodyInOrder, InOrder
<1> QED
  BY <1>1, <1>2 DEF Content

\* The content flows on.
LEMMA FlowsOn ==
  ASSUME TypeOK', OneRemainder', pc' = "process" => pending' = <<>>,
         Flow(Total(response)', passed' \o out', seen', Coming', calls')
  PROVE  Content'
<1>1. passed' \in Seq(Bufs) /\ out' \in Seq(Bufs)
  BY DEF TypeOK
<1>2. /\ \A i \in DOMAIN passed' : Fits(Total(response)', Before(passed', 0, i), passed'[i])
      /\ \A i \in DOMAIN seen' : Fits(Total(response)', Before(seen', 0, i), seen'[i])
  BY <1>1, FlowInOrder
<1>3. BodyInOrder'
  BY <1>2 DEF BodyInOrder, InOrder
<1>4. Flows'
  BY DEF Flows
<1> QED
  BY <1>3, <1>4 DEF Content

\* The request ends, or waits for its thread with nothing else to do; what was ready has
\* gone on or not.
LEMMA EndStep ==
  ASSUME TypeOK, Content, conn' # "open" \/ terminated',
         UNCHANGED <<response, seen, overtaken>>,
         passed' = passed \/ (conn = "open" /\ ~terminated /\ passed' = passed \o out)
  PROVE  Content'
<1>1. CASE passed' = passed
  BY <1>1 DEF Content, Flows, BodyInOrder, InOrder
<1>2. CASE conn = "open" /\ ~terminated /\ passed' = passed \o out
  <2>1. passed \in Seq(Bufs) /\ out \in Seq(Bufs)
    BY DEF TypeOK
  <2>2. CASE overtaken
    BY <2>2 DEF Flows, BodyInOrder, Content
  <2>3. CASE ~overtaken
    <3>1. Flow(Total(response), passed \o out, seen, Coming, calls)
      BY <1>2, <2>3 DEF Content, Flows
    <3>2. /\ \A i \in DOMAIN (passed \o out) :
               Fits(Total(response), Before(passed \o out, 0, i), (passed \o out)[i])
          /\ \A i \in DOMAIN seen : Fits(Total(response), Before(seen, 0, i), seen[i])
      BY <2>1, <3>1, FlowInOrder
    <3>3. BodyInOrder'
      BY <1>2, <3>2 DEF BodyInOrder, InOrder
    <3> QED
      BY <3>3 DEF Flows, Content
  <2> QED
    BY <2>2, <2>3
<1> QED
  BY <1>1, <1>2

\* Once a chain has gone past another nothing is claimed.
LEMMA OvertakenStep ==
  ASSUME overtaken' PROVE Content'
  BY DEF Content, Flows, BodyInOrder

\* Behind the remainder of a file, what is queued has something in it.
LEMMA RemainderFirst ==
  ASSUME NEW s \in Seq(Bufs), s # <<>>, NEW t \in Seq(Bufs),
         \A j \in DOMAIN s : j > 1 /\ s[j].file => ~IsEmpty(s[j]),
         \A j \in DOMAIN t : t[j].file => ~IsEmpty(t[j])
  PROVE  /\ s \o t # <<>> /\ (s \o t)[1] = s[1]
         /\ \A j \in DOMAIN (s \o t) : j > 1 /\ (s \o t)[j].file => ~IsEmpty((s \o t)[j])
<1> DEFINE u == s \o t
<1>1. /\ Len(s) \in Nat /\ Len(t) \in Nat /\ DOMAIN s = 1..Len(s) /\ DOMAIN t = 1..Len(t)
      /\ u \in Seq(Bufs) /\ Len(u) = Len(s) + Len(t) /\ DOMAIN u = 1..(Len(s) + Len(t))
      /\ \A i \in 1..Len(s) : u[i] = s[i]
      /\ \A k \in 1..Len(t) : u[Len(s) + k] = t[k]
  BY LenProperties, ConcatProperties
<1>2. Len(s) # 0
  BY EmptySeq
<1> HIDE DEF u
<1>3. u # <<>> /\ u[1] = s[1]
  <2>1. Len(u) # 0 /\ 1 \in 1..Len(s)
    BY <1>1, <1>2
  <2> QED
    BY <1>1, <2>1, EmptySeq
<1>4. ASSUME NEW j \in DOMAIN u, j > 1, u[j].file PROVE ~IsEmpty(u[j])
  <2>1. CASE j \in 1..Len(s)
    BY <1>1, <1>4, <2>1
  <2>2. CASE j \notin 1..Len(s)
    <3>1. j - Len(s) \in 1..Len(t) /\ Len(s) + (j - Len(s)) = j
      BY <1>1, <1>4, <2>2
    <3> QED
      BY <1>1, <1>4, <3>1
  <2> QED
    BY <2>1, <2>2
<1> QED
  BY <1>3, <1>4 DEF u

\* A chain comes: behind a read it is queued; else it is worked on, and nothing lies
\* in the queue.
LEMMA HandlerStep ==
  ASSUME TypeOK, TypeOK', FilesHaveContent, NothingInHand, Content, Total(response) \in Nat,
         Handler
  PROVE  Content'
<1> DEFINE n == Total(response)
<1> USE DEF Handler, Call, Process
<1>1. /\ pc = "idle" /\ conn = "open" /\ ~terminated /\ calls # <<>> /\ calls' = Tail(calls)
      /\ in = <<>> /\ out = <<>> /\ UNCHANGED <<response, seen, passed, waiting, chunk>>
  BY DEF NothingInHand, threadVars
<1>2. /\ passed \in Seq(Bufs) /\ Coming \in Seq(Bufs) /\ pending \in Seq(Bufs)
      /\ calls \in Seq(Seq(Bufs)) /\ chunk \in Bufs /\ passed \o <<>> = passed
  BY ComingType, ConcatEmptySeq
<1>3. /\ Head(calls) \in Seq(Bufs)
      /\ \A j \in DOMAIN Head(calls) : Head(calls)[j].file => ~IsEmpty(Head(calls)[j])
  BY <1>1, <1>2, Split, SendableSplit DEF FilesHaveContent
<1>4. CASE overtaken'
  BY <1>4, OvertakenStep
<1>5. CASE waiting /\ ~MayEnqueue(Head(calls))
  BY <1>1, <1>5, EndStep DEF End, queueVars
<1>6. ASSUME ~overtaken
      PROVE  OneRemainder /\ Flow(n, passed, seen, Coming \o Head(calls), Tail(calls))
  <2>1. Flow(n, passed, seen, Coming, calls) /\ OneRemainder
    BY <1>1, <1>2, <1>6 DEF Content, Flows
  <2> QED
    BY <1>1, <1>2, <2>1, FlowChain
<1>7. CASE waiting /\ MayEnqueue(Head(calls)) /\ ~overtaken'
  <2>1. /\ pending' = pending \o Head(calls) /\ UNCHANGED <<pc, in, out, conn, terminated>>
        /\ ~overtaken
    BY <1>7 DEF Enqueue
  <2>2. pending # <<>> /\ pending[1].file
        /\ \A j \in DOMAIN pending : j > 1 /\ pending[j].file => ~IsEmpty(pending[j])
    BY <1>6, <1>7, <2>1 DEF OneRemainder
  <2>3. Live(pending') = Live(pending) \o Head(calls) /\ Live(pending) \in Seq(Bufs)
    BY <1>2, <1>3, <2>1, <2>2, LiveConcat
  <2>4. Coming' = Coming \o Head(calls)
    <3>1. Coming = <<chunk>> \o Live(pending) /\ Coming' = <<chunk>> \o Live(pending')
      BY <1>1, <1>7, <2>1 DEF Coming
    <3>2. <<chunk>> \in Seq(Bufs)
      BY <1>2
    <3>3. (<<chunk>> \o Live(pending)) \o Head(calls)
            = <<chunk>> \o (Live(pending) \o Head(calls))
      BY <1>3, <2>3, <3>2, Together
    <3> QED
      BY <2>3, <3>1, <3>3
  <2>5. /\ pending' # <<>> /\ pending'[1] = pending[1]
        /\ \A j \in DOMAIN pending' : j > 1 /\ pending'[j].file => ~IsEmpty(pending'[j])
    BY <1>2, <1>3, <2>1, <2>2, RemainderFirst
  <2>6. OneRemainder'
    <3>1. \A j \in DOMAIN in' : FALSE
      BY <1>1, <2>1
    <3>2. waiting' = waiting
      BY <1>1
    <3> QED
      BY <1>7, <2>2, <2>5, <3>1, <3>2 DEF OneRemainder
  <2>7. passed' \o out' = passed /\ pc' = "idle"
    BY <1>1, <1>2, <2>1
  <2> QED
    BY <1>1, <1>6, <2>1, <2>4, <2>6, <2>7, FlowsOn
<1>8. CASE ~waiting /\ ~overtaken'
  <2>1. /\ in' = Head(calls) /\ out' = <<>> /\ pc' = "process" /\ pending' = pending
        /\ pending = <<>> /\ ~overtaken
    BY <1>1, <1>8
  <2>2. Coming = <<>> /\ <<>> \o Head(calls) = Head(calls)
    BY <1>1, <1>3, <1>8, <2>1, ConcatEmptySeq DEF Coming, Live
  <2>3. Coming' = Head(calls)
    <3>1. Head(calls) # <<>> => 1 \in DOMAIN Head(calls)
      BY <1>3, Split
    <3>2. Live(Head(calls)) = Head(calls)
      BY <1>3, <3>1, LiveIs
    <3> QED
      BY <2>1, <3>2 DEF Coming
  <2>4. OneRemainder'
    <3>1. \A j \in DOMAIN pending' : FALSE
      BY <2>1
    <3> QED
      BY <1>1, <1>3, <1>8, <2>1, <3>1 DEF OneRemainder
  <2>5. passed' \o out' = passed
    BY <1>1, <1>2, <2>1
  <2> QED
    BY <1>1, <1>6, <2>1, <2>2, <2>3, <2>4, <2>5, FlowsOn
<1> QED
  BY <1>4, <1>5, <1>7, <1>8 DEF TypeOK

\* A buffer in memory goes to the guest, if there is something in it, and on.
LEMMA MemoryStep ==
  ASSUME TypeOK, TypeOK', OneAtWork, Content, Total(response) \in Nat, ProcessMemory
  PROVE  Content'
<1> DEFINE n == Total(response)
           x == Head(in)
<1> USE DEF ProcessMemory
<1>1. /\ pc = "process" /\ conn = "open" /\ ~terminated /\ in # <<>> /\ ~x.file /\ ~waiting
      /\ in' = Tail(in) /\ out' = Append(out, x)
      /\ UNCHANGED <<response, calls, pc, pending, waiting, passed, conn, overtaken>>
  BY DEF OneAtWork, queueVars, threadVars
<1>2. /\ passed \in Seq(Bufs) /\ out \in Seq(Bufs) /\ seen \in Seq(Bufs) /\ in \in Seq(Bufs)
      /\ passed \o out \in Seq(Bufs)
  BY ComingType
<1>3. /\ x \in Bufs /\ x = in[1] /\ Tail(in) \in Seq(Bufs)
      /\ \A i \in DOMAIN Tail(in) : i + 1 \in DOMAIN in /\ Tail(in)[i] = in[i + 1]
      /\ Len(Tail(in)) = Len(in) - 1 /\ Len(in) \in Nat /\ DOMAIN Tail(in) = 1..Len(Tail(in))
  BY <1>1, <1>2, Split, HeadTailProperties, LenProperties
<1> HIDE DEF x
<1>4. CASE overtaken
  BY <1>1, <1>4, OvertakenStep
<1>5. CASE ~overtaken
  <2>1. /\ OneRemainder /\ pending = <<>> /\ Flow(n, passed \o out, seen, Coming, calls)
        /\ \A j \in DOMAIN in : j > 1 /\ in[j].file => ~IsEmpty(in[j])
    BY <1>1, <1>5 DEF Content, Flows, OneRemainder
  <2>2. \A j \in DOMAIN Tail(in) : Tail(in)[j].file => ~IsEmpty(Tail(in)[j])
    <3> SUFFICES ASSUME NEW j \in DOMAIN Tail(in), Tail(in)[j].file PROVE ~IsEmpty(Tail(in)[j])
      OBVIOUS
    <3>1. j \in Nat \ {0} /\ j + 1 \in DOMAIN in /\ Tail(in)[j] = in[j + 1]
      BY <1>3
    <3>2. j + 1 > 1
      BY <3>1
    <3> QED
      BY <2>1, <3>1, <3>2
  <2>3. Coming = in /\ Coming' = Tail(in)
    <3>1. Live(in) = in
      BY <1>1, <1>2, <1>3, LiveIs
    <3>2. Tail(in) # <<>> => 1 \in DOMAIN Tail(in)
      BY <1>3, Split
    <3>3. Live(Tail(in)) = Tail(in)
      BY <1>3, <2>2, <3>2, LiveIs
    <3> QED
      BY <1>1, <3>1, <3>3 DEF Coming
  <2>4. passed' \o out' = Append(passed \o out, x)
    <3>1. passed \o Append(out, x) = Append(passed \o out, x)
      BY <1>2, <1>3, AppendBehind
    <3> QED
      BY <1>1, <3>1
  <2>5. Flow(n, Append(passed \o out, x), seen', Tail(in), calls)
    <3>1. /\ Flow(n, Append(passed \o out, x), Append(seen, x), Tail(in), calls)
          /\ IsEmpty(x) /\ ~x.last =>
               Flow(n, Append(passed \o out, x), seen, Tail(in), calls)
      BY <1>1, <1>2, <2>1, <2>3, FlowHead DEF x
    <3> QED
      BY <3>1 DEF RunChunk, x
  <2>6. OneRemainder'
    <3>1. \A j \in DOMAIN pending' : FALSE
      BY <1>1, <2>1
    <3> QED
      BY <1>1, <2>1, <2>2, <3>1 DEF OneRemainder
  <2> QED
    BY <1>1, <2>1, <2>3, <2>4, <2>5, <2>6, FlowsOn
<1> QED
  BY <1>4, <1>5

\* A file: its next chunk is read, and the remainder and what follows wait; of the
\* empty remainder only what follows does.
LEMMA FileStep ==
  ASSUME TypeOK, TypeOK', OneAtWork, Content, Total(response) \in Nat, ProcessFile
  PROVE  Content'
<1> DEFINE n == Total(response)
           x == Head(in)
<1> USE DEF ProcessFile
<1>1. /\ pc = "process" /\ conn = "open" /\ ~terminated /\ in # <<>> /\ x.file /\ ~waiting
      /\ passed' = passed \o out /\ UNCHANGED <<response, calls, seen, overtaken>>
  BY DEF OneAtWork, Pass, queueVars, Schedule, Enqueue
<1>2. /\ passed \in Seq(Bufs) /\ out \in Seq(Bufs) /\ seen \in Seq(Bufs) /\ in \in Seq(Bufs)
      /\ passed \o out \in Seq(Bufs) /\ (passed \o out) \o <<>> = passed \o out
  BY ComingType, ConcatEmptySeq
<1>3. /\ x \in Bufs /\ x = in[1] /\ 1 \in DOMAIN in /\ Tail(in) \in Seq(Bufs)
      /\ \A i \in DOMAIN Tail(in) : i + 1 \in DOMAIN in /\ Tail(in)[i] = in[i + 1]
      /\ Len(Tail(in)) = Len(in) - 1 /\ Len(in) \in Nat /\ DOMAIN Tail(in) = 1..Len(Tail(in))
  BY <1>1, <1>2, Split, HeadTailProperties, LenProperties
<1>4. CASE overtaken
  BY <1>1, <1>4, OvertakenStep
<1>5. CASE conn' = "crashed"
  BY <1>1, <1>5, EndStep
<1>6. CASE ~overtaken /\ conn' # "crashed"
  <2>1. /\ OneRemainder /\ pending = <<>> /\ Flow(n, passed \o out, seen, Coming, calls)
        /\ \A j \in DOMAIN in : j > 1 /\ in[j].file => ~IsEmpty(in[j])
    BY <1>1, <1>6 DEF Content, Flows, OneRemainder
  <2>2. \A j \in DOMAIN Tail(in) : Tail(in)[j].file => ~IsEmpty(Tail(in)[j])
    <3> SUFFICES ASSUME NEW j \in DOMAIN Tail(in), Tail(in)[j].file PROVE ~IsEmpty(Tail(in)[j])
      OBVIOUS
    <3>1. j \in Nat \ {0} /\ j + 1 \in DOMAIN in /\ Tail(in)[j] = in[j + 1]
      BY <1>3
    <3>2. j + 1 > 1
      BY <3>1
    <3> QED
      BY <2>1, <3>1, <3>2
  <2>3. pc' = "idle" /\ in' = <<>> /\ out' = <<>> /\ passed' \o out' = passed \o out
    BY <1>1, <1>2, <1>6 DEF End
  <2>4. CASE IsEmpty(x)
    <3>1. pending' = Tail(in) /\ waiting' = waiting
      <4>1. pending' = <<>> \o Tail(in) /\ waiting' = waiting
        BY <1>6, <2>1, <2>4 DEF Enqueue, End, threadVars
      <4> QED
        BY <1>3, <4>1, ConcatEmptySeq
    <3>2. Coming = Tail(in)
      BY <1>1, <2>4 DEF Coming, Live
    <3>3. Tail(in) # <<>> => 1 \in DOMAIN Tail(in)
      BY <1>3, Split
    <3>4. Coming' = Tail(in)
      <4>1. Live(Tail(in)) = Tail(in)
        BY <1>3, <2>2, <3>3, LiveIs
      <4> QED
        BY <1>1, <2>3, <3>1, <4>1 DEF Coming
    <3>5. OneRemainder'
      <4>1. \A j \in DOMAIN in' : FALSE
        BY <2>3
      <4> QED
        BY <1>1, <2>2, <3>1, <3>3, <4>1 DEF OneRemainder
    <3> QED
      BY <1>1, <2>1, <2>3, <3>2, <3>4, <3>5, FlowsOn
  <2>5. CASE ~IsEmpty(x)
    <3>1. Rest(x) \in Bufs /\ Chunk(x) \in Bufs /\ Rest(x).file
      <4>1. Rest(x) \in Bufs /\ Chunk(x) \in Bufs
        BY <1>1, <1>3, <2>5, FileUnits
      <4>2. Rest(x).file
        BY <1>1, <1>3 DEF Rest, Remainder, Bufs
      <4> QED
        BY <4>1, <4>2
    <3>2. chunk' = Chunk(x) /\ waiting' /\ pending' = <<Rest(x)>> \o Tail(in)
      <4>1. chunk' = Chunk(x) /\ waiting' /\ pending' = <<>> \o (<<Rest(x)>> \o Tail(in))
        BY <1>6, <2>1, <2>5 DEF Schedule, Read, Enqueue, Chunk, Rest, End
      <4>2. <<Rest(x)>> \o Tail(in) \in Seq(Bufs)
        BY <1>3, <3>1, InFront
      <4> QED
        BY <4>1, <4>2, ConcatEmptySeq
    <3>3. /\ pending' # <<>> /\ pending'[1] = Rest(x)
          /\ \A j \in DOMAIN pending' : j > 1 =>
               j - 1 \in DOMAIN Tail(in) /\ pending'[j] = Tail(in)[j - 1]
      BY <1>3, <3>1, <3>2, InFront
    <3>4. Coming = in
      <4>1. Live(in) = in
        BY <1>2, <1>3, <2>5, LiveIs
      <4> QED
        BY <1>1, <4>1 DEF Coming
    <3>5. Coming' = <<Chunk(x)>> \o Live(<<Rest(x)>> \o Tail(in))
      BY <2>3, <3>2 DEF Coming
    <3>6. Flow(n, passed \o out, seen, <<Chunk(x)>> \o Live(<<Rest(x)>> \o Tail(in)), calls)
      BY <1>1, <1>2, <2>1, <2>5, <3>4, FlowFile
    <3>7. OneRemainder'
      <4>1. \A j \in DOMAIN in' : FALSE
        BY <2>3
      <4> QED
        BY <2>2, <3>1, <3>2, <3>3, <4>1 DEF OneRemainder
    <3> QED
      BY <1>1, <2>3, <3>5, <3>6, <3>7, FlowsOn
  <2> QED
    BY <2>4, <2>5
<1> QED
  BY <1>4, <1>5, <1>6

\* The chain is done: what was ready has gone on.
LEMMA ChainStep ==
  ASSUME TypeOK, TypeOK', OneAtWork, Content, EndOfChain PROVE Content'
<1> USE DEF EndOfChain
<1>1. /\ pc = "process" /\ conn = "open" /\ ~terminated /\ in = <<>> /\ ~waiting
      /\ passed' = passed \o out /\ out' = <<>> /\ pc' = "idle"
      /\ UNCHANGED <<response, calls, seen, in, pending, waiting, conn, overtaken>>
  BY DEF OneAtWork, Pass, queueVars, threadVars
<1>2. passed' \o out' = passed \o out
  BY <1>1, ComingType, ConcatEmptySeq
<1>3. CASE overtaken
  BY <1>1, <1>3, OvertakenStep
<1>4. CASE ~overtaken
  <2>1. /\ pending = <<>> /\ OneRemainder
        /\ Flow(Total(response), passed \o out, seen, Coming, calls)
    BY <1>1, <1>4 DEF Content, Flows
  <2>2. Coming = <<>> /\ Coming' = <<>>
    BY <1>1, <2>1 DEF Coming, Live
  <2>3. OneRemainder'
    BY <1>1, <2>1 DEF OneRemainder
  <2> QED
    BY <1>1, <1>2, <2>1, <2>2, <2>3, FlowsOn
<1> QED
  BY <1>3, <1>4

\* The chunk has been read: it goes to the guest and on, and the queue is worked on.
LEMMA ChunkStep ==
  ASSUME TypeOK, TypeOK', ThreadOwnsRequest, NothingInHand, Content, Total(response) \in Nat,
         ChunkCompletes
  PROVE  Content'
<1> DEFINE n == Total(response)
<1> USE DEF ChunkCompletes
<1>1. /\ pc = "idle" /\ conn = "open" /\ ~terminated /\ waiting /\ in = <<>> /\ out = <<>>
      /\ seen' = Append(seen, chunk) /\ out' = <<chunk>> /\ in' = pending
      /\ pending' = <<>> /\ pc' = "process" /\ ~waiting'
      /\ UNCHANGED <<response, calls, passed, conn, overtaken>>
  BY DEF ThreadOwnsRequest, RunChunk, NothingInHand
<1>2. /\ passed \in Seq(Bufs) /\ seen \in Seq(Bufs) /\ pending \in Seq(Bufs) /\ chunk \in Bufs
      /\ Coming \in Seq(Bufs) /\ passed \o <<>> = passed
  BY ComingType, ConcatEmptySeq
<1>3. Coming = <<chunk>> \o Live(pending) /\ Coming' = Live(pending)
  BY <1>1 DEF Coming
<1>4. Live(pending) \in Seq(Bufs)
  BY <1>2, Split DEF Live
<1>5. Coming # <<>> /\ Head(Coming) = chunk /\ Tail(Coming) = Live(pending)
  BY <1>2, <1>3, <1>4, InFront
<1>6. passed' \o out' = Append(passed, chunk)
  BY <1>1, <1>2, AppendIsConcat
<1>7. CASE overtaken
  BY <1>1, <1>7, OvertakenStep
<1>8. CASE ~overtaken
  <2>1. Flow(n, passed, seen, Coming, calls) /\ OneRemainder
    BY <1>1, <1>2, <1>8 DEF Content, Flows
  <2>2. Flow(n, Append(passed, chunk), Append(seen, chunk), Live(pending), calls)
    BY <1>2, <1>5, <2>1, FlowHead
  <2>3. OneRemainder'
    <3>1. \A j \in DOMAIN pending' : FALSE
      BY <1>1
    <3> QED
      BY <1>1, <2>1, <3>1 DEF OneRemainder
  <2> QED
    BY <1>1, <1>3, <1>6, <2>2, <2>3, FlowsOn
<1> QED
  BY <1>7, <1>8

\* An error page takes the place of a response of which nothing has come.
LEMMA PageStep ==
  ASSUME TypeOK, TypeOK', NothingEarly, stage \in {"content", "header"}, conn = "open",
         Untouched, NothingInHand, Orderly(ErrorPage), NEW c, NEW h, SpecialResponse(c, h)
  PROVE  Content'
<1> USE DEF SpecialResponse, bodyVars, queueVars, threadVars
<1>1. /\ pc = "idle" /\ ~waiting /\ pending = <<>> /\ passed = <<>> /\ seen = <<>>
      /\ in = <<>> /\ out = <<>>
  BY DEF NothingEarly, Untouched, NothingInHand
<1>2. /\ response' = ErrorPage /\ calls' = ErrorPage
      /\ UNCHANGED <<pc, waiting, pending, passed, seen, in, out, conn>>
  OBVIOUS
<1>3. Coming' = <<>> /\ passed' \o out' = <<>>
  <2>1. <<>> \o <<>> = <<>>
    BY <1>1, ComingType, ConcatEmptySeq
  <2> QED
    BY <1>1, <1>2, <2>1 DEF Coming, Live
<1>4. Flow(Total(ErrorPage), <<>>, <<>>, <<>>, ErrorPage)
  BY FlowBegins
<1>5. OneRemainder'
  BY <1>1, <1>2 DEF OneRemainder
<1> QED
  BY <1>1, <1>2, <1>3, <1>4, <1>5, FlowsOn

\* A response that begins.
LEMMA InitOrder ==
  ASSUME \A r \in Responses : Orderly(r), ResponseInit PROVE OrderIInv
<1> USE DEF ResponseInit, Init
<1>1. Orderly(response) /\ calls = response
  OBVIOUS
<1>2. Coming = <<>> /\ passed \o out = <<>>
  <2>1. <<>> \o <<>> = <<>>
    BY EmptySeq, ConcatEmptySeq
  <2> QED
    BY <2>1 DEF Coming, Live
<1>3. OneRemainder
  BY DEF OneRemainder
<1>4. Flows
  BY <1>1, <1>2, <1>3, FlowBegins DEF Flows
<1>5. BodyInOrder
  BY DEF BodyInOrder, InOrder
<1> QED
  BY <1>1, <1>4, <1>5 DEF OrderIInv

\* A step of the body filter.
LEMMA BodyOrderStep ==
  ASSUME ResponseIInv, TypeOK', NothingInHand, Content, Total(response) \in Nat, BodyStep
  PROVE  Content'
<1>1. TypeOK /\ OneAtWork /\ FilesHaveContent /\ ThreadOwnsRequest
  BY DEF ResponseIInv, ResponseTypeOK
<1>2. CASE Handler
  BY <1>1, <1>2, HandlerStep
<1>3. CASE QueueFails
  <2>1. terminated' /\ UNCHANGED <<response, seen, passed, overtaken>>
    BY <1>3 DEF QueueFails, Call, Enqueue
  <2> QED
    BY <1>1, <2>1, EndStep
<1>4. CASE NoContext \/ ProcessFails \/ ChunkFails \/ TerminatedChunk \/ Finish
  <2>1. conn' # "open" /\ UNCHANGED <<response, seen, passed, overtaken>>
    BY <1>4 DEF NoContext, Call, ProcessFails, ChunkFails, TerminatedChunk, Finish, End,
       queueVars
  <2> QED
    BY <1>1, <2>1, EndStep
<1>5. CASE ProcessMemory
  BY <1>1, <1>5, MemoryStep
<1>6. CASE ProcessFile
  BY <1>1, <1>6, FileStep
<1>7. CASE EndOfChain
  BY <1>1, <1>7, ChainStep
<1>8. CASE ChunkCompletes
  BY <1>1, <1>8, ChunkStep
<1> QED
  BY <1>2, <1>3, <1>4, <1>5, <1>6, <1>7, <1>8 DEF BodyStep, Worker

\* Any step.
LEMMA NextOrder ==
  ASSUME Orderly(ErrorPage), ResponseIInv, ResponseIInv', WholeIInv, OrderIInv,
         [ResponseNext]_allVars
  PROVE  OrderIInv'
<1>1. /\ TypeOK /\ TypeOK' /\ NothingEarly /\ Orderly(response) /\ Untouched
      /\ NothingInHand /\ Content /\ Total(response) \in Nat
  BY DEF ResponseIInv, ResponseTypeOK, WholeIInv, OrderIInv, Content, Orderly
<1> SUFFICES Orderly(response') /\ Content'
  BY DEF OrderIInv, Content
<1>2. CASE UNCHANGED <<response, calls, bodyVars, conn>>
  <2>1. UNCHANGED <<response, calls, pc, in, out, pending, waiting, chunk, seen, passed, conn,
                    overtaken, terminated>>
    BY <1>2 DEF bodyVars, queueVars, threadVars
  <2> QED
    BY <1>1, <2>1, StillStep
<1>3. ASSUME NEW c, NEW h, SpecialResponse(c, h), stage \in {"content", "header"}, conn = "open"
      PROVE  Orderly(response') /\ Content'
  <2>1. response' = ErrorPage
    BY <1>3 DEF SpecialResponse
  <2> QED
    BY <1>1, <1>3, <2>1, PageStep
<1>4. CASE RunContent
  BY <1>2, <1>3, <1>4 DEF RunContent, Calls
<1>5. CASE SendHeader
  <2>1. stage = "header" /\ conn = "open"
    BY <1>5 DEF SendHeader, Calls
  <2>2. PICK c \in {"none", "bare", "registered"},
             h \in {"unset", "done", "suspended", "failed"} :
          \/ SpecialResponse(c, h)
          \/ conn' = "error" /\ UNCHANGED <<response, calls, bodyVars>>
          \/ UNCHANGED <<response, calls, bodyVars, conn>>
    BY <1>5 DEF SendHeader
  <2>3. CASE conn' = "error" /\ UNCHANGED <<response, calls, bodyVars>>
    <3>1. conn' # "open" /\ UNCHANGED <<response, seen, passed, overtaken>>
      BY <2>3 DEF bodyVars, queueVars
    <3> QED
      BY <1>1, <3>1, EndStep
  <2> QED
    BY <1>2, <1>3, <2>1, <2>2, <2>3
<1>6. CASE BodyStep
  <2>1. response' = response
    BY <1>6 DEF BodyStep, Handler, QueueFails, NoContext, Call, Worker, ProcessMemory,
       ProcessFile, EndOfChain, ProcessFails, ChunkCompletes, ChunkFails, TerminatedChunk,
       Finish
  <2> QED
    BY <1>1, <1>6, <2>1, BodyOrderStep
<1>7. CASE FreeRequest
  BY <1>2, <1>7 DEF FreeRequest
<1>8. CASE Environment
  <2>1. CASE ThreadRead \/ TaskTimesOut
    <3>1. UNCHANGED <<response, calls, pc, in, out, pending, waiting, chunk, seen, passed, conn,
                      overtaken, terminated>>
      BY <2>1 DEF ThreadRead, TaskTimesOut, queueVars
    <3> QED
      BY <1>1, <3>1, StillStep
  <2>2. CASE Abort
    <3>1. terminated' /\ UNCHANGED <<response, seen, passed, overtaken>>
      BY <2>2 DEF Abort, queueVars
    <3> QED
      BY <1>1, <3>1, EndStep
  <2> QED
    BY <1>8, <2>1, <2>2 DEF Environment
<1>9. CASE UNCHANGED allVars
  BY <1>2, <1>9 DEF allVars, vars, bodyVars
<1> QED
  BY <1>4, <1>5, <1>6, <1>7, <1>8, <1>9 DEF ResponseNext, System, Gone

-----------------------------------------------------------------------------
(* The theorems, for producers whose responses are the content in order.    *)

\* Every reachable state satisfies the invariant of the order, wherever the files are
\* in the response and however many chains follow them.
THEOREM OrderIsKept ==
  ASSUME \A r \in Responses \cup {ErrorPage} : Orderly(r)
  PROVE  ResponseSpec => [](ResponseIInv /\ WholeIInv /\ OrderIInv)
<1>1. ResponseInit => OrderIInv
  BY InitOrder
<1>2. ResponseIInv /\ ResponseIInv' /\ WholeIInv /\ OrderIInv /\ [ResponseNext]_allVars
        => OrderIInv'
  BY NextOrder
<1> QED
  BY <1>1, <1>2, WholeIsKept, PTL DEF ResponseSpec

\* The guest of the body filter and the next filter get the content in order, each
\* unit once, however much is read from files, a chunk at a time, while chains are
\* queued, and the end of file with or behind the last of it, until a chain is worked
\* on while an earlier one lies forgotten in the queue.
THEOREM ContentInOrder ==
  ASSUME \A r \in Responses \cup {ErrorPage} : Orderly(r)
  PROVE  ResponseSpec => []BodyInOrder
<1>1. OrderIInv => BodyInOrder
  BY DEF OrderIInv
<1> QED
  BY <1>1, OrderIsKept, PTL
=============================================================================
