--------------------------- MODULE MCWasmResponse ---------------------------
(* Responses and locations for the runs of WasmResponse.                   *)
EXTENDS WasmResponse

Memory(from, to) == Buf(from, to, FALSE, FALSE)
File(from, to) == Buf(from, to, TRUE, FALSE)
End0(n) == Buf(n + 1, n, FALSE, TRUE)             \* ngx_http_send_special
LastMemory(from, to) == Buf(from, to, FALSE, TRUE)
LastFile(from, to) == Buf(from, to, TRUE, TRUE)
Flush(n) == Memory(n + 1, n)

\* The file-backed buffer, with one, two or three chunks, is the last one.
FileLast ==
  {<< <<LastFile(1, n)>> >> : n \in 1..5}
  \cup {<< <<Memory(1, 1), Flush(1)>>, <<Memory(2, 3), LastFile(4, n)>> >> : n \in 4..7}
  \cup {<< <<Memory(1, 2)>>, <<LastMemory(3, 3)>> >>, << <<Memory(1, 2), End0(2)>> >>}

\* At most one buffer follows it, in the same chain or in one that comes later.
OneFollows ==
  FileLast
  \cup {<< <<Memory(1, 1), File(2, n), LastMemory(n + 1, n + 1)>> >> : n \in 2..5}
  \cup {<< <<File(1, n)>>, <<End0(n)>> >> : n \in 1..5}
  \cup {<< <<File(1, n)>>, <<LastMemory(n + 1, n + 1)>> >> : n \in 1..5}

\* Two file-backed buffers, with memory before, between or behind them.
TwoFiles ==
  {<< <<File(1, n), LastFile(n + 1, 5)>> >> : n \in 1..4}
  \cup {<< <<Memory(1, 1), File(2, n)>>, <<Memory(n + 1, n + 1), File(n + 2, 6), End0(6)>> >> :
           n \in 2..4}

\* Two and three chains behind a file, of which the later ones may find the earlier in
\* the queue: with the end of file alone, with a flush, and with a second file, which
\* takes the queue with it.
MoreFollow ==
  {<< <<File(1, n)>>, <<Memory(n + 1, n + 1)>>, <<LastMemory(n + 2, n + 2)>> >> : n \in 1..3}
  \cup {<< <<File(1, 3)>>, <<Memory(4, 4), Flush(4)>>, <<Memory(5, 5)>>, <<End0(5)>> >>,
        << <<File(1, 2), Memory(3, 3)>>, <<File(4, 6)>>, <<End0(6)>> >>,
        << <<Memory(1, 1), File(2, 3)>>, <<Memory(4, 4)>>, <<LastFile(5, 5)>> >>}
MCResponses == OneFollows \cup TwoFiles \cup MoreFollow

\* A file.
OneFile == {<< <<LastFile(1, 2)>> >>}

\* An error page is in memory.
Page == << <<LastMemory(1, 1)>> >>

\* Each of them is the content in order.
ASSUME MCOrderly == \A r \in MCResponses \cup OneFile \cup {Page} : Orderly(r)

\* A file or an upstream; and a guest, whose errors lead to a page of the same
\* location or of another one.
MCLocations ==
  {[content |-> c, header |-> h, redirect |-> r] :
     c, h \in BOOLEAN, r \in BOOLEAN} \ [content : {FALSE}, header : BOOLEAN, redirect : {TRUE}]

\* The header filter and the body filter together.
BothFilters == [content : {FALSE}, header : {TRUE}, redirect : {FALSE}]
=============================================================================
