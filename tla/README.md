# ngx_wasm: TLA+ models, checks and proofs

`ngx_wasm` is an nginx module that runs WebAssembly guests (Wasmtime) in the
phases and filters of a request. This directory models the parts of it whose
correctness depends on the order of events: a guest that is interrupted and
resumed, a request that waits and is woken, memory that several workers share,
a file that a thread reads while the response goes on.

- [The system](#the-system): components, hard behaviours, what makes each correct
- [The modules](#the-modules): how state and actions correspond to the code
- [The runs](#the-runs): what TLC checks, with which bounds and fairness
- [What is proved](#what-is-proved)
- [Where code and documents disagree](#where-code-and-documents-disagree)
- [What is not modelled, and the plan](#what-is-not-modelled-and-the-plan)

`PROJECT.json` lists the same things by machine-readable name: components,
runs, the source lines each definition stands for, the hazards and the
properties that answer them. Paths below are relative to `src/`, the repository.

## The system

nginx runs one master and several single-threaded worker processes. Inside a
worker everything is a callback of the event loop; between workers there is
shared memory, and beside a worker there is nginx's thread pool for file reads.

| Component | Keeps | Operations | Correct when |
|---|---|---|---|
| Execution of an export (`src/ngx_http_wasm_runtime.c`, `runtime_run`) | `ngx_http_wasm_exec_ctx_t`: state, suspend kind, fuel; its resume state: store, future, ready bits, outputs | run or resume, re-initialise, clean up; host functions yield and launch subrequests | at most one future, always with its store; a suspended call is continued, not restarted; one fuel budget for all slices; DONE only for a call that returned 0 |
| Request handlers (`src/ngx_http_wasm_module.c`) | `ngx_http_wasm_ctx_t`: the exec, `waiting`, `exec_completed`; nginx's reference count, posted list, write handler | phase handlers, `resume_handler`, finalization | no lost wake-up, references neither lost nor leaked, phases in order, every request ends with an answer |
| Request body (`src/ngx_http_wasm_request_body.c`) | `request_body_ready`, `_status`, `_async` | read now, read later (callback), refuse | the guest runs once, after its body |
| Subrequests (`src/ngx_http_wasm_abi.c`) | `pending_headers`, `subrequest`, `active`, `done`, `rc` | stage a header, launch, finish and wake the parent, read the answer | the parent is woken by its subrequest, reads the answer of its last launch, and is not locked out by a failure |
| Dictionary (`src/ngx_http_wasm_shm.c`) | a slab zone: red-black tree, LRU queue, one mutex | get, exists, set, set_ex, add, replace, incr, delete | each call is one atomic step for every worker; tree, queue and slab agree |
| Metrics (`src/ngx_http_wasm_metrics.c`) | a slab zone: tree of counters and gauges, one mutex | inc, set, add, get, the metrics handler, (re)configuration | no increment lost, what a configuration declares is served, across reloads |
| Body filter (`src/ngx_http_wasm_body_filter.c`) | the queue `body_filter_pending`, the chunk a thread reads, `r->buffered`, `r->main->blocked` | chain arrives, chunk is read, timer, failure | content in order and complete, end of file last, no memory freed under a thread |
| Header filter, log handler (`src/ngx_http_wasm_header_filter.c`, `log_handler`) | an exec in the context each | one run per response, one per request | no body without its header, no store left behind, the response ends |
| Balancer (`upstream_*`, `balancer_select_peer`) | the original balancer's data; the peers all workers share | a peer is asked for, chosen, given back | counts of connections and tries stay those of the requests; no peer twice; every lock is released |
| SSL hooks | an exec context | one synchronous run each | the run never suspends |
| Configuration, module cache, capabilities | engine, linker, compiled modules | parse, merge, load, destroy | - |

They interact through few interfaces. Every handler and filter calls
`ngx_http_wasm_runtime_run` and reacts to `NGX_OK`, `NGX_AGAIN` (suspended, with
a reason) or an error. A guest calls back through host functions into the ABI,
the dictionary and the metrics while it runs. Wake-ups go through nginx: a
posted request, a finished subrequest that posts its parent, the callback of a
body read, the event of a thread task. Workers meet in the two slab zones and
in the peers of an upstream.

The hard part is in the combinations: a timeslice that ends between a host call and
the return of the guest; a subrequest that finishes while its parent is posted as
well; a body that comes after its handler returned; an allocation that evicts what
another worker is using; a chain that arrives while a thread reads; a timer that
fires before its read ends; a client that leaves meanwhile; an error page that takes
the place of a response whose header was refused; a list of peers that changes
between two tries; a reload that fails half-way while the old workers go on.
`hazards` in `PROJECT.json` lists each at its line.

## The modules

| Module | Models |
|---|---|
| `ExecContract` | abstract: what a caller of `runtime_run` may rely on |
| `WasmExec` | `runtime_run`, its resume state and the guest it polls; implements `ExecContract` |
| `WasmExecProofs` | theorems about `WasmExec` |
| `WasmRequest`, `MCWasmRequest` | the phase handlers, suspension and resumption, the body, subrequests; uses the contract (`Exec == INSTANCE ExecContract`) |
| `WasmRequestProofs` | theorems about `WasmRequest`, its use of the contract among them |
| `SharedKV` | abstract: a linearizable map with expiry that may forget |
| `WasmShm`, `MCWasmShm` | the dictionary, several workers; implements `SharedKV` |
| `WasmShmProofs` | theorems about `WasmShm`: the mutex, the refinement of `SharedKV`, the queue and the memory |
| `ShmTree`, `MCShmTree` | the dictionary's tree: descents to look up and to insert, and what happens between them |
| `ShmTreeProofs` | theorems about `ShmTree` |
| `BodyFilter` | the body filter and its thread |
| `WasmResponse`, `MCWasmResponse` | a response from the content handler to the release of the request: header filter, error page, `BodyFilter`, log handler, cleanup; extends `BodyFilter` |
| `WasmResponseProofs` | theorems about `WasmResponse`, so about `BodyFilter` as well: memory, stores, order and completeness of the content |
| `Balancer`, `MCBalancer` | the balancer guest around the round-robin balancer, several requests |
| `BalancerProofs` | theorems about `Balancer` |
| `Subrequest`, `MCSubrequest` | the subrequests of one guest: headers, launch, done handler, answers |
| `SubrequestProofs` | theorems about `Subrequest` |
| `Metrics`, `MCMetrics` | the metrics zone, its users and its reloads |
| `MetricsProofs` | theorems about `Metrics` |

A variable has the name of the field it models where there is one; a comment at
each declaration names the others. An operator whose name ends in `Mutant` is a
faulty variant of the definition after it (a forgotten reset, a missing guard).
Nothing uses them; putting one in the place of its original makes the property
it is listed with in `PROJECT.json` fail.

**WasmExec.** `runtime_run` is a chain of steps, and `pc` says where it is:
`EnterRun` or `RefuseRun` (the checks, the store, `begin_run`), `Instantiate`
(create or take up the instantiation future, poll), `ResolveExport`, `Call`
(create or take up the call future, poll), then `PollPending`,
`InstantiateComplete` or `CallComplete`. Between two polls the guest acts:
`GuestCompute`, `HostYield`, `HostSubreq`, `GuestReturn`, and the engine:
`InstantiateReturn`, `EngineError`, `SliceEnds`. Between two runs
`InitRequestExec`, `SubrequestDone` and `Cleanup` may happen. Wasmtime is
external, as `runtime_run` uses it: a store meters fuel, a poll comes back
pending when its yield interval is used up, and completes with a result, a trap
or an error. Fuel is a number of units, the budget a constant.

**ExecContract.** Seven variables of `WasmExec` become four: the status, the
reason to wait, the fuel spent and the fuel accounted for. A caller may rely on
this: every run ends suspended, done or failed; a suspension has a reason and has
used fuel that is accounted for, so suspensions cannot go on for ever; only a
context that is done is initialised again, and none is destroyed while it runs.

**WasmRequest.** One request in one worker. nginx is external, modelled as the
handlers depend on it: the phase engine (a rewrite checker that goes on after
`NGX_DECLINED` and stops at `NGX_DONE`; a content phase that finalizes whatever its
handler returns), `ngx_http_finalize_request` (a reference goes with `NGX_DONE`, the
last one frees the request), the posted list (run until it is empty; a finishing
subrequest posts its parent without looking whether it is posted),
`ngx_http_read_client_request_body` (takes a reference). A run of the guest is
abstract, in the terms of the contract: `StartRun`, `GuestWork`, `GuestSubrequest`,
then `RunSuspends`, `RunFails` or `RunFinishes`, each with all that `run_request`
does after it. What may fail around a run does: the allocation of the context
(`ContextFails`), the post of a rescheduled request (`RepostFails`), and nginx when
it discards or reads the body (`PrepareBody`). A read that is over at once takes a
reference (`Taken`) and `prepare_request_body` takes it back (`GivenBack`). `site`
is the deployment and the client: the configured phases, whether bodies are
buffered, and when the body comes.

**WasmShm.** A host call is a thread of steps: `Invoke`, `Acquire` (the mutex),
`Lookup` (with the purge of an expired entry), one of `Get`, `Delete`, `Store`,
`Incr`; a store that does not fit in place goes on with `Allocate`, `Evict`,
`GiveUp`, `Link`; `Unlock` ends all of them. Splitting the section shows that the
early exits leave it as it must be. A lookup is exact here: keys are model values that
have no conflict in the tree, and `ShmTree` has those that do; a value is a small
number (which `incr` can parse) or `Text`, with a length that differs by sign.
The slab is external: it never exceeds its memory and may fail earlier
(fragmentation). Each worker has its own cached clock. A zone that is kept over
a reload is simply kept (`init_zone`).

**ShmTree.** The tree is the sequence of its keys from left to right, a subtree a
stretch of it (`lo` to `hi`); a descent may meet any node of the stretch as its
root, so every shape a red-black tree can have, and more, is covered. A call is
`Lookup`, a `LookupVisits` per node, and `found` or `absent` (`LookupMisses`). Then it
ends (`Return`), deletes the entry (`Delete`), or stores: `Evict` takes others out,
`Insert` begins the second descent, `InsertVisits` is a node of it, and `Link` hangs the
entry where it ends. Keys are compared as the code does: to insert by hash, length,
bytes (`GoesLeft`); to look up by hash, then `ngx_memn2cmp` (`LooksLeft`). These are two
orders. Two keys of one hash, of which the longer is the smaller in bytes, are
`InConflict`; a key that is in conflict with none is `Peaceful`. Nothing excludes
conflicts: the keys of the run have some. Which entry is evicted, and when one
expires, is `WasmShm`'s matter; here any may.

**BodyFilter.** A response is a list of chains of buffers, each in memory or in a
file. The worker's steps are `Handler` (and `QueueFails`, when there is no memory to
queue a chain while a task is in flight), the loop of `process` (`ProcessMemory`,
`ProcessFile`, `EndOfChain`, `ProcessFails`), the three outcomes of the task's event
(`ChunkCompletes`, `ChunkFails`, `TerminatedChunk`) and the timer; `ThreadRead` is
the pool thread, `Abort` the client. A file-backed buffer that a producer sends has
content (`Sendable`; nginx sets `in_file` for nothing else), while what is left of
one may be empty. Content is numbered units, so order and completeness can be seen:
a buffer `Fits` where the content stands, and end of file counts as one more unit
behind the last. `overtaken` remembers that a chain was worked on while an earlier
one lay in the queue and nothing was being read ("Met while modelling" below has how
it comes to that). `ctx` is the request's context, which the filter makes when
nobody else has.

**WasmResponse.** The stages of a response are `content`, `header`, `body`,
`gone`. `RunContent` is the content handler's outcome (`WasmRequest` has how it
comes about), `SendHeader` is `ngx_http_send_header` with the header filter's
handler and what its callers do with an error: an error page, which runs through
the same filters with the same context, or in another location with none
(`ctx` is forgotten, `past` keeps it). `BodyStep` is a step of `BodyFilter`,
`FreeRequest` the log handler and the pool's cleanups. `stores` are the Wasmtime
stores in memory, named by context and execution. The status a header guest sets
and the headers cleared for the body filter are left out.

**Balancer.** `InitPeer`, `RunGuest`, `Lock`, `Reject` or `SelectPeer`, and
`Release` are the module's functions; the other half of every choice is nginx's:
the round-robin balancer a guest leaves the choice to (`OriginalGet`,
`OriginalOnly`, `OriginalBackup`, `OriginalBusy`; without weights), the upstream
module that tries the next peer (`TryFails`, `TrySucceeds`), and the zone that
replaces peers whose address has changed (`Resolve`). That the original balancer is
nginx's round robin is what the code takes for granted as well, by a cast. `Down` are
the peers the configuration marks as down. The lock of a peer is taken and released
within the section of its list, so what the code does under it is one step, and what
it does under the lock of the list several. A guest may
choose any index. `fails` is counted to `max_fails`, times to "within
`fail_timeout`" (`resting`) and "checked after the last failure" (`probed`).

**Subrequest.** `SetHeader`, `Launch`, its two failures (`LaunchFails` before
nginx has made the subrequest, `LaunchHalf` after), `DoneHandler` and the guest's
reads, on `ngx_http_wasm_subrequest_state_t`. The run around them is small:
timeslices, yields, returns and posts. An `env` is the set of troubles of one
behaviour. `overlapped` remembers that a subrequest may have been started beside
another that was still running.

**Metrics.** A call is `Invoke`, `Acquire`, `Read`, `Write`, `Unlock`, so that a
lost update would show. A reload is the master's: `Reload` takes the mutex,
`KeepNode`/`AddNode` do one declaration, `WrongKind`/`NoRoom` reject the
configuration (what was added stays, the old configuration goes on), `Loaded`
accepts it, `Replace` lets a worker of the new configuration take over. `NewValues` has
the test by which `counter_inc` saturates as the code has it, a difference that cannot
overflow, and `gauge_add` as it is, undefined where its sum leaves `int64_t`.

## The runs

Run one with `tlc -config <cfg> <module>`.

| Config (module) | Shows | States |
|---|---|---|
| `WasmExec_yield.cfg` (`WasmExec`) | a phase that may yield: futures, fuel and outcomes are consistent, the contract is implemented, a suspension that is resumed ends | 1,484 |
| `MCWasmRequest_all.cfg` (`MCWasmRequest`) | references, wake-ups, phase order, use of the exec, every request ends | 447,223 |
| `MCWasmShm_workers.cfg` (`MCWasmShm`) | linearizable cache; queue, tree and memory in use agree; the oldest is evicted; every exit unlocks | 1,039,994 |
| `MCShmTree_keys.cfg` (`MCShmTree`) | a search takes no other entry for that of its key; only for keys in conflict can it miss one that is linked, and can one be linked twice | 6,676 |
| `MCWasmResponse_all.cfg` (`MCWasmResponse`) | order of the content until a chain overtakes a forgotten one, completeness of it in any case, header before body, ownership of the thread's memory, honest buffering, no store left, the response ends | 8,277 |
| `MCMetrics_reload.cfg` (`MCMetrics`) | counters are sums, metrics survive, declarations are served, every exit unlocks | 1,500,709 |
| `MCBalancer_peers.cfg` (`MCBalancer`) | connections are counted, no peer twice, one probe of a failed peer, every request ends | 252,288 |
| `MCSubrequest_calls.cfg` (`MCSubrequest`) | the answer of the last launch, until two subrequests may overlap; the headers staged for it, never locked out | 189,116 |

Four more configs check one property each that TLC refutes; see below.

**Bounds.** `WasmExec`: a budget of 5 and slices of 2 give at least two whole slices
and a broken one, so every relation of slice, fuel and interval occurs; the theorems
remove this bound. `WasmRequest`: a budget of 3 runs or slices per phase, and two
unfinished subrequests at a time (one that is active and one whose launch was
reported as failed, which is all `active` lets a guest have without a second
failure); all subsets of the phases, with and without buffering, and five kinds of
body; the theorems remove the bounds on runs and subrequests. `WasmShm`: two
workers, three keys, memory for two, so a store must evict while another worker is
between its calls; four calls and one tick of time let an entry be stored, used,
expire under one clock and be purged under the other; symmetric in workers and keys
(no liveness is checked there). `MaxAttempts` 2 instead of 32 lets the loop end for
that reason; the theorems remove all of these bounds. `ShmTree`: six keys in two
sets that collide. In the first are `<<2>>` and the longer, smaller `<<1, 1>>` and
`<<1, 2>>`, which are in conflict with it, and `<<1>>`, which shares their hash and
is not; the second is `<<3>>` and `<<3, 1>>`, without a conflict (`MCBothKinds`
evaluates that there are both kinds). There is memory for four, so also for a key
that is linked twice next to those that caused it, and every descent takes every way
(the theorem removes the bounds). `BodyFilter`: files of one to five units read by
two, so whole and broken last chunks, one to three reads; one buffer after a file,
in the same chain or a later one; two files; two and three chains after a file
(`MoreFollow`), of which a later one may overtake an earlier: with the end of file
alone, with a flush, with a second file that takes the queue along. `WasmResponse`:
the same responses, an error page of one buffer, and every combination of a guest or
a file as content, a header guest or none, and an error page in this location or
another (the theorems remove these; that each of the responses is the content in
order, as the theorems about order ask, is evaluated with the runs, `MCOrderly`).
`Balancer`: two requests, which is enough for every race between a choice and a
give-back; three peers, of which two at most are listed (two primaries, one with a
backup, one alone, one next to a peer that is down); `max_fails` and `max_conns` 1,
so a single failure rests a peer and a single connection saturates it; one
replacement; the theorems remove all of these. `Subrequest`: two launches (an
earlier answer and a later one), one header, every set of troubles, posts counted to
two (removed by the theorems for the answers and the headers). `Metrics`: two
workers, three calls, two reloads among three configurations that add, drop and
change the kind of a metric; a maximum of 2, so saturation occurs (the theorems
remove these).

**Deadlock** is checked for `MCWasmRequest`, `MCShmTree` and `MCWasmResponse`, where
the end of a request is an explicit stutter (`Over`, `Gone`) and anything else that
stops would be an error. `WasmExec` ends after `Cleanup`; `WasmShm` and `Metrics`
end when their bounded calls are used up, `Balancer` when its requests are done,
`Subrequest` when a handler has failed: there the configs say `CHECK_DEADLOCK
FALSE`; `EveryRequestEnds` answers the question for the balancer, and
`LockMeansSection` takes the question over (nobody keeps the mutex outside a
section).

**Fairness.** A worker is single-threaded and runs a C function to its end, so
weak fairness of the worker's own steps is what the event loop gives
(`RunStep`, `WorkerStep`, `Worker`). Things from outside have timeouts in nginx:
a body arrives or `client_body_timeout` passes, an upstream answers or times out
(`BodyEvent`, `UpstreamEvent`); the 60 s timer of the thread task only logs, so
for a read the assumption is that the thread comes to its end (`ThreadRead`), and
that a producer sends all its chains (`System`, which is what the worker does for
one response, contains `Handler`). In the balancer a worker goes on with each
request and a connection ends (`Step(r)`); requests that wait for a lock need no
more, as nobody takes one for ever. In `Subrequest` a subrequest may be
overtaken by runs of its parent only as long as the parent has fuel, which the
module leaves out: that it ends is strong fairness there. A caller of `runtime_run` runs a
suspended context again or destroys it (`Resume`); `NoLostWakeup` and
`EveryRequestEnds` show the former for the request handlers. No fairness is
assumed of guests: their work is bounded by fuel alone.

**What the properties say.** The comment at each states it in words. The central
ones: `FutureOwned`, `ResumableSuspension`, `FuelAccounted`, `BudgetNeverRefilled`,
`InterruptedCallSurvives`, `ImplementsContract` (execution); `CountMatches`,
`NoLostWakeup`, `RunsOnlyLive`, `PhasesInOrder`, `EveryRequestEnds` (requests);
`ImplementsKV`, `EvictsOldest`, `EntriesAccounted` (dictionary); `LinkedIsFound`
(its tree); `BodyInOrder`, `ThreadOwnsRequest`, `FinishedIsComplete`,
`BodyFollowsHeader`, `EveryStoreFreed`, `EveryResponseEnds` (responses);
`ConnectionsCounted`, `NoPeerTwice`, `OneProbe` (balancer);
`AnswersTheLastLaunch`, `HeadersAsStaged` (subrequests); `CounterIsSum`,
`DeclaredIsServed`, `MetricsSurvive` (metrics). Types are stated once per module;
`SynchronousPhase` (a context of the log, balancer or SSL phases is never
suspended) has a theorem and no run.

## What is proved

`WasmExecProofs` proves, with TLAPS, for every `FuelLimit`, every `TimesliceFuel`
and both values of `MayYield`:

| Theorem | Property |
|---|---|
| `Inductive` | `Spec => []IInv` |
| `TypeCorrect` | `TypeOK`: no fuel figure leaves `0..FuelLimit` (no unsigned wrap) |
| `FutureIsOwned` | `FutureOwned` |
| `SuspensionIsResumable` | `ResumableSuspension` |
| `FuelIsAccounted` | `FuelAccounted` |
| `DoneIsReturnedZero` | `DoneMeansReturnedZero` |
| `SynchronousNeverSuspends` | `SynchronousPhase` |
| `BudgetIsNeverRefilled` | `BudgetNeverRefilled` (action property) |
| `InterruptedCallIsContinued` | `InterruptedCallSurvives` (action property) |
| `ContractIsImplemented` | `ImplementsContract`: `WasmExec` refines `ExecContract` |

The only assumption is `ExecAssumption` (the budget and the
timeslice are natural numbers, `MayYield` a Boolean); TLC evaluates it in the run of
the module.

The properties are not inductive by themselves. That a suspended context is
resumable, for instance, depends on what holds when `PollPending` is reached,
which depends on what the store had when the poll began. `IInv` (in `WasmExec`)
adds what holds at each point of the function: `RunPoints` (which handles are
ready where), `OutputsClean` (no outcome of an earlier poll is left when a future
is polled, which is what makes `yielded`, `trap` and `result` trustworthy
afterwards), `FuelPoints` (how slice, store and reported fuel are related: the
report is exact outside a poll and an upper bound within), `SynchronousPoints`
(without a timeslice the slice is all the fuel, so a pending poll has used it
up). `InitIInv` starts the induction, one lemma per action keeps `IInv`, in five
groups of conjuncts, and `NextIInv` combines them. The action properties and the
refinement are facts about one step from a state that satisfies `IInv`; the
refinement maps every step to a contract step or to a stutter, case by case.

`BalancerProofs` proves, for every set of requests and peers, every list of
upstreams, every `MaxFails` and `MaxConns` (0 included: no limit), and any number
of replacements:

| Theorem | Property |
|---|---|
| `Inductive` | `Spec => []IInv` |
| `TypeCorrect` | `TypeOK`: no count goes below zero (no unsigned wrap) |
| `CountsAreRight` | `ConnectionsCounted` |
| `PeersAreTriedOnce` | `NoPeerTwice` (action property) |
| `FailedPeerIsProbedOnce` | `OneProbe` (action property) |

The assumption is `BalancerAssumption`: finitely many requests, and upstreams
that have a primary peer and no peer twice. `IInv` (in `Balancer`) adds to the
types and to `ConnectionsCounted` what makes the two action properties follow
from one step. `TriedBits`: as long as the list is the one a request began with,
and it may still ask for a peer, the bit of each listed peer it was given is set;
`Stale` is what makes this enough when the list has changed. `OnlyPeerNeverFails`:
an only peer is taken by `OriginalOnly` without a look at its failures, which is
right because it has none. The counting of `ConnectionsCounted` is two lemmas on
the cardinality of the set of holders, for the step that takes a peer and the one
that gives it back.

`MetricsProofs` proves, for every set of workers and of configurations, every
maximum, and any number of calls and reloads:

| Theorem | Property |
|---|---|
| `Inductive` | `Spec => []IInv` |
| `TypeCorrect` | `TypeOK`: no value leaves `int64_t` |
| `MutexIsSection` | `LockMeansSection` |
| `CountersAreSums` | `CounterIsSum` |
| `DeclarationsAreServed` | `DeclaredIsServed` |
| `MetricsAreKept` | `MetricsSurvive` (action property) |

The assumption is `MetricsAssumption`: a configuration is a sequence of
declarations that names no metric twice (the directive refuses it), and arguments
are `int64_t`. `IInv` (in `Metrics`) adds three things. `CallsOK`: a worker about
to write has read what is still stored in its node, because it is alone in the
section (`Alone`); without it no sum survives a write. `NoneBefore`: nothing was
granted to a name before it had a node, for the counters a reload adds.
`LoadedIsServed`: the configuration in force is served, which is what a new worker
takes over, and so is the part of the next one the loop has passed. `NodesStay`
(a node and its kind are kept by every step) carries the last two.

`WasmShmProofs` proves, for every set of workers and keys, every capacity, every
range of numbers, and any number of calls and of evictions:

| Theorem | Property |
|---|---|
| `Inductive` | `Spec => []IInv` |
| `CallsAreTyped` | `CallTypeOK`: no `incr` stores what is not an `int32_t` |
| `MutexIsSection` | `LockMeansSection` |
| `Linearizable` | `ImplementsKV`: `WasmShm` refines `SharedKV` |
| `ZoneIsSound` | `Spec => []ZoneInv` |
| `TypeCorrect` | `TypeOK`: the slab never hands out, or takes back, more than it has |
| `MemoryIsAccounted` | `EntriesAccounted` |
| `OldestIsEvicted` | `EvictsOldest` (action property) |

The assumption is `ShmAssumption` (types of the constants). A call takes effect
where it gets its answer, with the mutex held; `Phase` is what `SharedKV` sees of
its place. `IInv` (in `WasmShm`) adds `CallsOK` to the types and the mutex: an entry
that is still there after the lookup is not expired under the clock of its worker,
which is why "found" in the code is "live" in `SharedKV`, and what made a store
admissible still holds when it is linked, many evictions later. Both are kept
because the others are outside their sections (`Alone`), and because an eviction
spares the entry that is being replaced. `RemovalRefines` maps purge and eviction
to `Forget`; a removal of what is not there is a stutter.

The last four are about what the abstract map does not show. `ZoneInv` adds to
`IInv` that the zone's parts agree. `EntriesAccounted` is one half of it: each
linked entry is in the queue once, and what is free, linked and pending makes up
the capacity, where pending is what the one worker in a section has allocated and
not linked (`AllocatedIs`; memory is a set of units, so that it can be counted).
`UseOrder` is the other half, which an eviction needs: the queue is in the order of
the history `recent`, in which each key has its last use by any worker (`Agree`).
The lemmas below them say what removing a key from a sequence, and putting it in
front of one, does to both (`DropHolds`, `DropAgrees`, `FrontHolds`, `FrontAgrees`),
and what a removal and an insertion do to the units of the tree (`UnitsOut`,
`UnitsPut`). `ZoneStep` has one lemma for each thing a step may do to the zone:
leave it (`ZoneKept`, `ZoneAside`), delete from it (`ZoneDeletes`, for purge, delete
and eviction alike), use or replace an entry (`ZoneUses`), allocate (`ZoneAllocates`).

`WasmRequestProofs` proves, for every set of deployments and clients, every budget,
and any number of unfinished subrequests:

| Theorem | Property |
|---|---|
| `Inductive` | `Spec => []IInv` |
| `TypeCorrect` | `TypeOK` |
| `CountsAgree` | `CountMatches` |
| `WakeUpIsKept` | `NoLostWakeup` |
| `OnlyLiveRuns` | `RunsOnlyLive` |
| `ClosedIsAnswered` | `AnsweredWhenClosed`, where every site satisfies `ReadsInTime` |
| `PhasesAreInOrder` | `PhasesInOrder` (action property) |
| `ContractIsUsed` | `UsesContract` |

The assumption is `RequestAssumption` (types of the constants). `ClosedIsAnswered`
has the hypothesis that a client which sends its body late meets a rewrite phase
that reads it: `MCWasmRequest_late.cfg` shows what happens otherwise. `MaxSubs`
bounds the subrequests in the model and may be any number.
`IInv` (in `WasmRequest`) says, for each place in the handlers and in nginx, what
execution, references, posted list and body are there. `BetweenPhases`, `AtWork` and
`Returned` follow the execution from handler to handler and give `RunsOnlyLive`,
`PhasesInOrder` and `UsesContract`. `ReferencesMatch` is the count at every place,
not only where nginx has the request back: one more while the content phase's
checker has still to give back the reference of a suspended handler (`Held`).
`WakeUpComes` is stronger than `NoLostWakeup`, which only looks at a worker that
polls: from the return of a handler on, the request is posted or a subrequest that
will post it is unfinished. Much rests on `WaitingIsHeld`, that `waiting` is set
for a suspended request and for a content handler that was resumed, and on
`BodyFirst`: a handler that waits for its body is the first to run, so nothing was
posted and no subrequest launched before it. The subrequests that are posted and
not started are counted as the cardinality of the set of their places (`Subs`),
which the lemmas about posting, launching and starting rest on.

`WasmResponseProofs` proves, for every set of responses, chunk size, location and
error page:

| Theorem | Property |
|---|---|
| `Inductive` | `ResponseSpec => []ResponseIInv` |
| `TypeCorrect` | `ResponseTypeOK` |
| `ThreadHasItsMemory` | `ThreadOwnsRequest` |
| `BufferedIsTrue` | `BufferedIsHonest` |
| `HeaderComesFirst` | `BodyFollowsHeader` |
| `StoresAreFreed` | `EveryStoreFreed` |

The assumptions are `BodyFilterAssumption` and `ResponseAssumption`: a chunk is not
empty, and no producer sends a file-backed buffer without content. Without the
latter the loop could meet the end of a file outside the event handler, where it
would queue the rest behind itself; `FilesHaveContent` carries it to the chain in
work. `OneAtWork` is the heart of `ResponseIInv`: the loop and a read exclude each
other, so whoever touches the queue has it to itself; `NothingEarly` says that the
filter does nothing before the header stage is over, and `StoresHaveContext` that
a store belongs to a context, which is what `FreeRequest` looks at.

Its second half goes on from there, for any number of chains and buffers, files
anywhere among them, and chunks of any size:

| Theorem | Property |
|---|---|
| `WholeIsKept` | `ResponseSpec => [](ResponseIInv /\ WholeIInv)` |
| `FinishedIsWhole` | `FinishedIsComplete` |
| `OrderIsKept` | `ResponseSpec => [](ResponseIInv /\ WholeIInv /\ OrderIInv)` |
| `ContentInOrder` | `BodyInOrder` |

The first two have no further assumption. `WholeIInv` says where content can be:
with the next filter, ready for it, in the loop, in the queue, in a read or not sent
yet (`NothingLost`), whichever chain is worked on first; a request is finalized only
when the filter holds nothing, so all of it has been passed on then.

The other two have one hypothesis, that each response, and the error page, is `Orderly`:
its buffers are the content in order, with end of file in the last. That says what
content is, and nothing about files or the chains behind them. `BodyInOrder` speaks of
a response until one chain overtakes another (`overtaken`), which this code lets happen
("Met while modelling" below). `OrderIInv` says that until then what the next filter
has, what is ready for it, what the filter still holds (`Coming`: the chunk being read,
then the queue without an empty remainder, or what the loop has left) and the chains
not yet sent are one after the other the whole content (`Flows`), and that the guest
has seen as much as the next filter and the output together. `OneRemainder` says that
an empty remainder stands only at the head of the queue and only while a chunk is read.
The lemmas are about pieces of the content: two that meet are one, the first buffer of
one can be taken off, and a file-backed buffer can be replaced by its next chunk and
what remains of it (`FileSplits`), whichever way the chunk size divides it.

`SubrequestProofs` proves, for every set of headers, any number of launches, and
every set of troubles:

| Theorem | Property |
|---|---|
| `Inductive` | `Spec => []IInv` |
| `TypeCorrect` | `TypeOK` |
| `AnswerIsOfLastLaunch` | `AnswersTheLastLaunch` |
| `HeadersAreSent` | `HeadersAsStaged` (action property) |

The assumption is `SubrequestAssumption`. `IInv` (in `Subrequest`) says why the last
launch is the one that answers: `OneInProgress` (until `overlapped`, only the last
launch is in progress, `active` is set while it runs, and there is an answer only when
it has ended at least once). What happens after an overlap is below.
`PendingIsStaged` relates the array of headers, with its blanks, to what the guest
staged.

`ShmTreeProofs` proves, for every set of keys of any length and every hash:

| Theorem | Property |
|---|---|
| `SameWay` | `InConflict(k, t) <=> ~(GoesLeft(k, t) <=> LooksLeft(k, t))`, for all keys |
| `Inductive` | `Spec => []IInv` |
| `LinkedFound` | `LinkedIsFound` |

The assumptions on the constants are `KeysAssumption` (keys are nonempty strings of
bytes, a hash is a number) and `CapacityAssumption`; which keys collide is left open,
conflicts included. `LinkedIsFound` says that a search takes no other entry for that of
its key, that it misses a linked one only when the key is in conflict with another
linked key, and that only a key that is in conflict with some key is ever linked twice.
`SameWay` says what a conflict is: just the pairs at which the two loops turn different
ways. So keys without conflicts, among them all of one length and all that do not
collide, are found and linked once, whatever other keys do in the same tree; what
happens to the others is under "Met while modelling".

The argument has two halves. The first is about `ngx_memn2cmp`: its sign is the
order of a dictionary (`MemnIsBefore`), because `memcmp` finds the first difference
(`CompareDiffers`, which takes the least of a set of positions from the
well-foundedness of the numbers), and that order is strict and transitive
(`BeforeTransitive`: of two first differences the earlier counts). The second is the
induction. `LinkedIsFound` speaks of the ends of descents only; `IInv` (in `ShmTree`)
adds that the tree is in the order of the insertion (`Sorted`), that an insertion leaves
behind on the left only what is not after its key and on the right only what is
(`InsertNarrowed`), and that a search does not leave its key behind as long as no linked
key is in conflict with it (`LookupNarrowed`): at every other node the search goes the
way the insertion went. An eviction between the two descents takes a node out anywhere
but where the entry to be replaced is, and keeps the order.

Only model-checked: all liveness (`SuspensionEnds`, `EveryRequestEnds`,
`EveryResponseEnds`, `NeverLockedOut`), which is beyond the prover, like `ENABLED`.
Every invariant and every action property the runs check has a theorem.

## Where code and documents disagree

Four runs end in a violation, each of one property that a document or a test
states:

1. `MCWasmRequest_late.cfg`, `AnsweredWhenClosed`. A content handler whose body
   comes later: `run_phase` gives the reader's reference back with
   `ngx_http_finalize_request(r, NGX_DONE)` and returns `NGX_DONE`, which the
   content phase finalizes again. The request is closed without an answer. (For
   a rewrite phase, whose checker does not finalize `NGX_DONE`, the same code is
   right, and `MCWasmRequest_all.cfg` covers it.)
2. `MCWasmRequest_body.cfg`, `GuestSeesBody`. `init_request_exec` clears the ABI
   fields with the body while `request_body_ready` stays set: the second
   phase's guest finds no body.
3. `MCWasmResponse_crash.cfg`, `NeverCrashes`. `body_filter_pending_last` is set
   only where the body filter creates the context itself; with a context from
   the header filter or a phase handler it is null.
4. `MCSubrequest_lost.cfg`, `ParentWaits`. A timeslice that ends between the
   launch and the return of the guest suspends the request with `RESCHEDULE`
   (`docs/design.md:125` says `WAIT_IO`). Its next run begins by clearing
   `yielded` and `suspend_kind`, and continues the call: when the export returns,
   the handler is done, or goes on to the next phase, and the subrequest is
   still active.

Met while modelling, described here without a run:

- A rescheduled request is posted with `ngx_http_post_request`, and
  `ngx_http_run_posted_requests` loops until its list is empty, so the next slice
  runs in the same turn of the event loop. `docs/design.md:115` says "after the
  worker returns to the event loop".
- What follows a file-backed buffer stays in the queue when the file has been
  read: the empty remainder in front of it is processed by queueing the rest
  again (`src/ngx_http_wasm_body_filter.c:365`), which starts no read. Such a
  response stays buffered for ever, though `t/008-body-filter-basic.t:47` says
  "body_filter_by_wasm can transform upstream response bodies";
  `EveryResponseEnds` therefore has the premise `FileComesLast`. With two chains
  behind a file the second may find the first there, and is processed before it
  (`src/ngx_http_wasm_body_filter.c:132` looks at `body_filter_waiting` only): the client
  gets content out of order, and the first chain only if another file is read later. An
  upstream response that goes through a temporary file can be sent so. Such responses
  are part of `MCWasmResponse_all.cfg` (`MoreFollow`); without its premise `~overtaken`,
  `BodyInOrder` is violated there.
- A launch that fails after nginx has posted the subrequest (`LaunchHalf`), or an
  `error_page` of the subrequest with a timeslice between the two calls of the
  done handler, clears `active` while a subrequest runs: a second one may start
  beside it, and the guest may then be given the answer of the first. Both are in
  `MCSubrequest_calls.cfg`; `AnswersTheLastLaunch` says nothing once they have happened
  (`overlapped`), and is violated without that premise.
- A staged header whose name or value could not be copied stays in the array as a
  blank one and is sent with the next launch; `HeadersAsStaged` looks past it.
- When the original balancer has gone over to the backup peers, a guest's index
  counts in that list, and nothing tells the guest. The properties hold all the
  same.
- A header guest that is suspended by its timeslice fails the response; if an
  error page of the same location follows, its header resumes that suspended call.
- A run that yields and then uses up its fuel is reported as a suspension; the
  error comes with the resumption (`docs/design.md:142`).
- A finished subrequest and a post of the parent put the parent in the list
  twice; the second run of the resume handler may find a guest that waits for
  another subrequest and runs it before that one is done (`docs/design.md:119`).
- Keys of different lengths with one crc32 are ordered differently by
  `rbtree_insert_value` (`src/ngx_http_wasm_shm.c:162`, length first) and `lookup`
  (`:216`, content first), although `docs/abi.md:415` says "keys and values are
  opaque bytes with byte-for-byte comparison". `MCShmTree_keys.cfg` has `<<2>>` and
  `<<1, 1>>` in conflict: an entry that is linked is not found, is linked a second
  time by the next store, and a delete of the one brings back the value of the
  other. `LinkedIsFound` names these keys (`InConflict`); that every key is found,
  without the exception, is violated there.
- A metric added by a rejected or an earlier configuration stays usable although
  it is not declared any more (`docs/abi.md:429`).
- `parse_i32` overflows `int32_t` for `-2147483648`, and `gauge_add` may overflow
  `int64_t`; both are undefined in C. `Metrics` lets a gauge take any value then.

## What is not modelled, and the plan

Left out for good: failures of Wasmtime's `get_fuel`, `set_fuel` and
`fuel_async_yield_interval`, which they report only when fuel or async calls are
not enabled, and the engine enables both (`src/ngx_http_wasm_runtime.c:399`); guest
memory copies, header and variable access, response
formatting and logging (data, no interleaving); directive parsing, the merge of
locations and the table of capabilities (computed once, by one thread); loading
and compiling modules, which happens before a worker starts and is immutable
afterwards; what an SSL guest sets on the handshake, which OpenSSL gets in the
same call; a build without threads; guests, tests and build files. nginx and
Wasmtime are external throughout.

Order of the work. The execution of a guest came first because every other part
calls it; the requests next, with the contract between them; then the two
shared zones and the body filter; then what runs synchronously around a response
(header filter, log handler), the balancer, and the subrequests' own state.

1. `Subrequest` composed with `WasmRequest`, which keeps only `active` of it.
2. `parse_i32` and `format_i32` over a reduced width, against a reference.
3. A worker that dies inside a section of the dictionary or of the metrics: nginx
   unlocks the mutex, and the tree and queue may be half changed.
