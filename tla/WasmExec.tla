------------------------------ MODULE WasmExec ------------------------------
(***************************************************************************)
(* The resumable execution of one guest export: ngx_http_wasm_runtime_run  *)
(* and the state it keeps between calls (ngx_http_wasm_exec_ctx_t and      *)
(* ngx_http_wasm_resume_state_t).  One context is modelled.  A run is cut  *)
(* at the points where the C function hands control to Wasmtime            *)
(* (instantiate, call, poll) so that the host functions the guest calls    *)
(* from inside a poll are steps of their own.                              *)
(*                                                                         *)
(* Wasmtime itself is external: it is modelled by what the code relies on, *)
(* namely that guest work consumes fuel, that a poll comes back pending    *)
(* when the yield interval is used up and comes back complete with a       *)
(* result, a trap or an error otherwise.                                   *)
(***************************************************************************)
EXTENDS Naturals

CONSTANTS
  FuelLimit,       \* ctx->fuel_limit, in units of guest work
  TimesliceFuel,   \* ctx->timeslice_fuel; 0 where the caller passes 0
  MayYield         \* the phase has CAP_YIELD and CAP_SUBREQUEST

ASSUME ExecAssumption ==
  /\ FuelLimit \in Nat
  /\ TimesliceFuel \in Nat
  /\ MayYield \in BOOLEAN

VARIABLES
  pc,              \* where runtime_run is; "idle" when it has returned
  state,           \* ctx->state
  suspendKind,     \* ctx->suspend_kind
  yielded,         \* ctx->yielded
  fuelRemaining,   \* ctx->fuel_remaining
  store,           \* resume->store # NULL
  future,          \* what resume->future is running, "none" when it is NULL
  futureKind,      \* resume->future_kind
  instanceReady,   \* resume->instance_ready
  funcReady,       \* resume->func_ready
  trap,            \* resume->trap: "none", "fuel" (out of fuel) or "other"
  error,           \* resume->error # NULL
  result,          \* resume->results[0]
  fuel,            \* external: fuel left in the store (the limit without one)
  slice,           \* external: fuel left before the store yields
  interval,        \* external: the store's async yield interval
  io               \* the subrequest state: "none" or "active"

ctxVars    == <<state, suspendKind, yielded, fuelRemaining>>
handleVars == <<store, instanceReady, funcReady>>
futureVars == <<future, futureKind>>
outVars    == <<trap, error, result>>
engineVars == <<fuel, slice, interval>>
vars == <<pc, ctxVars, handleVars, futureVars, outVars, engineVars, io>>

FutureKinds == {"none", "instantiate", "call"}
States      == {"READY", "RUNNING", "SUSPENDED", "DONE", "ERROR"}
Suspends    == {"NONE", "RESCHEDULE", "WAIT_IO"}
Points      == {"idle", "instantiate", "export", "call", "poll", "pending",
                "complete", "destroyed"}

\* pc is inside ngx_http_wasm_runtime_run().
InRun == pc \notin {"idle", "destroyed"}

LeastOf(a, b) == IF a < b THEN a ELSE b

\* The flags of the code, and the rest.
FlagsOK ==
  /\ yielded \in BOOLEAN
  /\ store \in BOOLEAN
  /\ instanceReady \in BOOLEAN
  /\ funcReady \in BOOLEAN
  /\ error \in BOOLEAN

ValuesOK ==
  /\ pc \in Points
  /\ state \in States
  /\ suspendKind \in Suspends
  /\ fuelRemaining \in 0..FuelLimit
  /\ future \in FutureKinds
  /\ futureKind \in FutureKinds
  /\ trap \in {"none", "fuel", "other"}
  /\ result \in {0, 1}
  /\ fuel \in 0..FuelLimit
  /\ slice \in 0..FuelLimit
  /\ interval \in 0..FuelLimit
  /\ io \in {"none", "active"}

\* Types; the fuel figures never leave 0..FuelLimit, so the unsigned counters
\* of the C code do not wrap.
TypeOK == FlagsOK /\ ValuesOK

-----------------------------------------------------------------------------
(* Helpers of the C function.                                              *)

\* (Operators named ...Mutant are faulty variants of the definition that
\* follows them.  Nothing in the specification uses them: they show that the
\* properties at the end of the module can fail.)

\* begin_run that keeps the reason of the previous suspension.
BeginRunMutant ==
  /\ state' = "RUNNING"
  /\ yielded' = FALSE
  /\ UNCHANGED suspendKind

\* ngx_http_wasm_runtime_begin_run
BeginRun ==
  /\ state' = "RUNNING"
  /\ suspendKind' = "NONE"
  /\ yielded' = FALSE

\* ngx_http_wasm_runtime_suspend
SuspendRun(kind) ==
  /\ state' = "SUSPENDED"
  /\ suspendKind' = kind
  /\ UNCHANGED yielded

\* Every error exit of the function.
FailRun ==
  /\ state' = "ERROR"
  /\ UNCHANGED <<suspendKind, yielded>>

UpdateFuelMutant == UNCHANGED fuelRemaining

\* ngx_http_wasm_runtime_update_fuel
UpdateFuel == fuelRemaining' = fuel

ClearFutureMutant ==
  /\ future' = "none"
  /\ UNCHANGED futureKind

\* ngx_http_wasm_runtime_clear_async_future
ClearFuture ==
  /\ future' = "none"
  /\ futureKind' = "none"

\* ngx_http_wasm_runtime_clear_async_outputs
ClearOutputs ==
  /\ trap' = "none"
  /\ error' = FALSE
  /\ result' = 0

\* ngx_http_wasm_runtime_prepare_async_yield: the interval it configures.
YieldInterval ==
  IF TimesliceFuel > 0 /\ TimesliceFuel < fuelRemaining
  THEN TimesliceFuel ELSE fuelRemaining

\* The failure tests of prepare_async_yield and prepare_async_op.
CannotPrepare ==
  \/ fuelRemaining = 0
  \/ (future = "none") # (futureKind = "none")
  \/ future # "none"

-----------------------------------------------------------------------------
(* The run, from entry to the start of the guest.                          *)

\* The context is READY with its whole budget, as the phase handlers leave it.
Init ==
  /\ pc = "idle"
  /\ state = "READY" /\ suspendKind = "NONE" /\ yielded = FALSE
  /\ fuelRemaining = FuelLimit
  /\ store = FALSE /\ instanceReady = FALSE /\ funcReady = FALSE
  /\ future = "none" /\ futureKind = "none"
  /\ trap = "none" /\ error = FALSE /\ result = 0
  /\ fuel = FuelLimit /\ slice = 0 /\ interval = 0
  /\ io = "none"

\* set_fuel on every run instead of on a new store.
EnterRunMutant ==
  /\ pc = "idle"
  /\ store' = TRUE
  /\ fuel' = FuelLimit
  /\ BeginRun
  /\ pc' = IF instanceReady THEN "export" ELSE "instantiate"
  /\ UNCHANGED <<fuelRemaining, instanceReady, funcReady, futureVars, outVars,
                 slice, interval, io>>

\* runtime_run is called on a context in any state: a phase handler runs it
\* when READY or SUSPENDED, the body filter again after DONE, and the header
\* filter again after ERROR.  A store made by this call gets the whole fuel.
EnterRun ==
  /\ pc = "idle"
  /\ store' = TRUE
  /\ fuel' = IF store THEN fuel ELSE FuelLimit
  /\ BeginRun
  /\ pc' = IF instanceReady THEN "export" ELSE "instantiate"
  /\ UNCHANGED <<fuelRemaining, instanceReady, funcReady, futureVars, outVars,
                 slice, interval, io>>

\* No memory for the resume state, or no store: the run fails before it began.
RefuseRun ==
  /\ pc = "idle"
  /\ ~store
  /\ FailRun
  /\ UNCHANGED <<pc, fuelRemaining, handleVars, futureVars, outVars,
                 engineVars, io>>

\* prepare_async_yield and prepare_async_op, when they pass: the next slice is
\* configured and the outcome of an earlier future is discarded.
Prepare ==
  /\ ~CannotPrepare
  /\ interval' = YieldInterval
  /\ slice' = LeastOf(YieldInterval, fuel)
  /\ ClearOutputs
  /\ UNCHANGED <<fuelRemaining, handleVars, fuel>>

CannotStart ==
  /\ CannotPrepare
  /\ FailRun
  /\ pc' = "idle"
  /\ UNCHANGED <<fuelRemaining, handleVars, futureVars, outVars, engineVars>>

CreateFuture(kind) ==
  /\ Prepare
  /\ future' = kind
  /\ futureKind' = kind
  /\ pc' = "poll"
  /\ UNCHANGED <<state, suspendKind, yielded>>

\* Wasmtime returns no future.
NoFuture ==
  /\ Prepare
  /\ ClearFuture
  /\ FailRun
  /\ pc' = "idle"

StartFuture(kind) == CannotStart \/ CreateFuture(kind) \/ NoFuture

\* A future that survived a timeslice is polled again as it is.
PollAgain ==
  /\ pc' = "poll"
  /\ UNCHANGED <<ctxVars, handleVars, futureVars, outVars, engineVars>>

Instantiate ==
  /\ pc = "instantiate"
  /\ IF future = "none" THEN StartFuture("instantiate") ELSE PollAgain
  /\ UNCHANGED io

\* The export is looked up once; it may be missing or not a function.
ResolveExport ==
  /\ pc = "export"
  /\ \/ /\ funcReady' = TRUE
        /\ pc' = "call"
        /\ UNCHANGED <<state, suspendKind, yielded>>
     \/ /\ ~funcReady
        /\ FailRun
        /\ pc' = "idle"
        /\ UNCHANGED funcReady
  /\ UNCHANGED <<fuelRemaining, store, instanceReady, futureVars, outVars,
                 engineVars, io>>

Call ==
  /\ pc = "call"
  /\ IF future = "none" THEN StartFuture("call") ELSE PollAgain
  /\ UNCHANGED io

-----------------------------------------------------------------------------
(* Inside wasmtime_call_future_poll: the guest and the host functions it   *)
(* calls that touch the execution context.                                 *)

ConsumeMutant ==
  /\ pc = "poll"
  /\ slice' = slice - 1
  /\ fuel' = fuel - 1
  /\ UNCHANGED <<interval, state, fuelRemaining, handleVars, futureVars>>

\* One unit of guest work, out of the current slice.
Consume ==
  /\ pc = "poll"
  /\ slice > 0
  /\ slice' = slice - 1
  /\ fuel' = fuel - 1
  /\ UNCHANGED <<interval, state, fuelRemaining, handleVars, futureVars>>

GuestCompute ==
  /\ Consume
  /\ UNCHANGED <<pc, suspendKind, yielded, outVars, io>>

\* ngx_http_wasm_host_yield: marks the run as yielded; the guest goes on.
HostYield ==
  /\ Consume
  /\ IF MayYield
     THEN /\ yielded' = TRUE
          /\ UNCHANGED <<pc, trap>>
     ELSE /\ trap' = "other"
          /\ pc' = "complete"
          /\ UNCHANGED yielded
  /\ UNCHANGED <<suspendKind, error, result, io>>

\* ngx_http_wasm_host_subreq: the launch is refused while one is active, and
\* may fail; a launched subrequest asks for the run to wait for it.
HostSubreq ==
  /\ Consume
  /\ IF MayYield
     THEN /\ \/ /\ io = "none"
                /\ io' = "active"
                /\ yielded' = TRUE
                /\ suspendKind' = "WAIT_IO"
             \/ UNCHANGED <<io, yielded, suspendKind>>
          /\ UNCHANGED <<pc, trap>>
     ELSE /\ trap' = "other"
          /\ pc' = "complete"
          /\ UNCHANGED <<io, yielded, suspendKind>>
  /\ UNCHANGED <<error, result>>

\* The export returns 0 or not, or traps.
GuestReturn ==
  /\ Consume
  /\ future = "call"
  /\ pc' = "complete"
  /\ \/ result' \in {0, 1} /\ UNCHANGED trap
     \/ trap' = "other" /\ UNCHANGED result
  /\ UNCHANGED <<suspendKind, yielded, error, io>>

\* Instantiation completes (a module without a start function does no guest
\* work), or its start function traps.
InstantiateReturn ==
  /\ pc = "poll"
  /\ future = "instantiate"
  /\ pc' = "complete"
  /\ trap' \in {"none", "other"}
  /\ UNCHANGED <<ctxVars, handleVars, futureVars, error, result, engineVars,
                 io>>

\* The call fails inside Wasmtime.
EngineError ==
  /\ pc = "poll"
  /\ error' = TRUE
  /\ pc' = "complete"
  /\ UNCHANGED <<ctxVars, handleVars, futureVars, trap, result, engineVars, io>>

\* The slice is used up: with fuel left the poll is pending and the next slice
\* is ready; without any, it completes with an out-of-fuel trap.
SliceEnds ==
  /\ pc = "poll"
  /\ slice = 0
  /\ \/ /\ pc' = "pending"
        /\ slice' = LeastOf(interval, fuel)
        /\ UNCHANGED trap
     \/ /\ fuel = 0
        /\ pc' = "complete"
        /\ trap' = "fuel"
        /\ UNCHANGED slice
  /\ UNCHANGED <<ctxVars, handleVars, futureVars, error, result, fuel,
                 interval, io>>

-----------------------------------------------------------------------------
(* What the function does with the outcome of the poll.                    *)

\* The future is deleted although the poll is pending.
PollPendingMutant ==
  /\ pc = "pending"
  /\ ClearFuture
  /\ UpdateFuel
  /\ IF fuel = 0 THEN FailRun ELSE SuspendRun("RESCHEDULE")
  /\ pc' = "idle"
  /\ UNCHANGED <<handleVars, outVars, engineVars, io>>

\* The future is kept; only an exhausted budget turns this into an error.
PollPending ==
  /\ pc = "pending"
  /\ UpdateFuel
  /\ IF fuel = 0 THEN FailRun ELSE SuspendRun("RESCHEDULE")
  /\ pc' = "idle"
  /\ UNCHANGED <<handleVars, futureVars, outVars, engineVars, io>>

\* Only the failure that is reported is released and cleared.
InstantiateComplete ==
  /\ pc = "complete"
  /\ future = "instantiate"
  /\ ClearFuture
  /\ UpdateFuel
  /\ IF error \/ trap # "none"
     THEN /\ FailRun
          /\ error' = FALSE
          /\ trap' = IF error THEN trap ELSE "none"
          /\ pc' = "idle"
          /\ UNCHANGED instanceReady
     ELSE /\ instanceReady' = TRUE
          /\ pc' = "export"
          /\ UNCHANGED <<state, suspendKind, yielded, error, trap>>
  /\ UNCHANGED <<store, funcReady, result, engineVars, io>>

\* The yield the guest asked for is not looked at.
CallOutcomeMutant ==
  IF error THEN "error"
  ELSE IF trap # "none" THEN "trap"
  ELSE IF result # 0 THEN "nonzero" ELSE "ok"

\* How a completed call ends, in the order the code tests it: an engine error,
\* then a yield the guest asked for, then a trap, then a nonzero result.
CallOutcome ==
  IF error THEN "error"
  ELSE IF yielded THEN "yield"
  ELSE IF trap # "none" THEN "trap"
  ELSE IF result # 0 THEN "nonzero" ELSE "ok"

CallComplete ==
  /\ pc = "complete"
  /\ future = "call"
  /\ ClearFuture
  /\ UpdateFuel
  /\ error' = FALSE
  /\ trap' = IF ~error /\ ~yielded THEN "none" ELSE trap
  /\ CASE CallOutcome = "yield" ->
            SuspendRun(IF suspendKind = "NONE" THEN "RESCHEDULE"
                       ELSE suspendKind)
       [] CallOutcome = "ok" ->
            state' = "DONE" /\ UNCHANGED <<suspendKind, yielded>>
       [] OTHER -> FailRun
  /\ pc' = "idle"
  /\ UNCHANGED <<handleVars, result, engineVars, io>>

-----------------------------------------------------------------------------
(* The rest of nginx, between runs.                                        *)

\* ngx_http_wasm_runtime_reset_resume_state
ResetResumeState ==
  /\ ClearFuture
  /\ ClearOutputs
  /\ store' = FALSE
  /\ instanceReady' = FALSE
  /\ funcReady' = FALSE

\* ngx_http_wasm_init_request_exec, for the next phase of the same request.
InitRequestExec ==
  /\ pc = "idle"
  /\ state = "DONE"
  /\ ResetResumeState
  /\ state' = "READY"
  /\ suspendKind' = "NONE"
  /\ yielded' = FALSE
  /\ fuelRemaining' = FuelLimit
  /\ fuel' = FuelLimit /\ slice' = 0 /\ interval' = 0
  /\ UNCHANGED <<pc, io>>

\* ngx_http_wasm_abi_subrequest_done, from the event loop.
SubrequestDone ==
  /\ pc = "idle"
  /\ io = "active"
  /\ io' = "none"
  /\ UNCHANGED <<pc, ctxVars, handleVars, futureVars, outVars, engineVars>>

\* ngx_http_wasm_runtime_cleanup_exec_ctx, when the request pool goes away:
\* in any state, a suspended one included.
Cleanup ==
  /\ pc = "idle"
  /\ ResetResumeState
  /\ pc' = "destroyed"
  /\ UNCHANGED <<ctxVars, engineVars, io>>

\* The steps of the function itself and of the guest it polls.
RunStep ==
  \/ Instantiate \/ ResolveExport \/ Call
  \/ GuestCompute \/ HostYield \/ HostSubreq
  \/ GuestReturn \/ InstantiateReturn \/ EngineError \/ SliceEnds
  \/ PollPending \/ InstantiateComplete \/ CallComplete

Next ==
  \/ EnterRun \/ RefuseRun
  \/ RunStep
  \/ InitRequestExec \/ SubrequestDone \/ Cleanup

Spec == Init /\ [][Next]_vars

\* The worker executes the C function to its end, and the caller runs a
\* suspended context again or the pool goes away.
Resume == state = "SUSPENDED" /\ (EnterRun \/ Cleanup)

FairSpec == Spec /\ WF_vars(RunStep) /\ WF_vars(Resume)

-----------------------------------------------------------------------------
(* Properties.                                                             *)

\* "At most one future may be live for a store at a time" and every handle
\* is borrowed from the store (the comments of resume_state_s): a live future
\* is the one future_kind names, it has a store, and it belongs to the step
\* the ready bits say is not finished yet.  Nothing survives the cleanup.
FutureOwned ==
  /\ future = futureKind
  /\ funcReady => instanceReady
  /\ instanceReady \/ future # "none" => store
  /\ future = "instantiate" => ~instanceReady
  /\ future = "call" => funcReady
  /\ pc = "destroyed" => ~store /\ trap = "none" /\ ~error

\* A context runtime_run leaves suspended can be run again where it stopped:
\* its store is kept, and either a future with fuel to go on is alive (a
\* timeslice) or the call came back and asked to be called again (a yield).
ResumableSuspension ==
  state = "SUSPENDED" /\ pc = "idle" =>
    /\ store
    /\ \/ future # "none" /\ fuelRemaining > 0
       \/ future = "none" /\ funcReady /\ yielded

\* The fuel the context reports is the fuel its store has left whenever
\* runtime_run has returned, and never less than it while the guest runs.
FuelAccounted ==
  /\ fuel <= fuelRemaining
  /\ pc = "idle" => fuelRemaining = fuel

\* runtime_run reports DONE only for a call that came back by itself with 0:
\* no yield of that run, and no trap or error of that call or an earlier one.
DoneMeansReturnedZero ==
  state = "DONE" /\ pc = "idle" =>
    ~yielded /\ trap = "none" /\ ~error /\ result = 0 /\ future = "none"

\* The phases that pass timeslice_fuel 0 and lack CAP_YIELD (log, balancer,
\* SSL hooks) never see a suspension, so their callers may treat it as failure.
SynchronousPhase ==
  ~MayYield /\ TimesliceFuel = 0 => state # "SUSPENDED"

\* The inductive invariant the theorems of WasmExecProofs rest on: the
\* invariants above, and what holds at each point of the function that makes
\* them survive the next step.
RunPoints ==
  /\ InRun => store /\ state = "RUNNING"
  /\ ~InRun => state # "RUNNING"
  /\ pc = "instantiate" => ~instanceReady /\ ~yielded
  /\ pc = "export" => instanceReady
  /\ pc = "call" => funcReady
  /\ pc \in {"export", "call"} /\ future # "none" => ~yielded
  /\ pc \in {"poll", "pending", "complete"} => future # "none"
  /\ InRun /\ ~yielded => suspendKind = "NONE"

\* What a poll may have written is clean while a future is being polled.
OutputsClean ==
  /\ future # "none" /\ pc # "complete" => trap = "none" /\ result = 0
  /\ error => pc = "complete"

\* How the slice, the store's fuel and the fuel the context knows are related.
FuelPoints ==
  /\ slice <= fuel
  /\ fuel <= fuelRemaining
  /\ pc \in {"idle", "instantiate", "export", "call"} => fuelRemaining = fuel
  /\ ~store /\ pc # "destroyed" => fuel = FuelLimit
  /\ future # "none" => interval > 0
  /\ future # "none" /\ pc \notin {"poll", "complete"} /\ fuel > 0 => slice > 0
  /\ pc = "poll" /\ slice = 0 =>
       fuel < fuelRemaining \/ (fuel = 0 /\ ~yielded)
  /\ pc = "pending" => fuel < fuelRemaining \/ fuel = 0
  /\ pc = "complete" /\ future = "call" /\ ~error /\ (yielded \/ trap = "none")
       => fuel < fuelRemaining

\* Without a timeslice the slice is all the fuel, without CAP_YIELD no yield.
SynchronousPoints ==
  /\ ~MayYield => ~yielded
  /\ TimesliceFuel = 0 /\ future # "none" => slice = fuel
  /\ TimesliceFuel = 0 /\ pc = "pending" => fuel = 0

IInv ==
  /\ TypeOK
  /\ FutureOwned
  /\ ResumableSuspension
  /\ DoneMeansReturnedZero
  /\ SynchronousPhase
  /\ RunPoints
  /\ OutputsClean
  /\ FuelPoints
  /\ SynchronousPoints

\* One budget for all the runs of a context: while the store lives no resume
\* gives the guest fuel back.
BudgetNeverRefilled == [][store /\ store' => fuel' <= fuel]_vars

\* A call that was interrupted is continued, not restarted: its future goes
\* away only once the poll has completed or the context is cleaned up.
InterruptedCallSurvives ==
  [][future = "call" /\ future' = "none" => pc = "complete" \/ pc' = "destroyed"]_vars

\* "Rather than rescheduling forever" (docs/design.md): a suspended context
\* that its caller keeps running ends, one way or the other.
SuspensionEnds ==
  state = "SUSPENDED" ~> (state \in {"DONE", "ERROR"} \/ pc = "destroyed")

\* runtime_run keeps the promise its callers are written against.
Contract == INSTANCE ExecContract WITH
  Budget    <- FuelLimit,
  status    <- IF pc = "destroyed" THEN "DESTROYED" ELSE state,
  wait      <- suspendKind,
  spent     <- FuelLimit - fuel,
  accounted <- FuelLimit - fuelRemaining

ImplementsContract == Contract!Spec
=============================================================================
