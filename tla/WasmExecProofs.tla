--------------------------- MODULE WasmExecProofs ---------------------------
(***************************************************************************)
(* Theorems about WasmExec, for every fuel limit, every timeslice and both *)
(* kinds of phase.  IInv (in WasmExec) is the inductive invariant: the     *)
(* initial states satisfy it (InitIInv), every action keeps it (one lemma  *)
(* per action), and it implies each of the safety properties.  The two     *)
(* action properties and the refinement of ExecContract are then facts     *)
(* about one step taken from a state that satisfies IInv.                  *)
(***************************************************************************)
EXTENDS WasmExec, TLAPS

\* A context that a phase handler has just initialised satisfies the invariant.
LEMMA InitIInv == Init => IInv
<1> SUFFICES ASSUME Init PROVE IInv
  OBVIOUS
<1>1. FlagsOK
  BY Zenon DEF Init, FlagsOK
<1>2. ValuesOK
  BY ExecAssumption, SMTT(20) DEF Init, ValuesOK, Points, States, Suspends,
     FutureKinds
<1>3. FutureOwned /\ ResumableSuspension /\ DoneMeansReturnedZero
  BY DEF Init, FutureOwned, ResumableSuspension, DoneMeansReturnedZero
<1>4. SynchronousPhase /\ RunPoints /\ OutputsClean
  BY DEF Init, SynchronousPhase, RunPoints, OutputsClean, InRun
<1>5. FuelPoints /\ SynchronousPoints
  BY ExecAssumption DEF Init, FuelPoints, SynchronousPoints
<1> QED BY <1>1, <1>2, <1>3, <1>4, <1>5 DEF IInv, TypeOK

-----------------------------------------------------------------------------
(* One lemma per action.  The steps of each are the groups of conjuncts of *)
(* IInv: the flags, the other types, the control points, the fuel figures  *)
(* and the properties of a context that is not running.                    *)

\* runtime_run is entered, with a new store or the one it kept.
LEMMA EnterRunIInv == IInv /\ EnterRun => IInv'
<1> SUFFICES ASSUME IInv, EnterRun PROVE IInv'
  OBVIOUS
<1>1. FlagsOK'
  BY Zenon DEF IInv, TypeOK, FlagsOK, EnterRun, BeginRun, futureVars, outVars
<1>2. ValuesOK'
  BY ExecAssumption, SMTT(20) DEF IInv, TypeOK, ValuesOK, Points, States,
     Suspends, FutureKinds, EnterRun, BeginRun, futureVars, outVars
<1>3. FutureOwned' /\ RunPoints' /\ OutputsClean'
  BY SMTT(20) DEF IInv, FutureOwned, RunPoints, OutputsClean, InRun, EnterRun,
     BeginRun, futureVars, outVars
<1>4. FuelPoints' /\ SynchronousPoints'
  BY ExecAssumption, SMTT(20) DEF IInv, TypeOK, ValuesOK, FutureOwned,
     RunPoints, OutputsClean, InRun, FuelPoints, SynchronousPoints, EnterRun,
     BeginRun, futureVars, outVars
<1>5. ResumableSuspension' /\ DoneMeansReturnedZero' /\ SynchronousPhase'
  BY ExecAssumption, SMTT(20) DEF IInv, TypeOK, ValuesOK, FutureOwned,
     RunPoints, OutputsClean, InRun, FuelPoints, SynchronousPoints,
     ResumableSuspension, DoneMeansReturnedZero, SynchronousPhase, EnterRun,
     BeginRun, futureVars, outVars
<1> QED
  BY <1>1, <1>2, <1>3, <1>4, <1>5 DEF IInv, TypeOK

\* runtime_run cannot make its store or its resume state.
LEMMA RefuseRunIInv == IInv /\ RefuseRun => IInv'
<1> SUFFICES ASSUME IInv, RefuseRun PROVE IInv'
  OBVIOUS
<1>1. FlagsOK'
  BY Zenon DEF IInv, TypeOK, FlagsOK, RefuseRun, FailRun, handleVars,
     futureVars, outVars, engineVars
<1>2. ValuesOK'
  BY ExecAssumption, SMTT(20) DEF IInv, TypeOK, ValuesOK, Points, States,
     Suspends, FutureKinds, RefuseRun, FailRun, handleVars, futureVars,
     outVars, engineVars
<1>3. FutureOwned' /\ RunPoints' /\ OutputsClean'
  BY SMTT(20) DEF IInv, FutureOwned, RunPoints, OutputsClean, InRun,
     RefuseRun, FailRun, handleVars, futureVars, outVars, engineVars
<1>4. FuelPoints' /\ SynchronousPoints'
  BY ExecAssumption, SMTT(20) DEF IInv, TypeOK, ValuesOK, FutureOwned,
     RunPoints, OutputsClean, InRun, FuelPoints, SynchronousPoints, RefuseRun,
     FailRun, handleVars, futureVars, outVars, engineVars
<1>5. ResumableSuspension' /\ DoneMeansReturnedZero' /\ SynchronousPhase'
  BY ExecAssumption, SMTT(20) DEF IInv, TypeOK, ValuesOK, FutureOwned,
     RunPoints, OutputsClean, InRun, FuelPoints, SynchronousPoints,
     ResumableSuspension, DoneMeansReturnedZero, SynchronousPhase, RefuseRun,
     FailRun, handleVars, futureVars, outVars, engineVars
<1> QED
  BY <1>1, <1>2, <1>3, <1>4, <1>5 DEF IInv, TypeOK

\* The export is looked up.
LEMMA ResolveExportIInv == IInv /\ ResolveExport => IInv'
<1> SUFFICES ASSUME IInv, ResolveExport PROVE IInv'
  OBVIOUS
<1>1. FlagsOK'
  BY Zenon DEF IInv, TypeOK, FlagsOK, ResolveExport, FailRun, futureVars,
     outVars, engineVars
<1>2. ValuesOK'
  BY ExecAssumption, SMTT(20) DEF IInv, TypeOK, ValuesOK, Points, States,
     Suspends, FutureKinds, ResolveExport, FailRun, futureVars, outVars,
     engineVars
<1>3. FutureOwned' /\ RunPoints' /\ OutputsClean'
  BY SMTT(20) DEF IInv, FutureOwned, RunPoints, OutputsClean, InRun,
     ResolveExport, FailRun, futureVars, outVars, engineVars
<1>4. FuelPoints' /\ SynchronousPoints'
  BY ExecAssumption, SMTT(20) DEF IInv, TypeOK, ValuesOK, FutureOwned,
     RunPoints, OutputsClean, InRun, FuelPoints, SynchronousPoints,
     ResolveExport, FailRun, futureVars, outVars, engineVars
<1>5. ResumableSuspension' /\ DoneMeansReturnedZero' /\ SynchronousPhase'
  BY ExecAssumption, SMTT(20) DEF IInv, TypeOK, ValuesOK, FutureOwned,
     RunPoints, OutputsClean, InRun, FuelPoints, SynchronousPoints,
     ResumableSuspension, DoneMeansReturnedZero, SynchronousPhase,
     ResolveExport, FailRun, futureVars, outVars, engineVars
<1> QED
  BY <1>1, <1>2, <1>3, <1>4, <1>5 DEF IInv, TypeOK

\* The guest works inside a poll.
LEMMA GuestComputeIInv == IInv /\ GuestCompute => IInv'
<1> SUFFICES ASSUME IInv, GuestCompute PROVE IInv'
  OBVIOUS
<1>1. FlagsOK'
  BY Zenon DEF IInv, TypeOK, FlagsOK, GuestCompute, Consume, handleVars,
     futureVars, outVars
<1>2. ValuesOK'
  BY ExecAssumption, SMTT(20) DEF IInv, TypeOK, ValuesOK, Points, States,
     Suspends, FutureKinds, FuelPoints, GuestCompute, Consume, handleVars,
     futureVars, outVars
<1>3. FutureOwned' /\ RunPoints' /\ OutputsClean'
  BY SMTT(20) DEF IInv, FutureOwned, RunPoints, OutputsClean, InRun,
     GuestCompute, Consume, handleVars, futureVars, outVars
<1>4. FuelPoints' /\ SynchronousPoints'
  BY ExecAssumption, SMTT(20) DEF IInv, TypeOK, ValuesOK, FutureOwned,
     RunPoints, OutputsClean, InRun, FuelPoints, SynchronousPoints,
     GuestCompute, Consume, handleVars, futureVars, outVars
<1>5. ResumableSuspension' /\ DoneMeansReturnedZero' /\ SynchronousPhase'
  BY ExecAssumption, SMTT(20) DEF IInv, TypeOK, ValuesOK, FutureOwned,
     RunPoints, OutputsClean, InRun, FuelPoints, SynchronousPoints,
     ResumableSuspension, DoneMeansReturnedZero, SynchronousPhase,
     GuestCompute, Consume, handleVars, futureVars, outVars
<1> QED
  BY <1>1, <1>2, <1>3, <1>4, <1>5 DEF IInv, TypeOK

\* The guest calls ngx_wasm_yield inside a poll.
LEMMA HostYieldIInv == IInv /\ HostYield => IInv'
<1> SUFFICES ASSUME IInv, HostYield PROVE IInv'
  OBVIOUS
<1>1. FlagsOK'
  BY Zenon DEF IInv, TypeOK, FlagsOK, HostYield, Consume, handleVars,
     futureVars
<1>2. ValuesOK'
  BY ExecAssumption, SMTT(20) DEF IInv, TypeOK, ValuesOK, Points, States,
     Suspends, FutureKinds, FuelPoints, HostYield, Consume, handleVars,
     futureVars
<1>3. FutureOwned' /\ RunPoints' /\ OutputsClean'
  BY SMTT(20) DEF IInv, FutureOwned, RunPoints, OutputsClean, InRun,
     HostYield, Consume, handleVars, futureVars
<1>4. FuelPoints' /\ SynchronousPoints'
  BY ExecAssumption, SMTT(20) DEF IInv, TypeOK, ValuesOK, FutureOwned,
     RunPoints, OutputsClean, InRun, FuelPoints, SynchronousPoints, HostYield,
     Consume, handleVars, futureVars
<1>5. ResumableSuspension' /\ DoneMeansReturnedZero' /\ SynchronousPhase'
  BY ExecAssumption, SMTT(20) DEF IInv, TypeOK, ValuesOK, FutureOwned,
     RunPoints, OutputsClean, InRun, FuelPoints, SynchronousPoints,
     ResumableSuspension, DoneMeansReturnedZero, SynchronousPhase, HostYield,
     Consume, handleVars, futureVars
<1> QED
  BY <1>1, <1>2, <1>3, <1>4, <1>5 DEF IInv, TypeOK

\* The guest calls ngx_wasm_subreq inside a poll.
LEMMA HostSubreqIInv == IInv /\ HostSubreq => IInv'
<1> SUFFICES ASSUME IInv, HostSubreq PROVE IInv'
  OBVIOUS
<1>1. FlagsOK'
  BY Zenon DEF IInv, TypeOK, FlagsOK, HostSubreq, Consume, handleVars,
     futureVars
<1>2. ValuesOK'
  BY ExecAssumption, SMTT(20) DEF IInv, TypeOK, ValuesOK, Points, States,
     Suspends, FutureKinds, FuelPoints, HostSubreq, Consume, handleVars,
     futureVars
<1>3. FutureOwned' /\ RunPoints' /\ OutputsClean'
  BY SMTT(20) DEF IInv, FutureOwned, RunPoints, OutputsClean, InRun,
     HostSubreq, Consume, handleVars, futureVars
<1>4. FuelPoints' /\ SynchronousPoints'
  BY ExecAssumption, SMTT(20) DEF IInv, TypeOK, ValuesOK, FutureOwned,
     RunPoints, OutputsClean, InRun, FuelPoints, SynchronousPoints,
     HostSubreq, Consume, handleVars, futureVars
<1>5. ResumableSuspension' /\ DoneMeansReturnedZero' /\ SynchronousPhase'
  BY ExecAssumption, SMTT(20) DEF IInv, TypeOK, ValuesOK, FutureOwned,
     RunPoints, OutputsClean, InRun, FuelPoints, SynchronousPoints,
     ResumableSuspension, DoneMeansReturnedZero, SynchronousPhase, HostSubreq,
     Consume, handleVars, futureVars
<1> QED
  BY <1>1, <1>2, <1>3, <1>4, <1>5 DEF IInv, TypeOK

\* The export returns or traps.
LEMMA GuestReturnIInv == IInv /\ GuestReturn => IInv'
<1> SUFFICES ASSUME IInv, GuestReturn PROVE IInv'
  OBVIOUS
<1>1. FlagsOK'
  BY Zenon DEF IInv, TypeOK, FlagsOK, GuestReturn, Consume, handleVars,
     futureVars
<1>2. ValuesOK'
  BY ExecAssumption, SMTT(20) DEF IInv, TypeOK, ValuesOK, Points, States,
     Suspends, FutureKinds, FuelPoints, GuestReturn, Consume, handleVars,
     futureVars
<1>3. FutureOwned' /\ RunPoints' /\ OutputsClean'
  BY SMTT(20) DEF IInv, FutureOwned, RunPoints, OutputsClean, InRun,
     GuestReturn, Consume, handleVars, futureVars
<1>4. FuelPoints' /\ SynchronousPoints'
  BY ExecAssumption, SMTT(20) DEF IInv, TypeOK, ValuesOK, FutureOwned,
     RunPoints, OutputsClean, InRun, FuelPoints, SynchronousPoints,
     GuestReturn, Consume, handleVars, futureVars
<1>5. ResumableSuspension' /\ DoneMeansReturnedZero' /\ SynchronousPhase'
  BY ExecAssumption, SMTT(20) DEF IInv, TypeOK, ValuesOK, FutureOwned,
     RunPoints, OutputsClean, InRun, FuelPoints, SynchronousPoints,
     ResumableSuspension, DoneMeansReturnedZero, SynchronousPhase,
     GuestReturn, Consume, handleVars, futureVars
<1> QED
  BY <1>1, <1>2, <1>3, <1>4, <1>5 DEF IInv, TypeOK

\* Instantiation completes or traps.
LEMMA InstantiateReturnIInv == IInv /\ InstantiateReturn => IInv'
<1> SUFFICES ASSUME IInv, InstantiateReturn PROVE IInv'
  OBVIOUS
<1>1. FlagsOK'
  BY Zenon DEF IInv, TypeOK, FlagsOK, InstantiateReturn, ctxVars, handleVars,
     futureVars, engineVars
<1>2. ValuesOK'
  BY ExecAssumption, SMTT(20) DEF IInv, TypeOK, ValuesOK, Points, States,
     Suspends, FutureKinds, InstantiateReturn, ctxVars, handleVars,
     futureVars, engineVars
<1>3. FutureOwned' /\ RunPoints' /\ OutputsClean'
  <2>1. FutureOwned'
    <3>1. pc' # "destroyed" /\ UNCHANGED <<handleVars, futureVars>>
      BY DEF InstantiateReturn
    <3> QED
      BY <3>1, SMTT(20) DEF IInv, FutureOwned, handleVars, futureVars
  <2>2. RunPoints'
    BY SMTT(20) DEF IInv, RunPoints, InRun, InstantiateReturn, ctxVars,
       handleVars, futureVars, engineVars
  <2>3. OutputsClean'
    BY SMTT(20) DEF IInv, OutputsClean, InRun, InstantiateReturn, ctxVars,
       handleVars, futureVars, engineVars
  <2> QED BY <2>1, <2>2, <2>3
<1>4. FuelPoints' /\ SynchronousPoints'
  BY ExecAssumption, SMTT(20) DEF IInv, TypeOK, ValuesOK, FutureOwned,
     RunPoints, OutputsClean, InRun, FuelPoints, SynchronousPoints,
     InstantiateReturn, ctxVars, handleVars, futureVars, engineVars
<1>5. ResumableSuspension' /\ DoneMeansReturnedZero' /\ SynchronousPhase'
  BY ExecAssumption, SMTT(20) DEF IInv, TypeOK, ValuesOK, FutureOwned,
     RunPoints, OutputsClean, InRun, FuelPoints, SynchronousPoints,
     ResumableSuspension, DoneMeansReturnedZero, SynchronousPhase,
     InstantiateReturn, ctxVars, handleVars, futureVars, engineVars
<1> QED
  BY <1>1, <1>2, <1>3, <1>4, <1>5 DEF IInv, TypeOK

\* A poll completes with an error.
LEMMA EngineErrorIInv == IInv /\ EngineError => IInv'
<1> SUFFICES ASSUME IInv, EngineError PROVE IInv'
  OBVIOUS
<1>1. FlagsOK'
  BY Zenon DEF IInv, TypeOK, FlagsOK, EngineError, ctxVars, handleVars,
     futureVars, engineVars
<1>2. ValuesOK'
  BY ExecAssumption, SMTT(20) DEF IInv, TypeOK, ValuesOK, Points, States,
     Suspends, FutureKinds, EngineError, ctxVars, handleVars, futureVars,
     engineVars
<1>3. FutureOwned' /\ RunPoints' /\ OutputsClean'
  BY SMTT(20) DEF IInv, FutureOwned, RunPoints, OutputsClean, InRun,
     EngineError, ctxVars, handleVars, futureVars, engineVars
<1>4. FuelPoints' /\ SynchronousPoints'
  BY ExecAssumption, SMTT(20) DEF IInv, TypeOK, ValuesOK, FutureOwned,
     RunPoints, OutputsClean, InRun, FuelPoints, SynchronousPoints,
     EngineError, ctxVars, handleVars, futureVars, engineVars
<1>5. ResumableSuspension' /\ DoneMeansReturnedZero' /\ SynchronousPhase'
  BY ExecAssumption, SMTT(20) DEF IInv, TypeOK, ValuesOK, FutureOwned,
     RunPoints, OutputsClean, InRun, FuelPoints, SynchronousPoints,
     ResumableSuspension, DoneMeansReturnedZero, SynchronousPhase,
     EngineError, ctxVars, handleVars, futureVars, engineVars
<1> QED
  BY <1>1, <1>2, <1>3, <1>4, <1>5 DEF IInv, TypeOK

\* A poll is pending at the end of its slice, or out of fuel.
LEMMA SliceEndsIInv == IInv /\ SliceEnds => IInv'
<1> SUFFICES ASSUME IInv, SliceEnds PROVE IInv'
  OBVIOUS
<1>1. FlagsOK'
  BY Zenon DEF IInv, TypeOK, FlagsOK, SliceEnds, LeastOf, ctxVars, handleVars,
     futureVars
<1>2. ValuesOK'
  BY ExecAssumption, SMTT(20) DEF IInv, TypeOK, ValuesOK, Points, States,
     Suspends, FutureKinds, SliceEnds, LeastOf, ctxVars, handleVars,
     futureVars
<1>3. FutureOwned' /\ RunPoints' /\ OutputsClean'
  BY SMTT(20) DEF IInv, FutureOwned, RunPoints, OutputsClean, InRun,
     SliceEnds, LeastOf, ctxVars, handleVars, futureVars
<1>4. FuelPoints' /\ SynchronousPoints'
  BY ExecAssumption, SMTT(20) DEF IInv, TypeOK, ValuesOK, FutureOwned,
     RunPoints, OutputsClean, InRun, FuelPoints, SynchronousPoints, SliceEnds,
     LeastOf, ctxVars, handleVars, futureVars
<1>5. ResumableSuspension' /\ DoneMeansReturnedZero' /\ SynchronousPhase'
  BY ExecAssumption, SMTT(20) DEF IInv, TypeOK, ValuesOK, FutureOwned,
     RunPoints, OutputsClean, InRun, FuelPoints, SynchronousPoints,
     ResumableSuspension, DoneMeansReturnedZero, SynchronousPhase, SliceEnds,
     LeastOf, ctxVars, handleVars, futureVars
<1> QED
  BY <1>1, <1>2, <1>3, <1>4, <1>5 DEF IInv, TypeOK

\* runtime_run returns from a pending poll.
LEMMA PollPendingIInv == IInv /\ PollPending => IInv'
<1> SUFFICES ASSUME IInv, PollPending PROVE IInv'
  OBVIOUS
<1>1. FlagsOK'
  BY Zenon DEF IInv, TypeOK, FlagsOK, PollPending, UpdateFuel, FailRun,
     SuspendRun, handleVars, futureVars, outVars, engineVars
<1>2. ValuesOK'
  BY ExecAssumption, SMTT(20) DEF IInv, TypeOK, ValuesOK, Points, States,
     Suspends, FutureKinds, PollPending, UpdateFuel, FailRun, SuspendRun,
     handleVars, futureVars, outVars, engineVars
<1>3. FutureOwned' /\ RunPoints' /\ OutputsClean'
  BY SMTT(20) DEF IInv, FutureOwned, RunPoints, OutputsClean, InRun,
     PollPending, UpdateFuel, FailRun, SuspendRun, handleVars, futureVars,
     outVars, engineVars
<1>4. FuelPoints' /\ SynchronousPoints'
  BY ExecAssumption, SMTT(20) DEF IInv, TypeOK, ValuesOK, FutureOwned,
     RunPoints, OutputsClean, InRun, FuelPoints, SynchronousPoints,
     PollPending, UpdateFuel, FailRun, SuspendRun, handleVars, futureVars,
     outVars, engineVars
<1>5. ResumableSuspension' /\ DoneMeansReturnedZero' /\ SynchronousPhase'
  BY ExecAssumption, SMTT(20) DEF IInv, TypeOK, ValuesOK, FutureOwned,
     RunPoints, OutputsClean, InRun, FuelPoints, SynchronousPoints,
     ResumableSuspension, DoneMeansReturnedZero, SynchronousPhase,
     PollPending, UpdateFuel, FailRun, SuspendRun, handleVars, futureVars,
     outVars, engineVars
<1> QED
  BY <1>1, <1>2, <1>3, <1>4, <1>5 DEF IInv, TypeOK

\* runtime_run takes the outcome of an instantiation.
LEMMA InstantiateCompleteIInv == IInv /\ InstantiateComplete => IInv'
<1> SUFFICES ASSUME IInv, InstantiateComplete PROVE IInv'
  OBVIOUS
<1>1. FlagsOK'
  BY Zenon DEF IInv, TypeOK, FlagsOK, InstantiateComplete, ClearFuture,
     UpdateFuel, FailRun, engineVars
<1>2. ValuesOK'
  BY ExecAssumption, SMTT(20) DEF IInv, TypeOK, ValuesOK, Points, States,
     Suspends, FutureKinds, InstantiateComplete, ClearFuture, UpdateFuel,
     FailRun, engineVars
<1>3. FutureOwned' /\ RunPoints' /\ OutputsClean'
  BY SMTT(20) DEF IInv, FutureOwned, RunPoints, OutputsClean, InRun,
     InstantiateComplete, ClearFuture, UpdateFuel, FailRun, engineVars
<1>4. FuelPoints' /\ SynchronousPoints'
  BY ExecAssumption, SMTT(20) DEF IInv, TypeOK, ValuesOK, FutureOwned,
     RunPoints, OutputsClean, InRun, FuelPoints, SynchronousPoints,
     InstantiateComplete, ClearFuture, UpdateFuel, FailRun, engineVars
<1>5. ResumableSuspension' /\ DoneMeansReturnedZero' /\ SynchronousPhase'
  BY ExecAssumption, SMTT(20) DEF IInv, TypeOK, ValuesOK, FutureOwned,
     RunPoints, OutputsClean, InRun, FuelPoints, SynchronousPoints,
     ResumableSuspension, DoneMeansReturnedZero, SynchronousPhase,
     InstantiateComplete, ClearFuture, UpdateFuel, FailRun, engineVars
<1> QED
  BY <1>1, <1>2, <1>3, <1>4, <1>5 DEF IInv, TypeOK

\* runtime_run takes the outcome of a call.
LEMMA CallCompleteIInv == IInv /\ CallComplete => IInv'
<1> SUFFICES ASSUME IInv, CallComplete PROVE IInv'
  OBVIOUS
<1>1. FlagsOK'
  BY Zenon DEF IInv, TypeOK, FlagsOK, CallComplete, ClearFuture, UpdateFuel,
     FailRun, SuspendRun, CallOutcome, handleVars, engineVars
<1>2. ValuesOK'
  BY ExecAssumption, SMTT(20) DEF IInv, TypeOK, ValuesOK, Points, States,
     Suspends, FutureKinds, CallComplete, ClearFuture, UpdateFuel, FailRun,
     SuspendRun, CallOutcome, handleVars, engineVars
<1>3. FutureOwned' /\ RunPoints' /\ OutputsClean'
  BY SMTT(20) DEF IInv, FutureOwned, RunPoints, OutputsClean, InRun,
     CallComplete, ClearFuture, UpdateFuel, FailRun, SuspendRun, CallOutcome,
     handleVars, engineVars
<1>4. FuelPoints' /\ SynchronousPoints'
  BY ExecAssumption, SMTT(20) DEF IInv, TypeOK, ValuesOK, FutureOwned,
     RunPoints, OutputsClean, InRun, FuelPoints, SynchronousPoints,
     CallComplete, ClearFuture, UpdateFuel, FailRun, SuspendRun, CallOutcome,
     handleVars, engineVars
<1>5. ResumableSuspension' /\ DoneMeansReturnedZero' /\ SynchronousPhase'
  BY ExecAssumption, SMTT(20) DEF IInv, TypeOK, ValuesOK, FutureOwned,
     RunPoints, OutputsClean, InRun, FuelPoints, SynchronousPoints,
     ResumableSuspension, DoneMeansReturnedZero, SynchronousPhase,
     CallComplete, ClearFuture, UpdateFuel, FailRun, SuspendRun, CallOutcome,
     handleVars, engineVars
<1> QED
  BY <1>1, <1>2, <1>3, <1>4, <1>5 DEF IInv, TypeOK

\* The context is initialised for another phase.
LEMMA InitRequestExecIInv == IInv /\ InitRequestExec => IInv'
<1> SUFFICES ASSUME IInv, InitRequestExec PROVE IInv'
  OBVIOUS
<1>1. FlagsOK'
  BY Zenon DEF IInv, TypeOK, FlagsOK, InitRequestExec, ResetResumeState,
     ClearFuture, ClearOutputs
<1>2. ValuesOK'
  BY ExecAssumption, SMTT(20) DEF IInv, TypeOK, ValuesOK, Points, States,
     Suspends, FutureKinds, InitRequestExec, ResetResumeState, ClearFuture,
     ClearOutputs
<1>3. FutureOwned' /\ RunPoints' /\ OutputsClean'
  BY SMTT(20) DEF IInv, FutureOwned, RunPoints, OutputsClean, InRun,
     InitRequestExec, ResetResumeState, ClearFuture, ClearOutputs
<1>4. FuelPoints' /\ SynchronousPoints'
  BY ExecAssumption, SMTT(20) DEF IInv, TypeOK, ValuesOK, FutureOwned,
     RunPoints, OutputsClean, InRun, FuelPoints, SynchronousPoints,
     InitRequestExec, ResetResumeState, ClearFuture, ClearOutputs
<1>5. ResumableSuspension' /\ DoneMeansReturnedZero' /\ SynchronousPhase'
  BY ExecAssumption, SMTT(20) DEF IInv, TypeOK, ValuesOK, FutureOwned,
     RunPoints, OutputsClean, InRun, FuelPoints, SynchronousPoints,
     ResumableSuspension, DoneMeansReturnedZero, SynchronousPhase,
     InitRequestExec, ResetResumeState, ClearFuture, ClearOutputs
<1> QED
  BY <1>1, <1>2, <1>3, <1>4, <1>5 DEF IInv, TypeOK

\* The subrequest of a suspended context finishes.
LEMMA SubrequestDoneIInv == IInv /\ SubrequestDone => IInv'
<1> SUFFICES ASSUME IInv, SubrequestDone PROVE IInv'
  OBVIOUS
<1>1. FlagsOK'
  BY Zenon DEF IInv, TypeOK, FlagsOK, SubrequestDone, ctxVars, handleVars,
     futureVars, outVars, engineVars
<1>2. ValuesOK'
  BY ExecAssumption, SMTT(20) DEF IInv, TypeOK, ValuesOK, Points, States,
     Suspends, FutureKinds, SubrequestDone, ctxVars, handleVars, futureVars,
     outVars, engineVars
<1>3. FutureOwned' /\ RunPoints' /\ OutputsClean'
  BY SMTT(20) DEF IInv, FutureOwned, RunPoints, OutputsClean, InRun,
     SubrequestDone, ctxVars, handleVars, futureVars, outVars, engineVars
<1>4. FuelPoints' /\ SynchronousPoints'
  BY ExecAssumption, SMTT(20) DEF IInv, TypeOK, ValuesOK, FutureOwned,
     RunPoints, OutputsClean, InRun, FuelPoints, SynchronousPoints,
     SubrequestDone, ctxVars, handleVars, futureVars, outVars, engineVars
<1>5. ResumableSuspension' /\ DoneMeansReturnedZero' /\ SynchronousPhase'
  BY ExecAssumption, SMTT(20) DEF IInv, TypeOK, ValuesOK, FutureOwned,
     RunPoints, OutputsClean, InRun, FuelPoints, SynchronousPoints,
     ResumableSuspension, DoneMeansReturnedZero, SynchronousPhase,
     SubrequestDone, ctxVars, handleVars, futureVars, outVars, engineVars
<1> QED
  BY <1>1, <1>2, <1>3, <1>4, <1>5 DEF IInv, TypeOK

\* The request pool is destroyed.
LEMMA CleanupIInv == IInv /\ Cleanup => IInv'
<1> SUFFICES ASSUME IInv, Cleanup PROVE IInv'
  OBVIOUS
<1>1. FlagsOK'
  BY Zenon DEF IInv, TypeOK, FlagsOK, Cleanup, ResetResumeState, ClearFuture,
     ClearOutputs, ctxVars, engineVars
<1>2. ValuesOK'
  BY ExecAssumption, SMTT(20) DEF IInv, TypeOK, ValuesOK, Points, States,
     Suspends, FutureKinds, Cleanup, ResetResumeState, ClearFuture,
     ClearOutputs, ctxVars, engineVars
<1>3. FutureOwned' /\ RunPoints' /\ OutputsClean'
  BY SMTT(20) DEF IInv, FutureOwned, RunPoints, OutputsClean, InRun, Cleanup,
     ResetResumeState, ClearFuture, ClearOutputs, ctxVars, engineVars
<1>4. FuelPoints' /\ SynchronousPoints'
  BY ExecAssumption, SMTT(20) DEF IInv, TypeOK, ValuesOK, FutureOwned,
     RunPoints, OutputsClean, InRun, FuelPoints, SynchronousPoints, Cleanup,
     ResetResumeState, ClearFuture, ClearOutputs, ctxVars, engineVars
<1>5. ResumableSuspension' /\ DoneMeansReturnedZero' /\ SynchronousPhase'
  BY ExecAssumption, SMTT(20) DEF IInv, TypeOK, ValuesOK, FutureOwned,
     RunPoints, OutputsClean, InRun, FuelPoints, SynchronousPoints,
     ResumableSuspension, DoneMeansReturnedZero, SynchronousPhase, Cleanup,
     ResetResumeState, ClearFuture, ClearOutputs, ctxVars, engineVars
<1> QED
  BY <1>1, <1>2, <1>3, <1>4, <1>5 DEF IInv, TypeOK

\* The instantiation starts, or is polled again.
LEMMA InstantiateIInv == IInv /\ Instantiate => IInv'
<1> SUFFICES ASSUME IInv, Instantiate PROVE IInv'
  OBVIOUS
<1>1. pc = "instantiate" /\ UNCHANGED io
  BY DEF Instantiate
<1>2. CASE future = "none" /\ CannotStart
  <2>1. FlagsOK'
    BY <1>1, <1>2, Zenon DEF IInv, TypeOK, FlagsOK, CannotStart, FailRun,
       ctxVars, handleVars, futureVars, outVars, engineVars
  <2>2. ValuesOK'
    BY <1>1, <1>2, ExecAssumption, SMTT(20) DEF IInv, TypeOK, ValuesOK, Points,
       States, Suspends, FutureKinds, CannotStart, FailRun, ctxVars, handleVars,
       futureVars, outVars, engineVars
  <2>3. FutureOwned' /\ RunPoints' /\ OutputsClean'
    <3>1. FutureOwned'
      <4>1. pc' # "destroyed" /\ UNCHANGED <<handleVars, futureVars>>
        BY <1>1, <1>2 DEF CannotStart
      <4> QED
        BY <4>1, SMTT(20) DEF IInv, FutureOwned, handleVars, futureVars
    <3>2. RunPoints'
      BY <1>1, <1>2, SMTT(20) DEF IInv, RunPoints, InRun, CannotStart, FailRun,
         ctxVars, handleVars, futureVars, outVars, engineVars
    <3>3. OutputsClean'
      BY <1>1, <1>2, SMTT(20) DEF IInv, OutputsClean, InRun, CannotStart,
         FailRun, ctxVars, handleVars, futureVars, outVars, engineVars
    <3> QED BY <3>1, <3>2, <3>3
  <2>4. FuelPoints' /\ SynchronousPoints'
    BY <1>1, <1>2, ExecAssumption, SMTT(20) DEF IInv, TypeOK, ValuesOK,
       FutureOwned, RunPoints, OutputsClean, InRun, FuelPoints,
       SynchronousPoints, CannotStart, FailRun, ctxVars, handleVars, futureVars,
       outVars, engineVars
  <2>5. ResumableSuspension' /\ DoneMeansReturnedZero' /\ SynchronousPhase'
    BY <1>1, <1>2, ExecAssumption, SMTT(20) DEF IInv, TypeOK, ValuesOK,
       FutureOwned, RunPoints, OutputsClean, InRun, FuelPoints,
       SynchronousPoints, ResumableSuspension, DoneMeansReturnedZero,
       SynchronousPhase, CannotStart, FailRun, ctxVars, handleVars, futureVars,
       outVars, engineVars
  <2> QED
    BY <2>1, <2>2, <2>3, <2>4, <2>5 DEF IInv, TypeOK
<1>3. CASE future = "none" /\ CreateFuture("instantiate")
  <2>1. FlagsOK'
    BY <1>1, <1>3, Zenon DEF IInv, TypeOK, FlagsOK, CreateFuture, Prepare,
       CannotPrepare, YieldInterval, LeastOf, ClearOutputs, handleVars
  <2>2. ValuesOK'
    BY <1>1, <1>3, ExecAssumption, SMTT(20) DEF IInv, TypeOK, ValuesOK, Points,
       States, Suspends, FutureKinds, CreateFuture, Prepare, CannotPrepare,
       YieldInterval, LeastOf, ClearOutputs, handleVars
  <2>3. FutureOwned' /\ RunPoints' /\ OutputsClean'
    BY <1>1, <1>3, SMTT(20) DEF IInv, FutureOwned, RunPoints, OutputsClean,
       InRun, CreateFuture, Prepare, CannotPrepare, YieldInterval, LeastOf,
       ClearOutputs, handleVars
  <2>4. FuelPoints' /\ SynchronousPoints'
    BY <1>1, <1>3, ExecAssumption, SMTT(20) DEF IInv, TypeOK, ValuesOK,
       FutureOwned, RunPoints, OutputsClean, InRun, FuelPoints,
       SynchronousPoints, CreateFuture, Prepare, CannotPrepare, YieldInterval,
       LeastOf, ClearOutputs, handleVars
  <2>5. ResumableSuspension' /\ DoneMeansReturnedZero' /\ SynchronousPhase'
    BY <1>1, <1>3, ExecAssumption, SMTT(20) DEF IInv, TypeOK, ValuesOK,
       FutureOwned, RunPoints, OutputsClean, InRun, FuelPoints,
       SynchronousPoints, ResumableSuspension, DoneMeansReturnedZero,
       SynchronousPhase, CreateFuture, Prepare, CannotPrepare, YieldInterval,
       LeastOf, ClearOutputs, handleVars
  <2> QED
    BY <2>1, <2>2, <2>3, <2>4, <2>5 DEF IInv, TypeOK
<1>4. CASE future = "none" /\ NoFuture
  <2>1. FlagsOK'
    BY <1>1, <1>4, Zenon DEF IInv, TypeOK, FlagsOK, NoFuture, Prepare,
       CannotPrepare, YieldInterval, LeastOf, ClearOutputs, ClearFuture,
       FailRun, handleVars
  <2>2. ValuesOK'
    BY <1>1, <1>4, ExecAssumption, SMTT(20) DEF IInv, TypeOK, ValuesOK, Points,
       States, Suspends, FutureKinds, NoFuture, Prepare, CannotPrepare,
       YieldInterval, LeastOf, ClearOutputs, ClearFuture, FailRun, handleVars
  <2>3. FutureOwned' /\ RunPoints' /\ OutputsClean'
    BY <1>1, <1>4, SMTT(20) DEF IInv, FutureOwned, RunPoints, OutputsClean,
       InRun, NoFuture, Prepare, CannotPrepare, YieldInterval, LeastOf,
       ClearOutputs, ClearFuture, FailRun, handleVars
  <2>4. FuelPoints' /\ SynchronousPoints'
    BY <1>1, <1>4, ExecAssumption, SMTT(20) DEF IInv, TypeOK, ValuesOK,
       FutureOwned, RunPoints, OutputsClean, InRun, FuelPoints,
       SynchronousPoints, NoFuture, Prepare, CannotPrepare, YieldInterval,
       LeastOf, ClearOutputs, ClearFuture, FailRun, handleVars
  <2>5. ResumableSuspension' /\ DoneMeansReturnedZero' /\ SynchronousPhase'
    BY <1>1, <1>4, ExecAssumption, SMTT(20) DEF IInv, TypeOK, ValuesOK,
       FutureOwned, RunPoints, OutputsClean, InRun, FuelPoints,
       SynchronousPoints, ResumableSuspension, DoneMeansReturnedZero,
       SynchronousPhase, NoFuture, Prepare, CannotPrepare, YieldInterval,
       LeastOf, ClearOutputs, ClearFuture, FailRun, handleVars
  <2> QED
    BY <2>1, <2>2, <2>3, <2>4, <2>5 DEF IInv, TypeOK
<1>5. CASE future # "none" /\ PollAgain
  <2>1. FlagsOK'
    BY <1>1, <1>5, Zenon DEF IInv, TypeOK, FlagsOK, PollAgain, ctxVars,
       handleVars, futureVars, outVars, engineVars
  <2>2. ValuesOK'
    BY <1>1, <1>5, ExecAssumption, SMTT(20) DEF IInv, TypeOK, ValuesOK, Points,
       States, Suspends, FutureKinds, PollAgain, ctxVars, handleVars,
       futureVars, outVars, engineVars
  <2>3. FutureOwned' /\ RunPoints' /\ OutputsClean'
    BY <1>1, <1>5, SMTT(20) DEF IInv, FutureOwned, RunPoints, OutputsClean,
       InRun, PollAgain, ctxVars, handleVars, futureVars, outVars, engineVars
  <2>4. FuelPoints' /\ SynchronousPoints'
    BY <1>1, <1>5, ExecAssumption, SMTT(20) DEF IInv, TypeOK, ValuesOK,
       FutureOwned, RunPoints, OutputsClean, InRun, FuelPoints,
       SynchronousPoints, PollAgain, ctxVars, handleVars, futureVars, outVars,
       engineVars
  <2>5. ResumableSuspension' /\ DoneMeansReturnedZero' /\ SynchronousPhase'
    BY <1>1, <1>5, ExecAssumption, SMTT(20) DEF IInv, TypeOK, ValuesOK,
       FutureOwned, RunPoints, OutputsClean, InRun, FuelPoints,
       SynchronousPoints, ResumableSuspension, DoneMeansReturnedZero,
       SynchronousPhase, PollAgain, ctxVars, handleVars, futureVars, outVars,
       engineVars
  <2> QED
    BY <2>1, <2>2, <2>3, <2>4, <2>5 DEF IInv, TypeOK
<1> QED
  BY <1>2, <1>3, <1>4, <1>5 DEF Instantiate, StartFuture

\* The call starts, or is polled again.
LEMMA CallIInv == IInv /\ Call => IInv'
<1> SUFFICES ASSUME IInv, Call PROVE IInv'
  OBVIOUS
<1>1. pc = "call" /\ UNCHANGED io
  BY DEF Call
<1>2. CASE future = "none" /\ CannotStart
  <2>1. FlagsOK'
    BY <1>1, <1>2, Zenon DEF IInv, TypeOK, FlagsOK, CannotStart, FailRun,
       ctxVars, handleVars, futureVars, outVars, engineVars
  <2>2. ValuesOK'
    BY <1>1, <1>2, ExecAssumption, SMTT(20) DEF IInv, TypeOK, ValuesOK, Points,
       States, Suspends, FutureKinds, CannotStart, FailRun, ctxVars, handleVars,
       futureVars, outVars, engineVars
  <2>3. FutureOwned' /\ RunPoints' /\ OutputsClean'
    <3>1. FutureOwned'
      <4>1. pc' # "destroyed" /\ UNCHANGED <<handleVars, futureVars>>
        BY <1>1, <1>2 DEF CannotStart
      <4> QED
        BY <4>1, SMTT(20) DEF IInv, FutureOwned, handleVars, futureVars
    <3>2. RunPoints'
      BY <1>1, <1>2, SMTT(20) DEF IInv, RunPoints, InRun, CannotStart, FailRun,
         ctxVars, handleVars, futureVars, outVars, engineVars
    <3>3. OutputsClean'
      BY <1>1, <1>2, SMTT(20) DEF IInv, OutputsClean, InRun, CannotStart,
         FailRun, ctxVars, handleVars, futureVars, outVars, engineVars
    <3> QED BY <3>1, <3>2, <3>3
  <2>4. FuelPoints' /\ SynchronousPoints'
    BY <1>1, <1>2, ExecAssumption, SMTT(20) DEF IInv, TypeOK, ValuesOK,
       FutureOwned, RunPoints, OutputsClean, InRun, FuelPoints,
       SynchronousPoints, CannotStart, FailRun, ctxVars, handleVars, futureVars,
       outVars, engineVars
  <2>5. ResumableSuspension' /\ DoneMeansReturnedZero' /\ SynchronousPhase'
    BY <1>1, <1>2, ExecAssumption, SMTT(20) DEF IInv, TypeOK, ValuesOK,
       FutureOwned, RunPoints, OutputsClean, InRun, FuelPoints,
       SynchronousPoints, ResumableSuspension, DoneMeansReturnedZero,
       SynchronousPhase, CannotStart, FailRun, ctxVars, handleVars, futureVars,
       outVars, engineVars
  <2> QED
    BY <2>1, <2>2, <2>3, <2>4, <2>5 DEF IInv, TypeOK
<1>3. CASE future = "none" /\ CreateFuture("call")
  <2>1. FlagsOK'
    BY <1>1, <1>3, Zenon DEF IInv, TypeOK, FlagsOK, CreateFuture, Prepare,
       CannotPrepare, YieldInterval, LeastOf, ClearOutputs, handleVars
  <2>2. ValuesOK'
    BY <1>1, <1>3, ExecAssumption, SMTT(20) DEF IInv, TypeOK, ValuesOK, Points,
       States, Suspends, FutureKinds, CreateFuture, Prepare, CannotPrepare,
       YieldInterval, LeastOf, ClearOutputs, handleVars
  <2>3. FutureOwned' /\ RunPoints' /\ OutputsClean'
    BY <1>1, <1>3, SMTT(20) DEF IInv, FutureOwned, RunPoints, OutputsClean,
       InRun, CreateFuture, Prepare, CannotPrepare, YieldInterval, LeastOf,
       ClearOutputs, handleVars
  <2>4. FuelPoints' /\ SynchronousPoints'
    BY <1>1, <1>3, ExecAssumption, SMTT(20) DEF IInv, TypeOK, ValuesOK,
       FutureOwned, RunPoints, OutputsClean, InRun, FuelPoints,
       SynchronousPoints, CreateFuture, Prepare, CannotPrepare, YieldInterval,
       LeastOf, ClearOutputs, handleVars
  <2>5. ResumableSuspension' /\ DoneMeansReturnedZero' /\ SynchronousPhase'
    BY <1>1, <1>3, ExecAssumption, SMTT(20) DEF IInv, TypeOK, ValuesOK,
       FutureOwned, RunPoints, OutputsClean, InRun, FuelPoints,
       SynchronousPoints, ResumableSuspension, DoneMeansReturnedZero,
       SynchronousPhase, CreateFuture, Prepare, CannotPrepare, YieldInterval,
       LeastOf, ClearOutputs, handleVars
  <2> QED
    BY <2>1, <2>2, <2>3, <2>4, <2>5 DEF IInv, TypeOK
<1>4. CASE future = "none" /\ NoFuture
  <2>1. FlagsOK'
    BY <1>1, <1>4, Zenon DEF IInv, TypeOK, FlagsOK, NoFuture, Prepare,
       CannotPrepare, YieldInterval, LeastOf, ClearOutputs, ClearFuture,
       FailRun, handleVars
  <2>2. ValuesOK'
    BY <1>1, <1>4, ExecAssumption, SMTT(20) DEF IInv, TypeOK, ValuesOK, Points,
       States, Suspends, FutureKinds, NoFuture, Prepare, CannotPrepare,
       YieldInterval, LeastOf, ClearOutputs, ClearFuture, FailRun, handleVars
  <2>3. FutureOwned' /\ RunPoints' /\ OutputsClean'
    BY <1>1, <1>4, SMTT(20) DEF IInv, FutureOwned, RunPoints, OutputsClean,
       InRun, NoFuture, Prepare, CannotPrepare, YieldInterval, LeastOf,
       ClearOutputs, ClearFuture, FailRun, handleVars
  <2>4. FuelPoints' /\ SynchronousPoints'
    BY <1>1, <1>4, ExecAssumption, SMTT(20) DEF IInv, TypeOK, ValuesOK,
       FutureOwned, RunPoints, OutputsClean, InRun, FuelPoints,
       SynchronousPoints, NoFuture, Prepare, CannotPrepare, YieldInterval,
       LeastOf, ClearOutputs, ClearFuture, FailRun, handleVars
  <2>5. ResumableSuspension' /\ DoneMeansReturnedZero' /\ SynchronousPhase'
    BY <1>1, <1>4, ExecAssumption, SMTT(20) DEF IInv, TypeOK, ValuesOK,
       FutureOwned, RunPoints, OutputsClean, InRun, FuelPoints,
       SynchronousPoints, ResumableSuspension, DoneMeansReturnedZero,
       SynchronousPhase, NoFuture, Prepare, CannotPrepare, YieldInterval,
       LeastOf, ClearOutputs, ClearFuture, FailRun, handleVars
  <2> QED
    BY <2>1, <2>2, <2>3, <2>4, <2>5 DEF IInv, TypeOK
<1>5. CASE future # "none" /\ PollAgain
  <2>1. FlagsOK'
    BY <1>1, <1>5, Zenon DEF IInv, TypeOK, FlagsOK, PollAgain, ctxVars,
       handleVars, futureVars, outVars, engineVars
  <2>2. ValuesOK'
    BY <1>1, <1>5, ExecAssumption, SMTT(20) DEF IInv, TypeOK, ValuesOK, Points,
       States, Suspends, FutureKinds, PollAgain, ctxVars, handleVars,
       futureVars, outVars, engineVars
  <2>3. FutureOwned' /\ RunPoints' /\ OutputsClean'
    BY <1>1, <1>5, SMTT(20) DEF IInv, FutureOwned, RunPoints, OutputsClean,
       InRun, PollAgain, ctxVars, handleVars, futureVars, outVars, engineVars
  <2>4. FuelPoints' /\ SynchronousPoints'
    BY <1>1, <1>5, ExecAssumption, SMTT(20) DEF IInv, TypeOK, ValuesOK,
       FutureOwned, RunPoints, OutputsClean, InRun, FuelPoints,
       SynchronousPoints, PollAgain, ctxVars, handleVars, futureVars, outVars,
       engineVars
  <2>5. ResumableSuspension' /\ DoneMeansReturnedZero' /\ SynchronousPhase'
    BY <1>1, <1>5, ExecAssumption, SMTT(20) DEF IInv, TypeOK, ValuesOK,
       FutureOwned, RunPoints, OutputsClean, InRun, FuelPoints,
       SynchronousPoints, ResumableSuspension, DoneMeansReturnedZero,
       SynchronousPhase, PollAgain, ctxVars, handleVars, futureVars, outVars,
       engineVars
  <2> QED
    BY <2>1, <2>2, <2>3, <2>4, <2>5 DEF IInv, TypeOK
<1> QED
  BY <1>2, <1>3, <1>4, <1>5 DEF Call, StartFuture

-----------------------------------------------------------------------------
(* The invariant holds in every behaviour.                                 *)

\* A step that changes nothing.
LEMMA StutterIInv == IInv /\ UNCHANGED vars => IInv'
<1> SUFFICES ASSUME IInv, UNCHANGED vars PROVE IInv'
  OBVIOUS
<1>1. TypeOK'
  BY Zenon DEF IInv, TypeOK, FlagsOK, ValuesOK, vars, ctxVars, handleVars,
     futureVars, outVars, engineVars
<1>2. FutureOwned' /\ RunPoints' /\ OutputsClean'
  BY Zenon DEF IInv, FutureOwned, RunPoints, OutputsClean, InRun, vars,
     ctxVars, handleVars, futureVars, outVars
<1>3. FuelPoints' /\ SynchronousPoints'
  BY Zenon DEF IInv, FuelPoints, SynchronousPoints, vars, ctxVars, handleVars,
     futureVars, outVars, engineVars
<1>4. ResumableSuspension' /\ DoneMeansReturnedZero' /\ SynchronousPhase'
  BY Zenon DEF IInv, ResumableSuspension, DoneMeansReturnedZero,
     SynchronousPhase, vars, ctxVars, handleVars, futureVars, outVars
<1> QED BY <1>1, <1>2, <1>3, <1>4 DEF IInv

\* Every step keeps the invariant.
LEMMA NextIInv == IInv /\ [Next]_vars => IInv'
<1> SUFFICES ASSUME IInv, [Next]_vars PROVE IInv'
  OBVIOUS
<1>1. CASE UNCHANGED vars
  BY <1>1, StutterIInv
<1>2. CASE EnterRun \/ RefuseRun
  BY <1>2, EnterRunIInv, RefuseRunIInv
<1>3. CASE Instantiate \/ ResolveExport \/ Call
  BY <1>3, InstantiateIInv, ResolveExportIInv, CallIInv
<1>4. CASE GuestCompute \/ HostYield \/ HostSubreq \/ GuestReturn
  BY <1>4, GuestComputeIInv, HostYieldIInv, HostSubreqIInv, GuestReturnIInv
<1>5. CASE InstantiateReturn \/ EngineError \/ SliceEnds
  BY <1>5, InstantiateReturnIInv, EngineErrorIInv, SliceEndsIInv
<1>6. CASE PollPending \/ InstantiateComplete \/ CallComplete
  BY <1>6, PollPendingIInv, InstantiateCompleteIInv, CallCompleteIInv
<1>7. CASE InitRequestExec \/ SubrequestDone \/ Cleanup
  BY <1>7, InitRequestExecIInv, SubrequestDoneIInv, CleanupIInv
<1> QED
  BY <1>1, <1>2, <1>3, <1>4, <1>5, <1>6, <1>7, Zenon DEF Next, RunStep

\* Between runs and inside them, the execution context and its resume state
\* satisfy the invariant that runtime_run relies on at each of its points.
THEOREM Inductive == Spec => []IInv
<1>1. Init => IInv
  BY InitIInv
<1>2. IInv /\ [Next]_vars => IInv'
  BY NextIInv
<1> QED BY <1>1, <1>2, PTL DEF Spec

\* Every field of the context and of the resume state keeps its type, and the
\* unsigned fuel counters never wrap below zero.
THEOREM TypeCorrect == Spec => []TypeOK
<1>1. IInv => TypeOK
  BY DEF IInv
<1> QED BY <1>1, Inductive, PTL

\* A live future is the one future_kind names, is backed by a store, and
\* belongs to the step that has not completed yet.
THEOREM FutureIsOwned == Spec => []FutureOwned
<1>1. IInv => FutureOwned
  BY DEF IInv
<1> QED BY <1>1, Inductive, PTL

\* Whatever runtime_run leaves suspended can be run again.
THEOREM SuspensionIsResumable == Spec => []ResumableSuspension
<1>1. IInv => ResumableSuspension
  BY DEF IInv
<1> QED BY <1>1, Inductive, PTL

\* The context's fuel figure is the store's fuel whenever no run is going on.
THEOREM FuelIsAccounted == Spec => []FuelAccounted
<1>1. IInv => FuelAccounted
  <2>1. ASSUME IInv, pc = "idle" PROVE fuelRemaining = fuel
    BY <2>1 DEF IInv, FuelPoints
  <2> QED BY <2>1 DEF IInv, FuelPoints, FuelAccounted
<1> QED BY <1>1, Inductive, PTL

\* DONE is reported only for an export that came back by itself with 0.
THEOREM DoneIsReturnedZero == Spec => []DoneMeansReturnedZero
<1>1. IInv => DoneMeansReturnedZero
  BY DEF IInv
<1> QED BY <1>1, Inductive, PTL

\* A phase with no timeslice and no CAP_YIELD never suspends.
THEOREM SynchronousNeverSuspends == Spec => []SynchronousPhase
<1>1. IInv => SynchronousPhase
  BY DEF IInv
<1> QED BY <1>1, Inductive, PTL

-----------------------------------------------------------------------------
(* Action properties.                                                      *)

\* As long as a store lives, no step gives the guest fuel back.
THEOREM BudgetIsNeverRefilled == Spec => BudgetNeverRefilled
<1>1. ASSUME IInv, [Next]_vars, store, store' PROVE fuel' <= fuel
  <2>1. fuel \in Nat /\ fuel <= fuel
    BY <1>1, ExecAssumption DEF IInv, TypeOK, ValuesOK
  <2>2. CASE Consume
    BY <2>1, <2>2, <1>1 DEF Consume
  <2>3. CASE UNCHANGED fuel
    BY <2>1, <2>3
  <2>4. CASE EnterRun
    BY <2>1, <2>4, <1>1 DEF EnterRun
  <2>5. Consume \/ UNCHANGED fuel \/ EnterRun \/ ~store'
    BY <1>1, Zenon DEF Next, RunStep, RefuseRun, Instantiate, StartFuture,
       CannotStart, CreateFuture, NoFuture, Prepare, PollAgain,
       ResolveExport, Call, GuestCompute, HostYield, HostSubreq,
       GuestReturn, InstantiateReturn, EngineError, SliceEnds, PollPending,
       InstantiateComplete, CallComplete, InitRequestExec, SubrequestDone,
       Cleanup, ResetResumeState, vars, engineVars
  <2> QED BY <2>1, <2>2, <2>3, <2>4, <2>5, <1>1
<1>2. IInv /\ [Next]_vars => [store /\ store' => fuel' <= fuel]_vars
  BY <1>1
<1> QED BY <1>2, Inductive, PTL DEF Spec, BudgetNeverRefilled

\* The future of an interrupted call is still there when the call is resumed.
THEOREM InterruptedCallIsContinued == Spec => InterruptedCallSurvives
<1>1. ASSUME IInv, [Next]_vars, future = "call", future' = "none"
      PROVE pc = "complete" \/ pc' = "destroyed"
  <2>1. state # "DONE"
    BY <1>1 DEF IInv, DoneMeansReturnedZero, FutureOwned, RunPoints, InRun
  <2>2. UNCHANGED future \/ pc = "complete" \/ pc' = "destroyed"
    BY <1>1, <2>1, Zenon DEF Next, RunStep, EnterRun, RefuseRun, Instantiate,
       StartFuture, PollAgain, ResolveExport, Call, Consume, GuestCompute,
       HostYield, HostSubreq, GuestReturn, InstantiateReturn, EngineError,
       SliceEnds, PollPending, InstantiateComplete, CallComplete,
       InitRequestExec, SubrequestDone, Cleanup, vars, futureVars
  <2> QED BY <1>1, <2>2
<1>2. IInv /\ [Next]_vars =>
      [future = "call" /\ future' = "none" =>
         pc = "complete" \/ pc' = "destroyed"]_vars
  BY <1>1
<1> QED BY <1>2, Inductive, PTL DEF Spec, InterruptedCallSurvives

-----------------------------------------------------------------------------
(* WasmExec implements ExecContract: the initial states correspond, and    *)
(* every step is a step of the contract or leaves its variables alone.     *)

\* A fresh context is a fresh context of the contract.
LEMMA InitContract == Init => Contract!Init
BY ExecAssumption DEF Init, Contract!Init

\* The mapped values, in the terms the steps below need them.
LEMMA ContractValues ==
  ASSUME IInv
  PROVE  /\ fuel \in Nat /\ fuelRemaining \in Nat /\ slice \in Nat
         /\ fuel <= fuelRemaining /\ fuelRemaining <= FuelLimit
         /\ pc = "idle" => state \in Contract!Idle
         /\ InRun => state = "RUNNING" /\ pc # "destroyed"
BY ExecAssumption DEF IInv, TypeOK, ValuesOK, States, RunPoints, FuelPoints,
   InRun, Contract!Idle

\* A failing exit of runtime_run is a Fail of the contract, whether or not
\* the function has read the fuel back before.
LEMMA FailContract ==
  ASSUME IInv, pc # "destroyed", FailRun, pc' = "idle", UNCHANGED fuel,
         fuelRemaining' \in {fuelRemaining, fuel}
  PROVE  Contract!Fail
<1>1. state \in Contract!Idle \cup {"RUNNING"}
  BY DEF IInv, TypeOK, ValuesOK, States, Contract!Idle
<1>2. FuelLimit - fuelRemaining' \in {FuelLimit - fuelRemaining, FuelLimit - fuel}
  OBVIOUS
<1> QED BY <1>1, <1>2 DEF FailRun, Contract!Fail

\* Guest work, and the host calls made by it, are Work of the contract.
LEMMA WorkContract ==
  ASSUME IInv, Consume, pc' \in {"poll", "complete"},
         suspendKind' \in {suspendKind, "WAIT_IO"}
  PROVE  Contract!Work
<1>1. state = "RUNNING" /\ pc = "poll" /\ state' = state
  BY ContractValues DEF Consume, InRun
<1>2. slice <= fuel /\ slice > 0 /\ fuel' = fuel - 1
  BY DEF IInv, FuelPoints, Consume
<1>3. FuelLimit - fuel < FuelLimit /\ FuelLimit - fuel' = (FuelLimit - fuel) + 1
  BY <1>2, ContractValues, ExecAssumption
<1>4. UNCHANGED fuelRemaining
  BY DEF Consume
<1> QED BY <1>1, <1>3, <1>4 DEF Contract!Work

\* Entering a run is Start, failing to enter it is Fail.
LEMMA EnterContract == IInv /\ (EnterRun \/ RefuseRun) => Contract!Next
<1> SUFFICES ASSUME IInv, EnterRun \/ RefuseRun PROVE Contract!Next
  OBVIOUS
<1>1. CASE EnterRun
  <2>1. UNCHANGED fuel
    BY <1>1 DEF IInv, FuelPoints, EnterRun
  <2>2. pc' # "destroyed"
    BY <1>1 DEF EnterRun
  <2>3. Contract!Start
    BY <1>1, <2>1, <2>2, ContractValues DEF EnterRun, BeginRun,
       Contract!Start
  <2> QED BY <2>3 DEF Contract!Next
<1>2. CASE RefuseRun
  <2>1. Contract!Fail
    BY <1>2, FailContract DEF RefuseRun, engineVars
  <2> QED BY <2>1 DEF Contract!Next, Contract!Return
<1> QED BY <1>1, <1>2

\* Starting a future changes nothing the callers see, unless it fails.
LEMMA StartContract ==
  IInv /\ (Instantiate \/ ResolveExport \/ Call) => [Contract!Next]_Contract!execVars
<1> SUFFICES ASSUME IInv, Instantiate \/ ResolveExport \/ Call
             PROVE  [Contract!Next]_Contract!execVars
  OBVIOUS
<1>1. pc # "destroyed"
  BY DEF Instantiate, ResolveExport, Call
<1>2. \/ FailRun /\ pc' = "idle" /\ UNCHANGED <<fuel, fuelRemaining>>
      \/ pc' # "destroyed" /\ UNCHANGED <<state, suspendKind, fuel, fuelRemaining>>
  BY Zenon DEF Instantiate, ResolveExport, Call, StartFuture, CannotStart,
     CreateFuture, NoFuture, Prepare, PollAgain, ctxVars, engineVars
<1>3. CASE FailRun /\ pc' = "idle" /\ UNCHANGED <<fuel, fuelRemaining>>
  BY <1>1, <1>3, FailContract DEF Contract!Next, Contract!Return
<1>4. CASE pc' # "destroyed" /\ UNCHANGED <<state, suspendKind, fuel, fuelRemaining>>
  BY <1>1, <1>4 DEF Contract!execVars
<1> QED BY <1>2, <1>3, <1>4

\* Everything the guest does inside a poll is Work.
LEMMA GuestContract ==
  IInv /\ (GuestCompute \/ HostYield \/ HostSubreq \/ GuestReturn) => Contract!Next
<1> SUFFICES ASSUME IInv, GuestCompute \/ HostYield \/ HostSubreq \/ GuestReturn
             PROVE  Contract!Next
  OBVIOUS
<1>1. Consume /\ pc = "poll"
  BY DEF GuestCompute, HostYield, HostSubreq, GuestReturn, Consume
<1>2. pc' \in {"poll", "complete"}
  BY <1>1, Zenon DEF GuestCompute, HostYield, HostSubreq, GuestReturn
<1>3. suspendKind' \in {suspendKind, "WAIT_IO"}
  BY Zenon DEF GuestCompute, HostYield, HostSubreq, GuestReturn
<1> QED BY <1>1, <1>2, <1>3, WorkContract DEF Contract!Next

\* The outcome of a poll is not seen by the callers before it is taken.
LEMMA OutcomeContract ==
  IInv /\ (InstantiateReturn \/ EngineError \/ SliceEnds)
    => UNCHANGED Contract!execVars
BY Zenon DEF InstantiateReturn, EngineError, SliceEnds, ctxVars, engineVars,
   Contract!execVars

\* A pending poll is a suspension, or the failure of an exhausted budget.
LEMMA PendingContract == IInv /\ PollPending => Contract!Next
<1> SUFFICES ASSUME IInv, PollPending PROVE Contract!Next
  OBVIOUS
<1>1. /\ pc = "pending" /\ pc' = "idle"
      /\ fuelRemaining' = fuel /\ fuel' = fuel
  BY DEF PollPending, UpdateFuel, engineVars
<1>2. CASE fuel = 0
  <2>1. FailRun
    BY <1>2 DEF PollPending
  <2> QED BY <1>1, <2>1, FailContract DEF Contract!Next, Contract!Return
<1>3. CASE fuel # 0
  <2>1. SuspendRun("RESCHEDULE")
    BY <1>3 DEF PollPending
  <2>2. fuel < fuelRemaining
    BY <1>1, <1>3 DEF IInv, FuelPoints
  <2>3. FuelLimit - fuelRemaining < FuelLimit - fuel
    BY <2>2, ContractValues, ExecAssumption
  <2>4. Contract!Suspend("RESCHEDULE")
    BY <1>1, <2>1, <2>3, ContractValues DEF SuspendRun, InRun,
       Contract!Suspend
  <2> QED BY <2>4 DEF Contract!Next, Contract!Return, Contract!Kinds
<1> QED BY <1>2, <1>3

\* A finished instantiation charges its fuel, or fails.
LEMMA InstantiatedContract == IInv /\ InstantiateComplete => Contract!Next
<1> SUFFICES ASSUME IInv, InstantiateComplete PROVE Contract!Next
  OBVIOUS
<1>1. pc = "complete" /\ fuelRemaining' = fuel /\ fuel' = fuel
  BY DEF InstantiateComplete, UpdateFuel, engineVars
<1>2. CASE error \/ trap # "none"
  <2>1. FailRun /\ pc' = "idle"
    BY <1>2 DEF InstantiateComplete
  <2> QED BY <1>1, <2>1, FailContract DEF Contract!Next, Contract!Return
<1>3. CASE ~(error \/ trap # "none")
  <2>1. pc' = "export" /\ UNCHANGED <<state, suspendKind>>
    BY <1>3 DEF InstantiateComplete
  <2>2. Contract!Account
    BY <1>1, <2>1, ContractValues DEF InRun, Contract!Account
  <2> QED BY <2>2 DEF Contract!Next
<1> QED BY <1>2, <1>3

\* A completed call suspends, finishes or fails.
LEMMA CompleteContract == IInv /\ CallComplete => Contract!Next
<1> SUFFICES ASSUME IInv, CallComplete PROVE Contract!Next
  OBVIOUS
<1>1. /\ pc = "complete" /\ pc' = "idle" /\ future = "call"
      /\ fuelRemaining' = fuel /\ fuel' = fuel
  BY DEF CallComplete, UpdateFuel, engineVars
<1>2. state = "RUNNING"
  BY <1>1, ContractValues DEF InRun
<1>3. ASSUME CallOutcome \in {"yield", "ok"}
      PROVE  FuelLimit - fuelRemaining < FuelLimit - fuel
  <2>1. ~error /\ (yielded \/ trap = "none")
    BY <1>3, SMT DEF CallOutcome
  <2>2. fuel < fuelRemaining
    BY <1>1, <2>1 DEF IInv, FuelPoints
  <2> QED BY <2>2, ContractValues, ExecAssumption
<1>4. CASE CallOutcome = "yield"
  <2>1. SuspendRun(IF suspendKind = "NONE" THEN "RESCHEDULE" ELSE suspendKind)
    BY <1>4 DEF CallComplete
  <2>2. PICK kind \in {"RESCHEDULE", "WAIT_IO"} :
          SuspendRun(kind) /\ (kind = "WAIT_IO" => suspendKind = "WAIT_IO")
    BY <2>1 DEF IInv, TypeOK, ValuesOK, Suspends
  <2>3. Contract!Suspend(kind)
    BY <1>1, <1>2, <1>3, <1>4, <2>2 DEF SuspendRun, Contract!Suspend
  <2> QED BY <2>3 DEF Contract!Next, Contract!Return, Contract!Kinds
<1>5. CASE CallOutcome = "ok"
  <2>1. state' = "DONE" /\ UNCHANGED suspendKind
    BY <1>5 DEF CallComplete
  <2>2. ~yielded
    BY <1>5, SMT DEF CallOutcome
  <2>3. suspendKind = "NONE"
    BY <1>1, <2>2 DEF IInv, RunPoints, InRun
  <2>4. Contract!Finish
    BY <1>1, <1>2, <1>3, <1>5, <2>1, <2>3 DEF Contract!Finish
  <2> QED BY <2>4 DEF Contract!Next, Contract!Return
<1>6. CASE CallOutcome \notin {"yield", "ok"}
  <2>1. FailRun
    BY <1>6 DEF CallComplete
  <2> QED BY <1>1, <2>1, FailContract DEF Contract!Next, Contract!Return
<1> QED BY <1>4, <1>5, <1>6

\* What nginx does between the runs.
LEMMA BetweenContract ==
  IInv /\ (InitRequestExec \/ SubrequestDone \/ Cleanup)
    => [Contract!Next]_Contract!execVars
<1> SUFFICES ASSUME IInv, InitRequestExec \/ SubrequestDone \/ Cleanup
             PROVE  [Contract!Next]_Contract!execVars
  OBVIOUS
<1>1. CASE InitRequestExec
  <2>1. FuelLimit - fuel' = 0 /\ FuelLimit - fuelRemaining' = 0
    BY <1>1, ExecAssumption DEF InitRequestExec
  <2>2. Contract!Reinit
    BY <1>1, <2>1 DEF InitRequestExec, Contract!Reinit
  <2> QED BY <2>2 DEF Contract!Next
<1>2. CASE SubrequestDone
  BY <1>2 DEF SubrequestDone, ctxVars, engineVars, Contract!execVars
<1>3. CASE Cleanup
  <2>1. Contract!Destroy
    BY <1>3, ContractValues DEF Cleanup, ctxVars, engineVars, Contract!Destroy
  <2> QED BY <2>1 DEF Contract!Next
<1> QED BY <1>1, <1>2, <1>3

\* What the callers of ngx_http_wasm_runtime_run are written against is what
\* the function does, for every budget: it returns only by finishing, failing
\* or suspending, it suspends and finishes only after charging guest work that
\* no earlier run was charged for, and it waits for I/O only when it was asked.
THEOREM ContractIsImplemented == Spec => ImplementsContract
<1>1. Init => Contract!Init
  BY InitContract
<1>2. IInv /\ [Next]_vars => [Contract!Next]_Contract!execVars
  <2> SUFFICES ASSUME IInv, [Next]_vars
               PROVE  [Contract!Next]_Contract!execVars
    OBVIOUS
  <2>1. CASE UNCHANGED vars
    BY <2>1, Zenon DEF vars, ctxVars, engineVars, Contract!execVars
  <2>2. CASE EnterRun \/ RefuseRun
    BY <2>2, EnterContract
  <2>3. CASE Instantiate \/ ResolveExport \/ Call
    BY <2>3, StartContract
  <2>4. CASE GuestCompute \/ HostYield \/ HostSubreq \/ GuestReturn
    BY <2>4, GuestContract
  <2>5. CASE InstantiateReturn \/ EngineError \/ SliceEnds
    BY <2>5, OutcomeContract
  <2>6. CASE PollPending \/ InstantiateComplete \/ CallComplete
    BY <2>6, PendingContract, InstantiatedContract, CompleteContract
  <2>7. CASE InitRequestExec \/ SubrequestDone \/ Cleanup
    BY <2>7, BetweenContract
  <2> QED
    BY <2>1, <2>2, <2>3, <2>4, <2>5, <2>6, <2>7, Zenon DEF Next, RunStep
<1> QED BY <1>1, <1>2, Inductive, PTL DEF Spec, ImplementsContract, Contract!Spec
=============================================================================
