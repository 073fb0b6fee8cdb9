---------------------------- MODULE ExecContract ----------------------------
(***************************************************************************)
(* What ngx_http_wasm_runtime_run() promises to the handlers that call it: *)
(* the life of one execution context (ngx_http_wasm_exec_ctx_t) as seen    *)
(* from outside the runtime.  A run either finishes (DONE), fails (ERROR)  *)
(* or is suspended with a reason, and a run that is suspended or finished  *)
(* has always charged guest work that no earlier run had charged, so a     *)
(* context can be suspended only finitely often.                           *)
(*                                                                         *)
(* WasmExec implements this specification; WasmRequest is written on top   *)
(* of it, with the same actions.                                           *)
(***************************************************************************)
EXTENDS Naturals

CONSTANT Budget      \* wasm_fuel_limit: guest work one context may ever do

VARIABLES
  status,            \* ctx->state, or "DESTROYED" once the pool is gone
  wait,              \* ctx->suspend_kind
  spent,             \* guest work done by the context since it was initialised
  accounted          \* the part of it the context has read back from the store

execVars == <<status, wait, spent, accounted>>

Idle == {"READY", "SUSPENDED", "DONE", "ERROR"}
Kinds == {"NONE", "RESCHEDULE", "WAIT_IO"}

Init ==
  /\ status = "READY"
  /\ wait = "NONE"
  /\ spent = 0
  /\ accounted = 0

-----------------------------------------------------------------------------
\* A caller runs the context: the previous reason to wait is forgotten.
Start ==
  /\ status \in Idle
  /\ status' = "RUNNING"
  /\ wait' = "NONE"
  /\ UNCHANGED <<spent, accounted>>

\* The guest does one unit of work, possibly a host call that starts I/O.
Work ==
  /\ status = "RUNNING"
  /\ spent < Budget
  /\ spent' = spent + 1
  /\ wait' \in {wait, "WAIT_IO"}
  /\ UNCHANGED <<status, accounted>>

\* The runtime reads the remaining fuel back from the store.
Account ==
  /\ status = "RUNNING"
  /\ accounted' = spent
  /\ UNCHANGED <<status, wait, spent>>

\* The run returns NGX_AGAIN.
Suspend(kind) ==
  /\ status = "RUNNING"
  /\ accounted < spent
  /\ kind = "RESCHEDULE" \/ (kind = "WAIT_IO" /\ wait = "WAIT_IO")
  /\ status' = "SUSPENDED"
  /\ wait' = kind
  /\ accounted' = spent
  /\ UNCHANGED spent

\* The run returns NGX_OK: the guest came back for good, so it launched nothing
\* in this run that it has to wait for.
Finish ==
  /\ status = "RUNNING"
  /\ accounted < spent
  /\ wait = "NONE"
  /\ status' = "DONE"
  /\ accounted' = spent
  /\ UNCHANGED <<wait, spent>>

\* The run returns NGX_ERROR, before the guest ran or after.
Fail ==
  /\ status \in Idle \cup {"RUNNING"}
  /\ status' = "ERROR"
  /\ accounted' \in {accounted, spent}
  /\ UNCHANGED <<wait, spent>>

\* A finished context is initialised again for the next phase of the request.
Reinit ==
  /\ status = "DONE"
  /\ status' = "READY"
  /\ wait' = "NONE"
  /\ spent' = 0
  /\ accounted' = 0

\* The pool that owns the context is destroyed.
Destroy ==
  /\ status \in Idle
  /\ status' = "DESTROYED"
  /\ UNCHANGED <<wait, spent, accounted>>

Return ==
  \/ \E kind \in Kinds : Suspend(kind)
  \/ Finish
  \/ Fail

Next ==
  \/ Start
  \/ Work
  \/ Account
  \/ Return
  \/ Reinit
  \/ Destroy

Spec == Init /\ [][Next]_execVars
=============================================================================
