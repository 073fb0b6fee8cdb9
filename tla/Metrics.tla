------------------------------- MODULE Metrics -------------------------------
(***************************************************************************)
(* The metrics zone: counters and gauges in shared memory, which the       *)
(* guests of all the workers change under one mutex, which the metrics     *)
(* handler prints one at a time, and which every (re)configuration         *)
(* completes with the metrics it declares.                                 *)
(*                                                                         *)
(* The tree is a function from names to nodes (its order is ShmTree's      *)
(* subject; this one compares names the same way in both places).  What    *)
(* nginx does around a reload is external: the master runs the zone's init *)
(* handler while the old workers go on, keeps the old configuration when   *)
(* it fails, and replaces the workers one by one when it succeeds.         *)
(***************************************************************************)
EXTENDS Integers, Sequences

CONSTANTS
  Workers, Master, Nobody,
  Configurations,     \* the declarations of each: sequences of [name, kind]
  MaxValue,           \* LLONG_MAX
  Deltas,             \* delta and value arguments
  MaxCalls, MaxReloads    \* bounds of the model

Kinds == {"counter", "gauge"}
Values == (-MaxValue - 1)..MaxValue

Declared(c) == {c[i].name : i \in DOMAIN c}
Names == UNION {Declared(c) : c \in Configurations}

\* No name is declared twice (ngx_http_wasm_metrics_declare refuses it).
ASSUME MetricsAssumption ==
  /\ Master \notin Workers /\ Nobody \notin Workers \cup {Master}
  /\ MaxValue \in Nat /\ MaxCalls \in Nat /\ MaxReloads \in Nat
  /\ Deltas \subseteq Values
  /\ Configurations \subseteq Seq([name : Names, kind : Kinds])
  /\ \A c \in Configurations : \A i, j \in DOMAIN c : c[i].name = c[j].name => i = j

VARIABLES
  nodes,      \* the tree: from names to [kind, value]
  lock,       \* shpool->mutex: a worker, Master or Nobody
  pc, op,     \* where each worker is, and the call it makes
  read,       \* the value it has read
  conf,       \* the configuration each worker runs with
  next,       \* the one the master loads or has loaded last
  loading,    \* how many of its declarations are done; -1 when none is loaded
  accepted,   \* the configuration that is in force
  calls, reloads,  \* counted for the bounds
  granted     \* history: what the guests have added to each name

workerVars == <<pc, op, read, calls>>
masterVars == <<next, loading, accepted, reloads>>
vars == <<nodes, lock, workerVars, conf, masterVars, granted>>

Node(kind, value) == [kind |-> kind, value |-> value]
NoCall == [kind |-> "none"]
Calls == [kind : {"inc", "set", "add", "get"}, name : Names, delta : Deltas \cup {0}]

KindIn(c, n) == (CHOOSE d \in {c[i] : i \in DOMAIN c} : d.name = n).kind

\* A new zone: its configuration is loaded before a worker starts.
Init ==
  /\ accepted \in Configurations
  /\ nodes = [n \in Declared(accepted) |-> Node(KindIn(accepted, n), 0)]
  /\ conf = [w \in Workers |-> accepted] /\ next = accepted
  /\ lock = Nobody /\ loading = -1
  /\ pc = [w \in Workers |-> "idle"] /\ read = [w \in Workers |-> 0]
  /\ op = [w \in Workers |-> NoCall]
  /\ calls = 0 /\ reloads = 0
  /\ granted = [n \in Names |-> 0]

-----------------------------------------------------------------------------
(* The host functions and ngx_http_wasm_metrics_get.                       *)

\* A guest may name what it likes; the metrics handler goes through the
\* declarations of its configuration.  A counter takes no negative delta.
Invoke(w) ==
  /\ pc[w] = "idle" /\ calls < MaxCalls
  /\ \E c \in Calls :
       /\ c.kind = "inc" => c.delta >= 0
       /\ c.kind = "get" => c.delta = 0 /\ c.name \in Declared(conf[w])
       /\ op' = [op EXCEPT ![w] = c]
  /\ pc' = [pc EXCEPT ![w] = "lock"]
  /\ calls' = calls + 1
  /\ UNCHANGED <<nodes, lock, read, conf, masterVars, granted>>

\* The mutex is not waited for.
AcquireMutant(w) ==
  /\ pc[w] = "lock"
  /\ lock' = w
  /\ pc' = [pc EXCEPT ![w] = "read"]
  /\ UNCHANGED <<nodes, op, read, calls, conf, masterVars, granted>>

Acquire(w) ==
  /\ pc[w] = "lock" /\ lock = Nobody
  /\ lock' = w
  /\ pc' = [pc EXCEPT ![w] = "read"]
  /\ UNCHANGED <<nodes, op, read, calls, conf, masterVars, granted>>

KindOf(call) == IF call = "inc" THEN "counter" ELSE "gauge"

\* The name is looked up; a call on a metric of the other kind fails.
Read(w) ==
  LET c == op[w]
      usable == c.name \in DOMAIN nodes
                  /\ (c.kind # "get" => nodes[c.name].kind = KindOf(c.kind))
  IN
  /\ pc[w] = "read"
  /\ IF usable THEN read' = [read EXCEPT ![w] = nodes[c.name].value] ELSE UNCHANGED read
  /\ pc' = [pc EXCEPT ![w] = IF usable /\ c.kind # "get" THEN "write" ELSE "unlock"]
  /\ UNCHANGED <<nodes, lock, op, calls, conf, masterVars, granted>>

\* A sum of two signed numbers: C leaves it undefined when it overflows.
SignedSum(a, b) == IF a + b \in Values THEN {a + b} ELSE Values

\* The test before the sum lets one more value pass.
NewValuesMutant(w) ==
  LET value == read[w]
      delta == op[w].delta
  IN IF op[w].kind = "set" THEN {delta}
     ELSE IF op[w].kind = "inc" /\ value > MaxValue - delta + 1 THEN {MaxValue}
     ELSE SignedSum(value, delta)

\* What is stored.  A counter is tested before the sum and saturates; a gauge may
\* overflow.
NewValues(w) ==
  LET value == read[w]
      delta == op[w].delta
  IN IF op[w].kind = "set" THEN {delta}
     ELSE IF op[w].kind = "inc" /\ value > MaxValue - delta THEN {MaxValue}
     ELSE SignedSum(value, delta)

Write(w) ==
  /\ pc[w] = "write"
  /\ \E v \in NewValues(w) : nodes' = [nodes EXCEPT ![op[w].name].value = v]
  /\ granted' = IF op[w].kind = "inc"
                THEN [granted EXCEPT ![op[w].name] = @ + op[w].delta] ELSE granted
  /\ pc' = [pc EXCEPT ![w] = "unlock"]
  /\ UNCHANGED <<lock, op, read, calls, conf, masterVars>>

Unlock(w) ==
  /\ pc[w] = "unlock"
  /\ lock' = Nobody
  /\ pc' = [pc EXCEPT ![w] = "idle"]
  /\ op' = [op EXCEPT ![w] = NoCall]
  /\ read' = [read EXCEPT ![w] = 0]
  /\ UNCHANGED <<nodes, calls, conf, masterVars, granted>>

-----------------------------------------------------------------------------
(* ngx_http_wasm_metrics_init_zone, for a zone that is kept, and           *)
(* ngx_http_wasm_metrics_ensure_definitions.                               *)

Reload ==
  /\ loading = -1 /\ reloads < MaxReloads
  /\ lock = Nobody /\ lock' = Master
  /\ next' \in Configurations
  /\ loading' = 0 /\ reloads' = reloads + 1
  /\ UNCHANGED <<nodes, workerVars, conf, accepted, granted>>

\* The declaration the loop is at.
Declaration == next[loading + 1]
Ahead == lock = Master /\ loading < Len(next)

\* A metric that is there is started again.
KeepNodeMutant ==
  /\ Ahead /\ Declaration.name \in DOMAIN nodes
  /\ nodes[Declaration.name].kind = Declaration.kind
  /\ nodes' = [nodes EXCEPT ![Declaration.name].value = 0]
  /\ loading' = loading + 1
  /\ UNCHANGED <<lock, workerVars, conf, next, accepted, reloads, granted>>

KeepNode ==
  /\ Ahead /\ Declaration.name \in DOMAIN nodes
  /\ nodes[Declaration.name].kind = Declaration.kind
  /\ loading' = loading + 1
  /\ UNCHANGED <<nodes, lock, workerVars, conf, next, accepted, reloads, granted>>

AddNode ==
  /\ Ahead /\ Declaration.name \notin DOMAIN nodes
  /\ nodes' = [n \in DOMAIN nodes \cup {Declaration.name} |->
                 IF n \in DOMAIN nodes THEN nodes[n] ELSE Node(Declaration.kind, 0)]
  /\ loading' = loading + 1
  /\ UNCHANGED <<lock, workerVars, conf, next, accepted, reloads, granted>>

\* The new configuration is given up; what was added before stays.
RejectConfiguration == loading' = -1 /\ lock' = Nobody /\ UNCHANGED <<next, accepted>>

\* A metric has changed its kind; with the test for that forgotten.
WrongKindMutant ==
  /\ Ahead /\ Declaration.name \in DOMAIN nodes
  /\ nodes[Declaration.name].kind # Declaration.kind
  /\ loading' = loading + 1
  /\ UNCHANGED <<nodes, lock, workerVars, conf, next, accepted, reloads, granted>>

WrongKind ==
  /\ Ahead /\ Declaration.name \in DOMAIN nodes
  /\ nodes[Declaration.name].kind # Declaration.kind
  /\ RejectConfiguration
  /\ UNCHANGED <<nodes, workerVars, conf, reloads, granted>>

\* The zone is full, or has no room in one piece.
NoRoom ==
  /\ Ahead /\ Declaration.name \notin DOMAIN nodes
  /\ RejectConfiguration
  /\ UNCHANGED <<nodes, workerVars, conf, reloads, granted>>

Loaded ==
  /\ lock = Master /\ loading = Len(next)
  /\ accepted' = next /\ loading' = -1 /\ lock' = Nobody
  /\ UNCHANGED <<nodes, workerVars, conf, next, reloads, granted>>

\* A worker with an old configuration ends, and one with the new takes over.
Replace(w) ==
  /\ pc[w] = "idle" /\ conf[w] # accepted
  /\ conf' = [conf EXCEPT ![w] = accepted]
  /\ UNCHANGED <<nodes, lock, workerVars, masterVars, granted>>

Holder(w) == Read(w) \/ Write(w) \/ Unlock(w)
Loader == KeepNode \/ AddNode \/ WrongKind \/ NoRoom \/ Loaded

Next ==
  \/ \E w \in Workers : Invoke(w) \/ Acquire(w) \/ Holder(w) \/ Replace(w)
  \/ Reload \/ Loader

Spec == Init /\ [][Next]_vars

-----------------------------------------------------------------------------
(* Properties.                                                             *)

\* Types; the arithmetic of a counter stays within int64_t.
TypeOK ==
  /\ DOMAIN nodes \subseteq Names
  /\ nodes \in [DOMAIN nodes -> [kind : Kinds, value : Values]]
  /\ lock \in Workers \cup {Master, Nobody}
  /\ pc \in [Workers -> {"idle", "lock", "read", "write", "unlock"}]
  /\ op \in [Workers -> Calls \cup {NoCall}] /\ read \in [Workers -> Values]
  /\ conf \in [Workers -> Configurations]
  /\ next \in Configurations /\ accepted \in Configurations
  /\ loading \in -1..Len(next)
  /\ calls \in 0..MaxCalls /\ reloads \in 0..MaxReloads
  /\ granted \in [Names -> Nat]

\* No increment is lost, by any worker, across any number of reloads: a counter
\* is the sum of what the guests added to it, or the maximum.
CounterIsSum ==
  \A n \in DOMAIN nodes : nodes[n].kind = "counter" =>
    nodes[n].value = (IF granted[n] <= MaxValue THEN granted[n] ELSE MaxValue)

\* A metric keeps its node and its kind, and a counter never goes back,
\* whatever is reloaded, or fails to be.
MetricsSurvive ==
  [][\A n \in DOMAIN nodes :
       /\ n \in DOMAIN nodes' /\ nodes'[n].kind = nodes[n].kind
       /\ nodes[n].kind = "counter" => nodes'[n].value >= nodes[n].value]_vars

\* A worker finds every metric its configuration declares, with the kind it
\* declares; so a scrape never fails, though the zone holds what several
\* configurations, some of them rejected, have added.
Served(d) == d.name \in DOMAIN nodes /\ nodes[d.name].kind = d.kind

DeclaredIsServed ==
  \A w \in Workers : \A i \in DOMAIN conf[w] : Served(conf[w][i])

\* The mutex has an owner exactly while somebody is in a section: two workers,
\* or a worker and the master, are never in it at once, and every exit, those
\* on errors as well, has given it back.
LockMeansSection ==
  /\ \A w \in Workers : lock = w <=> pc[w] \in {"read", "write", "unlock"}
  /\ lock = Master <=> loading # -1

\* What makes these inductive.  A worker in its section knows the call it makes,
\* and about to write it knows what is stored.
CallsOK ==
  \A w \in Workers :
    /\ pc[w] # "idle" => op[w] \in Calls /\ (op[w].kind = "inc" => op[w].delta >= 0)
    /\ pc[w] = "write" =>
         /\ op[w].kind # "get" /\ op[w].name \in DOMAIN nodes
         /\ nodes[op[w].name].kind = KindOf(op[w].kind)
         /\ nodes[op[w].name].value = read[w]

\* Nothing was granted before there was a node.
NoneBefore == \A n \in Names \ DOMAIN nodes : granted[n] = 0

\* The configuration in force is served, and as much as is loaded of the next.
LoadedIsServed ==
  /\ \A i \in DOMAIN accepted : Served(accepted[i])
  /\ \A i \in DOMAIN next : i <= loading => Served(next[i])

IInv ==
  /\ TypeOK /\ LockMeansSection /\ CallsOK
  /\ NoneBefore /\ CounterIsSum
  /\ LoadedIsServed /\ DeclaredIsServed
=============================================================================
