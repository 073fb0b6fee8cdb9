---------------------------- MODULE MetricsProofs ----------------------------
(***************************************************************************)
(* The sums, the mutex and the declarations of Metrics, for any number of  *)
(* workers, configurations, calls and reloads.                             *)
(***************************************************************************)
EXTENDS Metrics, SequenceTheorems, TLAPS

\* What a configuration is made of.
LEMMA Declarations ==
  ASSUME NEW c \in Configurations
  PROVE  /\ DOMAIN c = 1..Len(c) /\ Len(c) \in Nat
         /\ \A i \in DOMAIN c : c[i] \in [name : Names, kind : Kinds]
         /\ \A i \in DOMAIN c : c[i].name \in Declared(c)
         /\ Declared(c) \subseteq Names
         /\ \A i \in DOMAIN c : KindIn(c, c[i].name) = c[i].kind
<1>1. c \in Seq([name : Names, kind : Kinds])
  BY MetricsAssumption
<1>2. \A i \in DOMAIN c : c[i].name \in Declared(c)
  BY DEF Declared
<1>3. Declared(c) \subseteq Names
  BY DEF Names
<1>4. ASSUME NEW i \in DOMAIN c PROVE KindIn(c, c[i].name) = c[i].kind
  <2> DEFINE D == {c[j] : j \in DOMAIN c}
  <2>1. \A d \in D : d.name = c[i].name => d = c[i]
    BY MetricsAssumption
  <2>2. c[i] \in D
    OBVIOUS
  <2>3. (CHOOSE d \in D : d.name = c[i].name) = c[i]
    BY <2>1, <2>2
  <2> QED
    BY <2>3 DEF KindIn
<1>5. DOMAIN c = 1..Len(c) /\ Len(c) \in Nat
  <2>1. Len(c) \in Nat
    BY <1>1, LenProperties
  <2>2. DOMAIN c = 1..Len(c)
    BY <1>1, LenProperties
  <2> QED
    BY <2>1, <2>2
<1>6. \A i \in DOMAIN c : c[i] \in [name : Names, kind : Kinds]
  <2>1. c \in [1..Len(c) -> [name : Names, kind : Kinds]]
    BY <1>1, LenProperties
  <2> QED
    BY <1>5, <2>1
<1> QED
  BY <1>2, <1>3, <1>4, <1>5, <1>6

\* What a node starts with and what it saturates at are values, and values are numbers.
LEMMA ZeroIsValue == 0 \in Values /\ MaxValue \in Values /\ Values \subseteq Int
  BY MetricsAssumption DEF Values

\* A new zone, with its configuration loaded, satisfies the invariant.
LEMMA InitIInv == Init => IInv
<1> SUFFICES ASSUME Init PROVE IInv
  OBVIOUS
<1> USE DEF Init
<1>1. accepted \in Configurations
  OBVIOUS
<1>2. \A n \in Declared(accepted) : KindIn(accepted, n) \in Kinds
  <2> SUFFICES ASSUME NEW n \in Declared(accepted) PROVE KindIn(accepted, n) \in Kinds
    OBVIOUS
  <2>1. PICK i \in DOMAIN accepted : n = accepted[i].name
    BY DEF Declared
  <2> QED
    BY <2>1, <1>1, Declarations
<1>3. DOMAIN nodes = Declared(accepted) /\ Declared(accepted) \subseteq Names
  BY <1>1, Declarations
<1>4. nodes \in [DOMAIN nodes -> [kind : Kinds, value : Values]]
  BY <1>2, ZeroIsValue DEF Node
<1>5. \A i \in DOMAIN accepted : Served(accepted[i])
  BY <1>1, Declarations DEF Served, Node
<1>6. TypeOK
  BY <1>3, <1>4, ZeroIsValue, Declarations, MetricsAssumption DEF TypeOK
<1>7. LockMeansSection /\ CallsOK
  BY MetricsAssumption DEF LockMeansSection, CallsOK
<1>8. NoneBefore /\ CounterIsSum
  BY <1>3, MetricsAssumption DEF NoneBefore, CounterIsSum, Node
<1>9. LoadedIsServed /\ DeclaredIsServed
  BY <1>5, Declarations DEF LoadedIsServed, DeclaredIsServed
<1> QED
  BY <1>6, <1>7, <1>8, <1>9 DEF IInv

-----------------------------------------------------------------------------
(* What a step does to the nodes.                                          *)

\* The declaration a load is at.
LEMMA AtDeclaration ==
  ASSUME TypeOK, LockMeansSection, Ahead
  PROVE  /\ loading + 1 \in DOMAIN next /\ loading \in 0..Len(next)
         /\ Declaration \in [name : Names, kind : Kinds]
<1>1. next \in Configurations /\ loading \in -1..Len(next) /\ loading # -1
  BY DEF TypeOK, LockMeansSection, Ahead
<1>2. DOMAIN next = 1..Len(next) /\ Len(next) \in Nat
  BY <1>1, Declarations
<1>3. loading + 1 \in DOMAIN next /\ loading \in 0..Len(next)
  BY <1>1, <1>2 DEF Ahead
<1> QED
  BY <1>1, <1>3, Declarations DEF Declaration

\* A call that is about to write knows its node.
LEMMA AtWrite ==
  ASSUME TypeOK, CallsOK, NEW w \in Workers, pc[w] = "write"
  PROVE  /\ op[w] \in Calls /\ op[w].name \in DOMAIN nodes
         /\ op[w].kind \in {"inc", "set", "add"} /\ op[w].delta \in Values
         /\ op[w].name \in Names
         /\ nodes[op[w].name].kind = KindOf(op[w].kind)
         /\ nodes[op[w].name].value = read[w] /\ read[w] \in Values
         /\ op[w].kind = "inc" => op[w].delta >= 0
<1>1. op[w] \in Calls /\ op[w].kind # "get"
  BY DEF CallsOK
<1>2. op[w].kind \in {"inc", "set", "add"} /\ op[w].name \in Names /\ op[w].delta \in Values
  BY <1>1, ZeroIsValue, MetricsAssumption DEF Calls
<1> QED
  BY <1>1, <1>2 DEF CallsOK, TypeOK

\* What a call stores is a value: a counter saturates.
LEMMA NewValuesType ==
  ASSUME TypeOK, CallsOK, NEW w \in Workers, pc[w] = "write"
  PROVE  NewValues(w) \subseteq Values
  BY AtWrite, ZeroIsValue DEF NewValues, SignedSum

\* Who is in a section is alone in it.
LEMMA Alone ==
  ASSUME LockMeansSection, NEW w \in Workers, pc[w] \in {"read", "write", "unlock"}
  PROVE  /\ lock = w /\ loading = -1
         /\ \A v \in Workers \ {w} : pc[v] \notin {"read", "write", "unlock"}
  BY MetricsAssumption DEF LockMeansSection

\* Nodes stay, with their kinds.
LEMMA NodesStay ==
  ASSUME TypeOK, LockMeansSection, CallsOK, [Next]_vars
  PROVE  /\ nodes' \in [DOMAIN nodes' -> [kind : Kinds, value : Values]]
         /\ DOMAIN nodes \subseteq DOMAIN nodes' /\ DOMAIN nodes' \subseteq Names
         /\ \A n \in DOMAIN nodes : nodes'[n].kind = nodes[n].kind
<1>1. CASE UNCHANGED nodes
  BY <1>1 DEF TypeOK
<1>2. ASSUME NEW w \in Workers, Write(w)
      PROVE  /\ nodes' \in [DOMAIN nodes -> [kind : Kinds, value : Values]]
             /\ DOMAIN nodes' = DOMAIN nodes
             /\ \A n \in DOMAIN nodes : nodes'[n].kind = nodes[n].kind
  <2>1. PICK v \in NewValues(w) : nodes' = [nodes EXCEPT ![op[w].name].value = v]
    BY <1>2 DEF Write
  <2>2. v \in Values /\ op[w].name \in DOMAIN nodes
    BY <1>2, AtWrite, NewValuesType DEF Write
  <2> QED
    BY <2>1, <2>2 DEF TypeOK
<1>3. ASSUME AddNode
      PROVE  /\ nodes' \in [DOMAIN nodes' -> [kind : Kinds, value : Values]]
             /\ DOMAIN nodes \subseteq DOMAIN nodes' /\ DOMAIN nodes' \subseteq Names
             /\ \A n \in DOMAIN nodes : nodes'[n].kind = nodes[n].kind
  BY <1>3, AtDeclaration, ZeroIsValue DEF AddNode, Node, TypeOK
<1>4. UNCHANGED nodes \/ AddNode \/ \E w \in Workers : Write(w)
  BY DEF Next, vars, Invoke, Acquire, Holder, Replace, Read, Unlock, Reload, Loader,
     KeepNode, WrongKind, NoRoom, Loaded
<1> QED
  BY <1>1, <1>2, <1>3, <1>4 DEF TypeOK

-----------------------------------------------------------------------------
(* Each part of IInv is kept.                                              *)

\* No step takes a variable out of its type.
LEMMA TypeStep ==
  ASSUME TypeOK, LockMeansSection, CallsOK, [Next]_vars
  PROVE  TypeOK'
<1> USE NodesStay
<1>1. ASSUME NEW w \in Workers, Invoke(w) PROVE TypeOK'
  BY <1>1, MetricsAssumption DEF Invoke, TypeOK, masterVars
<1>2. ASSUME NEW w \in Workers, Acquire(w) PROVE TypeOK'
  BY <1>2 DEF Acquire, TypeOK, masterVars
<1>3. ASSUME NEW w \in Workers, Read(w) PROVE TypeOK'
  <2>1. read' \in [Workers -> Values]
    BY <1>3 DEF Read, TypeOK
  <2>2. pc' \in [Workers -> {"idle", "lock", "read", "write", "unlock"}]
    BY <1>3 DEF Read, TypeOK
  <2> QED
    BY <1>3, <2>1, <2>2 DEF Read, TypeOK, masterVars
<1>4. ASSUME NEW w \in Workers, Write(w) PROVE TypeOK'
  <2>1. granted' \in [Names -> Nat]
    <3>1. op[w].delta \in Int /\ (op[w].kind = "inc" => op[w].delta \in Nat)
      BY <1>4, AtWrite, ZeroIsValue DEF Write
    <3>2. granted \in [Names -> Nat] /\ op[w].name \in Names
      BY <1>4, AtWrite DEF Write, TypeOK
    <3> QED
      BY <1>4, <3>1, <3>2 DEF Write
  <2>2. pc' \in [Workers -> {"idle", "lock", "read", "write", "unlock"}]
    BY <1>4 DEF Write, TypeOK
  <2> QED
    BY <1>4, <2>1, <2>2 DEF Write, TypeOK, masterVars
<1>5. ASSUME NEW w \in Workers, Unlock(w) PROVE TypeOK'
  BY <1>5, ZeroIsValue DEF Unlock, TypeOK, masterVars
<1>6. ASSUME NEW w \in Workers, Replace(w) PROVE TypeOK'
  BY <1>6 DEF Replace, TypeOK, masterVars, workerVars
<1>7. CASE Reload
  <2>1. next' \in Configurations /\ loading' = 0 /\ reloads < MaxReloads
        /\ reloads' = reloads + 1 /\ lock' = Master
    BY <1>7 DEF Reload
  <2>2. Len(next') \in Nat
    BY <2>1, Declarations
  <2>3. reloads \in 0..MaxReloads /\ MaxReloads \in Nat
    BY MetricsAssumption DEF TypeOK
  <2>4. loading' \in -1..Len(next')
    BY <2>1, <2>2
  <2>5. reloads' \in 0..MaxReloads
    BY <2>1, <2>3
  <2>6. UNCHANGED <<nodes, workerVars, conf, accepted, granted>>
    BY <1>7 DEF Reload
  <2> QED
    BY <2>1, <2>4, <2>5, <2>6 DEF TypeOK, workerVars
<1>8. CASE Loader
  <2>1. loading' \in -1..Len(next)
    <3>1. Len(next) \in Nat
      BY Declarations DEF TypeOK
    <3> QED
      BY <1>8, <3>1, AtDeclaration, Declarations DEF Loader, KeepNode, AddNode, WrongKind,
         NoRoom, Loaded, RejectConfiguration, TypeOK, Ahead
  <2> QED
    BY <1>8, <2>1 DEF Loader, KeepNode, AddNode, WrongKind, NoRoom, Loaded,
       RejectConfiguration, TypeOK, workerVars
<1>9. CASE UNCHANGED vars
  BY <1>9 DEF vars, TypeOK, masterVars, workerVars
<1> QED
  BY <1>1, <1>2, <1>3, <1>4, <1>5, <1>6, <1>7, <1>8, <1>9 DEF Next, Holder

\* A section is entered with the free mutex and every exit unlocks it.
LEMMA SectionStep ==
  ASSUME TypeOK, LockMeansSection, [Next]_vars
  PROVE  LockMeansSection'
<1> USE MetricsAssumption
<1>1. ASSUME NEW w \in Workers, Invoke(w) \/ Acquire(w) \/ Holder(w) PROVE LockMeansSection'
  BY <1>1 DEF Invoke, Acquire, Holder, Read, Write, Unlock, TypeOK, LockMeansSection,
     masterVars
<1>2. ASSUME NEW w \in Workers, Replace(w) PROVE LockMeansSection'
  BY <1>2 DEF Replace, LockMeansSection, masterVars, workerVars
<1>3. CASE Reload
  BY <1>3 DEF Reload, LockMeansSection, workerVars
<1>4. CASE Loader
  <2>1. lock = Master /\ (Ahead => loading \in 0..Len(next) /\ Len(next) \in Nat)
    BY <1>4, AtDeclaration, Declarations DEF Loader, KeepNode, AddNode, WrongKind, NoRoom,
       Loaded, Ahead, TypeOK
  <2> QED
    BY <1>4, <2>1 DEF Loader, KeepNode, AddNode, WrongKind, NoRoom, Loaded,
       RejectConfiguration, LockMeansSection, workerVars
<1>5. CASE UNCHANGED vars
  BY <1>5 DEF vars, LockMeansSection, masterVars, workerVars
<1> QED
  BY <1>1, <1>2, <1>3, <1>4, <1>5 DEF Next

\* A call changes the nodes alone in its section, and only its own node's value.
LEMMA CallsStep ==
  ASSUME TypeOK, LockMeansSection, CallsOK, [Next]_vars
  PROVE  CallsOK'
<1>1. ASSUME NEW w \in Workers, Invoke(w) PROVE CallsOK'
  BY <1>1 DEF Invoke, CallsOK, TypeOK
<1>2. ASSUME NEW w \in Workers, Acquire(w) PROVE CallsOK'
  BY <1>2 DEF Acquire, CallsOK, TypeOK
<1>3. ASSUME NEW w \in Workers, Read(w) PROVE CallsOK'
  <2>1. \A v \in Workers \ {w} : pc'[v] = pc[v] /\ read'[v] = read[v]
    BY <1>3 DEF Read, TypeOK
  <2>2. op' = op /\ nodes' = nodes /\ op[w] \in Calls
        /\ (op[w].kind = "inc" => op[w].delta >= 0)
    BY <1>3 DEF Read, CallsOK
  <2>3. pc'[w] = "write" => /\ op[w].kind # "get" /\ op[w].name \in DOMAIN nodes
                            /\ nodes[op[w].name].kind = KindOf(op[w].kind)
                            /\ nodes[op[w].name].value = read'[w]
    BY <1>3 DEF Read, TypeOK
  <2> QED
    BY <2>1, <2>2, <2>3 DEF CallsOK
<1>4. ASSUME NEW w \in Workers, Write(w) PROVE CallsOK'
  <2>1. pc' = [pc EXCEPT ![w] = "unlock"] /\ op' = op /\ read' = read
    BY <1>4 DEF Write
  <2>2. \A v \in Workers : pc'[v] # "write"
    BY <1>4, <2>1, Alone DEF Write, TypeOK
  <2>3. \A v \in Workers : pc'[v] # "idle" => pc[v] # "idle"
    BY <1>4, <2>1 DEF Write, TypeOK
  <2> QED
    BY <2>1, <2>2, <2>3 DEF CallsOK
<1>5. ASSUME NEW w \in Workers, Unlock(w) PROVE CallsOK'
  BY <1>5 DEF Unlock, CallsOK, TypeOK
<1>6. CASE UNCHANGED <<nodes, workerVars>>
  BY <1>6 DEF workerVars, CallsOK
<1>7. ASSUME AddNode PROVE CallsOK'
  <2>1. \A n \in DOMAIN nodes : n \in DOMAIN nodes' /\ nodes'[n] = nodes[n]
    BY <1>7 DEF AddNode
  <2> QED
    BY <1>7, <2>1 DEF AddNode, CallsOK, workerVars
<1> QED
  BY <1>1, <1>2, <1>3, <1>4, <1>5, <1>6, <1>7 DEF Next, Holder, Loader, vars, Replace,
     Reload, KeepNode, WrongKind, NoRoom, Loaded

\* What a counter holds after a write: the sum, or the maximum.
LEMMA Saturates ==
  ASSUME NEW a \in Nat, NEW d \in Nat, NEW v, NEW g \in Nat,
         a = (IF g <= MaxValue THEN g ELSE MaxValue),
         v \in (IF a > MaxValue - d THEN {MaxValue} ELSE SignedSum(a, d))
  PROVE  v = (IF g + d <= MaxValue THEN g + d ELSE MaxValue)
<1>1. CASE a > MaxValue - d
  BY <1>1, MetricsAssumption
<1>2. CASE ~(a > MaxValue - d)
  <2>1. a + d \in Values /\ a + d <= MaxValue
    BY <1>2, MetricsAssumption DEF Values
  <2>2. v = a + d
    BY <1>2, <2>1 DEF SignedSum
  <2> QED
    BY <2>1, <2>2, MetricsAssumption
<1> QED
  BY <1>1, <1>2

\* A write adds to its counter what is granted; a new counter starts at 0.
LEMMA SumsStep ==
  ASSUME TypeOK, LockMeansSection, CallsOK, NoneBefore, CounterIsSum, [Next]_vars
  PROVE  NoneBefore' /\ CounterIsSum'
<1>1. CASE UNCHANGED <<nodes, granted>>
  BY <1>1 DEF NoneBefore, CounterIsSum
<1>2. ASSUME NEW w \in Workers, Write(w) PROVE NoneBefore' /\ CounterIsSum'
  <2> DEFINE m == op[w].name
  <2>1. /\ m \in DOMAIN nodes /\ m \in Names /\ nodes[m].kind = KindOf(op[w].kind)
        /\ nodes[m].value = read[w]
        /\ op[w].kind \in {"inc", "set", "add"}
    BY <1>2, AtWrite DEF Write
  <2>2. PICK v \in NewValues(w) : nodes' = [nodes EXCEPT ![m].value = v]
    BY <1>2 DEF Write
  <2>3. DOMAIN nodes' = DOMAIN nodes
        /\ \A n \in DOMAIN nodes \ {m} : nodes'[n] = nodes[n]
    BY <2>2
  <2>4. nodes'[m].kind = nodes[m].kind /\ nodes'[m].value = v
    BY <2>1, <2>2 DEF TypeOK
  <2>5. granted \in [Names -> Nat] /\ \A n \in Names \ {m} : granted'[n] = granted[n]
    BY <1>2 DEF Write, TypeOK
  <2>6. NoneBefore'
    BY <2>1, <2>3, <2>5 DEF NoneBefore
  <2>7. CASE op[w].kind = "inc"
    <3>1. op[w].delta \in Nat /\ granted'[m] = granted[m] + op[w].delta
      <4>1. op[w].delta \in Int /\ op[w].delta >= 0
        BY <1>2, <2>7, AtWrite, ZeroIsValue DEF Write
      <4>2. granted'[m] = granted[m] + op[w].delta
        BY <1>2, <2>1, <2>5, <2>7 DEF Write
      <4> QED
        BY <4>1, <4>2
    <3>2. nodes[m].kind = "counter"
      BY <2>1, <2>7 DEF KindOf
    <3>3. nodes[m].value = (IF granted[m] <= MaxValue THEN granted[m] ELSE MaxValue)
      BY <2>1, <3>2 DEF CounterIsSum
    <3>4. v \in (IF read[w] > MaxValue - op[w].delta THEN {MaxValue}
                 ELSE SignedSum(read[w], op[w].delta))
      BY <2>2, <2>7 DEF NewValues
    <3>5. granted[m] \in Nat /\ read[w] \in Nat
      BY <2>1, <2>5, <3>3, MetricsAssumption
    <3>6. nodes'[m].value = (IF granted'[m] <= MaxValue THEN granted'[m] ELSE MaxValue)
      <4> DEFINE a == read[w]  d == op[w].delta  g == granted[m]
      <4>1. a \in Nat /\ d \in Nat /\ g \in Nat
        BY <3>1, <3>5
      <4>2. a = (IF g <= MaxValue THEN g ELSE MaxValue)
        BY <2>1, <3>3
      <4>3. v \in (IF a > MaxValue - d THEN {MaxValue} ELSE SignedSum(a, d))
        BY <3>4
      <4> HIDE DEF a, d, g
      <4>4. v = (IF g + d <= MaxValue THEN g + d ELSE MaxValue)
        BY <4>1, <4>2, <4>3, Saturates
      <4> USE DEF a, d, g
      <4> QED
        BY <2>4, <3>1, <4>4
    <3>7. CounterIsSum'
      <4> SUFFICES ASSUME NEW n \in DOMAIN nodes', nodes'[n].kind = "counter"
                   PROVE  nodes'[n].value =
                            (IF granted'[n] <= MaxValue THEN granted'[n] ELSE MaxValue)
        BY DEF CounterIsSum
      <4>1. n = m \/ (n \in DOMAIN nodes \ {m} /\ nodes'[n] = nodes[n]
                      /\ granted'[n] = granted[n])
        BY <2>3, <2>5 DEF TypeOK
      <4> QED
        BY <3>6, <4>1 DEF CounterIsSum
    <3> QED
      BY <2>6, <3>7
  <2>8. CASE op[w].kind # "inc"
    <3>1. nodes'[m].kind # "counter" /\ granted' = granted
      BY <1>2, <2>1, <2>4, <2>8 DEF Write, KindOf
    <3> QED
      BY <2>3, <2>6, <3>1 DEF CounterIsSum
  <2> QED
    BY <2>7, <2>8
<1>3. ASSUME AddNode PROVE NoneBefore' /\ CounterIsSum'
  <2>1. Declaration.name \in Names /\ Declaration.name \notin DOMAIN nodes /\ granted' = granted
    BY <1>3, AtDeclaration DEF AddNode
  <2>2. DOMAIN nodes' = DOMAIN nodes \cup {Declaration.name}
        /\ (\A n \in DOMAIN nodes : nodes'[n] = nodes[n])
        /\ nodes'[Declaration.name].value = 0
    BY <1>3, <2>1 DEF AddNode, Node
  <2>3. granted[Declaration.name] = 0
    BY <2>1 DEF NoneBefore
  <2> QED
    BY <2>1, <2>2, <2>3, MetricsAssumption DEF NoneBefore, CounterIsSum
<1>4. UNCHANGED <<nodes, granted>> \/ AddNode \/ \E w \in Workers : Write(w)
  BY DEF Next, vars, Invoke, Acquire, Holder, Replace, Read, Unlock, Reload, Loader,
     KeepNode, WrongKind, NoRoom, Loaded
<1> QED
  BY <1>1, <1>2, <1>3, <1>4

\* What is served stays served; what a load has passed is served, and what it has
\* finished is in force; a worker takes over what is in force.
LEMMA ServedStep ==
  ASSUME TypeOK, LockMeansSection, CallsOK, LoadedIsServed, DeclaredIsServed, [Next]_vars
  PROVE  LoadedIsServed' /\ DeclaredIsServed'
<1> DEFINE Later(d) == d.name \in DOMAIN nodes' /\ nodes'[d.name].kind = d.kind
<1>1. ASSUME NEW d, Served(d) PROVE Later(d)
  BY <1>1, NodesStay DEF Served
<1>2. \A i \in DOMAIN accepted : Later(accepted[i])
  BY <1>1 DEF LoadedIsServed
<1>3. \A i \in DOMAIN next : i <= loading => Later(next[i])
  BY <1>1 DEF LoadedIsServed
<1>4. \A w \in Workers : \A i \in DOMAIN conf[w] : Later(conf[w][i])
  BY <1>1 DEF DeclaredIsServed
<1>5. next \in Configurations /\ loading \in -1..Len(next) /\ conf \in [Workers -> Configurations]
  BY DEF TypeOK
<1>6. Len(next) \in Nat /\ DOMAIN next = 1..Len(next)
  BY <1>5, Declarations
<1>7. DeclaredIsServed'
  <2>1. CASE conf' = conf
    BY <2>1, <1>4 DEF DeclaredIsServed, Served
  <2>2. ASSUME NEW w \in Workers, Replace(w) PROVE DeclaredIsServed'
    BY <2>2, <1>2, <1>4, <1>5 DEF Replace, DeclaredIsServed, Served
  <2> QED
    BY <2>1, <2>2 DEF Next, vars, Invoke, Acquire, Holder, Read, Write, Unlock, Reload,
       Loader, KeepNode, AddNode, WrongKind, NoRoom, Loaded
<1>8. CASE UNCHANGED <<accepted, next>> /\ loading' \in {loading, -1}
  BY <1>8, <1>2, <1>3, <1>5, <1>6, <1>7 DEF LoadedIsServed, Served
<1>9. CASE Reload
  <2>1. next' \in Configurations /\ loading' = 0 /\ accepted' = accepted
    BY <1>9 DEF Reload
  <2>2. DOMAIN next' = 1..Len(next') /\ Len(next') \in Nat
    BY <2>1, Declarations
  <2> QED
    BY <2>1, <2>2, <1>2, <1>7 DEF LoadedIsServed, Served
<1>10. CASE KeepNode \/ AddNode
  <2>1. Ahead /\ loading' = loading + 1 /\ next' = next /\ accepted' = accepted
    BY <1>10 DEF KeepNode, AddNode
  <2>2. Later(next[loading + 1])
    <3>1. CASE KeepNode
      BY <3>1 DEF KeepNode, Declaration
    <3>2. CASE AddNode
      BY <3>2 DEF AddNode, Declaration, Node
    <3> QED
      BY <1>10, <3>1, <3>2
  <2>3. \A i \in DOMAIN next : i <= loading + 1 => Later(next[i])
    BY <1>3, <1>5, <1>6, <2>2
  <2> QED
    BY <2>1, <2>3, <1>2, <1>7 DEF LoadedIsServed, Served
<1>11. CASE Loaded
  BY <1>11, <1>3, <1>6, <1>7 DEF Loaded, LoadedIsServed, Served
<1> QED
  <2>1. LoadedIsServed'
    BY <1>8, <1>9, <1>10, <1>11 DEF Next, vars, masterVars, Invoke, Acquire, Holder, Read,
       Write, Unlock, Replace, Loader, WrongKind, NoRoom, RejectConfiguration
  <2> QED
    BY <1>7, <2>1

\* The parts together.
LEMMA NextIInv == IInv /\ [Next]_vars => IInv'
  BY TypeStep, SectionStep, CallsStep, SumsStep, ServedStep DEF IInv

-----------------------------------------------------------------------------
(* The theorems.                                                           *)

\* Every reachable state satisfies the invariant.
THEOREM Inductive == Spec => []IInv
<1> QED
  BY InitIInv, NextIInv, PTL DEF Spec

\* Every variable keeps its type, and no value leaves int64_t, whatever the
\* guests add.
THEOREM TypeCorrect == Spec => []TypeOK
<1>1. IInv => TypeOK
  BY DEF IInv
<1> QED
  BY <1>1, Inductive, PTL

\* The mutex of the zone is held exactly during a section: one worker, or the
\* master, is in one at a time and every exit unlocks.
THEOREM MutexIsSection == Spec => []LockMeansSection
<1>1. IInv => LockMeansSection
  BY DEF IInv
<1> QED
  BY <1>1, Inductive, PTL

\* No increment of a counter is lost between workers or across reloads.
THEOREM CountersAreSums == Spec => []CounterIsSum
<1>1. IInv => CounterIsSum
  BY DEF IInv
<1> QED
  BY <1>1, Inductive, PTL

\* The metrics handler of every worker finds what its configuration declares,
\* with its kind, whatever was loaded or rejected since.
THEOREM DeclarationsAreServed == Spec => []DeclaredIsServed
<1>1. IInv => DeclaredIsServed
  BY DEF IInv
<1> QED
  BY <1>1, Inductive, PTL

\* No call and no reload, accepted or rejected, removes a metric, changes its
\* kind or takes anything from a counter.
LEMMA KeptStep ==
  ASSUME IInv, [Next]_vars
  PROVE  \A n \in DOMAIN nodes :
           /\ n \in DOMAIN nodes' /\ nodes'[n].kind = nodes[n].kind
           /\ nodes[n].kind = "counter" => nodes'[n].value >= nodes[n].value
<1> SUFFICES ASSUME NEW n \in DOMAIN nodes
             PROVE  /\ n \in DOMAIN nodes' /\ nodes'[n].kind = nodes[n].kind
                    /\ nodes[n].kind = "counter" => nodes'[n].value >= nodes[n].value
  OBVIOUS
<1>1. TypeOK /\ TypeOK' /\ CounterIsSum /\ CounterIsSum' /\ CallsOK /\ LockMeansSection
  BY NextIInv DEF IInv
<1>2. n \in DOMAIN nodes' /\ nodes'[n].kind = nodes[n].kind /\ n \in Names
  BY <1>1, NodesStay DEF TypeOK
<1>3. granted[n] \in Nat /\ granted'[n] \in Nat
  BY <1>1, <1>2 DEF TypeOK
<1>4. granted'[n] >= granted[n]
  <2>1. CASE UNCHANGED granted
    BY <2>1, <1>3
  <2>2. ASSUME NEW w \in Workers, Write(w) PROVE granted'[n] >= granted[n]
    <3>1. op[w].delta \in Int /\ (op[w].kind = "inc" => op[w].delta >= 0)
      BY <1>1, <2>2, AtWrite, ZeroIsValue DEF Write
    <3>2. granted \in [Names -> Nat]
      BY <1>1 DEF TypeOK
    <3> QED
      BY <2>2, <3>1, <3>2, <1>2, <1>3 DEF Write
  <2> QED
    BY <2>1, <2>2 DEF Next, vars, Invoke, Acquire, Holder, Replace, Read, Unlock, Reload,
       Loader, KeepNode, AddNode, WrongKind, NoRoom, Loaded
<1>5. nodes[n].kind = "counter" => nodes'[n].value >= nodes[n].value
  <2> SUFFICES ASSUME nodes[n].kind = "counter" PROVE nodes'[n].value >= nodes[n].value
    OBVIOUS
  <2>1. nodes[n].value = (IF granted[n] <= MaxValue THEN granted[n] ELSE MaxValue)
    BY <1>1 DEF CounterIsSum
  <2>2. nodes'[n].value = (IF granted'[n] <= MaxValue THEN granted'[n] ELSE MaxValue)
    BY <1>1, <1>2 DEF CounterIsSum
  <2> QED
    BY <2>1, <2>2, <1>3, <1>4, MetricsAssumption
<1> QED
  BY <1>2, <1>5

\* A metric lives as long as the zone, and a counter never goes back.
THEOREM MetricsAreKept == Spec => MetricsSurvive
<1>1. IInv /\ [Next]_vars =>
        [\A n \in DOMAIN nodes :
           /\ n \in DOMAIN nodes' /\ nodes'[n].kind = nodes[n].kind
           /\ nodes[n].kind = "counter" => nodes'[n].value >= nodes[n].value]_vars
  BY KeptStep
<1> QED
  BY <1>1, Inductive, PTL DEF Spec, MetricsSurvive
=============================================================================
