---------------------------- MODULE WasmShmProofs ----------------------------
(***************************************************************************)
(* The sections of the dictionary, and that it implements SharedKV, for    *)
(* any number of workers, keys and calls and any amount of memory.         *)
(***************************************************************************)
EXTENDS WasmShm, FiniteSetTheorems, FunctionTheorems, SequenceTheorems, TLAPS

\* The empty zone satisfies the invariant.
LEMMA InitIInv == Init => IInv
<1> SUFFICES ASSUME Init PROVE IInv
  OBVIOUS
<1> USE DEF Init
<1>1. CallTypeOK
  BY ShmAssumption DEF CallTypeOK, Points, KV!Nothing, KV!Answer, KV!Values
<1>2. LockMeansSection /\ CallsOK
  BY ShmAssumption DEF LockMeansSection, CallsOK
<1> QED
  BY <1>1, <1>2 DEF IInv

-----------------------------------------------------------------------------
(* Types.                                                                  *)

\* What arithmetic needs of the assumption.
LEMMA BoundsAreNumbers == MaxTime \in Nat /\ MaxCalls \in Nat
  BY ShmAssumption DEF ShmAssumption

\* The arguments a host function passes on.
LEMMA ArgumentsType ==
  ASSUME CallTypeOK, NEW w \in Workers, NEW c \in Arguments(w)
  PROVE  c \in KV!Calls
<1>1. clock[w] \in Nat
  <2>1. clock \in [Workers -> 0..MaxTime]
    BY DEF CallTypeOK
  <2> QED
    BY <2>1, BoundsAreNumbers
<1>2. Text \in KV!Values /\ StoredValues \subseteq KV!Values /\ 0 \in Nat /\ 0 \in Int
      /\ Deltas \subseteq Int /\ \A t \in Ttls : clock[w] + t \in Nat
  BY <1>1, ShmAssumption DEF KV!Values, KV!Ints
<1>3. ASSUME NEW kind \in {"set", "add", "replace", "incr", "get", "delete"}, NEW k \in Keys,
             NEW v \in KV!Values, NEW e \in Nat, NEW d \in Int
      PROVE  KV!Call(kind, k, v, e, d) \in KV!Calls
  BY DEF KV!Call, KV!Calls, KV!Writes, KV!Stores
<1>4. CASE c \in {KV!Call(kind, k, Text, 0, 0) : kind \in {"get", "delete"}, k \in Keys}
  BY <1>2, <1>3, <1>4
<1>5. CASE c \in {KV!Call("incr", k, Text, 0, d) : k \in Keys, d \in Deltas}
  BY <1>2, <1>3, <1>5
<1>6. CASE c \in {KV!Call(kind, k, v, 0, 0) :
                   kind \in {"add", "replace"}, k \in Keys, v \in StoredValues}
  BY <1>2, <1>3, <1>6
<1>7. CASE c \in {KV!Call("set", k, v, IF t = 0 THEN 0 ELSE clock[w] + t, 0) :
                   k \in Keys, v \in StoredValues, t \in Ttls}
  <2>1. PICK k \in Keys, v \in StoredValues, t \in Ttls :
          c = KV!Call("set", k, v, IF t = 0 THEN 0 ELSE clock[w] + t, 0)
    BY <1>7
  <2>2. (IF t = 0 THEN 0 ELSE clock[w] + t) \in Nat /\ v \in KV!Values
    BY <1>2
  <2> QED
    BY <1>2, <1>3, <2>1, <2>2
<1> QED
  BY <1>4, <1>5, <1>6, <1>7 DEF Arguments

\* What a store that is admissible stores, and what it answers.
LEMMA NewEntryType ==
  ASSUME CallTypeOK, CallsOK, NEW w \in Workers, pc[w] # "idle",
         op[w].kind \in KV!Writes,
         op[w].kind = "incr" =>
           /\ Found(w) /\ tree[Key(w)].value # Text
           /\ tree[Key(w)].value + op[w].delta \in KV!Ints
  PROVE  /\ NewEntry(w) \in [value : KV!Values, expires : Nat]
         /\ Key(w) \in Keys
         /\ Stored(w) \in [rc : {"none", "ok", "not found", "error"}, value : KV!Values]
<1>1. op[w] \in KV!Calls
  BY DEF CallsOK
<1>2. op[w].key \in Keys /\ op[w].value \in KV!Values /\ op[w].expires \in Nat
  BY <1>1 DEF KV!Calls
<1>3. NewEntry(w) \in [value : KV!Values, expires : Nat]
  <2>1. CASE op[w].kind = "incr"
    <3>1. tree[Key(w)] \in [value : KV!Values, expires : Nat]
      BY <2>1 DEF CallTypeOK, Found
    <3> QED
      BY <2>1, <3>1 DEF NewEntry, KV!Values
  <2>2. CASE op[w].kind # "incr"
    BY <1>2, <2>2 DEF NewEntry
  <2> QED
    BY <2>1, <2>2
<1>4. Text \in KV!Values
  BY DEF KV!Values
<1> QED
  BY <1>2, <1>3, <1>4 DEF Key, Stored, KV!Answer, KV!Nothing

\* What the helpers leave in the tree.
LEMMA TreeTypes ==
  ASSUME CallTypeOK, NEW k
  PROVE  /\ DOMAIN KV!Without(k) \subseteq Keys
         /\ KV!Without(k) \in [DOMAIN KV!Without(k) -> [value : KV!Values, expires : Nat]]
  BY DEF CallTypeOK, KV!Without

\* A step of a call keeps the types.
LEMMA TypeStep ==
  ASSUME IInv, [Next]_vars PROVE CallTypeOK'
<1> USE DEF zoneVars, timeVars
<1>1. CallTypeOK /\ CallsOK
  BY DEF IInv
<1> DEFINE Replies == [rc : {"none", "ok", "not found", "error"}, value : KV!Values]
<1> DEFINE TreeOK == /\ DOMAIN tree \subseteq Keys
                     /\ tree \in [DOMAIN tree -> [value : KV!Values, expires : Nat]]
<1>2. Text \in KV!Values
  BY DEF KV!Values
<1>3. ASSUME NEW w \in Workers, NEW r \in Replies, AnswerCall(w, r), TreeOK'
      PROVE  CallTypeOK'
  BY <1>1, <1>3 DEF CallTypeOK, AnswerCall, Goto, Points
<1>4. ASSUME NEW w \in Workers, NEW p \in Points, Proceed(w, p), TreeOK'
      PROVE  CallTypeOK'
  BY <1>1, <1>4 DEF CallTypeOK, Proceed, Goto
<1>5. ASSUME NEW k, DeleteLocked(k) PROVE TreeOK'
  BY <1>1, <1>5, TreeTypes DEF DeleteLocked
<1>6. UNCHANGED tree => TreeOK'
  BY <1>1 DEF CallTypeOK
<1>7. ASSUME NEW rc \in {"none", "ok", "not found", "error"} PROVE KV!Nothing(rc) \in Replies
  BY <1>2 DEF KV!Nothing, KV!Answer
<1>8. ASSUME NEW w \in Workers, SetLocked(w), pc[w] = "apply", op[w].kind \in KV!Writes,
             op[w].kind = "incr" =>
               /\ Found(w) /\ tree[Key(w)].value # Text
               /\ tree[Key(w)].value + op[w].delta \in KV!Ints
      PROVE  CallTypeOK'
  <2>1. NewEntry(w) \in [value : KV!Values, expires : Nat] /\ Stored(w) \in Replies
    BY <1>1, <1>8, NewEntryType
  <2>2. CASE /\ Found(w) /\ tree' = [tree EXCEPT ![Key(w)] = NewEntry(w)]
             /\ AnswerCall(w, Stored(w))
    <3>1. TreeOK'
      BY <1>1, <2>1, <2>2 DEF CallTypeOK, Found
    <3> QED
      BY <1>3, <2>1, <2>2, <3>1
  <2>3. CASE Proceed(w, "alloc") /\ UNCHANGED tree
    BY <1>4, <1>6, <2>3 DEF Points
  <2> QED
    BY <1>8, <2>2, <2>3 DEF SetLocked
<1>9. ASSUME NEW w \in Workers, Invoke(w) PROVE CallTypeOK'
  <2>1. PICK c \in Arguments(w) : op' = [op EXCEPT ![w] = c]
    BY <1>9 DEF Invoke
  <2>2. op' \in [Workers -> KV!Calls \cup {KV!NoCall}]
    BY <1>1, <2>1, ArgumentsType DEF CallTypeOK
  <2>3. calls' \in 0..MaxCalls
    <3>1. calls \in 0..MaxCalls /\ calls < MaxCalls /\ calls' = calls + 1
      BY <1>1, <1>9 DEF Invoke, CallTypeOK
    <3> QED
      BY <3>1, BoundsAreNumbers
  <2> QED
    BY <1>1, <1>9, <2>2, <2>3 DEF Invoke, Goto, CallTypeOK, Points
<1>10. ASSUME NEW w \in Workers, Acquire(w) PROVE CallTypeOK'
  BY <1>1, <1>10 DEF Acquire, Goto, CallTypeOK, Points
<1>11. ASSUME NEW w \in Workers, Lookup(w) PROVE CallTypeOK'
  BY <1>4, <1>5, <1>6, <1>11 DEF Lookup, Points
<1>12. ASSUME NEW w \in Workers, Get(w) PROVE CallTypeOK'
  <2>1. CASE Found(w)
    <3>1. KV!Answer("ok", tree[Key(w)].value) \in Replies
      BY <1>1, <2>1 DEF CallTypeOK, Found, KV!Answer
    <3> QED
      BY <1>3, <1>6, <1>12, <2>1, <3>1 DEF Get
  <2>2. CASE ~Found(w)
    BY <1>3, <1>6, <1>7, <1>12, <2>2 DEF Get
  <2> QED
    BY <2>1, <2>2
<1>13. ASSUME NEW w \in Workers, Delete(w) PROVE CallTypeOK'
  BY <1>3, <1>5, <1>6, <1>7, <1>13 DEF Delete
<1>14. ASSUME NEW w \in Workers, Store(w) PROVE CallTypeOK'
  <2>1. CASE Refused(w)
    BY <1>3, <1>6, <1>7, <1>14, <2>1 DEF Store
  <2>2. CASE ~Refused(w)
    BY <1>8, <1>14, <2>2 DEF Store, KV!Writes, KV!Stores
  <2> QED
    BY <2>1, <2>2
<1>15. ASSUME NEW w \in Workers, Incr(w) PROVE CallTypeOK'
  BY <1>3, <1>6, <1>7, <1>8, <1>15 DEF Incr, KV!Writes
<1>16. ASSUME NEW w \in Workers, Allocate(w) \/ Evict(w) PROVE CallTypeOK'
  BY <1>4, <1>5, <1>6, <1>16 DEF Allocate, Evict, Points
<1>17. ASSUME NEW w \in Workers, GiveUp(w) PROVE CallTypeOK'
  BY <1>3, <1>6, <1>7, <1>17 DEF GiveUp
<1>18. ASSUME NEW w \in Workers, Link(w) PROVE CallTypeOK'
  <2>1. /\ pc[w] = "link" /\ AnswerCall(w, Stored(w))
        /\ tree' = KV!With(Key(w), NewEntry(w).value, NewEntry(w).expires)
    BY <1>18 DEF Link
  <2>2. /\ NewEntry(w) \in [value : KV!Values, expires : Nat]
        /\ Key(w) \in Keys /\ Stored(w) \in Replies
    BY <1>1, <2>1, NewEntryType DEF CallsOK
  <2>3. TreeOK'
    BY <1>1, <2>1, <2>2 DEF CallTypeOK, KV!With
  <2> QED
    BY <1>3, <2>1, <2>2, <2>3
<1>19. ASSUME NEW w \in Workers, Unlock(w) PROVE CallTypeOK'
  BY <1>1, <1>7, <1>19 DEF Unlock, Goto, CallTypeOK, Points
<1>20. ASSUME NEW w \in Workers, UpdateTime(w) PROVE CallTypeOK'
  BY <1>1, <1>20 DEF UpdateTime, CallTypeOK
<1>21. CASE Tick
  <2>1. now' \in 0..MaxTime
    <3>1. now \in 0..MaxTime /\ now < MaxTime /\ now' = now + 1
      BY <1>1, <1>21 DEF Tick, CallTypeOK
    <3> QED
      BY <3>1, BoundsAreNumbers
  <2> QED
    BY <1>1, <1>21, <2>1 DEF Tick, CallTypeOK
<1>22. CASE UNCHANGED vars
  BY <1>1, <1>22 DEF vars, CallTypeOK
<1> QED
  BY <1>9, <1>10, <1>11, <1>12, <1>13, <1>14, <1>15, <1>16, <1>17, <1>18, <1>19, <1>20,
     <1>21, <1>22 DEF Next, Holder

-----------------------------------------------------------------------------
(* The mutex, and what a call in its section knows.                        *)

\* A section is entered with the free mutex, and left by Unlock alone.
LEMMA SectionStep ==
  ASSUME CallTypeOK, LockMeansSection, [Next]_vars PROVE LockMeansSection'
<1> USE ShmAssumption DEF LockMeansSection
<1>1. ASSUME NEW w \in Workers, Invoke(w) \/ Acquire(w) \/ Unlock(w)
      PROVE  LockMeansSection'
  <2>1. CASE Invoke(w)
    BY <1>1, <2>1 DEF Invoke, Goto, CallTypeOK
  <2>2. CASE Acquire(w)
    BY <1>1, <2>2 DEF Acquire, Goto, CallTypeOK
  <2>3. CASE Unlock(w)
    BY <1>1, <2>3 DEF Unlock, Goto, CallTypeOK
  <2> QED
    BY <1>1, <2>1, <2>2, <2>3
<1>2. ASSUME NEW w \in Workers, pc[w] \notin {"idle", "lock"}, lock' = lock,
             NEW p \in {"apply", "alloc", "link", "unlock"}, Goto(w, p)
      PROVE  LockMeansSection'
  BY <1>2 DEF Goto, CallTypeOK
<1>3. ASSUME NEW w \in Workers,
             \/ Lookup(w) \/ Get(w) \/ Delete(w) \/ Store(w) \/ Incr(w)
             \/ Allocate(w) \/ Evict(w) \/ GiveUp(w) \/ Link(w)
      PROVE  LockMeansSection'
  <2>1. pc[w] \notin {"idle", "lock"} /\ lock' = lock
        /\ \E p \in {"apply", "alloc", "link", "unlock"} : Goto(w, p)
    BY <1>3 DEF Lookup, Get, Delete, Store, Incr, SetLocked, Allocate, Evict, GiveUp, Link,
       AnswerCall, Proceed
  <2> QED
    BY <1>2, <2>1
<1>4. CASE UNCHANGED <<lock, pc>>
  BY <1>4
<1> QED
  BY <1>1, <1>3, <1>4 DEF Next, Holder, Tick, UpdateTime, vars

\* Who is in a section is alone in it.
LEMMA Alone ==
  ASSUME LockMeansSection, NEW w \in Workers, pc[w] \notin {"idle", "lock"}
  PROVE  \A v \in Workers \ {w} : pc[v] \in {"idle", "lock"}
  BY DEF LockMeansSection

\* What a call knows is kept by the others, which do not touch the zone meanwhile.
LEMMA CallsStep ==
  ASSUME IInv, [Next]_vars PROVE CallsOK'
<1> USE DEF zoneVars, timeVars
<1>1. CallTypeOK /\ LockMeansSection /\ CallsOK
  BY DEF IInv
<1> DEFINE Knows(w) ==
      /\ pc[w] # "idle" => op[w] \in KV!Calls
      /\ pc[w] \in {"apply", "alloc", "link"} /\ op[w].kind # "delete" /\ Found(w) =>
           ~IsExpired(Key(w), clock[w])
      /\ pc[w] \in {"alloc", "link"} =>
           /\ op[w].kind \in KV!Writes /\ ~Refused(w)
           /\ op[w].kind = "incr" =>
                /\ Found(w) /\ tree[Key(w)].value # Text
                /\ tree[Key(w)].value + op[w].delta \in KV!Ints
<1>2. ASSUME NEW w \in Workers, pc[w] \notin {"idle", "lock"}, op' = op,
             NEW p, Goto(w, p), Knows(w)'
      PROVE  CallsOK'
  <2>1. ASSUME NEW v \in Workers \ {w} PROVE Knows(v)'
    <3>1. pc[v] \in {"idle", "lock"} /\ pc'[v] = pc[v]
      BY <1>1, <1>2, Alone DEF Goto, CallTypeOK
    <3> QED
      BY <1>1, <1>2, <3>1 DEF CallsOK
  <2> QED
    BY <1>2, <2>1 DEF CallsOK
<1>3. ASSUME NEW w \in Workers, Invoke(w) PROVE CallsOK'
  <2>1. PICK c \in Arguments(w) : op' = [op EXCEPT ![w] = c]
    BY <1>3 DEF Invoke
  <2>2. c \in KV!Calls /\ op'[w] = c /\ pc'[w] = "lock"
    BY <1>1, <1>3, <2>1, ArgumentsType DEF Invoke, Goto, CallTypeOK
  <2>3. ASSUME NEW v \in Workers \ {w}
        PROVE  UNCHANGED <<pc[v], op[v], tree, clock>>
    BY <1>1, <1>3, <2>1 DEF Invoke, Goto, CallTypeOK
  <2>4. ASSUME NEW v \in Workers \ {w} PROVE Knows(v)'
    BY <1>1, <2>3 DEF CallsOK, Found, Key, IsExpired, Refused
  <2>5. Knows(w)'
    BY <2>2
  <2> QED
    BY <2>4, <2>5 DEF CallsOK
<1>4. ASSUME NEW w \in Workers, Acquire(w) PROVE CallsOK'
  <2>1. UNCHANGED <<op, tree, clock>> /\ pc'[w] = "lookup" /\ pc[w] = "lock"
        /\ \A v \in Workers \ {w} : pc'[v] = pc[v]
    BY <1>1, <1>4 DEF Acquire, Goto, CallTypeOK
  <2> QED
    BY <1>1, <2>1 DEF CallsOK, Found, Key, IsExpired, Refused
<1>5. ASSUME NEW w \in Workers, NEW r, AnswerCall(w, r), pc[w] \notin {"idle", "lock"}
      PROVE  CallsOK'
  <2>1. Goto(w, "unlock") /\ op' = op /\ pc'[w] = "unlock" /\ op[w] \in KV!Calls
    BY <1>1, <1>5 DEF AnswerCall, Goto, CallTypeOK, CallsOK
  <2> QED
    BY <1>2, <1>5, <2>1
<1>6. ASSUME NEW w \in Workers, Lookup(w) PROVE CallsOK'
  <2>1. /\ pc[w] = "lookup" /\ Goto(w, "apply") /\ op' = op /\ clock' = clock
        /\ pc'[w] = "apply" /\ op[w] \in KV!Calls
    BY <1>1, <1>6 DEF Lookup, Proceed, Goto, CallTypeOK, CallsOK
  <2>2. op[w].kind # "delete" /\ Found(w)' => ~IsExpired(Key(w), clock[w])'
    BY <1>6, <2>1 DEF Lookup, DeleteLocked, KV!Without, Found, Key, IsExpired
  <2> QED
    BY <1>2, <2>1, <2>2
<1>7. ASSUME NEW w \in Workers, SetLocked(w), pc[w] = "apply", op[w].kind \in KV!Writes,
             ~Refused(w),
             op[w].kind = "incr" =>
               /\ Found(w) /\ tree[Key(w)].value # Text
               /\ tree[Key(w)].value + op[w].delta \in KV!Ints
      PROVE  CallsOK'
  <2>1. CASE AnswerCall(w, Stored(w))
    BY <1>5, <1>7, <2>1
  <2>2. CASE Proceed(w, "alloc") /\ UNCHANGED tree
    <3>1. /\ Goto(w, "alloc") /\ op' = op /\ clock' = clock /\ tree' = tree
          /\ pc'[w] = "alloc" /\ op[w] \in KV!Calls
          /\ (Found(w) => ~IsExpired(Key(w), clock[w]))
      BY <1>1, <1>7, <2>2 DEF Proceed, Goto, CallTypeOK, CallsOK, KV!Writes, KV!Stores
    <3>2. Knows(w)'
      BY <1>7, <3>1 DEF Found, Key, IsExpired, Refused
    <3> QED
      BY <1>2, <1>7, <3>1, <3>2
  <2> QED
    BY <1>7, <2>1, <2>2 DEF SetLocked
<1>8. ASSUME NEW w \in Workers, Get(w) \/ Delete(w) \/ GiveUp(w) \/ Link(w) PROVE CallsOK'
  <2>1. pc[w] \notin {"idle", "lock"} /\ \E r : AnswerCall(w, r)
    BY <1>8 DEF Get, Delete, GiveUp, Link
  <2> QED
    BY <1>5, <2>1
<1>9. ASSUME NEW w \in Workers, Store(w) PROVE CallsOK'
  <2>1. pc[w] = "apply" /\ op[w].kind \in KV!Writes /\ op[w].kind # "incr"
    BY <1>9 DEF Store, KV!Writes, KV!Stores
  <2>2. CASE Refused(w)
    BY <1>5, <1>9, <2>1, <2>2 DEF Store
  <2>3. CASE ~Refused(w)
    BY <1>7, <1>9, <2>1, <2>3 DEF Store
  <2> QED
    BY <2>2, <2>3
<1>10. ASSUME NEW w \in Workers, Incr(w) PROVE CallsOK'
  <2>1. pc[w] = "apply" /\ op[w].kind = "incr" /\ op[w].kind \in KV!Writes /\ ~Refused(w)
    BY <1>10 DEF Incr, KV!Writes, Refused
  <2> QED
    BY <1>5, <1>7, <1>10, <2>1 DEF Incr
<1>11. ASSUME NEW w \in Workers, Allocate(w) PROVE CallsOK'
  <2>1. /\ pc[w] = "alloc" /\ Goto(w, "link") /\ op' = op /\ clock' = clock
        /\ tree' = tree /\ pc'[w] = "link" /\ op[w] \in KV!Calls
    BY <1>1, <1>11 DEF Allocate, Proceed, Goto, CallTypeOK, CallsOK
  <2>2. Knows(w)'
    BY <1>1, <2>1 DEF CallsOK, Found, Key, IsExpired, Refused
  <2> QED
    BY <1>2, <2>1, <2>2
<1>12. ASSUME NEW w \in Workers, Evict(w) PROVE CallsOK'
  <2>1. /\ pc[w] = "alloc" /\ Goto(w, "alloc") /\ op' = op /\ clock' = clock
        /\ pc'[w] = "alloc" /\ op[w] \in KV!Calls
    BY <1>1, <1>12 DEF Evict, Proceed, Goto, CallTypeOK, CallsOK
  <2>2. PICK k : k # Key(w) /\ tree' = KV!Without(k)
    BY <1>12 DEF Evict, LastOf, Victims, DeleteLocked
  <2>3. /\ Key(w)' = Key(w) /\ Found(w)' = Found(w)
        /\ Found(w) => tree'[Key(w)] = tree[Key(w)]
    BY <2>1, <2>2 DEF Found, Key, KV!Without
  <2>4. Knows(w)'
    BY <1>1, <2>1, <2>3 DEF CallsOK, Found, Key, IsExpired, Refused
  <2> QED
    BY <1>2, <2>1, <2>4
<1>13. ASSUME NEW w \in Workers, Unlock(w) PROVE CallsOK'
  <2>1. /\ pc'[w] = "idle" /\ UNCHANGED <<tree, clock>>
        /\ \A v \in Workers \ {w} : pc'[v] = pc[v] /\ op'[v] = op[v]
    BY <1>1, <1>13 DEF Unlock, Goto, CallTypeOK
  <2> QED
    BY <1>1, <2>1 DEF CallsOK, Found, Key, IsExpired, Refused
<1>14. ASSUME NEW w \in Workers, UpdateTime(w) PROVE CallsOK'
  <2>1. /\ pc[w] = "idle" /\ UNCHANGED <<tree, pc, op>>
        /\ \A v \in Workers \ {w} : clock'[v] = clock[v]
    BY <1>1, <1>14 DEF UpdateTime, CallTypeOK
  <2> QED
    BY <1>1, <2>1 DEF CallsOK, Found, Key, IsExpired, Refused
<1>15. CASE UNCHANGED <<tree, pc, op, clock>>
  BY <1>1, <1>15 DEF CallsOK, Found, Key, IsExpired, Refused
<1> QED
  BY <1>3, <1>4, <1>6, <1>8, <1>9, <1>10, <1>11, <1>12, <1>13, <1>14, <1>15
  DEF Next, Holder, Tick, vars

\* The parts together.
LEMMA NextIInv == IInv /\ [Next]_vars => IInv'
  BY TypeStep, SectionStep, CallsStep DEF IInv

\* Safety: the invariant holds in every state.
THEOREM Inductive == Spec => []IInv
<1> QED
  BY InitIInv, NextIInv, PTL DEF Spec

\* The tree, the calls, their replies and the clocks have the types of the code.
THEOREM CallsAreTyped == Spec => []CallTypeOK
<1>1. IInv => CallTypeOK
  BY DEF IInv
<1> QED
  BY <1>1, Inductive, PTL

\* Mutual exclusion, whatever the number of workers: the mutex is held exactly
\* by the worker in its section, and every way out of a section unlocks it.
THEOREM MutexIsSection == Spec => []LockMeansSection
<1>1. IInv => LockMeansSection
  BY DEF IInv
<1> QED
  BY <1>1, Inductive, PTL

-----------------------------------------------------------------------------
(* The refinement.                                                         *)

\* What SharedKV sees of a worker's place in its call.
Phase == [w \in Workers |->
            IF pc[w] = "idle" THEN "idle"
            ELSE IF pc[w] = "unlock" THEN "answered" ELSE "called"]

\* A worker that moves changes its own phase.
LEMMA PhaseStep ==
  ASSUME CallTypeOK, NEW w \in Workers, NEW p \in Points, Goto(w, p)
  PROVE  Phase' = [Phase EXCEPT ![w] = IF p = "idle" THEN "idle"
                                       ELSE IF p = "unlock" THEN "answered" ELSE "called"]
  BY DEF CallTypeOK, Goto, Phase

\* A worker that goes on with its call keeps its phase.
LEMMA PhaseKept ==
  ASSUME CallTypeOK, NEW w \in Workers, pc[w] \notin {"idle", "unlock"},
         NEW p \in Points \ {"idle", "unlock"}, Goto(w, p)
  PROVE  Phase' = Phase
  BY DEF CallTypeOK, Goto, Phase

\* The call has its answer.
LEMMA AnswerRefines ==
  ASSUME CallTypeOK, NEW w \in Workers, NEW r, AnswerCall(w, r),
         pc[w] \notin {"idle", "unlock"}
  PROVE  Phase[w] = "called" /\ KV!Answered(w, r)
<1>1. Phase' = [Phase EXCEPT ![w] = "answered"]
  BY PhaseStep DEF AnswerCall, Points
<1> QED
  BY <1>1 DEF Phase, KV!Answered, AnswerCall, timeVars

\* Removing what is not there changes nothing.
LEMMA WithoutAbsent ==
  ASSUME CallTypeOK, NEW k, k \notin DOMAIN tree PROVE KV!Without(k) = tree
<1>1. tree = [x \in DOMAIN tree |-> tree[x]] /\ DOMAIN tree \ {k} = DOMAIN tree
  BY DEF CallTypeOK
<1> QED
  BY <1>1 DEF KV!Without

\* An entry that is written in place, as a new entry.
LEMMA InPlaceIsWith ==
  ASSUME CallTypeOK, NEW k \in DOMAIN tree, NEW e \in [value : KV!Values, expires : Nat]
  PROVE  [tree EXCEPT ![k] = e] = KV!With(k, e.value, e.expires)
<1>1. DOMAIN tree \cup {k} = DOMAIN tree
  OBVIOUS
<1>2. e = [value |-> e.value, expires |-> e.expires]
  OBVIOUS
<1>3. tree = [x \in DOMAIN tree |-> tree[x]]
  BY DEF CallTypeOK
<1> QED
  BY <1>1, <1>2, <1>3 DEF KV!With

\* What the test of an entry that was looked up says is what SharedKV asks.
LEMMA FoundIsLive ==
  ASSUME CallsOK, NEW w \in Workers, pc[w] \in {"apply", "alloc", "link"},
         op[w].kind # "delete"
  PROVE  Found(w) <=> KV!Live(op[w].key, clock[w])
  BY DEF CallsOK, Found, Key, IsExpired, KV!Live, KV!Expired

\* The new entry that takes effect, in place or linked, is a store of SharedKV.
LEMMA StoredRefines ==
  ASSUME CallTypeOK, CallsOK, NEW w \in Workers,
         pc[w] \in {"apply", "link"}, op[w].kind \in KV!Writes, ~Refused(w),
         op[w].kind = "incr" =>
           /\ Found(w) /\ tree[Key(w)].value # Text
           /\ tree[Key(w)].value + op[w].delta \in KV!Ints,
         tree' = KV!With(Key(w), NewEntry(w).value, NewEntry(w).expires),
         AnswerCall(w, Stored(w))
  PROVE  KV!Commit(w)
<1>1. Phase[w] = "called" /\ KV!Answered(w, Stored(w))
  BY AnswerRefines DEF AnswerCall, KV!Answered
<1>2. Found(w) <=> KV!Live(op[w].key, clock[w])
  BY FoundIsLive DEF KV!Writes, KV!Stores
<1>3. CASE op[w].kind = "incr"
  <2>1. /\ NewEntry(w).value = tree[op[w].key].value + op[w].delta
        /\ NewEntry(w).expires = tree[op[w].key].expires
    <3>1. tree[Key(w)] \in [value : KV!Values, expires : Nat]
      BY <1>3 DEF CallTypeOK, Found
    <3> QED
      BY <1>3, <3>1 DEF NewEntry, Key
  <2>2. KV!Incr(w)
    BY <1>1, <1>2, <1>3, <2>1 DEF KV!Incr, KV!Answered, Stored, Found, Key
  <2> QED
    BY <1>1, <2>2 DEF KV!Commit, Phase
<1>4. CASE op[w].kind # "incr"
  <2>1. op[w].kind \in KV!Stores /\ ~KV!Refused(w)
    BY <1>2, <1>4 DEF KV!Writes, KV!Refused, Refused
  <2>2. KV!Store(w)
    BY <1>1, <1>4, <2>1 DEF KV!Store, KV!Answered, Stored, NewEntry, Key
  <2> QED
    BY <1>1, <2>2 DEF KV!Commit, Phase
<1> QED
  BY <1>3, <1>4

\* A refused or impossible call takes effect without touching the map.
LEMMA RefusalRefines ==
  ASSUME CallTypeOK, CallsOK, NEW w \in Workers, UNCHANGED tree,
         \/ /\ pc[w] = "apply" /\ op[w].kind \in KV!Stores /\ Refused(w)
            /\ AnswerCall(w, KV!Nothing("not found"))
         \/ /\ pc[w] = "apply" /\ op[w].kind = "incr"
            /\ ~(/\ Found(w) /\ tree[Key(w)].value # Text
                 /\ tree[Key(w)].value + op[w].delta \in KV!Ints)
            /\ AnswerCall(w, KV!Nothing("error"))
         \/ /\ pc[w] = "alloc" /\ AnswerCall(w, KV!Nothing("error"))
  PROVE  KV!Commit(w)
<1>1. CASE /\ pc[w] = "apply" /\ op[w].kind \in KV!Stores /\ Refused(w)
           /\ AnswerCall(w, KV!Nothing("not found"))
  <2>1. Phase[w] = "called" /\ KV!Answered(w, KV!Nothing("not found"))
    BY <1>1, AnswerRefines DEF AnswerCall, KV!Answered
  <2>2. KV!Refused(w)
    BY <1>1, FoundIsLive DEF KV!Refused, Refused, KV!Stores
  <2>3. KV!Store(w)
    BY <1>1, <2>1, <2>2 DEF KV!Store
  <2> QED
    BY <2>1, <2>3 DEF KV!Commit, Phase
<1>2. CASE /\ pc[w] = "apply" /\ op[w].kind = "incr"
           /\ ~(/\ Found(w) /\ tree[Key(w)].value # Text
                /\ tree[Key(w)].value + op[w].delta \in KV!Ints)
           /\ AnswerCall(w, KV!Nothing("error"))
  <2>1. Phase[w] = "called" /\ KV!Answered(w, KV!Nothing("error"))
    BY <1>2, AnswerRefines DEF AnswerCall, KV!Answered
  <2>2. Found(w) <=> KV!Live(op[w].key, clock[w])
    BY <1>2, FoundIsLive
  <2>3. KV!Incr(w)
    BY <1>2, <2>1, <2>2 DEF KV!Incr, Key
  <2> QED
    BY <2>1, <2>3 DEF KV!Commit, Phase
<1>3. CASE pc[w] = "alloc" /\ AnswerCall(w, KV!Nothing("error"))
  <2>1. Phase[w] = "called" /\ KV!Answered(w, KV!Nothing("error"))
    BY <1>3, AnswerRefines DEF AnswerCall, KV!Answered
  <2>2. KV!NoRoom(w)
    BY <1>3, <2>1 DEF KV!NoRoom, CallsOK
  <2> QED
    BY <2>1, <2>2 DEF KV!Commit, Phase
<1> QED
  BY <1>1, <1>2, <1>3

\* A step inside the section that takes an entry away, or none.
LEMMA RemovalRefines ==
  ASSUME CallTypeOK, NEW w \in Workers, pc[w] \notin {"idle", "unlock"},
         NEW p \in Points \ {"idle", "unlock"}, Proceed(w, p), NEW k,
         KV!Expired(k, clock[w]) \/ (op[w].kind \in KV!Writes /\ op[w].key # k),
         DeleteLocked(k)
  PROVE  [KV!Next]_(KV!kvVars)
<1>1. Phase' = Phase /\ Phase[w] = "called" /\ UNCHANGED <<op, reply, clock>>
  BY PhaseKept DEF Proceed, Phase, timeVars
<1>2. tree' = KV!Without(k)
  BY DEF DeleteLocked
<1>3. CASE k \in DOMAIN tree
  <2>1. KV!Forget(k) /\ k \in Keys
    BY <1>1, <1>2, <1>3 DEF KV!Forget, Phase, CallTypeOK
  <2> QED
    BY <2>1 DEF KV!Next
<1>4. CASE k \notin DOMAIN tree
  <2>1. tree' = tree
    BY <1>2, <1>4, WithoutAbsent
  <2> QED
    BY <1>1, <2>1 DEF KV!kvVars, Phase
<1> QED
  BY <1>3, <1>4

\* A store or an increment that passed its tests, before or without allocation.
LEMMA SetLockedRefines ==
  ASSUME CallTypeOK, CallsOK, NEW w \in Workers, SetLocked(w), pc[w] = "apply",
         op[w].kind \in KV!Writes, ~Refused(w),
         op[w].kind = "incr" =>
           /\ Found(w) /\ tree[Key(w)].value # Text
           /\ tree[Key(w)].value + op[w].delta \in KV!Ints
  PROVE  [KV!Next]_(KV!kvVars)
<1>1. CASE /\ Found(w) /\ tree' = [tree EXCEPT ![Key(w)] = NewEntry(w)]
           /\ AnswerCall(w, Stored(w))
  <2>1. NewEntry(w) \in [value : KV!Values, expires : Nat]
    BY NewEntryType
  <2>2. tree' = KV!With(Key(w), NewEntry(w).value, NewEntry(w).expires)
    BY <1>1, <2>1, InPlaceIsWith DEF Found
  <2>3. KV!Commit(w)
    BY <1>1, <2>2, StoredRefines
  <2> QED
    BY <2>3 DEF KV!Next
<1>2. CASE Proceed(w, "alloc") /\ UNCHANGED tree
  <2>1. Phase' = Phase /\ UNCHANGED <<op, reply, clock>>
    BY <1>2, PhaseKept DEF Proceed, Points, timeVars
  <2> QED
    BY <1>2, <2>1 DEF KV!kvVars, Phase
<1> QED
  BY <1>1, <1>2 DEF SetLocked, zoneVars

\* Every step is a step of SharedKV, or changes nothing it sees.
LEMMA StepRefines ==
  ASSUME IInv, [Next]_vars PROVE [KV!Next]_(KV!kvVars)
<1> USE DEF zoneVars, timeVars
<1>1. CallTypeOK /\ CallsOK
  BY DEF IInv
<1>2. ASSUME NEW w \in Workers, Invoke(w) PROVE KV!Invoke(w)
  <2>1. PICK c \in Arguments(w) : op' = [op EXCEPT ![w] = c]
    BY <1>2 DEF Invoke
  <2>2. c \in KV!Calls /\ op'[w] = c
    BY <1>1, <2>1, ArgumentsType DEF CallTypeOK
  <2>3. Phase' = [Phase EXCEPT ![w] = "called"] /\ Phase[w] = "idle"
    BY <1>1, <1>2, PhaseStep DEF Invoke, Points, Phase
  <2> QED
    BY <1>2, <2>1, <2>2, <2>3 DEF Invoke, KV!Invoke, KV!Idle, Phase
<1>3. ASSUME NEW w \in Workers, Acquire(w) PROVE UNCHANGED KV!kvVars
  <2>1. Phase' = Phase
    BY <1>1, <1>3, PhaseKept DEF Acquire, Points
  <2> QED
    BY <1>3, <2>1 DEF Acquire, KV!kvVars, Phase
<1>4. ASSUME NEW w \in Workers, Lookup(w) PROVE [KV!Next]_(KV!kvVars)
  <2>1. pc[w] = "lookup" /\ Proceed(w, "apply")
    BY <1>4 DEF Lookup
  <2>2. CASE IsExpired(Key(w), clock[w]) /\ DeleteLocked(Key(w))
    <3>1. KV!Expired(Key(w), clock[w])
      BY <2>2 DEF IsExpired, KV!Expired
    <3> QED
      BY <1>1, <2>1, <2>2, <3>1, RemovalRefines DEF Points
  <2>3. CASE UNCHANGED tree
    <3>1. Phase' = Phase /\ UNCHANGED <<op, reply, clock>>
      BY <1>1, <2>1, PhaseKept DEF Proceed, Points
    <3> QED
      BY <2>3, <3>1 DEF KV!kvVars, Phase
  <2> QED
    BY <1>4, <2>2, <2>3 DEF Lookup
<1>5. ASSUME NEW w \in Workers, Get(w) PROVE KV!Commit(w)
  <2>1. pc[w] = "apply" /\ op[w].kind = "get" /\ UNCHANGED tree
    BY <1>5 DEF Get
  <2>2. Found(w) <=> KV!Live(op[w].key, clock[w])
    BY <1>1, <2>1, FoundIsLive
  <2>3. AnswerCall(w, IF Found(w) THEN KV!Answer("ok", tree[Key(w)].value)
                                  ELSE KV!Nothing("not found"))
    BY <1>5 DEF Get
  <2>4. /\ Phase[w] = "called"
        /\ KV!Answered(w, IF Found(w) THEN KV!Answer("ok", tree[Key(w)].value)
                                      ELSE KV!Nothing("not found"))
    BY <1>1, <2>1, <2>3, AnswerRefines DEF AnswerCall, KV!Answered
  <2>5. KV!Get(w)
    BY <2>1, <2>2, <2>4 DEF KV!Get, KV!Answered, Key
  <2> QED
    BY <2>4, <2>5 DEF KV!Commit, Phase
<1>6. ASSUME NEW w \in Workers, Delete(w) PROVE KV!Commit(w)
  <2>1. pc[w] = "apply" /\ op[w].kind = "delete" /\ AnswerCall(w, KV!Nothing("ok"))
    BY <1>6 DEF Delete
  <2>2. Phase[w] = "called" /\ KV!Answered(w, KV!Nothing("ok"))
    BY <1>1, <2>1, AnswerRefines DEF AnswerCall, KV!Answered
  <2>3. tree' = KV!Without(op[w].key)
    BY <1>1, <1>6, WithoutAbsent DEF Delete, DeleteLocked, Found, Key
  <2>4. KV!Delete(w)
    BY <2>1, <2>2, <2>3 DEF KV!Delete
  <2> QED
    BY <2>2, <2>4 DEF KV!Commit, Phase
<1>7. ASSUME NEW w \in Workers, Store(w) PROVE [KV!Next]_(KV!kvVars)
  <2>1. pc[w] = "apply" /\ op[w].kind \in KV!Stores /\ op[w].kind # "incr"
        /\ op[w].kind \in KV!Writes
    BY <1>7 DEF Store, KV!Stores, KV!Writes
  <2>2. CASE Refused(w)
    <3>1. AnswerCall(w, KV!Nothing("not found")) /\ UNCHANGED tree
      BY <1>7, <2>2 DEF Store
    <3>2. KV!Commit(w)
      BY <1>1, <2>1, <2>2, <3>1, RefusalRefines
    <3> QED
      BY <3>2 DEF KV!Next
  <2>3. CASE ~Refused(w)
    BY <1>1, <1>7, <2>1, <2>3, SetLockedRefines DEF Store
  <2> QED
    BY <2>2, <2>3
<1>8. ASSUME NEW w \in Workers, Incr(w) PROVE [KV!Next]_(KV!kvVars)
  <2>1. pc[w] = "apply" /\ op[w].kind = "incr" /\ op[w].kind \in KV!Writes /\ ~Refused(w)
    BY <1>8 DEF Incr, KV!Writes, Refused
  <2> DEFINE Admissible == /\ Found(w) /\ tree[Key(w)].value # Text
                           /\ tree[Key(w)].value + op[w].delta \in KV!Ints
  <2>2. CASE Admissible
    BY <1>1, <1>8, <2>1, <2>2, SetLockedRefines DEF Incr
  <2>3. CASE ~Admissible
    <3>1. AnswerCall(w, KV!Nothing("error")) /\ UNCHANGED tree
      BY <1>8, <2>3 DEF Incr
    <3>2. KV!Commit(w)
      BY <1>1, <2>1, <2>3, <3>1, RefusalRefines
    <3> QED
      BY <3>2 DEF KV!Next
  <2> QED
    BY <2>2, <2>3
<1>9. ASSUME NEW w \in Workers, Allocate(w) PROVE UNCHANGED KV!kvVars
  <2>1. Phase' = Phase
    BY <1>1, <1>9, PhaseKept DEF Allocate, Proceed, Points
  <2> QED
    BY <1>9, <2>1 DEF Allocate, Proceed, KV!kvVars, Phase
<1>10. ASSUME NEW w \in Workers, Evict(w) PROVE [KV!Next]_(KV!kvVars)
  <2>1. pc[w] = "alloc" /\ Proceed(w, "alloc") /\ op[w].kind \in KV!Writes
    BY <1>1, <1>10 DEF Evict, CallsOK
  <2>2. PICK i : lru[i] # Key(w) /\ DeleteLocked(lru[i])
    BY <1>10 DEF Evict, LastOf, Victims
  <2> QED
    BY <1>1, <2>1, <2>2, RemovalRefines DEF Points, Key
<1>11. ASSUME NEW w \in Workers, GiveUp(w) PROVE KV!Commit(w)
  BY <1>1, <1>11, RefusalRefines DEF GiveUp
<1>12. ASSUME NEW w \in Workers, Link(w) PROVE KV!Commit(w)
  BY <1>1, <1>12, StoredRefines DEF Link, CallsOK
<1>13. ASSUME NEW w \in Workers, Unlock(w) PROVE KV!Return(w)
  <2>1. Phase[w] = "answered" /\ Phase' = [Phase EXCEPT ![w] = "idle"]
    BY <1>1, <1>13, PhaseStep DEF Unlock, Points, Phase
  <2> QED
    BY <1>13, <2>1 DEF Unlock, KV!Return, Phase
<1>14. ASSUME NEW w \in Workers, UpdateTime(w) PROVE KV!UpdateTime(w)
  <2>1. Phase' = Phase /\ Phase[w] = "idle"
    BY <1>14 DEF UpdateTime, Phase
  <2>2. clock'[w] = now /\ now >= clock[w]
    <3>1. clock \in [Workers -> 0..MaxTime] /\ now \in 0..MaxTime /\ clock[w] < now
          /\ clock' = [clock EXCEPT ![w] = now]
      BY <1>1, <1>14 DEF UpdateTime, CallTypeOK
    <3> QED
      BY <3>1, BoundsAreNumbers
  <2> QED
    BY <1>14, <2>1, <2>2 DEF UpdateTime, KV!UpdateTime, KV!Idle, Phase
<1>15. CASE Tick \/ UNCHANGED vars
  <2>1. UNCHANGED <<tree, pc, op, reply, clock>>
    BY <1>15 DEF Tick, vars
  <2> QED
    BY <2>1 DEF KV!kvVars
<1> QED
  BY <1>2, <1>3, <1>4, <1>5, <1>6, <1>7, <1>8, <1>9, <1>10, <1>11, <1>12, <1>13, <1>14,
     <1>15 DEF Next, Holder, KV!Next

\* The empty zone is the empty map.
LEMMA InitRefines == Init => KV!Init
  BY DEF Init, KV!Init

\* Linearizability: whatever the workers, the keys, the memory and the number of
\* calls, the guests see each call of the dictionary take effect at one moment,
\* on a map that forgets only what expired or what had to make room.
THEOREM Linearizable == Spec => ImplementsKV
<1> QED
  BY InitRefines, StepRefines, Inductive, PTL DEF Spec, ImplementsKV, KV!Spec

-----------------------------------------------------------------------------
(* The queue, and the history of uses: sequences that hold a key once.     *)

\* What is left of a sequence when a key is taken out: the rest, in its order.
LEMMA DropShape ==
  ASSUME NEW s \in Seq(Keys), OnceEach(s), NEW k
  PROVE  /\ Drop(s, k) \in Seq(Keys)
         /\ \E old \in [1..Len(Drop(s, k)) -> 1..Len(s)] :
              /\ \A i \in 1..Len(Drop(s, k)) :
                   Drop(s, k)[i] = s[old[i]] /\ s[old[i]] # k
              /\ \A i, j \in 1..Len(Drop(s, k)) : i < j => old[i] < old[j]
              /\ \A j \in 1..Len(s) : s[j] # k => \E i \in 1..Len(Drop(s, k)) : old[i] = j
<1>1. Len(s) \in Nat /\ DOMAIN s = 1..Len(s) /\ \A i \in 1..Len(s) : s[i] \in Keys
  OBVIOUS
<1>2. CASE ~Contains(s, k)
  <2> DEFINE same == [i \in 1..Len(s) |-> i]
  <2>1. Drop(s, k) = s /\ \A i \in 1..Len(s) : s[i] # k
    BY <1>2 DEF Drop, Contains
  <2>2. same \in [1..Len(s) -> 1..Len(s)] /\ \A i \in 1..Len(s) : same[i] = i
    OBVIOUS
  <2> QED
    BY <2>1, <2>2
<1>3. CASE Contains(s, k)
  <2> DEFINE p == Place(s, k)
             n == Len(s)
             d == RemoveAt(s, p)
             old == [i \in 1..(n - 1) |-> IF i < p THEN i ELSE i + 1]
  <2>1. p \in 1..n /\ s[p] = k
    BY <1>1, <1>3 DEF Place, Contains
  <2>2. \A j \in 1..n : s[j] = k => j = p
    BY <1>1, <2>1 DEF OnceEach
  <2>0. n \in Nat /\ 1..Len(s) = 1..n /\ \A i \in 1..n : s[i] \in Keys
    BY <1>1
  <2> HIDE DEF p, n
  <2>3. /\ d \in Seq(Keys) /\ Len(d) = n - 1
        /\ \A i \in 1..(n - 1) : d[i] = IF i < p THEN s[i] ELSE s[i + 1]
    <3> DEFINE a == SubSeq(s, 1, p - 1)
               b == SubSeq(s, p + 1, n)
    <3>1. /\ a \in Seq(Keys) /\ Len(a) = p - 1
          /\ \A i \in 1..(p - 1) : a[i] = s[i]
      <4>1. \A i \in 1..(p - 1) : s[i] \in Keys
        BY <2>0, <2>1
      <4>2. p - 1 \in Int /\ 1 \in Int /\ (p - 1) - 1 + 1 = p - 1
            /\ (IF 1 <= p - 1 THEN (p - 1) - 1 + 1 ELSE 0) = p - 1
            /\ \A i \in 1..(p - 1) : 1 + i - 1 = i
        BY <2>0, <2>1
      <4> QED
        BY <4>1, <4>2, SubSeqProperties
    <3>2. /\ b \in Seq(Keys) /\ Len(b) = n - p
          /\ \A i \in 1..(n - p) : b[i] = s[p + i]
      <4>1. \A i \in (p + 1)..n : s[i] \in Keys
        BY <2>0, <2>1
      <4>2. p + 1 \in Int /\ n \in Int /\ n - (p + 1) + 1 = n - p
            /\ (IF p + 1 <= n THEN n - (p + 1) + 1 ELSE 0) = n - p
            /\ \A i \in 1..(n - p) : (p + 1) + i - 1 = p + i
        BY <2>0, <2>1
      <4> QED
        BY <4>1, <4>2, SubSeqProperties
    <3>3. d = a \o b
      BY DEF RemoveAt, n
    <3> HIDE DEF a, b, d
    <3>4. /\ d \in Seq(Keys) /\ Len(d) = (p - 1) + (n - p)
          /\ \A i \in 1..((p - 1) + (n - p)) :
               d[i] = IF i <= p - 1 THEN a[i] ELSE b[i - (p - 1)]
      <4>1. /\ a \o b \in Seq(Keys) /\ Len(a \o b) = Len(a) + Len(b)
            /\ \A i \in 1..(Len(a) + Len(b)) :
                 (a \o b)[i] = IF i <= Len(a) THEN a[i] ELSE b[i - Len(a)]
        BY <3>1, <3>2, ConcatProperties
      <4> QED
        BY <3>1, <3>2, <3>3, <4>1, Zenon
    <3>5. (p - 1) + (n - p) = n - 1
      BY <2>0, <2>1
    <3>6. ASSUME NEW i \in 1..(n - 1) PROVE d[i] = IF i < p THEN s[i] ELSE s[i + 1]
      <4>1. CASE i < p
        <5>1. i <= p - 1 /\ i \in 1..(p - 1)
          BY <2>0, <2>1, <4>1
        <5> QED
          BY <3>1, <3>4, <3>5, <4>1, <5>1
      <4>2. CASE ~(i < p)
        <5>1. i - (p - 1) \in 1..(n - p) /\ p + (i - (p - 1)) = i + 1 /\ ~(i <= p - 1)
          BY <2>0, <2>1, <4>2
        <5> QED
          BY <3>2, <3>4, <3>5, <4>2, <5>1
      <4> QED
        BY <4>1, <4>2
    <3> QED
      BY <3>4, <3>5, <3>6
  <2>4. Drop(s, k) = d
    BY <1>3 DEF Drop, p
  <2> HIDE DEF d
  <2>5. /\ old \in [1..(n - 1) -> 1..n]
        /\ \A i \in 1..(n - 1) : old[i] # p /\ d[i] = s[old[i]]
        /\ \A i, j \in 1..(n - 1) : i < j => old[i] < old[j]
    BY <2>0, <2>1, <2>3
  <2>6. ASSUME NEW j \in 1..n, s[j] # k PROVE \E i \in 1..(n - 1) : old[i] = j
    <3>1. CASE j < p
      <4>1. j \in 1..(n - 1) /\ old[j] = j
        BY <2>0, <2>1, <3>1
      <4> QED
        BY <4>1
    <3>2. CASE j > p
      <4>1. j - 1 \in 1..(n - 1) /\ old[j - 1] = j
        BY <2>0, <2>1, <3>2
      <4> QED
        BY <4>1
    <3> QED
      BY <2>0, <2>1, <2>6, <3>1, <3>2
  <2>7. \A i \in 1..(n - 1) : s[old[i]] # k
    BY <2>2, <2>5
  <2>8. 1..Len(Drop(s, k)) = 1..(n - 1) /\ Drop(s, k) \in Seq(Keys)
        /\ \A i \in 1..(n - 1) : Drop(s, k)[i] = d[i]
    BY <2>3, <2>4
  <2> HIDE DEF old
  <2> DEFINE here == 1..Len(Drop(s, k))
  <2>9. here = 1..(n - 1) /\ 1..Len(s) = 1..n
    BY <2>0, <2>8
  <2> HIDE DEF here, n
  <2>10. /\ old \in [here -> 1..Len(s)]
         /\ \A i \in here : Drop(s, k)[i] = s[old[i]] /\ s[old[i]] # k
         /\ \A i, j \in here : i < j => old[i] < old[j]
         /\ \A j \in 1..Len(s) : s[j] # k => \E i \in here : old[i] = j
    BY <2>5, <2>6, <2>7, <2>8, <2>9, Zenon
  <2> QED
    BY <2>8, <2>10, Zenon DEF here
<1> QED
  BY <1>2, <1>3

\* The rest holds every other key once.
LEMMA DropHolds ==
  ASSUME NEW s \in Seq(Keys), OnceEach(s), NEW k
  PROVE  /\ Drop(s, k) \in Seq(Keys) /\ OnceEach(Drop(s, k))
         /\ Range(Drop(s, k)) = Range(s) \ {k}
<1> DEFINE d == Drop(s, k)
<1>1. PICK old \in [1..Len(d) -> 1..Len(s)] :
        /\ \A i \in 1..Len(d) : d[i] = s[old[i]] /\ s[old[i]] # k
        /\ \A i, j \in 1..Len(d) : i < j => old[i] < old[j]
        /\ \A j \in 1..Len(s) : s[j] # k => \E i \in 1..Len(d) : old[i] = j
  BY DropShape
<1>2. d \in Seq(Keys) /\ DOMAIN d = 1..Len(d) /\ DOMAIN s = 1..Len(s) /\ Len(d) \in Nat
      /\ Len(s) \in Nat
  BY DropShape
<1> HIDE DEF d
<1>3. OnceEach(d)
  <2> SUFFICES ASSUME NEW i \in 1..Len(d), NEW j \in 1..Len(d), d[i] = d[j] PROVE i = j
    BY <1>2 DEF OnceEach
  <2>1. old[i] = old[j]
    BY <1>1, <1>2 DEF OnceEach
  <2>2. old[i] \in 1..Len(s) /\ i \in Int /\ j \in Int
    BY <1>1
  <2> QED
    BY <1>1, <1>2, <2>1, <2>2
<1>4. Range(d) = Range(s) \ {k}
  <2>1. \A i \in 1..Len(d) : d[i] \in Range(s) \ {k}
    BY <1>1, <1>2 DEF Range
  <2>2. \A j \in 1..Len(s) : s[j] # k => s[j] \in Range(d)
    BY <1>1, <1>2 DEF Range
  <2> QED
    BY <1>2, <2>1, <2>2 DEF Range
<1> QED
  BY <1>2, <1>3, <1>4 DEF d

\* Sequences that agree still do when a key is taken out of the first.
LEMMA DropAgrees ==
  ASSUME NEW s \in Seq(Keys), NEW t \in Seq(Keys), OnceEach(s), Agree(s, t), NEW k
  PROVE  Agree(Drop(s, k), t)
<1> DEFINE d == Drop(s, k)
<1>1. PICK old \in [1..Len(d) -> 1..Len(s)] :
        /\ \A i \in 1..Len(d) : d[i] = s[old[i]] /\ s[old[i]] # k
        /\ \A i, j \in 1..Len(d) : i < j => old[i] < old[j]
  BY DropShape
<1>2. DOMAIN d = 1..Len(d) /\ DOMAIN s = 1..Len(s)
  BY DropShape
<1> HIDE DEF d
<1>3. Agree(d, t)
  BY <1>1, <1>2 DEF Agree
<1> QED
  BY <1>3 DEF d

\* ... or out of the second.
LEMMA DropAgreesToo ==
  ASSUME NEW s \in Seq(Keys), NEW t \in Seq(Keys), OnceEach(t), Agree(s, t), NEW k
  PROVE  Agree(s, Drop(t, k))
<1> DEFINE d == Drop(t, k)
<1>1. PICK old \in [1..Len(d) -> 1..Len(t)] :
        /\ \A i \in 1..Len(d) : d[i] = t[old[i]] /\ t[old[i]] # k
        /\ \A i, j \in 1..Len(d) : i < j => old[i] < old[j]
  BY DropShape
<1>2. DOMAIN d = 1..Len(d) /\ DOMAIN t = 1..Len(t) /\ Len(d) \in Nat /\ Len(t) \in Nat
  BY DropShape
<1> HIDE DEF d
<1>3. ASSUME NEW i \in DOMAIN s, NEW j \in DOMAIN s, NEW a \in 1..Len(d), NEW b \in 1..Len(d),
             s[i] = d[a], s[j] = d[b], i < j
      PROVE  a < b
  <2>1. old[a] < old[b] /\ old[a] \in 1..Len(t) /\ old[b] \in 1..Len(t)
    <3>1. a \in DOMAIN d /\ b \in DOMAIN d /\ d[a] = t[old[a]] /\ d[b] = t[old[b]]
          /\ old[a] \in 1..Len(t) /\ old[b] \in 1..Len(t)
      BY <1>1, <1>2
    <3> QED
      BY <1>2, <1>3, <3>1 DEF Agree
  <2>2. a # b
    BY <2>1, <1>2
  <2>3. ~(b < a)
    BY <1>1, <1>2, <2>1
  <2> QED
    BY <2>2, <2>3
<1>4. Agree(s, d)
  BY <1>2, <1>3 DEF Agree
<1> QED
  BY <1>4 DEF d

\* A key in front of a sequence.
LEMMA FrontShape ==
  ASSUME NEW d \in Seq(Keys), NEW k \in Keys
  PROVE  /\ <<k>> \o d \in Seq(Keys) /\ DOMAIN (<<k>> \o d) = 1..(Len(d) + 1)
         /\ Len(d) \in Nat /\ DOMAIN d = 1..Len(d)
         /\ (<<k>> \o d)[1] = k
         /\ \A i \in 1..(Len(d) + 1) : i # 1 => i - 1 \in 1..Len(d) /\ (<<k>> \o d)[i] = d[i - 1]
<1>1. <<k>> \in Seq(Keys) /\ Len(<<k>>) = 1 /\ <<k>>[1] = k
  OBVIOUS
<1>2. Len(d) \in Nat /\ DOMAIN d = 1..Len(d)
  OBVIOUS
<1>3. /\ <<k>> \o d \in Seq(Keys) /\ Len(<<k>> \o d) = 1 + Len(d)
      /\ \A i \in 1..(1 + Len(d)) : (<<k>> \o d)[i] = IF i <= 1 THEN <<k>>[i] ELSE d[i - 1]
  BY <1>1, ConcatProperties
<1> DEFINE f == <<k>> \o d
<1>4. DOMAIN f = 1..Len(f)
  BY <1>3, LenProperties
<1> HIDE DEF f
<1>5. 1 + Len(d) = Len(d) + 1 /\ 1 \in 1..(1 + Len(d)) /\ 1 <= 1
  BY <1>2
<1>6. ASSUME NEW i \in 1..(Len(d) + 1), i # 1
      PROVE  i - 1 \in 1..Len(d) /\ i \in 1..(1 + Len(d)) /\ ~(i <= 1)
  BY <1>2, <1>6
<1> QED
  BY <1>1, <1>2, <1>3, <1>4, <1>5, <1>6 DEF f

\* A key that is used comes to the front; nothing else is lost or gained.
LEMMA FrontHolds ==
  ASSUME NEW s \in Seq(Keys), OnceEach(s), NEW k \in Keys
  PROVE  /\ <<k>> \o Drop(s, k) \in Seq(Keys) /\ OnceEach(<<k>> \o Drop(s, k))
         /\ Range(<<k>> \o Drop(s, k)) = Range(s) \cup {k}
<1> DEFINE d == Drop(s, k)
           f == <<k>> \o d
<1>1. d \in Seq(Keys) /\ OnceEach(d) /\ Range(d) = Range(s) \ {k}
  BY DropHolds
<1> HIDE DEF d
<1>2. /\ f \in Seq(Keys) /\ DOMAIN f = 1..(Len(d) + 1) /\ Len(d) \in Nat /\ DOMAIN d = 1..Len(d)
      /\ f[1] = k
      /\ \A i \in 1..(Len(d) + 1) : i # 1 => i - 1 \in 1..Len(d) /\ f[i] = d[i - 1]
  BY <1>1, FrontShape
<1> HIDE DEF f
<1>3. \A i \in 1..Len(d) : d[i] # k
  BY <1>1, <1>2 DEF Range
<1>4. OnceEach(f)
  <2> SUFFICES ASSUME NEW i \in 1..(Len(d) + 1), NEW j \in 1..(Len(d) + 1), f[i] = f[j]
               PROVE  i = j
    BY <1>2 DEF OnceEach
  <2>1. CASE i = 1 \/ j = 1
    BY <1>2, <1>3, <2>1
  <2>2. CASE i # 1 /\ j # 1
    <3>1. /\ i - 1 \in DOMAIN d /\ j - 1 \in DOMAIN d
          /\ d[i - 1] = d[j - 1]
      <4>1. i - 1 \in 1..Len(d) /\ j - 1 \in 1..Len(d) /\ f[i] = d[i - 1] /\ f[j] = d[j - 1]
        BY <1>2, <2>2
      <4> QED
        BY <1>2, <4>1
    <3>2. i - 1 = j - 1
      BY <1>1, <3>1 DEF OnceEach
    <3> QED
      BY <3>2
  <2> QED
    BY <2>1, <2>2
<1>5. Range(f) = Range(s) \cup {k}
  <2>1. \A i \in 1..(Len(d) + 1) : f[i] \in Range(d) \cup {k}
    BY <1>2 DEF Range
  <2>2. \A i \in 1..Len(d) : i + 1 \in 1..(Len(d) + 1) /\ i + 1 # 1 /\ (i + 1) - 1 = i
    BY <1>2
  <2>3. ASSUME NEW i \in 1..Len(d) PROVE d[i] \in Range(f)
    <3>1. i + 1 \in DOMAIN f /\ f[i + 1] = d[(i + 1) - 1] /\ (i + 1) - 1 = i
      BY <1>2, <2>2
    <3>2. f[i + 1] = d[i]
      BY <3>1
    <3> QED
      BY <3>1, <3>2 DEF Range
  <2>4. k \in Range(f)
    <3>1. 1 \in 1..(Len(d) + 1)
      BY <1>2
    <3> QED
      BY <1>2, <3>1 DEF Range
  <2>5. Range(f) = Range(d) \cup {k}
    BY <1>2, <2>1, <2>3, <2>4 DEF Range
  <2> QED
    BY <1>1, <2>5
<1> QED
  BY <1>2, <1>4, <1>5 DEF f, d

\* Sequences that agree still do when a key is used in both.
LEMMA FrontAgrees ==
  ASSUME NEW s \in Seq(Keys), NEW t \in Seq(Keys), OnceEach(s), OnceEach(t), Agree(s, t),
         NEW k \in Keys
  PROVE  Agree(<<k>> \o Drop(s, k), <<k>> \o Drop(t, k))
<1> DEFINE d == Drop(s, k)
           e == Drop(t, k)
           f == <<k>> \o d
           g == <<k>> \o e
<1>1. d \in Seq(Keys) /\ e \in Seq(Keys) /\ Agree(d, e) /\ k \notin Range(d)
      /\ k \notin Range(e)
  <2>1. d \in Seq(Keys) /\ e \in Seq(Keys) /\ k \notin Range(d) /\ k \notin Range(e)
    BY DropHolds
  <2>2. Agree(d, t)
    BY DropAgrees
  <2> QED
    BY <2>1, <2>2, DropAgreesToo
<1> HIDE DEF d, e
<1>2. /\ DOMAIN f = 1..(Len(d) + 1) /\ Len(d) \in Nat /\ DOMAIN d = 1..Len(d)
      /\ f[1] = k
      /\ \A i \in 1..(Len(d) + 1) : i # 1 => i - 1 \in 1..Len(d) /\ f[i] = d[i - 1]
  BY <1>1, FrontShape
<1>3. /\ DOMAIN g = 1..(Len(e) + 1) /\ Len(e) \in Nat /\ DOMAIN e = 1..Len(e)
      /\ g[1] = k
      /\ \A i \in 1..(Len(e) + 1) : i # 1 => i - 1 \in 1..Len(e) /\ g[i] = e[i - 1]
  BY <1>1, FrontShape
<1> HIDE DEF f, g
<1>4. (\A i \in 1..Len(d) : d[i] # k) /\ (\A i \in 1..Len(e) : e[i] # k)
  BY <1>1, <1>2, <1>3 DEF Range
<1>5. ASSUME NEW i \in 1..(Len(d) + 1), NEW j \in 1..(Len(d) + 1),
             NEW a \in 1..(Len(e) + 1), NEW b \in 1..(Len(e) + 1),
             f[i] = g[a], f[j] = g[b], i < j
      PROVE  a < b
  <2>1. j # 1
    BY <1>5
  <2>2. b # 1
    BY <1>2, <1>3, <1>4, <1>5, <2>1
  <2>3. CASE a = 1
    BY <1>3, <2>2, <2>3
  <2>4. CASE a # 1
    <3>1. i # 1
      BY <1>2, <1>3, <1>4, <1>5, <2>4
    <3>2. /\ i - 1 \in DOMAIN d /\ j - 1 \in DOMAIN d /\ a - 1 \in DOMAIN e
          /\ b - 1 \in DOMAIN e /\ d[i - 1] = e[a - 1] /\ d[j - 1] = e[b - 1]
      <4>1. /\ i - 1 \in 1..Len(d) /\ f[i] = d[i - 1]
            /\ j - 1 \in 1..Len(d) /\ f[j] = d[j - 1]
        BY <1>2, <2>1, <3>1
      <4>2. /\ a - 1 \in 1..Len(e) /\ g[a] = e[a - 1]
            /\ b - 1 \in 1..Len(e) /\ g[b] = e[b - 1]
        BY <1>3, <2>2, <2>4
      <4> QED
        BY <1>2, <1>3, <1>5, <4>1, <4>2
    <3>3. i - 1 < j - 1
      BY <1>5
    <3>4. \A p, q \in DOMAIN d, x, y \in DOMAIN e :
            d[p] = e[x] /\ d[q] = e[y] /\ p < q => x < y
      BY <1>1 DEF Agree
    <3>5. a - 1 < b - 1
      BY <3>2, <3>3, <3>4, Zenon
    <3> QED
      BY <3>5
  <2> QED
    BY <2>3, <2>4
<1>6. Agree(f, g)
  BY <1>2, <1>3, <1>5 DEF Agree
<1> QED
  BY <1>6 DEF f, g, d, e

-----------------------------------------------------------------------------
(* The memory of the zone.                                                 *)

UnitsAt(x, size) == {m \in {x} \X {1, 2} : m[2] <= size}
UnitsIn(t) == {m \in (DOMAIN t) \X {1, 2} : m[2] <= Size(t[m[1]].value)}
Besides(t, k) == {m \in UnitsIn(t) : m[1] # k}

\* A value takes one unit or two.
LEMMA UnitsOfOne ==
  ASSUME NEW x, NEW n \in {1, 2}
  PROVE  IsFiniteSet(UnitsAt(x, n)) /\ Cardinality(UnitsAt(x, n)) = n
<1>1. IsFiniteSet({<<x, 1>>}) /\ Cardinality({<<x, 1>>}) = 1
  BY FS_Singleton
<1>2. <<x, 2>> \notin {<<x, 1>>}
  OBVIOUS
<1>3. IsFiniteSet({<<x, 1>>} \cup {<<x, 2>>})
      /\ Cardinality({<<x, 1>>} \cup {<<x, 2>>}) = 2
  <2> DEFINE one == {<<x, 1>>}
             y == <<x, 2>>
  <2>1. IsFiniteSet(one) /\ Cardinality(one) = 1 /\ y \notin one
    BY <1>1, <1>2
  <2> HIDE DEF one, y
  <2>2. IsFiniteSet(one \cup {y}) /\ Cardinality(one \cup {y}) = Cardinality(one) + 1
    BY <2>1, FS_AddElement
  <2>3. Cardinality(one \cup {y}) = 2
    BY <2>1, <2>2
  <2> QED
    BY <2>2, <2>3 DEF one, y
<1>4. CASE n = 1
  <2>1. UnitsAt(x, 1) = {<<x, 1>>}
    BY DEF UnitsAt
  <2> QED
    BY <1>1, <1>4, <2>1
<1>5. CASE n = 2
  <2>1. UnitsAt(x, 2) = {<<x, 1>>} \cup {<<x, 2>>}
    BY DEF UnitsAt
  <2> QED
    BY <1>3, <1>5, <2>1
<1> QED
  BY <1>4, <1>5

\* The size of a value.
LEMMA SizeIs == \A v : Size(v) \in {1, 2}
  BY DEF Size

\* ... is a number.
LEMMA SizeIsNumber == \A v : Size(v) \in Nat
  BY DEF Size

\* The memory of an entry and that of the others make the whole.
LEMMA UnitsSplit ==
  ASSUME NEW t, NEW k, IsFiniteSet(Besides(t, k))
  PROVE  /\ IsFiniteSet(UnitsIn(t)) /\ Cardinality(Besides(t, k)) \in Nat
         /\ Cardinality(UnitsIn(t)) =
              Cardinality(Besides(t, k))
              + (IF k \in DOMAIN t THEN Size(t[k].value) ELSE 0)
<1>1. Cardinality(Besides(t, k)) \in Nat
  BY FS_CardinalityType
<1>2. CASE k \in DOMAIN t
  <2> DEFINE u == UnitsAt(k, Size(t[k].value))
  <2>1. UnitsIn(t) = Besides(t, k) \cup u /\ Besides(t, k) \cap u = {}
    BY <1>2 DEF UnitsIn, Besides, UnitsAt
  <2>2. IsFiniteSet(u) /\ Cardinality(u) = Size(t[k].value)
    BY SizeIs, UnitsOfOne
  <2> HIDE DEF u
  <2>3. /\ IsFiniteSet(Besides(t, k) \cup u)
        /\ Cardinality(Besides(t, k) \cup u) =
             Cardinality(Besides(t, k)) + Cardinality(u) - Cardinality({})
    BY <2>1, <2>2, FS_Union
  <2>4. Cardinality({}) = 0 /\ Size(t[k].value) \in Nat
    BY FS_EmptySet, SizeIs
  <2> QED
    BY <1>1, <1>2, <2>1, <2>2, <2>3, <2>4
<1>3. CASE k \notin DOMAIN t
  <2>1. UnitsIn(t) = Besides(t, k)
    BY <1>3 DEF UnitsIn, Besides
  <2> QED
    BY <1>1, <1>3, <2>1
<1> QED
  BY <1>2, <1>3

\* A tree whose keys are in a queue has finitely many.
LEMMA TreeIsFinite ==
  ASSUME NEW s \in Seq(Keys), NEW t, Range(s) = DOMAIN t
  PROVE  IsFiniteSet(UnitsIn(t)) /\ \A k : IsFiniteSet(Besides(t, k))
<1>1. Len(s) \in Nat /\ DOMAIN s = 1..Len(s) /\ s \in [1..Len(s) -> DOMAIN t]
  BY LenProperties DEF Range
<1>2. IsFiniteSet(1..Len(s))
  BY <1>1, FS_Interval
<1>3. s \in Surjection(1..Len(s), DOMAIN t)
  BY <1>1 DEF Surjection, Range
<1>4. IsFiniteSet(DOMAIN t)
  BY <1>2, <1>3, FS_Surjection
<1>5. IsFiniteSet({1, 2})
  <2>1. IsFiniteSet({1}) /\ {1, 2} = {1} \cup {2}
    BY FS_Singleton
  <2> QED
    BY <2>1, FS_AddElement
<1>6. IsFiniteSet((DOMAIN t) \X {1, 2})
  BY <1>4, <1>5, FS_Product
<1>7. UnitsIn(t) \in SUBSET ((DOMAIN t) \X {1, 2})
  BY DEF UnitsIn
<1>8. IsFiniteSet(UnitsIn(t))
  BY <1>6, <1>7, FS_Subset
<1>9. \A k : Besides(t, k) \in SUBSET UnitsIn(t)
  BY DEF Besides
<1> QED
  BY <1>8, <1>9, FS_Subset

\* An entry is taken out of the tree with its memory.
LEMMA UnitsOut ==
  ASSUME NEW s \in Seq(Keys), NEW t, Range(s) = DOMAIN t, NEW k \in DOMAIN t,
         NEW u, DOMAIN u = (DOMAIN t) \ {k}, \A x \in DOMAIN u : u[x] = t[x]
  PROVE  /\ Cardinality(UnitsIn(u)) \in Nat
         /\ Cardinality(UnitsIn(t)) = Cardinality(UnitsIn(u)) + Size(t[k].value)
<1>1. UnitsIn(u) = Besides(t, k)
  BY DEF UnitsIn, Besides
<1>2. IsFiniteSet(Besides(t, k))
  BY TreeIsFinite
<1> QED
  BY <1>1, <1>2, UnitsSplit

\* An entry is put into the tree, and replaces what was there of its key.
LEMMA UnitsPut ==
  ASSUME NEW s \in Seq(Keys), NEW t, Range(s) = DOMAIN t, NEW k,
         NEW u, DOMAIN u = (DOMAIN t) \cup {k}, \A x \in (DOMAIN t) \ {k} : u[x] = t[x]
  PROVE  \E rest \in Nat :
           /\ Cardinality(UnitsIn(t)) =
                rest + (IF k \in DOMAIN t THEN Size(t[k].value) ELSE 0)
           /\ Cardinality(UnitsIn(u)) = rest + Size(u[k].value)
<1>1. Besides(u, k) = Besides(t, k)
  BY DEF UnitsIn, Besides
<1>2. IsFiniteSet(Besides(t, k))
  BY TreeIsFinite
<1>3. k \in DOMAIN u
  OBVIOUS
<1>4. /\ Cardinality(Besides(t, k)) \in Nat
      /\ Cardinality(UnitsIn(t)) =
           Cardinality(Besides(t, k)) + (IF k \in DOMAIN t THEN Size(t[k].value) ELSE 0)
  BY <1>2, UnitsSplit
<1>5. Cardinality(UnitsIn(u)) =
        Cardinality(Besides(u, k)) + (IF k \in DOMAIN u THEN Size(u[k].value) ELSE 0)
  BY <1>1, <1>2, UnitsSplit
<1>6. Cardinality(UnitsIn(u)) = Cardinality(Besides(t, k)) + Size(u[k].value)
  BY <1>1, <1>3, <1>5
<1> QED
  BY <1>4, <1>6

\* What the worker in the section has allocated and not linked.
Pending(w) == IF pc[w] = "link" THEN Size(NewEntry(w).value) ELSE 0

\* Only the worker in the section can have allocated memory.
LEMMA AllocatedIs ==
  IInv => /\ IsFiniteSet(Allocated) /\ Cardinality(Allocated) \in Nat
          /\ \A w \in Workers :
               pc[w] \notin {"idle", "lock"} => Cardinality(Allocated) = Pending(w)
<1> SUFFICES ASSUME IInv
             PROVE  /\ IsFiniteSet(Allocated) /\ Cardinality(Allocated) \in Nat
                    /\ \A w \in Workers :
                         pc[w] \notin {"idle", "lock"} => Cardinality(Allocated) = Pending(w)
  OBVIOUS
<1>1. LockMeansSection /\ lock \in Workers \cup {NoWorker}
  BY DEF IInv, CallTypeOK
<1>2. ASSUME NEW w \in Workers, pc[w] \notin {"idle", "lock"}
      PROVE  IsFiniteSet(Allocated) /\ Cardinality(Allocated) = Pending(w)
  <2>1. \A v \in Workers \ {w} : pc[v] # "link"
    BY <1>1, <1>2, Alone
  <2>2. CASE pc[w] = "link"
    <3>1. Allocated = UnitsAt(w, Size(NewEntry(w).value))
      BY <2>1, <2>2 DEF Allocated, UnitsAt
    <3> QED
      BY <2>2, <3>1, SizeIs, UnitsOfOne DEF Pending
  <2>3. CASE pc[w] # "link"
    <3>1. Allocated = {}
      BY <2>1, <2>3 DEF Allocated
    <3> QED
      BY <2>3, <3>1, FS_EmptySet DEF Pending
  <2> QED
    BY <2>2, <2>3
<1>3. CASE lock = NoWorker
  <2>1. \A w \in Workers : pc[w] \in {"idle", "lock"}
    BY <1>1, <1>3, ShmAssumption DEF LockMeansSection, ShmAssumption
  <2>2. Allocated = {}
    BY <2>1 DEF Allocated
  <2> QED
    BY <2>1, <2>2, FS_EmptySet
<1>4. CASE lock \in Workers
  <2>1. pc[lock] \notin {"idle", "lock"}
    BY <1>1, <1>4 DEF LockMeansSection
  <2> QED
    BY <1>2, <1>4, <2>1, FS_CardinalityType
<1> QED
  BY <1>1, <1>3, <1>4

-----------------------------------------------------------------------------
(* The zone: its queue, its history and its memory.                        *)

QueueOK(q, t, h) ==
  /\ q \in Seq(Keys) /\ OnceEach(q) /\ Range(q) = DOMAIN t
  /\ h \in Seq(Keys) /\ OnceEach(h) /\ Range(q) \subseteq Range(h) /\ Agree(q, h)
MemoryOK(f, t, a) == f \in Nat /\ f + Cardinality(UnitsIn(t)) + a = Capacity
AttemptsOK == attempts \in [Workers -> 0..MaxAttempts]
Zone == AttemptsOK /\ QueueOK(lru, tree, recent) /\ MemoryOK(free, tree, Cardinality(Allocated))

\* The invariant of the zone in these terms.
LEMMA ZoneMeans == ZoneInv <=> IInv /\ Zone
<1>1. Linked = UnitsIn(tree)
  BY DEF Linked, UnitsIn
<1>2. ASSUME ZoneInv PROVE IInv /\ Zone
  <2>1. free \in Nat
    BY <1>2, ShmAssumption DEF ZoneInv, TypeOK, ShmAssumption
  <2> QED
    BY <1>1, <1>2, <2>1
    DEF ZoneInv, TypeOK, EntriesAccounted, UseOrder, Zone, AttemptsOK, QueueOK, MemoryOK
<1>3. ASSUME IInv, Zone PROVE ZoneInv
  <2>1. Cardinality(Allocated) \in Nat
    BY <1>3, AllocatedIs
  <2>2. IsFiniteSet(UnitsIn(tree))
    BY <1>3, TreeIsFinite DEF Zone, QueueOK
  <2>3. Cardinality(UnitsIn(tree)) \in Nat
    BY <2>2, FS_CardinalityType
  <2>4. free \in Nat /\ free + Cardinality(UnitsIn(tree)) + Cardinality(Allocated) = Capacity
    BY <1>3 DEF Zone, MemoryOK
  <2>5. free \in 0..Capacity
    <3> DEFINE m == Cardinality(UnitsIn(tree))
               n == Cardinality(Allocated)
    <3>1. free \in Nat /\ m \in Nat /\ n \in Nat /\ free + m + n = Capacity
      BY <2>1, <2>3, <2>4
    <3> HIDE DEF m, n
    <3> QED
      BY <3>1
  <2> QED
    BY <1>1, <1>3, <2>4, <2>5
    DEF IInv, ZoneInv, TypeOK, EntriesAccounted, UseOrder, Zone, AttemptsOK, QueueOK
<1> QED
  BY <1>2, <1>3

\* An entry leaves the tree and the queue.
LEMMA QueueOut ==
  ASSUME NEW q, NEW t, NEW h, QueueOK(q, t, h), NEW k, NEW u, DOMAIN u = (DOMAIN t) \ {k}
  PROVE  QueueOK(Drop(q, k), u, h)
<1>1. /\ Drop(q, k) \in Seq(Keys) /\ OnceEach(Drop(q, k))
      /\ Range(Drop(q, k)) = Range(q) \ {k}
  BY DropHolds DEF QueueOK
<1>2. Agree(Drop(q, k), h)
  BY DropAgrees DEF QueueOK
<1> QED
  BY <1>1, <1>2 DEF QueueOK

\* An entry is used, or comes into the tree: to the front of the queue and of the history.
LEMMA QueueUse ==
  ASSUME NEW q, NEW t, NEW h, QueueOK(q, t, h), NEW k \in Keys,
         NEW u, DOMAIN u = (DOMAIN t) \cup {k}
  PROVE  QueueOK(<<k>> \o Drop(q, k), u, <<k>> \o Drop(h, k))
<1>1. q \in Seq(Keys) /\ OnceEach(q) /\ h \in Seq(Keys) /\ OnceEach(h) /\ Agree(q, h)
      /\ Range(q) = DOMAIN t /\ Range(q) \subseteq Range(h)
  BY DEF QueueOK
<1>2. /\ <<k>> \o Drop(q, k) \in Seq(Keys) /\ OnceEach(<<k>> \o Drop(q, k))
      /\ Range(<<k>> \o Drop(q, k)) = Range(q) \cup {k}
  BY <1>1, FrontHolds
<1>3. /\ <<k>> \o Drop(h, k) \in Seq(Keys) /\ OnceEach(<<k>> \o Drop(h, k))
      /\ Range(<<k>> \o Drop(h, k)) = Range(h) \cup {k}
  BY <1>1, FrontHolds
<1>4. Agree(<<k>> \o Drop(q, k), <<k>> \o Drop(h, k))
  BY <1>1, FrontAgrees
<1> QED
  BY <1>1, <1>2, <1>3, <1>4 DEF QueueOK

\* The empty zone has all its memory.
LEMMA InitZone == Init => ZoneInv
<1> SUFFICES ASSUME Init PROVE IInv /\ Zone
  BY ZoneMeans
<1>1. IInv
  BY InitIInv
<1>2. AttemptsOK
  BY ShmAssumption DEF Init, AttemptsOK, ShmAssumption
<1>3. lru = <<>> /\ recent = <<>> /\ DOMAIN tree = {} /\ free = Capacity
  BY DEF Init
<1>4. QueueOK(lru, tree, recent)
  <2>1. <<>> \in Seq(Keys) /\ DOMAIN <<>> = {} /\ Range(<<>>) = {}
    BY DEF Range
  <2> QED
    BY <1>3, <2>1 DEF QueueOK, OnceEach, Agree
<1>5. Allocated = {}
  BY DEF Init, Allocated
<1>6. UnitsIn(tree) = {}
  BY <1>3 DEF UnitsIn
<1>7. MemoryOK(free, tree, Cardinality(Allocated))
  BY <1>3, <1>5, <1>6, FS_EmptySet, ShmAssumption DEF MemoryOK, ShmAssumption
<1> QED
  BY <1>1, <1>2, <1>4, <1>7 DEF Zone

\* The same of the next state.
LEMMA AllocatedIsNext ==
  IInv' => /\ IsFiniteSet(Allocated)' /\ (Cardinality(Allocated) \in Nat)'
           /\ (\A w \in Workers :
                pc[w] \notin {"idle", "lock"} => Cardinality(Allocated) = Pending(w))'
<1> QED
  BY AllocatedIs, PTL

\* A step of w in its section, in terms of what it does to the zone.
LEMMA PendingStep ==
  ASSUME IInv, IInv', NEW w \in Workers, pc[w] \notin {"idle", "lock"},
         pc'[w] \notin {"idle", "lock"}
  PROVE  Cardinality(Allocated) = Pending(w) /\ Cardinality(Allocated)' = Pending(w)'
<1>1. Cardinality(Allocated) = Pending(w)
  BY AllocatedIs
<1>2. (\A v \in Workers :
         pc[v] \notin {"idle", "lock"} => Cardinality(Allocated) = Pending(v))'
  BY AllocatedIsNext
<1> QED
  BY <1>1, <1>2

\* Nothing happens to the zone outside of a section.
LEMMA ZoneAside ==
  ASSUME Zone, AttemptsOK', UNCHANGED <<zoneVars, recent>>,
         NEW w \in Workers, pc[w] # "link", pc'[w] # "link",
         \A v \in Workers \ {w} : pc'[v] = pc[v] /\ op'[v] = op[v]
  PROVE  Zone'
<1>1. \A v \in Workers : pc'[v] = "link" <=> pc[v] = "link"
  OBVIOUS
<1>2. \A v \in Workers : pc[v] = "link" => NewEntry(v)' = NewEntry(v)
  BY DEF NewEntry, Key, zoneVars
<1>3. Allocated' = Allocated
  BY <1>1, <1>2 DEF Allocated
<1> QED
  BY <1>3 DEF Zone, QueueOK, MemoryOK, UnitsIn, zoneVars

\* A call that leaves the zone as it is, and nothing in the hands of w.
LEMMA ZoneKept ==
  ASSUME IInv, IInv', Zone, AttemptsOK', NEW w \in Workers,
         pc[w] \notin {"idle", "lock", "link"}, pc'[w] \notin {"idle", "lock", "link"},
         UNCHANGED <<zoneVars, recent>>
  PROVE  Zone'
<1>1. Cardinality(Allocated) = 0 /\ Cardinality(Allocated)' = 0
  BY PendingStep DEF Pending
<1> QED
  BY <1>1 DEF Zone, QueueOK, MemoryOK, UnitsIn, zoneVars

\* A call that deletes an entry.
LEMMA ZoneDeletes ==
  ASSUME IInv, IInv', Zone, AttemptsOK', NEW w \in Workers,
         pc[w] \notin {"idle", "lock", "link"}, pc'[w] \notin {"idle", "lock", "link"},
         NEW k \in DOMAIN tree, DeleteLocked(k), UNCHANGED recent
  PROVE  Zone'
<1>1. Cardinality(Allocated) = 0 /\ Cardinality(Allocated)' = 0
  BY PendingStep DEF Pending
<1>2. /\ tree' = KV!Without(k) /\ lru' = Drop(lru, k)
      /\ free' = free + Size(tree[k].value)
  BY DEF DeleteLocked
<1>3. DOMAIN tree' = (DOMAIN tree) \ {k} /\ \A x \in DOMAIN tree' : tree'[x] = tree[x]
  BY <1>2 DEF KV!Without
<1>4. QueueOK(lru, tree, recent)
  BY DEF Zone
<1>5. QueueOK(lru', tree', recent')
  BY <1>2, <1>3, <1>4, QueueOut
<1>6. /\ Cardinality(UnitsIn(tree')) \in Nat
      /\ Cardinality(UnitsIn(tree)) = Cardinality(UnitsIn(tree')) + Size(tree[k].value)
  <2>1. lru \in Seq(Keys) /\ Range(lru) = DOMAIN tree
    BY <1>4 DEF QueueOK
  <2> QED
    BY <1>3, <2>1, UnitsOut
<1>7. free \in Nat /\ free + Cardinality(UnitsIn(tree)) + 0 = Capacity
  BY <1>1 DEF Zone, MemoryOK
<1>8. Size(tree[k].value) \in Nat
  BY SizeIs
<1>9. free' \in Nat /\ free' + Cardinality(UnitsIn(tree')) + 0 = Capacity
  <2> DEFINE m == Cardinality(UnitsIn(tree))
             n == Cardinality(UnitsIn(tree'))
             size == Size(tree[k].value)
  <2>1. /\ free \in Nat /\ n \in Nat /\ size \in Nat /\ m = n + size
        /\ free + m + 0 = Capacity /\ free' = free + size
    BY <1>2, <1>6, <1>7, <1>8
  <2> HIDE DEF m, n, size
  <2>2. free' \in Nat /\ free' + n + 0 = Capacity
    BY <2>1
  <2> QED
    BY <2>2 DEF n
<1> QED
  BY <1>1, <1>5, <1>9 DEF Zone, MemoryOK, QueueOK, UnitsIn

\* Memory changes hands: what was pending, or free, becomes that of the new entry.
LEMMA MemoryUse ==
  ASSUME NEW t, NEW u, NEW rest \in Nat, NEW f \in Nat, NEW g \in Nat, NEW has \in Nat,
         NEW new \in Nat, NEW old \in Nat, g + new = f + has + old, MemoryOK(f, t, has),
         Cardinality(UnitsIn(t)) = rest + old, Cardinality(UnitsIn(u)) = rest + new
  PROVE  MemoryOK(g, u, 0)
<1>1. f + (rest + old) + has = Capacity
  BY Zenon DEF MemoryOK
<1>2. g + (rest + new) + 0 = Capacity
  <2>1. g + new = f + has + old
    OBVIOUS
  <2> QED
    BY <1>1, <2>1
<1> QED
  BY <1>2 DEF MemoryOK

\* A call that uses its entry, or puts another in its place: what it had pending, or takes
\* from the free memory, goes to the new entry, and what the old one had is free.
LEMMA ZoneUses ==
  ASSUME IInv, IInv', Zone, AttemptsOK', NEW w \in Workers,
         pc[w] \notin {"idle", "lock"}, pc'[w] \notin {"idle", "lock", "link"},
         NEW k \in Keys, lru' = <<k>> \o Drop(lru, k), recent' = <<k>> \o Drop(recent, k),
         DOMAIN tree' = (DOMAIN tree) \cup {k},
         \A x \in (DOMAIN tree) \ {k} : tree'[x] = tree[x],
         free' \in Nat,
         free' + Size(tree'[k].value) =
           free + Pending(w) + (IF k \in DOMAIN tree THEN Size(tree[k].value) ELSE 0)
  PROVE  Zone'
<1>1. Cardinality(Allocated) = Pending(w) /\ Cardinality(Allocated)' = 0
  BY PendingStep DEF Pending
<1>2. QueueOK(lru, tree, recent)
  BY DEF Zone
<1>3. QueueOK(lru', tree', recent')
  BY <1>2, QueueUse
<1>4. MemoryOK(free, tree, Pending(w)) /\ free \in Nat
  BY <1>1 DEF Zone, MemoryOK
<1>5. MemoryOK(free', tree', 0)
  <2> DEFINE new == Size(tree'[k].value)
             old == IF k \in DOMAIN tree THEN Size(tree[k].value) ELSE 0
  <2>1. lru \in Seq(Keys) /\ Range(lru) = DOMAIN tree
    BY <1>2 DEF QueueOK
  <2>2. \E rest \in Nat :
          Cardinality(UnitsIn(tree)) = rest + old /\ Cardinality(UnitsIn(tree')) = rest + new
    <3>1. DOMAIN tree' = (DOMAIN tree) \cup {k} /\ \A x \in (DOMAIN tree) \ {k} : tree'[x] = tree[x]
      OBVIOUS
    <3> QED
      BY <2>1, <3>1, UnitsPut, ZenonT(30)
  <2>3. new \in Nat /\ old \in Nat /\ Pending(w) \in Nat
    BY SizeIsNumber, Zenon DEF Pending
  <2>4. free' + new = free + Pending(w) + old
    OBVIOUS
  <2> HIDE DEF new, old
  <2> QED
    BY <1>4, <2>2, <2>3, <2>4, MemoryUse, Zenon
<1> QED
  BY <1>1, <1>3, <1>5 DEF Zone, MemoryOK, QueueOK, UnitsIn

\* The loop of alloc_node counts up to its limit.
LEMMA AttemptsStep ==
  ASSUME AttemptsOK, [Next]_vars PROVE AttemptsOK'
<1> USE ShmAssumption DEF ShmAssumption, AttemptsOK
<1>1. ASSUME NEW w \in Workers, Evict(w) PROVE AttemptsOK'
  <2>1. attempts[w] \in 0..MaxAttempts /\ attempts[w] < MaxAttempts
        /\ attempts' = [attempts EXCEPT ![w] = attempts[w] + 1]
    BY <1>1 DEF Evict
  <2>2. attempts[w] + 1 \in 0..MaxAttempts
    BY <2>1
  <2> QED
    BY <2>1, <2>2
<1>2. ASSUME NEW w \in Workers, Unlock(w) PROVE AttemptsOK'
  BY <1>2 DEF Unlock
<1>3. ASSUME NEW w \in Workers,
             \/ Invoke(w) \/ Acquire(w) \/ UpdateTime(w)
             \/ Lookup(w) \/ Get(w) \/ Delete(w) \/ Store(w) \/ Incr(w)
             \/ Allocate(w) \/ GiveUp(w) \/ Link(w)
      PROVE  attempts' = attempts
  BY <1>3, Zenon DEF Invoke, Acquire, UpdateTime, Lookup, Get, Delete, Store, Incr, SetLocked,
     Allocate, GiveUp, Link, AnswerCall, Proceed
<1>4. CASE Tick \/ UNCHANGED vars
  BY <1>4 DEF Tick, vars
<1> QED
  BY <1>1, <1>2, <1>3, <1>4 DEF Next, Holder

\* A store that finds its place in the tree, or asks for memory.
LEMMA ZoneSetLocked ==
  ASSUME IInv, IInv', Zone, AttemptsOK', NEW w \in Workers, pc[w] = "apply", SetLocked(w),
         op[w].kind \in KV!Writes,
         op[w].kind = "incr" =>
           /\ Found(w) /\ tree[Key(w)].value # Text
           /\ tree[Key(w)].value + op[w].delta \in KV!Ints
  PROVE  Zone'
<1>1. CallTypeOK /\ CallsOK
  BY DEF IInv
<1>2. Key(w) \in Keys
  BY <1>1, NewEntryType
<1>3. pc \in [Workers -> Points]
  BY <1>1 DEF CallTypeOK
<1>4. CASE Found(w) /\ Size(tree[Key(w)].value) = Size(NewEntry(w).value)
  <2>1. /\ tree' = [tree EXCEPT ![Key(w)] = NewEntry(w)]
        /\ lru' = <<Key(w)>> \o Drop(lru, Key(w)) /\ free' = free
        /\ AnswerCall(w, Stored(w))
    BY <1>4 DEF SetLocked, TouchLocked
  <2>2. Stored(w).rc = "ok" /\ op[w].kind # "delete"
    BY DEF Stored, KV!Answer, KV!Nothing, KV!Writes, KV!Stores
  <2>3. recent' = <<Key(w)>> \o Drop(recent, Key(w)) /\ pc'[w] = "unlock"
    BY <1>3, <2>1, <2>2 DEF AnswerCall, Goto
  <2>4. Key(w) \in DOMAIN tree
    BY <1>4 DEF Found
  <2>5. tree'[Key(w)] = NewEntry(w) /\ DOMAIN tree' = (DOMAIN tree) \cup {Key(w)}
        /\ \A x \in (DOMAIN tree) \ {Key(w)} : tree'[x] = tree[x]
    BY <1>1, <2>1, <2>4 DEF CallTypeOK
  <2>6. Pending(w) = 0 /\ free \in Nat
    BY DEF Pending, Zone, MemoryOK
  <2>7. free' + Size(tree'[Key(w)].value) =
          free + Pending(w)
          + (IF Key(w) \in DOMAIN tree THEN Size(tree[Key(w)].value) ELSE 0)
    <3>1. Size(tree'[Key(w)].value) = Size(tree[Key(w)].value)
      BY <1>4, <2>5
    <3>2. free + 0 = free
      BY <2>6
    <3> QED
      BY <2>1, <2>4, <2>6, <3>1, <3>2, Zenon
  <2>8. free' \in Nat
    BY <2>1, <2>6
  <2>9. pc[w] \notin {"idle", "lock"} /\ pc'[w] \notin {"idle", "lock", "link"}
    BY <2>3
  <2> QED
    BY <1>2, <2>1, <2>3, <2>5, <2>7, <2>8, <2>9, ZoneUses, Zenon
<1>5. CASE Proceed(w, "alloc") /\ UNCHANGED zoneVars
  <2>1. pc'[w] = "alloc" /\ UNCHANGED recent
    BY <1>3, <1>5 DEF Proceed, Goto
  <2> QED
    BY <1>5, <2>1, ZoneKept
<1> QED
  BY <1>4, <1>5 DEF SetLocked

\* An answer of w other than the success of a get or a store leaves the history alone.
LEMMA AnswerIsNoUse ==
  ASSUME CallTypeOK, NEW w \in Workers, NEW r, AnswerCall(w, r),
         r.rc # "ok" \/ op[w].kind = "delete"
  PROVE  recent' = recent /\ pc'[w] = "unlock"
<1>1. pc \in [Workers -> Points]
  BY DEF CallTypeOK
<1> QED
  BY <1>1 DEF AnswerCall, Goto

\* An answer that is one.
LEMMA AnswerIsUse ==
  ASSUME CallTypeOK, NEW w \in Workers, NEW r, AnswerCall(w, r),
         r.rc = "ok", op[w].kind # "delete"
  PROVE  recent' = <<Key(w)>> \o Drop(recent, Key(w)) /\ pc'[w] = "unlock"
<1>1. pc \in [Workers -> Points]
  BY DEF CallTypeOK
<1> QED
  BY <1>1 DEF AnswerCall, Goto

\* What Nothing says.
LEMMA NothingSays == \A rc : KV!Nothing(rc).rc = rc
  BY DEF KV!Nothing, KV!Answer

\* The slab hands out memory.
LEMMA ZoneAllocates ==
  ASSUME IInv, IInv', Zone, AttemptsOK', NEW w \in Workers, Allocate(w) PROVE Zone'
<1>1. CallTypeOK /\ pc \in [Workers -> Points]
  BY DEF IInv, CallTypeOK
<1>2. /\ pc[w] = "alloc" /\ Size(NewEntry(w).value) <= free
      /\ free' = free - Size(NewEntry(w).value) /\ tree' = tree /\ lru' = lru
      /\ pc'[w] = "link" /\ op' = op /\ recent' = recent
  BY <1>1 DEF Allocate, Proceed, Goto
<1>3. NewEntry(w)' = NewEntry(w)
  BY <1>2 DEF NewEntry, Key
<1>4. Pending(w) = 0 /\ Pending(w)' = Size(NewEntry(w).value)
  BY <1>2, <1>3 DEF Pending, Size
<1>5. Cardinality(Allocated) = 0 /\ Cardinality(Allocated)' = Size(NewEntry(w).value)
  BY <1>2, <1>4, PendingStep
<1>6. QueueOK(lru', tree', recent')
  BY <1>2 DEF Zone
<1>7. MemoryOK(free, tree, 0) /\ free \in Nat
  BY <1>5 DEF Zone, MemoryOK
<1>8. MemoryOK(free', tree', Size(NewEntry(w).value))
  <2>1. Cardinality(UnitsIn(tree)) \in Nat
    <3>1. IsFiniteSet(UnitsIn(tree))
      BY TreeIsFinite DEF Zone, QueueOK
    <3> QED
      BY <3>1, FS_CardinalityType
  <2>2. Size(NewEntry(w).value) \in Nat
    BY SizeIsNumber
  <2>3. free + Cardinality(UnitsIn(tree)) + 0 = Capacity
    BY <1>7 DEF MemoryOK
  <2> DEFINE m == Cardinality(UnitsIn(tree))
             size == Size(NewEntry(w).value)
  <2>4. m \in Nat /\ size \in Nat /\ free \in Nat /\ size <= free /\ free' = free - size
        /\ free + m + 0 = Capacity
    BY <1>2, <1>7, <2>1, <2>2, <2>3
  <2> HIDE DEF m, size
  <2>5. free' \in Nat /\ free' + m + size = Capacity
    BY <2>4
  <2> QED
    BY <1>2, <2>5, Zenon DEF m, size, MemoryOK
<1> QED
  BY <1>5, <1>6, <1>8 DEF Zone, MemoryOK, QueueOK, UnitsIn

\* The new entry replaces the old one, with the memory it has.
LEMMA ZoneLinks ==
  ASSUME IInv, IInv', Zone, AttemptsOK', NEW w \in Workers, Link(w) PROVE Zone'
<1>1. CallTypeOK /\ CallsOK /\ pc[w] = "link"
  BY DEF IInv, Link
<1>2. op[w].kind \in KV!Writes /\ Key(w) \in Keys
  BY <1>1, NewEntryType DEF CallsOK
<1>3. /\ tree' = KV!With(Key(w), NewEntry(w).value, NewEntry(w).expires)
      /\ lru' = <<Key(w)>> \o Drop(lru, Key(w))
      /\ free' = free + (IF Found(w) THEN Size(tree[Key(w)].value) ELSE 0)
      /\ AnswerCall(w, Stored(w))
  BY DEF Link
<1>4. Stored(w).rc = "ok" /\ op[w].kind # "delete"
  BY <1>2 DEF Stored, KV!Answer, KV!Nothing, KV!Writes, KV!Stores
<1>5. recent' = <<Key(w)>> \o Drop(recent, Key(w)) /\ pc'[w] = "unlock"
  BY <1>1, <1>3, <1>4, AnswerIsUse
<1>6. /\ DOMAIN tree' = (DOMAIN tree) \cup {Key(w)}
      /\ \A x \in (DOMAIN tree) \ {Key(w)} : tree'[x] = tree[x]
      /\ tree'[Key(w)].value = NewEntry(w).value
  BY <1>3 DEF KV!With
<1>7. Pending(w) = Size(NewEntry(w).value)
  BY <1>1 DEF Pending
<1> DEFINE old == IF Key(w) \in DOMAIN tree THEN Size(tree[Key(w)].value) ELSE 0
<1>8. old \in Nat /\ free \in Nat /\ Pending(w) \in Nat
  BY SizeIsNumber, Zenon DEF Pending, Zone, MemoryOK
<1>9. free' = free + old /\ Size(tree'[Key(w)].value) = Pending(w)
  BY <1>3, <1>6, <1>7 DEF Found
<1> HIDE DEF old
<1>10. free' \in Nat /\ free' + Pending(w) = free + Pending(w) + old
  BY <1>8, <1>9
<1>11. free' + Size(tree'[Key(w)].value) = free + Pending(w) + old
  BY <1>9, <1>10, Zenon
<1>12. pc[w] \notin {"idle", "lock"} /\ pc'[w] \notin {"idle", "lock", "link"}
  BY <1>1, <1>5
<1> QED
  BY <1>2, <1>3, <1>5, <1>6, <1>10, <1>11, <1>12, ZoneUses, Zenon DEF old

\* A call that finds what it is asked for.
LEMMA ZoneGets ==
  ASSUME IInv, IInv', Zone, AttemptsOK', NEW w \in Workers, Get(w), Found(w) PROVE Zone'
<1>1. CallTypeOK /\ CallsOK /\ pc[w] = "apply"
  BY DEF IInv, Get
<1>2. Key(w) \in Keys /\ Key(w) \in DOMAIN tree
  BY <1>1 DEF CallTypeOK, Found
<1>3. /\ lru' = <<Key(w)>> \o Drop(lru, Key(w)) /\ tree' = tree /\ free' = free
      /\ AnswerCall(w, KV!Answer("ok", tree[Key(w)].value)) /\ op[w].kind # "delete"
  BY DEF Get, TouchLocked
<1>4. KV!Answer("ok", tree[Key(w)].value).rc = "ok"
  BY DEF KV!Answer
<1>5. recent' = <<Key(w)>> \o Drop(recent, Key(w)) /\ pc'[w] = "unlock"
  BY <1>1, <1>3, <1>4, AnswerIsUse
<1>6. DOMAIN tree' = (DOMAIN tree) \cup {Key(w)}
      /\ \A x \in (DOMAIN tree) \ {Key(w)} : tree'[x] = tree[x]
  BY <1>2, <1>3
<1>7. Pending(w) = 0 /\ free \in Nat /\ free' \in Nat
  BY <1>1, <1>3 DEF Pending, Zone, MemoryOK
<1>8. free + 0 = free
  BY <1>7
<1>9. free' + Size(tree'[Key(w)].value) =
        free + Pending(w) + (IF Key(w) \in DOMAIN tree THEN Size(tree[Key(w)].value) ELSE 0)
  BY <1>2, <1>3, <1>7, <1>8, Zenon
<1>10. pc[w] \notin {"idle", "lock"} /\ pc'[w] \notin {"idle", "lock", "link"}
  BY <1>1, <1>5
<1> QED
  BY <1>2, <1>3, <1>5, <1>6, <1>7, <1>9, <1>10, ZoneUses, Zenon

\* Every step keeps the zone: no entry is queued twice or left behind, and no memory is lost.
LEMMA ZoneStep ==
  ASSUME IInv, IInv', Zone, [Next]_vars PROVE Zone'
<1>1. CallTypeOK /\ pc \in [Workers -> Points] /\ op \in [Workers -> KV!Calls \cup {KV!NoCall}]
  BY DEF IInv, CallTypeOK
<1>2. AttemptsOK'
  BY AttemptsStep DEF Zone
<1>3. ASSUME NEW w \in Workers, NEW p \in {"apply", "alloc"}, Proceed(w, p)
      PROVE  recent' = recent /\ pc'[w] = p
  BY <1>1, <1>3 DEF Proceed, Goto
<1>4. ASSUME NEW w \in Workers, NEW rc \in {"not found", "error"}, AnswerCall(w, KV!Nothing(rc))
      PROVE  recent' = recent /\ pc'[w] = "unlock"
  BY <1>1, <1>4, NothingSays, AnswerIsNoUse
<1>5. ASSUME NEW w \in Workers, Invoke(w) \/ Acquire(w) \/ Unlock(w) \/ UpdateTime(w)
      PROVE  Zone'
  <2>1. UNCHANGED <<zoneVars, recent>> /\ pc[w] # "link"
    BY <1>5, Zenon DEF Invoke, Acquire, Unlock, UpdateTime, zoneVars
  <2>2. pc'[w] # "link" /\ \A v \in Workers \ {w} : pc'[v] = pc[v] /\ op'[v] = op[v]
    BY <1>1, <1>5 DEF Invoke, Acquire, Unlock, UpdateTime, Goto
  <2> QED
    BY <1>2, <2>1, <2>2, ZoneAside
<1>6. ASSUME NEW w \in Workers, Lookup(w) PROVE Zone'
  <2>1. pc[w] = "lookup" /\ recent' = recent /\ pc'[w] = "apply"
    BY <1>3, <1>6 DEF Lookup
  <2>2. CASE UNCHANGED zoneVars
    BY <1>2, <2>1, <2>2, ZoneKept
  <2>3. CASE Found(w) /\ DeleteLocked(Key(w))
    BY <1>2, <2>1, <2>3, ZoneDeletes DEF Found
  <2> QED
    BY <1>6, <2>2, <2>3 DEF Lookup
<1>7. ASSUME NEW w \in Workers, Get(w) PROVE Zone'
  <2>1. CASE Found(w)
    BY <1>2, <1>7, <2>1, ZoneGets
  <2>2. CASE ~Found(w)
    <3>1. pc[w] = "apply" /\ recent' = recent /\ pc'[w] = "unlock" /\ UNCHANGED zoneVars
      BY <1>4, <1>7, <2>2 DEF Get
    <3> QED
      BY <1>2, <3>1, ZoneKept
  <2> QED
    BY <2>1, <2>2
<1>8. ASSUME NEW w \in Workers, Delete(w) PROVE Zone'
  <2>1. pc[w] = "apply" /\ recent' = recent /\ pc'[w] = "unlock"
    BY <1>1, <1>8, AnswerIsNoUse DEF Delete
  <2>2. CASE Found(w) /\ DeleteLocked(Key(w))
    BY <1>2, <2>1, <2>2, ZoneDeletes DEF Found
  <2>3. CASE UNCHANGED zoneVars
    BY <1>2, <2>1, <2>3, ZoneKept
  <2> QED
    BY <1>8, <2>2, <2>3 DEF Delete
<1>9. ASSUME NEW w \in Workers, Store(w) PROVE Zone'
  <2>1. CASE Refused(w)
    <3>1. pc[w] = "apply" /\ recent' = recent /\ pc'[w] = "unlock" /\ UNCHANGED zoneVars
      BY <1>4, <1>9, <2>1 DEF Store
    <3> QED
      BY <1>2, <3>1, ZoneKept
  <2>2. CASE ~Refused(w)
    BY <1>2, <1>9, <2>2, ZoneSetLocked DEF Store, KV!Writes, KV!Stores
  <2> QED
    BY <2>1, <2>2
<1>10. ASSUME NEW w \in Workers, Incr(w) PROVE Zone'
  <2> DEFINE counts == /\ Found(w) /\ tree[Key(w)].value # Text
                       /\ tree[Key(w)].value + op[w].delta \in KV!Ints
  <2>1. CASE ~counts
    <3>1. pc[w] = "apply" /\ recent' = recent /\ pc'[w] = "unlock" /\ UNCHANGED zoneVars
      BY <1>4, <1>10, <2>1 DEF Incr
    <3> QED
      BY <1>2, <3>1, ZoneKept
  <2>2. CASE counts
    BY <1>2, <1>10, <2>2, ZoneSetLocked DEF Incr, KV!Writes
  <2> QED
    BY <2>1, <2>2
<1>11. ASSUME NEW w \in Workers, Evict(w) PROVE Zone'
  <2>1. PICK i \in LastOf(Victims(w)) : DeleteLocked(lru[i])
    BY <1>11 DEF Evict
  <2>2. lru[i] \in DOMAIN tree
    BY <2>1 DEF LastOf, Victims, Zone, QueueOK, Range
  <2>3. pc[w] = "alloc" /\ recent' = recent /\ pc'[w] = "alloc"
    BY <1>3, <1>11 DEF Evict
  <2> QED
    BY <1>2, <2>1, <2>2, <2>3, ZoneDeletes
<1>12. ASSUME NEW w \in Workers, GiveUp(w) PROVE Zone'
  <2>1. pc[w] = "alloc" /\ recent' = recent /\ pc'[w] = "unlock" /\ UNCHANGED zoneVars
    BY <1>4, <1>12 DEF GiveUp
  <2> QED
    BY <1>2, <2>1, ZoneKept
<1>13. ASSUME NEW w \in Workers, Allocate(w) \/ Link(w) PROVE Zone'
  BY <1>2, <1>13, ZoneAllocates, ZoneLinks
<1>14. CASE UNCHANGED <<zoneVars, pc, op, attempts, recent>>
  <2>1. Allocated' = Allocated
    BY <1>14 DEF Allocated, NewEntry, Key, zoneVars
  <2> QED
    BY <1>2, <1>14, <2>1 DEF Zone, QueueOK, MemoryOK, UnitsIn, zoneVars
<1> QED
  BY <1>5, <1>6, <1>7, <1>8, <1>9, <1>10, <1>11, <1>12, <1>13, <1>14
  DEF Next, Holder, Tick, vars

\* Safety: the zone's invariant holds in every state.
THEOREM ZoneIsSound == Spec => []ZoneInv
<1>1. ZoneInv /\ [Next]_vars => ZoneInv'
  <2>1. ZoneInv /\ [Next]_vars => IInv' /\ Zone'
    BY ZoneMeans, NextIInv, ZoneStep
  <2>2. IInv' /\ Zone' => ZoneInv'
    BY ZoneMeans, PTL
  <2> QED
    BY <2>1, <2>2
<1> QED
  BY InitZone, <1>1, PTL DEF Spec

\* Types, for any memory and any number of workers, keys and calls: the slab never hands
\* out, or takes back, more than it has.
THEOREM TypeCorrect == Spec => []TypeOK
<1>1. ZoneInv => TypeOK
  BY DEF ZoneInv
<1> QED
  BY <1>1, ZoneIsSound, PTL

\* Whatever path takes an entry away, the queue holds every linked entry once and nothing
\* else, and all the memory is free, linked or in the hands of the one worker that stores.
THEOREM MemoryIsAccounted == Spec => []EntriesAccounted
<1>1. ZoneInv => EntriesAccounted
  BY DEF ZoneInv
<1> QED
  BY <1>1, ZoneIsSound, PTL

\* Where a key is in the history.
LEMMA PlaceIs ==
  ASSUME NEW s, NEW k \in Range(s) PROVE Place(s, k) \in DOMAIN s /\ s[Place(s, k)] = k
<1>1. \E i \in DOMAIN s : s[i] = k
  BY DEF Range
<1> QED
  BY <1>1, Zenon DEF Place

\* What an eviction takes is the least recently used.
LEMMA OldestStep ==
  ASSUME IInv, Zone, [Next]_vars, NEW w \in Workers, NEW k \in Keys,
         pc[w] = "alloc", k \in DOMAIN tree, k \notin DOMAIN tree'
  PROVE  /\ k # Key(w)
         /\ \A x \in DOMAIN tree' \ {Key(w)} : Place(recent, x) < Place(recent, k)
<1>1. LockMeansSection
  BY DEF IInv
<1>2. Evict(w)
  <2>1. \A v \in Workers \ {w} : pc[v] \in {"idle", "lock"}
    BY <1>1, Alone
  <2>2. tree' # tree
    OBVIOUS
  <2>3. ASSUME NEW v \in Workers, Invoke(v) \/ Acquire(v) \/ Holder(v) \/ UpdateTime(v)
        PROVE  v = w /\ Holder(w)
    <3>1. Holder(v)
      BY <2>2, <2>3, Zenon DEF Invoke, Acquire, UpdateTime, zoneVars
    <3>2. pc[v] \notin {"idle", "lock"}
      BY <3>1 DEF Holder, Lookup, Get, Delete, Store, Incr, Allocate, Evict, GiveUp, Link, Unlock
    <3> QED
      BY <2>1, <3>1, <3>2
  <2>4. Holder(w)
    BY <2>2, <2>3 DEF Next, Tick, vars, zoneVars
  <2>5. ~Allocate(w) /\ ~GiveUp(w)
    BY <2>2 DEF Allocate, GiveUp, zoneVars
  <2> QED
    BY <2>4, <2>5 DEF Holder, Lookup, Get, Delete, Store, Incr, Link, Unlock
<1>3. PICK i \in LastOf(Victims(w)) : tree' = KV!Without(lru[i])
  BY <1>2 DEF Evict, DeleteLocked
<1>4. k = lru[i] /\ DOMAIN tree' = (DOMAIN tree) \ {k}
  BY <1>3 DEF KV!Without
<1>5. i \in DOMAIN lru /\ lru[i] # Key(w) /\ \A j \in DOMAIN lru : lru[j] # Key(w) => j <= i
  BY <1>3 DEF LastOf, Victims
<1>6. /\ lru \in Seq(Keys) /\ OnceEach(lru) /\ Range(lru) = DOMAIN tree
      /\ Range(lru) \subseteq Range(recent) /\ Agree(lru, recent)
  BY DEF Zone, QueueOK
<1>7. ASSUME NEW x \in DOMAIN tree', x # Key(w)
      PROVE  Place(recent, x) < Place(recent, k)
  <2>1. PICK j \in DOMAIN lru : lru[j] = x
    BY <1>4, <1>6 DEF Range
  <2>2. j <= i /\ j # i
    BY <1>4, <1>5, <1>7, <2>1
  <2>3. i \in Nat /\ j \in Nat
    <3>1. DOMAIN lru = 1..Len(lru) /\ Len(lru) \in Nat
      BY <1>6, LenProperties
    <3> QED
      BY <1>5, <3>1
  <2>4. j < i
    BY <2>2, <2>3
  <2>5. x \in Range(recent) /\ k \in Range(recent)
    BY <1>4, <1>6
  <2>6. /\ Place(recent, x) \in DOMAIN recent /\ recent[Place(recent, x)] = x
        /\ Place(recent, k) \in DOMAIN recent /\ recent[Place(recent, k)] = k
    BY <2>5, PlaceIs
  <2>7. \A p, q \in DOMAIN lru, a, b \in DOMAIN recent :
          lru[p] = recent[a] /\ lru[q] = recent[b] /\ p < q => a < b
    BY <1>6 DEF Agree
  <2> QED
    BY <1>4, <1>5, <2>1, <2>4, <2>6, <2>7, Zenon
<1> QED
  BY <1>4, <1>5, <1>7

\* Under memory pressure the dictionary forgets the entry that no worker has used for the
\* longest time, and never the one that is being replaced.
THEOREM OldestIsEvicted == Spec => EvictsOldest
<1> DEFINE Oldest ==
      \A w \in Workers, k \in Keys :
        pc[w] = "alloc" /\ k \in DOMAIN tree /\ k \notin DOMAIN tree' =>
          /\ k # Key(w)
          /\ \A x \in DOMAIN tree' \ {Key(w)} : Place(recent, x) < Place(recent, k)
<1>1. ZoneInv /\ [Next]_vars => [Oldest]_vars
  <2>1. ZoneInv => IInv /\ Zone
    BY ZoneMeans
  <2> QED
    BY <2>1, OldestStep
<1>2. Spec => [][Oldest]_vars
  BY <1>1, ZoneIsSound, PTL DEF Spec
<1> QED
  BY <1>2 DEF EvictsOldest
=============================================================================
