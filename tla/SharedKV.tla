------------------------------ MODULE SharedKV ------------------------------
(***************************************************************************)
(* What the shared-memory dictionary promises to the guests of all the     *)
(* workers: every host call takes effect at once, at some moment between   *)
(* its start and its return, on a map from keys to values that may expire. *)
(* It is a cache: an entry may also be forgotten, but only once it has     *)
(* expired or while the store of another key needs its memory; and a store *)
(* that fails for want of memory leaves its own key as it was.             *)
(*                                                                         *)
(* Expiry is judged by the clock of the worker that makes the call, which  *)
(* nginx caches and which may lag behind the others.                       *)
(***************************************************************************)
EXTENDS Integers

CONSTANTS
  Workers, Keys,
  Text,               \* a value that is not a decimal number
  MinInt, MaxInt      \* the range of int32_t

Ints == MinInt..MaxInt
Values == Ints \cup {Text}

\* The calls.  A number in "expires" is a moment; 0 means never.  get stands
\* for exists as well.
Stores == {"set", "add", "replace"}
Writes == Stores \cup {"incr"}
Calls == [kind : Writes \cup {"get", "delete"}, key : Keys, value : Values,
          expires : Nat, delta : Int]

Call(kind, k, v, e, d) ==
  [kind |-> kind, key |-> k, value |-> v, expires |-> e, delta |-> d]
NoCall == [kind |-> "none"]

Answer(rc, v) == [rc |-> rc, value |-> v]
Nothing(rc) == Answer(rc, Text)

VARIABLES
  kv,                 \* the map: from a subset of Keys to entries
  op,                 \* the call each worker is in
  phase,              \* "idle", "called" or "answered"
  reply,              \* what it returns
  clock               \* ngx_current_msec of each worker

kvVars == <<kv, op, phase, reply, clock>>

Expired(k, t) == kv[k].expires # 0 /\ t >= kv[k].expires
Live(k, t) == k \in DOMAIN kv /\ ~Expired(k, t)

Without(k) == [x \in DOMAIN kv \ {k} |-> kv[x]]
With(k, v, e) ==
  [x \in DOMAIN kv \cup {k} |->
     IF x = k THEN [value |-> v, expires |-> e] ELSE kv[x]]

Idle(w) == phase[w] = "idle"

Init ==
  /\ kv = [k \in {} |-> 0]
  /\ phase = [w \in Workers |-> "idle"]
  /\ reply = [w \in Workers |-> Nothing("none")]
  /\ clock = [w \in Workers |-> 0]
  /\ op = [w \in Workers |-> NoCall]

\* A guest of w makes a call.
Invoke(w) ==
  /\ Idle(w)
  /\ op'[w] \in Calls
  /\ op' = [op EXCEPT ![w] = op'[w]]
  /\ phase' = [phase EXCEPT ![w] = "called"]
  /\ UNCHANGED <<kv, reply, clock>>

\* The call of w takes effect, with the answer r.
Answered(w, r) ==
  /\ phase' = [phase EXCEPT ![w] = "answered"]
  /\ reply' = [reply EXCEPT ![w] = r]
  /\ UNCHANGED <<op, clock>>

\* The guest has the answer.
Return(w) ==
  /\ phase[w] = "answered"
  /\ phase' = [phase EXCEPT ![w] = "idle"]
  /\ op' = [op EXCEPT ![w] = NoCall]
  /\ reply' = [reply EXCEPT ![w] = Nothing("none")]
  /\ UNCHANGED <<kv, clock>>

Get(w) ==
  LET c == op[w] IN
  /\ c.kind = "get"
  /\ Answered(w, IF Live(c.key, clock[w])
               THEN Answer("ok", kv[c.key].value) ELSE Nothing("not found"))
  /\ UNCHANGED kv

\* set always stores; add needs the key to be missing, replace to be there.
Refused(w) ==
  \/ op[w].kind = "add" /\ Live(op[w].key, clock[w])
  \/ op[w].kind = "replace" /\ ~Live(op[w].key, clock[w])

Store(w) ==
  LET c == op[w] IN
  /\ c.kind \in Stores
  /\ IF Refused(w)
     THEN Answered(w, Nothing("not found")) /\ UNCHANGED kv
     ELSE Answered(w, Nothing("ok")) /\ kv' = With(c.key, c.value, c.expires)

Delete(w) ==
  /\ op[w].kind = "delete"
  /\ Answered(w, Nothing("ok"))
  /\ kv' = Without(op[w].key)

\* The sum replaces the number, which keeps its time of expiry.
Incr(w) ==
  LET c == op[w]
      countable == Live(c.key, clock[w]) /\ kv[c.key].value # Text
  IN
  /\ c.kind = "incr"
  /\ IF countable /\ kv[c.key].value + c.delta \in Ints
     THEN /\ Answered(w, Answer("ok", kv[c.key].value + c.delta))
          /\ kv' = With(c.key, kv[c.key].value + c.delta, kv[c.key].expires)
     ELSE Answered(w, Nothing("error")) /\ UNCHANGED kv

\* There is no memory for the value.
NoRoom(w) ==
  /\ op[w].kind \in Writes
  /\ Answered(w, Nothing("error"))
  /\ UNCHANGED kv

Commit(w) ==
  phase[w] = "called" /\ (Get(w) \/ Store(w) \/ Delete(w) \/ Incr(w) \/ NoRoom(w))

\* An entry is forgotten.
Forget(k) ==
  /\ k \in DOMAIN kv
  /\ \E w \in Workers :
       /\ phase[w] = "called"
       /\ Expired(k, clock[w]) \/ (op[w].kind \in Writes /\ op[w].key # k)
  /\ kv' = Without(k)
  /\ UNCHANGED <<op, phase, reply, clock>>

\* A worker reads the time between two calls.
UpdateTime(w) ==
  /\ Idle(w)
  /\ clock'[w] >= clock[w]
  /\ clock' = [clock EXCEPT ![w] = clock'[w]]
  /\ UNCHANGED <<kv, op, phase, reply>>

Next ==
  \/ \E w \in Workers : Invoke(w) \/ Commit(w) \/ Return(w) \/ UpdateTime(w)
  \/ \E k \in Keys : Forget(k)

Spec == Init /\ [][Next]_kvVars
=============================================================================
