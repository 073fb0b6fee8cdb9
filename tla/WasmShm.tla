------------------------------- MODULE WasmShm -------------------------------
(***************************************************************************)
(* The shared-memory dictionary: one nginx slab zone with a red-black tree *)
(* and an LRU queue under one mutex, used by every worker through the      *)
(* ngx_wasm_shm_* host functions.                                          *)
(*                                                                         *)
(* Keys and values are abstract.  The tree is a function from the keys it  *)
(* holds to their entries (that its search finds what was inserted is the  *)
(* subject of ShmTree); the queue is a sequence of keys, the head first.   *)
(* A value is a number, which incr can parse, or Text.  The slab allocator *)
(* is external: an allocation never exceeds the free memory, and it may    *)
(* fail though there is enough (fragmentation).                            *)
(***************************************************************************)
EXTENDS Integers, Sequences, SequencesExt

CONSTANTS
  Workers, Keys, NoWorker,
  Text, MinInt, MaxInt,
  Capacity,            \* memory of the zone, in units of Size
  MaxAttempts,         \* evictions an allocation may try (32 in the code)
  Ttls,                \* ttl_msec arguments of set_ex
  StoredValues,        \* value arguments of the stores
  Deltas,              \* arguments of incr
  MaxTime, MaxCalls    \* bounds: the last moment, and the calls altogether

ASSUME ShmAssumption ==
  /\ NoWorker \notin Workers
  /\ MinInt \in Int /\ MaxInt \in Int /\ MinInt <= MaxInt
  /\ Capacity \in Nat /\ MaxAttempts \in Nat
  /\ Ttls \subseteq Nat /\ Deltas \subseteq Int
  /\ StoredValues \subseteq (MinInt..MaxInt) \cup {Text}
  /\ MaxTime \in Nat /\ MaxCalls \in Nat

VARIABLES
  tree,       \* sh->rbtree: the entries that are linked
  lru,        \* sh->lru_queue
  lock,       \* shpool->mutex: its owner, or NoWorker
  free,       \* memory the slab has left
  pc,         \* where each worker is
  op,         \* the arguments of its call
  attempts,   \* the loop counter of alloc_node
  reply,      \* what it is about to return
  now, clock, \* the time, and ngx_current_msec of each worker
  calls,      \* calls made so far (bounded by MaxCalls)
  recent      \* history: the keys in the order of their last use, latest first

zoneVars == <<tree, lru, free>>
timeVars == <<now, clock>>
vars == <<zoneVars, lock, pc, op, attempts, reply, timeVars, calls, recent>>

KV == INSTANCE SharedKV WITH
  kv    <- tree,
  phase <- [w \in Workers |-> 
              IF pc[w] = "idle" THEN "idle"
              ELSE IF pc[w] = "unlock" THEN "answered" ELSE "called"]

Points == {"idle", "lock", "lookup", "apply", "alloc", "link", "unlock"}

\* The memory a value takes, as far as it can differ between two values of a
\* key: the bounds keep numbers to one digit, so only the sign counts.
Size(v) == IF v = Text THEN 1 ELSE IF v < 0 THEN 2 ELSE 1

Init ==
  /\ tree = [k \in {} |-> 0] /\ lru = <<>> /\ free = Capacity
  /\ lock = NoWorker
  /\ pc = [w \in Workers |-> "idle"]
  /\ op = [w \in Workers |-> KV!NoCall]
  /\ attempts = [w \in Workers |-> 0]
  /\ reply = [w \in Workers |-> KV!Nothing("none")]
  /\ now = 0 /\ clock = [w \in Workers |-> 0]
  /\ calls = 0
  /\ recent = <<>>

-----------------------------------------------------------------------------
(* The helpers that work on the zone, all called with the mutex held.      *)

Key(w) == op[w].key

\* ngx_http_wasm_shm_lookup.  The tree is a function of the keys here, as it is for keys
\* of which no two are in conflict; ShmTree has the two comparisons of the code, and
\* says which colliding keys are.
Found(w) == Key(w) \in DOMAIN tree

\* Off by one: an entry is served in the millisecond it expires.
IsExpiredMutant(k, t) == tree[k].expires # 0 /\ t > tree[k].expires

\* ngx_http_wasm_shm_is_expired
IsExpired(k, t) == tree[k].expires # 0 /\ t >= tree[k].expires

\* A key is taken out of a sequence that holds it once, or not at all.
Place(s, k) == CHOOSE i \in DOMAIN s : s[i] = k
Drop(s, k) == IF Contains(s, k) THEN RemoveAt(s, Place(s, k)) ELSE s

\* The queue still holds the entry.
DanglingMutant(k) ==
  tree' = KV!Without(k) /\ UNCHANGED lru /\ free' = free + Size(tree[k].value)

\* ngx_http_wasm_shm_delete_locked
DeleteLocked(k) ==
  tree' = KV!Without(k) /\ lru' = Drop(lru, k) /\ free' = free + Size(tree[k].value)

\* The entry stays where it is in the queue.
TouchMutant(k) == UNCHANGED lru

\* ngx_http_wasm_shm_touch_locked
TouchLocked(k) == lru' = <<k>> \o Drop(lru, k)

\* The places in the queue ngx_http_wasm_shm_evict_lru_locked may pick from:
\* all but that of the entry that is being replaced.
Victims(w) == {i \in DOMAIN lru : lru[i] # Key(w)}

\* The one it picks, if there is one: the tail is the oldest.
LastOf(places) == {i \in places : \A j \in places : j <= i}

-----------------------------------------------------------------------------
(* A call, from the host function to its return.                           *)

Goto(w, point) == pc' = [pc EXCEPT ![w] = point]

\* The return leaves the mutex locked.
AnswerMutant(w, answer) ==
  /\ reply' = [reply EXCEPT ![w] = answer]
  /\ Goto(w, "idle")
  /\ UNCHANGED <<lock, op, attempts, timeVars, calls, recent>>

\* The call has its result and goes on to release the mutex.
AnswerCall(w, answer) ==
  /\ reply' = [reply EXCEPT ![w] = answer]
  /\ Goto(w, "unlock")
  /\ recent' = IF answer.rc = "ok" /\ op[w].kind # "delete"
               THEN <<Key(w)>> \o Drop(recent, Key(w)) ELSE recent
  /\ UNCHANGED <<lock, op, attempts, timeVars, calls>>

Proceed(w, point) ==
  Goto(w, point) /\ UNCHANGED <<lock, op, reply, timeVars, calls, recent>>

\* The arguments pass (ngx_http_wasm_shm_key_valid and the bounds on the value
\* and the delta; a call with others returns an error here and touches
\* nothing).  set_ex computes the time of expiry from the worker's clock before
\* it asks for the mutex; a ttl of 0 means never, as in set.
Arguments(w) ==
  {KV!Call(kind, k, Text, 0, 0) : kind \in {"get", "delete"}, k \in Keys}
  \cup {KV!Call("incr", k, Text, 0, d) : k \in Keys, d \in Deltas}
  \cup {KV!Call(kind, k, v, 0, 0) :
          kind \in {"add", "replace"}, k \in Keys, v \in StoredValues}
  \cup {KV!Call("set", k, v, IF t = 0 THEN 0 ELSE clock[w] + t, 0) :
          k \in Keys, v \in StoredValues, t \in Ttls}

Invoke(w) ==
  /\ pc[w] = "idle" /\ calls < MaxCalls
  /\ calls' = calls + 1
  /\ \E c \in Arguments(w) : op' = [op EXCEPT ![w] = c]
  /\ Goto(w, "lock")
  /\ UNCHANGED <<zoneVars, lock, attempts, reply, timeVars, recent>>

\* ngx_shmtx_lock
Acquire(w) ==
  /\ pc[w] = "lock" /\ lock = NoWorker
  /\ lock' = w
  /\ Goto(w, "lookup")
  /\ UNCHANGED <<zoneVars, op, attempts, reply, timeVars, calls, recent>>

\* The key is looked up, and purged when it has expired; delete does not ask.
Lookup(w) ==
  /\ pc[w] = "lookup"
  /\ IF op[w].kind # "delete" /\ Found(w) /\ IsExpired(Key(w), clock[w])
     THEN DeleteLocked(Key(w))
     ELSE UNCHANGED zoneVars
  /\ Proceed(w, "apply") /\ UNCHANGED attempts

\* ngx_http_wasm_shm_get and _exists
Get(w) ==
  /\ pc[w] = "apply" /\ op[w].kind = "get"
  /\ IF Found(w)
     THEN /\ TouchLocked(Key(w)) /\ UNCHANGED <<tree, free>>
          /\ AnswerCall(w, KV!Answer("ok", tree[Key(w)].value))
     ELSE AnswerCall(w, KV!Nothing("not found")) /\ UNCHANGED zoneVars

\* ngx_http_wasm_shm_delete
Delete(w) ==
  /\ pc[w] = "apply" /\ op[w].kind = "delete"
  /\ IF Found(w) THEN DeleteLocked(Key(w)) ELSE UNCHANGED zoneVars
  /\ AnswerCall(w, KV!Nothing("ok"))

\* What the call stores, and what it then returns.
NewEntry(w) ==
  IF op[w].kind = "incr"
  THEN [tree[Key(w)] EXCEPT !.value = @ + op[w].delta]
  ELSE [value |-> op[w].value, expires |-> op[w].expires]
Stored(w) == IF op[w].kind = "incr" THEN KV!Answer("ok", NewEntry(w).value)
                                    ELSE KV!Nothing("ok")

\* ngx_http_wasm_shm_set_locked: in place when the length does not change,
\* else a new entry has to be allocated.
SetLocked(w) ==
  IF Found(w) /\ Size(tree[Key(w)].value) = Size(NewEntry(w).value)
  THEN /\ tree' = [tree EXCEPT ![Key(w)] = NewEntry(w)]
       /\ TouchLocked(Key(w)) /\ UNCHANGED <<free, attempts>>
       /\ AnswerCall(w, Stored(w))
  ELSE Proceed(w, "alloc") /\ UNCHANGED <<zoneVars, attempts>>

\* require_missing and require_exists
Refused(w) == \/ op[w].kind = "add" /\ Found(w)
              \/ op[w].kind = "replace" /\ ~Found(w)

\* ngx_http_wasm_shm_set, _set_ex, _add and _replace
Store(w) ==
  /\ pc[w] = "apply" /\ op[w].kind \in KV!Stores
  /\ IF Refused(w)
     THEN AnswerCall(w, KV!Nothing("not found")) /\ UNCHANGED zoneVars
     ELSE SetLocked(w)

\* ngx_http_wasm_shm_incr
Incr(w) ==
  /\ pc[w] = "apply" /\ op[w].kind = "incr"
  /\ IF Found(w) /\ tree[Key(w)].value # Text
        /\ tree[Key(w)].value + op[w].delta \in KV!Ints
     THEN SetLocked(w)
     ELSE AnswerCall(w, KV!Nothing("error")) /\ UNCHANGED zoneVars

\* One turn of the loop of ngx_http_wasm_shm_alloc_node.
Allocate(w) ==
  /\ pc[w] = "alloc" /\ attempts[w] < MaxAttempts
  /\ Size(NewEntry(w).value) <= free
  /\ free' = free - Size(NewEntry(w).value)
  /\ Proceed(w, "link")
  /\ UNCHANGED <<tree, lru, attempts>>

\* The slab has no room, or none in one piece.
Evict(w) ==
  /\ pc[w] = "alloc" /\ attempts[w] < MaxAttempts
  /\ \E i \in LastOf(Victims(w)) : DeleteLocked(lru[i])
  /\ attempts' = [attempts EXCEPT ![w] = @ + 1]
  /\ Proceed(w, "alloc")

\* The loop is over, or there is nothing left to evict.
GiveUp(w) ==
  /\ pc[w] = "alloc"
  /\ attempts[w] = MaxAttempts \/ Victims(w) = {}
  /\ AnswerCall(w, KV!Nothing("error"))
  /\ UNCHANGED zoneVars

\* The new entry takes the place of the old one.
Link(w) ==
  /\ pc[w] = "link"
  /\ tree' = KV!With(Key(w), NewEntry(w).value, NewEntry(w).expires)
  /\ lru' = <<Key(w)>> \o Drop(lru, Key(w))
  /\ free' = free + (IF Found(w) THEN Size(tree[Key(w)].value) ELSE 0)
  /\ AnswerCall(w, Stored(w))

\* ngx_shmtx_unlock; the locals of the call are gone.
Unlock(w) ==
  /\ pc[w] = "unlock"
  /\ lock' = NoWorker
  /\ Goto(w, "idle")
  /\ op' = [op EXCEPT ![w] = KV!NoCall]
  /\ attempts' = [attempts EXCEPT ![w] = 0]
  /\ reply' = [reply EXCEPT ![w] = KV!Nothing("none")]
  /\ UNCHANGED <<zoneVars, timeVars, calls, recent>>

\* Time passes; a worker notices between two calls (ngx_time_update).
Tick ==
  /\ now < MaxTime /\ now' = now + 1
  /\ UNCHANGED <<zoneVars, lock, pc, op, attempts, reply, clock, calls, recent>>

UpdateTime(w) ==
  /\ pc[w] = "idle" /\ clock[w] < now
  /\ clock' = [clock EXCEPT ![w] = now]
  /\ UNCHANGED <<zoneVars, lock, pc, op, attempts, reply, now, calls, recent>>

Holder(w) ==
  \/ Lookup(w) \/ Get(w) \/ Delete(w) \/ Store(w) \/ Incr(w)
  \/ Allocate(w) \/ Evict(w) \/ GiveUp(w) \/ Link(w) \/ Unlock(w)

Next ==
  \/ \E w \in Workers : Invoke(w) \/ Acquire(w) \/ Holder(w) \/ UpdateTime(w)
  \/ Tick

Spec == Init /\ [][Next]_vars

-----------------------------------------------------------------------------
(* What must hold.                                                         *)

\* Types of the tree and of the calls.
CallTypeOK ==
  /\ DOMAIN tree \subseteq Keys
  /\ tree \in [DOMAIN tree -> [value : KV!Values, expires : Nat]]
  /\ lock \in Workers \cup {NoWorker}
  /\ pc \in [Workers -> Points]
  /\ op \in [Workers -> KV!Calls \cup {KV!NoCall}]
  /\ reply \in [Workers -> [rc : {"none", "ok", "not found", "error"}, value : KV!Values]]
  /\ now \in 0..MaxTime /\ clock \in [Workers -> 0..MaxTime]
  /\ calls \in 0..MaxCalls

\* Types: the entries, queue, counters and replies have the range the code
\* gives them; the slab never hands out, or takes back, more than it has.
TypeOK ==
  /\ CallTypeOK
  /\ lru \in Seq(Keys) /\ recent \in Seq(Keys)
  /\ free \in 0..Capacity
  /\ attempts \in [Workers -> 0..MaxAttempts]

OnceEach(s) == \A i, j \in DOMAIN s : s[i] = s[j] => i = j

\* The units of memory of the linked entries, and of those that a worker has
\* allocated and not linked yet.
Linked == {m \in (DOMAIN tree) \X {1, 2} : m[2] <= Size(tree[m[1]].value)}
Allocated ==
  {m \in Workers \X {1, 2} : pc[m[1]] = "link" /\ m[2] <= Size(NewEntry(m[1]).value)}

\* Whichever of the paths (purge, delete, eviction, replacement) took entries
\* away, the queue holds each linked entry exactly once and nothing else: one
\* left in the queue would be evicted, and freed, a second time.  And no slab
\* memory is lost: what is not free belongs to a linked entry, or to the one
\* entry a worker has allocated and not linked yet.
EntriesAccounted ==
  /\ OnceEach(lru)
  /\ Range(lru) = DOMAIN tree
  /\ free + Cardinality(Linked) + Cardinality(Allocated) = Capacity

\* A store that needs memory takes it from the entry whose last use is the
\* longest ago, by any worker, and never from the entry it is about to
\* replace: every entry that stays, that one apart, was used more recently.
EvictsOldest ==
  [][\A w \in Workers, k \in Keys :
       pc[w] = "alloc" /\ k \in DOMAIN tree /\ k \notin DOMAIN tree' =>
         /\ k # Key(w)
         /\ \A x \in DOMAIN tree' \ {Key(w)} : Place(recent, x) < Place(recent, k)]_vars

\* The mutex has an owner exactly while a worker is in a section: never two at
\* once, and every early return of the host functions, and every outcome of the
\* allocation loop, has gone through the unlock.
LockMeansSection == \A w \in Workers : lock = w <=> pc[w] \notin {"idle", "lock"}

\* What the guests of all the workers see is a linearizable map that forgets
\* only expired entries, or entries whose memory another store needed
\* (SharedKV): lookup, purge, test, eviction and insertion act as one step.
ImplementsKV == KV!Spec

\* What makes the last two inductive.  A call knows its arguments; once the entry
\* of its key was looked up it is not expired, and while memory is sought for a
\* store, what made the store admissible still holds.
CallsOK ==
  \A w \in Workers :
    /\ pc[w] # "idle" => op[w] \in KV!Calls
    /\ pc[w] \in {"apply", "alloc", "link"} /\ op[w].kind # "delete" /\ Found(w) =>
         ~IsExpired(Key(w), clock[w])
    /\ pc[w] \in {"alloc", "link"} =>
         /\ op[w].kind \in KV!Writes /\ ~Refused(w)
         /\ op[w].kind = "incr" =>
              /\ Found(w) /\ tree[Key(w)].value # Text
              /\ tree[Key(w)].value + op[w].delta \in KV!Ints

IInv == CallTypeOK /\ LockMeansSection /\ CallsOK

\* What makes the queue one of the last uses: it has the keys it holds in the order
\* of the history.
Agree(s, t) ==
  \A i, j \in DOMAIN s, a, b \in DOMAIN t :
    s[i] = t[a] /\ s[j] = t[b] /\ i < j => a < b
UseOrder == OnceEach(recent) /\ Range(lru) \subseteq Range(recent) /\ Agree(lru, recent)

ZoneInv == IInv /\ TypeOK /\ EntriesAccounted /\ UseOrder
=============================================================================
