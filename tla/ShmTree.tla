------------------------------- MODULE ShmTree -------------------------------
(***************************************************************************)
(* The search tree of the shared-memory dictionary.  Entries are ordered   *)
(* by the crc32 of their key and, where two keys collide, by the key; the  *)
(* code compares colliding keys in two places, once to insert and once to  *)
(* look up.                                                                *)
(*                                                                         *)
(* nginx's red-black tree is external: it rebalances the tree as it likes  *)
(* and keeps the entries in order.  So the tree is the sequence of its     *)
(* keys from left to right, a subtree is a stretch of it, and a descent    *)
(* may find any node of the stretch at its root.  A descent takes a step   *)
(* per node.  The mutex is held from Lookup to Return, Delete or Link, so  *)
(* there is one at a time; an increment looks its key up twice, which is   *)
(* two calls here.                                                         *)
(*                                                                         *)
(* The two comparisons are not the same order.  Of two keys with one crc32 *)
(* the insertion puts the shorter to the left, the search looks for the    *)
(* smaller there, and a pair of which the longer is the smaller is in      *)
(* conflict: what is linked may then not be found.                         *)
(***************************************************************************)
EXTENDS Integers, Sequences, SequencesExt

CONSTANTS
  Keys,               \* byte strings: sequences of numbers
  Hash(_),            \* ngx_crc32_short
  Capacity            \* entries that the memory of the zone holds

ASSUME KeysAssumption ==
  \A k \in Keys : k \in Seq(0..255) /\ k # <<>> /\ Hash(k) \in Nat

ASSUME CapacityAssumption == Capacity \in Nat

VARIABLES
  tree,
  phase,    \* "idle", in the loop of "lookup" or of "insert", or between them with
            \* the entry "found" or "absent"
  key,      \* of the call that holds the mutex; <<>> when it is free
  lo, hi    \* the stretch that is left to search; the entry that was found

vars == <<tree, phase, key, lo, hi>>

Init == tree = <<>> /\ phase = "idle" /\ key = <<>> /\ lo = 1 /\ hi = 0

\* memcmp of the first n bytes, as -1, 0 or 1.
Compare(a, b, n) ==
  LET differ == {i \in 1..n : a[i] # b[i]}
      first == CHOOSE i \in differ : \A j \in differ : i <= j
  IN IF differ = {} THEN 0 ELSE IF a[first] < b[first] THEN -1 ELSE 1

\* ngx_memn2cmp
Memn2cmp(a, b) ==
  LET m == Compare(a, b, IF Len(a) <= Len(b) THEN Len(a) ELSE Len(b)) IN
  IF m # 0 \/ Len(a) = Len(b) THEN m ELSE IF Len(a) < Len(b) THEN -1 ELSE 1

\* Colliding keys of the same length are taken for equal.
GoesLeftMutant(k, t) ==
  IF Hash(k) # Hash(t) THEN Hash(k) < Hash(t) ELSE Len(k) < Len(t)

\* ngx_http_wasm_shm_rbtree_insert_value: does k go to the left of t?
GoesLeft(k, t) ==
  IF Hash(k) # Hash(t) THEN Hash(k) < Hash(t)
  ELSE IF Len(k) # Len(t) THEN Len(k) < Len(t)
  ELSE Memn2cmp(k, t) < 0

\* ngx_http_wasm_shm_lookup: is k looked for to the left of t?
LooksLeft(k, t) ==
  IF Hash(k) # Hash(t) THEN Hash(k) < Hash(t) ELSE Memn2cmp(k, t) < 0

\* Of two keys with one crc32 the shorter is the greater, so that the two go different
\* ways.
InConflict(k, t) ==
  /\ Hash(k) = Hash(t)
  /\ \/ Len(k) < Len(t) /\ Memn2cmp(k, t) > 0
     \/ Len(t) < Len(k) /\ Memn2cmp(k, t) < 0

\* The key is in conflict with no other.
Peaceful(k) == \A t \in Keys : ~InConflict(k, t)

-----------------------------------------------------------------------------
\* A descent begins at the root, and goes on to the left or the right of node i.
Descend(how) == phase' = how /\ lo' = 1 /\ hi' = Len(tree)
Left(i) == hi' = i - 1 /\ UNCHANGED lo
Right(i) == lo' = i + 1 /\ UNCHANGED hi

\* The call has its answer, and gives up the mutex.
Unlock == phase' = "idle" /\ key' = <<>> /\ lo' = 1 /\ hi' = 0

\* A call locks the mutex and looks its key up.
Lookup(k) ==
  /\ phase = "idle"
  /\ key' = k /\ Descend("lookup")
  /\ UNCHANGED tree

LookupVisits ==
  /\ phase = "lookup"
  /\ \E i \in lo..hi :
       \/ /\ Hash(key) = Hash(tree[i]) /\ Memn2cmp(key, tree[i]) = 0
          /\ phase' = "found" /\ lo' = i /\ hi' = i
       \/ LooksLeft(key, tree[i]) /\ Left(i) /\ UNCHANGED phase
       \/ /\ ~LooksLeft(key, tree[i])
          /\ Hash(key) # Hash(tree[i]) \/ Memn2cmp(key, tree[i]) # 0
          /\ Right(i) /\ UNCHANGED phase
  /\ UNCHANGED <<tree, key>>

LookupMisses ==
  /\ phase = "lookup" /\ lo > hi
  /\ phase' = "absent"
  /\ UNCHANGED <<tree, key, lo, hi>>

\* The call unlocks the mutex: it has its answer, or there is no memory.
Return ==
  /\ phase \in {"found", "absent"}
  /\ Unlock /\ UNCHANGED tree

\* The entry is deleted, or has expired; a store takes an expired one for absent, and
\* puts one of another size in the place of one that is there.
Delete ==
  /\ phase = "found"
  /\ tree' = RemoveAt(tree, lo)
  /\ \/ Unlock
     \/ phase' = "absent" /\ UNCHANGED <<key, lo, hi>>

\* A store needs memory: any entry may be the oldest, but the one it replaces stays.
Evict ==
  /\ phase \in {"found", "absent"}
  /\ \E i \in DOMAIN tree :
       /\ phase = "found" => i # lo
       /\ tree' = RemoveAt(tree, i)
       /\ IF phase = "found" /\ i < lo
          THEN lo' = lo - 1 /\ hi' = hi - 1
          ELSE UNCHANGED <<lo, hi>>
  /\ UNCHANGED <<phase, key>>

\* The store has memory for its entry, and links it.
Insert ==
  /\ phase = "absent" /\ Len(tree) < Capacity
  /\ Descend("insert")
  /\ UNCHANGED <<tree, key>>

InsertVisits ==
  /\ phase = "insert"
  /\ \E i \in lo..hi :
       \/ GoesLeft(key, tree[i]) /\ Left(i)
       \/ ~GoesLeft(key, tree[i]) /\ Right(i)
  /\ UNCHANGED <<tree, phase, key>>

Link ==
  /\ phase = "insert" /\ lo > hi
  /\ tree' = InsertAt(tree, lo, key)
  /\ Unlock

Next ==
  \/ \E k \in Keys : Lookup(k)
  \/ LookupVisits \/ LookupMisses \/ Return \/ Delete \/ Evict
  \/ Insert \/ InsertVisits \/ Link

Spec == Init /\ [][Next]_vars

-----------------------------------------------------------------------------
\* Whatever the shape of the tree, a search takes no other entry for that of its key,
\* and where it ends without an answer the key is not linked, unless it is in conflict
\* with a linked key; and no key is linked twice, unless it is in conflict with one of
\* the keys in use.  So the comparisons of ngx_http_wasm_shm_lookup and of
\* ngx_http_wasm_shm_rbtree_insert_value lose entries for no other pair of keys.  For
\* those they do: an entry of such a key is not found and is linked again, and a delete
\* may then bring back the value of the earlier store.
LinkedIsFound ==
  /\ phase = "found" => tree[lo] = key
  /\ \A i \in DOMAIN tree : phase = "lookup" /\ lo > hi /\ tree[i] = key =>
       \E j \in DOMAIN tree : InConflict(key, tree[j])
  /\ \A i, j \in DOMAIN tree : tree[i] = tree[j] /\ i # j => ~Peaceful(tree[i])

\* What makes LinkedIsFound inductive.  Types; a stretch is one of the tree.
TypeOK ==
  /\ tree \in Seq(Keys)
  /\ phase \in {"idle", "lookup", "found", "absent", "insert"}
  /\ key \in Keys \cup {<<>>} /\ (phase # "idle" => key \in Keys)
  /\ lo \in Nat /\ hi \in Nat
  /\ phase \in {"lookup", "insert"} => 1 <= lo /\ lo <= hi + 1 /\ hi <= Len(tree)
  /\ phase = "found" => lo \in DOMAIN tree /\ hi = lo

\* The tree is in the order of the insertion.
Sorted == \A i, j \in DOMAIN tree : i < j => ~GoesLeft(tree[j], tree[i])

\* An insertion leaves behind only what is on the other side of its key.
InsertNarrowed ==
  phase = "insert" =>
    \A i \in DOMAIN tree :
      (i < lo => ~GoesLeft(key, tree[i])) /\ (i > hi => GoesLeft(key, tree[i]))

\* A search does not leave its key behind, if no linked key is in conflict with it.
LookupNarrowed ==
  phase = "lookup" /\ (\A j \in DOMAIN tree : ~InConflict(key, tree[j])) =>
    \A i \in DOMAIN tree : tree[i] = key => lo <= i /\ i <= hi

\* What is found is the key, and a key without conflicts that is inserted is not linked.
Answered ==
  /\ phase = "found" => tree[lo] = key
  /\ phase \in {"absent", "insert"} /\ Peaceful(key) => \A i \in DOMAIN tree : tree[i] # key

\* A key without conflicts is linked once.
Once == \A i, j \in DOMAIN tree : Peaceful(tree[i]) /\ tree[i] = tree[j] => i = j

IInv == TypeOK /\ Sorted /\ InsertNarrowed /\ LookupNarrowed /\ Answered /\ Once
=============================================================================
