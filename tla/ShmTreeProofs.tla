---------------------------- MODULE ShmTreeProofs ----------------------------
(***************************************************************************)
(* The search tree of the dictionary keeps the order of its insertion, and *)
(* a search, which has another order, finds what is linked unless its key  *)
(* is in conflict with a linked key.  For keys of any length and any hash. *)
(***************************************************************************)
EXTENDS ShmTree, SequenceTheorems, WellFoundedInduction, TLAPS

\* A nonempty set of numbers has a least one.
LEMMA Least ==
  ASSUME NEW T, T \subseteq Nat, T # {}
  PROVE  \E x \in T : \A y \in T : x <= y
<1>1. \E x \in T : \A y \in T : <<y, x>> \notin OpToRel(<, Nat)
  BY NatLessThanWellFounded, WFMin, Zenon
<1>2. \A x, y \in Nat : <<y, x>> \notin OpToRel(<, Nat) => x <= y
  BY DEF OpToRel
<1> QED
  BY <1>1, <1>2

\* The order of two or three bytes.
LEMMA ByteOrder ==
  \A x, y, z \in 0..255 : /\ ~(x < x)
                          /\ x # y => x < y \/ y < x
                          /\ x < y /\ y < z => x < z
  OBVIOUS

\* The bytes of a key.
Bytes == Seq(0..255)

\* The strings are equal before position d.
EqualBefore(a, b, d) == \A i \in 1..d - 1 : a[i] = b[i]

\* The order of a dictionary: at the first difference the smaller byte, or the
\* end of the string, comes first.
Before(a, b) ==
  \E d \in 1..Len(b) :
    /\ EqualBefore(a, b, d)
    /\ \/ d = Len(a) + 1
       \/ d <= Len(a) /\ a[d] < b[d]

\* memcmp tells the strings apart at their first difference.
LEMMA CompareDiffers ==
  ASSUME NEW a, NEW b, NEW n \in Nat, NEW j \in 1..n, a[j] # b[j]
  PROVE  \E d \in 1..n : /\ EqualBefore(a, b, d) /\ a[d] # b[d]
                         /\ Compare(a, b, n) = IF a[d] < b[d] THEN -1 ELSE 1
<1> DEFINE differ == {i \in 1..n : a[i] # b[i]}
           first == CHOOSE i \in differ : \A k \in differ : i <= k
<1>1. differ # {} /\ differ \subseteq Nat
  OBVIOUS
<1>2. \E i \in differ : \A k \in differ : i <= k
  BY <1>1, Least
<1>3. first \in differ /\ \A k \in differ : first <= k
  BY <1>2
<1>4. Compare(a, b, n) = IF a[first] < b[first] THEN -1 ELSE 1
  BY <1>1 DEF Compare
<1>5. first \in 1..n /\ a[first] # b[first]
  BY <1>3
<1>6. EqualBefore(a, b, first)
  <2> SUFFICES ASSUME NEW i \in 1..first - 1, a[i] # b[i]
               PROVE  FALSE
    BY DEF EqualBefore
  <2>1. i \in differ /\ i < first
    BY <1>5
  <2> QED
    BY <2>1, <1>3, <1>5
<1> HIDE DEF first
<1> QED
  BY <1>4, <1>5, <1>6

\* memcmp of equal prefixes.
LEMMA CompareEqual ==
  ASSUME NEW a, NEW b, NEW n \in Nat, \A j \in 1..n : a[j] = b[j]
  PROVE  Compare(a, b, n) = 0
<1>1. {i \in 1..n : a[i] # b[i]} = {}
  OBVIOUS
<1> QED
  BY <1>1 DEF Compare

\* ngx_memn2cmp compares as a dictionary does.
LEMMA MemnTells ==
  ASSUME NEW a \in Bytes, NEW b \in Bytes
  PROVE  \/ Memn2cmp(a, b) = 0 /\ a = b
         \/ Memn2cmp(a, b) = -1 /\ Before(a, b)
         \/ Memn2cmp(a, b) = 1 /\ Before(b, a)
<1> DEFINE n == IF Len(a) <= Len(b) THEN Len(a) ELSE Len(b)
           m == Compare(a, b, n)
<1>1. Len(a) \in Nat /\ Len(b) \in Nat
  BY LenProperties DEF Bytes
<1>2. n \in Nat /\ n <= Len(a) /\ n <= Len(b) /\ (n = Len(a) \/ n = Len(b))
  BY <1>1
<1>3. Memn2cmp(a, b) = IF m # 0 \/ Len(a) = Len(b) THEN m ELSE IF Len(a) < Len(b) THEN -1 ELSE 1
  BY DEF Memn2cmp
<1> HIDE DEF n
<1>4. CASE \E j \in 1..n : a[j] # b[j]
  <2>1. PICK d \in 1..n : /\ EqualBefore(a, b, d) /\ a[d] # b[d]
                          /\ m = IF a[d] < b[d] THEN -1 ELSE 1
    BY <1>4, <1>2, CompareDiffers
  <2> HIDE DEF m
  <2>2. Memn2cmp(a, b) = IF a[d] < b[d] THEN -1 ELSE 1
    BY <1>3, <2>1
  <2>3. d \in 1..Len(a) /\ d \in 1..Len(b)
    BY <1>1, <1>2
  <2>4. a[d] \in 0..255 /\ b[d] \in 0..255
    BY <2>3, ElementOfSeq DEF Bytes
  <2>5. EqualBefore(b, a, d)
    BY <2>1 DEF EqualBefore
  <2>6. CASE a[d] < b[d]
    BY <2>1, <2>2, <2>3, <2>6 DEF Before
  <2>7. CASE b[d] < a[d]
    BY <2>1, <2>2, <2>3, <2>4, <2>5, <2>7 DEF Before
  <2>8. a[d] < b[d] \/ b[d] < a[d]
    BY <2>1, <2>4, ByteOrder
  <2> QED
    BY <2>6, <2>7, <2>8
<1>5. CASE \A j \in 1..n : a[j] = b[j]
  <2>1. m = 0
    BY <1>2, <1>5, CompareEqual
  <2> HIDE DEF m
  <2>2. CASE Len(a) = Len(b)
    <3>1. a = b
      BY <1>1, <1>2, <1>5, <2>2, SeqEqual DEF Bytes
    <3> QED
      BY <1>3, <2>1, <2>2, <3>1
  <2>3. CASE Len(a) < Len(b)
    <3>1. EqualBefore(a, b, Len(a) + 1) /\ Len(a) + 1 \in 1..Len(b)
      BY <1>1, <1>2, <1>5, <2>3 DEF EqualBefore
    <3>2. Before(a, b)
      BY <3>1 DEF Before
    <3> QED
      BY <1>1, <1>3, <2>1, <2>3, <3>2
  <2>4. CASE Len(b) < Len(a)
    <3>1. EqualBefore(b, a, Len(b) + 1) /\ Len(b) + 1 \in 1..Len(a)
      BY <1>1, <1>2, <1>5, <2>4 DEF EqualBefore
    <3>2. Before(b, a)
      BY <3>1 DEF Before
    <3> QED
      BY <1>1, <1>3, <2>1, <2>4, <3>2
  <2> QED
    BY <1>1, <2>2, <2>3, <2>4
<1> QED
  BY <1>4, <1>5

\* No string comes before itself.
LEMMA BeforeIrreflexive ==
  ASSUME NEW a \in Bytes
  PROVE  ~Before(a, a)
<1> SUFFICES ASSUME NEW d \in 1..Len(a), d = Len(a) + 1 \/ a[d] < a[d]
             PROVE  FALSE
  BY DEF Before
<1>1. Len(a) \in Nat /\ a[d] \in 0..255
  BY LenProperties, ElementOfSeq DEF Bytes
<1>2. ~(a[d] < a[d])
  BY <1>1, ByteOrder
<1>3. d # Len(a) + 1
  BY <1>1
<1> QED
  BY <1>2, <1>3

\* The order of a dictionary is transitive: of the two first differences the earlier
\* one is that of the outer strings.
LEMMA BeforeTransitive ==
  ASSUME NEW a \in Bytes, NEW b \in Bytes, NEW c \in Bytes, Before(a, b), Before(b, c)
  PROVE  Before(a, c)
<1>1. PICK d \in 1..Len(b) : /\ EqualBefore(a, b, d)
                             /\ d = Len(a) + 1 \/ (d <= Len(a) /\ a[d] < b[d])
  BY DEF Before
<1>2. PICK e \in 1..Len(c) : /\ EqualBefore(b, c, e)
                             /\ e = Len(b) + 1 \/ (e <= Len(b) /\ b[e] < c[e])
  BY DEF Before
<1>3. Len(a) \in Nat /\ Len(b) \in Nat /\ Len(c) \in Nat
  BY LenProperties DEF Bytes
<1>4. \A i \in Nat : /\ i \in 1..Len(a) => a[i] \in 0..255
                     /\ i \in 1..Len(b) => b[i] \in 0..255
                     /\ i \in 1..Len(c) => c[i] \in 0..255
  BY ElementOfSeq DEF Bytes
<1>5. CASE d < e
  <2>1. EqualBefore(a, c, d) /\ b[d] = c[d] /\ d \in 1..Len(c)
    BY <1>1, <1>2, <1>3, <1>5 DEF EqualBefore
  <2> QED
    BY <1>1, <2>1 DEF Before
<1>6. CASE e < d
  <2>1. EqualBefore(a, c, e) /\ a[e] = b[e] /\ e <= Len(a)
    BY <1>1, <1>2, <1>3, <1>6 DEF EqualBefore
  <2>2. b[e] < c[e]
    BY <1>2, <1>3, <1>6
  <2> QED
    BY <2>1, <2>2 DEF Before
<1>7. CASE d = e
  <2>1. EqualBefore(a, c, d) /\ b[d] < c[d] /\ d \in 1..Len(c)
    BY <1>1, <1>2, <1>3, <1>7 DEF EqualBefore
  <2>2. ASSUME d <= Len(a)
        PROVE  a[d] < c[d]
    <3>1. a[d] < b[d]
      BY <1>1, <1>3, <2>2
    <3>2. d \in Nat /\ d \in 1..Len(a) /\ d \in 1..Len(b) /\ d \in 1..Len(c)
      BY <1>3, <2>1, <2>2
    <3>3. a[d] \in 0..255 /\ b[d] \in 0..255 /\ c[d] \in 0..255
      BY <1>4, <3>2
    <3> DEFINE x == a[d]
               y == b[d]
               z == c[d]
    <3>4. x < y /\ y < z /\ x \in 0..255 /\ y \in 0..255 /\ z \in 0..255
      BY <2>1, <3>1, <3>3
    <3> HIDE DEF x, y, z
    <3>5. x < z
      BY <3>4
    <3> QED
      BY <3>5 DEF x, z
  <2> QED
    BY <1>1, <2>1, <2>2 DEF Before
<1> QED
  BY <1>3, <1>5, <1>6, <1>7

\* So the sign of ngx_memn2cmp is the order of a dictionary.
LEMMA MemnIsBefore ==
  ASSUME NEW a \in Bytes, NEW b \in Bytes
  PROVE  /\ Memn2cmp(a, b) < 0 <=> Before(a, b)
         /\ Memn2cmp(a, b) = 0 <=> a = b
<1>1. ~Before(a, a) /\ ~Before(b, b)
  BY BeforeIrreflexive
<1>2. ~(Before(a, b) /\ Before(b, a))
  BY <1>1, BeforeTransitive
<1> QED
  BY <1>1, <1>2, MemnTells

-----------------------------------------------------------------------------
\* memcmp finds no difference between a key and itself only.
LEMMA SameKey ==
  \A k, t \in Keys : Hash(k) = Hash(t) /\ Memn2cmp(k, t) = 0 <=> k = t
<1>1. \A k \in Keys : k \in Bytes /\ Hash(k) \in Nat
  BY KeysAssumption DEF Bytes
<1>2. \A k, t \in Keys : Memn2cmp(k, t) = 0 <=> k = t
  BY <1>1, MemnIsBefore
<1> QED
  BY <1>2

\* The insertion orders the keys strictly: by the hash, then by the length, then as a
\* dictionary does.
LEMMA GoesLeftOrders ==
  /\ \A k \in Keys : ~GoesLeft(k, k)
  /\ \A k, s, t \in Keys : GoesLeft(k, s) /\ GoesLeft(s, t) => GoesLeft(k, t)
  /\ \A k, t \in Keys : k # t => GoesLeft(k, t) \/ GoesLeft(t, k)
<1>1. \A k \in Keys : k \in Bytes /\ Hash(k) \in Nat /\ Len(k) \in Nat
  BY KeysAssumption, LenProperties DEF Bytes
<1>2. \A k, t \in Keys :
        GoesLeft(k, t) <=> \/ Hash(k) < Hash(t)
                           \/ Hash(k) = Hash(t) /\ Len(k) < Len(t)
                           \/ Hash(k) = Hash(t) /\ Len(k) = Len(t) /\ Before(k, t)
  BY <1>1, MemnIsBefore DEF GoesLeft
<1>3. \A k \in Keys : ~GoesLeft(k, k)
  BY <1>1, <1>2, BeforeIrreflexive
<1>4. ASSUME NEW k \in Keys, NEW s \in Keys, NEW t \in Keys, GoesLeft(k, s), GoesLeft(s, t)
      PROVE  GoesLeft(k, t)
  <2>1. Before(k, s) /\ Before(s, t) => Before(k, t)
    BY <1>1, BeforeTransitive
  <2> QED
    BY <1>1, <1>2, <1>4, <2>1
<1>5. ASSUME NEW k \in Keys, NEW t \in Keys, k # t
      PROVE  GoesLeft(k, t) \/ GoesLeft(t, k)
  <2>1. Before(k, t) \/ Before(t, k)
    BY <1>1, <1>5, MemnTells
  <2> QED
    BY <1>1, <1>2, <2>1
<1> QED
  BY <1>3, <1>4, <1>5

\* The search goes the way of the insertion for just those pairs of keys that are not in
\* conflict: where two keys collide, the shorter is the smaller.
THEOREM SameWay ==
  \A k, t \in Keys : InConflict(k, t) <=> ~(GoesLeft(k, t) <=> LooksLeft(k, t))
<1> SUFFICES ASSUME NEW k \in Keys, NEW t \in Keys
             PROVE  InConflict(k, t) <=> ~(GoesLeft(k, t) <=> LooksLeft(k, t))
  OBVIOUS
<1>1. Len(k) \in Nat /\ Len(t) \in Nat
  BY KeysAssumption, LenProperties
<1>2. k \in Bytes /\ t \in Bytes
  BY KeysAssumption DEF Bytes
<1>3. \/ Memn2cmp(k, t) = 0 /\ k = t
      \/ Memn2cmp(k, t) = -1
      \/ Memn2cmp(k, t) = 1
  BY <1>2, MemnTells
<1> QED
  BY <1>1, <1>3 DEF InConflict, GoesLeft, LooksLeft

-----------------------------------------------------------------------------
\* Taking out node i.
LEMMA RemoveAtProperties ==
  ASSUME NEW s \in Seq(Keys), NEW i \in DOMAIN s
  PROVE  /\ RemoveAt(s, i) \in Seq(Keys)
         /\ Len(RemoveAt(s, i)) = Len(s) - 1
         /\ DOMAIN RemoveAt(s, i) = 1..Len(s) - 1
         /\ \A j \in 1..Len(s) - 1 : RemoveAt(s, i)[j] = IF j < i THEN s[j] ELSE s[j + 1]
<1> DEFINE l == SubSeq(s, 1, i - 1)
           r == SubSeq(s, i + 1, Len(s))
<1>1. Len(s) \in Nat /\ DOMAIN s = 1..Len(s) /\ i \in 1..Len(s)
  BY LenProperties
<1>2. \A j \in 1..Len(s) : s[j] \in Keys
  BY ElementOfSeq
<1>3. l \in Seq(Keys) /\ Len(l) = i - 1 /\ \A j \in 1..i - 1 : l[j] = s[j]
  BY <1>1, <1>2, SubSeqProperties
<1>4. /\ r \in Seq(Keys) /\ Len(r) = Len(s) - i
      /\ \A j \in 1..Len(s) - i : r[j] = s[i + j]
  <2>1. \A j \in i + 1..Len(s) : s[j] \in Keys
    BY <1>1, <1>2
  <2>2. /\ r \in Seq(Keys) /\ Len(r) = IF i + 1 <= Len(s) THEN Len(s) - (i + 1) + 1 ELSE 0
        /\ \A j \in 1..Len(s) - (i + 1) + 1 : r[j] = s[i + 1 + j - 1]
    BY <1>1, <2>1, SubSeqProperties
  <2> HIDE DEF r
  <2>3. Len(r) = Len(s) - i
    BY <1>1, <2>2
  <2>4. ASSUME NEW j \in 1..Len(s) - i
        PROVE  r[j] = s[i + j]
    <3>1. j \in 1..Len(s) - (i + 1) + 1 /\ i + 1 + j - 1 = i + j
      BY <1>1
    <3> QED
      BY <2>2, <3>1
  <2> QED
    BY <2>2, <2>3, <2>4
<1>5. RemoveAt(s, i) = l \o r
  BY DEF RemoveAt
<1> HIDE DEF l, r
<1>6. /\ l \o r \in Seq(Keys) /\ Len(l \o r) = Len(s) - 1
      /\ \A j \in 1..Len(s) - 1 : (l \o r)[j] = IF j <= i - 1 THEN l[j] ELSE r[j - (i - 1)]
  <2>1. Len(l) + Len(r) = Len(s) - 1
    BY <1>1, <1>3, <1>4
  <2>2. /\ l \o r \in Seq(Keys) /\ Len(l \o r) = Len(l) + Len(r)
        /\ \A j \in 1..Len(l) + Len(r) : (l \o r)[j] = IF j <= Len(l) THEN l[j] ELSE r[j - Len(l)]
    BY <1>3, <1>4, ConcatProperties
  <2> QED
    BY <1>3, <2>1, <2>2
<1>7. ASSUME NEW j \in 1..Len(s) - 1
      PROVE  (l \o r)[j] = IF j < i THEN s[j] ELSE s[j + 1]
  <2>1. CASE j < i
    <3>1. j \in 1..i - 1
      BY <1>1, <2>1
    <3> QED
      BY <1>3, <1>6, <2>1, <3>1
  <2>2. CASE i <= j
    <3>1. j - (i - 1) \in 1..Len(s) - i /\ i + (j - (i - 1)) = j + 1 /\ ~(j <= i - 1) /\ ~(j < i)
      BY <1>1, <2>2
    <3> QED
      BY <1>4, <1>6, <3>1
  <2>3. j < i \/ i <= j
    BY <1>1
  <2> QED
    BY <2>1, <2>2, <2>3
<1> QED
  BY <1>1, <1>5, <1>6, <1>7, LenProperties

\* Putting in a node at i.
LEMMA InsertAtProperties ==
  ASSUME NEW s \in Seq(Keys), NEW i \in 1..Len(s) + 1, NEW e \in Keys
  PROVE  /\ InsertAt(s, i, e) \in Seq(Keys)
         /\ Len(InsertAt(s, i, e)) = Len(s) + 1
         /\ DOMAIN InsertAt(s, i, e) = 1..Len(s) + 1
         /\ \A j \in 1..Len(s) + 1 :
              InsertAt(s, i, e)[j] = IF j < i THEN s[j] ELSE IF j = i THEN e ELSE s[j - 1]
<1> DEFINE l == SubSeq(s, 1, i - 1)
           r == SubSeq(s, i, Len(s))
           le == l \o <<e>>
<1>1. Len(s) \in Nat /\ i \in 1..Len(s) + 1
  BY LenProperties
<1>2. \A j \in 1..Len(s) : s[j] \in Keys
  BY ElementOfSeq
<1>3. l \in Seq(Keys) /\ Len(l) = i - 1 /\ \A j \in 1..i - 1 : l[j] = s[j]
  BY <1>1, <1>2, SubSeqProperties
<1>4. /\ r \in Seq(Keys) /\ Len(r) = Len(s) - i + 1
      /\ \A j \in 1..Len(s) - i + 1 : r[j] = s[i + j - 1]
  BY <1>1, <1>2, SubSeqProperties
<1>5. InsertAt(s, i, e) = le \o r
  BY DEF InsertAt
<1>6. <<e>> \in Seq(Keys) /\ Len(<<e>>) = 1 /\ <<e>>[1] = e
  OBVIOUS
<1> HIDE DEF l, r
<1>7. /\ le \in Seq(Keys) /\ Len(le) = i
      /\ \A j \in 1..i : le[j] = IF j < i THEN s[j] ELSE e
  <2>1. /\ le \in Seq(Keys) /\ Len(le) = Len(l) + 1
        /\ \A j \in 1..Len(l) + 1 : le[j] = IF j <= Len(l) THEN l[j] ELSE <<e>>[j - Len(l)]
    BY <1>3, <1>6, ConcatProperties
  <2> HIDE DEF le
  <2> QED
    BY <1>1, <1>3, <1>6, <2>1
<1> HIDE DEF le
<1>8. /\ le \o r \in Seq(Keys) /\ Len(le \o r) = Len(s) + 1
      /\ \A j \in 1..Len(s) + 1 : (le \o r)[j] = IF j <= i THEN le[j] ELSE r[j - i]
  <2>1. Len(le) + Len(r) = Len(s) + 1
    BY <1>1, <1>4, <1>7
  <2>2. /\ le \o r \in Seq(Keys) /\ Len(le \o r) = Len(le) + Len(r)
        /\ \A j \in 1..Len(le) + Len(r) : (le \o r)[j] = IF j <= Len(le) THEN le[j] ELSE r[j - Len(le)]
    BY <1>4, <1>7, ConcatProperties
  <2> QED
    BY <1>7, <2>1, <2>2
<1>9. ASSUME NEW j \in 1..Len(s) + 1
      PROVE  (le \o r)[j] = IF j < i THEN s[j] ELSE IF j = i THEN e ELSE s[j - 1]
  <2>1. CASE j <= i
    <3>1. j \in 1..i /\ (j < i \/ j = i)
      BY <1>1, <2>1
    <3> QED
      BY <1>1, <1>7, <1>8, <2>1, <3>1
  <2>2. CASE i < j
    <3>1. j - i \in 1..Len(s) - i + 1 /\ i + (j - i) - 1 = j - 1 /\ ~(j <= i) /\ ~(j < i) /\ j # i
      BY <1>1, <2>2
    <3> QED
      BY <1>4, <1>8, <3>1
  <2>3. j <= i \/ i < j
    BY <1>1
  <2> QED
    BY <2>1, <2>2, <2>3
<1> QED
  BY <1>1, <1>5, <1>8, <1>9, LenProperties

-----------------------------------------------------------------------------
\* The parts of the invariant are facts of one state.
LEMMA TreeFacts ==
  ASSUME IInv
  PROVE  /\ Len(tree) \in Nat /\ DOMAIN tree = 1..Len(tree)
         /\ \A i \in 1..Len(tree) : tree[i] \in Keys
  BY LenProperties, ElementOfSeq DEF IInv, TypeOK

\* In the tree nothing right of a node goes to the left of it, and so no two nodes are
\* in the other order.
LEMMA TreeOrder ==
  ASSUME IInv, NEW k \in Keys, NEW i \in DOMAIN tree, NEW j \in DOMAIN tree, i <= j
  PROVE  /\ GoesLeft(k, tree[i]) => GoesLeft(k, tree[j])
         /\ ~GoesLeft(k, tree[j]) => ~GoesLeft(k, tree[i])
<1>1. tree[i] \in Keys /\ tree[j] \in Keys /\ i \in Nat /\ j \in Nat
  BY TreeFacts
<1>2. tree[i] = tree[j] \/ GoesLeft(tree[i], tree[j])
  <2>1. CASE i = j
    BY <2>1
  <2>2. CASE i < j
    BY <1>1, <2>2, GoesLeftOrders DEF IInv, Sorted
  <2> QED
    BY <1>1, <2>1, <2>2
<1> QED
  BY <1>1, <1>2, GoesLeftOrders

\* The empty tree.
LEMMA InitIInv ==
  ASSUME Init
  PROVE  IInv
<1>1. tree = <<>> /\ DOMAIN tree = {} /\ tree \in Seq(Keys)
  BY EmptySeq, LenProperties DEF Init
<1> QED
  BY <1>1 DEF Init, IInv, TypeOK, Sorted, InsertNarrowed, LookupNarrowed, Answered, Once

\* A descent to look a key up begins with all of the tree.
LEMMA LookupIInv ==
  ASSUME IInv, NEW k \in Keys, Lookup(k)
  PROVE  IInv'
<1>1. /\ tree' = tree /\ key' = k /\ phase' = "lookup" /\ lo' = 1 /\ hi' = Len(tree)
  BY DEF Lookup, Descend
<1>2. TypeOK'
  BY <1>1, TreeFacts DEF IInv, TypeOK
<1>3. Sorted' /\ Once'
  BY <1>1 DEF IInv, Sorted, Once
<1>4. InsertNarrowed' /\ LookupNarrowed'
  BY <1>1, TreeFacts DEF InsertNarrowed, LookupNarrowed
<1>5. Answered'
  BY <1>1 DEF Answered
<1> QED
  BY <1>2, <1>3, <1>4, <1>5 DEF IInv

\* The search finds its key, or goes where the insertion went, and there the rest of the
\* tree cannot hold it.
LEMMA LookupVisitsIInv ==
  ASSUME IInv, LookupVisits
  PROVE  IInv'
<1>1. PICK i \in lo..hi :
        \/ /\ Hash(key) = Hash(tree[i]) /\ Memn2cmp(key, tree[i]) = 0
           /\ phase' = "found" /\ lo' = i /\ hi' = i
        \/ LooksLeft(key, tree[i]) /\ Left(i) /\ UNCHANGED phase
        \/ /\ ~LooksLeft(key, tree[i])
           /\ Hash(key) # Hash(tree[i]) \/ Memn2cmp(key, tree[i]) # 0
           /\ Right(i) /\ UNCHANGED phase
  BY DEF LookupVisits
<1>2. phase = "lookup" /\ tree' = tree /\ key' = key
  BY DEF LookupVisits
<1>3. /\ lo \in Nat /\ hi \in Nat /\ 1 <= lo /\ hi <= Len(tree) /\ Len(tree) \in Nat
      /\ i \in 1..Len(tree) /\ key \in Keys /\ tree[i] \in Keys /\ DOMAIN tree = 1..Len(tree)
      /\ \A j \in 1..Len(tree) : tree[j] \in Keys
  BY <1>2, TreeFacts DEF IInv, TypeOK
<1>4. Sorted' /\ Once'
  BY <1>2 DEF IInv, Sorted, Once
<1>5. CASE phase' = "found" /\ lo' = i /\ hi' = i /\ Hash(key) = Hash(tree[i]) /\ Memn2cmp(key, tree[i]) = 0
  <2>1. tree[i] = key
    BY <1>3, <1>5, SameKey
  <2>2. TypeOK'
    BY <1>2, <1>3, <1>5 DEF IInv, TypeOK
  <2>3. InsertNarrowed' /\ LookupNarrowed' /\ Answered'
    BY <1>2, <1>5, <2>1 DEF InsertNarrowed, LookupNarrowed, Answered
  <2> QED
    BY <1>4, <2>2, <2>3 DEF IInv
<1>6. CASE LooksLeft(key, tree[i]) /\ Left(i) /\ phase' = "lookup"
  <2>1. TypeOK'
    BY <1>2, <1>3, <1>6 DEF IInv, TypeOK, Left
  <2>2. ASSUME \A j \in 1..Len(tree) : ~InConflict(key, tree[j]),
               NEW j \in 1..Len(tree), tree[j] = key
        PROVE  lo <= j /\ j <= i - 1
    <3>1. lo <= j
      BY <1>2, <1>3, <2>2 DEF IInv, LookupNarrowed
    <3>2. GoesLeft(key, tree[i])
      BY <1>3, <1>6, <2>2, SameWay
    <3>3. ~GoesLeft(key, tree[j])
      BY <1>3, <2>2, GoesLeftOrders
    <3>4. ~(i <= j)
      BY <1>3, <3>2, <3>3, TreeOrder
    <3> QED
      BY <1>3, <3>1, <3>4
  <2>3. InsertNarrowed' /\ LookupNarrowed' /\ Answered'
    BY <1>2, <1>3, <1>6, <2>2 DEF InsertNarrowed, LookupNarrowed, Answered, Left
  <2> QED
    BY <1>4, <2>1, <2>3 DEF IInv
<1>7. CASE /\ ~LooksLeft(key, tree[i])
           /\ Hash(key) # Hash(tree[i]) \/ Memn2cmp(key, tree[i]) # 0
           /\ Right(i) /\ phase' = "lookup"
  <2>1. TypeOK'
    BY <1>2, <1>3, <1>7 DEF IInv, TypeOK, Right
  <2>2. ASSUME \A j \in 1..Len(tree) : ~InConflict(key, tree[j]),
               NEW j \in 1..Len(tree), tree[j] = key
        PROVE  i + 1 <= j /\ j <= hi
    <3>1. j <= hi
      BY <1>2, <1>3, <2>2 DEF IInv, LookupNarrowed
    <3>2. ~GoesLeft(key, tree[i]) /\ tree[i] # key
      BY <1>3, <1>7, <2>2, SameWay, SameKey
    <3>3. GoesLeft(tree[i], tree[j])
      BY <1>3, <2>2, <3>2, GoesLeftOrders
    <3>4. ~GoesLeft(tree[i], tree[i])
      BY <1>3, GoesLeftOrders
    <3>5. ~(j <= i)
      BY <1>3, <3>3, <3>4, TreeOrder
    <3> QED
      BY <1>3, <3>1, <3>5
  <2>3. InsertNarrowed' /\ LookupNarrowed' /\ Answered'
    BY <1>2, <1>3, <1>7, <2>2 DEF InsertNarrowed, LookupNarrowed, Answered, Right
  <2> QED
    BY <1>4, <2>1, <2>3 DEF IInv
<1> QED
  BY <1>1, <1>2, <1>5, <1>6, <1>7

\* A key that is in conflict with none is in conflict with no node.
LEMMA PeacefulInTree ==
  ASSUME IInv, NEW k \in Keys, Peaceful(k)
  PROVE  \A j \in DOMAIN tree : ~InConflict(k, tree[j])
  BY TreeFacts DEF Peaceful

\* Where nothing is left to search, a key without conflicts is not linked.
LEMMA LookupMissesIInv ==
  ASSUME IInv, LookupMisses
  PROVE  IInv'
<1>1. phase = "lookup" /\ lo > hi /\ phase' = "absent" /\ UNCHANGED <<tree, key, lo, hi>>
  BY DEF LookupMisses
<1>2. TypeOK' /\ Sorted' /\ Once' /\ InsertNarrowed' /\ LookupNarrowed'
  BY <1>1 DEF IInv, TypeOK, Sorted, Once, InsertNarrowed, LookupNarrowed
<1>3. ASSUME Peaceful(key), NEW i \in DOMAIN tree
      PROVE  tree[i] # key
  <2>1. lo \in Nat /\ hi \in Nat /\ i \in Nat /\ key \in Keys
    BY <1>1, TreeFacts DEF IInv, TypeOK
  <2>2. \A j \in DOMAIN tree : ~InConflict(key, tree[j])
    BY <1>3, <2>1, PeacefulInTree
  <2>3. tree[i] = key => lo <= i /\ i <= hi
    BY <1>1, <2>2 DEF IInv, LookupNarrowed
  <2> QED
    BY <1>1, <2>1, <2>3
<1>4. Answered'
  BY <1>1, <1>3 DEF Answered, Peaceful
<1> QED
  BY <1>2, <1>4 DEF IInv

\* The end of a call leaves the tree.
LEMMA ReturnIInv ==
  ASSUME IInv, Return
  PROVE  IInv'
  BY DEF Return, Unlock, IInv, TypeOK, Sorted, InsertNarrowed, LookupNarrowed, Answered, Once

\* A node less leaves the order of the others.
LEMMA RemoveSorted ==
  ASSUME IInv, NEW i \in DOMAIN tree, tree' = RemoveAt(tree, i)
  PROVE  Sorted' /\ Once'
<1>1. /\ Len(tree) \in Nat /\ DOMAIN tree = 1..Len(tree) /\ tree \in Seq(Keys)
  BY TreeFacts DEF IInv, TypeOK
<1>2. /\ DOMAIN tree' = 1..Len(tree) - 1
      /\ \A j \in 1..Len(tree) - 1 : tree'[j] = IF j < i THEN tree[j] ELSE tree[j + 1]
  BY <1>1, RemoveAtProperties
<1>3. ASSUME NEW j \in 1..Len(tree) - 1, NEW l \in 1..Len(tree) - 1
      PROVE  /\ j < l => ~GoesLeft(tree'[l], tree'[j])
             /\ Peaceful(tree'[j]) /\ tree'[j] = tree'[l] => j = l
  <2> DEFINE p == IF j < i THEN j ELSE j + 1
             q == IF l < i THEN l ELSE l + 1
  <2>1. p \in DOMAIN tree /\ q \in DOMAIN tree /\ (j < l => p < q) /\ (p = q => j = l)
    BY <1>1
  <2>2. tree'[j] = tree[p] /\ tree'[l] = tree[q]
    BY <1>2
  <2> QED
    BY <2>1, <2>2 DEF IInv, Sorted, Once
<1>4. Sorted'
  BY <1>2, <1>3 DEF Sorted
<1>5. Once'
  BY <1>2, <1>3 DEF Once, Peaceful
<1> QED
  BY <1>4, <1>5

\* After a node is taken out, its key is not linked if it was linked once.
LEMMA DeleteIInv ==
  ASSUME IInv, Delete
  PROVE  IInv'
<1>1. /\ phase = "found" /\ tree' = RemoveAt(tree, lo)
      /\ \/ Unlock
         \/ phase' = "absent" /\ UNCHANGED <<key, lo, hi>>
  BY DEF Delete
<1>2. /\ lo \in DOMAIN tree /\ key \in Keys /\ tree \in Seq(Keys) /\ tree[lo] = key
      /\ Len(tree) \in Nat /\ DOMAIN tree = 1..Len(tree)
  BY <1>1, TreeFacts DEF IInv, TypeOK, Answered
<1>3. /\ tree' \in Seq(Keys) /\ DOMAIN tree' = 1..Len(tree) - 1
      /\ \A j \in 1..Len(tree) - 1 : tree'[j] = IF j < lo THEN tree[j] ELSE tree[j + 1]
  BY <1>1, <1>2, RemoveAtProperties
<1>4. Sorted' /\ Once'
  BY <1>1, <1>2, RemoveSorted
<1>5. TypeOK' /\ InsertNarrowed' /\ LookupNarrowed'
  BY <1>1, <1>3 DEF IInv, TypeOK, InsertNarrowed, LookupNarrowed, Unlock
<1>6. ASSUME Peaceful(key), NEW j \in 1..Len(tree) - 1
      PROVE  tree'[j] # key
  <2> DEFINE p == IF j < lo THEN j ELSE j + 1
  <2>1. p \in DOMAIN tree /\ p # lo
    BY <1>2
  <2>2. tree'[j] = tree[p]
    BY <1>3
  <2> QED
    BY <1>2, <1>6, <2>1, <2>2 DEF IInv, Once
<1>7. Answered'
  BY <1>1, <1>3, <1>6 DEF Answered, Unlock, Peaceful
<1> QED
  BY <1>4, <1>5, <1>7 DEF IInv

\* An eviction moves what was found at most one place to the left.
LEMMA EvictIInv ==
  ASSUME IInv, Evict
  PROVE  IInv'
<1>1. PICK i \in DOMAIN tree :
        /\ phase = "found" => i # lo
        /\ tree' = RemoveAt(tree, i)
        /\ IF phase = "found" /\ i < lo
           THEN lo' = lo - 1 /\ hi' = hi - 1
           ELSE UNCHANGED <<lo, hi>>
  BY DEF Evict
<1>2. phase \in {"found", "absent"} /\ phase' = phase /\ key' = key
  BY DEF Evict
<1>3. /\ key \in Keys /\ tree \in Seq(Keys) /\ lo \in Nat /\ hi \in Nat
      /\ Len(tree) \in Nat /\ DOMAIN tree = 1..Len(tree) /\ i \in 1..Len(tree)
  BY <1>2, TreeFacts DEF IInv, TypeOK
<1>4. /\ tree' \in Seq(Keys) /\ DOMAIN tree' = 1..Len(tree) - 1
      /\ \A j \in 1..Len(tree) - 1 : tree'[j] = IF j < i THEN tree[j] ELSE tree[j + 1]
  BY <1>1, <1>3, RemoveAtProperties
<1>5. Sorted' /\ Once'
  BY <1>1, RemoveSorted
<1>6. InsertNarrowed' /\ LookupNarrowed'
  BY <1>2 DEF InsertNarrowed, LookupNarrowed
<1>7. CASE phase = "found"
  <2>1. lo \in 1..Len(tree) /\ hi = lo /\ tree[lo] = key
    BY <1>3, <1>7 DEF IInv, TypeOK, Answered
  <2>2. lo' \in 1..Len(tree) - 1 /\ hi' = lo' /\ (IF lo' < i THEN lo' ELSE lo' + 1) = lo
    BY <1>1, <1>3, <1>7, <2>1
  <2>3. tree'[lo'] = key
    BY <1>4, <2>1, <2>2
  <2>4. TypeOK'
    BY <1>2, <1>3, <1>4, <1>7, <2>2 DEF IInv, TypeOK
  <2>5. Answered'
    BY <1>2, <1>7, <2>3 DEF Answered
  <2> QED
    BY <1>5, <1>6, <2>4, <2>5 DEF IInv
<1>8. CASE phase = "absent"
  <2>1. TypeOK'
    BY <1>1, <1>2, <1>3, <1>4, <1>8 DEF IInv, TypeOK
  <2>2. Peaceful(key) => \A j \in 1..Len(tree) - 1 : tree'[j] # key
    BY <1>3, <1>4, <1>8 DEF IInv, Answered
  <2>3. Answered'
    BY <1>2, <1>4, <1>8, <2>2 DEF Answered, Peaceful
  <2> QED
    BY <1>5, <1>6, <2>1, <2>3 DEF IInv
<1> QED
  BY <1>2, <1>7, <1>8

\* A descent to insert a key begins with all of the tree.
LEMMA InsertIInv ==
  ASSUME IInv, Insert
  PROVE  IInv'
<1>1. /\ phase = "absent" /\ phase' = "insert" /\ lo' = 1 /\ hi' = Len(tree)
      /\ tree' = tree /\ key' = key
  BY DEF Insert, Descend
<1>2. TypeOK'
  BY <1>1, TreeFacts DEF IInv, TypeOK
<1>3. Sorted' /\ Once' /\ LookupNarrowed'
  BY <1>1 DEF IInv, Sorted, Once, LookupNarrowed
<1>4. InsertNarrowed'
  BY <1>1, TreeFacts DEF InsertNarrowed
<1>5. Answered'
  BY <1>1 DEF IInv, Answered, Peaceful
<1> QED
  BY <1>2, <1>3, <1>4, <1>5 DEF IInv

\* The insertion leaves behind what is in its order on the other side.
LEMMA InsertVisitsIInv ==
  ASSUME IInv, InsertVisits
  PROVE  IInv'
<1>1. PICK i \in lo..hi : \/ GoesLeft(key, tree[i]) /\ Left(i)
                          \/ ~GoesLeft(key, tree[i]) /\ Right(i)
  BY DEF InsertVisits
<1>2. phase = "insert" /\ tree' = tree /\ key' = key /\ phase' = phase
  BY DEF InsertVisits
<1>3. /\ lo \in Nat /\ hi \in Nat /\ 1 <= lo /\ hi <= Len(tree) /\ Len(tree) \in Nat
      /\ i \in 1..Len(tree) /\ key \in Keys /\ DOMAIN tree = 1..Len(tree)
  BY <1>2, TreeFacts DEF IInv, TypeOK
<1>4. Sorted' /\ Once' /\ LookupNarrowed' /\ Answered'
  BY <1>2 DEF IInv, Sorted, Once, LookupNarrowed, Answered, Peaceful
<1>5. CASE GoesLeft(key, tree[i]) /\ Left(i)
  <2>1. TypeOK'
    BY <1>2, <1>3, <1>5 DEF IInv, TypeOK, Left
  <2>2. ASSUME NEW j \in 1..Len(tree), j > i - 1
        PROVE  GoesLeft(key, tree[j])
    BY <1>3, <1>5, <2>2, TreeOrder
  <2>3. InsertNarrowed'
    BY <1>2, <1>3, <1>5, <2>2 DEF IInv, InsertNarrowed, Left
  <2> QED
    BY <1>4, <2>1, <2>3 DEF IInv
<1>6. CASE ~GoesLeft(key, tree[i]) /\ Right(i)
  <2>1. TypeOK'
    BY <1>2, <1>3, <1>6 DEF IInv, TypeOK, Right
  <2>2. ASSUME NEW j \in 1..Len(tree), j < i + 1
        PROVE  ~GoesLeft(key, tree[j])
    BY <1>3, <1>6, <2>2, TreeOrder
  <2>3. InsertNarrowed'
    BY <1>2, <1>3, <1>6, <2>2 DEF IInv, InsertNarrowed, Right
  <2> QED
    BY <1>4, <2>1, <2>3 DEF IInv
<1> QED
  BY <1>1, <1>5, <1>6

\* The entry is linked between what is smaller and what is greater.
LEMMA LinkIInv ==
  ASSUME IInv, Link
  PROVE  IInv'
<1>1. phase = "insert" /\ lo > hi /\ tree' = InsertAt(tree, lo, key) /\ Unlock
  BY DEF Link
<1>2. /\ key \in Keys /\ tree \in Seq(Keys) /\ lo \in 1..Len(tree) + 1 /\ hi = lo - 1
      /\ Len(tree) \in Nat /\ DOMAIN tree = 1..Len(tree)
      /\ \A j \in 1..Len(tree) : tree[j] \in Keys
  BY <1>1, TreeFacts DEF IInv, TypeOK
<1>3. /\ tree' \in Seq(Keys) /\ DOMAIN tree' = 1..Len(tree) + 1
      /\ \A j \in 1..Len(tree) + 1 :
           tree'[j] = IF j < lo THEN tree[j] ELSE IF j = lo THEN key ELSE tree[j - 1]
  <2> DEFINE t == InsertAt(tree, lo, key)
  <2>1. /\ t \in Seq(Keys) /\ DOMAIN t = 1..Len(tree) + 1
        /\ \A j \in 1..Len(tree) + 1 :
             t[j] = IF j < lo THEN tree[j] ELSE IF j = lo THEN key ELSE tree[j - 1]
    BY <1>2, InsertAtProperties
  <2>2. tree' = t
    BY <1>1
  <2> HIDE DEF t
  <2> QED
    BY <2>1, <2>2
<1>4. \A j \in 1..Len(tree) : /\ j < lo => ~GoesLeft(key, tree[j])
                              /\ j > hi => ~GoesLeft(tree[j], key)
  <2>1. \A j \in 1..Len(tree) : /\ j < lo => ~GoesLeft(key, tree[j])
                                /\ j > hi => GoesLeft(key, tree[j])
    BY <1>1, <1>2 DEF IInv, InsertNarrowed
  <2>2. \A k, t \in Keys : GoesLeft(k, t) => ~GoesLeft(t, k)
    BY GoesLeftOrders
  <2> QED
    BY <1>2, <2>1, <2>2
<1>5. Peaceful(key) => \A j \in 1..Len(tree) : tree[j] # key
  BY <1>1, <1>2 DEF IInv, Answered
<1>6. ASSUME NEW j \in 1..Len(tree) + 1, NEW l \in 1..Len(tree) + 1, j < l
      PROVE  ~GoesLeft(tree'[l], tree'[j]) /\ (Peaceful(tree'[j]) => tree'[j] # tree'[l])
  <2>1. CASE l < lo
    <3>1. j \in DOMAIN tree /\ l \in DOMAIN tree /\ j < lo /\ j # l
      BY <1>2, <1>6, <2>1
    <3>2. tree'[j] = tree[j] /\ tree'[l] = tree[l]
      BY <1>3, <2>1, <3>1
    <3> QED
      BY <1>6, <3>1, <3>2 DEF IInv, Sorted, Once
  <2>2. CASE l = lo
    <3>1. j \in 1..Len(tree) /\ j < lo
      BY <1>2, <1>6, <2>2
    <3>2. tree'[j] = tree[j] /\ tree'[l] = key
      BY <1>3, <2>2, <3>1
    <3> QED
      BY <1>4, <1>5, <3>1, <3>2
  <2>3. CASE j = lo
    <3>1. l - 1 \in 1..Len(tree) /\ l - 1 > hi
      BY <1>2, <1>6, <2>3
    <3>2. tree'[j] = key /\ tree'[l] = tree[l - 1]
      BY <1>2, <1>3, <1>6, <2>3
    <3> QED
      BY <1>4, <1>5, <3>1, <3>2
  <2>4. CASE lo < j
    <3>1. j - 1 \in DOMAIN tree /\ l - 1 \in DOMAIN tree /\ j - 1 < l - 1 /\ j - 1 # l - 1
      BY <1>2, <1>6, <2>4
    <3>2. tree'[j] = tree[j - 1] /\ tree'[l] = tree[l - 1]
      BY <1>2, <1>3, <1>6, <2>4
    <3> QED
      BY <3>1, <3>2 DEF IInv, Sorted, Once
  <2>5. CASE j < lo /\ lo < l
    <3>1. j \in DOMAIN tree /\ l - 1 \in DOMAIN tree /\ j < l - 1 /\ j # l - 1
      BY <1>2, <2>5
    <3>2. tree'[j] = tree[j] /\ tree'[l] = tree[l - 1]
      BY <1>2, <1>3, <2>5
    <3> QED
      BY <3>1, <3>2 DEF IInv, Sorted, Once
  <2> QED
    BY <1>2, <2>1, <2>2, <2>3, <2>4, <2>5
<1>7. Sorted'
  BY <1>3, <1>6 DEF Sorted
<1>8. Once'
  <2> SUFFICES ASSUME NEW i \in 1..Len(tree) + 1, NEW j \in 1..Len(tree) + 1,
                      Peaceful(tree'[i]), tree'[i] = tree'[j]
               PROVE  i = j
    BY <1>3 DEF Once, Peaceful
  <2>1. ~(i < j) /\ ~(j < i)
    BY <1>6
  <2> QED
    BY <1>2, <2>1
<1>9. TypeOK' /\ InsertNarrowed' /\ LookupNarrowed' /\ Answered'
  BY <1>1, <1>3 DEF TypeOK, InsertNarrowed, LookupNarrowed, Answered, Unlock
<1> QED
  BY <1>7, <1>8, <1>9 DEF IInv

-----------------------------------------------------------------------------
\* The tree stays in the order of the insertion, a descent leaves behind only what lies
\* on the other side of its key, and a search does not leave its key behind unless a
\* linked key is in conflict with it: for every set of keys, whether or not the two
\* comparisons of ngx_http_wasm_shm.c agree on it.
THEOREM Inductive == Spec => []IInv
<1>1. IInv /\ [Next]_vars => IInv'
  <2> SUFFICES ASSUME IInv, [Next]_vars
               PROVE  IInv'
    OBVIOUS
  <2>1. ASSUME NEW k \in Keys, Lookup(k)
        PROVE  IInv'
    BY <2>1, LookupIInv
  <2>2. CASE LookupVisits
    BY <2>2, LookupVisitsIInv
  <2>3. CASE LookupMisses
    BY <2>3, LookupMissesIInv
  <2>4. CASE Return
    BY <2>4, ReturnIInv
  <2>5. CASE Delete
    BY <2>5, DeleteIInv
  <2>6. CASE Evict
    BY <2>6, EvictIInv
  <2>7. CASE Insert
    BY <2>7, InsertIInv
  <2>8. CASE InsertVisits
    BY <2>8, InsertVisitsIInv
  <2>9. CASE Link
    BY <2>9, LinkIInv
  <2>10. CASE UNCHANGED vars
    BY <2>10 DEF vars, IInv, TypeOK, Sorted, InsertNarrowed, LookupNarrowed, Answered, Once, Peaceful
  <2> QED
    BY <2>1, <2>2, <2>3, <2>4, <2>5, <2>6, <2>7, <2>8, <2>9, <2>10 DEF Next
<1> QED
  BY <1>1, InitIInv, PTL DEF Spec

\* The search of the tree takes no other entry for that of its key, whatever the shape of
\* the tree and whatever the keys; it misses a linked entry only where a linked key is in
\* conflict with its own, and only a key with a conflict is linked twice.
THEOREM LinkedFound == Spec => []LinkedIsFound
<1>1. IInv => LinkedIsFound
  <2> SUFFICES ASSUME IInv
               PROVE  LinkedIsFound
    OBVIOUS
  <2>1. ASSUME NEW i \in DOMAIN tree, phase = "lookup", lo > hi, tree[i] = key
        PROVE  \E j \in DOMAIN tree : InConflict(key, tree[j])
    <3>1. lo \in Nat /\ hi \in Nat /\ i \in Nat
      BY TreeFacts DEF IInv, TypeOK
    <3>2. ~(lo <= i /\ i <= hi)
      BY <2>1, <3>1
    <3> QED
      BY <2>1, <3>2 DEF IInv, LookupNarrowed
  <2>2. \A i, j \in DOMAIN tree : tree[i] = tree[j] /\ i # j => ~Peaceful(tree[i])
    BY DEF IInv, Once
  <2> QED
    BY <2>1, <2>2 DEF IInv, Answered, LinkedIsFound
<1> QED
  BY <1>1, Inductive, PTL
=============================================================================
