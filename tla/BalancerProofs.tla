--------------------------- MODULE BalancerProofs ---------------------------
(***************************************************************************)
(* The accounting of Balancer, for any number of requests, peers and       *)
(* limits, and the two properties of the choice it makes.                  *)
(***************************************************************************)
EXTENDS Balancer, FiniteSetTheorems, TLAPS

-----------------------------------------------------------------------------
(* Types.                                                                  *)

\* An upstream of which nothing was asked is well typed.
LEMMA InitType == Init => TypeOK
  BY BalancerAssumption DEF Init, TypeOK, Groups, Points, Answers

\* What Take and Release do to the types.
LEMMA TakeType ==
  ASSUME TypeOK, NEW r \in Requests, NEW p \in Peers, Take(r, p),
         resting' \in [Peers -> BOOLEAN], probed' \in [Peers -> BOOLEAN],
         tried' \in [Requests -> SUBSET Nat]
  PROVE  TypeOK'
<1>1. conns' \in [Peers -> Nat] /\ attempted' \in [Requests -> SUBSET Peers]
  BY DEF TypeOK, Take
<1>2. pc' \in [Requests -> Points] /\ current' \in [Requests -> Peers \cup {None}]
  BY DEF TypeOK, Take, Points
<1>3. lock' \in [Groups -> Requests \cup {None}]
  BY DEF TypeOK, Take
<1>4. UNCHANGED <<list, version, fails, group, config, tries, choice, answer>>
  BY DEF Take
<1> QED
  BY <1>1, <1>2, <1>3, <1>4 DEF TypeOK

\* Noting that a peer is checked keeps the types of the peers.
LEMMA NoteCheckType ==
  ASSUME TypeOK, NEW p \in Peers, NoteCheck(p)
  PROVE  resting' \in [Peers -> BOOLEAN] /\ probed' \in [Peers -> BOOLEAN]
  BY DEF TypeOK, NoteCheck

\* An index within the list of a request names a peer.
LEMMA ListedPeer ==
  ASSUME TypeOK, NEW r \in Requests, NEW i \in 1..Len(ListOf(r))
  PROVE  ListOf(r)[i] \in Peers
  BY DEF TypeOK, ListOf, Groups

\* A choice that is in range names a peer of the list.
LEMMA ChosenPeer ==
  ASSUME TypeOK, NEW r \in Requests, choice[r] # None, ~OutOfRange(r)
  PROVE  /\ choice[r] \in Nat
         /\ choice[r] + 1 \in DOMAIN ListOf(r)
         /\ Chosen(r) = ListOf(r)[choice[r] + 1]
         /\ Chosen(r) \in Peers
<1>1. choice[r] \in Nat
  BY DEF TypeOK
<1>2. ListOf(r) \in Seq(Peers)
  BY DEF TypeOK, ListOf
<1>3. choice[r] + 1 \in 1..Len(ListOf(r))
  BY <1>1, <1>2 DEF OutOfRange
<1> QED
  BY <1>1, <1>2, <1>3, ListedPeer DEF Chosen

\* Who holds a peer has a current one, and the peer has a connection.
LEMMA HolderCounted ==
  ASSUME TypeOK, ConnectionsCounted, NEW r \in Requests, current[r] # None
  PROVE  current[r] \in Peers /\ conns[current[r]] > 0
<1> DEFINE p == current[r]
<1>1. p \in Peers
  BY DEF TypeOK
<1>2. IsFiniteSet(Holders(p)) /\ r \in Holders(p)
  <2>1. Holders(p) \subseteq Requests /\ r \in Holders(p)
    BY DEF Holders
  <2> QED
    BY <2>1, BalancerAssumption, FS_Subset
<1>3. Cardinality(Holders(p)) # 0
  BY <1>2, FS_EmptySet
<1>4. conns[p] = Cardinality(Holders(p)) /\ conns[p] \in Nat
  BY <1>1 DEF ConnectionsCounted, TypeOK
<1> QED
  BY <1>1, <1>3, <1>4

\* Giving a peer back takes from a count that is above zero.
LEMMA ReleaseType ==
  ASSUME TypeOK, ConnectionsCounted, NEW r \in Requests, NEW failed \in BOOLEAN,
         current[r] # None, Release(r, failed),
         pc' \in [Requests -> Points], answer' \in [Requests -> Answers],
         choice' \in [Requests -> Nat \cup {None}],
         UNCHANGED <<dataVars, attempted>>
  PROVE  TypeOK'
<1> DEFINE p == current[r]
<1>1. p \in Peers /\ conns[p] > 0
  BY HolderCounted
<1>2. conns' \in [Peers -> Nat]
  BY <1>1 DEF Release, TypeOK
<1>3. fails' \in [Peers -> 0..MaxFails]
  BY <1>1, BalancerAssumption DEF Release, TypeOK
<1>4. resting' \in [Peers -> BOOLEAN] /\ probed' \in [Peers -> BOOLEAN]
  BY <1>1 DEF Release, TypeOK
<1>5. tries' \in [Requests -> Nat]
  BY DEF Release, TypeOK
<1>6. current' \in [Requests -> Peers \cup {None}]
  BY DEF Release, TypeOK
<1>7. UNCHANGED <<list, version, lock, group, tried, config, attempted>>
  BY DEF Release, dataVars
<1> QED
  BY <1>2, <1>3, <1>4, <1>5, <1>6, <1>7 DEF TypeOK

\* The peers of a list that are not down can be counted.
LEMMA UpPeersAreCounted ==
  ASSUME TypeOK, NEW g \in Groups
  PROVE  Cardinality(UpIn(g)) \in Nat
<1>1. DOMAIN list[g] = 1..Len(list[g]) /\ Len(list[g]) \in Nat
  BY DEF TypeOK
<1>2. IsFiniteSet(1..Len(list[g]))
  <2>1. \A n \in Nat : IsFiniteSet(1..n)
    BY FS_Interval
  <2> QED
    BY <1>1, <2>1, Zenon
<1>3. UpIn(g) \subseteq 1..Len(list[g])
  BY <1>1, Zenon DEF UpIn
<1>4. IsFiniteSet(UpIn(g))
  BY <1>2, <1>3, FS_Subset, Zenon
<1> QED
  BY <1>4, FS_CardinalityType

\* Every step keeps the types.
LEMMA TypeStep ==
  ASSUME TypeOK, ListsOK, ConnectionsCounted, [Next]_vars
  PROVE  TypeOK'
<1>1. ASSUME NEW r \in Requests, InitPeer(r) PROVE TypeOK'
  <2>1. Cardinality(UpIn("primary")) + Cardinality(UpIn("backup")) \in Nat
    BY UpPeersAreCounted DEF Groups
  <2>2. config' \in [Requests -> Nat] /\ tries' \in [Requests -> Nat]
    <3> DEFINE n == Cardinality(UpIn("primary")) + Cardinality(UpIn("backup"))
    <3>1. /\ config \in [Requests -> Nat] /\ tries \in [Requests -> Nat]
          /\ version \in Nat /\ n \in Nat
      BY <2>1 DEF TypeOK
    <3>2. \/ config' = [config EXCEPT ![r] = version] /\ tries' = [tries EXCEPT ![r] = n]
          \/ UNCHANGED <<config, tries>>
      BY <1>1 DEF InitPeer
    <3> HIDE DEF n
    <3> QED
      BY <3>1, <3>2
  <2>3. pc' \in [Requests -> Points] /\ answer' \in [Requests -> Answers]
    BY <1>1 DEF InitPeer, Finalize, TypeOK, Points, Answers
  <2>4. UNCHANGED <<peerVars, lock, group, tried, current, choice, attempted>>
    BY <1>1 DEF InitPeer
  <2> QED
    BY <2>2, <2>3, <2>4 DEF TypeOK, peerVars
<1>2. ASSUME NEW r \in Requests, RunGuest(r) PROVE TypeOK'
  <2>1. GuestChoices \subseteq Nat \cup {None}
    BY DEF GuestChoices
  <2>2. choice' \in [Requests -> Nat \cup {None}]
    <3>1. choice \in [Requests -> Nat \cup {None}]
      BY DEF TypeOK
    <3>2. choice' = choice \/ \E c \in GuestChoices : choice' = [choice EXCEPT ![r] = c]
      BY <1>2 DEF RunGuest
    <3> QED
      BY <2>1, <3>1, <3>2
  <2>3. pc' \in [Requests -> Points] /\ answer' \in [Requests -> Answers]
    BY <1>2 DEF RunGuest, Finalize, TypeOK, Points, Answers
  <2>4. UNCHANGED <<peerVars, lock, dataVars, current, tries, attempted>>
    BY <1>2 DEF RunGuest
  <2> QED
    BY <2>2, <2>3, <2>4 DEF TypeOK, peerVars, dataVars
<1>3. ASSUME NEW r \in Requests, Lock(r) PROVE TypeOK'
  BY <1>3 DEF Lock, TypeOK, Points, peerVars, dataVars
<1>4. ASSUME NEW r \in Requests, Reject(r) PROVE TypeOK'
  BY <1>4 DEF Reject, Unlock, Finalize, TypeOK, Points, Answers, peerVars, dataVars
<1>5. ASSUME NEW r \in Requests, SelectPeer(r) PROVE TypeOK'
  <2>1. Chosen(r) \in Peers /\ choice[r] \in Nat
    BY <1>5, ChosenPeer DEF SelectPeer
  <2>2. tried' \in [Requests -> SUBSET Nat]
    BY <1>5, <2>1 DEF SelectPeer, TypeOK
  <2> QED
    BY <1>5, <2>1, <2>2, TakeType, NoteCheckType DEF SelectPeer
<1>6. ASSUME NEW r \in Requests, OriginalGet(r) PROVE TypeOK'
  <2>1. PICK i \in Candidates(r) :
          /\ Take(r, ListOf(r)[i + 1])
          /\ NoteCheck(ListOf(r)[i + 1])
          /\ tried' = [tried EXCEPT ![r] = @ \cup {i}]
    BY <1>6 DEF OriginalGet
  <2>2. Len(ListOf(r)) \in Nat
    BY DEF ListOf, TypeOK, Groups
  <2>3. i \in Nat /\ i + 1 \in 1..Len(ListOf(r))
    BY <2>2 DEF Candidates
  <2>4. ListOf(r)[i + 1] \in Peers
    BY <2>3, ListedPeer
  <2>5. tried' \in [Requests -> SUBSET Nat]
    BY <2>1, <2>3 DEF TypeOK
  <2> QED
    BY <2>1, <2>4, <2>5, TakeType, NoteCheckType
<1>7. ASSUME NEW r \in Requests, OriginalOnly(r) PROVE TypeOK'
  <2>1. OnlyPeer \in Peers
    BY DEF OnlyPeer, ListsOK, TypeOK, Groups
  <2>2. /\ resting' \in [Peers -> BOOLEAN] /\ probed' \in [Peers -> BOOLEAN]
        /\ tried' \in [Requests -> SUBSET Nat]
    BY <1>7 DEF OriginalOnly, TypeOK
  <2> QED
    BY <1>7, <2>1, <2>2, TakeType DEF OriginalOnly
<1>8. ASSUME NEW r \in Requests, OriginalBackup(r) PROVE TypeOK'
  BY <1>8 DEF OriginalBackup, Unlock, TypeOK, Points, Groups, peerVars
<1>9. ASSUME NEW r \in Requests, OriginalBusy(r) PROVE TypeOK'
  BY <1>9 DEF OriginalBusy, Unlock, Finalize, TypeOK, Points, Answers, peerVars, dataVars
<1>10. ASSUME NEW r \in Requests, TryFails(r) PROVE TypeOK'
  <2>1. current[r] # None
    BY <1>10 DEF TryFails, ConnectionsCounted
  <2>2. /\ pc' \in [Requests -> Points] /\ answer' \in [Requests -> Answers]
        /\ choice' \in [Requests -> Nat \cup {None}]
    BY <1>10 DEF TryFails, Finalize, TypeOK, Points, Answers
  <2> QED
    BY <1>10, <2>1, <2>2, ReleaseType DEF TryFails
<1>11. ASSUME NEW r \in Requests, TrySucceeds(r) PROVE TypeOK'
  <2>1. current[r] # None
    BY <1>11 DEF TrySucceeds, ConnectionsCounted
  <2>2. /\ pc' \in [Requests -> Points] /\ answer' \in [Requests -> Answers]
        /\ choice' \in [Requests -> Nat \cup {None}]
    BY <1>11 DEF TrySucceeds, Finalize, TypeOK, Points, Answers
  <2> QED
    BY <1>11, <2>1, <2>2, ReleaseType DEF TrySucceeds
<1>12. ASSUME NEW p \in Peers, TimePasses(p) PROVE TypeOK'
  BY <1>12 DEF TimePasses, TypeOK, dataVars
<1>13. ASSUME Resolve PROVE TypeOK'
  <2>1. PICK s \in [DOMAIN list["primary"] -> Peers] :
          list' = [list EXCEPT !["primary"] = s]
    BY <1>13 DEF Resolve
  <2>2. DOMAIN list["primary"] = 1..Len(list["primary"]) /\ Len(list["primary"]) \in Nat
    BY DEF TypeOK, Groups
  <2>3. s \in Seq(Peers)
    BY <2>2
  <2>4. list' \in [Groups -> Seq(Peers)]
    BY <2>1, <2>3 DEF TypeOK
  <2>5. version' \in Nat
    BY <1>13 DEF Resolve, TypeOK
  <2> QED
    BY <1>13, <2>4, <2>5 DEF Resolve, TypeOK, dataVars
<1>14. CASE UNCHANGED vars
  BY <1>14 DEF vars, peerVars, dataVars, TypeOK
<1> QED
  BY <1>1, <1>2, <1>3, <1>4, <1>5, <1>6, <1>7, <1>8, <1>9, <1>10, <1>11,
     <1>12, <1>13, <1>14 DEF Next, Step
-----------------------------------------------------------------------------
(* The accounting.                                                         *)

\* The requests that hold a peer are finitely many.
LEMMA HoldersFinite == \A p : IsFiniteSet(Holders(p))
  BY BalancerAssumption, FS_Subset DEF Holders

\* A request that holds nothing takes a peer that has room for it.
LEMMA TakeCounted ==
  ASSUME TypeOK, ConnectionsCounted, NEW r \in Requests, NEW p \in Peers,
         Take(r, p), current[r] = None, MaxConns > 0 => conns[p] < MaxConns
  PROVE  ConnectionsCounted'
<1>1. p # None
  BY BalancerAssumption
<1>2. current' = [current EXCEPT ![r] = p] /\ current \in [Requests -> Peers \cup {None}]
  BY DEF Take, TypeOK
<1>3. Holders(p)' = Holders(p) \cup {r} /\ r \notin Holders(p)
  BY <1>1, <1>2 DEF Holders
<1>4. \A q \in Peers \ {p} : Holders(q)' = Holders(q)
  BY <1>1, <1>2, BalancerAssumption DEF Holders
<1>5. Cardinality(Holders(p)') = Cardinality(Holders(p)) + 1
  BY <1>3, HoldersFinite, FS_AddElement
<1>6. conns' = [conns EXCEPT ![p] = @ + 1] /\ conns \in [Peers -> Nat]
  BY DEF Take, TypeOK
<1>7. ASSUME NEW q \in Peers
      PROVE  conns'[q] = Cardinality(Holders(q)') /\ (MaxConns > 0 => conns'[q] <= MaxConns)
  <2>1. CASE q = p
    BY <2>1, <1>5, <1>6, BalancerAssumption DEF ConnectionsCounted
  <2>2. CASE q # p
    BY <2>2, <1>4, <1>6 DEF ConnectionsCounted
  <2> QED
    BY <2>1, <2>2
<1>8. \A x \in Requests : pc'[x] = "connected" <=> current'[x] # None
  BY <1>1, <1>2 DEF ConnectionsCounted, Take, TypeOK
<1> QED
  BY <1>7, <1>8 DEF ConnectionsCounted, Holders

\* A request gives back what it holds, and is connected no more.
LEMMA ReleaseCounted ==
  ASSUME TypeOK, ConnectionsCounted, NEW r \in Requests, NEW failed \in BOOLEAN,
         current[r] # None, Release(r, failed),
         NEW point \in Points \ {"connected"}, pc' = [pc EXCEPT ![r] = point]
  PROVE  ConnectionsCounted'
<1>1. PICK p \in Peers : p = current[r] /\ conns[p] > 0
  BY HolderCounted
<1>2. current' = [current EXCEPT ![r] = None] /\ current \in [Requests -> Peers \cup {None}]
  BY DEF Release, TypeOK
<1>3. Holders(p)' = Holders(p) \ {r} /\ r \in Holders(p)
  BY <1>1, <1>2, BalancerAssumption DEF Holders
<1>4. \A q \in Peers \ {p} : Holders(q)' = Holders(q)
  BY <1>1, <1>2, BalancerAssumption DEF Holders
<1>5. Cardinality(Holders(p)') = Cardinality(Holders(p)) - 1
  BY <1>3, HoldersFinite, FS_RemoveElement
<1>6. conns' = [conns EXCEPT ![p] = @ - 1] /\ conns \in [Peers -> Nat]
  BY <1>1 DEF Release, TypeOK
<1>7. ASSUME NEW q \in Peers
      PROVE  conns'[q] = Cardinality(Holders(q)') /\ (MaxConns > 0 => conns'[q] <= MaxConns)
  <2>1. CASE q = p
    BY <2>1, <1>1, <1>5, <1>6, BalancerAssumption DEF ConnectionsCounted
  <2>2. CASE q # p
    BY <2>2, <1>4, <1>6 DEF ConnectionsCounted
  <2> QED
    BY <2>1, <2>2
<1>8. \A x \in Requests : pc'[x] = "connected" <=> current'[x] # None
  BY <1>2 DEF ConnectionsCounted, TypeOK
<1> QED
  BY <1>7, <1>8 DEF ConnectionsCounted, Holders

\* A step that moves a request that holds nothing, and no peer, keeps the count.
LEMMA MoveCounted ==
  ASSUME TypeOK, ConnectionsCounted, NEW r \in Requests, pc[r] # "connected",
         NEW point \in Points \ {"connected"}, pc' = [pc EXCEPT ![r] = point],
         UNCHANGED <<conns, current>>
  PROVE  ConnectionsCounted'
<1>1. \A p \in Peers : Holders(p)' = Holders(p)
  BY DEF Holders
<1>2. \A x \in Requests : pc'[x] = "connected" <=> pc[x] = "connected"
  BY DEF TypeOK, Points
<1> QED
  BY <1>1, <1>2 DEF ConnectionsCounted, Holders

\* Every step keeps the counts of connections right.
LEMMA CountedStep ==
  ASSUME TypeOK, ListsOK, ConnectionsCounted, [Next]_vars
  PROVE  ConnectionsCounted'
<1>1. ASSUME NEW r \in Requests, InitPeer(r) PROVE ConnectionsCounted'
  BY <1>1, MoveCounted DEF InitPeer, Finalize, Points, peerVars
<1>2. ASSUME NEW r \in Requests, RunGuest(r) PROVE ConnectionsCounted'
  BY <1>2, MoveCounted DEF RunGuest, Finalize, Points, peerVars
<1>3. ASSUME NEW r \in Requests, Lock(r) PROVE ConnectionsCounted'
  BY <1>3, MoveCounted DEF Lock, Points, peerVars
<1>4. ASSUME NEW r \in Requests, Reject(r) PROVE ConnectionsCounted'
  BY <1>4, MoveCounted DEF Reject, InSelect, Finalize, Points, peerVars
<1>5. ASSUME NEW r \in Requests, SelectPeer(r) PROVE ConnectionsCounted'
  <2>1. Chosen(r) \in Peers
    BY <1>5, ChosenPeer DEF SelectPeer
  <2>2. current[r] = None
    BY <1>5 DEF SelectPeer, InSelect, ConnectionsCounted
  <2>3. MaxConns > 0 => conns[Chosen(r)] < MaxConns
    BY <1>5, <2>1, BalancerAssumption DEF SelectPeer, Available, Saturated, TypeOK
  <2> QED
    BY <1>5, <2>1, <2>2, <2>3, TakeCounted DEF SelectPeer
<1>6. ASSUME NEW r \in Requests, OriginalGet(r) PROVE ConnectionsCounted'
  <2>1. PICK i \in Candidates(r) : Take(r, ListOf(r)[i + 1])
    BY <1>6 DEF OriginalGet
  <2>2. Len(ListOf(r)) \in Nat
    BY DEF ListOf, TypeOK, Groups
  <2>3. ListOf(r)[i + 1] \in Peers /\ Available(ListOf(r)[i + 1])
    BY <2>2, ListedPeer DEF Candidates
  <2>4. MaxConns > 0 => conns[ListOf(r)[i + 1]] < MaxConns
    BY <2>3, BalancerAssumption DEF Available, Saturated, TypeOK
  <2>5. current[r] = None
    BY <1>6 DEF OriginalGet, InSelect, ConnectionsCounted
  <2> QED
    BY <2>1, <2>3, <2>4, <2>5, TakeCounted
<1>7. ASSUME NEW r \in Requests, OriginalOnly(r) PROVE ConnectionsCounted'
  <2>1. OnlyPeer \in Peers
    BY DEF OnlyPeer, ListsOK, TypeOK, Groups
  <2>2. MaxConns > 0 => conns[OnlyPeer] < MaxConns
    BY <1>7, <2>1, BalancerAssumption DEF OriginalOnly, OnlyPeerIsFree, Saturated, TypeOK
  <2>3. current[r] = None
    BY <1>7 DEF OriginalOnly, InSelect, ConnectionsCounted
  <2> QED
    BY <1>7, <2>1, <2>2, <2>3, TakeCounted DEF OriginalOnly
<1>8. ASSUME NEW r \in Requests, OriginalBackup(r) PROVE ConnectionsCounted'
  BY <1>8, MoveCounted DEF OriginalBackup, InSelect, Points, peerVars
<1>9. ASSUME NEW r \in Requests, OriginalBusy(r) PROVE ConnectionsCounted'
  BY <1>9, MoveCounted DEF OriginalBusy, InSelect, Finalize, Points, peerVars
<1>10. ASSUME NEW r \in Requests, TryFails(r) PROVE ConnectionsCounted'
  <2>1. current[r] # None
    BY <1>10 DEF TryFails, ConnectionsCounted
  <2> QED
    BY <1>10, <2>1, ReleaseCounted DEF TryFails, Finalize, Points
<1>11. ASSUME NEW r \in Requests, TrySucceeds(r) PROVE ConnectionsCounted'
  <2>1. current[r] # None
    BY <1>11 DEF TrySucceeds, ConnectionsCounted
  <2> QED
    BY <1>11, <2>1, ReleaseCounted DEF TrySucceeds, Finalize, Points
<1>12. ASSUME NEW p \in Peers, TimePasses(p) PROVE ConnectionsCounted'
  BY <1>12 DEF TimePasses, ConnectionsCounted, Holders
<1>13. ASSUME Resolve PROVE ConnectionsCounted'
  BY <1>13 DEF Resolve, ConnectionsCounted, Holders
<1>14. CASE UNCHANGED vars
  BY <1>14 DEF vars, peerVars, ConnectionsCounted, Holders
<1> QED
  BY <1>1, <1>2, <1>3, <1>4, <1>5, <1>6, <1>7, <1>8, <1>9, <1>10, <1>11,
     <1>12, <1>13, <1>14 DEF Next, Step
-----------------------------------------------------------------------------
(* The lists, and the bits of the peers a request was given.               *)

\* The invariant holds before the first request.
LEMMA InitIInv == Init => IInv
<1> SUFFICES ASSUME Init PROVE IInv
  OBVIOUS
<1>1. TypeOK
  BY InitType
<1>2. ListsOK
  BY BalancerAssumption DEF Init, ListsOK
<1>3. ConnectionsCounted
  <2>1. \A p \in Peers : Holders(p) = {}
    BY BalancerAssumption DEF Init, Holders
  <2>2. \A p \in Peers : conns[p] = Cardinality(Holders(p))
    BY <2>1, FS_EmptySet DEF Init
  <2>3. \A p \in Peers : MaxConns > 0 => conns[p] <= MaxConns
    BY BalancerAssumption DEF Init
  <2> QED
    BY <2>2, <2>3 DEF Init, ConnectionsCounted
<1>4. TriedBits /\ OnlyPeerNeverFails
  BY DEF Init, TriedBits, TriedFor, OnlyPeerNeverFails
<1> QED
  BY <1>1, <1>2, <1>3, <1>4 DEF IInv

\* Only Resolve changes the lists, and it checks what it makes of them.
LEMMA ListsStep ==
  ASSUME TypeOK, ListsOK, [Next]_vars
  PROVE  /\ ListsOK'
         /\ list'["backup"] = list["backup"]
         /\ IsLast(list)' = IsLast(list)
         /\ (version' = version /\ list' = list) \/ version' = version + 1
<1>1. CASE Resolve
  <2>1. PICK s \in [DOMAIN list["primary"] -> Peers] :
          list' = [list EXCEPT !["primary"] = s] /\ Distinct(list')
    BY <1>1 DEF Resolve
  <2>2. list["primary"] \in Seq(Peers) /\ list["primary"] # <<>>
    BY DEF TypeOK, ListsOK, Groups
  <2>3. DOMAIN list["primary"] = 1..Len(list["primary"]) /\ Len(list["primary"]) \in Nat
    BY <2>2
  <2>4. s \in Seq(Peers) /\ Len(s) = Len(list["primary"]) /\ Len(s) # 0
    BY <2>2, <2>3
  <2>5. list'["primary"] = s /\ list'["backup"] = list["backup"]
    BY <2>1 DEF TypeOK, Groups
  <2> QED
    BY <1>1, <2>1, <2>4, <2>5 DEF ListsOK, IsLast, Resolve
<1>2. CASE ~Resolve
  <2>1. UNCHANGED <<list, version>>
    BY <1>2 DEF Next, Step, InitPeer, RunGuest, Lock, Reject, SelectPeer,
       OriginalGet, OriginalOnly, OriginalBackup, OriginalBusy, TryFails,
       TrySucceeds, TimePasses, Take, Release, vars, peerVars
  <2> QED
    BY <2>1 DEF ListsOK, IsLast, Distinct
<1> QED
  BY <1>1, <1>2

\* The only peer is released without a failure being counted.
LEMMA OnlyPeerStep ==
  ASSUME TypeOK, ListsOK, ConnectionsCounted, OnlyPeerNeverFails, [Next]_vars
  PROVE  OnlyPeerNeverFails'
<1>1. IsLast(list)' = IsLast(list)
  BY ListsStep
<1>2. ASSUME NEW r \in Requests, NEW failed \in BOOLEAN, Release(r, failed), IsLast(list)
      PROVE  \A p \in Peers : fails'[p] = 0
  BY <1>2 DEF Release, OnlyPeerNeverFails, TypeOK
<1>3. CASE \E r \in Requests : TryFails(r) \/ TrySucceeds(r)
  BY <1>1, <1>2, <1>3 DEF TryFails, TrySucceeds, OnlyPeerNeverFails
<1>4. CASE ~\E r \in Requests : TryFails(r) \/ TrySucceeds(r)
  <2>1. UNCHANGED fails
    BY <1>4 DEF Next, Step, InitPeer, RunGuest, Lock, Reject, SelectPeer,
       OriginalGet, OriginalOnly, OriginalBackup, OriginalBusy, TimePasses,
       Resolve, Take, vars, peerVars
  <2> QED
    BY <1>1, <2>1 DEF OnlyPeerNeverFails
<1> QED
  BY <1>3, <1>4

\* A listed peer stands in the list once, and not in the other list.
LEMMA ListedOnce ==
  ASSUME TypeOK, ListsOK, NEW r \in Requests, NEW i \in DOMAIN ListOf(r)
  PROVE  /\ \A j \in DOMAIN ListOf(r) : ListOf(r)[j] = ListOf(r)[i] => j = i
         /\ group[r] = "primary" => ListOf(r)[i] \notin MembersOf(list["backup"])
<1>1. group[r] \in Groups
  BY DEF TypeOK
<1>2. \A j \in DOMAIN ListOf(r) : ListOf(r)[j] = ListOf(r)[i] => j = i
  BY <1>1 DEF ListsOK, Distinct, ListOf
<1>3. ASSUME group[r] = "primary" PROVE ListOf(r)[i] \notin MembersOf(list["backup"])
  <2>1. ListOf(r)[i] \in MembersOf(list["primary"])
    BY <1>3 DEF ListOf, MembersOf
  <2> QED
    BY <2>1 DEF ListsOK, Distinct
<1> QED
  BY <1>2, <1>3

\* Nothing a request is judged by changes: the invariant stays true of it.
LEMMA TriedFrame ==
  ASSUME NEW x \in Requests, TriedFor(x),
         UNCHANGED <<list, version, config[x], pc[x], group[x], tried[x], attempted[x]>>
  PROVE  TriedFor(x)'
  BY DEF TriedFor, ListOf, IsLast

\* A request moves, and is given nothing.
LEMMA TriedMove ==
  ASSUME NEW x \in Requests, TriedFor(x), pc[x] \in {"new", "guest", "lock", "select"},
         pc'[x] \in {"lock", "select", "done"} \/ (pc'[x] = "guest" /\ pc[x] # "new"),
         pc[x] = "new" => pc'[x] = "done",
         UNCHANGED <<list, version, config[x], group[x], tried[x], attempted[x]>>
  PROVE  TriedFor(x)'
  BY DEF TriedFor, ListOf, IsLast

\* A request that may still ask takes the peer at index i and sets its bit.
LEMMA TriedTake ==
  ASSUME TypeOK, ListsOK, NEW r \in Requests, TriedFor(r), pc[r] = "select",
         NEW i \in Nat, i + 1 \in DOMAIN ListOf(r), Take(r, ListOf(r)[i + 1]),
         tried' = [tried EXCEPT ![r] = @ \cup {i}]
  PROVE  TriedFor(r)'
<1> DEFINE p == ListOf(r)[i + 1]
<1>1. /\ attempted'[r] = attempted[r] \cup {p} /\ tried'[r] = tried[r] \cup {i}
      /\ pc'[r] = "connected" /\ UNCHANGED <<list, version, group, config>>
  BY DEF TypeOK, Take
<1>2. \A j \in DOMAIN ListOf(r) : ListOf(r)[j] = p => j = i + 1
  BY ListedOnce
<1>3. group[r] = "primary" => p \notin MembersOf(list["backup"])
  BY ListedOnce
<1>4. config'[r] <= version' /\ pc'[r] # "new"
  BY <1>1 DEF TriedFor
<1>5. group'[r] = "primary" => attempted'[r] \cap MembersOf(list'["backup"]) = {}
  BY <1>1, <1>3 DEF TriedFor
<1>6. ASSUME config'[r] = version', NEW j \in DOMAIN ListOf(r), ListOf(r)[j] \in attempted'[r]
      PROVE  j - 1 \in tried'[r]
  <2>1. CASE ListOf(r)[j] = p
    BY <2>1, <1>1, <1>2
  <2>2. CASE ListOf(r)[j] # p
    BY <2>2, <1>1, <1>6 DEF TriedFor
  <2> QED
    BY <2>1, <2>2
<1>7. ListOf(r)' = ListOf(r)
  BY <1>1 DEF ListOf
<1> QED
  BY <1>1, <1>4, <1>5, <1>6, <1>7 DEF TriedFor

\* Every step keeps the bits of the peers a request was given.
LEMMA TriedStep ==
  ASSUME IInv, [Next]_vars
  PROVE  TriedBits'
<1> USE DEF IInv
<1>1. ASSUME NEW r \in Requests, Step(r), NEW x \in Requests \ {r} PROVE TriedFor(x)'
  <2>1. UNCHANGED <<list, version, config[x], pc[x], group[x], tried[x], attempted[x]>>
    <3>1. CASE InitPeer(r) \/ RunGuest(r) \/ Lock(r) \/ Reject(r)
      BY <1>1, <3>1 DEF TypeOK, InitPeer, RunGuest, Lock, Reject, Finalize, peerVars,
         dataVars
    <3>2. CASE SelectPeer(r)
      BY <1>1, <3>2 DEF TypeOK, SelectPeer, Take
    <3>3. CASE OriginalGet(r) \/ OriginalOnly(r)
      BY <1>1, <3>3 DEF TypeOK, OriginalGet, OriginalOnly, Take
    <3>4. CASE OriginalBackup(r) \/ OriginalBusy(r)
      BY <1>1, <3>4 DEF TypeOK, OriginalBackup, OriginalBusy, Finalize, peerVars, dataVars
    <3>5. CASE TryFails(r) \/ TrySucceeds(r)
      BY <1>1, <3>5 DEF TypeOK, TryFails, TrySucceeds, Release, Finalize, peerVars, dataVars
    <3> QED
      BY <1>1, <3>1, <3>2, <3>3, <3>4, <3>5 DEF Step
  <2> QED
    BY <2>1, TriedFrame DEF TriedBits
<1>2. ASSUME NEW r \in Requests, Step(r) PROVE TriedFor(r)'
  <2> TriedFor(r)
    BY DEF TriedBits
  <2>1. CASE InitPeer(r)
    <3>1. attempted'[r] = {} /\ pc'[r] # "new" /\ UNCHANGED version
      BY <2>1 DEF InitPeer, Finalize, TriedFor, TypeOK, peerVars
    <3>2. config'[r] <= version
      <4>1. config'[r] \in {version, config[r]}
        BY <2>1 DEF InitPeer, TypeOK
      <4> QED
        BY <4>1 DEF TriedFor, TypeOK
    <3> QED
      BY <3>1, <3>2 DEF TriedFor
  <2>2. CASE RunGuest(r) \/ Lock(r) \/ Reject(r) \/ OriginalBusy(r)
    <3>1. /\ pc[r] \in {"guest", "lock", "select"} /\ pc'[r] \in {"lock", "select", "done"}
          /\ UNCHANGED <<list, version, config, group, tried, attempted>>
      BY <2>2 DEF RunGuest, Lock, Reject, OriginalBusy, InSelect, Finalize,
         TypeOK, peerVars, dataVars
    <3> QED
      BY <3>1, TriedMove
  <2>3. CASE SelectPeer(r)
    <3>1. choice[r] \in Nat /\ choice[r] + 1 \in DOMAIN ListOf(r)
          /\ Chosen(r) = ListOf(r)[choice[r] + 1]
      BY <2>3, ChosenPeer DEF SelectPeer
    <3> QED
      BY <2>3, <3>1, TriedTake DEF SelectPeer, InSelect
  <2>4. CASE OriginalGet(r)
    <3>1. PICK i \in Candidates(r) :
            /\ Take(r, ListOf(r)[i + 1])
            /\ tried' = [tried EXCEPT ![r] = @ \cup {i}]
      BY <2>4 DEF OriginalGet
    <3>2. Len(ListOf(r)) \in Nat /\ DOMAIN ListOf(r) = 1..Len(ListOf(r))
      BY DEF ListOf, TypeOK, Groups
    <3>3. i \in Nat /\ i + 1 \in DOMAIN ListOf(r)
      BY <3>2 DEF Candidates
    <3> QED
      BY <2>4, <3>1, <3>3, TriedTake DEF OriginalGet, InSelect
  <2>5. CASE OriginalOnly(r)
    <3>1. pc'[r] = "connected" /\ IsLast(list)' /\ UNCHANGED <<list, version, config, group>>
      BY <2>5 DEF OriginalOnly, Take, TypeOK, IsLast
    <3>2. MembersOf(list["backup"]) = {}
      BY <2>5 DEF OriginalOnly, IsLast, MembersOf
    <3> QED
      BY <3>1, <3>2 DEF TriedFor
  <2>6. CASE OriginalBackup(r)
    <3>1. /\ group'[r] = "backup" /\ UNCHANGED <<list, version, config, attempted>>
          /\ pc'[r] = "lock" /\ group[r] = "primary"
      BY <2>6 DEF OriginalBackup, TypeOK, peerVars
    <3>2. \A i \in DOMAIN list["backup"] : list["backup"][i] \notin attempted[r]
      BY <3>1 DEF TriedFor, MembersOf
    <3>3. ListOf(r)' = list["backup"] /\ ~IsLast(list)'
      BY <2>6, <3>1 DEF ListOf, OriginalBackup, IsLast
    <3> QED
      BY <3>1, <3>2, <3>3 DEF TriedFor
  <2>7. CASE TryFails(r)
    <3>1. UNCHANGED <<list, version, config, group, tried, attempted>> /\ pc[r] = "connected"
      BY <2>7 DEF TryFails, Release, dataVars
    <3>2. pc'[r] \in {"guest", "done"} /\ (pc'[r] = "guest" => ~IsLast(list))
      BY <2>7 DEF TryFails, Release, Finalize, TypeOK
    <3> QED
      BY <3>1, <3>2 DEF TriedFor, ListOf, IsLast
  <2>8. CASE TrySucceeds(r)
    <3>1. UNCHANGED <<list, version, config, group, tried, attempted>> /\ pc'[r] = "done"
      BY <2>8 DEF TrySucceeds, Release, Finalize, TypeOK, dataVars
    <3> QED
      BY <3>1 DEF TriedFor, ListOf, IsLast
  <2> QED
    BY <1>2, <2>1, <2>2, <2>3, <2>4, <2>5, <2>6, <2>7, <2>8 DEF Step
<1>3. ASSUME Resolve, NEW x \in Requests PROVE TriedFor(x)'
  <2>1. list'["backup"] = list["backup"] /\ IsLast(list)' = IsLast(list)
    BY ListsStep
  <2>2. version' = version + 1 /\ UNCHANGED <<pc, config, group, attempted>>
    BY <1>3 DEF Resolve, dataVars
  <2>3. config[x] \in Nat /\ version \in Nat
    BY DEF TypeOK
  <2>4. TriedFor(x)
    BY DEF TriedBits
  <2> QED
    BY <2>1, <2>2, <2>3, <2>4 DEF TriedFor
<1>4. ASSUME UNCHANGED vars \/ \E p \in Peers : TimePasses(p), NEW x \in Requests
      PROVE  TriedFor(x)'
  <2>1. UNCHANGED <<list, version, config, pc, group, tried, attempted>>
    BY <1>4 DEF TimePasses, vars, peerVars, dataVars
  <2> QED
    BY <2>1, TriedFrame DEF TriedBits
<1> QED
  BY <1>1, <1>2, <1>3, <1>4 DEF Next, TriedBits

-----------------------------------------------------------------------------
(* Theorems.                                                               *)

\* IInv is inductive: the base of the theorems below.
THEOREM Inductive == Spec => []IInv
<1>1. Init => IInv
  BY InitIInv
<1>2. IInv /\ [Next]_vars => IInv'
  BY TypeStep, ListsStep, CountedStep, TriedStep, OnlyPeerStep DEF IInv
<1> QED
  BY <1>1, <1>2, PTL DEF Spec

\* For any number of requests and peers, and any limits, the variables keep
\* their types; in particular no count of connections falls below zero.
THEOREM TypeCorrect == Spec => []TypeOK
<1>1. IInv => TypeOK
  BY DEF IInv
<1> QED
  BY <1>1, Inductive, PTL

\* Every peer has as many connections as requests that hold it, and never more
\* than max_conns, whatever the guests of ngx_http_wasm_upstream_get_peer choose.
THEOREM CountsAreRight == Spec => []ConnectionsCounted
<1>1. IInv => ConnectionsCounted
  BY DEF IInv
<1> QED
  BY <1>1, Inductive, PTL

\* No request is given a peer twice, although the list of peers may change
\* between its tries (the test of rrp->config in select_peer).
THEOREM PeersAreTriedOnce == Spec => NoPeerTwice
<1>1. ASSUME IInv, [Next]_vars, NEW r \in Requests, current[r] = None, current'[r] # None
      PROVE  current'[r] \notin attempted[r]
  <2> USE DEF IInv
  <2>1. TriedFor(r)
    BY <1>1 DEF TriedBits
  <2>2. \A x \in Requests : (~TryFails(x) /\ ~TrySucceeds(x)) \/ current'[r] = current[r]
    BY <1>1 DEF TryFails, TrySucceeds, Release, TypeOK
  <2>3. \E x \in Requests : SelectPeer(x) \/ OriginalGet(x) \/ OriginalOnly(x)
    BY <1>1, <2>2 DEF Next, Step, InitPeer, RunGuest, Lock, Reject, OriginalBackup,
       OriginalBusy, TimePasses, Resolve, vars
  <2>4. SelectPeer(r) \/ OriginalGet(r) \/ OriginalOnly(r)
    <3>1. PICK x \in Requests : SelectPeer(x) \/ OriginalGet(x) \/ OriginalOnly(x)
      BY <2>3
    <3>2. \E p : current' = [current EXCEPT ![x] = p]
      BY <3>1 DEF SelectPeer, OriginalGet, OriginalOnly, Take
    <3>3. x = r
      BY <1>1, <3>2 DEF TypeOK
    <3> QED
      BY <3>1, <3>3
  <2>5. CASE SelectPeer(r)
    <3>1. choice[r] \in Nat /\ choice[r] + 1 \in DOMAIN ListOf(r)
          /\ Chosen(r) = ListOf(r)[choice[r] + 1]
      BY <1>1, <2>5, ChosenPeer DEF SelectPeer
    <3>2. current'[r] = Chosen(r)
      BY <1>1, <2>5 DEF SelectPeer, Take, TypeOK
    <3> QED
      BY <2>1, <2>5, <3>1, <3>2 DEF SelectPeer, InSelect, Stale, TriedFor
  <2>6. CASE OriginalGet(r)
    <3>1. PICK i \in Candidates(r) : Take(r, ListOf(r)[i + 1])
      BY <1>1, <2>6 DEF OriginalGet
    <3>2. Len(ListOf(r)) \in Nat /\ DOMAIN ListOf(r) = 1..Len(ListOf(r))
      BY <1>1 DEF ListOf, TypeOK, Groups
    <3>3. i \in Nat /\ i + 1 \in DOMAIN ListOf(r) /\ i \notin tried[r]
      BY <3>2 DEF Candidates
    <3>4. current'[r] = ListOf(r)[i + 1]
      BY <1>1, <3>1 DEF Take, TypeOK
    <3> QED
      BY <2>1, <2>6, <3>3, <3>4 DEF OriginalGet, InSelect, Stale, TriedFor
  <2>7. CASE OriginalOnly(r)
    <3>1. current'[r] = list["primary"][1] /\ pc[r] = "select"
      BY <1>1, <2>7 DEF OriginalOnly, OnlyPeer, Take, TypeOK, InSelect
    <3>2. attempted[r] = {}
      BY <2>1, <2>7 DEF OriginalOnly, InSelect, TriedFor
    <3> QED
      BY <1>1, <3>1, <3>2
  <2> QED
    BY <2>4, <2>5, <2>6, <2>7
<1>2. IInv /\ [Next]_vars =>
        [\A r \in Requests :
           current[r] = None /\ current'[r] # None => current'[r] \notin attempted[r]]_vars
  BY <1>1
<1> QED
  BY <1>2, Inductive, PTL DEF Spec, NoPeerTwice

\* A peer that has failed and is tried again is unavailable to every other
\* request from that step on (select_peer sets peer->checked, as the original
\* balancer does), for any number of requests.
THEOREM FailedPeerIsProbedOnce == Spec => OneProbe
<1>1. ASSUME IInv, [Next]_vars, NEW p \in Peers,
             MaxFails > 0, fails[p] >= MaxFails, conns'[p] > conns[p]
      PROVE  ~FailedLately(p) /\ FailedLately(p)'
  <2> USE <1>1 DEF IInv
  <2>1. ~\E r \in Requests : TryFails(r) \/ TrySucceeds(r)
    <3>1. ASSUME NEW r \in Requests, NEW failed \in BOOLEAN, Release(r, failed)
          PROVE  ~(conns'[p] > conns[p])
      BY <3>1 DEF Release, TypeOK
    <3> QED
      BY <3>1 DEF TryFails, TrySucceeds
  <2>2. ~(UNCHANGED conns)
    BY DEF TypeOK
  <2>3. PICK r \in Requests : SelectPeer(r) \/ OriginalGet(r) \/ OriginalOnly(r)
    BY <2>1, <2>2 DEF Next, Step, InitPeer, RunGuest, Lock, Reject, OriginalBackup,
       OriginalBusy, TimePasses, Resolve, vars, peerVars
  <2>4. ~OriginalOnly(r)
    <3>1. SUFFICES ASSUME OriginalOnly(r) PROVE FALSE
      OBVIOUS
    <3>2. fails[p] = 0
      BY <3>1 DEF OriginalOnly, OnlyPeerNeverFails
    <3> QED
      BY <3>2, BalancerAssumption
  <2>5. PICK q : Take(r, q) /\ NoteCheck(q) /\ Available(q)
    BY <2>3, <2>4 DEF SelectPeer, OriginalGet, Candidates
  <2>6. q = p
    BY <2>5 DEF Take, TypeOK
  <2>7. resting'[p] /\ fails'[p] = fails[p]
    BY <2>5, <2>6 DEF Take, NoteCheck, TypeOK
  <2> QED
    BY <2>5, <2>6, <2>7 DEF Available, FailedLately
<1>2. IInv /\ [Next]_vars =>
        [\A p \in Peers :
           MaxFails > 0 /\ fails[p] >= MaxFails /\ conns'[p] > conns[p]
             => ~FailedLately(p) /\ FailedLately(p)']_vars
  BY <1>1
<1> QED
  BY <1>2, Inductive, PTL DEF Spec, OneProbe
=============================================================================
