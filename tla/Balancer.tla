------------------------------ MODULE Balancer ------------------------------
(***************************************************************************)
(* balancer_by_wasm: the guest that chooses an upstream peer, wrapped      *)
(* around the upstream's own balancer.  The peers are shared by the        *)
(* requests of all the workers; each try of a request runs the guest anew, *)
(* then takes the lock of the list of peers and either checks and takes    *)
(* the peer the guest named or leaves the choice to the original balancer. *)
(*                                                                         *)
(* External, as the code relies on it: nginx's upstream module, which asks *)
(* for a peer, tries the next one when a try fails and gives the peer back *)
(* once; the balancer that is wrapped, which has to be the round-robin one *)
(* since select_peer takes its data for round robin's; the zone that       *)
(* replaces peers whose address has changed.  A peer's references are      *)
(* taken and given back where its connections are counted, so conns stands *)
(* for both.                                                               *)
(***************************************************************************)
EXTENDS Naturals, FiniteSets, Sequences

CONSTANTS
  Requests,
  Peers,           \* every peer there ever is
  Down,            \* those the configuration marks as down
  Upstreams,       \* the upstreams to start from: sequences [primary, backup]
  MaxFails,        \* max_fails of each peer; 0 for none
  MaxConns,        \* max_conns of each peer; 0 for none
  MaxResolves,     \* bound: how often the zone replaces a peer
  None             \* no peer, no request, no choice

Groups == {"primary", "backup"}

MembersOf(s) == {s[i] : i \in DOMAIN s}

\* No peer stands twice in the lists.
Distinct(u) ==
  /\ \A g \in Groups : \A i, j \in DOMAIN u[g] : u[g][i] = u[g][j] => i = j
  /\ MembersOf(u["primary"]) \cap MembersOf(u["backup"]) = {}

ASSUME BalancerAssumption ==
  /\ IsFiniteSet(Requests)
  /\ None \notin Requests \cup Peers \cup Nat
  /\ Upstreams \subseteq [Groups -> Seq(Peers)]
  /\ \A u \in Upstreams : Distinct(u) /\ u["primary"] # <<>>
  /\ Down \subseteq Peers
  /\ MaxFails \in Nat /\ MaxConns \in Nat /\ MaxResolves \in Nat

VARIABLES
  list,        \* rr_peers_t: the peers of each group, in order
  version,     \* *peers->config
  lock,        \* peers->rwlock of each group: who writes, or None
  conns,       \* peer->conns, and the references to the peer
  fails,       \* peer->fails, counted up to MaxFails
  resting,     \* now - peer->checked <= peer->fail_timeout
  probed,      \* peer->accessed < peer->checked
  pc,          \* where each request is
  group,       \* rrp->peers
  tried,       \* rrp->tried: the indices whose bit is set
  current,     \* rrp->current while pc->sockaddr is set, None otherwise
  tries,       \* pc->tries
  config,      \* rrp->config
  choice,      \* the index the guest has set, None when it set none
  answer,      \* how the upstream request ended
  attempted    \* history: the peers the request was given

peerVars == <<list, version, conns, fails, resting, probed>>
dataVars == <<group, tried, config>>
vars == <<peerVars, lock, pc, dataVars, current, tries, choice, answer,
          attempted>>

Points == {"new", "guest", "lock", "select", "connected", "done"}
Answers == {"none", "ok", "busy", "error"}
PeerCount == Cardinality(Peers)

TypeOK ==
  /\ list \in [Groups -> Seq(Peers)]
  /\ version \in Nat
  /\ lock \in [Groups -> Requests \cup {None}]
  /\ conns \in [Peers -> Nat]
  /\ fails \in [Peers -> 0..MaxFails]
  /\ resting \in [Peers -> BOOLEAN] /\ probed \in [Peers -> BOOLEAN]
  /\ pc \in [Requests -> Points]
  /\ group \in [Requests -> Groups]
  /\ tried \in [Requests -> SUBSET Nat]
  /\ current \in [Requests -> Peers \cup {None}]
  /\ tries \in [Requests -> Nat]
  /\ config \in [Requests -> Nat]
  /\ choice \in [Requests -> Nat \cup {None}]
  /\ answer \in [Requests -> Answers]
  /\ attempted \in [Requests -> SUBSET Peers]

Holders(p) == {r \in Requests : current[r] = p}
ListOf(r) == list[group[r]]
IsLast(u) == Len(u["primary"]) = 1 /\ u["backup"] = <<>>

Init ==
  /\ list \in Upstreams
  /\ version = 0
  /\ lock = [g \in Groups |-> None]
  /\ conns = [p \in Peers |-> 0] /\ fails = [p \in Peers |-> 0]
  /\ resting = [p \in Peers |-> FALSE] /\ probed = [p \in Peers |-> FALSE]
  /\ pc = [r \in Requests |-> "new"]
  /\ group = [r \in Requests |-> "primary"]
  /\ tried = [r \in Requests |-> {}]
  /\ current = [r \in Requests |-> None]
  /\ tries = [r \in Requests |-> 0]
  /\ config = [r \in Requests |-> 0]
  /\ choice = [r \in Requests |-> None]
  /\ answer = [r \in Requests |-> "none"]
  /\ attempted = [r \in Requests |-> {}]

-----------------------------------------------------------------------------
(* The peers.                                                              *)

\* It has failed max_fails times, and fail_timeout has not passed since it was
\* last checked.
FailedLately(p) == MaxFails > 0 /\ fails[p] >= MaxFails /\ resting[p]

\* max_conns is left to the round-robin balancer.
AvailableMutant(p) == p \notin Down /\ ~FailedLately(p)

Saturated(p) == MaxConns > 0 /\ conns[p] >= MaxConns

\* Neither down nor failed lately nor saturated.  The lock of the peer is taken and
\* given back inside the section of the lock of the list, in one step here.
Available(p) == p \notin Down /\ ~FailedLately(p) /\ ~Saturated(p)

\* The failed peer is tried without noting when.
NoteCheckMutant(p) == UNCHANGED <<resting, probed>>

\* A peer not checked for fail_timeout is checked now.
NoteCheck(p) ==
  /\ resting' = [resting EXCEPT ![p] = TRUE]
  /\ probed' = [probed EXCEPT ![p] = ~resting[p] \/ @]

\* The request is given peer p.
Take(r, p) ==
  /\ current' = [current EXCEPT ![r] = p]
  /\ conns' = [conns EXCEPT ![p] = @ + 1]
  /\ attempted' = [attempted EXCEPT ![r] = @ \cup {p}]
  /\ pc' = [pc EXCEPT ![r] = "connected"]
  /\ lock' = [lock EXCEPT ![group[r]] = None]
  /\ UNCHANGED <<list, version, fails, group, config, tries, choice, answer>>

\* ngx_http_wasm_upstream_free_peer and the original free it calls.  The only
\* peer of an upstream is never put to rest, and never tried again.
Release(r, failed) ==
  LET p == current[r]
      last == IsLast(list) IN
  /\ lock[group[r]] = None
  /\ current' = [current EXCEPT ![r] = None]
  /\ conns' = [conns EXCEPT ![p] = @ - 1]
  /\ fails' = [fails EXCEPT ![p] =
                 IF last THEN 0
                 ELSE IF failed THEN IF @ < MaxFails THEN @ + 1 ELSE @
                 ELSE IF probed[p] THEN 0 ELSE @]
  /\ resting' = [resting EXCEPT ![p] = @ \/ (failed /\ ~last)]
  /\ probed' = [probed EXCEPT ![p] = @ /\ ~(failed /\ ~last)]
  /\ tries' = [tries EXCEPT ![r] = IF last \/ @ = 0 THEN 0 ELSE @ - 1]
  /\ UNCHANGED <<list, version, lock>>

-----------------------------------------------------------------------------
(* A request of the upstream.                                              *)

Finalize(r, how) ==
  /\ pc' = [pc EXCEPT ![r] = "done"]
  /\ answer' = [answer EXCEPT ![r] = how]

Unlock(r) == lock' = [lock EXCEPT ![group[r]] = None]

UpIn(g) == {i \in DOMAIN list[g] : list[g][i] \notin Down}

\* ngx_http_wasm_upstream_init_peer: the original balancer's data is made and
\* wrapped, with as many tries as there are peers that are not down; no memory ends
\* the request.
InitPeer(r) ==
  /\ pc[r] = "new"
  /\ \/ /\ config' = [config EXCEPT ![r] = version]
        /\ tries' = [tries EXCEPT ![r] =
                       Cardinality(UpIn("primary")) + Cardinality(UpIn("backup"))]
        /\ pc' = [pc EXCEPT ![r] = "guest"]
        /\ UNCHANGED answer
     \/ Finalize(r, "error") /\ UNCHANGED <<config, tries>>
  /\ UNCHANGED <<peerVars, lock, group, tried, current, choice, attempted>>

\* What ngx_wasm_balancer_set_peer may leave behind: the last index it accepted
\* (any that is not negative, listed or not), or none.
GuestChoices == 0..PeerCount \cup {None}

\* The guest of ngx_http_wasm_upstream_get_peer, run from the start for every
\* try: it sets a peer or none, or fails, which fails the request.
RunGuest(r) ==
  /\ pc[r] = "guest"
  /\ \/ /\ choice' \in {[choice EXCEPT ![r] = c] : c \in GuestChoices}
        /\ pc' = [pc EXCEPT ![r] = "lock"]
        /\ UNCHANGED answer
     \/ Finalize(r, "error") /\ UNCHANGED choice
  /\ UNCHANGED <<peerVars, lock, dataVars, current, tries, attempted>>

\* ngx_http_upstream_rr_peers_wlock, of the group the request is at.
Lock(r) ==
  /\ pc[r] = "lock"
  /\ lock[group[r]] = None
  /\ lock' = [lock EXCEPT ![group[r]] = r]
  /\ pc' = [pc EXCEPT ![r] = "select"]
  /\ UNCHANGED <<peerVars, dataVars, current, tries, choice, answer, attempted>>

InSelect(r) == pc[r] = "select" /\ lock[group[r]] = r

StaleMutant(r) == FALSE

\* The zone has replaced a peer since the request began.
Stale(r) == config[r] # version

\* A guest's index past the end of the list.
OutOfRange(r) == choice[r] >= Len(ListOf(r))
Chosen(r) == ListOf(r)[choice[r] + 1]

\* The early returns of ngx_http_wasm_balancer_select_peer: they unlock, and
\* nginx ends the request, with NGX_BUSY or NGX_ERROR.
RejectMutant(r) ==
  /\ InSelect(r) /\ choice[r] # None
  /\ \/ Stale(r) /\ Unlock(r) /\ Finalize(r, "busy")
     \/ ~Stale(r) /\ OutOfRange(r) /\ Unlock(r) /\ Finalize(r, "error")
     \/ /\ ~Stale(r) /\ ~OutOfRange(r)
        /\ choice[r] \in tried[r] \/ ~Available(Chosen(r))
        /\ Finalize(r, "busy")
        /\ UNCHANGED lock
  /\ UNCHANGED <<peerVars, dataVars, current, tries, choice, attempted>>

Reject(r) ==
  /\ InSelect(r) /\ choice[r] # None
  /\ \/ Stale(r) /\ Finalize(r, "busy")
     \/ ~Stale(r) /\ OutOfRange(r) /\ Finalize(r, "error")
     \/ /\ ~Stale(r) /\ ~OutOfRange(r)
        /\ choice[r] \in tried[r] \/ ~Available(Chosen(r))
        /\ Finalize(r, "busy")
  /\ Unlock(r)
  /\ UNCHANGED <<peerVars, dataVars, current, tries, choice, attempted>>

\* ngx_http_wasm_balancer_select_peer, to its end.
SelectPeer(r) ==
  /\ InSelect(r) /\ choice[r] # None
  /\ ~Stale(r) /\ ~OutOfRange(r)
  /\ choice[r] \notin tried[r] /\ Available(Chosen(r))
  /\ Take(r, Chosen(r))
  /\ NoteCheck(Chosen(r))
  /\ tried' = [tried EXCEPT ![r] = @ \cup {choice[r]}]

\* What the round-robin balancer may choose from (its weights are left out).
Candidates(r) ==
  {i \in 0..(Len(ListOf(r)) - 1) :
     i \notin tried[r] /\ Available(ListOf(r)[i + 1])}

OriginalGet(r) ==
  /\ InSelect(r) /\ choice[r] = None /\ ~Stale(r) /\ ~IsLast(list)
  /\ \E i \in Candidates(r) :
       /\ Take(r, ListOf(r)[i + 1])
       /\ NoteCheck(ListOf(r)[i + 1])
       /\ tried' = [tried EXCEPT ![r] = @ \cup {i}]

\* The only peer is taken unless it is down or saturated, and nothing is noted of it.
OnlyPeer == list["primary"][1]
OnlyPeerIsFree == OnlyPeer \notin Down /\ ~Saturated(OnlyPeer)

OriginalOnly(r) ==
  /\ InSelect(r) /\ choice[r] = None /\ ~Stale(r) /\ IsLast(list)
  /\ OnlyPeerIsFree
  /\ Take(r, OnlyPeer)
  /\ UNCHANGED <<resting, probed, tried>>

NoCandidate(r) ==
  IF IsLast(list) THEN ~OnlyPeerIsFree ELSE Candidates(r) = {}

\* Without a candidate it goes over to the backup peers, for good.
OriginalBackup(r) ==
  /\ InSelect(r) /\ choice[r] = None /\ ~Stale(r)
  /\ NoCandidate(r) /\ group[r] = "primary" /\ list["backup"] # <<>>
  /\ group' = [group EXCEPT ![r] = "backup"]
  /\ tried' = [tried EXCEPT ![r] = {}]
  /\ Unlock(r)
  /\ pc' = [pc EXCEPT ![r] = "lock"]
  /\ UNCHANGED <<peerVars, config, current, tries, choice, answer, attempted>>

OriginalBusy(r) ==
  /\ InSelect(r) /\ choice[r] = None
  /\ \/ Stale(r)
     \/ NoCandidate(r) /\ (group[r] = "backup" \/ list["backup"] = <<>>)
  /\ Finalize(r, "busy")
  /\ Unlock(r)
  /\ UNCHANGED <<peerVars, dataVars, current, tries, choice, attempted>>

\* nginx frees a peer whose try has failed, and asks for the next one while
\* tries are left.
TryFails(r) ==
  /\ pc[r] = "connected"
  /\ Release(r, TRUE)
  /\ \/ /\ tries'[r] > 0
        /\ pc' = [pc EXCEPT ![r] = "guest"]
        /\ choice' = [choice EXCEPT ![r] = None]
        /\ UNCHANGED answer
     \/ Finalize(r, "error") /\ UNCHANGED choice
  /\ UNCHANGED <<dataVars, attempted>>

\* The response is complete, or the client or a local error ends the request.
TrySucceeds(r) ==
  /\ pc[r] = "connected"
  /\ Release(r, FALSE)
  /\ \E how \in {"ok", "error"} : Finalize(r, how)
  /\ UNCHANGED <<dataVars, choice, attempted>>

Step(r) ==
  \/ InitPeer(r) \/ RunGuest(r) \/ Lock(r)
  \/ Reject(r) \/ SelectPeer(r)
  \/ OriginalGet(r) \/ OriginalOnly(r) \/ OriginalBackup(r) \/ OriginalBusy(r)
  \/ TryFails(r) \/ TrySucceeds(r)

-----------------------------------------------------------------------------
(* What happens besides.                                                   *)

\* fail_timeout goes by since the peer was checked.
TimePasses(p) ==
  /\ resting[p]
  /\ resting' = [resting EXCEPT ![p] = FALSE]
  /\ UNCHANGED <<list, version, conns, fails, probed, lock, pc, dataVars,
                 current, tries, choice, answer, attempted>>

Unused(p) == conns[p] = 0 /\ fails[p] = 0 /\ ~resting[p] /\ ~probed[p]

\* The zone replaces peers of the list, whose order may change; one that is
\* removed stays until no request refers to it.
Resolve ==
  /\ version < MaxResolves
  /\ lock["primary"] = None
  /\ version' = version + 1
  /\ \E s \in [DOMAIN list["primary"] -> Peers] :
       /\ list' = [list EXCEPT !["primary"] = s]
       /\ Distinct(list')
       /\ \A p \in MembersOf(s) \ MembersOf(list["primary"]) : Unused(p)
       /\ MembersOf(s) # MembersOf(list["primary"])
  /\ UNCHANGED <<conns, fails, resting, probed, lock, pc, dataVars, current,
                 tries, choice, answer, attempted>>

Next ==
  \/ \E r \in Requests : Step(r)
  \/ \E p \in Peers : TimePasses(p)
  \/ Resolve

Spec == Init /\ [][Next]_vars

\* Workers go on with what they do and connections end.  No request takes a
\* lock for ever again, so none of them needs more than weak fairness to get it.
FairSpec == Spec /\ \A r \in Requests : WF_vars(Step(r))

-----------------------------------------------------------------------------
(* Properties.                                                             *)

\* The choice of a guest keeps the accounting of the original balancer right:
\* whatever the workers interleave, a peer has as many connections (and
\* references) as there are requests that hold it, never more than max_conns,
\* and a request that has ended holds none.
ConnectionsCounted ==
  /\ \A p \in Peers :
       /\ conns[p] = Cardinality(Holders(p))
       /\ MaxConns > 0 => conns[p] <= MaxConns
  /\ \A r \in Requests : pc[r] = "connected" <=> current[r] # None

\* Neither the guest nor the original balancer gives one request the same peer
\* twice: the bits in rrp->tried still mean the same peers when the list has
\* changed, or the request is turned away.
NoPeerTwice ==
  [][\A r \in Requests :
       current[r] = None /\ current'[r] # None => current'[r] \notin attempted[r]]_vars

\* A peer that has failed is tried by one request per fail_timeout, whether a
\* guest or the original balancer chooses it: it is taken only when that time has
\* passed, and whoever takes it starts it anew in the same step, for all others.
OneProbe ==
  [][\A p \in Peers :
       MaxFails > 0 /\ fails[p] >= MaxFails /\ conns'[p] > conns[p]
         => ~FailedLately(p) /\ FailedLately(p)']_vars

\* What makes NoPeerTwice and OneProbe inductive.  A request that still may ask
\* for a peer has set the bit of each listed peer it was given.
TriedFor(r) ==
  /\ config[r] <= version
  /\ pc[r] = "new" => attempted[r] = {}
  /\ IsLast(list) => attempted[r] = {} \/ pc[r] \in {"connected", "done"}
  /\ group[r] = "primary" => attempted[r] \cap MembersOf(list["backup"]) = {}
  /\ /\ config[r] = version
     /\ \/ pc[r] \in {"guest", "lock", "select"}
        \/ pc[r] = "connected" /\ ~IsLast(list)
     => \A i \in DOMAIN ListOf(r) :
          ListOf(r)[i] \in attempted[r] => i - 1 \in tried[r]

TriedBits == \A r \in Requests : TriedFor(r)

\* The only peer of an upstream is never counted as failed.
OnlyPeerNeverFails == IsLast(list) => \A p \in Peers : fails[p] = 0

ListsOK == Distinct(list) /\ list["primary"] # <<>>

IInv ==
  TypeOK /\ ListsOK /\ ConnectionsCounted /\ TriedBits /\ OnlyPeerNeverFails

\* Every request ends: no exit of select_peer keeps a lock, and the tries of a
\* request run out whatever the guest chooses.
EveryRequestEnds == \A r \in Requests : pc[r] # "new" ~> pc[r] = "done"
=============================================================================
