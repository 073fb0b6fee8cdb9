-------------------------- MODULE WasmRequestProofs --------------------------
(***************************************************************************)
(* The life of a request: its references, wake-ups, phases and end, and    *)
(* its use of the execution contract, for every set of deployments and     *)
(* clients, every budget, and any number of subrequests at a time.         *)
(***************************************************************************)
EXTENDS WasmRequest, FiniteSetTheorems, FunctionTheorems, SequenceTheorems, TLAPS

-----------------------------------------------------------------------------
(* The list of posted requests.                                            *)

Queues == Seq({"main", "sub"})
Places(q) == {i \in DOMAIN q : q[i] = "sub"}

\* Subrequests in a list can be counted.
LEMMA SubsAreCounted ==
  ASSUME NEW q \in Queues
  PROVE  IsFiniteSet(Places(q)) /\ Subs(q) = Cardinality(Places(q)) /\ Subs(q) \in Nat
<1>1. Places(q) \subseteq 1..Len(q) /\ Len(q) \in Nat
  BY DEF Places, Queues
<1>2. IsFiniteSet(1..Len(q))
  BY <1>1, FS_Interval
<1>3. IsFiniteSet(Places(q))
  BY <1>1, <1>2, FS_Subset
<1> QED
  BY <1>3, FS_CardinalityType DEF Subs, Places

\* Nobody waits in an empty list.
LEMMA EmptyQueue ==
  <<>> \in Queues /\ Subs(<<>>) = 0 /\ \A who : ~Has(<<>>, who)
<1>1. Places(<<>>) = {}
  BY DEF Places
<1>2. <<>> \in Queues
  BY EmptySeq DEF Queues
<1>3. Subs(<<>>) = 0
  BY <1>1, <1>2, SubsAreCounted, FS_EmptySet
<1> QED
  BY <1>2, <1>3 DEF Has

\* A request is posted at the end.
LEMMA PostQueue ==
  ASSUME NEW q \in Queues, NEW who \in {"main", "sub"}
  PROVE  /\ Append(q, who) \in Queues /\ Append(q, who) # <<>>
         /\ Has(Append(q, who), who)
         /\ \A x : Has(q, x) => Has(Append(q, who), x)
         /\ Subs(Append(q, who)) = Subs(q) + (IF who = "sub" THEN 1 ELSE 0)
<1> DEFINE n == Len(q) + 1
<1>1. /\ Append(q, who) \in Queues /\ DOMAIN Append(q, who) = 1..n
      /\ DOMAIN q = 1..Len(q) /\ Len(q) \in Nat
      /\ Append(q, who)[n] = who
      /\ \A i \in 1..Len(q) : Append(q, who)[i] = q[i]
  BY DEF Queues
<1>2. n \in 1..n /\ n \notin 1..Len(q) /\ \A i \in 1..n : i # n => i \in 1..Len(q)
  BY <1>1
<1>3. Has(Append(q, who), who) /\ Append(q, who) # <<>>
  BY <1>1, <1>2 DEF Has
<1>4. ASSUME NEW x, Has(q, x) PROVE Has(Append(q, who), x)
  BY <1>1, <1>4 DEF Has
<1>5. CASE who = "sub"
  <2>1. Places(Append(q, who)) = Places(q) \cup {n} /\ n \notin Places(q)
    BY <1>1, <1>2, <1>5 DEF Places
  <2>2. Cardinality(Places(q) \cup {n}) = Cardinality(Places(q)) + 1
    BY <2>1, SubsAreCounted, FS_AddElement
  <2> QED
    BY <1>1, <1>3, <1>4, <1>5, <2>1, <2>2, SubsAreCounted
<1>6. CASE who = "main"
  <2>1. Places(Append(q, who)) = Places(q)
    BY <1>1, <1>2, <1>6 DEF Places
  <2> QED
    BY <1>1, <1>3, <1>4, <1>6, <2>1, SubsAreCounted
<1> QED
  BY <1>5, <1>6

\* The first of the list is taken.
LEMMA TakeQueue ==
  ASSUME NEW q \in Queues, q # <<>>
  PROVE  /\ Tail(q) \in Queues /\ Head(q) \in {"main", "sub"}
         /\ \A x : Has(q, x) /\ x # Head(q) => Has(Tail(q), x)
         /\ Subs(q) = Subs(Tail(q)) + (IF Head(q) = "sub" THEN 1 ELSE 0)
<1>1. /\ Tail(q) \in Queues /\ Head(q) \in {"main", "sub"} /\ Head(q) = q[1]
      /\ Len(q) \in Nat \ {0} /\ DOMAIN q = 1..Len(q)
      /\ DOMAIN Tail(q) = 1..(Len(q) - 1)
      /\ \A i \in 1..(Len(q) - 1) : Tail(q)[i] = q[i + 1]
  BY HeadTailProperties, LenProperties DEF Queues
<1>2. ASSUME NEW i \in 1..Len(q), i # 1
      PROVE  i - 1 \in 1..(Len(q) - 1) /\ Tail(q)[i - 1] = q[i]
  BY <1>1, <1>2
<1>3. ASSUME NEW x, Has(q, x), x # Head(q) PROVE Has(Tail(q), x)
  BY <1>1, <1>2, <1>3 DEF Has
<1> DEFINE Rest == Places(q) \ {1}
           shift == [i \in Rest |-> i - 1]
<1>4. shift \in Bijection(Rest, Places(Tail(q)))
  <2>1. \A i \in Rest : i \in 1..Len(q) /\ i # 1 /\ q[i] = "sub"
    BY <1>1 DEF Places
  <2>2. shift \in [Rest -> Places(Tail(q))]
    BY <1>1, <1>2, <2>1 DEF Places
  <2>3. \A i, j \in Rest : shift[i] = shift[j] => i = j
    BY <2>1
  <2>4. \A t \in Places(Tail(q)) : \E i \in Rest : shift[i] = t
    <3> TAKE t \in Places(Tail(q))
    <3>1. t \in 1..(Len(q) - 1) /\ q[t + 1] = "sub"
      BY <1>1 DEF Places
    <3>2. t + 1 \in Rest /\ shift[t + 1] = t
      BY <1>1, <3>1 DEF Places
    <3> QED
      BY <3>2
  <2> QED
    BY <2>2, <2>3, <2>4, Fun_IsBij
<1>5. IsFiniteSet(Rest) /\ Cardinality(Rest) = Cardinality(Places(Tail(q)))
  <2>1. IsFiniteSet(Rest)
    BY SubsAreCounted, FS_RemoveElement
  <2>2. ExistsBijection(Rest, Places(Tail(q)))
    BY <1>4 DEF ExistsBijection
  <2> QED
    BY <2>1, <2>2, FS_Bijection
<1>6. Cardinality(Rest) = Cardinality(Places(q)) - (IF Head(q) = "sub" THEN 1 ELSE 0)
  <2>1. 1 \in Places(q) <=> Head(q) = "sub"
    BY <1>1 DEF Places
  <2>2. Cardinality(Rest) = IF 1 \in Places(q) THEN Cardinality(Places(q)) - 1
                                                ELSE Cardinality(Places(q))
    BY SubsAreCounted, FS_RemoveElement
  <2> QED
    BY <2>1, <2>2, SubsAreCounted
<1>7. Subs(q) = Subs(Tail(q)) + (IF Head(q) = "sub" THEN 1 ELSE 0)
  <2>1. Subs(q) = Cardinality(Places(q)) /\ Subs(q) \in Nat
        /\ Subs(Tail(q)) = Cardinality(Places(Tail(q))) /\ Subs(Tail(q)) \in Nat
    BY <1>1, SubsAreCounted
  <2> QED
    BY <1>5, <1>6, <2>1
<1> QED
  BY <1>1, <1>3, <1>7

-----------------------------------------------------------------------------
(* Where a request begins, and where it ends.                              *)

\* The names of the phases.
LEMMA Phases == PhaseNames = {"server_rewrite", "rewrite", "content"}
  BY DEF PhaseNames, PhaseOrder, Range

\* What arithmetic needs of the assumption.
LEMMA BoundsAreNumbers == Budget \in Nat /\ MaxSubs \in Nat
  BY RequestAssumption DEF RequestAssumption

\* What a site is.
LEMMA SitesAreSites ==
  \A s \in Sites : s \in [phases : SUBSET PhaseNames, buffering : BOOLEAN, body : Bodies]
  BY RequestAssumption DEF RequestAssumption

\* A request that was read satisfies the invariant.
LEMMA InitIInv == Init => IInv
<1> SUFFICES ASSUME Init PROVE IInv
  OBVIOUS
<1> USE BoundsAreNumbers, Phases, EmptyQueue DEF Init, Exec!Init, Unfinished
<1>1. TypeOK
  <2>1. 0 \in 0..Budget /\ 1 \in 0..(MaxSubs + 2) /\ 0 \in 0..MaxSubs
    OBVIOUS
  <2>2. posted \in Seq({"main", "sub"}) /\ phase \in PhaseNames
    BY DEF Queues
  <2> QED
    BY <2>1, <2>2 DEF TypeOK, Exec!Idle, Exec!Kinds
<1>2. EndsOnce /\ AtWork /\ Returned /\ WaitingIsHeld /\ Answered
  BY DEF EndsOnce, AtWork, Returned, WaitingIsHeld, Answered
<1>3. BetweenPhases /\ BodyFirst
  BY DEF BetweenPhases, BodyFirst, Precedes
<1>4. ReferencesMatch /\ WakeUpComes
  BY DEF ReferencesMatch, WakeUpComes, Held
<1> QED
  BY <1>1, <1>2, <1>3, <1>4 DEF IInv

\* The request is freed, by nginx or by a client that is gone.
LEMMA FreeStep ==
  ASSUME IInv, NEW how \in {"closed", "aborted"}, Free(how),
         UNCHANGED <<site, ctxVars, ready, bodyStatus, abiVars, active, caller, rc, phase>>,
         reading' \in BOOLEAN, sent' \in BOOLEAN, weh' \in {weh, "empty"},
         sent => sent', how = "closed" /\ ReadsInTime(site) => sent'
  PROVE  IInv'
<1> USE BoundsAreNumbers, EmptyQueue DEF IInv, Free, ctxVars, abiVars, Unfinished
<1>1. TypeOK'
  BY DEF TypeOK, Queues
<1>2. EndsOnce' /\ BetweenPhases' /\ AtWork' /\ Returned'
  BY DEF EndsOnce, BetweenPhases, AtWork, Returned
<1>3. WaitingIsHeld' /\ WakeUpComes' /\ BodyFirst'
  BY DEF WaitingIsHeld, WakeUpComes, BodyFirst
<1>4. ReferencesMatch' /\ Answered'
  BY DEF ReferencesMatch, Answered
<1> QED
  BY <1>1, <1>2, <1>3, <1>4

\* The output of a request is finalized: it ends, or waits for its subrequests.
LEMMA OutputStep ==
  ASSUME IInv, FinalizeOutput, pc \in {"phases", "return"}, ~Held, ~reading,
         UNCHANGED <<site, ctxVars, bodyVars, abiVars, active, caller, rc, phase>>,
         sent' = TRUE
  PROVE  IInv'
<1> USE DEF execVars, ctxVars, bodyVars, abiVars
<1>1. Subs(posted) \in Nat /\ upstream \in Nat /\ count = 1 + Unfinished
  BY SubsAreCounted DEF IInv, TypeOK, Queues, ReferencesMatch, Unfinished
<1>2. CASE Unfinished > 0
  <2> USE <1>2, BoundsAreNumbers DEF IInv, FinalizeOutput, Unfinished
  <2>1. /\ weh' = "writer" /\ pc' = "posted"
        /\ UNCHANGED <<execVars, count, posted, upstream, conn>>
    OBVIOUS
  <2>2. TypeOK'
    BY <2>1 DEF TypeOK
  <2>3. EndsOnce' /\ BetweenPhases' /\ AtWork' /\ Returned'
    BY <2>1 DEF EndsOnce, BetweenPhases, AtWork, Returned
  <2>4. WaitingIsHeld' /\ WakeUpComes' /\ BodyFirst'
    BY <2>1 DEF WaitingIsHeld, WakeUpComes, BodyFirst
  <2>5. ReferencesMatch' /\ Answered'
    BY <1>1, <2>1 DEF ReferencesMatch, Answered, Held
  <2> QED
    BY <2>2, <2>3, <2>4, <2>5
<1>3. CASE ~(Unfinished > 0)
  <2>1. count = 1
    BY <1>1, <1>3 DEF Unfinished
  <2>2. Free("closed") /\ weh' = "empty"
    BY <1>3, <2>1 DEF FinalizeOutput, Release
  <2>3. reading' \in BOOLEAN /\ sent' \in BOOLEAN
    BY DEF IInv, TypeOK
  <2> QED
    BY <2>2, <2>3, FreeStep
<1> QED
  BY <1>2, <1>3

-----------------------------------------------------------------------------
(* The phase engine and the request body.                                  *)

\* A phase without a handler is passed by, or somebody else answers.
LEMMA SkipPhaseStep ==
  ASSUME IInv, SkipPhase
  PROVE  IInv'
<1> USE Phases DEF execVars, ctxVars, bodyVars, abiVars
<1>1. CASE phase = "content"
  <2>1. pc = "phases" /\ ~Held /\ ~reading
    BY DEF IInv, SkipPhase, BodyFirst, Held
  <2> QED
    BY <1>1, <2>1, OutputStep DEF SkipPhase
<1>2. CASE phase # "content"
  <2>1. /\ pc = "phases" /\ phase \notin site.phases /\ phase' = NextPhase(phase)
        /\ UNCHANGED <<site, execVars, ctxVars, bodyVars, abiVars, active, caller, rc,
                       pc, weh, count, posted, upstream, sent, conn>>
    BY <1>2 DEF SkipPhase
  <2> USE <1>2, <2>1 DEF IInv
  <2>2. TypeOK'
    BY DEF TypeOK, NextPhase
  <2>3. \A p \in site.phases : Precedes(p, phase') => Precedes(p, phase)
    <3>1. site.phases \subseteq PhaseNames
      BY SitesAreSites DEF TypeOK
    <3> QED
      BY <3>1 DEF TypeOK, Precedes, NextPhase
  <2>4. EndsOnce' /\ AtWork' /\ Returned'
    BY DEF EndsOnce, AtWork, Returned
  <2>5. BetweenPhases'
    BY <2>3 DEF BetweenPhases, Exec!Init
  <2>6. WaitingIsHeld' /\ WakeUpComes'
    BY DEF WaitingIsHeld, WakeUpComes, EndsOnce, AtWork, BetweenPhases, Exec!Init, Unfinished
  <2>7. BodyFirst' /\ ReferencesMatch' /\ Answered'
    BY DEF BodyFirst, ReferencesMatch, Answered, Held, Unfinished,
           BetweenPhases, Exec!Init
  <2> QED
    BY <2>2, <2>4, <2>5, <2>6, <2>7
<1> QED
  BY <1>1, <1>2

\* A phase with a handler is entered.
LEMMA EnterPhaseStep ==
  ASSUME IInv, EnterPhase
  PROVE  IInv'
<1> USE DEF IInv, EnterPhase, execVars, ctxVars, bodyVars, abiVars, Unfinished
<1>1. TypeOK'
  BY DEF TypeOK
<1>2. EndsOnce' /\ AtWork' /\ Returned'
  BY DEF EndsOnce, AtWork, Returned
<1>3. BetweenPhases'
  BY DEF BetweenPhases, Exec!Init
<1>4. WaitingIsHeld' /\ WakeUpComes' /\ BodyFirst'
  BY DEF WaitingIsHeld, WakeUpComes, BodyFirst
<1>5. ReferencesMatch' /\ Answered'
  BY DEF ReferencesMatch, Answered, Held
<1> QED
  BY <1>1, <1>2, <1>3, <1>4, <1>5

\* The context is bound to the phase, or stays bound to it.
LEMMA BindPhaseStep ==
  ASSUME IInv, BindPhase
  PROVE  IInv'
<1> USE Phases DEF execVars, ctxVars, bodyVars, abiVars, nginxVars
<1>1. /\ pc = "bind" /\ ~waiting /\ caller = "phase" /\ ~reading
      /\ UNCHANGED <<site, waiting, bodyVars, active, caller, nginxVars>>
  BY DEF IInv, BindPhase, WaitingIsHeld, BodyFirst
<1>2. CASE BindsAnew
  <2>1. /\ status' = "READY" /\ wait' = "NONE" /\ spent' = 0 /\ accounted' = 0
        /\ bound' = phase /\ completed' = FALSE /\ bodySet' = FALSE /\ produced' = FALSE
        /\ pc' = "body" /\ UNCHANGED rc
    BY <1>2 DEF BindPhase, InitRequestExec
  <2> USE <1>1, <2>1, BoundsAreNumbers DEF IInv, Unfinished
  <2>2. TypeOK'
    <3>1. spent' \in 0..Budget /\ accounted' \in 0..Budget
      OBVIOUS
    <3>2. /\ status' \in Exec!Idle /\ wait' \in Exec!Kinds /\ bound' \in PhaseNames
          /\ completed' \in BOOLEAN /\ bodySet' \in BOOLEAN /\ produced' \in BOOLEAN
      BY DEF TypeOK, Exec!Idle, Exec!Kinds
    <3> QED
      BY <3>1, <3>2 DEF TypeOK
  <2>3. EndsOnce' /\ BetweenPhases' /\ AtWork' /\ Returned'
    BY DEF EndsOnce, BetweenPhases, AtWork, Returned
  <2>4. WaitingIsHeld' /\ WakeUpComes'
    BY DEF WaitingIsHeld, WakeUpComes
  <2>5. BodyFirst'
    <3>1. bound # "none" /\ site.buffering => ready
      BY DEF BodyFirst
    <3>2. bound = "none" => /\ posted = <<>> /\ upstream = 0
                            /\ \A p \in site.phases : ~Precedes(p, phase)
      BY DEF BetweenPhases, Rewrites
    <3> QED
      BY <3>1, <3>2 DEF BodyFirst
  <2>6. ReferencesMatch' /\ Answered'
    BY DEF ReferencesMatch, Answered, Held
  <2> QED
    BY <2>2, <2>3, <2>4, <2>5, <2>6
<1>3. CASE ~BindsAnew
  <2>1. /\ bound = phase /\ bound \in Rewrites /\ completed /\ status = "DONE" /\ ~produced
    BY <1>1, <1>3 DEF IInv, BindsAnew, BetweenPhases
  <2>2. /\ UNCHANGED <<execVars, bound, completed, abiVars>>
        /\ pc' = "return" /\ rc' = "declined"
    BY <1>3, <2>1 DEF BindPhase
  <2> USE <1>1, <2>1, <2>2 DEF IInv, Unfinished
  <2>3. TypeOK'
    BY DEF TypeOK
  <2>4. EndsOnce' /\ BetweenPhases' /\ AtWork' /\ Returned'
    BY DEF EndsOnce, BetweenPhases, AtWork, Returned
  <2>5. WaitingIsHeld' /\ WakeUpComes' /\ BodyFirst'
    BY DEF WaitingIsHeld, WakeUpComes, BodyFirst, Rewrites
  <2>6. ReferencesMatch' /\ Answered'
    BY DEF ReferencesMatch, Answered, Held
  <2> QED
    BY <2>3, <2>4, <2>5, <2>6
<1> QED
  BY <1>2, <1>3

\* There is no context for the phase.
LEMMA ContextFailsStep ==
  ASSUME IInv, ContextFails
  PROVE  IInv'
<1> USE DEF IInv, ContextFails, execVars, ctxVars, bodyVars, abiVars, nginxVars, Unfinished
<1>1. TypeOK'
  BY DEF TypeOK
<1>2. EndsOnce' /\ BetweenPhases' /\ AtWork' /\ Returned'
  BY DEF EndsOnce, BetweenPhases, AtWork, Returned
<1>3. WaitingIsHeld' /\ WakeUpComes' /\ BodyFirst'
  BY DEF WaitingIsHeld, WakeUpComes, BodyFirst, BetweenPhases
<1>4. ReferencesMatch' /\ Answered'
  BY DEF ReferencesMatch, Answered, Held
<1> QED
  BY <1>1, <1>2, <1>3, <1>4

\* The body is there, is refused, cannot be read, or is waited for: the reference
\* taken for the reading is given back.
LEMMA PrepareBodyStep ==
  ASSUME IInv, PrepareBody
  PROVE  IInv'
<1> USE DEF execVars, ctxVars, bodyVars, abiVars, nginxVars
<1>1. /\ pc = "body" /\ ~waiting /\ caller = "phase" /\ ~reading /\ status = "READY"
      /\ bound = phase /\ ~completed
      /\ UNCHANGED <<site, execVars, ctxVars, produced, active, caller,
                     phase, posted, upstream, sent, conn>>
      /\ count' = count
  <2>1. Taken - 1 = count /\ GivenBack = count
    <3>1. count \in Nat
      BY BoundsAreNumbers DEF IInv, TypeOK
    <3> QED
      BY <3>1 DEF Taken, GivenBack
  <2>2. pc = "body" /\ UNCHANGED <<site, execVars, ctxVars, produced, active, caller>>
    BY DEF PrepareBody
  <2>3. UNCHANGED <<phase, posted, upstream, sent, conn>> /\ count' = count
    BY <2>1 DEF PrepareBody
  <2> QED
    BY <2>2, <2>3 DEF IInv, WaitingIsHeld, BodyFirst, AtWork
<1>2. /\ pc' \in {"run", "return"}
      /\ pc' = "return" => rc' \in {"done", "error"}
      /\ pc' = "return" /\ rc' = "done" => reading'
      /\ ready' \in BOOLEAN /\ bodySet' \in BOOLEAN /\ bodyStatus' \in {"ok", "error"}
      /\ reading' \in BOOLEAN /\ rc' \in {"done", "declined", "ok", "error"}
      /\ weh' \in {weh, "empty"}
      /\ pc' = "run" /\ site.buffering => ready'
      /\ reading' => /\ pc' = "return" /\ rc' = "done" /\ weh' = "empty" /\ ~ready
                     /\ site.buffering /\ site.body = "slow"
      /\ ~reading' => weh' = weh
  <2> USE <1>1 DEF ReturnFromBody
  <2>1. /\ ready \in BOOLEAN /\ bodySet \in BOOLEAN /\ bodyStatus \in {"ok", "error"}
        /\ reading = FALSE /\ rc \in {"done", "declined", "ok", "error"}
    BY DEF IInv, TypeOK
  <2>2. CASE ReturnFromBody("error") /\ UNCHANGED <<bodyVars, bodySet, nginxVars>>
    BY <2>1, <2>2
  <2>3. CASE ~BodyRefused /\ NothingToRead /\ pc' = "run"
             /\ UNCHANGED <<rc, bodyVars, bodySet, nginxVars>>
    BY <2>1, <2>3 DEF NothingToRead
  <2>4. CASE /\ ready' = TRUE /\ bodySet' = TRUE /\ pc' = "run"
             /\ UNCHANGED <<rc, reading, bodyStatus, nginxVars>>
    BY <2>1, <2>4
  <2>5. CASE /\ StoreBody /\ UNCHANGED <<reading, weh>>
             /\ IF bodyStatus' = "ok" THEN pc' = "run" /\ UNCHANGED rc
                                     ELSE ReturnFromBody("error")
    BY <2>1, <2>5 DEF StoreBody
  <2>6. CASE /\ ~NothingToRead /\ site.body = "slow"
             /\ reading' = TRUE /\ weh' = "empty" /\ ReturnFromBody("done")
             /\ UNCHANGED <<ready, bodyStatus, bodySet>>
    BY <2>1, <2>6 DEF NothingToRead
  <2>7. CASE /\ bodyStatus' = "error" /\ ReturnFromBody("error")
             /\ UNCHANGED <<reading, ready, bodySet, nginxVars>>
    BY <2>1, <2>7
  <2> QED
    BY <2>2, <2>3, <2>4, <2>5, <2>6, <2>7 DEF PrepareBody
<1> USE <1>1, <1>2 DEF IInv, Unfinished
<1>3. TypeOK'
  BY DEF TypeOK
<1>4. EndsOnce' /\ BetweenPhases' /\ AtWork' /\ Returned'
  BY DEF EndsOnce, BetweenPhases, AtWork, Returned
<1>5. WaitingIsHeld' /\ WakeUpComes'
  BY DEF WaitingIsHeld, WakeUpComes
<1>6. phase = "content" /\ (\A p \in site.phases : ~Precedes(p, phase)) /\ phase \in PhaseNames
      /\ site.buffering /\ site.body = "slow" => ~ReadsInTime(site)
  BY DEF ReadsInTime, Rewrites, Precedes
<1>7. BodyFirst'
  BY <1>6 DEF BodyFirst, TypeOK
<1>8. ReferencesMatch' /\ Answered'
  BY <1>1 DEF ReferencesMatch, Answered, Held
<1> QED
  BY <1>3, <1>4, <1>5, <1>7, <1>8

\* The body that was waited for arrives.
LEMMA BodyArrivesStep ==
  ASSUME IInv, BodyArrives
  PROVE  IInv'
<1> USE DEF execVars, ctxVars, bodyVars, abiVars, nginxVars
<1>1. /\ pc = "events" /\ reading /\ status = "READY" /\ phase # "content"
      /\ bound = phase /\ ~completed /\ ~waiting /\ weh = "empty"
      /\ posted = <<>> /\ upstream = 0
      /\ UNCHANGED <<site, execVars, ctxVars, produced, active, nginxVars>>
      /\ reading' = FALSE /\ caller' = "resume"
  BY DEF IInv, BodyArrives, BodyFirst
<1>2. /\ pc' \in {"run", "return"}
      /\ pc' = "run" => ready' /\ rc' = rc
      /\ pc' = "return" => rc' = "error"
      /\ ready' \in BOOLEAN /\ bodySet' \in BOOLEAN /\ bodyStatus' \in {"ok", "error"}
  BY DEF IInv, TypeOK, BodyArrives, StoreBody
<1> USE <1>1, <1>2 DEF IInv, Unfinished
<1>3. TypeOK'
  BY DEF TypeOK
<1>4. EndsOnce' /\ BetweenPhases' /\ AtWork' /\ Returned'
  BY DEF EndsOnce, BetweenPhases, AtWork, Returned
<1>5. WaitingIsHeld' /\ WakeUpComes' /\ BodyFirst'
  BY DEF WaitingIsHeld, WakeUpComes, BodyFirst
<1>6. ReferencesMatch' /\ Answered'
  BY DEF ReferencesMatch, Answered, Held
<1> QED
  BY <1>3, <1>4, <1>5, <1>6

\* The client goes away with its body.
LEMMA BodyLostStep ==
  ASSUME IInv, BodyLost
  PROVE  IInv'
  BY FreeStep DEF IInv, TypeOK, BodyLost, abiVars

-----------------------------------------------------------------------------
(* The runs of the guest.                                                  *)

\* A handler runs the context.
LEMMA StartRunStep ==
  ASSUME IInv, StartRun
  PROVE  IInv'
<1> USE DEF IInv, StartRun, ctxVars, bodyVars, abiVars, nginxVars, Unfinished
<1>1. TypeOK'
  BY DEF TypeOK, Exec!Kinds
<1>2. EndsOnce' /\ BetweenPhases' /\ AtWork' /\ Returned'
  BY DEF EndsOnce, BetweenPhases, AtWork, Returned
<1>3. WaitingIsHeld' /\ WakeUpComes' /\ BodyFirst'
  BY DEF WaitingIsHeld, WakeUpComes, BodyFirst
<1>4. ReferencesMatch' /\ Answered'
  BY DEF ReferencesMatch, Answered, Held
<1> QED
  BY <1>1, <1>2, <1>3, <1>4

\* Work is charged within the budget.
LEMMA WorkIsBounded ==
  ASSUME spent \in 0..Budget, Exec!Work
  PROVE  spent' \in 0..Budget /\ status = "RUNNING" /\ UNCHANGED <<status, accounted>>
  BY BoundsAreNumbers DEF Exec!Work

\* The guest works.
LEMMA GuestWorkStep ==
  ASSUME IInv, GuestWork
  PROVE  IInv'
<1> USE DEF ctxVars, bodyVars, nginxVars
<1>1. /\ pc = "exec" /\ spent' \in 0..Budget /\ produced' \in BOOLEAN
      /\ UNCHANGED <<status, wait, accounted, site, ctxVars, bodyVars, bodySet, active, pc,
                     caller, rc, nginxVars>>
  BY WorkIsBounded DEF IInv, TypeOK, GuestWork
<1> USE <1>1 DEF IInv, Unfinished
<1>2. TypeOK'
  BY DEF TypeOK
<1>3. EndsOnce' /\ BetweenPhases' /\ AtWork' /\ Returned'
  BY DEF EndsOnce, BetweenPhases, AtWork, Returned
<1>4. WaitingIsHeld' /\ WakeUpComes' /\ BodyFirst'
  BY DEF WaitingIsHeld, WakeUpComes, BodyFirst
<1>5. ReferencesMatch' /\ Answered'
  BY DEF ReferencesMatch, Answered, Held
<1> QED
  BY <1>2, <1>3, <1>4, <1>5

\* The guest launches a subrequest.
LEMMA GuestSubrequestStep ==
  ASSUME IInv, GuestSubrequest
  PROVE  IInv'
<1> USE DEF ctxVars, bodyVars, abiVars
<1>1. /\ pc = "exec" /\ status = "RUNNING" /\ spent' \in 0..Budget /\ ~reading
      /\ wait' \in {wait, "WAIT_IO"} /\ active' \in {active, TRUE}
      /\ count' = count + 1 /\ posted' = Append(posted, "sub")
      /\ UNCHANGED <<status, accounted, site, ctxVars, bodyVars, abiVars, pc, caller, rc,
                     phase, weh, upstream, sent, conn>>
  BY WorkIsBounded DEF IInv, TypeOK, GuestSubrequest, BodyFirst
<1>2. Unfinished < MaxSubs
  BY DEF GuestSubrequest, MayLaunch
<1>3. /\ Subs(posted) \in Nat /\ upstream \in 0..MaxSubs /\ MaxSubs \in Nat
      /\ count = 1 + Unfinished /\ posted \in Queues
  <2>1. posted \in Queues /\ upstream \in 0..MaxSubs
    BY DEF IInv, TypeOK, Queues
  <2>2. count = 1 + Unfinished + 0
    BY <1>1 DEF IInv, ReferencesMatch, Held
  <2> QED
    BY <2>1, <2>2, SubsAreCounted, BoundsAreNumbers DEF Unfinished
<1>4. Subs(posted') = Subs(posted) + 1 /\ posted' \in Queues
  BY <1>1, <1>3, PostQueue
<1>5. /\ Unfinished' = Unfinished + 1 /\ Unfinished' > 0 /\ Unfinished' <= MaxSubs
      /\ count' = 1 + Unfinished' /\ count' \in 0..(MaxSubs + 2)
  BY <1>1, <1>2, <1>3, <1>4 DEF Unfinished
<1>6. TypeOK'
  <2>1. wait' \in Exec!Kinds /\ active' \in BOOLEAN
    BY <1>1 DEF IInv, TypeOK, Exec!Kinds
  <2> QED
    BY <1>1, <1>4, <1>5, <2>1 DEF IInv, TypeOK, Queues
<1> USE <1>1 DEF IInv
<1>7. EndsOnce' /\ BetweenPhases' /\ AtWork' /\ Returned'
  BY DEF EndsOnce, BetweenPhases, AtWork, Returned
<1>8. WaitingIsHeld' /\ BodyFirst' /\ Answered'
  BY DEF WaitingIsHeld, BodyFirst, Answered
<1>9. WakeUpComes' /\ ReferencesMatch'
  BY <1>5 DEF WakeUpComes, ReferencesMatch, Held
<1> QED
  BY <1>6, <1>7, <1>8, <1>9

\* The run is suspended: for a turn that is posted, or for a subrequest.
LEMMA RunSuspendsStep ==
  ASSUME IInv, RunSuspends
  PROVE  IInv'
<1> USE DEF bodyVars, abiVars
<1>1. /\ pc = "exec" /\ bound = phase /\ ~completed /\ ~reading
      /\ caller = "phase" => ~waiting
      /\ caller = "resume" /\ phase = "content" => waiting
      /\ weh' = "resume" /\ waiting' = TRUE /\ pc' = "return" /\ rc' = "done"
      /\ count' = (IF ~waiting /\ phase = "content" THEN count + 1 ELSE count)
      /\ UNCHANGED <<site, bound, completed, bodyVars, abiVars, active, caller, phase,
                     upstream, sent, conn>>
  BY DEF IInv, RunSuspends, AtWork, WaitingIsHeld, BodyFirst, Hold
<1>2. PICK kind \in Exec!Kinds : Exec!Suspend(kind) /\ posted' = Repost(kind)
  BY DEF RunSuspends
<1>3. /\ status' = "SUSPENDED" /\ wait' = kind /\ accounted' = spent /\ spent' = spent
      /\ kind = "RESCHEDULE" \/ (kind = "WAIT_IO" /\ wait = "WAIT_IO")
  BY <1>2 DEF Exec!Suspend
<1>4. /\ posted \in Queues /\ Subs(posted) \in Nat /\ upstream \in 0..MaxSubs
      /\ MaxSubs \in Nat /\ Unfinished <= MaxSubs /\ count = 1 + Unfinished
  <2>1. posted \in Queues /\ upstream \in 0..MaxSubs
    BY DEF IInv, TypeOK, Queues
  <2>2. count = 1 + Unfinished + 0 /\ Unfinished <= MaxSubs
    BY <1>1 DEF IInv, ReferencesMatch, Held
  <2> QED
    BY <2>1, <2>2, SubsAreCounted, BoundsAreNumbers DEF Unfinished
<1>5. /\ posted' \in Queues /\ Subs(posted') = Subs(posted)
      /\ Has(posted', "main") \/ (wait' = "WAIT_IO" /\ Unfinished > 0)
  <2>1. CASE kind = "RESCHEDULE"
    BY <1>2, <1>4, <2>1, PostQueue DEF Repost
  <2>2. CASE kind = "WAIT_IO" /\ wait = "WAIT_IO"
    BY <1>1, <1>2, <1>3, <1>4, <2>2 DEF Repost, IInv, WakeUpComes
  <2> QED
    BY <1>3, <2>1, <2>2
<1>6. /\ Unfinished' = Unfinished
      /\ Held' <=> caller = "phase" /\ phase = "content"
      /\ Held' <=> ~waiting /\ phase = "content"
  <2>1. caller \in {"phase", "resume"} /\ waiting \in BOOLEAN
    BY DEF IInv, TypeOK
  <2> QED
    BY <1>1, <1>3, <1>5, <2>1 DEF Unfinished, Held
<1>7. count' = 1 + Unfinished' + (IF Held' THEN 1 ELSE 0) /\ count' \in 0..(MaxSubs + 2)
  BY <1>1, <1>4, <1>6 DEF Unfinished
<1>8. TypeOK'
  BY <1>1, <1>3, <1>5, <1>7 DEF IInv, TypeOK, Queues, Exec!Idle
<1> USE <1>1, <1>3 DEF IInv
<1>9. EndsOnce' /\ BetweenPhases' /\ AtWork' /\ Returned'
  BY DEF EndsOnce, BetweenPhases, AtWork, Returned
<1>10. WaitingIsHeld' /\ BodyFirst' /\ Answered'
  BY DEF WaitingIsHeld, BodyFirst, Answered
<1>11. WakeUpComes' /\ ReferencesMatch'
  BY <1>4, <1>5, <1>6, <1>7 DEF WakeUpComes, ReferencesMatch
<1> QED
  BY <1>8, <1>9, <1>10, <1>11

\* The run is suspended, and cannot be posted.
LEMMA RepostFailsStep ==
  ASSUME IInv, RepostFails
  PROVE  IInv'
<1> USE DEF ctxVars, bodyVars, abiVars, Unfinished
<1>1. /\ pc = "exec" /\ bound = phase /\ ~completed /\ ~reading
      /\ weh' = "resume" /\ pc' = "return" /\ rc' = "error"
      /\ UNCHANGED <<site, ctxVars, bodyVars, abiVars, active, caller, phase, count,
                     posted, upstream, sent, conn>>
  BY DEF IInv, RepostFails, AtWork, BodyFirst
<1>2. status' = "SUSPENDED" /\ wait' = "RESCHEDULE" /\ accounted' = spent /\ spent' = spent
  BY DEF RepostFails, Exec!Suspend
<1> USE <1>1, <1>2 DEF IInv
<1>3. TypeOK'
  <2>1. wait' \in Exec!Kinds /\ status' \in Exec!Idle
    BY DEF Exec!Kinds, Exec!Idle
  <2> QED
    BY <2>1 DEF TypeOK
<1>4. EndsOnce' /\ BetweenPhases' /\ AtWork' /\ Returned'
  BY DEF EndsOnce, BetweenPhases, AtWork, Returned
<1>5. WaitingIsHeld' /\ WakeUpComes' /\ BodyFirst'
  BY DEF WaitingIsHeld, WakeUpComes, BodyFirst
<1>6. ReferencesMatch' /\ Answered'
  BY DEF ReferencesMatch, Answered, Held
<1> QED
  BY <1>3, <1>4, <1>5, <1>6

\* The run fails.
LEMMA RunFailsStep ==
  ASSUME IInv, RunFails
  PROVE  IInv'
<1> USE DEF ctxVars, bodyVars, abiVars, nginxVars
<1>1. /\ pc = "exec" /\ ~reading /\ status' = "ERROR" /\ pc' = "return" /\ rc' = "error"
      /\ wait' = wait /\ spent' = spent /\ accounted' \in 0..Budget
      /\ UNCHANGED <<site, ctxVars, bodyVars, abiVars, active, caller, nginxVars>>
  BY DEF IInv, TypeOK, RunFails, Exec!Fail, BodyFirst
<1> USE <1>1 DEF IInv, Unfinished
<1>2. TypeOK'
  BY DEF TypeOK, Exec!Idle
<1>3. EndsOnce' /\ BetweenPhases' /\ AtWork' /\ Returned'
  BY DEF EndsOnce, BetweenPhases, AtWork, Returned
<1>4. WaitingIsHeld' /\ WakeUpComes' /\ BodyFirst'
  BY DEF WaitingIsHeld, WakeUpComes, BodyFirst
<1>5. ReferencesMatch' /\ Answered'
  BY DEF ReferencesMatch, Answered, Held
<1> QED
  BY <1>2, <1>3, <1>4, <1>5

\* The guest is done.
LEMMA RunFinishesStep ==
  ASSUME IInv, RunFinishes
  PROVE  IInv'
<1> USE DEF bodyVars, abiVars
<1>1. /\ pc = "exec" /\ ~reading /\ bound = phase /\ status' = "DONE" /\ pc' = "return"
      /\ wait' = wait /\ spent' = spent /\ accounted' = spent
      /\ completed' = TRUE /\ waiting' = FALSE
      /\ UNCHANGED <<site, bound, bodyVars, abiVars, active, caller, phase, weh, count,
                     posted, upstream, conn>>
  BY DEF IInv, AtWork, RunFinishes, MarkCompleted, Exec!Finish, BodyFirst
<1>2. /\ rc' \in {"declined", "ok", "error"} /\ sent' \in BOOLEAN
      /\ sent => sent'
      /\ rc' = "declined" => phase \in Rewrites /\ ~produced
      /\ rc' = "ok" => sent'
  <2>1. sent \in BOOLEAN
    BY DEF IInv, TypeOK
  <2>2. \/ PassesOn /\ rc' = "declined" /\ sent' = sent
        \/ sent' = TRUE /\ rc' \in {"ok", "error"}
        \/ rc' = "error" /\ sent' = sent
    BY DEF RunFinishes
  <2> QED
    BY <2>1, <2>2 DEF PassesOn
<1> USE <1>1, <1>2 DEF IInv, Unfinished
<1>3. TypeOK'
  <2>1. status' \in Exec!Idle \cup {"RUNNING", "DESTROYED"} /\ accounted' \in 0..Budget
    BY DEF TypeOK, Exec!Idle
  <2>2. /\ pc' \in {"return"} /\ rc' \in {"done", "declined", "ok", "error"}
        /\ completed' \in BOOLEAN /\ waiting' \in BOOLEAN
    OBVIOUS
  <2>3. /\ bound' \in PhaseNames \cup {"none"} /\ wait' \in Exec!Kinds /\ spent' \in 0..Budget
        /\ reading' \in BOOLEAN /\ ready' \in BOOLEAN /\ bodyStatus' \in {"ok", "error"}
        /\ bodySet' \in BOOLEAN /\ produced' \in BOOLEAN /\ active' \in BOOLEAN
    BY DEF TypeOK
  <2> QED
    BY <2>1, <2>2, <2>3 DEF TypeOK
<1>4. EndsOnce' /\ BetweenPhases' /\ AtWork' /\ Returned'
  BY DEF EndsOnce, BetweenPhases, AtWork, Returned
<1>5. WaitingIsHeld' /\ WakeUpComes' /\ BodyFirst'
  BY DEF WaitingIsHeld, WakeUpComes, BodyFirst
<1>6. ReferencesMatch' /\ Answered'
  BY DEF ReferencesMatch, Answered, Held
<1> QED
  BY <1>3, <1>4, <1>5, <1>6

-----------------------------------------------------------------------------
(* Back in the callers.                                                    *)

\* A response or an error is finalized.
LEMMA FinalizeStep ==
  ASSUME IInv, pc = "return", rc \in {"ok", "error"}, Finalize(rc),
         UNCHANGED <<site, ctxVars, bodyVars, abiVars, active, caller, rc, phase>>
  PROVE  IInv'
<1>1. ~reading /\ ~Held /\ sent \in BOOLEAN
  BY DEF IInv, TypeOK, BodyFirst, Held, Returned
<1>2. CASE rc = "ok" /\ FinalizeOutput /\ UNCHANGED sent
  BY <1>1, <1>2, OutputStep DEF IInv, Returned
<1>3. CASE sent' = TRUE /\ FinalizeOutput
  BY <1>1, <1>3, OutputStep
<1>4. CASE Free("aborted") /\ UNCHANGED <<weh, sent>>
  <2>1. reading' \in BOOLEAN
    BY DEF IInv, TypeOK, bodyVars
  <2> QED
    BY <1>1, <1>4, <2>1, FreeStep DEF bodyVars
<1> QED
  BY <1>2, <1>3, <1>4 DEF Finalize

\* The worker leaves a handler that waits, where nobody takes a reference back.
LEMMA LeaveStep ==
  ASSUME IInv, pc = "return", rc = "done", caller = "resume" \/ phase # "content",
         pc' = "posted",
         UNCHANGED <<site, execVars, ctxVars, bodyVars, abiVars, active, caller, rc, nginxVars>>
  PROVE  IInv'
<1> USE DEF IInv, execVars, ctxVars, bodyVars, abiVars, nginxVars, Unfinished
<1>1. TypeOK'
  BY DEF TypeOK
<1>2. EndsOnce' /\ BetweenPhases' /\ AtWork' /\ Returned'
  BY DEF EndsOnce, BetweenPhases, AtWork, Returned
<1>3. WaitingIsHeld' /\ BodyFirst'
  BY DEF WaitingIsHeld, BodyFirst
<1>4. WakeUpComes'
  <2>1. (status = "SUSPENDED" /\ waiting) \/ (reading /\ weh = "empty")
    BY DEF Returned, BodyFirst, WaitingIsHeld
  <2> QED
    BY <2>1 DEF WakeUpComes
<1>5. ReferencesMatch' /\ Answered'
  BY DEF ReferencesMatch, Answered, Held
<1> QED
  BY <1>1, <1>2, <1>3, <1>4, <1>5

\* The request goes on, from a rewrite phase that produced nothing.
LEMMA GoOnStep ==
  ASSUME IInv, pc = "return", rc = "declined", pc' = "phases",
         phase' \in {phase, NextPhase(phase)}, weh' \in {weh, "phases"},
         UNCHANGED <<site, execVars, ctxVars, bodyVars, abiVars, active, caller, rc,
                     count, posted, upstream, sent, conn>>
  PROVE  IInv'
<1> USE DEF IInv, execVars, ctxVars, bodyVars, abiVars, Unfinished
<1>1. /\ bound = phase /\ phase \in Rewrites /\ completed /\ status = "DONE" /\ ~produced
      /\ ~waiting /\ ~reading
      /\ site.buffering => ready
  BY DEF Returned, BodyFirst
<1>2. phase' \in PhaseNames
  BY <1>1, Phases DEF Rewrites, NextPhase
<1>3. TypeOK'
  BY <1>2 DEF TypeOK
<1>4. EndsOnce' /\ AtWork' /\ Returned'
  BY <1>1 DEF EndsOnce, AtWork, Returned
<1>5. BetweenPhases'
  <2>1. \A p : Precedes(p, phase') => ~Precedes(bound, p)
    BY <1>1 DEF Precedes, Rewrites, NextPhase
  <2>2. bound # "none"
    BY <1>1 DEF Rewrites
  <2> QED
    BY <1>1, <2>1, <2>2 DEF BetweenPhases
<1>6. WaitingIsHeld' /\ WakeUpComes'
  BY <1>1 DEF WaitingIsHeld, WakeUpComes
<1>7. BodyFirst'
  BY <1>1 DEF BodyFirst, Returned
<1>8. ReferencesMatch' /\ Answered'
  BY <1>1 DEF ReferencesMatch, Answered, Held
<1> QED
  BY <1>3, <1>4, <1>5, <1>6, <1>7, <1>8

\* The rewrite checker.
LEMMA ReturnToRewriteStep ==
  ASSUME IInv, ReturnToRewrite
  PROVE  IInv'
<1>1. /\ pc = "return" /\ caller = "phase" /\ phase \in Rewrites /\ phase # "content"
      /\ UNCHANGED <<site, ctxVars, bodyVars, abiVars, active, caller, rc>>
  BY DEF ReturnToRewrite, Rewrites
<1>2. CASE /\ rc = "declined" /\ phase' = NextPhase(phase) /\ pc' = "phases"
           /\ UNCHANGED <<execVars, weh, count, posted, upstream, sent, conn>>
  BY <1>1, <1>2, GoOnStep
<1>3. CASE rc = "done" /\ pc' = "posted" /\ UNCHANGED <<execVars, nginxVars>>
  BY <1>1, <1>3, LeaveStep
<1>4. CASE rc \in {"ok", "error"} /\ Finalize(rc) /\ UNCHANGED phase
  BY <1>1, <1>4, FinalizeStep
<1> QED
  BY <1>2, <1>3, <1>4 DEF ReturnToRewrite

\* What the resume handler does with a return code.
LEMMA ReturnToResumeStep ==
  ASSUME IInv, ReturnToResume
  PROVE  IInv'
<1>1. /\ pc = "return" /\ caller = "resume"
      /\ UNCHANGED <<site, ctxVars, bodyVars, abiVars, active, caller, rc>>
  BY DEF ReturnToResume
<1>2. CASE /\ rc = "declined" /\ weh' = "phases" /\ pc' = "phases"
           /\ UNCHANGED <<execVars, phase, count, posted, upstream, sent, conn>>
  BY <1>1, <1>2, GoOnStep
<1>3. CASE rc = "done" /\ pc' = "posted" /\ UNCHANGED <<execVars, nginxVars>>
  BY <1>1, <1>3, LeaveStep
<1>4. CASE rc \in {"ok", "error"} /\ Finalize(rc) /\ UNCHANGED phase
  BY <1>1, <1>4, FinalizeStep
<1> QED
  BY <1>2, <1>3, <1>4 DEF ReturnToResume

\* The content checker gives back the reference of a suspended handler, or ends
\* a request whose body it does not wait for.
LEMMA ReturnToContentStep ==
  ASSUME IInv, ReturnToContent
  PROVE  IInv'
<1> USE DEF ctxVars, bodyVars, abiVars
<1>1. /\ pc = "return" /\ caller = "phase" /\ phase = "content" /\ Finalize(rc)
      /\ UNCHANGED <<site, ctxVars, bodyVars, abiVars, active, caller, rc, phase>>
  BY DEF ReturnToContent
<1>2. CASE rc \in {"ok", "error"}
  BY <1>1, <1>2, FinalizeStep
<1>3. CASE rc = "done" /\ reading
  <2>1. /\ posted = <<>> /\ upstream = 0 /\ status = "READY" /\ ~ReadsInTime(site)
    BY <1>1, <1>3 DEF IInv, BodyFirst
  <2>2. count = 1
    BY <2>1, EmptyQueue DEF IInv, ReferencesMatch, Held, Unfinished, EndsOnce
  <2>3. Free("closed") /\ UNCHANGED <<weh, sent>>
    BY <1>1, <1>3, <2>2 DEF Finalize, Release
  <2>4. reading' \in BOOLEAN /\ sent' \in BOOLEAN
    BY <1>1, <2>3 DEF IInv, TypeOK
  <2> QED
    BY <1>1, <2>1, <2>3, <2>4, FreeStep
<1>4. CASE rc = "done" /\ ~reading
  <2>1. status = "SUSPENDED" /\ pc # "over"
    BY <1>1, <1>4 DEF IInv, Returned
  <2>2. /\ posted \in Queues /\ upstream \in 0..MaxSubs /\ MaxSubs \in Nat
        /\ Unfinished <= MaxSubs
    BY BoundsAreNumbers DEF IInv, TypeOK, Queues, ReferencesMatch
  <2>3. count = 1 + Unfinished + 1
    BY <1>1, <1>4, <2>1 DEF IInv, ReferencesMatch, Held
  <2>4. /\ count # 1 /\ count - 1 = 1 + Unfinished /\ count - 1 \in 0..(MaxSubs + 2)
    BY <2>2, <2>3, SubsAreCounted DEF Unfinished
  <2>5. /\ count' = count - 1 /\ pc' = "posted"
        /\ UNCHANGED <<execVars, posted, upstream, conn, weh, sent>>
    BY <1>1, <1>4, <2>4 DEF Finalize, Release
  <2> USE <1>1, <2>1, <2>4, <2>5 DEF IInv, execVars, Unfinished
  <2>6. TypeOK'
    BY DEF TypeOK
  <2>7. EndsOnce' /\ BetweenPhases' /\ AtWork' /\ Returned'
    BY DEF EndsOnce, BetweenPhases, AtWork, Returned
  <2>8. WaitingIsHeld' /\ WakeUpComes' /\ BodyFirst'
    BY <1>4 DEF WaitingIsHeld, WakeUpComes, BodyFirst
  <2>9. ReferencesMatch'
    <3>1. Unfinished' = Unfinished /\ ~Held'
      BY DEF Held
    <3> QED
      BY <2>2, <3>1, SubsAreCounted DEF ReferencesMatch
  <2>10. Answered'
    BY DEF Answered
  <2> QED
    BY <2>6, <2>7, <2>8, <2>9, <2>10
<1> QED
  BY <1>1, <1>2, <1>3, <1>4 DEF Finalize

-----------------------------------------------------------------------------
(* The posted requests and the event loop.                                 *)

\* The numbers of a request in the posted list or in the event loop.
LEMMA InNginx ==
  ASSUME IInv, pc \in {"posted", "events"}
  PROVE  /\ posted \in Queues /\ Subs(posted) \in Nat /\ upstream \in 0..MaxSubs
         /\ MaxSubs \in Nat /\ Unfinished <= MaxSubs /\ count = 1 + Unfinished
         /\ count \in Nat
<1>1. posted \in Queues /\ upstream \in 0..MaxSubs
  BY DEF IInv, TypeOK, Queues
<1>2. count = 1 + Unfinished + 0 /\ Unfinished <= MaxSubs
  BY DEF IInv, ReferencesMatch, Held
<1> QED
  BY <1>1, <1>2, SubsAreCounted, BoundsAreNumbers DEF Unfinished

\* The request itself is taken from the list.
LEMMA RunPostedStep ==
  ASSUME IInv, RunPosted
  PROVE  IInv'
<1> USE DEF execVars, ctxVars, bodyVars, abiVars
<1>1. /\ pc = "posted" /\ posted # <<>> /\ Head(posted) = "main" /\ posted' = Tail(posted)
      /\ UNCHANGED <<site, execVars, ctxVars, bodyVars, abiVars, active, phase, weh, count,
                     upstream, sent, conn>>
  BY DEF RunPosted
<1>2. /\ posted' \in Queues /\ Unfinished' = Unfinished /\ ~reading
      /\ Unfinished <= MaxSubs /\ count = 1 + Unfinished
  <2>1. posted' \in Queues /\ Subs(posted) = Subs(posted') + 0 /\ Subs(posted') \in Nat
    BY <1>1, InNginx, TakeQueue, SubsAreCounted
  <2>2. ~reading
    BY <1>1 DEF IInv, BodyFirst
  <2> QED
    BY <1>1, <2>1, <2>2, InNginx DEF Unfinished
<1> USE <1>1, <1>2 DEF IInv
<1>3. CASE weh = "resume" /\ caller' = "resume" /\ pc' \in {"run", "return"}
           /\ (pc' = "run" => rc' = rc) /\ (pc' = "return" => rc' = "error")
  <2>1. status = "SUSPENDED" /\ waiting /\ bound = phase /\ ~completed
    BY <1>3 DEF WakeUpComes, WaitingIsHeld
  <2> USE <1>3, <2>1
  <2>2. TypeOK'
    BY DEF TypeOK, Queues
  <2>3. EndsOnce' /\ BetweenPhases' /\ AtWork' /\ Returned'
    BY DEF EndsOnce, BetweenPhases, AtWork, Returned
  <2>4. WaitingIsHeld' /\ WakeUpComes' /\ BodyFirst'
    BY DEF WaitingIsHeld, WakeUpComes, BodyFirst
  <2>5. ReferencesMatch' /\ Answered'
    BY DEF ReferencesMatch, Answered, Held
  <2> QED
    BY <2>2, <2>3, <2>4, <2>5
<1>4. CASE (weh = "empty" \/ (weh = "writer" /\ Unfinished > 0))
           /\ UNCHANGED <<pc, caller, rc>>
  <2> USE <1>4
  <2>1. TypeOK'
    BY DEF TypeOK, Queues
  <2>2. EndsOnce' /\ BetweenPhases' /\ AtWork' /\ Returned'
    BY DEF EndsOnce, BetweenPhases, AtWork, Returned
  <2>3. WaitingIsHeld' /\ BodyFirst'
    BY DEF WaitingIsHeld, BodyFirst
  <2>4. WakeUpComes'
    BY DEF WakeUpComes
  <2>5. ReferencesMatch' /\ Answered'
    BY DEF ReferencesMatch, Answered, Held
  <2> QED
    BY <2>1, <2>2, <2>3, <2>4, <2>5
<1> QED
  BY <1>3, <1>4 DEF RunPosted

\* The writer ends the request: nobody else holds it.
LEMMA RunWriterStep ==
  ASSUME IInv, RunWriter
  PROVE  IInv'
<1>1. /\ pc = "posted" /\ weh = "writer" /\ Unfinished = 0 /\ weh' = "empty"
      /\ UNCHANGED <<site, ctxVars, bodyVars, abiVars, active, caller, rc, phase, sent>>
  BY DEF RunWriter
<1>2. count = 1
  BY <1>1, InNginx
<1>3. Free("closed")
  BY <1>2 DEF RunWriter
<1>4. sent /\ sent' \in BOOLEAN /\ reading' \in BOOLEAN
  BY <1>1 DEF IInv, TypeOK, Answered, bodyVars
<1> QED
  BY <1>1, <1>3, <1>4, FreeStep DEF bodyVars

\* A subrequest ends or waits: what changes besides.
LEMMA SubrequestStep ==
  ASSUME IInv, pc \in {"posted", "events"}, pc' = "posted", ~reading,
         posted' \in Queues, upstream' \in 0..MaxSubs, active' \in BOOLEAN,
         count' = 1 + Unfinished', Unfinished' <= MaxSubs, count' \in 0..(MaxSubs + 2),
         \/ Has(posted', "main")
         \/ Unfinished' > 0 /\ (Has(posted, "main") => Has(posted', "main")),
         UNCHANGED <<site, execVars, ctxVars, bodyVars, abiVars, caller, rc, phase, weh,
                     sent, conn>>
  PROVE  IInv'
<1> USE DEF IInv, execVars, ctxVars, bodyVars, abiVars
<1>1. TypeOK'
  BY DEF TypeOK, Queues
<1>2. EndsOnce' /\ BetweenPhases' /\ AtWork' /\ Returned'
  BY DEF EndsOnce, BetweenPhases, AtWork, Returned
<1>3. WaitingIsHeld' /\ BodyFirst' /\ Answered'
  BY DEF WaitingIsHeld, BodyFirst, Answered
<1>4. WakeUpComes'
  BY DEF WakeUpComes
<1>5. ReferencesMatch'
  <2>1. ~Held'
    BY DEF Held
  <2> QED
    BY <2>1, InNginx DEF ReferencesMatch
<1> QED
  BY <1>1, <1>2, <1>3, <1>4, <1>5

\* A subrequest is started from the list.
LEMMA StartSubrequestStep ==
  ASSUME IInv, StartSubrequest
  PROVE  IInv'
<1>1. /\ pc = "posted" /\ pc' = "posted" /\ posted # <<>> /\ Head(posted) = "sub"
      /\ UNCHANGED <<site, execVars, ctxVars, bodyVars, abiVars, caller, rc, phase, weh,
                     sent, conn>>
  BY DEF StartSubrequest
<1>2. ~reading /\ active \in BOOLEAN
  BY <1>1 DEF IInv, TypeOK, BodyFirst
<1> DEFINE rest == Tail(posted)
<1>3. /\ rest \in Queues /\ Subs(posted) = Subs(rest) + 1 /\ Subs(rest) \in Nat
      /\ Has(posted, "main") => Has(rest, "main")
  BY <1>1, InNginx, TakeQueue, SubsAreCounted
<1>4. CASE SubrequestDone /\ count' = count - 1 /\ posted' = Append(rest, "main")
           /\ UNCHANGED upstream
  <2>1. posted' \in Queues /\ Has(posted', "main") /\ Subs(posted') = Subs(rest) + 0
    BY <1>3, <1>4, PostQueue
  <2>2. /\ count' = 1 + Unfinished' /\ Unfinished' <= MaxSubs
        /\ upstream' \in 0..MaxSubs /\ count' \in 0..(MaxSubs + 2)
    <3>1. /\ upstream \in 0..MaxSubs /\ MaxSubs \in Nat /\ Unfinished <= MaxSubs
          /\ count = 1 + Unfinished
      BY <1>1, InNginx
    <3>2. Unfinished' = Unfinished - 1
      BY <1>3, <1>4, <2>1, <3>1 DEF Unfinished
    <3> QED
      BY <1>3, <1>4, <3>1, <3>2 DEF Unfinished
  <2> QED
    BY <1>1, <1>2, <1>4, <2>1, <2>2, SubrequestStep DEF SubrequestDone
<1>5. CASE posted' = rest /\ upstream' = upstream + 1 /\ UNCHANGED <<active, count>>
  <2>1. /\ count' = 1 + Unfinished' /\ Unfinished' <= MaxSubs /\ Unfinished' > 0
        /\ upstream' \in 0..MaxSubs /\ count' \in 0..(MaxSubs + 2)
    BY <1>1, <1>3, <1>5, InNginx DEF Unfinished
  <2> QED
    BY <1>1, <1>2, <1>3, <1>5, <2>1, SubrequestStep
<1> QED
  BY <1>4, <1>5 DEF StartSubrequest

\* A subrequest that waited ends.
LEMMA SubrequestEventStep ==
  ASSUME IInv, SubrequestEvent
  PROVE  IInv'
<1>1. /\ pc = "events" /\ pc' = "posted" /\ upstream > 0 /\ upstream' = upstream - 1
      /\ active' = FALSE /\ count' = count - 1 /\ posted' = Append(posted, "main")
      /\ UNCHANGED <<site, execVars, ctxVars, bodyVars, abiVars, caller, rc, phase, weh,
                     sent, conn>>
  BY DEF SubrequestEvent, SubrequestDone
<1>2. ~reading
  BY <1>1, InNginx DEF IInv, BodyFirst
<1>3. posted' \in Queues /\ Has(posted', "main") /\ Subs(posted') = Subs(posted) + 0
  BY <1>1, InNginx, PostQueue
<1>4. /\ count' = 1 + Unfinished' /\ Unfinished' <= MaxSubs
      /\ upstream' \in 0..MaxSubs /\ count' \in 0..(MaxSubs + 2)
  BY <1>1, <1>3, InNginx DEF Unfinished
<1> QED
  BY <1>1, <1>2, <1>3, <1>4, SubrequestStep

\* A subrequest ends the whole request.
LEMMA SubrequestAbortsStep ==
  ASSUME IInv, SubrequestAborts
  PROVE  IInv'
  BY FreeStep DEF IInv, TypeOK, SubrequestAborts, bodyVars

\* The worker polls when nobody is posted.
LEMMA PollStep ==
  ASSUME IInv, Poll
  PROVE  IInv'
<1> USE EmptyQueue DEF IInv, Poll, execVars, ctxVars, bodyVars, abiVars, nginxVars, Unfinished
<1>1. TypeOK'
  BY DEF TypeOK
<1>2. EndsOnce' /\ BetweenPhases' /\ AtWork' /\ Returned'
  BY DEF EndsOnce, BetweenPhases, AtWork, Returned
<1>3. WaitingIsHeld' /\ WakeUpComes' /\ BodyFirst'
  BY DEF WaitingIsHeld, WakeUpComes, BodyFirst
<1>4. ReferencesMatch' /\ Answered'
  BY DEF ReferencesMatch, Answered, Held
<1> QED
  BY <1>1, <1>2, <1>3, <1>4

\* A step that changes nothing.
LEMMA StutterStep ==
  ASSUME IInv, UNCHANGED vars
  PROVE  IInv'
<1> USE DEF IInv, vars, execVars, ctxVars, bodyVars, abiVars, nginxVars, Unfinished
<1>1. TypeOK'
  BY DEF TypeOK
<1>2. EndsOnce' /\ BetweenPhases' /\ AtWork' /\ Returned'
  BY DEF EndsOnce, BetweenPhases, AtWork, Returned, Exec!Init
<1>3. WaitingIsHeld' /\ WakeUpComes' /\ BodyFirst'
  BY DEF WaitingIsHeld, WakeUpComes, BodyFirst
<1>4. ReferencesMatch' /\ Answered'
  BY DEF ReferencesMatch, Answered, Held
<1> QED
  BY <1>1, <1>2, <1>3, <1>4

\* Whatever the worker, the guest, the client and the subrequests do next.
LEMMA NextIInv ==
  ASSUME IInv, [Next]_vars
  PROVE  IInv'
<1>1. CASE SkipPhase \/ EnterPhase \/ BindPhase \/ ContextFails \/ PrepareBody
  BY <1>1, SkipPhaseStep, EnterPhaseStep, BindPhaseStep, ContextFailsStep, PrepareBodyStep
<1>2. CASE StartRun \/ GuestWork \/ GuestSubrequest
  BY <1>2, StartRunStep, GuestWorkStep, GuestSubrequestStep
<1>3. CASE RunSuspends \/ RepostFails \/ RunFails \/ RunFinishes
  BY <1>3, RunSuspendsStep, RepostFailsStep, RunFailsStep, RunFinishesStep
<1>4. CASE ReturnToRewrite \/ ReturnToContent \/ ReturnToResume
  BY <1>4, ReturnToRewriteStep, ReturnToContentStep, ReturnToResumeStep
<1>5. CASE RunPosted \/ RunWriter \/ StartSubrequest \/ Poll
  BY <1>5, RunPostedStep, RunWriterStep, StartSubrequestStep, PollStep
<1>6. CASE BodyEvent \/ UpstreamEvent
  BY <1>6, BodyArrivesStep, BodyLostStep, SubrequestEventStep, SubrequestAbortsStep
     DEF BodyEvent, UpstreamEvent
<1>7. CASE Over \/ UNCHANGED vars
  BY <1>7, StutterStep DEF Over
<1> QED
  BY <1>1, <1>2, <1>3, <1>4, <1>5, <1>6, <1>7 DEF Next, WorkerStep

-----------------------------------------------------------------------------
(* What follows.                                                           *)

\* The state of the context, of nginx's request and of the body agree at every
\* place where the worker can be.
THEOREM Inductive == Spec => []IInv
<1>1. Init => IInv
  BY InitIInv
<1>2. IInv /\ [Next]_vars => IInv'
  BY NextIInv
<1> QED
  BY <1>1, <1>2, PTL DEF Spec

\* Types: no more subrequests than allowed at a time, references for them and
\* two more at most.
THEOREM TypeCorrect == Spec => []TypeOK
<1>1. IInv => TypeOK
  BY DEF IInv
<1> QED
  BY <1>1, Inductive, PTL

\* Whenever a handler has returned, the request holds one reference for itself
\* and one for each unfinished subrequest, whatever was suspended in between.
THEOREM CountsAgree == Spec => []CountMatches
<1>1. IInv => CountMatches
  <2> SUFFICES ASSUME IInv, pc \in {"posted", "events"} PROVE count = 1 + Unfinished
    BY DEF CountMatches
  <2> QED
    BY InNginx
<1> QED
  BY <1>1, Inductive, PTL

\* A worker that polls has left no suspended request behind that nobody will
\* post, nor a response that nobody will send.
THEOREM WakeUpIsKept == Spec => []NoLostWakeup
<1>1. IInv => NoLostWakeup
  <2> SUFFICES ASSUME IInv, pc = "events" PROVE NoLostWakeup
    BY DEF NoLostWakeup
  <2>1. /\ posted = <<>> /\ Unfinished = upstream /\ upstream \in Nat
        /\ ~Has(posted, "main")
    <3>1. posted = <<>> /\ upstream \in 0..MaxSubs
      BY InNginx DEF IInv, WakeUpComes
    <3> QED
      BY <3>1, EmptyQueue DEF Unfinished
  <2>2. reading => status = "READY"
    BY DEF IInv, BodyFirst
  <2> QED
    BY <2>1, <2>2 DEF IInv, WakeUpComes, NoLostWakeup
<1> QED
  BY <1>1, Inductive, PTL

\* The branch of run_phase for a context bound to a different phase is dead, and
\* run_request never enters the runtime with a context that has ended.
THEOREM OnlyLiveRuns == Spec => []RunsOnlyLive
<1>1. IInv => RunsOnlyLive
  BY DEF IInv, BetweenPhases, AtWork, RunsOnlyLive
<1> QED
  BY <1>1, Inductive, PTL

\* Every request that is closed without an abort was answered, where no content
\* handler is the first to read a body that comes late (that case is the one
\* nginx closes without an answer).
THEOREM ClosedIsAnswered ==
  ASSUME \A s \in Sites : ReadsInTime(s)
  PROVE  Spec => []AnsweredWhenClosed
<1>1. IInv => AnsweredWhenClosed
  BY DEF IInv, TypeOK, Answered, AnsweredWhenClosed
<1> QED
  BY <1>1, Inductive, PTL

\* Every phase is bound after the earlier ones with a handler, and once.
THEOREM PhasesAreInOrder == Spec => PhasesInOrder
<1> DEFINE Binds == bound' # bound =>
                      /\ bound' = phase
                      /\ bound # "none" => completed /\ ~produced /\ status = "DONE"
                      /\ \A p \in site.phases :
                           Precedes(p, bound') => bound # "none" /\ ~Precedes(bound, p)
<1>1. IInv /\ [Next]_vars => [Binds]_vars
  <2> SUFFICES ASSUME IInv, [Next]_vars, bound' # bound PROVE Binds
    OBVIOUS
  <2>1. BindPhase
    BY DEF Next, WorkerStep, BodyEvent, UpstreamEvent, SkipPhase, EnterPhase, PrepareBody,
           ContextFails, StartRun, GuestWork, GuestSubrequest, RunSuspends, RepostFails,
           RunFails, RunFinishes,
           ReturnToRewrite, ReturnToContent, ReturnToResume, RunPosted, RunWriter,
           StartSubrequest, Poll, BodyArrives, BodyLost, SubrequestEvent, SubrequestAborts,
           Over, vars, ctxVars
  <2>2. pc = "bind" /\ bound' = phase
    BY <2>1 DEF BindPhase, InitRequestExec
  <2> QED
    BY <2>2 DEF IInv, BetweenPhases
<1> QED
  BY <1>1, Inductive, PTL DEF Spec, PhasesInOrder

-----------------------------------------------------------------------------
(* The handlers use an execution context as its contract says.             *)

\* The pool takes the context with it only while nobody runs it.
LEMMA FreeContract ==
  ASSUME IInv, NEW how, Free(how), pc \notin {"exec", "over"}
  PROVE  Exec!Destroy
<1>1. status \in Exec!Idle
  BY DEF IInv, TypeOK, EndsOnce, AtWork
<1> QED
  BY <1>1 DEF Free, Exec!Destroy

\* The end of a request.
LEMMA EndContract ==
  ASSUME IInv, pc \in {"phases", "return"},
         NEW code, Finalize(code) \/ FinalizeOutput
  PROVE  [Exec!Next]_execVars
<1>1. CASE \E how \in {"closed", "aborted"} : Free(how)
  BY <1>1, FreeContract DEF Exec!Next
<1>2. CASE UNCHANGED execVars
  BY <1>2
<1> QED
  BY <1>1, <1>2 DEF Finalize, FinalizeOutput, Release

\* The next phase initialises the context anew: one that is new already, or one
\* that has finished.
LEMMA BindContract ==
  ASSUME IInv, BindPhase
  PROVE  [Exec!Next]_execVars
<1>1. CASE BindsAnew
  <2>1. status' = "READY" /\ wait' = "NONE" /\ spent' = 0 /\ accounted' = 0
    BY <1>1 DEF BindPhase, InitRequestExec
  <2>2. Exec!Init \/ status = "DONE"
    BY DEF IInv, BetweenPhases, BindPhase
  <2>3. CASE Exec!Init
    BY <2>1, <2>3 DEF Exec!Init, execVars
  <2>4. CASE status = "DONE"
    <3>1. Exec!Reinit
      BY <2>1, <2>4 DEF Exec!Reinit
    <3> QED
      BY <3>1 DEF Exec!Next
  <2> QED
    BY <2>2, <2>3, <2>4
<1>2. CASE ~BindsAnew
  BY <1>2 DEF BindPhase
<1> QED
  BY <1>1, <1>2

\* A run, from its start to its return.
LEMMA RunContract ==
  ASSUME IInv, \/ StartRun \/ GuestWork \/ GuestSubrequest
               \/ RunSuspends \/ RepostFails \/ RunFails \/ RunFinishes
  PROVE  Exec!Next
<1>1. CASE StartRun
  <2>1. status \in Exec!Idle
    BY <1>1 DEF IInv, AtWork, StartRun, Exec!Idle
  <2>2. Exec!Start
    BY <1>1, <2>1 DEF StartRun, Exec!Start
  <2> QED
    BY <2>2 DEF Exec!Next
<1>2. CASE GuestWork \/ GuestSubrequest
  BY <1>2 DEF GuestWork, GuestSubrequest, Exec!Next
<1>3. CASE RunSuspends \/ RepostFails
  BY <1>3 DEF RunSuspends, RepostFails, Exec!Next, Exec!Return, Exec!Kinds
<1>4. CASE RunFails \/ RunFinishes
  BY <1>4 DEF RunFails, RunFinishes, Exec!Next, Exec!Return
<1> QED
  BY <1>1, <1>2, <1>3, <1>4

\* A context is started only when it is idle, initialised again only when it is
\* done, and destroyed only when nobody runs it: the handlers, the resume handler
\* and the events around them keep to what ngx_http_wasm_runtime_run promises.
THEOREM ContractIsUsed == Spec => UsesContract
<1>1. Init => Exec!Init
  BY DEF Init
<1>2. IInv /\ [Next]_vars => [Exec!Next]_execVars
  <2> SUFFICES ASSUME IInv, [Next]_vars PROVE [Exec!Next]_execVars
    OBVIOUS
  <2>1. CASE SkipPhase
    BY <2>1, EndContract DEF SkipPhase
  <2>2. CASE BindPhase
    BY <2>2, BindContract
  <2>3. CASE \/ StartRun \/ GuestWork \/ GuestSubrequest
             \/ RunSuspends \/ RepostFails \/ RunFails \/ RunFinishes
    BY <2>3, RunContract
  <2>4. CASE ReturnToRewrite \/ ReturnToContent \/ ReturnToResume
    BY <2>4, EndContract DEF ReturnToRewrite, ReturnToContent, ReturnToResume
  <2>5. CASE RunWriter \/ BodyLost \/ SubrequestAborts
    <3>1. CASE \E how \in {"closed", "aborted"} : Free(how)
      BY <2>5, <3>1, FreeContract DEF RunWriter, BodyLost, SubrequestAborts, Exec!Next
    <3>2. CASE UNCHANGED execVars
      BY <3>2
    <3> QED
      BY <2>5, <3>1, <3>2 DEF RunWriter, BodyLost, SubrequestAborts
  <2>6. CASE \/ EnterPhase \/ ContextFails \/ PrepareBody \/ BodyArrives \/ RunPosted \/ StartSubrequest
             \/ SubrequestEvent \/ Poll \/ Over \/ UNCHANGED vars
    BY <2>6 DEF EnterPhase, ContextFails, PrepareBody, BodyArrives, RunPosted, StartSubrequest,
                SubrequestEvent, Poll, Over, vars
  <2> QED
    BY <2>1, <2>2, <2>3, <2>4, <2>5, <2>6 DEF Next, WorkerStep, BodyEvent, UpstreamEvent
<1>3. IInv /\ [Next]_vars => [Exec!Next]_Exec!execVars
  BY <1>2 DEF execVars, Exec!execVars
<1> QED
  BY <1>1, <1>3, Inductive, PTL DEF Spec, UsesContract, Exec!Spec
=============================================================================
