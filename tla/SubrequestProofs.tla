--------------------------- MODULE SubrequestProofs ---------------------------
(***************************************************************************)
(* The headers and the answers of Subrequest, for any number of headers,   *)
(* launches and wake-ups, and every set of troubles.                       *)
(***************************************************************************)
EXTENDS Subrequest, TLAPS

\* A new context satisfies the invariant.
LEMMA InitIInv == Init => IInv
<1> SUFFICES ASSUME Init PROVE IInv
  OBVIOUS
<1> USE DEF Init
<1>1. TypeOK
  <2>1. capture \in BOOLEAN /\ active \in BOOLEAN /\ done \in BOOLEAN /\ yielded \in BOOLEAN
        /\ overlapped \in BOOLEAN
    OBVIOUS
  <2> QED
    BY <2>1, SubrequestAssumption DEF TypeOK, Runs
<1>2. PendingIsStaged /\ OneInProgress /\ AnswersTheLastLaunch
  BY DEF PendingIsStaged, OneInProgress, InProgress, AnswersTheLastLaunch
<1> QED
  BY <1>1, <1>2 DEF IInv

\* The number of a launch that may be made.
LEMMA NextLaunch ==
  ASSUME TypeOK, MayLaunch
  PROVE  launches + 1 \in Launches /\ launches + 1 \in 1..MaxLaunches /\ launches + 1 # 0
  BY SubrequestAssumption DEF TypeOK, MayLaunch, Launches

-----------------------------------------------------------------------------
(* Each action keeps the invariant.                                        *)

\* A header is staged, or leaves a blank one.
LEMMA SetHeaderIInv ==
  ASSUME IInv, NEW h \in Names, SetHeader(h) PROVE IInv'
<1> USE DEF SetHeader, runVars, subVars
<1>1. TypeOK'
  BY DEF IInv, TypeOK
<1>2. PendingIsStaged'
  BY SubrequestAssumption DEF IInv, TypeOK, PendingIsStaged
<1>3. UNCHANGED <<progress, active, done, rc, subrequest, launches, last, given, overlapped>>
  OBVIOUS
<1>4. OneInProgress' /\ AnswersTheLastLaunch'
  BY <1>3 DEF IInv, OneInProgress, InProgress, AnswersTheLastLaunch
<1> QED
  BY <1>1, <1>2, <1>4 DEF IInv

\* A launch that overlaps with none starts with nothing in progress.
LEMMA LaunchIInv == ASSUME IInv, Launch PROVE IInv'
<1> USE DEF Launch, BeginLaunch, Posted, HostSubreq
<1>1. /\ MayLaunch /\ TypeOK /\ launches + 1 \in Launches
      /\ launches + 1 \in 0..MaxLaunches /\ launches + 1 # 0
  BY NextLaunch, SubrequestAssumption DEF IInv
<1>2. TypeOK'
  <2>1. capture' \in BOOLEAN /\ active' \in BOOLEAN /\ done' \in BOOLEAN /\ yielded' \in BOOLEAN
        /\ overlapped' \in BOOLEAN
    OBVIOUS
  <2> QED
    BY <1>1, <2>1, SubrequestAssumption DEF TypeOK
<1>3. PendingIsStaged'
  BY DEF PendingIsStaged
<1>4. progress' = [progress EXCEPT ![launches + 1] = "running"]
      /\ progress \in [Launches -> {"none", "running", "redirected", "ended"}]
      /\ active' /\ ~done' /\ last' = launches + 1 /\ launches' = launches + 1 /\ given' = 0
      /\ overlapped' = (overlapped \/ Overlaps) /\ ~active /\ overlapped \in BOOLEAN
  BY <1>1 DEF TypeOK, MayLaunch
<1>5. \A i \in Launches : i # launches + 1 => progress'[i] = progress[i]
  BY <1>4
<1>6. ~overlapped' => \A i \in Launches : ~InProgress(i)
  BY <1>4 DEF IInv, OneInProgress, InProgress, Overlaps
<1>7. OneInProgress'
  BY <1>4, <1>5, <1>6 DEF OneInProgress, InProgress
<1>8. AnswersTheLastLaunch'
  BY <1>4 DEF AnswersTheLastLaunch
<1> QED
  BY <1>2, <1>3, <1>7, <1>8 DEF IInv

\* A launch that fails only forgets the answer of the one before.
LEMMA LaunchFailsIInv == ASSUME IInv, LaunchFails PROVE IInv'
<1> USE DEF LaunchFails, BeginLaunch, runVars, subVars
<1>1. TypeOK'
  <2>1. capture' \in BOOLEAN /\ active' \in BOOLEAN /\ done' \in BOOLEAN
    BY DEF IInv, TypeOK
  <2> QED
    BY <2>1, SubrequestAssumption DEF IInv, TypeOK
<1>2. PendingIsStaged' /\ AnswersTheLastLaunch'
  BY DEF IInv, PendingIsStaged, AnswersTheLastLaunch
<1>3. ~active /\ ~active' /\ subrequest' = 0
      /\ UNCHANGED <<progress, launches, last, overlapped>>
  BY DEF MayLaunch
<1>4. OneInProgress'
  BY <1>3 DEF IInv, OneInProgress, InProgress
<1> QED
  BY <1>1, <1>2, <1>4 DEF IInv

\* After a launch that is reported as a failure with its subrequest posted another
\* may overlap with it.
LEMMA LaunchHalfIInv == ASSUME IInv, LaunchHalf PROVE IInv'
<1> USE DEF LaunchHalf, BeginLaunch, Posted, runVars
<1>1. /\ MayLaunch /\ TypeOK /\ launches + 1 \in Launches
      /\ launches + 1 \in 0..MaxLaunches
  BY NextLaunch, SubrequestAssumption DEF IInv
<1>2. PICK hs \in SUBSET pending : hs # pending /\ Posted(hs)
  OBVIOUS
<1>3. TypeOK'
  <2>1. headers' \in [Launches -> SUBSET (Names \cup {Blank})]
    BY <1>1, <1>2 DEF TypeOK
  <2>2. capture' \in BOOLEAN /\ active' \in BOOLEAN /\ done' \in BOOLEAN
    OBVIOUS
  <2> QED
    BY <1>1, <1>2, <2>1, <2>2, SubrequestAssumption DEF TypeOK
<1>4. PendingIsStaged'
  BY DEF IInv, PendingIsStaged
<1>5. OneInProgress' /\ AnswersTheLastLaunch'
  BY DEF OneInProgress, AnswersTheLastLaunch
<1> QED
  BY <1>3, <1>4, <1>5 DEF IInv

\* An answer that can be read is that of the last launch, which has ended.
LEMMA GuestReadsIInv == ASSUME IInv, GuestReads PROVE IInv'
<1> USE DEF GuestReads, BodyReadable, Readable, runVars, stateVars, subVars
<1>1. TypeOK'
  BY DEF IInv, TypeOK
<1>2. UNCHANGED <<pending, staged, progress, active, done, rc, subrequest, launches, last,
                  overlapped>>
  OBVIOUS
<1>3. PendingIsStaged' /\ OneInProgress'
  BY <1>2 DEF IInv, PendingIsStaged, OneInProgress, InProgress
<1>4. AnswersTheLastLaunch'
  <2> SUFFICES ASSUME ~overlapped, given' # 0
               PROVE  given' = last /\ progress[given'] = "ended"
    BY <1>2 DEF AnswersTheLastLaunch
  <2>1. given' = subrequest /\ done /\ subrequest # 0 /\ rc = "ok"
    OBVIOUS
  <2>2. subrequest = last /\ progress[last] = "ended"
    BY <2>1 DEF IInv, OneInProgress
  <2> QED
    BY <2>1, <2>2
<1> QED
  BY <1>1, <1>3, <1>4 DEF IInv

\* What happens to the run, with the subrequests left alone.
LEMMA RunIInv ==
  ASSUME IInv, HostYield \/ SliceEnds \/ GuestReturns \/ Resume \/ NextPhase PROVE IInv'
<1> USE DEF HostYield, SliceEnds, GuestReturns, Resume, NextPhase, Suspend, OneMore,
     runVars, stateVars, subVars, historyVars
<1>1. UNCHANGED <<env, stateVars, subVars, historyVars>>
  OBVIOUS
<1>2. TypeOK'
  <2>1. run' \in Runs /\ yielded' \in BOOLEAN /\ wait' \in {"NONE", "RESCHEDULE", "WAIT_IO"}
    BY DEF IInv, TypeOK, Runs
  <2>2. posts' \in 0..MaxPosts
    BY SubrequestAssumption DEF IInv, TypeOK
  <2> QED
    BY <1>1, <2>1, <2>2 DEF IInv, TypeOK
<1>3. PendingIsStaged' /\ OneInProgress' /\ AnswersTheLastLaunch'
  BY <1>1 DEF IInv, PendingIsStaged, OneInProgress, InProgress, AnswersTheLastLaunch
<1> QED
  BY <1>2, <1>3 DEF IInv

\* The subrequest that ends is the last one launched, or there may be several.
LEMMA EndsIInv ==
  ASSUME IInv, NEW i \in Launches, SubrequestEnds(i) PROVE IInv'
<1> USE DEF SubrequestEnds, DoneHandler, OneMore
<1>1. TypeOK'
  <2>1. capture' \in BOOLEAN /\ active' \in BOOLEAN /\ done' \in BOOLEAN
    BY DEF IInv, TypeOK
  <2> QED
    BY <2>1, SubrequestAssumption DEF IInv, TypeOK, Launches, historyVars
<1>2. PendingIsStaged'
  BY DEF IInv, PendingIsStaged, historyVars
<1>3. /\ progress' = [progress EXCEPT ![i] = "ended"] /\ InProgress(i)
      /\ progress \in [Launches -> {"none", "running", "redirected", "ended"}]
      /\ UNCHANGED <<launches, last, given, overlapped>>
      /\ ~active' /\ done' /\ subrequest' = i
  BY DEF IInv, TypeOK, InProgress, historyVars
<1>4. (\A j \in Launches : j # i => progress'[j] = progress[j]) /\ progress'[i] = "ended"
  BY <1>3
<1>5. OneInProgress'
  BY <1>3, <1>4 DEF IInv, OneInProgress, InProgress
<1>6. AnswersTheLastLaunch'
  BY <1>3, <1>4 DEF IInv, AnswersTheLastLaunch
<1> QED
  BY <1>1, <1>2, <1>5, <1>6 DEF IInv

\* A subrequest that is redirected goes on, with the guest told that it is done.
LEMMA RedirectsIInv ==
  ASSUME IInv, NEW i \in Launches, SubrequestRedirects(i) PROVE IInv'
<1> USE DEF SubrequestRedirects, DoneHandler
<1>1. TypeOK'
  <2>1. capture' \in BOOLEAN /\ active' \in BOOLEAN /\ done' \in BOOLEAN
    BY DEF IInv, TypeOK
  <2> QED
    BY <2>1, SubrequestAssumption DEF IInv, TypeOK, Launches, runVars, historyVars
<1>2. PendingIsStaged'
  BY DEF IInv, PendingIsStaged, historyVars
<1>3. /\ progress' = [progress EXCEPT ![i] = "redirected"] /\ progress[i] = "running"
      /\ progress \in [Launches -> {"none", "running", "redirected", "ended"}]
      /\ UNCHANGED <<launches, last, given, overlapped>>
      /\ ~active' /\ done' /\ subrequest' = i /\ rc' = "error"
  BY DEF IInv, TypeOK, historyVars, runVars
<1>4. (\A j \in Launches : j # i => progress'[j] = progress[j])
      /\ progress'[i] = "redirected"
  BY <1>3
<1>5. OneInProgress'
  BY <1>3, <1>4 DEF IInv, OneInProgress, InProgress
<1>6. AnswersTheLastLaunch'
  BY <1>3, <1>4 DEF IInv, AnswersTheLastLaunch
<1> QED
  BY <1>1, <1>2, <1>5, <1>6 DEF IInv

\* The actions together.
LEMMA NextIInv == IInv /\ [Next]_vars => IInv'
<1> SUFFICES ASSUME IInv, [Next]_vars PROVE IInv'
  OBVIOUS
<1>1. CASE UNCHANGED vars
  BY <1>1 DEF vars, runVars, stateVars, subVars, historyVars, IInv, TypeOK,
     PendingIsStaged, OneInProgress, InProgress, AnswersTheLastLaunch
<1> QED
  BY <1>1, SetHeaderIInv, LaunchIInv, LaunchFailsIInv, LaunchHalfIInv, GuestReadsIInv,
     RunIInv, EndsIInv, RedirectsIInv DEF Next, Guest

-----------------------------------------------------------------------------
(* The theorems.                                                           *)

\* Every reachable state satisfies the invariant.
THEOREM Inductive == Spec => []IInv
<1> QED
  BY InitIInv, NextIInv, PTL DEF Spec

\* Every variable keeps its type.
THEOREM TypeCorrect == Spec => []TypeOK
<1>1. IInv => TypeOK
  BY DEF IInv
<1> QED
  BY <1>1, Inductive, PTL

\* The guest reads the complete answer of its last launch, and never that of an
\* earlier subrequest which the done handler is called for late.
THEOREM AnswerIsOfLastLaunch == Spec => []AnswersTheLastLaunch
<1>1. IInv => AnswersTheLastLaunch
  BY DEF IInv
<1> QED
  BY <1>1, Inductive, PTL

\* A launch that is reported a success is given all the headers staged since the
\* one before, whatever has failed in between.
LEMMA LaunchSendsStaged ==
  IInv /\ [Next]_vars => [last' # last => headers'[last'] \ {Blank} = staged]_vars
<1> SUFFICES ASSUME IInv, Next, last' # last
             PROVE  headers'[last'] \ {Blank} = staged
  OBVIOUS
<1>1. Launch
  BY DEF Next, Guest, SetHeader, LaunchFails, LaunchHalf, GuestReads, HostYield, SliceEnds,
     GuestReturns, Resume, NextPhase, SubrequestEnds, SubrequestRedirects, historyVars
<1>2. launches + 1 \in Launches /\ last' = launches + 1
  BY <1>1, NextLaunch DEF Launch, IInv
<1>3. headers'[last'] = pending
  BY <1>1, <1>2 DEF Launch, Posted, IInv, TypeOK
<1> QED
  BY <1>3 DEF IInv, PendingIsStaged

\* "Staged headers are consumed by the next successful ngx_wasm_subreq call".
THEOREM HeadersAreSent == Spec => HeadersAsStaged
<1> QED
  BY LaunchSendsStaged, Inductive, PTL DEF Spec, HeadersAsStaged
=============================================================================
