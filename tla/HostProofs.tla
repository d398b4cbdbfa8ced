------------------------------ MODULE HostProofs ------------------------------
(***************************************************************************)
(* The steps that are carried out by requests to the host, for every       *)
(* number of attempts.  FlowRun, for any cancellations and faults: what an *)
(* attempt leaves in the host.  HostSteps, for every flow, any artifacts   *)
(* and any devices: what a success rests on and what a failure leaves.     *)
(***************************************************************************)
EXTENDS FlowRun, HostSteps, SequenceTheorems, WellFoundedInduction, TLAPS

-----------------------------------------------------------------------------
(* flow.run *)

\* There is no child before its creation.
Unborn ==
  \A a \in Attempts :
    (a > attempt \/ (a = attempt /\ pc \in {"begin", "create"})) => child[a] = "none"

\* Outputs are fetched, and success reported, only of this attempt's child.
Fetched ==
  /\ pc = "outputs" => Mine = "SUCCESS"
  /\ SuccessIsOwnChild

\* While nothing goes wrong, an attempt that is over without success has left
\* no child that succeeded or still may.
NoneSucceeded ==
  (wait /\ faults = 0 /\ cancels = 0) =>
    /\ pc # "stop"
    /\ \A a \in Attempts :
         (a < attempt \/ (a = attempt /\ pc = "ended" /\ verdict # "ok")) =>
           child[a] \in {"none", "FAILED", "CANCELLED"}

FlowInv == FlowTypeOK /\ Unborn /\ Fetched /\ NoneSucceeded /\ ChildEndsWithAttempt

-----------------------------------------------------------------------------

LEMMA FlowInitially == FlowInit => FlowInv
BY AttemptsAssumption, FlowConstants
   DEF FlowInit, FlowInv, FlowTypeOK, Unborn, Fetched, NoneSucceeded, ChildEndsWithAttempt,
       SuccessIsOwnChild, Mine, Attempts, Waits, Polling, Verdicts, ChildStates, Alive, Terminal

\* One step of the handler, of the host or of what befalls them.
LEMMA FlowTypeStep == ASSUME FlowTypeOK, FlowNext PROVE FlowTypeOK'
<1>. USE AttemptsAssumption, FlowConstants DEF FlowTypeOK, Attempts, Waits, Polling, Verdicts, ChildStates,
         Alive, Terminal, Mine, Becomes, Continue, End, Fault
<1>1. CASE Begin
  BY <1>1 DEF Begin
<1>2. CASE Create
  BY <1>2 DEF Create
<1>3. CASE Started
  BY <1>3 DEF Started
<1>4. CASE Poll
  BY <1>4 DEF Poll
<1>5. CASE Sleep
  BY <1>5 DEF Sleep
<1>6. CASE Stop
  BY <1>6 DEF Stop
<1>7. CASE Outputs
  BY <1>7 DEF Outputs
<1>8. CASE ChildEnds
  BY <1>8 DEF ChildEnds
<1>9. CASE Cancel
  <2>1. child' \in [Attempts -> ChildStates] /\ blind' \subseteq Attempts
    BY <1>9 DEF Cancel
  <2>2. cancels' \in 0 .. MaxCancels /\ UNCHANGED <<wait, attempt, faults>>
    BY <1>9 DEF Cancel
  <2>3. pc' \in Waits \cup {"ended"} /\ verdict' \in Verdicts
    BY <1>9 DEF Cancel
  <2>4. pc' = "ended" <=> verdict' # "none"
    BY <1>9 DEF Cancel
  <2>. QED
    BY <2>1, <2>2, <2>3, <2>4
<1>10. CASE WorkerLost
  BY <1>10 DEF WorkerLost
<1>11. CASE Retry
  BY <1>11 DEF Retry
<1>. QED
  BY <1>1, <1>2, <1>3, <1>4, <1>5, <1>6, <1>7, <1>8, <1>9, <1>10, <1>11 DEF FlowNext, Handler

\* No action touches the child of another attempt but its own end, and none
\* brings one into being but the creation.
LEMMA UnbornStep == ASSUME FlowTypeOK, Unborn, FlowNext PROVE Unborn'
<1>. USE AttemptsAssumption, FlowConstants DEF FlowTypeOK, Unborn, Attempts, Waits, Polling, Alive, Terminal, Mine,
         Becomes, Continue, End
<1>1. CASE Begin
  BY <1>1 DEF Begin
<1>2. CASE Create
  BY <1>2 DEF Create
<1>3. CASE Started
  BY <1>3 DEF Started
<1>4. CASE Poll
  BY <1>4 DEF Poll
<1>5. CASE Sleep
  BY <1>5 DEF Sleep
<1>6. CASE Stop
  BY <1>6 DEF Stop
<1>7. CASE Outputs
  BY <1>7 DEF Outputs
<1>8. CASE ChildEnds
  BY <1>8 DEF ChildEnds
<1>9. CASE Cancel
  BY <1>9 DEF Cancel
<1>10. CASE WorkerLost
  BY <1>10 DEF WorkerLost
<1>11. CASE Retry
  BY <1>11 DEF Retry
<1>. QED
  BY <1>1, <1>2, <1>3, <1>4, <1>5, <1>6, <1>7, <1>8, <1>9, <1>10, <1>11 DEF FlowNext, Handler

LEMMA FetchedStep == ASSUME FlowTypeOK, Fetched, FlowNext PROVE Fetched'
<1>. USE AttemptsAssumption, FlowConstants DEF FlowTypeOK, Fetched, SuccessIsOwnChild, Attempts, Waits, Polling,
         Alive, Terminal, Mine, Becomes, Continue, End
<1>1. CASE Begin
  BY <1>1 DEF Begin
<1>2. CASE Create
  BY <1>2 DEF Create
<1>3. CASE Started
  BY <1>3 DEF Started
<1>4. CASE Poll
  BY <1>4 DEF Poll
<1>5. CASE Sleep
  BY <1>5 DEF Sleep
<1>6. CASE Stop
  BY <1>6 DEF Stop
<1>7. CASE Outputs
  BY <1>7 DEF Outputs
<1>8. CASE ChildEnds
  BY <1>8 DEF ChildEnds
<1>9. CASE Cancel
  BY <1>9 DEF Cancel
<1>10. CASE WorkerLost
  BY <1>10 DEF WorkerLost
<1>11. CASE Retry
  BY <1>11 DEF Retry
<1>. QED
  BY <1>1, <1>2, <1>3, <1>4, <1>5, <1>6, <1>7, <1>8, <1>9, <1>10, <1>11 DEF FlowNext, Handler

\* Of the steps that end an attempt, the fetched outputs succeed, and the
\* others see a child that has failed, or none; the rest are counted.
LEMMA NoneSucceededStep ==
  ASSUME FlowTypeOK, Unborn, Fetched, NoneSucceeded, FlowNext
  PROVE  NoneSucceeded'
<1>. USE AttemptsAssumption, FlowConstants DEF FlowTypeOK, NoneSucceeded, Attempts, Waits, Polling, Alive, Terminal,
         Mine, Becomes, Continue, End, Fault
<1>1. CASE Begin
  BY <1>1 DEF Begin, Unborn
<1>2. CASE Create
  BY <1>2 DEF Create, Unborn
<1>3. CASE Started
  BY <1>3 DEF Started
<1>4. CASE Poll
  BY <1>4 DEF Poll
<1>5. CASE Sleep
  BY <1>5 DEF Sleep
<1>6. CASE Stop
  BY <1>6 DEF Stop
<1>7. CASE Outputs
  BY <1>7 DEF Outputs
<1>8. CASE ChildEnds
  BY <1>8 DEF ChildEnds
<1>9. CASE Cancel
  BY <1>9 DEF Cancel
<1>10. CASE WorkerLost
  BY <1>10 DEF WorkerLost
<1>11. CASE Retry
  BY <1>11 DEF Retry, Unborn
<1>. QED
  BY <1>1, <1>2, <1>3, <1>4, <1>5, <1>6, <1>7, <1>8, <1>9, <1>10, <1>11 DEF FlowNext, Handler

LEMMA ChildEndsStep ==
  ASSUME FlowTypeOK, Unborn, Fetched, ChildEndsWithAttempt, FlowNext
  PROVE  ChildEndsWithAttempt'
<1>. USE AttemptsAssumption, FlowConstants DEF FlowTypeOK, ChildEndsWithAttempt, Attempts, Waits, Polling, Alive,
         Terminal, Mine, Becomes, Continue, End, Fault
<1>1. CASE Begin
  BY <1>1 DEF Begin, Unborn
<1>2. CASE Create
  BY <1>2 DEF Create, Unborn
<1>3. CASE Started
  BY <1>3 DEF Started
<1>4. CASE Poll
  BY <1>4 DEF Poll
<1>5. CASE Sleep
  BY <1>5 DEF Sleep
<1>6. CASE Stop
  BY <1>6 DEF Stop
<1>7. CASE Outputs
  BY <1>7 DEF Outputs, Fetched
<1>8. CASE ChildEnds
  BY <1>8 DEF ChildEnds
<1>9. CASE Cancel
  BY <1>9 DEF Cancel
<1>10. CASE WorkerLost
  BY <1>10 DEF WorkerLost
<1>11. CASE Retry
  BY <1>11 DEF Retry, Unborn
<1>. QED
  BY <1>1, <1>2, <1>3, <1>4, <1>5, <1>6, <1>7, <1>8, <1>9, <1>10, <1>11 DEF FlowNext, Handler

LEMMA FlowStutters == ASSUME FlowInv, UNCHANGED flowVars PROVE FlowInv'
BY DEF FlowInv, flowVars, FlowTypeOK, Unborn, Fetched, NoneSucceeded, ChildEndsWithAttempt,
       SuccessIsOwnChild, Mine

-----------------------------------------------------------------------------

\* The inductive invariant of flow.run, behind the four that follow.
THEOREM FlowInvariant == FlowSpec => []FlowInv
<1>1. FlowInit => FlowInv
  BY FlowInitially
<1>2. FlowInv /\ [FlowNext]_flowVars => FlowInv'
  BY FlowTypeStep, UnbornStep, FetchedStep, NoneSucceededStep, ChildEndsStep, FlowStutters
     DEF FlowInv
<1>. QED
  BY <1>1, <1>2, PTL DEF FlowSpec

\* Type correctness, for every number of attempts, cancellations and faults.
THEOREM FlowTypeCorrect == FlowSpec => []FlowTypeOK
<1>1. FlowInv => FlowTypeOK
  BY DEF FlowInv
<1>. QED
  BY <1>1, FlowInvariant, PTL

\* However often the step is tried, an attempt that is over has left no child
\* at work, unless a fault or a cancellation outside the polling loop struck.
THEOREM NoOrphan == FlowSpec => []ChildEndsWithAttempt
<1>1. FlowInv => ChildEndsWithAttempt
  BY DEF FlowInv
<1>. QED
  BY <1>1, FlowInvariant, PTL

\* A child that succeeded is the last one, unless a call failed or the step
\* was cancelled.
THEOREM RunOnce == FlowSpec => []NotRunAgain
<1>1. FlowInv => NotRunAgain
  <2> SUFFICES ASSUME FlowInv, wait, faults = 0, cancels = 0,
                      NEW a \in Attempts, child[a] = "SUCCESS",
                      NEW b \in Attempts, b > a
               PROVE  child[b] = "none"
    BY DEF NotRunAgain
  <2>1. ~(a < attempt)
    BY DEF FlowInv, NoneSucceeded
  <2>2. b > attempt
    BY <2>1 DEF FlowInv, FlowTypeOK, Attempts
  <2>. QED
    BY <2>2 DEF FlowInv, Unborn
<1>. QED
  BY <1>1, FlowInvariant, PTL

\* A waiting step succeeds on the success of the child this attempt started.
THEOREM OwnSuccess == FlowSpec => []SuccessIsOwnChild
<1>1. FlowInv => SuccessIsOwnChild
  BY DEF FlowInv, Fetched
<1>. QED
  BY <1>1, FlowInvariant, PTL

-----------------------------------------------------------------------------
(* The other steps. *)

(* A sync sleeps only before a request it may still make. *)
Slept == pc = "sleep" => tries < MaxTries

(* Nothing is told before the end, and a success only of what was sent. *)
Told ==
  /\ pc # "done" => events = <<>>
  /\ pc = "tell success" => sent

(* What was fetched of the precheck is of its step. *)
PreRead == handler = "compare" => pre \subseteq OfStep(cfg.pre)

(* The names that an assertion has behind it, while it holds. *)
Fulfilled(i) ==
  \E k \in DOMAIN store :
    /\ store[k].step = cfg.pre /\ store[k].name = Sought[i]
    /\ Actual(store[k]) # Nothing /\ Holds(cfg.operator, Actual(store[k]), cfg.expected)
Asserted ==
  handler = "assert" /\ pc = "assert" /\ ~unmet => \A i \in DOMAIN Sought : i < idx => Fulfilled(i)

(* A first request that was given up has left the sync asleep, or without success. *)
GaveUp ==
  (lingering \/ overtaken) /\ tries = 1 /\ attempt = 1 /\ at = 1 =>
    pc = "sleep" \/ (pc = "done" /\ result # "success")

(* The inductive invariant. *)
StepsInv ==
  /\ TypeOK /\ Slept /\ GaveUp /\ Told /\ PreRead /\ Asserted
  /\ EvidenceBehindPass /\ MatchHolds /\ AddressesWatched /\ StopMeansGone /\ SyncIsClean /\ EventTellsResult

(* What the assumptions say of the bounds. *)
LEMMA Bounds ==
  /\ MaxTries \in Nat /\ 1 <= MaxTries
  /\ MaxAttempts \in Nat /\ 1 <= MaxAttempts
BY AttemptsAssumption, ConstantsAssumption

(* The names an assertion looks for are those of a sequence. *)
LEMMA SoughtNames ==
  ASSUME flow \in Flows, at \in DOMAIN flow, handler = "assert"
  PROVE  DOMAIN Sought = 1 .. Len(Sought) /\ Len(Sought) \in Nat
<1>1. cfg.devices \in Seq(STRING) /\ cfg.named \in Seq(Range(cfg.named))
  BY ConstantsAssumption DEF handler, cfg
<1>2. CASE cfg.command # ""
  <2> DEFINE Made == {<<d, cfg.command>> : d \in STRING}
  <2>1. DOMAIN cfg.devices = 1 .. Len(cfg.devices) /\ Len(cfg.devices) \in Nat
        /\ \A i \in DOMAIN cfg.devices : cfg.devices[i] \in STRING
    BY <1>1, LenProperties
  <2>2. Sought = [i \in 1 .. Len(cfg.devices) |-> <<cfg.devices[i], cfg.command>>]
    BY <1>2, <2>1 DEF Sought
  <2>3. Sought \in [1 .. Len(cfg.devices) -> Made]
    BY <2>1, <2>2
  <2> HIDE DEF Made
  <2>4. Sought \in Seq(Made)
    BY <2>1, <2>3 DEF Seq
  <2> QED
    BY <2>4, LenProperties
<1>3. CASE cfg.command = ""
  BY <1>1, <1>3, LenProperties DEF Sought
<1> QED
  BY <1>2, <1>3

(* The host goes to the next attempt or step, or the step stays where it is. *)
LEMMA Moves ==
  ASSUME [Next]_vars
  PROVE  flow' = flow /\ (Fresh \/ (handler' = handler /\ cfg' = cfg /\ UNCHANGED step))
<1> USE DEF step
<1>1. CASE Repeat \/ GoOn
  BY <1>1 DEF Repeat, GoOn, Fresh
<1>2. CASE FetchPre \/ FetchPostAndCompare \/ ResolveNames \/ AssertNext \/ JudgeAssertions
  BY <1>2 DEF FetchPre, FetchPostAndCompare, ResolveNames, AssertNext, JudgeAssertions, handler, cfg
<1>3. CASE StartMonitor \/ StopMonitor \/ Request \/ SleepAndRepeat \/ Prepare \/ Dispatch \/ EmitEvent
  BY <1>3
     DEF StartMonitor, StopMonitor, Request, SleepAndRepeat, Prepare, Dispatch, EmitEvent,
         handler, cfg
<1>4. CASE MonitorEnds \/ CarryOutLate \/ Collect \/ Abandon \/ UNCHANGED vars
  BY <1>4 DEF MonitorEnds, CarryOutLate, Collect, Abandon, vars, handler, cfg
<1> QED
  BY <1>1, <1>2, <1>3, <1>4 DEF Next, Step

(* A sequence that grows keeps its elements in their places. *)
LEMMA OneMore ==
  ASSUME NEW S, NEW s \in Seq(S), NEW a \in S
  PROVE  /\ Append(s, a) \in Seq(S)
         /\ DOMAIN s \subseteq DOMAIN Append(s, a)
         /\ \A k \in DOMAIN s : Append(s, a)[k] = s[k]
<1>1. DOMAIN s = 1 .. Len(s) /\ Len(s) \in Nat
  BY LenProperties
<1>2. /\ Append(s, a) \in Seq(S) /\ Len(Append(s, a)) = Len(s) + 1
      /\ \A k \in 1 .. Len(s) : Append(s, a)[k] = s[k]
  BY AppendProperties
<1>3. DOMAIN Append(s, a) = 1 .. Len(s) + 1
  BY <1>2, LenProperties
<1> QED
  BY <1>1, <1>2, <1>3

(* The evidence of a run only grows. *)
LEMMA StoreGrows ==
  ASSUME TypeOK, [Next]_vars
  PROVE  /\ store' \in Seq(Artifacts)
         /\ DOMAIN store \subseteq DOMAIN store'
         /\ \A k \in DOMAIN store : store'[k] = store[k]
<1> USE DEF evidence
<1>0. store \in Seq(Artifacts)
  BY DEF TypeOK
<1>1. CASE Collect
  <2>1. PICK a \in Artifacts : store' = Append(store, a)
    BY <1>1 DEF Collect
  <2> QED
    BY <1>0, <2>1, OneMore
<1>2. CASE UNCHANGED store
  BY <1>0, <1>2
<1>3. CASE Step \/ MonitorEnds \/ CarryOutLate \/ Abandon \/ Repeat \/ GoOn \/ UNCHANGED vars
  <2>1. UNCHANGED store
    BY <1>3
       DEF Step, FetchPre, FetchPostAndCompare, ResolveNames, AssertNext, JudgeAssertions,
           StartMonitor,
       StopMonitor, Request, SleepAndRepeat, Prepare, Dispatch, EmitEvent, MonitorEnds, CarryOutLate, Abandon, Repeat, GoOn,
       Fresh, vars
  <2> QED
    BY <1>2, <2>1
<1> QED
  BY <1>1, <1>3 DEF Next

(* So does what a step has in it, and the names of what was read remain. *)
LEMMA PlacesKept ==
  ASSUME TypeOK, [Next]_vars
  PROVE  /\ \A id : OfStep(id) \subseteq OfStep(id)'
         /\ \A ks \in SUBSET DOMAIN store : {store'[k].name : k \in ks} = NamesOf(ks)
BY StoreGrows DEF OfStep, NamesOf

(* Every flow begins with nothing fetched, watched, sent or told. *)
LEMMA StepsInit == ASSUME Init PROVE StepsInv
<1>1. TypeOK
  <2>1. 1 \in DOMAIN flow /\ flow \in Flows
    <3>1. flow \in Seq(Range(flow)) /\ flow # <<>>
      BY ConstantsAssumption DEF Init
    <3>2. DOMAIN flow = 1 .. Len(flow) /\ Len(flow) \in Nat /\ Len(flow) # 0
      BY <3>1, LenProperties, EmptySeq
    <3> QED
      BY <3>2 DEF Init
  <2>2. <<>> \in Seq(Artifacts) /\ <<>> \in Seq({"success", "failure"}) /\ DOMAIN store = {}
    BY DEF Init
  <2>3. at \in DOMAIN flow /\ flow \in Flows /\ attempt \in 1 .. MaxAttempts /\ tries \in 1 .. MaxTries
    BY <2>1, Bounds DEF Init
  <2>4. lastSync \in [failed : BOOLEAN, conflicts : BOOLEAN, done : BOOLEAN]
    BY DEF Init, Never
  <2>5. compared = {} /\ pre = {} /\ store \in Seq(Artifacts) /\ events \in Seq({"success", "failure"})
    BY <2>2 DEF Init
  <2>6. pre \subseteq DOMAIN store /\ compared \subseteq NamesOf(DOMAIN store)
    BY <2>5
  <2>7. /\ pc = "begin" /\ result = "none" /\ idx \in Nat \ {0}
    BY DEF Init
  <2>9. /\ unmet \in BOOLEAN
        /\ transient \in BOOLEAN /\ sent \in BOOLEAN
        /\ reported \in BOOLEAN /\ lingering \in BOOLEAN /\ overtaken \in BOOLEAN
    BY Zenon DEF Init
  <2>8. /\ pc \in {"begin", "fetch", "assert", "sleep", "dispatch", "tell success", "tell failure", "done"}
        /\ result \in {"none", "success", "failure", "raised", "abandoned"}
        /\ pc = "done" <=> result # "none"
    BY <2>7
  <2> QED
    BY <2>3, <2>4, <2>5, <2>6, <2>7, <2>8, <2>9, Zenon DEF TypeOK
<1>2. Slept /\ GaveUp /\ Told /\ PreRead /\ Asserted /\ EvidenceBehindPass /\ MatchHolds /\ AddressesWatched
      /\ StopMeansGone /\ SyncIsClean /\ EventTellsResult
  BY DEF Init, Slept, GaveUp, Told, PreRead, Asserted, EvidenceBehindPass, MatchHolds, AddressesWatched,
     StopMeansGone, SyncIsClean, EventTellsResult, Succeeded
<1> QED
  BY <1>1, <1>2 DEF StepsInv

-----------------------------------------------------------------------------
(* The conversation with the host. *)

(* Only a disturbed request with tries left puts the sync to sleep. *)
LEMMA SleptKept == ASSUME StepsInv, [Next]_vars PROVE Slept'
<1> USE DEF StepsInv, Slept, evidence, sync, notice
<1>1. CASE FetchPre \/ FetchPostAndCompare \/ ResolveNames \/ AssertNext \/ JudgeAssertions
  BY <1>1 DEF FetchPre, FetchPostAndCompare, ResolveNames, AssertNext, JudgeAssertions, Done, Goes
<1>2. CASE StartMonitor \/ StopMonitor \/ Prepare \/ Dispatch \/ EmitEvent
  BY <1>2 DEF StartMonitor, StopMonitor, Prepare, Dispatch, EmitEvent, Done, Goes
<1>3. CASE Request
  BY <1>3 DEF Request, Answered, AnsweredWithout, Refused, Disturbed, Done, Goes
<1>4. CASE SleepAndRepeat
  BY <1>4 DEF SleepAndRepeat, Goes
<1>5. CASE MonitorEnds \/ CarryOutLate \/ Collect \/ Abandon \/ Repeat \/ GoOn \/ UNCHANGED vars
  BY <1>5 DEF MonitorEnds, CarryOutLate, Collect, Abandon, Repeat, GoOn, Fresh, Done, vars
<1> QED
  BY <1>1, <1>2, <1>3, <1>4, <1>5 DEF Next, Step

(* The event is the last thing a notification does. *)
LEMMA ToldKept == ASSUME StepsInv, [Next]_vars PROVE Told'
<1> USE DEF StepsInv, Told, evidence, sync, notice
<1>1. CASE FetchPre \/ FetchPostAndCompare \/ ResolveNames \/ AssertNext \/ JudgeAssertions
  BY <1>1
     DEF FetchPre, FetchPostAndCompare, ResolveNames, AssertNext, JudgeAssertions, Done, Goes,
         Runs
<1>2. CASE StartMonitor \/ StopMonitor
  BY <1>2 DEF StartMonitor, StopMonitor, Done, Runs
<1>3. CASE Prepare \/ Dispatch \/ EmitEvent
  BY <1>3 DEF Prepare, Dispatch, EmitEvent, Done, Goes, Runs
<1>4. CASE Request \/ SleepAndRepeat
  BY <1>4 DEF Request, Answered, AnsweredWithout, Refused, Disturbed, SleepAndRepeat, Done, Goes, Runs
<1>5. CASE MonitorEnds \/ CarryOutLate \/ Collect \/ Abandon \/ Repeat \/ GoOn \/ UNCHANGED vars
  BY <1>5 DEF MonitorEnds, CarryOutLate, Collect, Abandon, Repeat, GoOn, Fresh, Done, vars
<1> QED
  BY <1>1, <1>2, <1>3, <1>4, <1>5 DEF Next, Step

(* A start needs another step, which has another result. *)
LEMMA StopKept == ASSUME StepsInv, [Next]_vars PROVE StopMeansGone'
<1> USE DEF StepsInv, StopMeansGone, evidence, sync, notice
<1>1. CASE Fresh
  BY <1>1 DEF Fresh
<1>2. CASE handler' = handler
  <2>1. CASE FetchPre \/ FetchPostAndCompare \/ ResolveNames \/ AssertNext \/ JudgeAssertions \/ StartMonitor
             \/ Request \/ SleepAndRepeat \/ Prepare \/ Dispatch \/ EmitEvent
    <3>1. handler # "stop"
      BY <2>1
         DEF FetchPre, FetchPostAndCompare, ResolveNames, AssertNext, JudgeAssertions,
             StartMonitor,
         Request, SleepAndRepeat, Prepare, Dispatch, EmitEvent, Runs
    <3> QED
      BY <1>2, <3>1
  <2>2. CASE StopMonitor
    BY <2>2 DEF StopMonitor, Done
  <2>3. CASE MonitorEnds
    BY <1>2, <2>3 DEF MonitorEnds
  <2>4. CASE CarryOutLate \/ Collect \/ Abandon \/ UNCHANGED vars
    BY <1>2, <2>4 DEF CarryOutLate, Collect, Abandon, Done, vars
  <2>5. CASE Repeat \/ GoOn
    BY <2>5 DEF Repeat, GoOn, Fresh
  <2> QED
    BY <2>1, <2>2, <2>3, <2>4, <2>5 DEF Next, Step
<1> QED
  BY <1>1, <1>2, Moves

(* Giving a request up is not the end, or one without success. *)
LEMMA GaveUpKept == ASSUME StepsInv, [Next]_vars PROVE GaveUp'
<1> USE DEF GaveUp, evidence, sync, notice, step
<1>0. /\ GaveUp /\ tries \in Nat /\ tries >= 1 /\ attempt \in Nat /\ attempt >= 1
      /\ at \in Nat /\ at >= 1 /\ (pc = "done" <=> result # "none")
  <2>1. DOMAIN flow = 1 .. Len(flow) /\ Len(flow) \in Nat
    BY ConstantsAssumption, LenProperties DEF StepsInv, TypeOK
  <2>2. /\ tries \in 1 .. MaxTries /\ attempt \in 1 .. MaxAttempts /\ at \in DOMAIN flow
        /\ (pc = "done" <=> result # "none") /\ GaveUp
    BY Zenon DEF StepsInv, TypeOK
  <2> QED
    BY <2>1, <2>2, Bounds
<1>1. CASE FetchPre \/ FetchPostAndCompare \/ ResolveNames \/ AssertNext \/ JudgeAssertions
  BY <1>0, <1>1 DEF FetchPre, FetchPostAndCompare, ResolveNames, AssertNext, JudgeAssertions, Runs
<1>2. CASE StartMonitor \/ StopMonitor \/ Prepare \/ Dispatch \/ EmitEvent
  BY <1>0, <1>2 DEF StartMonitor, StopMonitor, Prepare, Dispatch, EmitEvent, Runs
<1>3. CASE Request
  <2>1. pc = "begin" /\ UNCHANGED <<tries, attempt, at, overtaken>>
    BY <1>3 DEF Request, Runs
  <2>2. CASE Answered
    BY <1>0, <2>1, <2>2 DEF Answered
  <2>3. CASE Refused \/ Disturbed
    <3>1. pc' = "sleep" \/ (pc' = "done" /\ result' # "success")
      BY <2>3 DEF Refused, Disturbed, Done, Goes
    <3> QED
      BY <3>1
  <2> QED
    BY <1>3, <2>2, <2>3 DEF Request
<1>4. CASE SleepAndRepeat
  BY <1>0, <1>4 DEF SleepAndRepeat
<1>5. CASE CarryOutLate
  BY <1>0, <1>5 DEF CarryOutLate
<1>6. CASE Abandon
  BY <1>6 DEF Abandon, Done
<1>7. CASE MonitorEnds \/ Collect \/ UNCHANGED vars
  BY <1>0, <1>7 DEF MonitorEnds, Collect, vars
<1>8. CASE Repeat \/ GoOn
  BY <1>0, <1>8 DEF Repeat, GoOn
<1> QED
  BY <1>1, <1>2, <1>3, <1>4, <1>5, <1>6, <1>7, <1>8 DEF Next, Step

(* What SyncIsClean says of a success, and of a failure. *)
ReportHolds ==
  Succeeded("sync") /\ reported /\ ~overtaken => lastSync.done /\ ~lastSync.failed /\ ~lastSync.conflicts
TriedOut == handler = "sync" /\ result = "failure" /\ transient => tries = MaxTries

(* A report is of the last run, until one that was given up is carried out. *)
LEMMA SyncKept == ASSUME StepsInv, [Next]_vars PROVE ReportHolds' /\ TriedOut'
<1> USE DEF ReportHolds, TriedOut, Succeeded, evidence, sync, notice
<1>0. ReportHolds /\ TriedOut /\ (pc = "done" <=> result # "none")
  BY DEF StepsInv, SyncIsClean, TypeOK
<1>1. CASE Fresh
  BY <1>1 DEF Fresh
<1>2. CASE handler' = handler
  <2>1. CASE FetchPre \/ FetchPostAndCompare \/ ResolveNames \/ AssertNext \/ JudgeAssertions \/ StartMonitor
             \/ StopMonitor \/ Prepare \/ Dispatch \/ EmitEvent
    <3>1. handler # "sync"
      BY <2>1
         DEF FetchPre, FetchPostAndCompare, ResolveNames, AssertNext, JudgeAssertions,
             StartMonitor,
         StopMonitor, Prepare, Dispatch, EmitEvent, Runs
    <3> QED
      BY <1>2, <3>1
  <2>2. CASE Request
    <3>1. tries \in 1 .. MaxTries /\ tries' = tries /\ result = "none" /\ MaxTries \in Nat
      BY <2>2, Bounds DEF Request, Runs, StepsInv, TypeOK
    <3>2. CASE Answered
      BY <3>1, <3>2 DEF Answered, AnsweredWithout, CarriesOut, Done
    <3>3. CASE Refused
      BY <3>1, <3>3 DEF Refused, Done
    <3>4. CASE Disturbed
      BY <3>1, <3>4 DEF Disturbed, Done, Goes
    <3> QED
      BY <2>2, <3>2, <3>3, <3>4 DEF Request
  <2>3. CASE SleepAndRepeat
    BY <1>0, <2>3 DEF SleepAndRepeat, Goes, Runs
  <2>4. CASE CarryOutLate
    BY <1>0, <1>2, <2>4 DEF CarryOutLate
  <2>5. CASE Abandon
    BY <2>5 DEF Abandon, Done
  <2>6. CASE MonitorEnds \/ Collect \/ UNCHANGED vars
    BY <1>0, <1>2, <2>6 DEF MonitorEnds, Collect, vars
  <2>7. CASE Repeat \/ GoOn
    BY <2>7 DEF Repeat, GoOn, Fresh
  <2> QED
    BY <2>1, <2>2, <2>3, <2>4, <2>5, <2>6, <2>7 DEF Next, Step
<1> QED
  BY <1>1, <1>2, Moves

Words == {"success", "failure"}
(* One word appended to nothing. *)
LEMMA SingleEvent ==
  /\ \A e : e = <<>> => Len(e) <= 1
  /\ \A e : e = <<>> => \A o \in Words : Len(Append(e, o)) <= 1 /\ Append(e, o)[1] = o
<1> SUFFICES ASSUME NEW e, e = <<>>, NEW o \in Words
             PROVE  Len(e) <= 1 /\ Len(Append(e, o)) <= 1 /\ Append(e, o)[1] = o
  BY DEF Words
<1>1. e \in Seq(Words) /\ Len(e) = 0
  OBVIOUS
<1>2. Len(Append(e, o)) = 1 /\ Append(e, o)[1] = o
  BY <1>1, AppendProperties
<1> QED
  BY <1>1, <1>2

(* The event is posted with the result, and the result is decided once. *)
LEMMA EventKept == ASSUME StepsInv, [Next]_vars PROVE EventTellsResult'
<1> USE DEF StepsInv, EventTellsResult, Told, Words, evidence, sync, notice
<1>0. /\ \A e : e = <<>> => Len(e) <= 1
      /\ \A e : e = <<>> => \A o \in Words : Len(Append(e, o)) <= 1 /\ Append(e, o)[1] = o
  BY SingleEvent
<1>1. CASE Fresh
  BY <1>0, <1>1 DEF Fresh
<1>2. CASE handler' = handler
  <2>1. CASE FetchPre \/ FetchPostAndCompare \/ ResolveNames \/ AssertNext \/ JudgeAssertions \/ StartMonitor
             \/ StopMonitor \/ Request \/ SleepAndRepeat
    <3>1. handler # "notify"
      BY <2>1
         DEF FetchPre, FetchPostAndCompare, ResolveNames, AssertNext, JudgeAssertions,
             StartMonitor,
         StopMonitor, Request, SleepAndRepeat, Runs
    <3> QED
      BY <1>2, <3>1
  <2>2. CASE Prepare \/ Dispatch
    BY <1>0, <2>2 DEF Prepare, Dispatch, Runs, Done, Goes, TypeOK
  <2>3. CASE EmitEvent
    BY <1>0, <2>3 DEF EmitEvent, Done
  <2>4. CASE MonitorEnds \/ CarryOutLate \/ Collect \/ UNCHANGED vars
    BY <1>2, <2>4 DEF MonitorEnds, CarryOutLate, Collect, vars
  <2>5. CASE Abandon
    BY <1>0, <2>5 DEF Abandon, Done
  <2>6. CASE Repeat \/ GoOn
    BY <1>0, <2>6 DEF Repeat, GoOn, Fresh
  <2> QED
    BY <2>1, <2>2, <2>3, <2>4, <2>5, <2>6 DEF Next, Step
<1> QED
  BY <1>1, <1>2, Moves

-----------------------------------------------------------------------------
(* The types. *)

Places == {"begin", "fetch", "assert", "sleep", "dispatch", "tell success", "tell failure", "done"}
Results == {"none", "success", "failure", "raised", "abandoned"}

(* Where the flow is, and what its attempt has come to. *)
LEMMA PlaceKept ==
  ASSUME StepsInv, [Next]_vars
  PROVE  /\ flow' \in Flows /\ at' \in DOMAIN flow' /\ attempt' \in 1 .. MaxAttempts
         /\ pc' \in Places /\ result' \in Results /\ (pc' = "done" <=> result' # "none")
<1> USE DEF Places, Results
<1>0. /\ flow \in Flows /\ at \in DOMAIN flow /\ attempt \in 1 .. MaxAttempts
      /\ pc \in Places /\ result \in Results /\ (pc = "done" <=> result # "none")
  BY DEF StepsInv, TypeOK
<1>1. ASSUME NEW o \in {"success", "failure", "raised", "abandoned"}, Done(o)
      PROVE  pc' \in Places /\ result' \in Results /\ (pc' = "done" <=> result' # "none")
  BY <1>1 DEF Done
<1>2. ASSUME NEW p \in Places \ {"done"}, Goes(p), pc # "done"
      PROVE  pc' \in Places /\ result' \in Results /\ (pc' = "done" <=> result' # "none")
  BY <1>0, <1>2 DEF Goes
<1>3. CASE Repeat
  <2>1. attempt' \in 1 .. MaxAttempts
    BY <1>0, <1>3, Bounds DEF Repeat
  <2> QED
    BY <1>0, <1>3, <2>1 DEF Repeat, Fresh
<1>4. CASE GoOn
  <2>1. DOMAIN flow = 1 .. Len(flow) /\ Len(flow) \in Nat
    BY <1>0, ConstantsAssumption, LenProperties
  <2>2. at + 1 \in DOMAIN flow /\ 1 \in 1 .. MaxAttempts
    BY <1>0, <1>4, <2>1, Bounds DEF GoOn
  <2> QED
    BY <1>0, <1>4, <2>2 DEF GoOn, Fresh
<1>5. CASE FetchPre \/ ResolveNames \/ AssertNext \/ JudgeAssertions
  BY <1>0, <1>1, <1>2, <1>5 DEF FetchPre, ResolveNames, AssertNext, JudgeAssertions, Runs, step
<1>6. CASE FetchPostAndCompare
  <2>1. \E o \in {"success", "failure", "raised"} : Done(o)
    BY <1>6 DEF FetchPostAndCompare
  <2> QED
    BY <1>0, <1>1, <1>6, <2>1 DEF FetchPostAndCompare, step
<1>7. CASE StartMonitor \/ StopMonitor \/ Prepare \/ Dispatch \/ EmitEvent
  BY <1>0, <1>1, <1>2, <1>7 DEF StartMonitor, StopMonitor, Prepare, Dispatch, EmitEvent, Runs, step
<1>8. CASE Request \/ SleepAndRepeat
  BY <1>0, <1>1, <1>2, <1>8 DEF Request, Answered, AnsweredWithout, Refused, Disturbed, SleepAndRepeat, Runs, step
<1>9. CASE Abandon
  BY <1>0, <1>1, <1>9 DEF Abandon, step
<1>10. CASE MonitorEnds \/ CarryOutLate \/ Collect \/ UNCHANGED vars
  BY <1>0, <1>10 DEF MonitorEnds, CarryOutLate, Collect, step, vars
<1> QED
  BY <1>3, <1>4, <1>5, <1>6, <1>7, <1>8, <1>9, <1>10 DEF Next, Step

(* What was fetched and compared is in the store. *)
LEMMA FetchedKept ==
  ASSUME StepsInv, [Next]_vars
  PROVE  pre' \subseteq DOMAIN store' /\ compared' \subseteq NamesOf(DOMAIN store)' /\ PreRead'
<1> USE DEF evidence
<1>0. /\ pre \subseteq DOMAIN store /\ compared \subseteq NamesOf(DOMAIN store)
      /\ DOMAIN store \subseteq DOMAIN store' /\ \A k \in DOMAIN store : store'[k] = store[k]
      /\ \A id : OfStep(id) \subseteq OfStep(id)' /\ OfStep(id) \subseteq DOMAIN store
      /\ PreRead
  BY StoreGrows, PlacesKept DEF StepsInv, TypeOK, OfStep
<1>1. NamesOf(DOMAIN store) \subseteq NamesOf(DOMAIN store)'
  BY <1>0 DEF NamesOf
<1>2. CASE Repeat \/ GoOn
  BY <1>2 DEF Repeat, GoOn, Fresh, PreRead
<1>3. ASSUME handler' = handler, cfg' = cfg, UNCHANGED pre PROVE pre' \subseteq DOMAIN store' /\ PreRead'
  BY <1>0, <1>3 DEF PreRead
<1>4. CASE FetchPre
  <2>1. handler' = handler /\ cfg' = cfg /\ UNCHANGED <<store, compared>>
    BY <1>4 DEF FetchPre, step, handler, cfg
  <2>2. pre' = pre \/ pre' \subseteq OfStep(cfg.pre)
    BY <1>4 DEF FetchPre
  <2>3. pre' \subseteq DOMAIN store /\ (handler = "compare" => pre' \subseteq OfStep(cfg.pre))
    BY <1>0, <2>2 DEF PreRead
  <2> QED
    BY <1>0, <1>1, <2>1, <2>3 DEF PreRead
<1>5. CASE FetchPostAndCompare
  <2>1. handler' = handler /\ cfg' = cfg /\ UNCHANGED <<store, pre>>
    BY <1>5 DEF FetchPostAndCompare, step, handler, cfg
  <2>2. compared' \subseteq NamesOf(pre)
    BY <1>5 DEF FetchPostAndCompare, Selected
  <2>3. NamesOf(pre) \subseteq NamesOf(DOMAIN store)
    BY <1>0 DEF NamesOf
  <2> QED
    BY <1>1, <1>3, <2>1, <2>2, <2>3
<1>6. CASE ResolveNames \/ AssertNext \/ JudgeAssertions \/ StartMonitor \/ StopMonitor \/ Request
           \/ SleepAndRepeat \/ Prepare \/ Dispatch \/ EmitEvent
  <2>1. UNCHANGED <<flow, at, pre, compared>>
    BY <1>6
       DEF ResolveNames, AssertNext, JudgeAssertions, StartMonitor, StopMonitor, Request,
           SleepAndRepeat,
       Prepare, Dispatch, EmitEvent, step
  <2> QED
    BY <1>0, <1>1, <1>3, <2>1 DEF handler, cfg
<1>7. CASE MonitorEnds \/ CarryOutLate \/ Collect \/ Abandon \/ UNCHANGED vars
  <2>1. UNCHANGED <<flow, at, pre, compared>>
    BY <1>7 DEF MonitorEnds, CarryOutLate, Collect, Abandon, step, vars
  <2> QED
    BY <1>0, <1>1, <1>3, <2>1 DEF handler, cfg
<1> QED
  BY <1>2, <1>4, <1>5, <1>6, <1>7 DEF Next, Step

(* The counters stay within their bounds. *)
LEMMA CountersKept ==
  ASSUME StepsInv, [Next]_vars
  PROVE  /\ idx' \in Nat \ {0} /\ unmet' \in BOOLEAN
         /\ tries' \in 1 .. MaxTries /\ transient' \in BOOLEAN /\ sent' \in BOOLEAN
         /\ lastSync' \in [failed : BOOLEAN, conflicts : BOOLEAN, done : BOOLEAN]
         /\ reported' \in BOOLEAN /\ lingering' \in BOOLEAN /\ overtaken' \in BOOLEAN
         /\ events' \in Seq(Words)
<1> USE DEF evidence, sync, notice
<1>0. /\ idx \in Nat \ {0} /\ tries \in 1 .. MaxTries
      /\ lastSync \in [failed : BOOLEAN, conflicts : BOOLEAN, done : BOOLEAN]
      /\ events \in Seq(Words)
  BY DEF StepsInv, TypeOK, Words
<1>a. /\ unmet \in BOOLEAN /\ transient \in BOOLEAN /\ sent \in BOOLEAN
      /\ reported \in BOOLEAN /\ lingering \in BOOLEAN /\ overtaken \in BOOLEAN
  BY Zenon DEF StepsInv, TypeOK
<1>b. <<>> \in Seq(Words) /\ \A o \in Words : Append(events, o) \in Seq(Words)
  BY <1>0, AppendProperties
<1>c. 1 \in 1 .. MaxTries /\ (tries < MaxTries => tries + 1 \in 1 .. MaxTries)
  BY <1>0, Bounds
<1>d. CarriesOut => lastSync' \in [failed : BOOLEAN, conflicts : BOOLEAN, done : BOOLEAN]
  BY DEF CarriesOut
<1>e. 1 \in Nat \ {0}
  OBVIOUS
<1>1. CASE Repeat \/ GoOn
  <2>1. idx' = 1 /\ unmet' = FALSE /\ tries' = 1 /\ transient' = FALSE /\ sent' = FALSE
    BY <1>1, Zenon DEF Repeat, GoOn, Fresh
  <2>2. /\ lastSync' = lastSync /\ events' = <<>>
        /\ reported' = FALSE /\ overtaken' = FALSE /\ lingering' = lingering
    BY <1>1, Zenon DEF Repeat, GoOn, Fresh
  <2> QED
    BY <1>0, <1>a, <1>b, <1>c, <1>e, <2>1, <2>2, Zenon
<1>2. CASE FetchPre \/ FetchPostAndCompare \/ JudgeAssertions \/ StartMonitor \/ StopMonitor \/ Prepare
  BY <1>0, <1>2, <1>a, Zenon
     DEF FetchPre, FetchPostAndCompare, JudgeAssertions, StartMonitor, StopMonitor, Prepare
<1>3. CASE ResolveNames
  <2>1. idx' = 1 /\ unmet' = FALSE
    BY <1>3, Zenon DEF ResolveNames
  <2> QED
    BY <1>0, <1>3, <1>a, <1>e, <2>1, Zenon DEF ResolveNames
<1>4. CASE AssertNext
  <2>1. idx' \in Nat \ {0}
    BY <1>0, <1>4 DEF AssertNext
  <2>2. unmet' \in BOOLEAN
    BY <1>4, Zenon DEF AssertNext
  <2> QED
    BY <1>0, <1>4, <1>a, <2>1, <2>2, Zenon DEF AssertNext
<1>5. CASE Request
  <2>1. lastSync' \in [failed : BOOLEAN, conflicts : BOOLEAN, done : BOOLEAN]
    BY <1>0, <1>5, <1>d DEF Request, Answered, AnsweredWithout, Refused, Disturbed, GivenUp
  <2>2. transient' \in BOOLEAN
    BY <1>5, Zenon DEF Request, Answered, Refused, Disturbed
  <2>3. reported' \in BOOLEAN /\ lingering' \in BOOLEAN
    BY <1>5, <1>a, Zenon DEF Request, Answered, AnsweredWithout, Refused, Disturbed, GivenUp
  <2> QED
    BY <1>0, <1>5, <1>a, <2>1, <2>2, <2>3, Zenon DEF Request
<1>6. CASE SleepAndRepeat
  <2>1. tries' \in 1 .. MaxTries
    BY <1>6, <1>c DEF SleepAndRepeat, Runs, StepsInv, Slept
  <2> QED
    BY <1>0, <1>6, <1>a, <2>1, Zenon DEF SleepAndRepeat
<1>7. CASE Dispatch
  <2>1. sent' \in BOOLEAN
    BY <1>7, <1>a, Zenon DEF Dispatch
  <2> QED
    BY <1>0, <1>7, <1>a, <2>1, Zenon DEF Dispatch
<1>8. CASE EmitEvent
  <2>1. events' \in Seq(Words)
    BY <1>0, <1>8, <1>b DEF EmitEvent, Words
  <2> QED
    BY <1>0, <1>8, <1>a, <2>1, Zenon DEF EmitEvent
<1>9. CASE MonitorEnds \/ Collect \/ UNCHANGED vars
  BY <1>0, <1>9, <1>a, Zenon DEF MonitorEnds, Collect, vars
<1>10. CASE CarryOutLate
  <2>1. lastSync' \in [failed : BOOLEAN, conflicts : BOOLEAN, done : BOOLEAN]
    BY <1>10, <1>d DEF CarryOutLate
  <2>2. lingering' \in BOOLEAN /\ overtaken' \in BOOLEAN
    BY <1>10, Zenon DEF CarryOutLate
  <2> QED
    BY <1>0, <1>10, <1>a, <2>1, <2>2, Zenon DEF CarryOutLate
<1>11. CASE Abandon
  <2>1. lastSync' \in [failed : BOOLEAN, conflicts : BOOLEAN, done : BOOLEAN]
    BY <1>0, <1>11, <1>d DEF Abandon, GivenUp
  <2>2. lingering' \in BOOLEAN
    BY <1>11, <1>a, Zenon DEF Abandon, GivenUp
  <2> QED
    BY <1>0, <1>11, <1>a, <2>1, <2>2, Zenon DEF Abandon
<1> QED
  BY <1>1, <1>2, <1>3, <1>4, <1>5, <1>6, <1>7, <1>8, <1>9, <1>10, <1>11 DEF Next, Step

LEMMA TypesKept == ASSUME StepsInv, [Next]_vars PROVE TypeOK'
<1>1. store' \in Seq(Artifacts)
  BY StoreGrows DEF StepsInv
<1> QED
  BY <1>1, PlaceKept, FetchedKept, CountersKept, Zenon DEF TypeOK, Places, Results, Words

-----------------------------------------------------------------------------
(* The first and the last of some places. *)

(* A set of natural numbers has a least element. *)
LEMMA MinIn ==
  ASSUME NEW ks, ks \subseteq Nat, ks # {}
  PROVE  Min(ks) \in ks
<1> DEFINE below == OpToRel(<, Nat)
<1>1. \E k \in ks : \A j \in ks : <<j, k>> \notin below
  BY NatLessThanWellFounded, WFMin
<1>2. \A k, j \in Nat : j < k => <<j, k>> \in below
  BY DEF OpToRel
<1> HIDE DEF below
<1>3. PICK k \in ks : \A j \in ks : <<j, k>> \notin below
  BY <1>1
<1>4. \A j \in ks : j \in Nat /\ k \in Nat /\ ~ j < k
  BY <1>2, <1>3
<1>5. \A j \in ks : k =< j
  BY <1>4
<1> QED
  BY <1>5 DEF Min

(* A bounded one has a greatest: the one that is the least from above. *)
LEMMA MaxIn ==
  ASSUME NEW n \in Nat, NEW ks, ks \subseteq 1 .. n, ks # {}
  PROVE  Max(ks) \in ks
<1> DEFINE below == OpToRel(<, Nat)
           rest == {n - k : k \in ks}
<1>1. rest \subseteq Nat /\ rest # {}
  <2>1. \A k \in ks : n - k \in Nat
    OBVIOUS
  <2> QED
    BY <2>1
<1>2. \E k \in rest : \A j \in rest : <<j, k>> \notin below
  BY <1>1, NatLessThanWellFounded, WFMin
<1>3. \A k, j \in Nat : j < k => <<j, k>> \in below
  BY DEF OpToRel
<1> HIDE DEF below
<1>4. PICK m \in rest : \A j \in rest : <<j, m>> \notin below
  BY <1>2
<1>5. PICK k \in ks : m = n - k
  BY <1>4
<1>6. ASSUME NEW j \in ks PROVE k >= j
  <2>1. n - j \in rest /\ n - j \in Nat /\ m \in Nat
    BY <1>1, <1>4
  <2>2. ~ n - j < m
    BY <1>3, <1>4, <2>1
  <2> QED
    BY <1>5, <2>2
<1> QED
  BY <1>6 DEF Max

-----------------------------------------------------------------------------
(* evidence.assert *)

(* An assertion that still holds has an artifact behind every name so far. *)
LEMMA AssertedKept == ASSUME StepsInv, [Next]_vars PROVE Asserted'
<1> USE DEF evidence, sync, notice
<1>1. CASE Fresh
  BY <1>1 DEF Fresh, Asserted
<1>2. CASE handler' = handler /\ cfg' = cfg /\ UNCHANGED step
  <2> SUFFICES ASSUME handler = "assert", pc' = "assert", ~unmet',
                      NEW i \in DOMAIN Sought, i < idx'
               PROVE  Fulfilled(i)'
    BY <1>2 DEF Asserted, Sought
  <2>1. DOMAIN Sought = 1 .. Len(Sought) /\ Len(Sought) \in Nat
    BY SoughtNames DEF StepsInv, TypeOK
  <2>2. i \in Nat /\ 1 <= i /\ idx \in Nat
    <3>1. idx \in Nat \ {0}
      BY Zenon DEF StepsInv, TypeOK
    <3> QED
      BY <2>1, <3>1
  <2>3. ASSUME Fulfilled(i) PROVE Fulfilled(i)'
    BY <1>2, <2>3, StoreGrows DEF StepsInv, Fulfilled, Sought
  <2>4. CASE AssertNext
    <3>1. PICK artifacts \in {Named(OfStep(cfg.pre), Sought[idx]), {}} :
             unmet' = (\/ unmet
                       \/ artifacts = {} \/ Actual(store[Min(artifacts)]) = Nothing
                       \/ ~Holds(cfg.operator, Actual(store[Min(artifacts)]), cfg.expected))
      BY <2>4 DEF AssertNext
    <3>2. idx' = idx + 1 /\ pc = "assert"
      BY <2>4 DEF AssertNext, Runs
    <3>3. ~unmet /\ artifacts = Named(OfStep(cfg.pre), Sought[idx]) /\ artifacts # {}
          /\ Actual(store[Min(artifacts)]) # Nothing
          /\ Holds(cfg.operator, Actual(store[Min(artifacts)]), cfg.expected)
      BY <3>1, Zenon
    <3>4. CASE i < idx
      BY <2>3, <3>2, <3>3, <3>4 DEF StepsInv, Asserted
    <3>5. CASE i = idx
      <4>1. artifacts \subseteq DOMAIN store /\ DOMAIN store \subseteq Nat
        <5>1. DOMAIN store = 1 .. Len(store) /\ Len(store) \in Nat
          BY LenProperties DEF StepsInv, TypeOK
        <5> QED
          BY <3>3, <5>1 DEF Named, OfStep
      <4>2. Min(artifacts) \in artifacts
        BY <3>3, <4>1, MinIn
      <4>3. Fulfilled(i)
        BY <3>3, <3>5, <4>1, <4>2 DEF Fulfilled, Named, OfStep
      <4> QED
        BY <2>3, <4>3
    <3> QED
      BY <2>2, <3>2, <3>4, <3>5
  <2>5. CASE ResolveNames
    <3>1. idx' = 1
      BY <2>5, Zenon DEF ResolveNames
    <3> QED
      BY <2>2, <3>1
  <2>6. CASE FetchPre \/ FetchPostAndCompare \/ StartMonitor \/ StopMonitor \/ Request
             \/ SleepAndRepeat \/ Prepare \/ Dispatch \/ EmitEvent
    <3>1. handler # "assert"
      BY <2>6
         DEF FetchPre, FetchPostAndCompare, StartMonitor, StopMonitor, Request, SleepAndRepeat,
             Prepare,
         Dispatch, EmitEvent, Runs
    <3> QED
      BY <3>1
  <2>7. CASE JudgeAssertions \/ Abandon
    BY <2>7 DEF JudgeAssertions, Abandon, Done
  <2>8. CASE MonitorEnds \/ CarryOutLate \/ Collect \/ UNCHANGED vars
    <3>1. UNCHANGED <<pc, idx>> /\ unmet' = unmet
      BY <2>8, Zenon DEF MonitorEnds, CarryOutLate, Collect, vars
    <3>2. ~unmet
      BY <3>1, Zenon
    <3> QED
      BY <2>3, <3>1, <3>2 DEF StepsInv, Asserted
  <2>9. CASE Repeat \/ GoOn
    BY <2>9 DEF Repeat, GoOn, Fresh
  <2> QED
    BY <2>4, <2>5, <2>6, <2>7, <2>8, <2>9 DEF Next, Step
<1> QED
  BY <1>1, <1>2, Moves

(* A success is decided upon what was read, and nothing read goes away. *)
LEMMA EvidenceKept == ASSUME StepsInv, [Next]_vars PROVE EvidenceBehindPass'
<1> USE DEF evidence, sync, notice
<1>1. CASE Fresh
  BY <1>1 DEF Fresh, EvidenceBehindPass, Succeeded
<1>2. CASE handler' = handler /\ cfg' = cfg /\ UNCHANGED step
  <2>0. /\ \A id : OfStep(id) \subseteq OfStep(id)' /\ NamesOf(OfStep(id)) \subseteq NamesOf(OfStep(id))'
        /\ \A i : Fulfilled(i) => Fulfilled(i)'
        /\ Sought' = Sought
    <3>1. \A id : OfStep(id) \subseteq OfStep(id)' /\ OfStep(id) \subseteq DOMAIN store
      BY PlacesKept DEF StepsInv, OfStep
    <3>2. \A k \in DOMAIN store : store'[k] = store[k] /\ k \in DOMAIN store'
      BY StoreGrows DEF StepsInv
    <3> QED
      BY <1>2, <3>1, <3>2 DEF NamesOf, Fulfilled, Sought
  <2>1. ASSUME UNCHANGED <<result, compared>> PROVE EvidenceBehindPass'
    <3>1. Succeeded("compare")' => Succeeded("compare")
      BY <1>2, <2>1 DEF Succeeded
    <3>2. Succeeded("assert")' => Succeeded("assert")
      BY <1>2, <2>1 DEF Succeeded
    <3>3. Succeeded("assert")' => \A i \in DOMAIN Sought : Fulfilled(i)'
      BY <2>0, <3>2 DEF StepsInv, EvidenceBehindPass, Fulfilled
    <3> QED
      BY <1>2, <2>0, <2>1, <3>1, <3>3 DEF StepsInv, EvidenceBehindPass, Fulfilled
  <2>2. ASSUME handler \notin {"compare", "assert"} \/ result' # "success" PROVE EvidenceBehindPass'
    BY <1>2, <2>2 DEF EvidenceBehindPass, Succeeded
  <2>3. CASE FetchPre \/ ResolveNames \/ AssertNext \/ Abandon
    <3>1. result' # "success"
      BY <2>3 DEF FetchPre, ResolveNames, AssertNext, Abandon, Runs, Done, Goes, StepsInv, TypeOK
    <3> QED
      BY <2>2, <3>1
  <2>4. CASE FetchPostAndCompare
    <3>1. PICK post \in {OfStep(cfg.post), {}} :
             /\ compared' = Selected(pre) \cap Selected(post)
             /\ result' = "success" => compared' # {}
      BY <2>4 DEF FetchPostAndCompare, Done
    <3>2. handler = "compare" /\ pre \subseteq OfStep(cfg.pre)
      BY <2>4 DEF FetchPostAndCompare, Runs, StepsInv, PreRead
    <3>3. compared' \subseteq NamesOf(OfStep(cfg.pre)) \cap NamesOf(OfStep(cfg.post))
      BY <3>1, <3>2 DEF Selected, NamesOf
    <3> QED
      BY <1>2, <2>0, <3>1, <3>2, <3>3 DEF EvidenceBehindPass, Succeeded
  <2>5. CASE JudgeAssertions
    <3>1. handler = "assert" /\ pc = "assert" /\ idx > Len(Sought) /\ (result' = "success" => ~unmet)
      BY <2>5 DEF JudgeAssertions, Runs, Done
    <3>2. DOMAIN Sought = 1 .. Len(Sought) /\ Len(Sought) \in Nat
      BY <3>1, SoughtNames DEF StepsInv, TypeOK
    <3>3. \A i \in DOMAIN Sought : i < idx
      BY <3>1, <3>2 DEF StepsInv, TypeOK
    <3>4. result' = "success" => \A i \in DOMAIN Sought : Fulfilled(i)'
      BY <2>0, <3>1, <3>3 DEF StepsInv, Asserted
    <3> QED
      BY <1>2, <2>0, <3>1, <3>4 DEF EvidenceBehindPass, Succeeded, Fulfilled
  <2>6. CASE StartMonitor \/ StopMonitor \/ Request \/ SleepAndRepeat \/ Prepare \/ Dispatch \/ EmitEvent
    <3>1. handler \notin {"compare", "assert"}
      BY <2>6
         DEF StartMonitor, StopMonitor, Request, SleepAndRepeat, Prepare, Dispatch, EmitEvent,
             Runs
    <3> QED
      BY <2>2, <3>1
  <2>7. CASE MonitorEnds \/ CarryOutLate \/ Collect \/ UNCHANGED vars
    BY <2>1, <2>7 DEF MonitorEnds, CarryOutLate, Collect, vars
  <2>8. CASE Repeat \/ GoOn
    BY <2>2, <2>8 DEF Repeat, GoOn, Fresh
  <2> QED
    BY <2>3, <2>4, <2>5, <2>6, <2>7, <2>8 DEF Next, Step
<1> QED
  BY <1>1, <1>2, Moves

-----------------------------------------------------------------------------
(* evidence.compare *)

(* The patterns in use, and what is left of a content for a comparison. *)
Compiles == Compiled(cfg.patterns, MaxPatterns)
Before(a, b) == Prepared(a, b, cfg.ignored, Compiles)

(* A pattern that is used is one of the configured ones. *)
LEMMA CompiledIn == ASSUME "volatile" \in Compiles PROVE "volatile" \in Elements(List(cfg.patterns))
BY DEF Compiles, Compiled, Elements, List

(* Objects: every field that is not ignored. *)
LEMMA ObjectsKept ==
  ASSUME NEW a, NEW b, Both(a, b, "object"), cfg.mode # "changed",
         Passes(cfg.mode, Before(a, b), Before(b, a))
  PROVE  Kept(a, b)
<1> DEFINE x == RemoveFields(a, cfg.ignored)
           y == RemoveFields(b, cfg.ignored)
<1>1. Before(a, b) = x /\ Before(b, a) = y
  BY DEF Before, Prepared, Both
<1>2. /\ x.kind = "object" /\ y.kind = "object"
      /\ DOMAIN x.map = DOMAIN a.map \ cfg.ignored /\ DOMAIN y.map = DOMAIN b.map \ cfg.ignored
      /\ \A key \in DOMAIN a.map \ cfg.ignored : x.map[key] = a.map[key]
      /\ \A key \in DOMAIN b.map \ cfg.ignored : y.map[key] = b.map[key]
  BY DEF RemoveFields, Object
<1> HIDE DEF x, y
<1>3. x = y \/ HasAll(y, x)
  BY <1>1, <1>2 DEF Passes, Subset, Superset, NoDifferences, Both
<1>4. ASSUME NEW key \in DOMAIN a.map \ cfg.ignored
      PROVE  a.map[key] = Null \/ (key \in DOMAIN b.map /\ b.map[key] = a.map[key])
  <2>1. CASE x = y
    BY <1>2, <2>1
  <2>2. CASE HasAll(y, x)
    <3>1. Get(y, key) = a.map[key]
      BY <1>2, <2>2 DEF HasAll
    <3> QED
      BY <1>2, <3>1 DEF Get
  <2> QED
    BY <1>3, <2>1, <2>2
<1> QED
  BY <1>4 DEF Kept

(* Masking leaves the body of a text. *)
LEMMA Masked ==
  ASSUME NEW a, IsText(a)
  PROVE  IsText(MaskIgnored(a)) /\ MaskIgnored(a).body = a.body
<1>1. \A blanks, long : LET m == Text(a.body, "", blanks, long) IN IsText(m) /\ m.body = a.body
  BY DEF IsText, Text
<1> QED
  BY <1>1 DEF MaskIgnored

(* Texts: the body, and the rest unless a pattern covers it. *)
LEMMA TextsKept ==
  ASSUME NEW a, NEW b, IsText(a), IsText(b), cfg.mode # "changed",
         Passes(cfg.mode, Before(a, b), Before(b, a))
  PROVE  Kept(a, b)
<1> DEFINE x == Before(a, b)
           y == Before(b, a)
<1>1. \A t : IsText(t) => t.kind = "text"
  BY DEF IsText, Text
<1>2. Both(a, b, "text") /\ ~Both(a, b, "object") /\ Both(b, a, "text") /\ ~Both(b, a, "object")
  BY <1>1 DEF Both
<1>3. /\ IsText(x) /\ x.body = a.body /\ (x.volatile = a.volatile \/ "volatile" \in Compiles)
      /\ IsText(y) /\ y.body = b.body /\ (y.volatile = b.volatile \/ "volatile" \in Compiles)
  <2>1. CASE "volatile" \in Compiles
    BY <1>2, <2>1, Masked DEF Before, Prepared
  <2>2. CASE "volatile" \notin Compiles
    BY <1>2, <2>2 DEF Before, Prepared
  <2> QED
    BY <2>1, <2>2
<1>4. Passes(cfg.mode, x, y)
  OBVIOUS
<1> HIDE DEF x, y
<1>5. x = y \/ [x EXCEPT !.blanks = y.blanks] = y
  <2>1. Both(x, y, "text") /\ ~Both(x, y, "object") /\ ~Both(x, y, "list")
    BY <1>1, <1>3 DEF Both
  <2> QED
    BY <1>4, <2>1 DEF Passes, Subset, Superset, NoDifferences
<1>6. x.body = y.body /\ x.volatile = y.volatile
  BY <1>3, <1>5 DEF IsText, Text
<1> QED
  BY <1>2, <1>3, <1>6, CompiledIn DEF Kept

(* Contents of two kinds, and lists. *)
LEMMA OthersKept ==
  ASSUME NEW a, NEW b, ~Both(a, b, "object"), ~Both(a, b, "text"),
         cfg.mode # "changed", Passes(cfg.mode, Before(a, b), Before(b, a))
  PROVE  Kept(a, b)
<1>1. Before(a, b) = a /\ Before(b, a) = b
  BY DEF Before, Prepared, Both
<1> QED
  BY <1>1 DEF Passes, Subset, Superset, NoDifferences, Kept

(* Whatever is compared, a comparison but "changed" that passes keeps it. *)
LEMMA PassKeeps ==
  ASSUME NEW a, NEW b, IsContent(a), IsContent(b), cfg.mode # "changed",
         Passes(cfg.mode, Before(a, b), Before(b, a))
  PROVE  Kept(a, b)
<1>1. Both(a, b, "text") => IsText(a) /\ IsText(b)
  BY DEF Both, IsContent, Nothing
<1> QED
  BY <1>1, ObjectsKept, TextsKept, OthersKept

(* What MatchHolds says of one artifact of the precheck. *)
Spared(i) ==
  \/ \E j \in pre \ {i} : store[j].name = store[i].name
  \/ \E k \in OfStep(cfg.post) :
       store[k].name = store[i].name /\ Kept(Content(store[i]), Content(store[k]))

(* The artifact that is picked is one of those of the name. *)
LEMMA Picked ==
  ASSUME store \in Seq(Artifacts), NEW artifacts \in SUBSET DOMAIN store, NEW name \in NamesOf(artifacts)
  PROVE  \E k \in Named(artifacts, name) : Pick(artifacts, name) = store[k]
<1>1. DOMAIN store = 1 .. Len(store) /\ Len(store) \in Nat
  BY LenProperties
<1>2. Named(artifacts, name) \subseteq 1 .. Len(store) /\ Named(artifacts, name) # {}
  BY <1>1 DEF Named, NamesOf
<1>3. Named(artifacts, name) \subseteq Nat
  BY <1>1, <1>2
<1>4. /\ Min(Named(artifacts, name)) \in Named(artifacts, name)
      /\ Max(Named(artifacts, name)) \in Named(artifacts, name)
  BY <1>1, <1>2, <1>3, MinIn, MaxIn
<1> QED
  BY <1>4 DEF Pick

(* An artifact whose name passed is kept, or shares its name. *)
LEMMA ComparedSpared ==
  ASSUME StepsInv, cfg.mode # "changed", NEW post \in SUBSET OfStep(cfg.post),
         NEW i \in pre, store[i].name \in NamesOf(post),
         Outcome(Pick(pre, store[i].name), Pick(post, store[i].name)) = "success"
  PROVE  Spared(i)
<1> DEFINE name == store[i].name
<1>1. /\ store \in Seq(Artifacts) /\ pre \subseteq DOMAIN store /\ post \subseteq DOMAIN store
      /\ \A k \in DOMAIN store : store[k] \in Artifacts
  <2>1. store \in Seq(Artifacts) /\ pre \subseteq DOMAIN store
    BY Zenon DEF StepsInv, TypeOK
  <2>2. \A k \in DOMAIN store : store[k] \in Artifacts
    BY <2>1, LenProperties
  <2> QED
    BY <2>1, <2>2 DEF OfStep
<1>2. PICK j \in Named(pre, name) : Pick(pre, name) = store[j]
  BY <1>1, Picked DEF NamesOf
<1>3. PICK k \in Named(post, name) : Pick(post, name) = store[k]
  BY <1>1, Picked
<1>4. j \in pre /\ store[j].name = name /\ k \in OfStep(cfg.post) /\ store[k].name = name
  BY <1>2, <1>3 DEF Named
<1>5. CASE j # i
  BY <1>4, <1>5 DEF Spared
<1>6. CASE j = i
  <2> DEFINE a == Content(store[i])
             b == Content(store[k])
  <2>1. Passes(cfg.mode, Before(a, b), Before(b, a))
    BY <1>2, <1>3, <1>6 DEF Outcome, Before, Compiles
  <2>2. IsContent(a) /\ IsContent(b)
    <3>1. store[i] \in Artifacts /\ store[k] \in Artifacts
      BY <1>1, <1>4 DEF OfStep
    <3> QED
      BY <3>1, ConstantsAssumption DEF Content
  <2> HIDE DEF a, b
  <2>3. Kept(a, b)
    BY <2>1, <2>2, PassKeeps
  <2> QED
    BY <1>4, <2>3 DEF Spared, a, b
<1> QED
  BY <1>5, <1>6

(* A success has passed every name, and what it has seen remains. *)
LEMMA MatchKept == ASSUME StepsInv, [Next]_vars PROVE MatchHolds'
<1> USE DEF evidence, sync, notice
<1>1. CASE Fresh
  BY <1>1 DEF Fresh, MatchHolds, Succeeded
<1>2. CASE handler' = handler /\ cfg' = cfg /\ UNCHANGED step
  <2>0. /\ pre \subseteq DOMAIN store /\ \A k \in DOMAIN store : store'[k] = store[k]
        /\ \A id : OfStep(id) \subseteq OfStep(id)' /\ OfStep(id) \subseteq DOMAIN store
        /\ \A a, b : Kept(a, b) = Kept(a, b)'
    <3>1. TypeOK /\ pre \subseteq DOMAIN store
      BY Zenon DEF StepsInv, TypeOK
    <3>2. \A id : OfStep(id) \subseteq OfStep(id)' /\ OfStep(id) \subseteq DOMAIN store
      BY <3>1, PlacesKept DEF OfStep
    <3>3. \A a, b : Kept(a, b) = Kept(a, b)'
      BY <1>2 DEF Kept
    <3> QED
      BY <3>1, <3>2, <3>3, StoreGrows
  <2>1. ASSUME pre' = pre, NEW i \in pre, Spared(i) PROVE Spared(i)'
    <3>1. CASE \E j \in pre \ {i} : store[j].name = store[i].name
      BY <2>0, <2>1, <3>1 DEF Spared
    <3>2. CASE \E k \in OfStep(cfg.post) :
                 store[k].name = store[i].name /\ Kept(Content(store[i]), Content(store[k]))
      <4>1. PICK k \in OfStep(cfg.post) :
               store[k].name = store[i].name /\ Kept(Content(store[i]), Content(store[k]))
        BY <3>2
      <4>2. store'[i] = store[i] /\ store'[k] = store[k] /\ k \in OfStep(cfg.post)'
        BY <1>2, <2>0, <4>1
      <4>3. Kept(Content(store[i]), Content(store[k]))'
        <5>1. Content(store[i])' = Content(store[i]) /\ Content(store[k])' = Content(store[k])
          BY <4>2 DEF Content
        <5> QED
          BY <1>2, <4>1, <5>1 DEF Kept
      <4> QED
        BY <1>2, <4>1, <4>2, <4>3 DEF Spared
    <3> QED
      BY <2>1, <3>1, <3>2 DEF Spared
  <2>2. ASSUME pre' = pre, compared' = compared, result' = result PROVE MatchHolds'
    <3>1. MatchHolds
      BY DEF StepsInv
    <3> QED
      BY <1>2, <2>0, <2>1, <2>2, <3>1 DEF MatchHolds, Succeeded, Spared
  <2>3. ASSUME handler # "compare" \/ result' # "success" PROVE MatchHolds'
    BY <1>2, <2>3 DEF MatchHolds, Succeeded
  <2>4. CASE FetchPre \/ Abandon
    <3>1. result' # "success"
      BY <2>4 DEF FetchPre, Abandon, Runs, Done, Goes, StepsInv, TypeOK
    <3> QED
      BY <2>3, <3>1
  <2>5. CASE FetchPostAndCompare
    <3>1. PICK post \in {OfStep(cfg.post), {}} :
             LET common == Selected(pre) \cap Selected(post)
                 outcomes == {Outcome(Pick(pre, name), Pick(post, name)) : name \in common}
             IN /\ compared' = common
                /\ Done(IF common = {} THEN "failure"
                        ELSE IF "raised" \in outcomes THEN "raised"
                        ELSE IF "failure" \in outcomes THEN "failure" ELSE "success")
      BY <2>5 DEF FetchPostAndCompare
    <3>2. /\ compared' = Selected(pre) \cap Selected(post)
          /\ result' = "success" => \A name \in compared' :
               Outcome(Pick(pre, name), Pick(post, name)) \notin {"raised", "failure"}
      BY <3>1 DEF Done
    <3>3. \A a, b : Outcome(a, b) \in {"raised", "failure", "success"}
      BY DEF Outcome
    <3>4. UNCHANGED <<pre, store>>
      BY <2>5 DEF FetchPostAndCompare
    <3>5. ASSUME result' = "success", cfg.mode # "changed", NEW i \in pre, store[i].name \in compared'
          PROVE  Spared(i)'
      <4>1. store[i].name \in NamesOf(post)
        BY <3>2, <3>5 DEF Selected
      <4>2. Outcome(Pick(pre, store[i].name), Pick(post, store[i].name)) = "success"
        BY <3>2, <3>3, <3>5
      <4>3. Spared(i)
        BY <3>5, <4>1, <4>2, ComparedSpared
      <4> QED
        BY <2>1, <3>4, <4>3
    <3> QED
      BY <1>2, <3>4, <3>5 DEF MatchHolds, Succeeded, Spared
  <2>6. CASE ResolveNames \/ AssertNext \/ JudgeAssertions \/ StartMonitor \/ StopMonitor \/ Request
             \/ SleepAndRepeat \/ Prepare \/ Dispatch \/ EmitEvent
    <3>1. handler # "compare"
      BY <2>6
         DEF ResolveNames, AssertNext, JudgeAssertions, StartMonitor, StopMonitor, Request,
             SleepAndRepeat,
         Prepare, Dispatch, EmitEvent, Runs
    <3> QED
      BY <2>3, <3>1
  <2>7. CASE MonitorEnds \/ CarryOutLate \/ Collect \/ UNCHANGED vars
    BY <2>2, <2>7 DEF MonitorEnds, CarryOutLate, Collect, vars
  <2>8. CASE Repeat \/ GoOn
    BY <2>3, <2>8 DEF Repeat, GoOn, Fresh
  <2> QED
    BY <2>4, <2>5, <2>6, <2>7, <2>8 DEF Next, Step
<1> QED
  BY <1>1, <1>2, Moves

-----------------------------------------------------------------------------
(* The connectivity monitors. *)

(* No two targets of one instance differ. *)
Instanced(targets) == \A t, u \in targets : t.instance = u.instance => t.address = u.address

(* Targets of one instance have one address, so none is lost. *)
LEMMA OneAddress ==
  ASSUME StepsInv, handler \in {"start", "connectivity"}
  PROVE  Instanced(ResolveTargets)
<1>1. OwnIds(cfg)
  <2>1. flow \in Flows /\ at \in DOMAIN flow
    BY Zenon DEF StepsInv, TypeOK
  <2> QED
    BY <2>1, DevicesAssumption DEF handler, cfg
<1>2. CASE handler = "connectivity" /\ cfg.selectors = {}
  <2>1. \A t \in ResolveTargets : \E d : t = Target(<<d.id, d.host>>, d.host)
    BY <1>2 DEF ResolveTargets
  <2> QED
    BY <2>1 DEF Instanced, Target
<1>3. CASE ~(handler = "connectivity" /\ cfg.selectors = {})
  <2>1. ResolveTargets = UNION {OfSelector(s) : s \in cfg.selectors}
    BY <1>3, Zenon DEF ResolveTargets
  <2> DEFINE OfIp(t, a) == t = Target(<<"ip", a>>, a) /\ \E s \in cfg.selectors : a \in s.ips
             OfRole(t, r, d) == /\ t = Target(<<r, d.id>>, AddressOf(d))
                                /\ r \in DOMAIN cfg.byRole /\ d \in cfg.byRole[r]
  <2>2. ASSUME NEW t \in ResolveTargets
        PROVE  (\E a : OfIp(t, a)) \/ (\E r, d : OfRole(t, r, d))
    <3>1. PICK s \in cfg.selectors : t \in OfSelector(s)
      BY <2>1
    <3>2. CASE s.type = "ip"
      <4>1. OfSelector(s) = {Target(<<"ip", a>>, a) : a \in IpAddresses(s)}
        BY <3>2 DEF OfSelector
      <4> QED
        BY <3>1, <4>1 DEF IpAddresses
    <3>3. CASE s.type = "role"
      <4>1. OfSelector(s) =
              {Target(<<s.role, d.id>>, AddressOf(d)) : d \in {e \in cfg.byRole[s.role] : AddressOf(e) # ""}}
        BY <3>3 DEF OfSelector
      <4>2. s.role \in DOMAIN cfg.byRole
        BY <1>1, <3>3 DEF OwnIds
      <4> QED
        BY <3>1, <4>1, <4>2
    <3>4. CASE s.type \notin {"ip", "role"}
      BY <3>1, <3>4 DEF OfSelector
    <3> QED
      BY <3>2, <3>3, <3>4
  <2>3. ASSUME NEW t, NEW u, t.instance = u.instance, NEW a, NEW b, OfIp(t, a), OfIp(u, b)
        PROVE  t.address = u.address
    BY <2>3 DEF Target
  <2>4. ASSUME NEW t, NEW u, t.instance = u.instance, NEW a, NEW r, NEW d, OfIp(t, a), OfRole(u, r, d)
        PROVE  FALSE
    <3>1. a = d.id
      BY <2>4 DEF Target
    <3> QED
      BY <1>1, <2>4, <3>1 DEF OwnIds
  <2>5. ASSUME NEW t, NEW u, t.instance = u.instance, NEW r, NEW d, NEW q, NEW e,
               OfRole(t, r, d), OfRole(u, q, e)
        PROVE  t.address = u.address
    <3>1. r = q /\ d.id = e.id
      BY <2>5 DEF Target
    <3>2. d = e
      BY <1>1, <2>5, <3>1 DEF OwnIds
    <3> QED
      BY <2>5, <3>2 DEF Target
  <2> HIDE DEF OfIp, OfRole
  <2> QED
    BY <2>2, <2>3, <2>4, <2>5 DEF Instanced
<1> QED
  BY <1>2, <1>3

(* Every address that is asked for is resolved into a target. *)
LEMMA WantedResolved ==
  ASSUME handler \in {"start", "connectivity"}, ResolveTargets # {}, NEW a \in Wanted
  PROVE  \E t \in ResolveTargets : a = t.address
<1>0. \A i, x : Target(i, x).address = x
  BY DEF Target
<1>a. /\ a # ""
      /\ \/ a \in UNION {s.ips : s \in {t \in cfg.selectors : t.type = "ip"}}
         \/ a \in UNION {{AddressOf(d) : d \in cfg.byRole[s.role]} :
                             s \in {t \in cfg.selectors : t.type = "role"}}
         \/ cfg.selectors = {} /\ a \in {d.host : d \in UNION {cfg.byRole[r] : r \in cfg.roles}}
  BY Zenon DEF Wanted
<1>1. CASE handler = "connectivity" /\ cfg.selectors = {}
  <2>1. ResolveTargets =
           {Target(<<d.id, d.host>>, d.host) :
              d \in {e \in UNION {cfg.byRole[r] : r \in cfg.roles} : e.host # ""}}
    BY <1>1 DEF ResolveTargets
  <2>2. PICK d \in UNION {cfg.byRole[r] : r \in cfg.roles} : a = d.host /\ a # ""
    BY <1>1, <1>a
  <2>3. Target(<<d.id, d.host>>, d.host) \in ResolveTargets
    BY <2>1, <2>2
  <2> QED
    BY <1>0, <2>2, <2>3
<1>2. CASE ~(handler = "connectivity" /\ cfg.selectors = {})
  <2>1. ResolveTargets = UNION {OfSelector(s) : s \in cfg.selectors} /\ cfg.selectors # {}
    <3>1. ResolveTargets = UNION {OfSelector(s) : s \in cfg.selectors}
      BY <1>2, Zenon DEF ResolveTargets
    <3> QED
      BY <3>1
  <2>2. CASE \E s \in cfg.selectors : s.type = "ip" /\ a \in s.ips /\ a # ""
    <3>1. PICK s \in cfg.selectors : s.type = "ip" /\ a \in s.ips /\ a # ""
      BY <2>2
    <3>2. Target(<<"ip", a>>, a) \in OfSelector(s)
      BY <3>1 DEF OfSelector, IpAddresses
    <3> QED
      BY <1>0, <2>1, <3>2
  <2>3. CASE \E s \in cfg.selectors :
               s.type = "role" /\ \E d \in cfg.byRole[s.role] : a = AddressOf(d) /\ a # ""
    <3>1. PICK s \in cfg.selectors :
             s.type = "role" /\ \E d \in cfg.byRole[s.role] : a = AddressOf(d) /\ a # ""
      BY <2>3
    <3>2. PICK d \in cfg.byRole[s.role] : a = AddressOf(d) /\ a # ""
      BY <3>1
    <3>3. OfSelector(s) =
            {Target(<<s.role, e.id>>, AddressOf(e)) : e \in {x \in cfg.byRole[s.role] : AddressOf(x) # ""}}
      BY <3>1 DEF OfSelector
    <3>4. Target(<<s.role, d.id>>, AddressOf(d)) \in OfSelector(s)
      BY <3>2, <3>3
    <3> QED
      BY <1>0, <2>1, <3>2, <3>4
  <2>4. \/ \E s \in cfg.selectors : s.type = "ip" /\ a \in s.ips /\ a # ""
        \/ \E s \in cfg.selectors :
             s.type = "role" /\ \E d \in cfg.byRole[s.role] : a = AddressOf(d) /\ a # ""
    BY <1>a, <2>1
  <2> QED
    BY <2>2, <2>3, <2>4
<1> QED
  BY <1>1, <1>2

(* So a monitor that is registered watches it. *)
LEMMA RegisteredWatched ==
  ASSUME StepsInv, handler \in {"start", "connectivity"}, ResolveTargets # {}, Register(ResolveTargets)
  PROVE  Wanted \subseteq watched'
<1>1. PICK kept \in SUBSET ResolveTargets :
         /\ \A t \in ResolveTargets : \E u \in kept : u.instance = t.instance
         /\ watched' = {t.address : t \in kept}
  BY DEF Register
<1>2. ASSUME NEW a \in Wanted PROVE a \in watched'
  <2>1. PICK t \in ResolveTargets : a = t.address
    BY WantedResolved
  <2>2. PICK u \in kept : u.instance = t.instance
    BY <1>1
  <2>3. u.address = a
    BY <2>1, <2>2, OneAddress DEF Instanced
  <2> QED
    BY <1>1, <2>3
<1> QED
  BY <1>2

(* Targets are changed by a start alone, and gone with the monitor. *)
LEMMA WatchedKept == ASSUME StepsInv, [Next]_vars PROVE AddressesWatched'
<1> USE DEF evidence, sync, notice
<1>1. CASE Fresh
  BY <1>1 DEF Fresh, AddressesWatched, Succeeded
<1>2. CASE handler' = handler /\ cfg' = cfg /\ UNCHANGED step
  <2>1. Wanted' = Wanted
    BY <1>2 DEF Wanted, AddressOf, Kind
  <2>2. ASSUME result' = result, watched' = watched \/ watched' = NoMonitor PROVE AddressesWatched'
    BY <1>2, <2>1, <2>2 DEF AddressesWatched, Succeeded, StepsInv, NoMonitor
  <2>3. ASSUME handler \notin {"start", "connectivity"} \/ result' # "success" PROVE AddressesWatched'
    BY <1>2, <2>3 DEF AddressesWatched, Succeeded
  <2>4. CASE StartMonitor
    <3>1. handler \in {"start", "connectivity"}
      BY <2>4 DEF StartMonitor
    <3>2. result' = "success" => ResolveTargets # {} /\ Register(ResolveTargets)
      BY <2>4 DEF StartMonitor, Done
    <3>3. result' = "success" => Wanted \subseteq watched'
      BY <3>1, <3>2, RegisteredWatched
    <3> QED
      BY <2>1, <3>3 DEF AddressesWatched, Succeeded
  <2>5. CASE Abandon
    <3>1. result' # "success"
      BY <2>5 DEF Abandon, Done
    <3> QED
      BY <2>3, <3>1
  <2>6. CASE FetchPre \/ FetchPostAndCompare \/ ResolveNames \/ AssertNext \/ JudgeAssertions \/ StopMonitor
             \/ Request \/ SleepAndRepeat \/ Prepare \/ Dispatch \/ EmitEvent
    <3>1. handler \notin {"start", "connectivity"}
      BY <2>6
         DEF FetchPre, FetchPostAndCompare, ResolveNames, AssertNext, JudgeAssertions,
             StopMonitor, Request,
         SleepAndRepeat, Prepare, Dispatch, EmitEvent, Runs
    <3> QED
      BY <2>3, <3>1
  <2>7. CASE MonitorEnds \/ CarryOutLate \/ Collect \/ UNCHANGED vars
    BY <2>2, <2>7 DEF MonitorEnds, CarryOutLate, Collect, vars
  <2>8. CASE Repeat \/ GoOn
    BY <2>3, <2>8 DEF Repeat, GoOn, Fresh
  <2> QED
    BY <2>4, <2>5, <2>6, <2>7, <2>8 DEF Next, Step
<1> QED
  BY <1>1, <1>2, Moves

-----------------------------------------------------------------------------
(* The results. *)

(* All of it together is inductive. *)
LEMMA StepsKept == ASSUME StepsInv, [Next]_vars PROVE StepsInv'
<1>1. TypeOK' /\ GaveUp'
  BY TypesKept, GaveUpKept
<1>2. SyncIsClean'
  <2>1. /\ tries' \in Nat /\ tries' >= 1 /\ attempt' \in Nat /\ attempt' >= 1 /\ at' \in Nat /\ at' >= 1
        /\ (pc' = "done" <=> result' # "none")
    <3>1. DOMAIN flow' = 1 .. Len(flow') /\ Len(flow') \in Nat
      BY <1>1, ConstantsAssumption, LenProperties DEF TypeOK
    <3>2. /\ tries' \in 1 .. MaxTries /\ attempt' \in 1 .. MaxAttempts /\ at' \in DOMAIN flow'
          /\ (pc' = "done" <=> result' # "none")
      BY <1>1, Zenon DEF TypeOK
    <3> QED
      BY <3>1, <3>2, Bounds
  <2> QED
    BY <1>1, <2>1, SyncKept DEF SyncIsClean, GaveUp, ReportHolds, TriedOut, Succeeded
<1> QED
  BY <1>1, <1>2, TypesKept, SleptKept, ToldKept, FetchedKept, AssertedKept, EvidenceKept, MatchKept, WatchedKept,
     StopKept, EventKept DEF StepsInv

(* The inductive invariant of HostSteps, behind the seven that follow. *)
THEOREM StepsInvariant == Spec => []StepsInv
<1>1. Init => StepsInv
  BY StepsInit
<1>2. StepsInv /\ [Next]_vars => StepsInv'
  BY StepsKept
<1> QED
  BY <1>1, <1>2, PTL DEF Spec

(* Type correctness, for every flow of such steps and all that befalls them. *)
THEOREM StepTypes == Spec => []TypeOK
<1>1. StepsInv => TypeOK
  BY DEF StepsInv
<1> QED
  BY <1>1, StepsInvariant, PTL

(* evidence.compare and evidence.assert never succeed for want of evidence,   *)
(* whatever the host collects, and whichever request reads as nothing.        *)
THEOREM NoPassWithoutEvidence == Spec => []EvidenceBehindPass
<1>1. StepsInv => EvidenceBehindPass
  BY DEF StepsInv
<1> QED
  BY <1>1, StepsInvariant, PTL

(* Whatever artifacts hold, a comparison but "changed" that succeeds has found *)
(* each one kept, up to ignored fields and patterns, a null field and         *)
(* artifacts of one name.                                                     *)
THEOREM NothingLost == Spec => []MatchHolds
<1>1. StepsInv => MatchHolds
  BY DEF StepsInv
<1> QED
  BY <1>1, StepsInvariant, PTL

(* Where the devices of a role have ids of their own, no address that was     *)
(* asked for gets lost in the host's instances.                               *)
THEOREM AllWatched == Spec => []AddressesWatched
<1>1. StepsInv => AddressesWatched
  BY DEF StepsInv
<1> QED
  BY <1>1, StepsInvariant, PTL

(* A stop that is answered leaves no monitor, whatever became of the start.   *)
THEOREM NoMonitorSurvives == Spec => []StopMeansGone
<1>1. StepsInv => StopMeansGone
  BY DEF StepsInv
<1> QED
  BY <1>1, StepsInvariant, PTL

(* A sync that succeeds on a report was clean at the host, and remains so     *)
(* unless a request that was given up is carried out after it; one that is    *)
(* disturbed to the end has used all its requests.                            *)
THEOREM CleanSync == Spec => []SyncIsClean
<1>1. StepsInv => SyncIsClean
  BY DEF StepsInv
<1> QED
  BY <1>1, StepsInvariant, PTL

(* The one event of flow.notify says what its result says, lost or not.       *)
THEOREM OneTrueEvent == Spec => []EventTellsResult
<1>1. StepsInv => EventTellsResult
  BY DEF StepsInv
<1> QED
  BY <1>1, StepsInvariant, PTL

===============================================================================
