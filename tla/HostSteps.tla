------------------------------- MODULE HostSteps -------------------------------
(***************************************************************************)
(* The steps that are a conversation with the host: evidence.compare and   *)
(* evidence.assert, the connectivity monitors, flow.git_sync and           *)
(* flow.notify.  Every request may be carried out or not, and answered or  *)
(* not; the host repeats a step that failed, and goes on after it.         *)
(***************************************************************************)
EXTENDS StepAttempt, Comparisons, FiniteSetsExt

CONSTANTS
  Flows,        \* sequences of steps, each a handler and its configuration
  Artifacts,    \* what evidence steps collect: their step, name and content
  MaxArtifacts, \* most artifacts of an evidence step
  MaxPatterns,  \* most ignore_patterns that are used
  MaxTries      \* most requests of one sync

Handlers == {"compare", "assert", "start", "connectivity", "stop", "sync", "notify"}

ASSUME ConstantsAssumption ==
  /\ \A f \in Flows : f \in Seq(Range(f)) /\ f # <<>>
  /\ \A f \in Flows : \A i \in DOMAIN f :
       /\ f[i].handler \in Handlers
       /\ f[i].handler = "assert" =>
            f[i].config.devices \in Seq(STRING) /\ f[i].config.named \in Seq(Range(f[i].config.named))
  /\ \A a \in Artifacts : IsContent(a.text) /\ IsContent(a.json)
  /\ MaxArtifacts \in Nat /\ MaxPatterns \in Nat /\ MaxTries \in Nat \ {0}

\* The devices of a role have ids of their own, and no id is an address.
OwnIds(c) ==
  /\ \A r \in DOMAIN c.byRole : \A d, e \in c.byRole[r] : d.id = e.id => d = e
  /\ \A s \in c.selectors :
       /\ s.type = "role" => s.role \in DOMAIN c.byRole
       /\ \A r \in DOMAIN c.byRole : \A d \in c.byRole[r] : d.id \notin s.ips
ASSUME DevicesAssumption ==
  \A f \in Flows : \A i \in DOMAIN f :
    f[i].handler \in {"start", "connectivity"} => OwnIds(f[i].config)

VARIABLES
  flow,
  at,        \* current step of the flow
  result,    \* of the attempt
  \* the run's evidence
  store,     \* artifacts, as the host lists them
  pre,       \* precheck_artifacts: places in the list
  compared,  \* artifacts_compared
  idx,       \* current name of an assertion
  unmet,     \* failed_messages is not empty
  \* monitors
  watched,   \* addresses of the running monitor; none if there is none
  \* sync
  tries,
  transient, \* the last request may be sent again
  lastSync,  \* what came of the last sync that the host has carried out
  reported,  \* the attempt's answer said what came of it
  lingering, \* the host may yet carry out a request that was given up
  overtaken, \* it has done so since the attempt ended
  \* notify
  sent,      \* this attempt's notification has reached its destination
  events     \* what this attempt's events say

evidence == <<store, pre, compared, idx, unmet>>
sync == <<tries, transient, lastSync, reported, lingering, overtaken>>
notice == <<sent, events>>
step == <<flow, at, attempt>>
vars == <<flow, at, attempt, pc, result, store, pre, compared, idx, unmet, watched,
          tries, transient, lastSync, reported, lingering, overtaken, sent, events>>

handler == flow[at].handler
cfg == flow[at].config
Runs(h, place) == handler = h /\ pc = place
Done(outcome) == pc' = "done" /\ result' = outcome
Goes(place) == pc' = place /\ result' = result
Never == [failed |-> FALSE, conflicts |-> FALSE, done |-> FALSE]

-----------------------------------------------------------------------------
(* evidence.compare *)

\* The content that is compared, and the one that is asserted upon: an empty
\* text is a text for the one and none for the other.
Content(a) == IF a.text # Nothing THEN a.text ELSE a.json
Empty(text) == text = Nothing \/ Equals(text, "")
Actual(a) == IF Empty(a.text) THEN a.json ELSE a.text

\* An answer of the host's is a part of its list, which only grows.
OfStep(id) == {k \in DOMAIN store : store[k].step = id}
Named(artifacts, name) == {k \in artifacts : store[k].name = name}
NamesOf(artifacts) == {store[k].name : k \in artifacts}
Selected(artifacts) ==
  IF cfg.select = "all" THEN NamesOf(artifacts) ELSE NamesOf(artifacts) \cap cfg.names

\* By name alone the first of several is taken, in a comparison of all the last.
Pick(artifacts, name) ==
  LET found == Named(artifacts, name) IN store[IF cfg.select = "one" THEN Min(found) ELSE Max(found)]

Outcome(a, b) ==
  LET compiled == Compiled(cfg.patterns, MaxPatterns)
      before == Prepared(Content(a), Content(b), cfg.ignored, compiled)
      after == Prepared(Content(b), Content(a), cfg.ignored, compiled)
  IN IF Raises(cfg.mode, before, after) THEN "raised"
     ELSE IF Passes(cfg.mode, before, after) THEN "success" ELSE "failure"

\* A request that fails reads as a step without artifacts.
FetchPre ==
  /\ Runs("compare", "begin")
  /\ IF cfg.pre = "" THEN Done("failure") /\ pre' = pre
     ELSE Goes("fetch") /\ pre' \in {OfStep(cfg.pre), {}}
  /\ UNCHANGED <<step, store, compared, idx, unmet, watched, sync, notice>>

\* Slip: one artifact that passes is enough.
FetchPostAndCompareAny ==
  /\ Runs("compare", "fetch")
  /\ \E post \in {OfStep(cfg.post), {}} :
       LET common == Selected(pre) \cap Selected(post)
           outcomes == {Outcome(Pick(pre, name), Pick(post, name)) : name \in common}
       IN /\ compared' = common
          /\ Done(IF common = {} THEN "failure"
                  ELSE IF "raised" \in outcomes THEN "raised"
                  ELSE IF "success" \in outcomes THEN "success" ELSE "failure")
  /\ UNCHANGED <<step, store, pre, idx, unmet, watched, sync, notice>>

FetchPostAndCompare ==
  /\ Runs("compare", "fetch")
  /\ \E post \in {OfStep(cfg.post), {}} :
       LET common == Selected(pre) \cap Selected(post)
           outcomes == {Outcome(Pick(pre, name), Pick(post, name)) : name \in common}
       IN /\ compared' = common
          /\ Done(IF common = {} THEN "failure"
                  ELSE IF "raised" \in outcomes THEN "raised"
                  ELSE IF "failure" \in outcomes THEN "failure" ELSE "success")
  /\ UNCHANGED <<step, store, pre, idx, unmet, watched, sync, notice>>

-----------------------------------------------------------------------------
(* evidence.assert *)

\* The names are made of the devices' and the command, where these are given;
\* collect_evidence has made them with the command's label.  Otherwise there
\* may be the one of artifact_name.
Sought ==
  IF cfg.command # "" THEN [i \in DOMAIN cfg.devices |-> <<cfg.devices[i], cfg.command>>] ELSE cfg.named

ResolveNames ==
  /\ Runs("assert", "begin")
  /\ idx' = 1 /\ unmet' = FALSE
  /\ IF Sought = <<>> \/ (cfg.command # "" /\ "" \in Range(cfg.devices))
     THEN Done("failure") ELSE Goes("assert")
  /\ UNCHANGED <<step, store, pre, compared, watched, sync, notice>>

\* Slip: a name without an artifact is passed over.
AssertNextPresent ==
  /\ Runs("assert", "assert") /\ idx <= Len(Sought)
  /\ \E artifacts \in {Named(OfStep(cfg.pre), Sought[idx]), {}} :
       unmet' = (\/ unmet
                 \/ artifacts # {} /\ ~Holds(cfg.operator, Actual(store[Min(artifacts)]), cfg.expected))
  /\ idx' = idx + 1 /\ Goes("assert")
  /\ UNCHANGED <<step, store, pre, compared, watched, sync, notice>>

\* One request per name; the first artifact of the name counts.
AssertNext ==
  /\ Runs("assert", "assert") /\ idx <= Len(Sought)
  /\ \E artifacts \in {Named(OfStep(cfg.pre), Sought[idx]), {}} :
       unmet' = (\/ unmet
                 \/ artifacts = {} \/ Actual(store[Min(artifacts)]) = Nothing
                 \/ ~Holds(cfg.operator, Actual(store[Min(artifacts)]), cfg.expected))
  /\ idx' = idx + 1 /\ Goes("assert")
  /\ UNCHANGED <<step, store, pre, compared, watched, sync, notice>>

JudgeAssertions ==
  /\ Runs("assert", "assert") /\ idx > Len(Sought)
  /\ Done(IF unmet THEN "failure" ELSE "success")
  /\ UNCHANGED <<step, evidence, watched, sync, notice>>

-----------------------------------------------------------------------------
(* The connectivity monitors. *)

NoMonitor == {}

\* Any other kind is the management address, as is a kind the device lacks.
Kind == IF handler = "start" THEN cfg.kind ELSE "mgmt"
AddressOf(device) ==
  IF Kind = "primary" /\ device.ips # <<>> THEN Head(device.ips)
  ELSE IF Kind = "loopback" /\ device.loopback # "" THEN device.loopback
  ELSE IF Kind = "custom" /\ device.hostname # "" THEN device.hostname
  ELSE device.host

Target(instance, address) == [instance |-> instance, address |-> address]

IpAddresses(s) == s.ips \ {""}

\* Slip: the instances of a role are named after the role alone.
OfSelectorByRole(s) ==
  IF s.type = "ip" THEN {Target(<<"ip", a>>, a) : a \in IpAddresses(s)}
  ELSE IF s.type = "role"
  THEN {Target(<<s.role>>, AddressOf(d)) : d \in {e \in cfg.byRole[s.role] : AddressOf(e) # ""}}
  ELSE {}

OfSelector(s) ==
  IF s.type = "ip" THEN {Target(<<"ip", a>>, a) : a \in IpAddresses(s)}
  ELSE IF s.type = "role"
  THEN {Target(<<s.role, d.id>>, AddressOf(d)) : d \in {e \in cfg.byRole[s.role] : AddressOf(e) # ""}}
  ELSE {}

\* Without selectors the devices of the step's roles, for monitor.connectivity.
ResolveTargets ==
  IF handler = "connectivity" /\ cfg.selectors = {}
  THEN {Target(<<d.id, d.host>>, d.host) : d \in {e \in UNION {cfg.byRole[r] : r \in cfg.roles} : e.host # ""}}
  ELSE UNION {OfSelector(s) : s \in cfg.selectors}

\* The host keeps one target for each instance.
Register(targets) ==
  \E kept \in SUBSET targets :
    /\ \A t \in targets : \E u \in kept : u.instance = t.instance
    /\ \A t, u \in kept : t.instance = u.instance => t = u
    /\ watched' = {t.address : t \in kept}

StartMonitor ==
  /\ handler \in {"start", "connectivity"} /\ pc = "begin"
  /\ IF ResolveTargets = {} \/ cfg.check # "registered" \/ (handler = "start" /\ cfg.kind = "unknown")
     THEN Done("failure") /\ watched' = watched
     ELSE \/ Register(ResolveTargets) /\ Done("success")
          \/ (Register(ResolveTargets) \/ watched' = watched) /\ Done("failure")
  /\ UNCHANGED <<step, evidence, sync, notice>>

\* Slip: an exception reads as nothing to stop.
StopMonitorQuietly ==
  /\ Runs("stop", "begin")
  /\ \/ watched' = NoMonitor /\ Done(IF watched = NoMonitor THEN "failure" ELSE "success")
     \/ watched' \in {watched, NoMonitor} /\ Done("failure")
  /\ UNCHANGED <<step, evidence, sync, notice>>

\* An exception of the host's is not caught.
StopMonitor ==
  /\ Runs("stop", "begin")
  /\ \/ watched' = NoMonitor /\ Done(IF watched = NoMonitor THEN "failure" ELSE "success")
     \/ watched' \in {watched, NoMonitor} /\ Done("raised")
  /\ UNCHANGED <<step, evidence, sync, notice>>

\* A monitor that has made its rounds ends.
MonitorEnds ==
  /\ watched # NoMonitor
  /\ watched' = NoMonitor
  /\ UNCHANGED <<step, pc, result, evidence, sync, notice>>

-----------------------------------------------------------------------------
(* flow.git_sync *)

CarriesOut == \E f, c \in BOOLEAN : lastSync' = [failed |-> f, conflicts |-> c, done |-> TRUE]

\* The host has carried the request out, or may do so later, or never.
GivenUp ==
  /\ CarriesOut \/ lastSync' = lastSync
  /\ lingering' \in {lingering, TRUE}

\* An answer that lacks the summary reads as one of no failure and no conflict.
AnsweredWithout ==
  /\ CarriesOut \/ lastSync' = lastSync
  /\ reported' = FALSE /\ Done("success")

\* Slip: conflicts are no failure.
AnsweredDespiteConflicts ==
  /\ \/ AnsweredWithout
     \/ CarriesOut /\ reported' = TRUE /\ Done(IF lastSync'.failed THEN "failure" ELSE "success")
  /\ transient' = FALSE /\ lingering' = lingering

Answered ==
  /\ \/ AnsweredWithout
     \/ CarriesOut /\ reported' = TRUE /\ Done(IF lastSync'.failed \/ lastSync'.conflicts THEN "failure" ELSE "success")
  /\ transient' = FALSE /\ lingering' = lingering

\* A status that is not worth another request, or an answer that is no JSON.
Refused ==
  /\ GivenUp
  /\ transient' = FALSE /\ reported' = reported
  /\ Done("failure") \/ Done("raised")

\* Slip: one request more.
DisturbedOnceMore ==
  /\ GivenUp
  /\ transient' = TRUE /\ reported' = reported
  /\ IF tries <= MaxTries THEN Goes("sleep") ELSE Done("failure")

\* Too many requests, an error of the server, or no answer at all.
Disturbed ==
  /\ GivenUp
  /\ transient' = TRUE /\ reported' = reported
  /\ IF tries < MaxTries THEN Goes("sleep") ELSE Done("failure")

Request ==
  /\ Runs("sync", "begin")
  /\ Answered \/ Refused \/ Disturbed
  /\ UNCHANGED <<step, tries, overtaken, evidence, watched, notice>>

SleepAndRepeat ==
  /\ Runs("sync", "sleep")
  /\ tries' = tries + 1 /\ Goes("begin")
  /\ UNCHANGED <<step, transient, lastSync, reported, lingering, overtaken, evidence, watched, notice>>

\* The host comes to a request whose sender has given it up, be it while the
\* next one is under way or when the step is long over.
CarryOutLate ==
  /\ lingering
  /\ CarriesOut /\ lingering' \in BOOLEAN
  /\ overtaken' = (pc = "done")
  /\ UNCHANGED <<step, pc, result, tries, transient, reported, evidence, watched, notice>>

-----------------------------------------------------------------------------
(* flow.notify *)

\* The destination may be unknown, and the template may not render.
Prepare ==
  /\ Runs("notify", "begin")
  /\ Goes("dispatch") \/ Done("failure") \/ Done("raised")
  /\ UNCHANGED <<step, evidence, watched, sync, notice>>

Dispatch ==
  /\ Runs("notify", "dispatch")
  /\ \/ sent' = TRUE /\ Goes("tell success")
     \/ sent' \in {sent, TRUE} /\ Goes("tell failure")
  /\ UNCHANGED <<step, evidence, watched, sync, events>>

\* Slip: the exception of an event counts as one of the dispatch.
EmitEventOrRaise ==
  /\ handler = "notify" /\ pc \in {"tell success", "tell failure"}
  /\ LET outcome == IF pc = "tell success" THEN "success" ELSE "failure" IN
       \/ events' = Append(events, outcome) /\ Done(outcome)
       \/ events' \in {events, Append(events, outcome)} /\ IF outcome = "success" THEN Goes("tell failure") ELSE Done("failure")
  /\ UNCHANGED <<step, evidence, watched, sync, sent>>

\* An event that cannot be posted is given up without a word.
EmitEvent ==
  /\ handler = "notify" /\ pc \in {"tell success", "tell failure"}
  /\ LET outcome == IF pc = "tell success" THEN "success" ELSE "failure" IN
       /\ events' \in {events, Append(events, outcome)}
       /\ Done(outcome)
  /\ UNCHANGED <<step, evidence, watched, sync, sent>>

-----------------------------------------------------------------------------
(* The host. *)

\* The precheck comes before the change; the postcheck may still go on, or be
\* repeated, while it is read.  Of the other steps nothing is read.
Collect ==
  /\ handler \in {"compare", "assert"} /\ pc # "done"
  /\ \E a \in Artifacts :
       /\ a.step = cfg.pre \/ (handler = "compare" /\ a.step = cfg.post)
       /\ Cardinality(OfStep(a.step)) < MaxArtifacts
       /\ a.step = "pre" => pc = "begin" /\ attempt = 1 /\ OfStep("post") = {}
       /\ store' = Append(store, a)
  /\ UNCHANGED <<step, pc, result, pre, compared, idx, unmet, watched, sync, notice>>

\* The step is cancelled, or its time limit strikes; a request it waits for is
\* given up.
Abandon ==
  /\ pc # "done"
  /\ Done("abandoned")
  /\ IF Runs("sync", "begin") THEN GivenUp ELSE UNCHANGED <<lastSync, lingering>>
  /\ UNCHANGED <<step, evidence, watched, tries, transient, reported, overtaken, notice>>

Fresh ==
  /\ pc' = "begin" /\ result' = "none"
  /\ pre' = {} /\ compared' = {} /\ idx' = 1 /\ unmet' = FALSE
  /\ tries' = 1 /\ transient' = FALSE /\ reported' = FALSE /\ overtaken' = FALSE
  /\ sent' = FALSE /\ events' = <<>>
  /\ UNCHANGED <<flow, store, watched, lastSync, lingering>>

Repeat ==
  /\ pc = "done" /\ result # "success" /\ attempt < MaxAttempts
  /\ attempt' = attempt + 1 /\ at' = at
  /\ Fresh

\* What a failed step means for the flow is configured.
GoOn ==
  /\ pc = "done" /\ at < Len(flow)
  /\ at' = at + 1 /\ attempt' = 1
  /\ Fresh

Init ==
  /\ flow \in Flows
  /\ at = 1 /\ attempt = 1 /\ pc = "begin" /\ result = "none"
  /\ store = <<>> /\ pre = {} /\ compared = {} /\ idx = 1 /\ unmet = FALSE
  /\ watched = NoMonitor
  /\ tries = 1 /\ transient = FALSE /\ lastSync = Never
  /\ reported = FALSE /\ lingering = FALSE /\ overtaken = FALSE
  /\ sent = FALSE /\ events = <<>>

Step ==
  \/ FetchPre \/ FetchPostAndCompare \/ ResolveNames \/ AssertNext \/ JudgeAssertions
  \/ StartMonitor \/ StopMonitor \/ Request \/ SleepAndRepeat \/ Prepare \/ Dispatch \/ EmitEvent
Next == Step \/ MonitorEnds \/ CarryOutLate \/ Collect \/ Abandon \/ Repeat \/ GoOn

Spec == Init /\ [][Next]_vars

-----------------------------------------------------------------------------
(* Properties. *)

\* Type invariant.
TypeOK ==
  /\ flow \in Flows /\ at \in DOMAIN flow /\ attempt \in 1 .. MaxAttempts
  /\ pc \in {"begin", "fetch", "assert", "sleep", "dispatch", "tell success", "tell failure", "done"}
  /\ result \in {"none", "success", "failure", "raised", "abandoned"}
  /\ pc = "done" <=> result # "none"
  /\ store \in Seq(Artifacts)
  /\ pre \subseteq DOMAIN store /\ compared \subseteq NamesOf(DOMAIN store)
  /\ idx \in Nat \ {0} /\ unmet \in BOOLEAN
  /\ tries \in 1 .. MaxTries /\ transient \in BOOLEAN /\ sent \in BOOLEAN
  /\ lastSync \in [failed : BOOLEAN, conflicts : BOOLEAN, done : BOOLEAN]
  /\ reported \in BOOLEAN /\ lingering \in BOOLEAN /\ overtaken \in BOOLEAN
  /\ events \in Seq({"success", "failure"})

Succeeded(h) == handler = h /\ result = "success"

\* No comparison or assertion succeeds for want of evidence: also where a
\* difference is the success, both steps have an artifact of each name that was
\* compared, and every device one that fulfils the assertion.
EvidenceBehindPass ==
  /\ Succeeded("compare") =>
       compared # {} /\ compared \subseteq NamesOf(OfStep(cfg.pre)) \cap NamesOf(OfStep(cfg.post))
  /\ Succeeded("assert") =>
       \A i \in DOMAIN Sought : \E k \in DOMAIN store :
         /\ store[k].step = cfg.pre /\ store[k].name = Sought[i]
         /\ Actual(store[k]) # Nothing /\ Holds(cfg.operator, Actual(store[k]), cfg.expected)

\* What must not get lost of a content.
Kept(a, b) ==
  \/ a = b
  \/ Both(a, b, "text") /\ a.body = b.body /\ (a.volatile = b.volatile \/ "volatile" \in Elements(List(cfg.patterns)))
  \/ Both(a, b, "list") /\ Elements(a) \subseteq Elements(b)
  \/ Both(a, b, "object") /\ \A key \in DOMAIN a.map \ cfg.ignored :
       a.map[key] = Null \/ (key \in DOMAIN b.map /\ b.map[key] = a.map[key])

\* A comparison that is to find nothing lost, and succeeds, has found every
\* artifact of the precheck kept, but a field that was null, and an artifact
\* that shares its name with another of its step.
MatchHolds ==
  (Succeeded("compare") /\ cfg.mode # "changed") =>
    \A i \in pre : store[i].name \in compared =>
      \/ \E j \in pre \ {i} : store[j].name = store[i].name
      \/ \E k \in OfStep(cfg.post) :
           /\ store[k].name = store[i].name
           /\ Kept(Content(store[i]), Content(store[k]))

\* The addresses a monitor is configured for.
Wanted ==
  ((UNION {s.ips : s \in {t \in cfg.selectors : t.type = "ip"}})
   \cup (UNION {{AddressOf(d) : d \in cfg.byRole[s.role]} : s \in {t \in cfg.selectors : t.type = "role"}})
   \cup IF cfg.selectors = {} THEN {d.host : d \in UNION {cfg.byRole[r] : r \in cfg.roles}} ELSE {})
  \ {""}

\* A monitor that was started, and runs, watches every address, also where two
\* selectors give one instance.
AddressesWatched ==
  (Succeeded("start") \/ Succeeded("connectivity")) /\ watched # NoMonitor => Wanted \subseteq watched

\* A stop that is answered, be it that there is nothing to stop, leaves no
\* monitor behind, nor does one of a start that failed survive it.
StopMeansGone == handler = "stop" /\ result \in {"success", "failure"} => watched = NoMonitor

\* A sync that succeeds on a report is one whose last run at the host had no
\* failure and no conflict, whatever became of the requests before, unless one
\* of them that was given up is carried out after it; there was one only if the
\* step was disturbed, repeated, or not the first.  A sync that fails for a
\* disturbance has made its last request.
SyncIsClean ==
  /\ Succeeded("sync") /\ reported /\ ~overtaken => lastSync.done /\ ~lastSync.failed /\ ~lastSync.conflicts
  /\ Succeeded("sync") /\ overtaken => tries > 1 \/ attempt > 1 \/ at > 1
  /\ handler = "sync" /\ result = "failure" /\ transient => tries = MaxTries

\* An attempt posts at most one event, which says what the step's result says;
\* the loss of the event changes nothing, and a success has been sent.
EventTellsResult ==
  handler = "notify" =>
    /\ Len(events) <= 1
    /\ events # <<>> /\ result \in {"success", "failure"} => events[1] = result
    /\ result = "success" => sent

=============================================================================
