----------------------------- MODULE DeviceChecks -----------------------------
(***************************************************************************)
(* The checks that try one device after the other: netcli.poll_until,      *)
(* probe.connectivity, probe.http and probe.dns.  The condition they look  *)
(* for comes and goes on each device, and any attempt may get no answer.   *)
(***************************************************************************)
EXTENDS DeviceLoop

CONSTANT MaxAttempts \* most attempts a step is configured with

ASSUME ConstantsAssumption == NDevices \in Nat /\ MaxAttempts \in Nat \ {0}

VARIABLES
  handler,
  invert,     \* invert_match
  matchesNothing, \* the configured expression matches the empty text
  attempts,   \* max_attempts, attempts
  homeless,   \* devices without mgmt_host, or for probe.dns without a name
  met,        \* whether the condition holds on each device
  attempt,    \* attempts made on it
  bad,        \* devices found wanting: device_errors, failed_devices
  \* observers
  tries,      \* attempts on each device that came to an answer
  last        \* what the last attempt on each device brought

input == <<handler, invert, matchesNothing, attempts, homeless>>
vars == <<handler, invert, matchesNothing, attempts, homeless, met, pc, dev, attempt, bad, verdict,
          tries, last>>

Handlers == {"poll_until", "connectivity", "http", "dns"}
\* "failed": no answer.  A failed command of poll_until has an empty output.
Answers == {"met", "unmet", "failed"}
Outcomes == Answers \cup {"none", "raised"}

-----------------------------------------------------------------------------

\* Slip: no answer ends the wait, as if nothing were the condition.
MatchedUnlessMet(answer) == answer # "unmet"

\* The test of an attempt.  Only poll_until can take no answer for a good one.
Matched(answer) ==
  IF handler = "poll_until"
  THEN (answer = "met" \/ (answer = "failed" /\ matchesNothing)) # invert
  ELSE answer = "met"

\* Slip: a device that fails ends the loop over the others.
NextDeviceUpTo(isBad) ==
  /\ bad' = IF isBad THEN bad \cup {dev} ELSE bad
  /\ dev' = IF isBad THEN NDevices + 1 ELSE dev + 1
  /\ attempt' = 0
  /\ pc' = "next"

NextDevice(isBad) ==
  /\ bad' = IF isBad THEN bad \cup {dev} ELSE bad
  /\ dev' = dev + 1
  /\ attempt' = 0
  /\ pc' = "next"

Begin ==
  /\ pc = "next" /\ dev <= NDevices
  /\ IF dev \in homeless
     THEN NextDevice(TRUE)
     ELSE pc' = "try" /\ UNCHANGED <<bad, dev, attempt>>
  /\ UNCHANGED <<input, met, verdict, tries, last>>

Record(what) ==
  /\ tries' = [tries EXCEPT ![dev] = @ + 1]
  /\ last' = [last EXCEPT ![dev] = what]

\* One attempt.  The answers of a resolver that lack an expected value are
\* not asked for again; anything else is, as long as there are attempts.
Try ==
  /\ pc = "try"
  /\ \E answer \in {"failed", IF met[dev] THEN "met" ELSE "unmet"} :
       /\ Record(answer)
       /\ IF Matched(answer) THEN NextDevice(FALSE)
          ELSE IF attempt + 1 < attempts /\ ~(handler = "dns" /\ answer = "unmet")
          THEN pc' = "sleep" /\ attempt' = attempt + 1 /\ UNCHANGED <<bad, dev>>
          ELSE NextDevice(TRUE)
  /\ UNCHANGED <<input, met, verdict>>

\* poll_until takes any exception, of the transport or of connecting, for the
\* failure of this device.
Raise ==
  /\ handler = "poll_until" /\ pc = "try"
  /\ last' = [last EXCEPT ![dev] = "raised"]
  /\ NextDevice(TRUE)
  /\ UNCHANGED <<input, met, verdict, tries>>

\* The other handlers let exceptions out that they do not expect; that of an
\* unknown probe is a result.
Break ==
  /\ handler # "poll_until" /\ pc = "try"
  /\ pc' = "done" /\ verdict' = "failure"
  /\ UNCHANGED <<input, met, dev, attempt, bad, tries, last>>

Sleep ==
  /\ pc = "sleep"
  /\ pc' = "try"
  /\ UNCHANGED <<input, met, dev, attempt, bad, verdict, tries, last>>

\* To have no target device at all is a failure.
Judge ==
  /\ pc = "next" /\ dev > NDevices
  /\ pc' = "done"
  /\ verdict' = IF Devices # {} /\ bad = {} THEN "success" ELSE "failure"
  /\ UNCHANGED <<input, met, dev, attempt, bad, tries, last>>

Change ==
  /\ pc # "done"
  /\ \E d \in Devices : met' = [met EXCEPT ![d] = ~@]
  /\ UNCHANGED <<input, pc, dev, attempt, bad, verdict, tries, last>>

CancelTask ==
  /\ pc \in {"try", "sleep"}
  /\ pc' = "done" /\ verdict' = "failure"
  /\ UNCHANGED <<input, met, dev, attempt, bad, tries, last>>

Init ==
  /\ handler \in Handlers
  /\ invert \in BOOLEAN /\ matchesNothing \in BOOLEAN
  /\ handler # "poll_until" => ~invert /\ ~matchesNothing
  /\ attempts \in 1 .. MaxAttempts
  /\ homeless \in SUBSET Devices
  /\ met \in [Devices -> BOOLEAN]
  /\ pc = "next" /\ dev = 1 /\ attempt = 0 /\ bad = {} /\ verdict = "none"
  /\ tries = [d \in Devices |-> 0]
  /\ last = [d \in Devices |-> "none"]

Step == Begin \/ Try \/ Raise \/ Break \/ Sleep \/ Judge
Next == Step \/ Change \/ CancelTask

\* Every attempt has a time limit, and every pause ends.
Spec == Init /\ [][Next]_vars /\ WF_vars(Step)

-----------------------------------------------------------------------------
(* Properties. *)

\* Type invariant.
TypeOK ==
  /\ handler \in Handlers /\ invert \in BOOLEAN /\ matchesNothing \in BOOLEAN
  /\ attempts \in 1 .. MaxAttempts /\ homeless \subseteq Devices
  /\ met \in [Devices -> BOOLEAN]
  /\ pc \in {"next", "try", "sleep", "done"}
  /\ dev \in 1 .. NDevices + 1 /\ (pc \in {"try", "sleep"} => dev \in Devices)
  /\ attempt \in 0 .. attempts - 1
  /\ bad \subseteq Devices /\ verdict \in {"none", "success", "failure"}
  /\ tries \in [Devices -> 0 .. MaxAttempts] /\ last \in [Devices -> Outcomes]

\* A check that succeeds has seen the condition on every device at its last
\* attempt there, or with invert_match has seen that it does not hold.  The
\* exception is a poll whose test is true of an empty text, which a command
\* that failed leaves behind.
SuccessIsSeen ==
  verdict = "success" =>
    \A d \in Devices :
      \/ last[d] = IF invert THEN "unmet" ELSE "met"
      \/ handler = "poll_until" /\ invert # matchesNothing /\ last[d] = "failed"

\* No device is given up before its attempts are used, but for an exception,
\* and for answers of a resolver that lack a value.
NotGivenUpEarly ==
  \A d \in bad \ homeless :
    \/ tries[d] = attempts
    \/ last[d] = "raised"
    \/ handler = "dns" /\ last[d] = "unmet"

\* The four handlers keep the promise of TryEach: the devices in turn, no
\* attempt too many, a success only if there are devices and all are good, and
\* a verdict at the end.
Promise == INSTANCE TryEach WITH
  NTargets <- NDevices,
  MaxTries <- MaxAttempts,
  state <- [d \in Devices |-> IF d \in bad THEN "bad" ELSE IF d < dev THEN "good" ELSE "open"]
PromiseKept == Promise!Spec

=============================================================================
