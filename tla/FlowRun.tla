------------------------------ MODULE FlowRun -------------------------------
(***************************************************************************)
(* One flow.run step: the handler starts a child run over the host's       *)
(* services, polls it to its end and fetches its outputs, in as many       *)
(* attempts as the host makes.  A child lives in the host: it goes on when *)
(* the attempt that started it is over.                                    *)
(***************************************************************************)
EXTENDS StepAttempt, FiniteSets

CONSTANTS
  MaxCancels,   \* cancellations of the step's coroutine in one behaviour
  MaxFaults     \* service calls and events that fail, and workers lost

ASSUME FlowConstants ==
  /\ MaxCancels \in Nat
  /\ MaxFaults \in Nat

VARIABLES
  wait,     \* wait_for_completion
  child,    \* the child run of each attempt, in the host
  verdict,  \* outcome of this attempt, once decided
  \* observers
  blind,    \* children whose attempt was cancelled where it could not stop them
  cancels,  \* cancellations so far
  faults    \* failed calls and lost workers so far

flowVars == <<wait, child, pc, attempt, verdict, blind, cancels, faults>>

Attempts == 1 .. MaxAttempts
Terminal == {"SUCCESS", "FAILED", "CANCELLED"}
\* "stopping": the host has accepted to cancel it.
Alive == {"active", "stopping"}
ChildStates == {"none"} \cup Alive \cup Terminal
Polling == {"poll", "sleep"}
Waits == {"create", "started", "outputs", "stop"} \cup Polling
Verdicts == {"none", "ok", "failed", "cancelled", "lost"}

Mine == child[attempt]
Becomes(state) == child' = [child EXCEPT ![attempt] = state]

End(result) == pc' = "ended" /\ verdict' = result
Continue(next) == pc' = next /\ verdict' = verdict
Fault == faults < MaxFaults /\ faults' = faults + 1

-----------------------------------------------------------------------------
(* The host. *)

ChildEnds ==
  /\ \E a \in Attempts :
       \/ child[a] = "active" /\ child' \in {[child EXCEPT ![a] = s] : s \in Terminal}
       \/ child[a] = "stopping" /\ child' = [child EXCEPT ![a] = "CANCELLED"]
  /\ UNCHANGED <<wait, pc, attempt, verdict, blind, cancels, faults>>

\* Slip: the polling loop does not answer a cancellation.
CancelUnanswered ==
  /\ pc \in Waits
  /\ cancels < MaxCancels
  /\ cancels' = cancels + 1
  /\ End("cancelled")
  /\ blind' = IF pc \in Polling THEN blind ELSE blind \cup {attempt}
  /\ UNCHANGED <<wait, child, attempt, faults>>

\* A cancellation in the polling loop is answered with cancel_run.  Anywhere
\* else the child is not stopped, if there is one or there comes to be one.
Cancel ==
  /\ pc \in Waits
  /\ cancels < MaxCancels
  /\ cancels' = cancels + 1
  /\ \/ /\ pc \in Polling
        /\ pc' = "stop"
        /\ UNCHANGED <<verdict, child, blind>>
     \/ /\ pc \notin Polling
        /\ End("cancelled")
        /\ blind' = blind \cup {attempt}
        /\ \/ child' = child
           \/ pc = "create" /\ Becomes("active")
           \/ pc = "stop" /\ Mine = "active" /\ Becomes("stopping")
  /\ UNCHANGED <<wait, attempt, faults>>

WorkerLost ==
  /\ pc \in Waits
  /\ Fault
  /\ End("lost")
  /\ \/ child' = child
     \/ pc = "create" /\ Becomes("active")
  /\ UNCHANGED <<wait, attempt, blind, cancels>>

\* The host's next attempt at a step that has not succeeded; it may make none.
Retry ==
  /\ pc = "ended"
  /\ verdict # "ok"
  /\ attempt < MaxAttempts
  /\ attempt' = attempt + 1
  /\ pc' = "begin"
  /\ verdict' = "none"
  /\ UNCHANGED <<wait, child, blind, cancels, faults>>

-----------------------------------------------------------------------------
(* The handler. *)

Begin ==
  /\ pc = "begin"
  /\ Continue("create") \/ End("failed")
  /\ UNCHANGED <<wait, child, attempt, blind, cancels, faults>>

\* The host may refuse; or start the child and its answer is lost, or has no
\* run_id.
Create ==
  /\ pc = "create"
  /\ \/ /\ Becomes("active")
        /\ Continue("started")
        /\ faults' = faults
     \/ End("failed") /\ UNCHANGED <<child, faults>>
     \/ Fault /\ End("failed") /\ Becomes("active")
  /\ UNCHANGED <<wait, attempt, blind, cancels>>

\* emit_progress stands outside the try block: if it raises, so does the step.
Started ==
  /\ pc = "started"
  /\ \/ /\ IF wait THEN Continue("poll") ELSE End("ok")
        /\ faults' = faults
     \/ Fault /\ End("failed")
  /\ UNCHANGED <<wait, child, attempt, blind, cancels>>

\* Slip: every end of the child is a failure.
PollFails ==
  /\ pc = "poll"
  /\ IF Mine \in Alive THEN Continue("sleep") ELSE End("failed")
  /\ UNCHANGED <<wait, child, attempt, blind, cancels, faults>>

\* Slip: a cancelled child has not ended.
PollOnCancelled ==
  /\ pc = "poll"
  /\ \/ Mine = "SUCCESS" /\ Continue("outputs")
     \/ Mine = "FAILED" /\ End("failed")
     \/ Mine \in Alive \cup {"CANCELLED"} /\ Continue("sleep")
  /\ UNCHANGED <<wait, child, attempt, blind, cancels, faults>>

\* One fetch_run that fails ends the attempt, and leaves the child as it is.
Poll ==
  /\ pc = "poll"
  /\ \/ /\ faults' = faults
        /\ \/ Mine \in Alive /\ Continue("sleep")
           \/ Mine = "SUCCESS" /\ Continue("outputs")
           \/ Mine \in {"FAILED", "CANCELLED"} /\ End("failed")
     \/ Fault /\ End("failed")
  /\ UNCHANGED <<wait, child, attempt, blind, cancels>>

\* The event of this round and the interval to the next.
Sleep ==
  /\ pc = "sleep"
  /\ \/ Continue("poll") /\ faults' = faults
     \/ Fault /\ End("failed")
  /\ UNCHANGED <<wait, child, attempt, blind, cancels>>

\* cancel_run, whose failure is suppressed; the cancellation goes on.
Stop ==
  /\ pc = "stop"
  /\ \/ /\ IF Mine = "active" THEN Becomes("stopping") ELSE child' = child
        /\ faults' = faults
     \/ Fault /\ child' = child
  /\ End("cancelled")
  /\ UNCHANGED <<wait, attempt, blind, cancels>>

Outputs ==
  /\ pc = "outputs"
  /\ \/ End("ok") /\ faults' = faults
     \/ Fault /\ End("failed")
  /\ UNCHANGED <<wait, child, attempt, blind, cancels>>

Handler == Begin \/ Create \/ Started \/ Poll \/ Sleep \/ Stop \/ Outputs

FlowInit ==
  /\ wait \in BOOLEAN
  /\ child = [a \in Attempts |-> "none"]
  /\ pc = "begin"
  /\ attempt = 1
  /\ verdict = "none"
  /\ blind = {}
  /\ cancels = 0 /\ faults = 0

FlowNext == Handler \/ ChildEnds \/ Cancel \/ WorkerLost \/ Retry

\* Calls return or raise, and children end, which the handler waits for
\* without a deadline of its own.
FlowSpec == FlowInit /\ [][FlowNext]_flowVars /\ WF_flowVars(Handler) /\ WF_flowVars(ChildEnds)

-----------------------------------------------------------------------------
(* Properties. *)

\* Type invariant.
FlowTypeOK ==
  /\ wait \in BOOLEAN
  /\ child \in [Attempts -> ChildStates]
  /\ pc \in Waits \cup {"begin", "ended"}
  /\ attempt \in Attempts
  /\ verdict \in Verdicts
  /\ (pc = "ended") <=> (verdict # "none")
  /\ blind \subseteq Attempts
  /\ cancels \in 0 .. MaxCancels /\ faults \in 0 .. MaxFaults

\* A step that waits for its child leaves none at work when an attempt is over,
\* so two of them never work at once: the child has ended, or the host is
\* stopping it.  The exceptions are a fault, and a cancellation that strikes
\* before the polling loop or while it answers an earlier one.
ChildEndsWithAttempt ==
  (wait /\ faults = 0) => \A a \in Attempts \ blind :
    child[a] = "active" => a = attempt /\ pc \in {"started", "stop"} \cup Polling

\* The child flow is not run again once it has succeeded, unless a call failed
\* or the step was cancelled after its success.
NotRunAgain ==
  (wait /\ faults = 0 /\ cancels = 0) =>
    \A a \in Attempts : child[a] = "SUCCESS" => \A b \in Attempts : b > a => child[b] = "none"

\* The step succeeds on the word of its own child, not of an earlier one.
SuccessIsOwnChild == (wait /\ verdict = "ok") => Mine = "SUCCESS"

\* The step ends, and every child with it.
StepEnds == <>[](pc = "ended" /\ \A a \in Attempts : child[a] \notin Alive)

=============================================================================
