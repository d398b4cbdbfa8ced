---------------------------- MODULE ContainerRun ----------------------------
(***************************************************************************)
(* One container.run step: RunContainerHandler.execute, over the attempts  *)
(* the host gives it, and the Docker daemon it drives with one CLI process *)
(* per call.  A call runs on a thread: when the step is cancelled, or the  *)
(* call times out, the request may still reach the daemon later.           *)
(*                                                                         *)
(* The output stream is one call here; ContainerStream has it in detail.   *)
(***************************************************************************)
EXTENDS Naturals, FiniteSets, Sequences

CONSTANTS
  MaxAttempts,  \* attempts the host makes, the first included
  MaxCancels,   \* cancellations of the step's coroutine in one behaviour
  MaxFaults     \* docker answers lost, and workers lost, in one behaviour

ASSUME ConstantsAssumption ==
  /\ MaxAttempts \in Nat \ {0}
  /\ MaxCancels \in Nat
  /\ MaxFaults \in Nat

VARIABLES
  \* the Docker daemon
  ctr,       \* state of the container of each name
  creating,  \* names of "docker create" requests nobody waits for
  removing,  \* names of "docker rm -f" requests nobody waits for
  \* the worker
  dirs,      \* attempts whose staging directories are on its disk
  pc,        \* next call of the handler
  attempt,   \* HandlerContext.attempt
  found,     \* names the preflight cleanup has still to remove
  todo,      \* copies into the container still to make
  verdict,   \* outcome of this attempt, once decided
  \* observers
  cancels,   \* cancellations so far
  faults     \* lost answers and lost workers so far

docker == <<ctr, creating, removing>>
vars == <<docker, dirs, pc, attempt, found, todo, verdict, cancels, faults>>

Attempts == 1 .. MaxAttempts
Exited == {"exited0", "exited1"}
CtrStates == {"none", "created", "running"} \cup Exited
Copies == {"roots", "attachments", "stepOutputs", "artifacts"}
Verdicts == {"none", "ok", "failed", "timeout", "cancelled", "lost"}

\* Where the handler waits for something.
Preflight == {"ps", "rmOld"}
Removals == {"rmOld", "rmTimeout", "remove"}
Waits == Preflight \cup Removals \cup
         {"stage", "stageOutputs", "stageArtifacts", "pull", "create", "copy", "start",
          "stream", "harvest", "report"}

\* Slip: the name leaves the attempt out.
NameOfStep(a) == 1

\* The attempt number is part of the container's name.
Name(a) == a
Mine == ctr[Name(attempt)]
Becomes(state) == ctr' = [ctr EXCEPT ![Name(attempt)] = state]

-----------------------------------------------------------------------------
(* The Docker daemon. *)

Exit ==
  /\ \E n \in Attempts, s \in Exited :
       /\ ctr[n] = "running"
       /\ ctr' = [ctr EXCEPT ![n] = s]
  /\ UNCHANGED <<creating, removing, dirs, pc, attempt, found, todo, verdict, cancels, faults>>

\* "docker rm -f": _force_remove_container suppresses every error and the
\* caller learns nothing; a lost answer leaves the container.
Remove(name) ==
  \/ ctr' = [ctr EXCEPT ![name] = "none"] /\ faults' = faults
  \/ faults < MaxFaults /\ faults' = faults + 1 /\ ctr' = ctr

\* A request without a waiter is served, or dies with its client.
LateCreate ==
  /\ \E n \in creating :
       /\ creating' = creating \ {n}
       /\ \/ ctr[n] = "none" /\ ctr' = [ctr EXCEPT ![n] = "created"]
          \/ ctr' = ctr
  /\ UNCHANGED <<removing, dirs, pc, attempt, found, todo, verdict, cancels, faults>>

LateRemove ==
  /\ \E n \in removing :
       /\ removing' = removing \ {n}
       /\ Remove(n)
  /\ UNCHANGED <<creating, dirs, pc, attempt, found, todo, verdict, cancels>>

-----------------------------------------------------------------------------
(* The ways an attempt ends. *)

\* A return, or an exception the handler catches: the finally block follows.
Return(result) == pc' = "remove" /\ verdict' = result

\* subprocess.TimeoutExpired: its handler removes the container a first time.
TimedOut == pc' = "rmTimeout" /\ verdict' = "timeout"

\* What the call of this moment leaves behind when nobody waits for it: a
\* request on its way or, for "docker start", a container that may run.
Abandon ==
  /\ creating' = IF pc = "create" THEN creating \cup {Name(attempt)} ELSE creating
  /\ \/ /\ pc \in {"rmTimeout", "remove"}
        /\ removing' = removing \cup {Name(attempt)}
     \/ /\ pc = "rmOld"
        /\ \E n \in found : removing' = removing \cup {n}
     \/ /\ pc \notin Removals
        /\ removing' = removing
  /\ \/ ctr' = ctr
     \/ pc = "start" /\ Mine = "created" /\ Becomes("running")

\* Cancellation is no Exception: only the finally block runs, and a second
\* one that strikes there ends that too.
Cancel ==
  /\ pc \in Waits
  /\ cancels < MaxCancels
  /\ cancels' = cancels + 1
  /\ verdict' = "cancelled"
  /\ pc' = IF pc \in {"remove", "report"} THEN "ended" ELSE "remove"
  /\ Abandon
  /\ UNCHANGED <<dirs, attempt, found, todo, faults>>

\* The worker process dies; the docker clients it started live on.
WorkerLost ==
  /\ pc \in Waits
  /\ faults < MaxFaults
  /\ faults' = faults + 1
  /\ verdict' = "lost"
  /\ pc' = "ended"
  /\ Abandon
  /\ UNCHANGED <<dirs, attempt, found, todo, cancels>>

\* The host's next attempt at a step that has not succeeded; it may make none.
Retry ==
  /\ pc = "ended"
  /\ verdict # "ok"
  /\ attempt < MaxAttempts
  /\ attempt' = attempt + 1
  /\ pc' = "begin"
  /\ verdict' = "none"
  /\ found' = {}
  /\ todo' = <<>>
  /\ UNCHANGED <<docker, dirs, cancels, faults>>

-----------------------------------------------------------------------------
(* RunContainerHandler.execute. *)

\* validate_config comes before the try: a rejected configuration ends at once.
Begin ==
  /\ pc = "begin"
  /\ \/ pc' = "ps" /\ verdict' = verdict
     \/ pc' = "ended" /\ verdict' = "failed"
  /\ UNCHANGED <<docker, dirs, attempt, found, todo, cancels, faults>>

\* Slip: the preflight cleanup looks for this attempt's name, not for the labels.
LabelledByName == {n \in {Name(attempt)} : ctr[n] # "none"}

\* _preflight_cleanup: every container labelled with this run and step run.
Labelled == {n \in Attempts : ctr[n] # "none"}

PreflightList ==
  /\ pc = "ps"
  /\ \/ found' = Labelled /\ faults' = faults
     \/ faults < MaxFaults /\ faults' = faults + 1 /\ found' = {}
  /\ pc' = IF found' = {} THEN "stage" ELSE "rmOld"
  /\ UNCHANGED <<docker, dirs, attempt, todo, verdict, cancels>>

PreflightRemove ==
  /\ pc = "rmOld"
  /\ \E n \in found :
       /\ Remove(n)
       /\ found' = found \ {n}
  /\ pc' = IF found' = {} THEN "stage" ELSE "rmOld"
  /\ UNCHANGED <<creating, removing, dirs, attempt, todo, verdict, cancels>>

\* The staging directories, and what the host has for them: attachments and
\* artifacts must be staged, step outputs are best effort.
StageAttachments ==
  /\ pc = "stage"
  /\ dirs' = dirs \cup {attempt}
  /\ \/ /\ todo' \in {<<"roots">>, <<"roots", "attachments">>}
        /\ pc' = "stageOutputs"
        /\ verdict' = verdict
     \/ /\ Return("failed")
        /\ todo' = todo
  /\ UNCHANGED <<docker, attempt, found, cancels, faults>>

StageStepOutputs ==
  /\ pc = "stageOutputs"
  /\ todo' \in {todo, Append(todo, "stepOutputs")}
  /\ pc' = "stageArtifacts"
  /\ UNCHANGED <<docker, dirs, attempt, found, verdict, cancels, faults>>

StageArtifacts ==
  /\ pc = "stageArtifacts"
  /\ \/ /\ todo' \in {todo, Append(todo, "artifacts")}
        /\ pc' = "pull"
        /\ verdict' = verdict
     \/ /\ Return("failed")
        /\ todo' = todo
  /\ UNCHANGED <<docker, dirs, attempt, found, cancels, faults>>

Pull ==
  /\ pc = "pull"
  /\ \/ pc' = "create" /\ verdict' = verdict
     \/ Return("failed")
     \/ TimedOut
  /\ UNCHANGED <<docker, dirs, attempt, found, todo, cancels, faults>>

Create ==
  /\ pc = "create"
  /\ \/ /\ Mine = "none"
        /\ Becomes("created")
        /\ pc' = "copy"
        /\ UNCHANGED <<creating, verdict>>
     \/ /\ Return("failed")
        /\ UNCHANGED <<ctr, creating>>
     \/ /\ TimedOut
        /\ creating' = creating \cup {Name(attempt)}
        /\ ctr' = ctr
  /\ UNCHANGED <<removing, dirs, attempt, found, todo, cancels, faults>>

\* Only the step outputs may fail to arrive.
Copy ==
  /\ pc = "copy"
  /\ \/ /\ Mine # "none" \/ Head(todo) = "stepOutputs"
        /\ todo' = Tail(todo)
        /\ pc' = IF todo' = <<>> THEN "start" ELSE "copy"
        /\ verdict' = verdict
     \/ /\ Head(todo) # "stepOutputs"
        /\ Return("failed")
        /\ todo' = todo
     \/ /\ TimedOut
        /\ todo' = todo
  /\ UNCHANGED <<docker, dirs, attempt, found, cancels, faults>>

\* "docker start -a", or no such process: the docker binary is gone.
Start ==
  /\ pc = "start"
  /\ \/ /\ ctr' = IF Mine = "created" THEN [ctr EXCEPT ![Name(attempt)] = "running"] ELSE ctr
        /\ pc' = "stream"
        /\ verdict' = verdict
     \/ /\ Return("failed")
        /\ ctr' = ctr
  /\ UNCHANGED <<creating, removing, dirs, attempt, found, todo, cancels, faults>>

\* The client ends with the container, or the deadline kills the client: the
\* container is left to the finally block.
Stream ==
  /\ pc = "stream"
  /\ \/ /\ Mine # "running"
        /\ pc' = "harvest"
        /\ verdict' = IF Mine = "exited0" THEN "ok" ELSE "failed"
     \/ Return("timeout")
  /\ UNCHANGED <<docker, dirs, attempt, found, todo, cancels, faults>>

\* Whatever the collection of generated artifacts does, the exit code decides.
Harvest ==
  /\ pc = "harvest"
  /\ pc' = "remove"
  /\ UNCHANGED <<docker, dirs, attempt, found, todo, verdict, cancels, faults>>

TimeoutRemove ==
  /\ pc = "rmTimeout"
  /\ Remove(Name(attempt))
  /\ pc' = "remove"
  /\ UNCHANGED <<creating, removing, dirs, attempt, found, todo, verdict, cancels>>

\* Slip: after a timeout the container is taken for removed.
CleanupOnce ==
  /\ pc = "remove"
  /\ \/ verdict = "timeout" /\ UNCHANGED <<ctr, faults>>
     \/ verdict # "timeout" /\ Remove(Name(attempt))
  /\ dirs' = dirs \ {attempt}
  /\ pc' = "report"
  /\ UNCHANGED <<creating, removing, attempt, found, todo, verdict, cancels>>

\* Slip: a lost removal skips the directories.
CleanupInOneTry ==
  /\ pc = "remove"
  /\ Remove(Name(attempt))
  /\ dirs' = IF faults' = faults THEN dirs \ {attempt} ELSE dirs
  /\ pc' = "report"
  /\ UNCHANGED <<creating, removing, attempt, found, todo, verdict, cancels>>

\* The finally block: the container, then the directories, which no await
\* separates from it, then the last progress event.
Cleanup ==
  /\ pc = "remove"
  /\ Remove(Name(attempt))
  /\ dirs' = dirs \ {attempt}
  /\ pc' = "report"
  /\ UNCHANGED <<creating, removing, attempt, found, todo, verdict, cancels>>

Report ==
  /\ pc = "report"
  /\ pc' = "ended"
  /\ UNCHANGED <<docker, dirs, attempt, found, todo, verdict, cancels, faults>>

Handler ==
  \/ Begin \/ PreflightList \/ PreflightRemove
  \/ StageAttachments \/ StageStepOutputs \/ StageArtifacts \/ Pull \/ Create \/ Copy
  \/ Start \/ Stream \/ Harvest \/ TimeoutRemove \/ Cleanup \/ Report

Late == LateCreate \/ LateRemove

Init ==
  /\ ctr = [n \in Attempts |-> "none"]
  /\ creating = {} /\ removing = {}
  /\ dirs = {}
  /\ pc = "begin"
  /\ attempt = 1
  /\ found = {}
  /\ todo = <<>>
  /\ verdict = "none"
  /\ cancels = 0 /\ faults = 0

Next == Handler \/ Late \/ Exit \/ Cancel \/ WorkerLost \/ Retry

Spec == Init /\ [][Next]_vars

-----------------------------------------------------------------------------
(* Properties. *)

\* Type invariant.
TypeOK ==
  /\ ctr \in [Attempts -> CtrStates]
  /\ creating \subseteq Attempts /\ removing \subseteq Attempts
  /\ dirs \subseteq Attempts
  /\ pc \in Waits \cup {"begin", "ended"}
  /\ attempt \in Attempts
  /\ found \subseteq Attempts
  /\ todo \in Seq(Copies)
  /\ pc = "copy" => todo # <<>>
  /\ verdict \in Verdicts
  /\ cancels \in 0 .. MaxCancels /\ faults \in 0 .. MaxFaults

Running == {n \in Attempts : ctr[n] = "running"}

\* Two attempts of the step never work at the same time, on the shared
\* workspace or the devices, unless a fault meets another fault or a
\* cancellation: what one attempt leaves behind after a lost worker, a lost
\* removal or any number of cancellations, the preflight cleanup of the next
\* one finds by its labels.
OneRunning == (faults = 0 \/ faults + cancels <= 1) => Cardinality(Running) <= 1

\* Without a fault, the only thing a step may leave on the daemon when it has
\* ended is a container that never started: one whose "docker create" was
\* abandoned and served after the finally block had run "docker rm -f".
LeftoverNeverRan ==
  (pc = "ended" /\ faults = 0 /\ removing = {}) => \A n \in Attempts : ctr[n] \in {"none", "created"}

\* An attempt that reports a result of its own has removed its staging
\* directories, even after docker calls that timed out or got lost; only one
\* that is cancelled or lost in the finally block leaves them.
StagingRemoved ==
  (pc = "ended" /\ verdict \in {"ok", "failed", "timeout"}) => attempt \notin dirs

\* The container of an attempt that is still at work is never taken from under
\* it, not even by the removals earlier attempts abandoned: they name theirs.
NotTakenAway == [][(Mine = "running" /\ verdict = "none") => ctr'[Name(attempt)] # "none"]_vars

=============================================================================
