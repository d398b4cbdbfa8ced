--------------------------- MODULE InstallUpgrade ---------------------------
(***************************************************************************)
(* One device taken through an install-mode IOS-XE upgrade: the install,   *)
(* verify and cleanup handlers of steps_cisco_iosxe with the driver        *)
(* IOSXEInstallDriver beneath them, each retried by the host while it      *)
(* fails, against a device that reloads, loses power and rolls an          *)
(* uncommitted activation back on its own timer.                           *)
(*                                                                         *)
(* Every call the driver makes over the transport is one action.  A call   *)
(* is answered, or it is lost before or after the device acted on it.  The *)
(* three shipped transports turn a lost call into an empty result with     *)
(* exit code -1; the Transport protocol also allows one that raises.       *)
(***************************************************************************)
EXTENDS Naturals

CONSTANTS
  Version,      \* version strings
  NoVersion,    \* the empty string parse_version_from_show_version falls back to
  Old, New,     \* the version running before, and the version of the image
  Within,       \* <<v, w>> : v is a substring of w, case ignored
  Raises,       \* subset of BOOLEAN: may the transport raise on a lost call?
  MaxAttempts,  \* executions of one step, the first included
  MaxPolls,     \* reconnect attempts that fit in max_wait_seconds
  MaxFaults     \* lost calls and power losses in one behaviour

ASSUME ConstantsAssumption ==
  /\ NoVersion \notin Version
  /\ {Old, New} \subseteq Version
  /\ Old # New
  /\ Within \subseteq Version \X Version
  /\ \A v \in Version : <<v, v>> \in Within
  /\ Raises \subseteq BOOLEAN
  /\ MaxAttempts \in Nat \ {0}
  /\ MaxPolls \in Nat \ {0}
  /\ MaxFaults \in Nat

VARIABLES
  \* the device
  up,         \* "up", "reloading" (reload requested, still answering) or "down"
  running,    \* version it runs
  pkg,        \* version packages.conf names: what it boots when told to boot packages.conf
  base,       \* committed version: what the rollback timer returns to
  bootRun,    \* boot statement of the running configuration
  bootStart,  \* boot statement of the startup configuration
  \* the host and the step it executes
  cfg,        \* the steps' configuration
  pc,         \* next call or decision
  attempt,    \* HandlerContext.attempt of the current step
  polls,      \* reconnect attempts made by the verify handler
  \* what the driver holds and returns
  cur,        \* current_version
  committed,  \* committed, in verify
  inst,       \* the InstallResult the handler acts on
  ver,        \* the VerifyResult
  clean,      \* what became of "install remove inactive" and what was reported
  \* observers
  faults,     \* lost calls and power losses so far
  fresh       \* no reload since "show version" was last answered

device == <<up, running, pkg, base, bootRun, bootStart>>
driver == <<cur, committed, inst, ver, clean>>
vars == <<device, cfg, pc, attempt, polls, driver, faults, fresh>>

BootStatement == {"packages", "image", "empty"}
MaybeVersion == Version \cup {NoVersion}

InstallResult ==
  [success : BOOLEAN, reboot : BOOLEAN, activated : BOOLEAN, committed : BOOLEAN, note : BOOLEAN]
Failure(reload) ==
  [success |-> FALSE, reboot |-> reload, activated |-> FALSE, committed |-> FALSE,
   note |-> FALSE]

VerifyResult ==
  [success : BOOLEAN, match : BOOLEAN, changed : BOOLEAN, committed : BOOLEAN]
NoVerify == [success |-> FALSE, match |-> FALSE, changed |-> FALSE, committed |-> FALSE]

Config ==
  [activate : BOOLEAN, commit : BOOLEAN, autoCommit : BOOLEAN,
   target : MaybeVersion, preflight : {NoVersion, Old}, raises : Raises]

InstallSteps == {"connect", "showBoot", "config", "write", "installAdd"}
VerifySteps == {"poll", "showVersion", "summary", "commit", "summaryAgain", "decide"}
Steps == InstallSteps \cup VerifySteps \cup {"cleanup"}
Ended == {"done", "failed"}

\* `v.lower() in w.lower()`: the empty string contains no version.
Contains(w, v) == <<v, w>> \in Within

-----------------------------------------------------------------------------
(* The device, as the driver's commands and comments use it. *)

Answering == up # "down"

\* Only a packages.conf statement boots what was activated.
NextBoot == IF bootStart = "packages" THEN pkg ELSE Old

GoDown ==
  /\ up = "reloading"
  /\ up' = "down"
  /\ fresh' = FALSE
  /\ UNCHANGED <<running, pkg, base, bootRun, bootStart, cfg, pc, attempt, polls,
                 driver, faults>>

PowerLoss ==
  /\ Answering
  /\ faults < MaxFaults
  /\ up' = "down"
  /\ faults' = faults + 1
  /\ fresh' = FALSE
  /\ UNCHANGED <<running, pkg, base, bootRun, bootStart, cfg, pc, attempt, polls,
                 driver>>

Boot ==
  /\ up = "down"
  /\ up' = "up"
  /\ running' = NextBoot
  /\ bootRun' = bootStart
  /\ UNCHANGED <<pkg, base, bootStart, cfg, pc, attempt, polls, driver, faults, fresh>>

\* The rollback timer of an activation nobody committed.
AutoRollback ==
  /\ up = "up"
  /\ pkg # base
  /\ pkg' = base
  /\ up' = "down"
  /\ fresh' = FALSE
  /\ UNCHANGED <<running, base, bootRun, bootStart, cfg, pc, attempt, polls, driver,
                 faults>>

-----------------------------------------------------------------------------
(* Transport calls. *)

\* The call goes through.
Answered == Answering /\ faults' = faults

\* No answer: the device is down, or the connection fails while it is up.
NoAnswer ==
  \/ /\ ~Answering
     /\ faults' = faults
  \/ /\ Answering
     /\ faults < MaxFaults
     /\ faults' = faults + 1

-----------------------------------------------------------------------------
(* The host: it runs the steps in order, and a failed one again, from its    *)
(* first call, while attempts are left.                                       *)

StartStep(first) == pc' = first /\ attempt' = 1

FailStep(first) ==
  IF attempt < MaxAttempts
  THEN pc' = first /\ attempt' = attempt + 1
  ELSE pc' = "failed" /\ attempt' = attempt

FirstCall ==
  IF pc \in InstallSteps THEN "connect" ELSE IF pc = "cleanup" THEN "cleanup" ELSE "poll"

\* A slip: every activation is committed at once.
ActivationCommitted ==
  IF cfg.activate
  THEN pkg' = New /\ base' = New /\ up' = "reloading"
  ELSE UNCHANGED <<pkg, base, up>>

Activation ==
  IF cfg.activate
  THEN /\ pkg' = New
       /\ base' = IF cfg.commit THEN New ELSE base
       /\ up' = "reloading"
  ELSE UNCHANGED <<pkg, base, up>>

Active == running = New /\ pkg = New

\* Every [y/n] and [yes/no] is told yes, also the offer to save the running
\* configuration before the image is activated; an active one asks nothing.
PromptsAnswered ==
  bootStart' \in {bootStart} \cup (IF Answering /\ cfg.activate /\ ~Active THEN {bootRun} ELSE {})

\* The worker dies, or the step's timeout strikes, between two calls: what the
\* driver held is gone, what the device did stays done.
WorkerLost ==
  /\ pc \notin Ended
  /\ faults < MaxFaults
  /\ faults' = faults + 1
  /\ FailStep(FirstCall)
  /\ polls' = 0
  /\ UNCHANGED <<device, cfg, driver, fresh>>

\* The same while the device is busy with "install add".
WorkerLostInstalling ==
  /\ pc = "installAdd"
  /\ Answering
  /\ ~Active
  /\ faults < MaxFaults
  /\ faults' = faults + 1
  /\ Activation \/ UNCHANGED <<pkg, base, up>>
  /\ PromptsAnswered
  /\ FailStep("connect")
  /\ UNCHANGED <<running, bootRun, cfg, polls, driver, fresh>>

-----------------------------------------------------------------------------
(* Install: UpgradeInstallHandler.execute and IOSXEInstallDriver.install. *)

\* What install() makes of an output without an error pattern, of one that
\* says the image is active already, and of a connection that is lost.
Accepted(reload) ==
  [success |-> TRUE, reboot |-> reload, activated |-> cfg.activate,
   committed |-> cfg.commit, note |-> FALSE]
AlreadyAtTarget ==
  [success |-> TRUE, reboot |-> FALSE, activated |-> FALSE, committed |-> TRUE, note |-> TRUE]
ConnectionLost ==
  [success |-> TRUE, reboot |-> TRUE, activated |-> cfg.activate, committed |-> FALSE,
   note |-> FALSE]

\* What the handler makes of an exception that looks like a lost connection.
TakenForReboot ==
  [success |-> TRUE, reboot |-> TRUE, activated |-> TRUE, committed |-> FALSE, note |-> FALSE]

EndInstall(result) ==
  /\ inst' = result
  /\ IF result.success THEN StartStep("poll") ELSE FailStep("connect")
  /\ UNCHANGED <<cur, committed, ver, clean>>

\* services.connect builds the transport; no session is opened yet.
Connect ==
  /\ pc = "connect"
  /\ pc' = "showBoot"
  /\ UNCHANGED <<device, cfg, attempt, polls, driver, faults, fresh>>

\* services.connect raises: an error text with "ssh" or "connection" in it is
\* taken for the reboot, any other fails the device.
ConnectRaises ==
  /\ pc = "connect"
  /\ faults < MaxFaults
  /\ faults' = faults + 1
  /\ EndInstall(TakenForReboot) \/ EndInstall(Failure(FALSE))
  /\ UNCHANGED <<device, cfg, polls, fresh>>

\* "show boot": an unanswered call reads as an empty output, in which
\* packages.conf does not occur; an exception skips the configuration.
ShowBoot ==
  /\ pc = "showBoot"
  /\ \/ /\ Answered
        /\ pc' = IF bootRun = "packages" THEN "installAdd" ELSE "config"
     \/ /\ NoAnswer
        /\ pc' = IF cfg.raises THEN "installAdd" ELSE "config"
  /\ UNCHANGED <<device, cfg, attempt, polls, driver, fresh>>

\* A slip: the configuration is saved although the set was cut short.
ConfigureBootAlwaysSaved ==
  /\ pc = "config"
  /\ pc' = "write"
  /\ \/ Answered /\ bootRun' = "packages"
     \/ /\ Answered \/ NoAnswer
        /\ bootRun' \in {bootRun} \cup (IF Answering THEN {"empty", "packages"} ELSE {})
  /\ UNCHANGED <<up, running, pkg, base, bootStart, cfg, attempt, polls, driver, fresh>>

\* "no boot system" and the new statement go out in one session.  If it breaks
\* off, or a line is refused, either may be in force, and the transport skips
\* what follows the set.  The results are not read.
ConfigureBoot ==
  /\ pc = "config"
  /\ \/ /\ Answered
        /\ bootRun' = "packages"
        /\ pc' = "write"
     \/ /\ Answered \/ NoAnswer
        /\ bootRun' \in {bootRun} \cup (IF Answering THEN {"empty", "packages"} ELSE {})
        /\ pc' = "installAdd"
  /\ UNCHANGED <<up, running, pkg, base, bootStart, cfg, attempt, polls, driver, fresh>>

\* "write memory", behind the set in the same session.
WriteMemory ==
  /\ pc = "write"
  /\ pc' = "installAdd"
  /\ \/ Answered /\ bootStart' = bootRun
     \/ NoAnswer /\ bootStart' \in {bootStart} \cup (IF Answering THEN {bootRun} ELSE {})
  /\ UNCHANGED <<up, running, pkg, base, bootRun, cfg, attempt, polls, driver, fresh>>

\* The device carries the command out.
InstallAdd ==
  /\ pc = "installAdd"
  /\ Answered
  /\ ~Active
  /\ Activation
  /\ PromptsAnswered
  /\ EndInstall(Accepted(cfg.activate))
  /\ UNCHANGED <<running, bootRun, cfg, polls, fresh>>

\* "Same Image File-No Change": the image is active already.
InstallSameImage ==
  /\ pc = "installAdd"
  /\ Answered
  /\ Active
  /\ EndInstall(AlreadyAtTarget)
  /\ UNCHANGED <<device, cfg, polls, fresh>>

\* "FAILED: install_..." matches an error pattern; "% Invalid input" and
\* "%Error" end the wait but match none.
InstallRefused ==
  /\ pc = "installAdd"
  /\ Answered
  /\ \/ \E reload \in BOOLEAN : EndInstall(Failure(reload)) /\ PromptsAnswered
     \/ EndInstall(Accepted(FALSE)) /\ UNCHANGED bootStart
  /\ UNCHANGED <<up, running, pkg, base, bootRun, cfg, polls, fresh>>

\* The call is lost, before the device acted or after; what was read of the
\* output may or may not speak of the reload.
InstallLost ==
  /\ pc = "installAdd"
  /\ NoAnswer
  /\ \/ /\ Answering
        /\ ~Active
        /\ Activation
     \/ UNCHANGED <<pkg, base, up>>
  /\ PromptsAnswered
  /\ IF cfg.raises
     THEN \/ EndInstall(ConnectionLost)
          \/ EndInstall(Failure(FALSE))
     ELSE \E reload \in BOOLEAN :
            /\ reload => Answering
            /\ EndInstall(Accepted(reload))
  /\ UNCHANGED <<running, bootRun, cfg, polls, fresh>>

-----------------------------------------------------------------------------
(* Verify: UpgradeVerifyHandler.execute and IOSXEInstallDriver.verify. *)

EndVerify(result) ==
  /\ ver' = result
  /\ polls' = 0
  /\ IF result.success THEN StartStep("cleanup") ELSE FailStep("poll")

\* elapsed > max_wait_seconds, checked before every attempt.
TimeLeft == polls < MaxPolls

\* A slip: the clock is started again at every attempt.
WaitRestarted == polls' = 0

\* asyncio.sleep(retry_interval) before the next attempt.
WaitInterval == polls' = polls + 1

\* "show clock" until it is answered, or until max_wait_seconds have passed.
Poll ==
  /\ pc = "poll"
  /\ TimeLeft
  /\ \/ /\ Answered
        /\ pc' = "showVersion"
        /\ polls' = polls
     \/ /\ NoAnswer
        /\ pc' = pc
        /\ WaitInterval
  /\ UNCHANGED <<device, cfg, attempt, driver, fresh>>

PollTimeout ==
  /\ pc = "poll"
  /\ ~TimeLeft
  /\ EndVerify(NoVerify)
  /\ UNCHANGED <<device, cfg, cur, committed, inst, clean, faults, fresh>>

\* The preflight version read back ends the verification before the commit
\* status is looked at.  A lost call reads as the empty version, unless it, or
\* the services.connect before it, raises.
ShowVersion ==
  /\ pc = "showVersion"
  /\ \/ /\ Answered
        /\ cur' = running
        /\ fresh' = TRUE
        /\ IF Contains(running, cfg.preflight)
           THEN EndVerify(NoVerify)
           ELSE pc' = "summary" /\ UNCHANGED <<ver, attempt, polls>>
     \/ /\ NoAnswer
        /\ cur' = NoVersion
        /\ fresh' = FALSE
        /\ \/ EndVerify(NoVerify)
           \/ ~cfg.raises /\ pc' = "summary" /\ UNCHANGED <<ver, attempt, polls>>
  /\ committed' = FALSE
  /\ UNCHANGED <<device, cfg, inst, clean>>

\* "show install summary": any committed version's line counts.
InstallSummary ==
  /\ pc = "summary"
  /\ \/ /\ Answered
        /\ committed' = (pkg = base)
        /\ pc' = IF pkg # base /\ cfg.autoCommit THEN "commit" ELSE "decide"
     \/ /\ NoAnswer
        /\ pc' = "decide"
        /\ UNCHANGED committed
  /\ UNCHANGED <<device, cfg, attempt, polls, cur, inst, ver, clean, fresh>>

InstallCommit ==
  /\ pc = "commit"
  /\ \/ /\ Answered
        /\ base' = IF running = pkg THEN pkg ELSE base
        /\ pc' = "summaryAgain"
     \/ /\ NoAnswer
        /\ base' \in {base} \cup (IF Answering /\ running = pkg THEN {pkg} ELSE {})
        /\ pc' = IF cfg.raises THEN "decide" ELSE "summaryAgain"
  /\ UNCHANGED <<up, running, pkg, bootRun, bootStart, cfg, attempt, polls, driver, fresh>>

SummaryAgain ==
  /\ pc = "summaryAgain"
  /\ pc' = "decide"
  /\ \/ /\ Answered
        /\ committed' = (pkg = base)
     \/ /\ NoAnswer
        /\ UNCHANGED committed
  /\ UNCHANGED <<device, cfg, attempt, polls, cur, inst, ver, clean, fresh>>

\* A slip: any version satisfies a target.
MatchesAny == cfg.target # NoVersion

Matches == cfg.target # NoVersion /\ Contains(cur, cfg.target)

Decide ==
  /\ pc = "decide"
  /\ EndVerify([success |-> (cfg.target # NoVersion => Matches) /\ committed,
                match |-> Matches, changed |-> TRUE, committed |-> committed])
  /\ UNCHANGED <<device, cfg, cur, committed, inst, clean, faults, fresh>>

-----------------------------------------------------------------------------
(* Cleanup: UpgradeCleanupHandler.execute and IOSXEInstallDriver.cleanup. *)

CleanupOutcome == {"none", "removed", "refused", "lost", "raised"}

\* Success is the absence of ERROR and FAILED from the output.
EndCleanup(outcome) ==
  /\ clean' = outcome
  /\ IF outcome \in {"removed", "lost"}
     THEN pc' = "done" /\ attempt' = attempt
     ELSE FailStep("cleanup")

Cleanup ==
  /\ pc = "cleanup"
  /\ \/ Answered /\ \E outcome \in {"removed", "refused"} : EndCleanup(outcome)
     \/ NoAnswer /\ EndCleanup(IF cfg.raises THEN "raised" ELSE "lost")
  /\ UNCHANGED <<device, cfg, polls, cur, committed, inst, ver, fresh>>

-----------------------------------------------------------------------------

Init ==
  /\ up = "up"
  /\ running = Old
  /\ pkg = Old
  /\ base = Old
  /\ bootStart \in {"packages", "image"}
  /\ bootRun = bootStart
  /\ cfg \in Config
  /\ pc = "connect"
  /\ attempt = 1
  /\ polls = 0
  /\ cur = NoVersion
  /\ committed = FALSE
  /\ inst = Failure(FALSE)
  /\ ver = NoVerify
  /\ clean = "none"
  /\ faults = 0
  /\ fresh = FALSE

Device == GoDown \/ PowerLoss \/ Boot \/ AutoRollback

Install ==
  \/ Connect \/ ConnectRaises \/ ShowBoot \/ ConfigureBoot \/ WriteMemory
  \/ InstallAdd \/ InstallSameImage \/ InstallRefused \/ InstallLost

Verify ==
  \/ Poll \/ PollTimeout \/ ShowVersion \/ InstallSummary \/ InstallCommit
  \/ SummaryAgain \/ Decide

Host == Install \/ Verify \/ Cleanup

Loss == WorkerLost \/ WorkerLostInstalling

\* The workflow is over; the device keeps running.
Over == pc \in Ended /\ UNCHANGED vars

Next == Device \/ Host \/ Loss \/ Over

\* The host's event loop always runs the next step of the handler.  Nothing
\* is assumed of the device, not even that it comes back.
Spec == Init /\ [][Next]_vars /\ WF_vars(Host)

-----------------------------------------------------------------------------
(* Properties. *)

TypeOK ==
  /\ up \in {"up", "reloading", "down"}
  /\ running \in Version /\ pkg \in Version /\ base \in Version
  /\ bootRun \in BootStatement /\ bootStart \in BootStatement
  /\ cfg \in Config
  /\ pc \in Steps \cup Ended
  /\ attempt \in 1 .. MaxAttempts
  /\ polls \in 0 .. MaxPolls
  /\ cur \in MaybeVersion
  /\ committed \in BOOLEAN
  /\ inst \in InstallResult
  /\ ver \in VerifyResult
  /\ clean \in CleanupOutcome
  /\ faults \in 0 .. MaxFaults
  /\ fresh \in BOOLEAN

Verified == pc \in {"cleanup", "done"} /\ ver.success

\* A verification against a target the old version does not match, on a device
\* that has not reloaded since its version was read, is a promise about the
\* next power loss: the device runs what it will boot again, from the saved
\* boot statement, with no rollback pending (IOSXEInstallDriver.verify).
VerifiedSurvivesReload ==
  Verified /\ fresh /\ cfg.target # NoVersion /\ ~Contains(Old, cfg.target) =>
    /\ Contains(running, cfg.target)
    /\ NextBoot = running
    /\ base = running
    /\ bootStart = "packages"

\* The saved boot statement is lost in one way only: the configuration set left
\* the device without one, and the activation's offer to save that is told yes.
\* An install that does not activate never loses it, whatever is lost, retried
\* or reloaded on the way, and a device that has lost it runs the old version.
SavedBootKept == bootStart = "empty" => cfg.activate /\ (Answering => running = Old)

\* The previous version stays the rollback point until a commit the operator
\* asked for: `commit` in the install step or `auto_commit` in the verify step.
RollbackPointHeld == base # Old => cfg.commit \/ cfg.autoCommit

\* Whatever the device does, and even if it never returns, the workflow ends:
\* the reconnect loop is bounded by max_wait_seconds and every retry is counted.
WorkflowEnds == <>(pc \in Ended)

=============================================================================
