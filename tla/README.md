# A verification project for hegemony-step-plugins

The repository holds the step handlers of Hegemony, an automation platform for
network devices: an SDK (`packages/step_sdk`), handler wheels
(`plugins/steps_*`), three SSH transports (`transports/transport_*`) and the
probes (`probes/probe_net`).  A flow is a list of steps; the platform, which is
not in this repository, runs one handler per step through
`BaseHandler.execute(ctx)`, times it out, cancels it and runs it again
(`ctx.attempt`) when it fails.  What a handler does to the world goes through
`ctx.services`.

This directory states what those handlers promise when a device goes away in
the middle of a call, when a step is retried after half of it was done, when an
answer comes late, and checks it.

## Inventory

| Component | State it keeps | Operations | What makes it hard |
| --- | --- | --- | --- |
| IOS-XE upgrade, install mode (`handlers/install.py`, `verify.py`, `cleanup.py`, `cisco/iosxe_install.py`) | per device: result of the install, reconnect attempts, version read, commit seen; the device keeps the boot statement (running and saved), the active and the committed version | install (show boot, configure, install add), verify (wait, show version, show install summary, install commit), cleanup | the device reloads in the middle of a call; a lost call reads as an empty output; retries; the rollback timer |
| IOS-XE upgrade, bundle mode (`cisco/iosxe_bundle.py`) | previous boot images; the device keeps a boot list and its images | install (one call per configuration command), verify, cleanup by deletion | a command list cut short, retries that read their own leftovers, deleting images |
| Staging (`handlers/stage.py`, `cisco/iosxe_common.py`) | what is on the flash, the reported hash | exists?, transfer over http/scp/tftp, size and MD5 check | interrupted and repeated transfers, uncertain checks |
| Preflight (`handlers/preflight.py`, `preflight()` of the drivers) | read-only report | show version, dir, boot | parsing |
| SDK (`contract.py`, `services.py`, `transports.py`, `registry.py`) | cancellation registry: connections per step run | resolve targets, register/unregister/close connections | registration racing cancellation |
| Transports (netmiko, scrapli, asyncssh) | one session per call, output read so far, prompts answered | execute_commands, execute_command_timing, scp/http transfer | prompts split over reads, config sets that fail in the middle, cancellation |
| container.run | a container, its streams, its network, the output buffers | create, start, stream, wait, time out, kill, collect, remove | concurrent tasks, cancellation at every await |
| flow.run | the child run | create, poll, cancel, fetch outputs | cancellation around the creation, retries |
| flow.notify, flow.git_sync | retries of one HTTP call | dispatch with back-off | retried posts |
| netcli (execute, collect_evidence, poll_until) | results per device, attempts | commands on devices in turn, polling until a pattern matches | failed commands and inverted matches |
| evidence (assert, compare) | none | pure comparison | set semantics |
| monitor (start, stop, connectivity) | target instances | resolve targets, register monitors | duplicate instances |
| probe (connectivity, http, dns, wait_reachable) and probe_net | per device: first time seen reachable | poll until every device is stable | flapping, time |
| shell.execute | per device results | commands, fail_fast | ordering of close and failure |
| general (noop, sleep) | none | sleep in slices | nothing worth a model |
| scripts, tests, packaging | none | build | outside the program |

How they interact: handlers call transports through `services.connect`, the
platform's API through `services`, and report through `emit_progress`; the
upgrade steps are tied together only by the device they work on and by the
flow's configuration (`preflight_version`, `target_version`).  The three
transports open a fresh session for every `execute_*` call and turn every
failure into a result with exit code -1; the `Transport` protocol of the SDK
does not forbid one that raises, and the drivers have branches for it.

What makes each part correct: an upgrade that is reported verified is one the
next reload keeps; a retried step never leaves a device that cannot boot; what
is reported (rebooting, activated, committed, staged, hash verified) is what
happened; a child run, a container or a connection is not left behind by a
cancellation; every wait ends.

## Plan

The order is that of importance: first the workflow that can leave a device
unable to boot, then the steps that hold resources outside the process, then
the sessions all of them stand on, then the checks and the platform's requests.
All of it is done:

1. `InstallUpgrade`, the install-mode upgrade of one device; `BundleUpgrade`,
   the bundle-mode upgrade; `StageImage`, staging over several devices.
2. `ContainerRun`, the container's life cycle over attempts, time-outs and
   cancellations, and `ContainerStream`, its output buffers.  `FlowRun`,
   flow.run under cancellation, failing requests and retries.
3. `CommandSession`, the handlers that run a list of commands, composed with
   the sessions of the three transports, the host's shell and the cancellation
   registry; `TimingDialogue`, the interactive commands of the transports.
4. `TryEach`, what a check of devices promises, and `DeviceChecks`, four
   handlers shown to keep it; `WaitReachable`, the wait on a clock.
5. `Comparisons`, the pure part of evidence.compare and evidence.assert, and
   `HostSteps`, the steps that are a conversation with the platform.
6. Proofs for every detailed module: each safety property a run checks is a
   theorem.

What could come next: the transports' own half of a staged copy (`scp_put` and
`http_transfer` of scrapli and asyncssh, of which `StageImage` has the
outcomes), and a composition of staging with the upgrade over several devices.

## How the modules are written

Every call that leaves the process (a device command, a docker request, a
service of the host) is one action, and what runs between two of them belongs
to the action of the call before.  A call is answered, fails, or is lost before
or after the other side acted on it; where the code cannot tell, neither can
the model.  The worker may die between any two calls, or in one.  The host's
retry is an action: it is the platform's, which is outside this repository, and
is modelled from `ctx.attempt`.

Modules whose handlers share their frame declare it in a common module:
`StepAttempt` has the attempts of a step and the place in its handler (`FlowRun`
and `HostSteps`), `DeviceLoop` the devices, the current one and the verdict
(`DeviceChecks` and `WaitReachable`).  Each detailed module has the same parts: the other side (device, daemon or
host), the ways a call fails, the handler's actions in the order of the code,
the properties.  Operators whose comment starts with "A slip" or "Slip" are
not part of the specification: each is a plausible mistake in the code, and
swapping it in breaks one of the properties.

### InstallUpgrade

State: the device's (`up`, `running`, `pkg`, `base`, `bootRun`, `bootStart`),
the step the host executes (`cfg`, `pc`, `attempt`, `polls`), what the driver
holds and returns (`cur`, `committed`, `inst`, `ver`, `clean`) and two
observers (`faults`, `fresh`).

| Action | Code |
| --- | --- |
| `Connect`, `ConnectRaises` | `services.connect` in `handlers/install.py`, and its except clauses |
| `ShowBoot`, `ConfigureBoot`, `WriteMemory`, `InstallAdd`, `InstallSameImage`, `InstallRefused`, `InstallLost` | `IOSXEInstallDriver.install` |
| `PromptsAnswered` (part of the install actions) | the answers it gives to the command's prompts |
| `Poll`, `PollTimeout` | the reconnect loop of `handlers/verify.py` |
| `ShowVersion`, `InstallSummary`, `InstallCommit`, `SummaryAgain`, `Decide` | `IOSXEInstallDriver.verify` and the verdict of the handler |
| `Cleanup` | `IOSXEInstallDriver.cleanup` |
| `WorkerLost`, `WorkerLostInstalling` | death or time-out of the step's worker |
| `GoDown`, `PowerLoss`, `Boot`, `AutoRollback` | the device (external) |

The state machine is that of one device; the handlers' loops over devices share
nothing between them but counters.  Versions are members of a set, and
`Within` is Python's substring test between them.  Output patterns become the
classes the code tells apart: no error pattern, an error pattern, "already
active", nothing at all.

`VerifiedSurvivesReload` is what verification is for: the device runs what it
will boot next, from a saved `packages.conf`, with no rollback pending.  It has
two preconditions.  `fresh`, no reload since `show version` was answered: the
code reads the version before the commit status, and a device that reloads in
between can be verified against what it no longer runs.  A target that the old
version does not contain: without one, `verify` is content with any change, the
empty version of a lost call included.

`SavedBootKept` says how the saved boot statement can be lost.  The
configuration set and the `write memory` behind it are two actions, since the
session can break off anywhere in and between them; a broken set can leave the
running configuration without a boot statement.  It is not saved there: the
transports stop at the first line that fails or that the device refuses with an
error text they know, and the model takes every refusal for one of these.  But
the install command that follows is told yes whatever it asks (`[yes/no]`,
`[y/n]`), and an activation may ask whether to save.  So the property is not
"the statement is always kept": it is lost only by an install that activates,
and while it is lost, the device does not run the new version.  That a device
without the statement boots the old version is the assumption the driver itself
makes when it insists on `packages.conf` (`NextBoot`).

### BundleUpgrade

State: `flash`, the two boot lists and `running` of the device, `inConfig` (is
the transport's session in configuration mode), and what the driver carries
from call to call (`prev`, `todo`, `boots`, `dels`, `removed`).  Images are
numbers in the order of their names, because cleanup sorts names.

| Action | Code |
| --- | --- |
| `ShowBoot`, `ConfigCommand`, `CheckBoot`, `WriteMemory`, `Reload` | `IOSXEBundleDriver.install`, one call each |
| `AwaitDevice`, `ShowVersion`, `VerifyBoot` | `verify`, the reconnect loop shortened to its outcome |
| `CleanBoot`, `CleanDir`, `Delete`, `Cleaned` | `cleanup` |

`Sessions` says whether a transport keeps its session over calls.  None of the
shipped ones does, and with them the configuration never takes effect (finding
`BundleSession`).  The `Transport` protocol allows one that does, and the
passing run has both, so that the rest of the driver is examined beyond its
first call.  `Reload` may save the running configuration: the answer to
`[yes/no]` stands before the one to `Save?`, and is yes.  `DeletionsSpareBoot` speaks of a cleanup that has read a boot
list: a lost `show boot` reads as an empty one, and nothing can be said of what
is deleted after it.

### StageImage

State: per device the file under the destination name (absent, cut short,
another file, one of the right size, the image) and who asked for the copy
being made into it; the step's `current` device, results and attempt.

| Action | Code |
| --- | --- |
| `Begin`, `Connect`, `Report` | the loop of `UpgradeStageHandler.execute` |
| `Dir`, `VerifyExisting`, `Transfer`, `DirAfter`, `VerifyNew` | `stage_image` |
| `Verify` | `verify_md5`: what is no mismatch counts as verified |
| `SelectTransferMethod` | `select_transfer_method` |
| `HttpTransfer` | the reading loop of netmiko's `SSHTransport.http_transfer` |
| `OrphanEnds` | a copy the device goes on with when its session is gone (external) |

`sure` is an observer: the last verification gave a verdict, rather than an
error or nothing.  `VerifiedIsImage` needs it because the code takes both for
success; it says that nothing else goes wrong: not the retry, not the other
devices' failures, not the first check before the transfer.  Once a copy has
outlived its session, a retry can start a second one into the same file and the
file can change after it was verified; `outlived` keeps such devices apart.
The devices of a step are distinct: the host resolves each once.

### ContainerRun and ContainerStream

`ContainerRun` is one step over its attempts: the daemon's containers by name
(the attempt is part of the name), requests on threads nobody waits for any more
(`creating`, `removing`), the worker's staging directories, and the handler's
`pc`.  Its actions are the calls of `RunContainerHandler.execute`, in the order
of the table.  `Cancel` is asyncio's: it strikes at any await, no `except
Exception` sees it, the finally block runs, and a second one ends that too.

`ContainerStream` opens up the one action `Stream`: the two reader tasks, the
flusher task, the coroutine with its nested deadlines, and the cancellation of
the step.  A step is what a task does between two awaits.  Lines are numbered,
and an output is where its lines end in units, so that order, loss, duplication
and truncation can be told apart without their text.  (The event buffers count a
byte they could not decode as the three of its replacement; here it counts once.)

| Action | Code |
| --- | --- |
| `PreflightList`, `PreflightRemove` | `_preflight_cleanup` |
| `StageAttachments`, `StageStepOutputs`, `StageArtifacts` | the staging directories |
| `Pull`, `Create`, `Copy`, `Start`, `Stream`, `Harvest`, `TimeoutRemove` | the body of `execute` |
| `Cleanup`, `Report` | its finally block and its result |
| `LateCreate`, `LateRemove` | a docker request whose caller has been cancelled |
| `ReadLine`, `ReaderFlushed`, `ReaderEnds` | `_reader` |
| `Tick`, `StdoutFlushed`, `StderrFlushed` | `_flusher` |
| `ReadersGathered`, `InnerDeadline`, `DrainCut`, `Drained`, `Waited`, `Reaped` | the body of `_stream_and_capture` |
| `OuterDeadline`, `Cancel` | the caller's `wait_for`, armed first, and the host |

The two are composed by what they promise each other: `Stream` returns, by a
deadline if by nothing else (`StreamEnds` of `ContainerStream`), and the
container's own state is the daemon's.  Not part of either: which files are
copied, which artifacts are collected and how they are named.

### FlowRun

State: the child run of each attempt, which lives in the host, and the handler's
`pc`.  `Begin`, `Create`, `Started`, `Poll`, `Sleep`, `Stop` and `Outputs` are
the awaits of `RunFlowHandler.execute`; `Cancel`, `WorkerLost` and `Retry` are
the host's.  `blind` is an observer: the attempts cancelled where the code has
no handler for it, around the creation, during `cancel_run` itself, and while
outputs are fetched.  `ChildEndsWithAttempt` and `NotRunAgain` say what holds
outside the two gaps the code has: a failed status request ends the attempt and
not the child, and a child that succeeded is run again when its outputs cannot
be fetched.

### CommandSession

State: what each device has carried out (`accepted`) and what was in force when
it last saved (`saved`), the handler's loop (`handler`, `dev`, `bad`), the
session of the current device (`step`, `conn`, `todo`, `results`), and the flag
of the cancellation registry.  The input is any list of commands, each known by
what the code tells apart: opening and closing the configuration mode, a line of
configuration, a save, a show command, a blank.

| Action | Code |
| --- | --- |
| `NextDevice`, `Return` | the loops of `ExecuteCLIActionHandler`, `CollectEvidenceHandler`, `ShellExecuteHandler` |
| `Connect` | opening a session, and registering it |
| `NetmikoConfig`, `ScrapliConfig` | `send_config_set` and `send_configs` with the results made of them |
| `NetmikoRun`, `ScrapliRun`, `AsyncsshRun`, `ShellRun` | the commands one by one, with every except clause |
| `Close` | closing the session, and the handler's judgement of the results |
| `Flag`, `Sweep` | `ConnectionCancellationRegistry`: the flag first, then the connections |
| `CancelTask`, `Drop` | the host's cancellation and the network (external) |

`Config`, `Post` and `Exec` are the split of the list (`_split_config_set`).
Netmiko's session runs in a thread that no cancellation reaches: after
`CancelTask` it goes on alone, which is what `SessionEnds` is about.
`SuccessIsComplete` names what it is not true of: behind a configuration block
netmiko looks for no error text.  `LateBlockUnsaved` is about scrapli and
asyncssh, since netmiko never asks whether the step has been cancelled.  They
ask before each command, but not before a configuration block, and no handler
asks before the next device: a cancelled step may go on to start the block of
this device or of a later one.  The property says what such a block can do:
nothing else runs on its device, the lines are not saved, and the device does
not pass for done when commands stood behind the block.

### TimingDialogue

State: the device's output as a row of items, each printed in two halves, which
of them ask and what patterns they contain; how far the transport has read
(`seen`), searched (`start`) and answered (`first`, `used`).  Every text is a
number of pieces, so chunks, prompts cut in two and output read late can be told
apart without a character of text.

| Action | Code |
| --- | --- |
| `Connect`, `Command`, `Close` | the frame of `execute_command_timing` |
| `Collect`, `Answers`, `Initial` | netmiko's `send_command_timing`, its first loop and the prompts of the initial output |
| `Check`, `ReadFails`, `NetmikoRead`, `ScrapliRead`, `AsyncsshRead` | the reading loops |
| `Flag`, `Sweep`, `CancelTask`, `Drop`, `Expire`, `PrintOutput`, `TakeLine` | host, network, clock and device |

`AnswersFit` has a precondition for netmiko, which answers the prompts of the
initial output a second time before it waits for a text: with one, an answer can
reach a prompt it was not meant for.  `ReadPromptAnswered` excepts what the code
does not find: a prompt cut by the end of a chunk, and one whose pattern has
been used up.

### TryEach and DeviceChecks

`TryEach` is an abstract specification: the targets in turn, each tried a
bounded number of times, a success only if all of them were found good, and a
verdict in the end.  `DeviceChecks` has the loops of `netcli.poll_until`,
`probe.connectivity`, `probe.http` and `probe.dns`, with a condition that comes
and goes on each device.  `PromiseKept` is the refinement: a device is bad when
it is in the handler's error list, good when the loop has left it behind, open
before that.

| Action | Code |
| --- | --- |
| `Begin`, `Judge` | head and end of the loop over devices |
| `Try`, `Sleep` | one attempt, and the pause before the next |
| `Raise`, `Break` | exceptions: of one device in poll_until, of the step in the others |

`SuccessIsSeen` excepts a poll whose test is true of an empty text: that is all
a failed command leaves behind, and the code does not look at its exit code.

### WaitReachable

Rounds of checks on a clock of seconds; `window` is `device_stable_start`, kept
by device id, and two devices may have the same.  `Round` has the deadline,
which is looked at nowhere else, `Check` one TCP connection with its duration,
`EndRound` the verdict and the pause.  `since` and `lastCheck` observe what the
properties speak of.

### HostSteps and Comparisons

A flow is a row of steps, each of one of seven handlers.  A request to the
platform is carried out or not, and answered or not; a step that failed is
repeated, or the flow goes on.  A request of `flow.git_sync` that timed out, or
whose step was abandoned, can be carried out later still, during the retries or
when the step is over (`lingering`, `overtaken`), and an answer may lack its
summary, which the code takes for success (`reported` is false then).  The platform's artifacts are a list that only
grows (`store`), so the artifacts a step has fetched are places in it: the first
of a name is the least place, the last the greatest.

| Action | Code |
| --- | --- |
| `FetchPre`, `FetchPostAndCompare` | `CompareEvidenceHandler` |
| `ResolveNames`, `AssertNext`, `JudgeAssertions` | `AssertHandler` |
| `StartMonitor`, `StopMonitor` | the three monitor handlers; `ResolveTargets` is `resolve_targets` |
| `Request` (`Answered`, `AnsweredWithout`, `GivenUp`), `SleepAndRepeat` | `GitSyncRepoHandler` |
| `Prepare`, `Dispatch`, `EmitEvent` | `SendNotificationHandler` |
| `Collect`, `CarryOutLate`, `MonitorEnds`, `Abandon`, `Repeat`, `GoOn` | the platform (external) |

`Comparisons` holds the pure part: the five modes of a comparison with ignored
fields and masked patterns, and the operators of an assertion.  Its reference is
in the properties: `MatchHolds` says what "nothing was lost" means (`Kept`)
without using the operators of the code, and `EvidenceBehindPass` what a success
must rest on.

## Runs

| Run | Properties | Shows |
| --- | --- | --- |
| `InstallUpgrade` | `VerifiedSurvivesReload`, `SavedBootKept`, `RollbackPointHeld`, `WorkflowEnds` | a verified device survives its next reload; only the save an activation offers can lose the saved boot statement, and the new version does not run then; only a requested commit gives up the rollback point; the workflow ends |
| `BundleUpgrade` | `VerifiedBoots`, `DeletionsSpareBoot` | a verified device boots the new image next; no deletion takes a bootable image of the list away |
| `BundleSession` | `ConfiguresBoot` (violated) | with a session per call the boot list is never configured (Findings) |
| `StageImage` | `VerifiedIsImage`, `ImageKept` | a verified file is the image, over retries and failures of other devices; a staged image is not copied over |
| `ContainerRun` | `OneRunning`, `LeftoverNeverRan`, `StagingRemoved`, `NotTakenAway` | at most one attempt works at a time; what may be left on the daemon and on the disk; no attempt's container is taken from under it |
| `ContainerStream` | `StreamTypeOK`, `LinesSentAsRead`, `CapturedAsRead`, `ReturnLeavesNothing`, `StreamEnds` | every line is in one place, stdout's are sent in order; what is captured is what was read; no task outlives a returned output; the stream ends |
| `FlowRun` | `ChildEndsWithAttempt`, `NotRunAgain`, `StepEnds` | no child is left at work; a success is not run again; the step ends |
| `CommandSession` | `SuccessIsComplete`, `SavedIsWhole`, `LateBlockUnsaved`, `SessionEnds` | a success means every command was carried out on every device; no device saves half a block; what starts after a cancellation is one block, which is not saved; the abandoned thread ends as well |
| `TimingDialogue` | `TypeOK`, `AnswersFit`, `ReadPromptAnswered`, `OneLateAnswer`, `DialogueEnds` | who is answered, with what, after a cancellation how often, and that the call ends with its connection closed |
| `DeviceChecks` | `SuccessIsSeen`, `PromiseKept` | a success has seen the condition on every device; the four handlers implement `TryEach` |
| `WaitReachable` | `StableIsSeen`, `NamedAreDown` | "stable" has seen every device answer over the whole window; a timeout names those that were down |
| `HostSteps` | `TypeOK`, `EvidenceBehindPass`, `MatchHolds`, `AddressesWatched`, `StopMeansGone`, `SyncIsClean`, `EventTellsResult` | what a success of each step rests on, and what its failure leaves behind |

The type invariants are proved for every value of the constants; only the runs of
`ContainerStream`, `TimingDialogue` and `HostSteps` check theirs as well, since
there an off-by-one in the code (a flush, an answer, a request too many) shows in
the range of a counter.

### Bounds

| Constant | Value | Why it is enough |
| --- | --- | --- |
| `MaxAttempts` | 2; 3 for `ContainerRun`, `FlowRun` and `DeviceChecks` | an attempt depends on the earlier ones only through the device, the daemon or the child runs; the third one sees leftovers of two |
| `MaxFaults` | 2 | a lost call and the loss of what would have repaired it |
| `MaxCancels` | 2 | the second is the one that strikes in the clean-up of the first |
| `MaxPolls` | 2 | an attempt that fails and one that succeeds or times out |
| versions | 3 | the old, the new and a target given by a prefix of the new |
| images | 3, `keep_versions` 0 and 1, three initial boot lists | the old, the new and a third to delete; both sides of the boundary; no list, the old one, and one left by an earlier workflow |
| devices | 2 for `StageImage`, `CommandSession` and `WaitReachable`; 3 for `DeviceChecks` | one that fails and one whose turn comes after; a third one between them |
| outputs of `ContainerStream` | 6 per stream; `Budget` 3, `Threshold` 2, `Huge` 9 | empty, buffer and budget filled exactly, gone over, straddled, and a line over the reader's limit |
| command lists | 4 | commands alone; a save within and between lines of a block; a submode's `exit` with lines behind it; a block with nothing in it |
| `NItems`, `NPatterns` | 2 | two prompts that may share a pattern or contain each other's; any division into chunks |
| `AnswerLimit` | 10 | the code's: above the number of patterns, so it never cuts a dialogue short, as in the code with fewer than ten |
| `QuietReads` | 3 | the transports' constant |
| `MaxWait`, `StableSeconds`, `PollInterval`, `ConnectTimeout` | 7, 3, 1, 1 | two windows fit before the deadline, a window spans several rounds, and a round takes time |
| `MaxArtifacts`, `MaxPatterns`, `MaxTries` | 2, 2, 4 | two artifacts of one name; patterns beyond the limit; every request of a sync |

The initial states range over every configuration the properties tell apart,
and the devices' initial boot statements, boot lists and files over the ones a
device may have before the step.  No state constraint is used.

### Fairness

The handlers run on the host's event loop, which always gets to the next step,
and each of their calls returns, fails or times out: weak fairness of the
handler's own actions (`Host`, `Handler`, `Main`, `Transport`, `Step`).
`ContainerStream` adds that the host's `emit_progress` returns to the flusher,
whose timer fires (`Flusher`), `TimingDialogue` that `read_timeout` passes
(`Expire`), and `FlowRun` that a child run ends (`ChildEnds`): its polling loop
has no deadline and waits for that.  `ContainerStream` also takes it that a
docker client which was killed exits (`ClientExits` once `main` is "killed"):
the wait for it has no deadline either.  Nothing is assumed of devices coming
back or answering, containers exiting by themselves, or the host making another
attempt.
`StageImage`, `ContainerRun`, `WaitReachable` and `HostSteps` are about safety
and state no fairness.

## What is proved

Every safety property that a passing run checks is a theorem. Each theorem holds
for every value of the constants that the module's assumptions allow: any number
of devices, versions, images, attempts, polls, faults and cancellations. The
bounds of the runs are not what makes the properties hold. The assumptions say
that bounds are natural numbers (positive where the code has at least one), that
the old and the new version or image differ, that the substring relation is
reflexive, that a stage step's devices are distinct, that a session's step has at least one device, and that a command list is
a non-empty sequence of the known kinds that speaks of the configuration mode
only if it begins with it. `HostSteps` takes any non-empty flow of steps of the
seven handlers over any artifacts that are texts, objects, lists or nothing, and
assumes of the devices (`DevicesAssumption`) that those of one role have ids of
their own and that no id is one of the addresses that are asked for: the ids are
the platform's keys. Without it `AddressesWatched` is false, as under Findings.

Each proof module defines the inductive invariant as a conjunction of named
parts, proves that it holds initially and that each action keeps each part, and
combines the two with PTL.  Hardly any of the main properties
is inductive alone.

| Module | Proved | What the invariant adds to the properties |
| --- | --- | --- |
| `InstallUpgradeProofs` | types, `VerifiedSurvivesReload`, `SavedBootKept`, `RollbackPointHeld` | `DeviceInv`: a device that runs the new version was booted into it by a saved `packages.conf` and still would be; `ReadInv`: a version or commit read since the last reload still stands; `VerdictInv`: what a success was reported on; `CommitInv`: a commit on its way was asked for |
| `BundleUpgradeProofs` | types, `VerifiedBoots`, `DeletionsSpareBoot` | `Complete`: nothing is deleted before cleanup; `Kept`: once the saved list begins with the new image, so do the running one and the driver's fallback, so no repeated or cut-short configuration can undo it; `BootedGood`: the new image was booted from such a list; `Known`, `Spared`: what cleanup has read |
| `StageImageProofs` | types, `VerifiedIsImage`, `StagedHasSize`, `EveryDeviceTried`, `ImageKept` | `Turn`: results come device by device; `Orphans`: a copy without a session comes from a fault and is remembered; `Known`: what the checks so far say of the file |
| `ContainerProofs` | types, `LinesSentAsRead`, `CapturedAsRead`, `ReturnLeavesNothing` of `ContainerStream` | `Counted`, `Covered`, `InOrder`: emitted, held and buffered lines add up to what was read; `Flushing`: the flusher holds lines only while it sends stdout's, and begins its last flush when no reader can add any; `Waiting`: what the coroutine has waited for; `Capturing`: a line is captured when its flush has come back |
| | types, `OneRunning`, `LeftoverNeverRan`, `StagingRemoved`, `NotTakenAway` | `Fresh`, `Early`: names, requests and directories of attempts to come; `Leftovers`: without a fault, whatever ran is about to be removed; `Alone`: the preflight cleanup has found whatever has run; `DirsRemoved`, `Decided` |
| `HostProofs` | types, `ChildEndsWithAttempt`, `NotRunAgain`, `SuccessIsOwnChild` of `FlowRun` | `Unborn`: no child before its creation; `Fetched`: outputs are those of a success; `NoneSucceeded`: what an attempt that is over without success has left |
| | types, `EvidenceBehindPass`, `MatchHolds`, `AddressesWatched`, `StopMeansGone`, `SyncIsClean`, `EventTellsResult` of `HostSteps` | `PreRead`: what was fetched belongs to the step it was asked of; `Asserted`: an assertion that still holds has an artifact behind every name so far; `Slept`: a sync sleeps only before a request it may make; `GaveUp`: a request that lingers, or has overtaken the answer, was given up by this step, an earlier attempt or an earlier step; `Told`: nothing is told before the end, and a success only of what was sent |
| `CommandSessionProofs` | types, `SuccessIsComplete`, `SavedIsWhole`, `LateBlockUnsaved` | `Behind`: a device without an error has everything; `Ahead`: without a failure, what is not carried out is still to come; `Block`: what follows the block runs once all of it is in force; `Proper`: session and handler agree; `Lateness`: a device whose turn is to come is untouched, and a block started late ends in a failure if something stands behind it |
| `ChecksProofs` | types, `SuccessIsSeen`, `NotGivenUpEarly`, the safety half of `PromiseKept`, of `DeviceChecks` | `InTurn`, `Judged`, `GoodSeen`, `BadExcused`; the refinement maps each action to `Try`, `GiveUp`, `Report`, `Break` or a stutter |
| | types, `StableIsSeen`, `NamedAreDown`, `Overrun` of `WaitReachable` | `Late`: how far the clock can be past the deadline at each place; `OwnWindow`: the window of an id no other device has is that of its device; `RoundSeen`: `all_stable` speaks of the devices checked so far |
| `TimingDialogueProofs` | types, `AnswersFit`, `ReadPromptAnswered`, `OneLateAnswer` | `Asking`: the device goes on behind a prompt only with its line; `Loops`: which loop a transport is in, and that the search stands at the end of what was read; `Answered`: a line on its way belongs to the prompt that waits, and the prompts that have theirs lie behind the search; `Searched`: a prompt behind the search was cut, is used up or has a line coming; `LateOnce`: where the one late answer leaves the loop |

`StagedHasSize`, `EveryDeviceTried`, `SuccessIsOwnChild`, `NotGivenUpEarly` and
`Overrun` are stated by theorems and by no run.

The argument for the contents in `HostSteps` is a lemma about the operators of
`Comparisons` (`PassKeeps`): whatever two contents are compared, in every mode but
"changed" a comparison that passes keeps what the properties call `Kept`, with one
lemma for objects, one for texts and one for the rest.  That the picked artifact
is one of its name rests on `MinIn` and `MaxIn`, which hold because the natural
numbers are well-founded; that no address is lost rests on `OneAddress`: two
targets of one instance have the same address.

Only model-checked is what the prover cannot reach, liveness under fairness:
`WorkflowEnds`, `StreamEnds`, `StepEnds`, `SessionEnds`, `DialogueEnds`, and that
a check comes to a verdict (the other half of `PromiseKept`).

## Findings

`BundleSession` is a run that finds a line of the repository not to hold of the
program: `install()` of the bundle driver sends its configuration in one
`execute_commands` call per command, and the shipped transports open a session
for each call, so the commands reach the device in exec mode.  The docstring
says "Configure boot system and trigger reload." (`iosxe_bundle.py:231`).

Seen while modelling, in the models as the code has it, without a run of its
own (paths under `src/plugins/` and `src/transports/`, `upgrade` for
`steps_cisco_iosxe/src/hegemony_steps_cisco_iosxe/upgrade`):

- `upgrade/cisco/iosxe_install.py:309`: `install()` reads neither `exit_code`
  nor `error`, so a device that cannot be reached is reported as activated
  (`upgrade/handlers/install.py:94`); `:343`: "% Invalid input" ends the wait but
  is no error pattern, so the step succeeds; `:337`: an image already active is
  reported as committed; `:264`: the results of the boot configuration are not
  read; `:417`: an empty version counts as a changed one; `:418`: versions are
  compared by substring, so 17.9.10 is "unchanged" after 17.9.1; `:442`: any
  version's committed line counts; `:283`: any [yes/no] of the install command is
  told yes, an offer to save a configuration whose boot statement was cut away
  included.
- `upgrade/handlers/verify.py:201`: the loop takes a device that has not gone
  down yet for one that has come back (`:107` says it waits for the reload);
  `upgrade/handlers/install.py:278`: an exception whose text contains "ssh" is
  taken for the reboot.
- `upgrade/cisco/iosxe_bundle.py:260`: a retry takes the new image for the
  fallback; `:316`: the reload's question whether to save may be told yes, against the no
  of `:317`; `:317`: a lost `reload` is reported as triggered; `:398`: `verify`
  asks for the boot list and does not look at it; `:447`: a lost `show boot`
  reads as an empty boot list, though `:436` says boot images are kept; `:493`: a
  deletion that was not answered is reported as done.
- `upgrade/cisco/iosxe_common.py:168`: an error of `verify /md5`, or none at
  all, counts as verified; `:271`: `tftp` has no branch of its own, nothing is
  transferred, and the checks pass; `:295`: an unreadable size skips the size
  check.
- `container.run`: on a cancellation, or when the outer of two deadlines with
  the same duration strikes first, the flusher task is never cancelled and never
  ends (`run.py:1643`, against `:1595`); stderr's progress events may come out of
  order (`:1606`); output that fills the budget exactly loses what follows
  without being marked (`:1577`); a line over 64 KiB ends the reader and the
  client blocks until the deadline (`:1540`); from Python 3.12 on a cancellation
  in the final flush is swallowed (`:1645`); the comments give 4 KB and 500 ms
  where the code has 1024 bytes (`:1549`) and 0.15 s (`:1595`); a cancellation in
  the finally block leaves the staging directories (`:1826`); an abandoned
  `docker create` leaves a created container.
- `flow.run`: a cancellation around the creation of the child, or one failed
  status request, leaves the child running (`run.py:246`, `:268`, `:313`).
- `transport_netmiko`, `transport.py:936`: the prompts of the initial output are
  answered a second time when a text is waited for, also after a cancellation
  was noticed, though comments (`:874`, `:927`) say repetition is avoided;
  `:272`, `:366`: a submode's `exit` is taken for the end of the block, and the
  lines behind it run in exec mode, without a look for error texts and with exit
  code 0; `execute_commands` never asks whether the step was cancelled.
- cancellation: no handler asks for it before the next device, nor scrapli and
  asyncssh before a configuration block (`transport_scrapli`, `transport.py:319`).
- `netcli`: `poll_until.py:153` takes a failed command for a match when the
  pattern is inverted.  `collect_evidence` names artifacts by a command's first
  line, cut to 80 characters, where `assert_check.py:155` looks for the whole
  command, so the evidence of longer scripts is never found.
- `evidence.compare`: a missing key equals one whose value is null
  (`compare.py:406`, against the label at `:72`); of several artifacts of a name
  the last one counts (`:260`), the first one with `artifact_name` and in
  `evidence.assert`; texts over a million characters are not masked, though the
  other side is.  `evidence.assert` on an empty output looks at metadata that
  repeats the command's words (`assert_check.py:264`, against `:193`).
- `probe.wait_reachable`: a timeout may name no device, when all are up and not
  yet stable.
- `flow.git_sync`: `flow_ids`, which limits the scope of a sync
  (`git_sync.py:38`), is never sent (`:79`); the `else` of the loop (`:145`) is
  never reached; `:157`: an answer without a summary counts as a success; `:126`: a
  request that timed out is posted again, and the host may carry the first one
  out after the answer to the second, so the result need not be that of the
  host's last run.
- monitors: devices without an id share the instance id "unknown"
  (`handlers.py:219`); the instance ids of `monitor.start` lack the monitor's.

## What is not modelled, and why

`PROJECT.json` lists every component with its status.  Left out as a whole:

- preflight (reads the device and changes nothing; its results enter the upgrade
  models as configuration), the driver protocol and registry (data classes and a
  dictionary), the file repository client (one request, whose failure is in
  `StageImage`);
- the probes themselves (one blocking call with a result record each),
  `general.noop` and `general.sleep`, the SDK's protocols and data classes, the
  release scripts.

Left out of modelled components: of `container.run`, the validation of the
configuration, the docker arguments, names and contents of staged files, the
upload of artifacts; of `flow.run`, the validation and the mapping of
parameters; of the transports, their own half of `scp_put` and `http_transfer`,
except for the reading loop of netmiko's; of the upgrade handlers, the loop over
devices, which shares nothing between them but counters.  Everywhere: evidence
records, metrics, progress texts and log lines.

Parsing is modelled by the classes of output it tells apart, never by the text.
What lies outside the repository is modelled as the code uses it and marked
external in `PROJECT.json`: the devices, the Docker daemon, the platform with
its retries and cancellations, the network and the clock.
