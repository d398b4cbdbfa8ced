---------------------------- MODULE BundleUpgrade ----------------------------
(***************************************************************************)
(* One device taken through a bundle-mode IOS-XE upgrade: the install,     *)
(* verify and cleanup handlers of steps_cisco_iosxe with the driver        *)
(* IOSXEBundleDriver beneath them.  The boot list is configured with one   *)
(* transport call per command, saved, and followed by a reload; cleanup    *)
(* deletes the images the boot list does not name.                         *)
(*                                                                         *)
(* Images are numbers in the order of their file names; no name contains   *)
(* another, and an image has the version it is named after.  The three     *)
(* shipped transports open a session per call and return an empty output   *)
(* when a call is lost; the Transport protocol also allows one that keeps  *)
(* its session and one that raises.                                        *)
(***************************************************************************)
EXTENDS Naturals, FiniteSets, Sequences

CONSTANTS
  Image,        \* image files, in the order of their names
  Old, New,     \* the image running before, and the one to install
  BootLists,    \* boot lists a device may start with
  Sessions,     \* subset of BOOLEAN: does the transport keep its session over calls?
  Raises,       \* subset of BOOLEAN: may the transport raise on a lost call?
  Keeps,        \* values of keep_versions
  MaxAttempts,  \* executions of one step, the first included
  MaxFaults     \* lost calls, power losses and lost workers in one behaviour

NoImage == 0

ASSUME ConstantsAssumption ==
  /\ Image \subseteq Nat \ {NoImage}
  /\ IsFiniteSet(Image)
  /\ {Old, New} \subseteq Image
  /\ Old # New
  /\ BootLists \subseteq Seq(Image)
  /\ Sessions \subseteq BOOLEAN
  /\ Raises \subseteq BOOLEAN
  /\ Keeps \subseteq Nat
  /\ MaxAttempts \in Nat \ {0}
  /\ MaxFaults \in Nat

VARIABLES
  \* the device
  up,         \* "up", "reloading" (reload requested, still answering) or "down"
  running,    \* image it runs
  flash,      \* images on its flash
  bootRun,    \* boot list of the running configuration
  bootStart,  \* boot list of the startup configuration
  \* the host and the step it executes
  cfg,        \* the steps' configuration and the transport's behaviour
  pc,         \* next call
  inConfig,   \* the transport's session is in configuration mode
  attempt,    \* HandlerContext.attempt of the current step
  \* what the driver holds and returns
  prev,       \* previous_boot_images
  todo,       \* configuration commands still to send
  reboot,     \* reboot_triggered of the install step
  cur,        \* current_version
  success,    \* success of the last verification
  boots,      \* current_boot_images, in cleanup
  dels,       \* files_to_delete
  removed,    \* removed_packages
  \* observers
  faults,     \* lost calls, power losses and lost workers so far
  fresh       \* no reload since "show version" was last answered

device == <<up, running, flash, bootRun, bootStart>>
driver == <<prev, todo, reboot, cur, success, boots, dels, removed>>
vars == <<device, cfg, pc, attempt, inConfig, driver, faults, fresh>>

Listed(list) == {list[i] : i \in DOMAIN list}

Config ==
  [activate : BOOLEAN, target : {NoImage, New}, preflight : {NoImage, Old},
   keep : Keeps, session : Sessions, raises : Raises]

InstallCalls == {"connect", "showBoot", "config", "check", "save", "reload"}
VerifyCalls == {"poll", "showVersion", "verifyBoot"}
CleanupCalls == {"cleanBoot", "cleanDir", "delete"}
Calls == InstallCalls \cup VerifyCalls \cup CleanupCalls
Ended == {"done", "failed"}

-----------------------------------------------------------------------------
(* The device, as the driver's commands and comments use it. *)

Answering == up # "down"

\* It boots the first image of its list that is still there, and looks for
\* any image on the flash when there is none.
Bootable(list) == {i \in DOMAIN list : list[i] \in flash}
NextBoot ==
  IF Bootable(bootStart) = {}
  THEN flash
  ELSE {bootStart[i] : i \in {j \in Bootable(bootStart) : \A k \in Bootable(bootStart) : j <= k}}

Fails == up' = "down" /\ inConfig' = FALSE /\ fresh' = FALSE

GoDown ==
  /\ up = "reloading"
  /\ Fails
  /\ UNCHANGED <<running, flash, bootRun, bootStart, cfg, pc, attempt, driver, faults>>

PowerLoss ==
  /\ Answering
  /\ faults < MaxFaults
  /\ faults' = faults + 1
  /\ Fails
  /\ UNCHANGED <<running, flash, bootRun, bootStart, cfg, pc, attempt, driver>>

\* With no image left the device stays in its boot loader.
Boot ==
  /\ up = "down"
  /\ up' = "up"
  /\ running' \in NextBoot
  /\ bootRun' = bootStart
  /\ UNCHANGED <<flash, bootStart, cfg, pc, attempt, inConfig, driver, faults, fresh>>

-----------------------------------------------------------------------------
(* Transport calls and the host's retries. *)

Answered == Answering /\ faults' = faults

NoAnswer ==
  \/ /\ ~Answering
     /\ faults' = faults
  \/ /\ Answering
     /\ faults < MaxFaults
     /\ faults' = faults + 1

StartStep(first) == pc' = first /\ attempt' = 1

FailStep(first) ==
  IF attempt < MaxAttempts
  THEN pc' = first /\ attempt' = attempt + 1
  ELSE pc' = "failed" /\ attempt' = attempt

FirstCall ==
  IF pc \in InstallCalls THEN "connect" ELSE IF pc \in VerifyCalls THEN "poll" ELSE "cleanBoot"

\* The worker dies, or the step's timeout strikes, between two calls.
WorkerLost ==
  /\ pc \notin Ended
  /\ faults < MaxFaults
  /\ faults' = faults + 1
  /\ inConfig' = FALSE
  /\ FailStep(FirstCall)
  /\ UNCHANGED <<device, cfg, driver, fresh>>

-----------------------------------------------------------------------------
(* Install: UpgradeInstallHandler.execute and IOSXEBundleDriver.install. *)

EndInstall(ok, rebooting) ==
  /\ reboot' = rebooting
  /\ inConfig' = FALSE
  /\ IF ok THEN StartStep("poll") ELSE FailStep("connect")
  /\ UNCHANGED <<prev, todo, cur, success, boots, dels, removed>>

\* The except clauses: the text of the exception decides.
InstallRaises == EndInstall(TRUE, TRUE) \/ EndInstall(FALSE, FALSE)

\* services.connect raises, or builds a transport with no session yet.
Connect ==
  /\ pc = "connect"
  /\ \/ /\ pc' = "showBoot"
        /\ faults' = faults
        /\ UNCHANGED <<attempt, inConfig, driver>>
     \/ /\ faults < MaxFaults
        /\ faults' = faults + 1
        /\ InstallRaises
  /\ UNCHANGED <<device, cfg, fresh>>

\* The commands of the configuration; the first previous image is the fallback.
Commands(images) ==
  IF images = <<>>
  THEN <<"terminal", "clear", "image", "end">>
  ELSE <<"terminal", "clear", "image", "fallback", "end">>

Configure(images) ==
  /\ prev' = images
  /\ todo' = Commands(images)
  /\ pc' = "config"
  /\ UNCHANGED <<attempt, inConfig, reboot, cur, success, boots, dels, removed>>

\* A lost "show boot" reads as a device without boot images.
ShowBoot ==
  /\ pc = "showBoot"
  /\ \/ Answered /\ Configure(bootRun)
     \/ NoAnswer /\ IF cfg.raises THEN InstallRaises ELSE Configure(<<>>)
  /\ UNCHANGED <<device, cfg, fresh>>

Added(list, image) == IF image \in Listed(list) THEN list ELSE Append(list, image)

\* What the device does with one command.  A session of its own that ends with
\* the command never configures anything.
Configured(command) ==
  /\ inConfig' = (cfg.session /\ (command = "terminal" \/ (inConfig /\ command # "end")))
  /\ bootRun' =
       IF ~inConfig THEN bootRun
       ELSE IF command = "clear" THEN <<>>
       ELSE IF command = "image" THEN Added(bootRun, New)
       ELSE IF command = "fallback" THEN Added(bootRun, prev[1])
       ELSE bootRun

\* No result is looked at: only an exception stops the sequence.
ConfigCommand ==
  /\ pc = "config"
  /\ todo # <<>>
  /\ \/ /\ Answered
        /\ Configured(Head(todo))
        /\ todo' = Tail(todo)
        /\ UNCHANGED <<attempt, pc, prev, reboot, cur, success, boots, dels, removed>>
     \/ /\ NoAnswer
        /\ ~cfg.raises
        /\ \/ Answering /\ Configured(Head(todo))
           \/ inConfig' \in {inConfig, FALSE} /\ UNCHANGED bootRun
        /\ todo' = Tail(todo)
        /\ UNCHANGED <<attempt, pc, prev, reboot, cur, success, boots, dels, removed>>
     \/ /\ NoAnswer
        /\ cfg.raises
        /\ UNCHANGED bootRun
        /\ InstallRaises
  /\ UNCHANGED <<up, running, flash, bootStart, cfg, fresh>>

GoOn(next) ==
  /\ pc' = next
  /\ UNCHANGED <<attempt, inConfig, driver>>

\* "show boot" again: the image's name must occur in the output, anywhere.
CheckBoot ==
  /\ pc = "config"
  /\ todo = <<>>
  /\ \/ /\ Answered
        /\ IF New \in Listed(bootRun) /\ ~inConfig
           THEN GoOn("save")
           ELSE EndInstall(FALSE, FALSE)
     \/ /\ NoAnswer
        /\ IF cfg.raises THEN InstallRaises ELSE EndInstall(FALSE, FALSE)
  /\ UNCHANGED <<device, cfg, fresh>>

Saved == IF cfg.activate THEN GoOn("reload") ELSE EndInstall(TRUE, FALSE)

\* "write memory", whose result is not looked at.
WriteMemory ==
  /\ pc = "save"
  /\ \/ Answered /\ bootStart' = bootRun /\ Saved
     \/ /\ NoAnswer
        /\ bootStart' \in {bootStart} \cup (IF Answering THEN {bootRun} ELSE {})
        /\ IF cfg.raises THEN InstallRaises ELSE Saved
  /\ UNCHANGED <<up, running, flash, bootRun, cfg, fresh>>

\* "reload", answered or not, is reported as the reboot.  An offer to save what
\* "write memory" did not is told yes where it ends in "[yes/no]".
Reload ==
  /\ pc = "reload"
  /\ \/ Answered /\ up' = "reloading" /\ EndInstall(TRUE, TRUE)
     \/ /\ NoAnswer
        /\ up' \in {up} \cup (IF Answering THEN {"reloading"} ELSE {})
        /\ IF cfg.raises THEN InstallRaises ELSE EndInstall(TRUE, TRUE)
  /\ bootStart' \in {bootStart} \cup (IF Answering THEN {bootRun} ELSE {})
  /\ UNCHANGED <<running, flash, bootRun, cfg, fresh>>

-----------------------------------------------------------------------------
(* Verify: UpgradeVerifyHandler.execute and IOSXEBundleDriver.verify. *)

EndVerify(ok) ==
  /\ success' = ok
  /\ IF ok THEN StartStep("cleanBoot") ELSE FailStep("poll")
  /\ UNCHANGED <<inConfig, prev, todo, reboot, boots, dels, removed>>

\* The reconnect loop; InstallUpgrade has it in full.
AwaitDevice ==
  /\ pc = "poll"
  /\ \/ Answered /\ GoOn("showVersion")
     \/ NoAnswer /\ EndVerify(FALSE) /\ UNCHANGED cur
  /\ UNCHANGED <<device, cfg, fresh>>

ShowVersion ==
  /\ pc = "showVersion"
  /\ \/ /\ Answered
        /\ cur' = running
        /\ fresh' = TRUE
        /\ IF running = cfg.preflight
           THEN EndVerify(FALSE)
           ELSE /\ pc' = "verifyBoot"
                /\ UNCHANGED <<attempt, inConfig, prev, todo, reboot, success, boots, dels, removed>>
     \/ /\ NoAnswer
        /\ cur' = NoImage
        /\ fresh' = FALSE
        /\ IF cfg.raises
           THEN EndVerify(FALSE)
           ELSE /\ pc' = "verifyBoot"
                /\ UNCHANGED <<attempt, inConfig, prev, todo, reboot, success, boots, dels, removed>>
  /\ UNCHANGED <<device, cfg>>

\* A slip: any version satisfies a target.
MatchesAny == TRUE

Matches == cfg.target # NoImage => cur = cfg.target

\* "show boot" is asked for and not looked at.
VerifyBoot ==
  /\ pc = "verifyBoot"
  /\ \/ Answered /\ EndVerify(Matches)
     \/ NoAnswer /\ EndVerify(~cfg.raises /\ Matches)
  /\ UNCHANGED <<device, cfg, cur, fresh>>

-----------------------------------------------------------------------------
(* Cleanup: UpgradeCleanupHandler.execute and IOSXEBundleDriver.cleanup. *)

\* A slip: the boot list the install step read is used again.
CleanBootStale ==
  /\ pc = "cleanBoot"
  /\ removed' = {}
  /\ Answered /\ boots' = prev /\ pc' = "cleanDir" /\ attempt' = attempt
  /\ UNCHANGED <<device, cfg, inConfig, prev, todo, reboot, cur, success, dels, fresh>>

CleanBoot ==
  /\ pc = "cleanBoot"
  /\ removed' = {}
  /\ \/ Answered /\ boots' = bootRun /\ pc' = "cleanDir" /\ attempt' = attempt
     \/ /\ NoAnswer
        /\ boots' = <<>>
        /\ IF cfg.raises
           THEN FailStep("cleanBoot")
           ELSE pc' = "cleanDir" /\ attempt' = attempt
  /\ UNCHANGED <<device, cfg, inConfig, prev, todo, reboot, cur, success, dels, fresh>>

\* The images of a set with at least n others after them.
Oldest(images, n) == {i \in images : Cardinality({j \in images : j > i}) >= n}

\* Only a list longer than keep_versions is shortened.
FilesToDelete(images) ==
  IF Cardinality(images) > cfg.keep THEN Oldest(images, cfg.keep) ELSE images

CleanDir ==
  /\ pc = "cleanDir"
  /\ \/ /\ Answered
        /\ dels' = FilesToDelete(flash \ Listed(boots))
        /\ pc' = "delete" /\ attempt' = attempt
     \/ /\ NoAnswer
        /\ dels' = {}
        /\ IF cfg.raises
           THEN FailStep("cleanBoot")
           ELSE pc' = "delete" /\ attempt' = attempt
  /\ UNCHANGED <<device, cfg, inConfig, prev, todo, reboot, cur, success, boots, removed, fresh>>

\* One deletion; only an exception keeps the file out of the report.
Delete ==
  /\ pc = "delete"
  /\ \E file \in dels :
       /\ dels' = dels \ {file}
       /\ \/ /\ Answered
             /\ flash' = flash \ {file}
             /\ removed' = removed \cup {file}
          \/ /\ NoAnswer
             /\ flash' \in {flash} \cup (IF Answering THEN {flash \ {file}} ELSE {})
             /\ removed' = IF cfg.raises THEN removed ELSE removed \cup {file}
  /\ UNCHANGED <<up, running, bootRun, bootStart, cfg, pc, attempt, inConfig, prev, todo, reboot,
                 cur, success, boots, fresh>>

Cleaned ==
  /\ pc = "delete"
  /\ dels = {}
  /\ pc' = "done"
  /\ UNCHANGED <<device, cfg, attempt, inConfig, driver, faults, fresh>>

-----------------------------------------------------------------------------

Init ==
  /\ up = "up"
  /\ running = Old
  /\ flash = Image
  /\ bootStart \in BootLists
  /\ bootRun = bootStart
  /\ inConfig = FALSE
  /\ cfg \in Config
  /\ pc = "connect"
  /\ attempt = 1
  /\ prev = <<>>
  /\ todo = <<>>
  /\ reboot = FALSE
  /\ cur = NoImage
  /\ success = FALSE
  /\ boots = <<>>
  /\ dels = {}
  /\ removed = {}
  /\ faults = 0
  /\ fresh = FALSE

Device == GoDown \/ PowerLoss \/ Boot

Install ==
  Connect \/ ShowBoot \/ ConfigCommand \/ CheckBoot \/ WriteMemory \/ Reload

Verify == AwaitDevice \/ ShowVersion \/ VerifyBoot

Cleanup == CleanBoot \/ CleanDir \/ Delete \/ Cleaned

Host == Install \/ Verify \/ Cleanup

\* The workflow is over; the device keeps running.
Over == pc \in Ended /\ UNCHANGED vars

Next == Device \/ Host \/ WorkerLost \/ Over

Spec == Init /\ [][Next]_vars /\ WF_vars(Host)

-----------------------------------------------------------------------------
(* Properties. *)

TypeOK ==
  /\ up \in {"up", "reloading", "down"}
  /\ running \in Image /\ flash \subseteq Image
  /\ bootRun \in Seq(Image) /\ bootStart \in Seq(Image)
  /\ cfg \in Config
  /\ pc \in Calls \cup Ended
  /\ inConfig \in BOOLEAN
  /\ attempt \in 1 .. MaxAttempts
  /\ prev \in Seq(Image)
  /\ todo \in Seq({"terminal", "clear", "image", "fallback", "end"})
  /\ "fallback" \in Listed(todo) => prev # <<>>
  /\ reboot \in BOOLEAN
  /\ cur \in Image \cup {NoImage}
  /\ success \in BOOLEAN
  /\ boots \in Seq(Image)
  /\ dels \subseteq Image
  /\ removed \subseteq Image
  /\ faults \in 0 .. MaxFaults
  /\ fresh \in BOOLEAN

\* A verification against the new image, on a device that has not reloaded
\* since its version was read, is a promise about the next reload: the first
\* bootable image of the saved list is the new one, whatever was lost or
\* repeated on the way (IOSXEBundleDriver.install and verify).
VerifiedBoots ==
  pc = "cleanBoot" /\ attempt = 1 /\ success /\ fresh /\ cfg.target = New /\ bootStart # <<>> =>
    NextBoot = {New}

\* No deletion leaves the device without an image to boot, though it reloads
\* between the calls (IOSXEBundleDriver.cleanup): once verified against it, the
\* new image is not deleted by a cleanup that has read a boot list, and no image
\* of the saved list is while that is the list cleanup has read.
DeletionsSpareBoot ==
  [][/\ cfg.target = New /\ boots # <<>> => New \notin flash \ flash'
     /\ boots = bootStart => (flash \ flash') \cap Listed(bootStart) = {}]_vars

-----------------------------------------------------------------------------
(* What comments and documentation say of the code, and the code does not do. *)

\* iosxe_bundle.py:231, "Configure boot system and trigger reload": with no
\* fault the boot list names the image when the configuration has been sent.
ConfiguresBoot == [][CheckBoot /\ faults = 0 => New \in Listed(bootRun)]_vars

=============================================================================
