----------------------------- MODULE StageImage -----------------------------
(***************************************************************************)
(* The stage step of the upgrade: UpgradeStageHandler.execute over its     *)
(* target devices in turn, stage_image for each of them, and the copy the  *)
(* device makes for SSHTransport.http_transfer.  The copy belongs to       *)
(* the device: it may go on when the worker that asked for it is gone, and *)
(* a retry may find it at work.                                            *)
(*                                                                         *)
(* A file is told apart by what the step can tell: its size and whether    *)
(* its MD5 is the expected one.                                            *)
(***************************************************************************)
EXTENDS Naturals, Sequences

CONSTANTS
  Devices,      \* the target devices, in the order of the step
  Preferred,    \* values of transfer_method
  Files,        \* files a device may have under the name at first
  MaxAttempts,  \* executions of the step, the first included
  MaxFaults     \* lost answers, lost or outlasted sessions and lost workers

Device == {Devices[i] : i \in DOMAIN Devices}

\* Nothing; cut short; another file; one of the right size only; the image.
FileStates == {"absent", "partial", "other", "twin", "image"}

\* The host resolves a device once.
ASSUME ConstantsAssumption ==
  /\ Devices \in Seq(Device) /\ Devices # <<>>
  /\ \A i, j \in DOMAIN Devices : Devices[i] = Devices[j] => i = j
  /\ Preferred \subseteq {"auto", "http", "https", "scp", "tftp"}
  /\ Files \subseteq FileStates
  /\ MaxAttempts \in Nat \ {0}
  /\ MaxFaults \in Nat

VARIABLES
  \* the devices
  file,      \* the file under the destination name
  copying,   \* who asked for the copies being made
  \* the host and the step
  cfg,       \* the step's configuration
  pc,        \* next call
  current,   \* index of the device being staged
  attempt,   \* HandlerContext.attempt
  result,    \* StageResult of each device in this attempt
  \* observers
  sure,      \* devices whose last verification answered with a verdict
  outlived,  \* devices with a copy that outlived its session
  faults     \* lost answers, lost or outlasted sessions and lost workers so far

vars == <<file, copying, cfg, pc, current, attempt, result, sure, outlived, faults>>

Config ==
  [method : Preferred, httpUrl : BOOLEAN, md5 : BOOLEAN, size : BOOLEAN, overwrite : BOOLEAN]

Steps == {"begin", "connect", "dir", "verify", "transfer", "copying", "dirAfter", "verifyNew",
          "report"}
Staged == {"verified", "unverified"}
Copying == {"idle", "mine", "orphan", "both"}

d == Devices[current]

RightSize(f) == f \in {"twin", "image"}

-----------------------------------------------------------------------------
(* Results, retries and faults. *)

Fault == faults < MaxFaults /\ faults' = faults + 1

Result(r) == result' = [result EXCEPT ![d] = r]
Fails == pc' = "report" /\ Result("failed")
Succeeds(r) == pc' = "report" /\ Result(r)
Continue(next) == pc' = next /\ result' = result

\* A copy whose session ends before it does becomes nobody's.
Abandon ==
  /\ copying' = [copying EXCEPT ![d] = IF @ \in {"mine", "both"} THEN "orphan" ELSE @]
  /\ outlived' = IF copying[d] \in {"mine", "both"} THEN outlived \cup {d} ELSE outlived

\* The worker dies, the step is cancelled, or emit_progress raises before the
\* handler's try block: no result at all.
StepLost ==
  /\ pc \in Steps
  /\ Fault
  /\ Abandon
  /\ pc' = "lost"
  /\ UNCHANGED <<file, cfg, current, attempt, result, sure>>

\* The handler's verdict: failure_count = 0.
Success == \A e \in Device : result[e] \in Staged

Retry ==
  /\ pc \in {"lost", "rejected"} \/ (pc = "ended" /\ ~Success)
  /\ attempt < MaxAttempts
  /\ attempt' = attempt + 1
  /\ pc' = "begin"
  /\ current' = 1
  /\ result' = [e \in Device |-> "none"]
  /\ sure' = {}
  /\ UNCHANGED <<file, copying, cfg, outlived, faults>>

-----------------------------------------------------------------------------
(* The device. *)

\* It copies into the file from its first byte on.
OpenFile(by) ==
  /\ file' = [file EXCEPT ![d] = "partial"]
  /\ copying' = [copying EXCEPT ![d] = by]

\* What a copy leaves when it has gone through, and when it has not.  Two
\* copies into one file may leave anything.
CopiedTo(e) == IF copying[e] = "both" THEN {"partial", "other", "twin", "image"} ELSE {"other", "twin", "image"}
BrokenTo == {"absent", "partial"}

\* A copy whose session is gone goes through, or breaks.
OrphanEnds ==
  /\ \E e \in Device :
       /\ copying[e] \in {"orphan", "both"}
       /\ file' \in {[file EXCEPT ![e] = f] : f \in CopiedTo(e) \cup BrokenTo}
       /\ copying' = [copying EXCEPT ![e] = IF copying[e] = "both" THEN "mine" ELSE "idle"]
  /\ UNCHANGED <<cfg, pc, current, attempt, result, sure, outlived, faults>>

\* "verify /md5": the verdicts of a device that answers, an error for a file
\* it cannot read or does not find right.
Verdicts(f) == IF f = "image" THEN {"verified"} ELSE IF f = "absent" THEN {"error"} ELSE {"mismatch", "error"}

-----------------------------------------------------------------------------
(* verify_md5: anything that is no mismatch counts as verified, unless the     *)
(* transport reports that the call failed.                                     *)

\* Slip: the exit code decides.
VerifyByExitCode(yes, no) ==
  \/ sure' = sure \cup {d} /\ yes /\ faults' = faults
  \/ sure' = sure \ {d} /\ no /\ Fault

Verify(yes, no) ==
  \/ /\ \E v \in Verdicts(file[d]) :
          /\ sure' = IF v = "error" THEN sure \ {d} ELSE sure \cup {d}
          /\ IF v = "mismatch" THEN no ELSE yes
     /\ faults' = faults
  \/ \* read_timeout, or a connection lost while reading: exit code 0.
     /\ Fault
     /\ sure' = sure \ {d}
     /\ yes
  \/ \* no connection: exit code -1.
     /\ Fault
     /\ sure' = sure \ {d}
     /\ no

-----------------------------------------------------------------------------
(* stage_image. *)

\* No target devices, a configuration that names no file or two of them, a
\* repository file without a download address: the step fails before any device.
Begin ==
  /\ pc = "begin"
  /\ pc' \in {"connect", "rejected"}
  /\ UNCHANGED <<file, copying, cfg, current, attempt, result, sure, outlived, faults>>

\* A device without a management address or a transport fails; the next one
\* has its turn all the same.
Connect ==
  /\ pc = "connect"
  /\ \/ Continue("dir")
     \/ Fails
  /\ UNCHANGED <<file, copying, cfg, current, attempt, sure, outlived, faults>>

\* Slip: a retry does not trust what it finds.
MatchesAtFirst(f) == cfg.size /\ ~cfg.overwrite /\ RightSize(f) /\ attempt = 1

\* The file is taken for the image when its size is the expected one: an empty
\* answer has no size.
Matches(f) == cfg.size /\ ~cfg.overwrite /\ RightSize(f)

Dir ==
  /\ pc = "dir"
  /\ \/ /\ faults' = faults
        /\ \/ Matches(file[d]) /\ cfg.md5 /\ Continue("verify")
           \/ Matches(file[d]) /\ ~cfg.md5 /\ Succeeds("unverified")
           \/ ~Matches(file[d]) /\ Continue("transfer")
     \/ Fault /\ Continue("transfer")
  /\ UNCHANGED <<file, copying, cfg, current, attempt, sure, outlived>>

VerifyExisting ==
  /\ pc = "verify"
  /\ Verify(Succeeds("verified"), Continue("transfer"))
  /\ UNCHANGED <<file, copying, cfg, current, attempt, outlived>>

\* The capabilities of the IOS-XE drivers offer every method.
SelectTransferMethod ==
  IF cfg.method # "auto" THEN cfg.method
  ELSE IF cfg.httpUrl THEN "https" ELSE "scp"

\* Only http and https transfer anything: scp fails, and tftp has no branch.
Transfer ==
  /\ pc = "transfer"
  /\ LET method == SelectTransferMethod IN
     \/ /\ method \in {"http", "https"}
        /\ \/ /\ Continue("copying")
              /\ OpenFile(IF copying[d] = "idle" THEN "mine" ELSE "both")
           \/ Fails /\ UNCHANGED <<file, copying>>
     \/ method = "scp" /\ Fails /\ UNCHANGED <<file, copying>>
     \/ method = "tftp" /\ Continue("dirAfter") /\ UNCHANGED <<file, copying>>
  /\ UNCHANGED <<cfg, current, attempt, sure, outlived, faults>>

\* http_transfer's loop: "bytes copied", an error, or neither in an hour or
\* before the session is lost.
HttpTransfer ==
  /\ pc = "copying"
  /\ \/ /\ Continue("dirAfter")
        /\ file' \in {[file EXCEPT ![d] = f] : f \in CopiedTo(d)}
        /\ copying' = [copying EXCEPT ![d] = IF copying[d] = "both" THEN "orphan" ELSE "idle"]
        /\ UNCHANGED <<outlived, faults>>
     \/ /\ Fails
        /\ file' \in {[file EXCEPT ![d] = f] : f \in BrokenTo}
        /\ copying' = [copying EXCEPT ![d] = IF copying[d] = "both" THEN "orphan" ELSE "idle"]
        /\ UNCHANGED <<outlived, faults>>
     \/ /\ Fault
        /\ Fails
        /\ Abandon
        /\ file' = file
  /\ UNCHANGED <<cfg, current, attempt, sure>>

\* Only a size that was read can be wrong.
DirAfter ==
  /\ pc = "dirAfter"
  /\ \/ /\ faults' = faults
        /\ IF cfg.size /\ file[d] # "absent" /\ ~RightSize(file[d])
           THEN Fails
           ELSE IF cfg.md5 THEN Continue("verifyNew") ELSE Succeeds("unverified")
     \/ /\ Fault
        /\ IF cfg.md5 THEN Continue("verifyNew") ELSE Succeeds("unverified")
  /\ UNCHANGED <<file, copying, cfg, current, attempt, sure, outlived>>

VerifyNew ==
  /\ pc = "verifyNew"
  /\ Verify(Succeeds("verified"), Fails)
  /\ UNCHANGED <<file, copying, cfg, current, attempt, outlived>>

\* The result is counted and reported; an emit_progress that raises makes the
\* device a failed one, whatever it was counted as.  Then the next device.
Report ==
  /\ pc = "report"
  /\ \/ result' = result /\ faults' = faults
     \/ Fault /\ Result("failed")
  /\ IF current < Len(Devices)
     THEN pc' = "connect" /\ current' = current + 1
     ELSE pc' = "ended" /\ current' = current
  /\ UNCHANGED <<file, copying, cfg, attempt, sure, outlived>>

Handler ==
  \/ Begin \/ Connect \/ Dir \/ VerifyExisting \/ Transfer \/ HttpTransfer \/ DirAfter \/ VerifyNew \/ Report

Init ==
  /\ file \in [Device -> Files]
  /\ copying = [e \in Device |-> "idle"]
  /\ cfg \in Config
  /\ pc = "begin"
  /\ current = 1
  /\ attempt = 1
  /\ result = [e \in Device |-> "none"]
  /\ sure = {}
  /\ outlived = {}
  /\ faults = 0

Next == Handler \/ OrphanEnds \/ StepLost \/ Retry

Spec == Init /\ [][Next]_vars

-----------------------------------------------------------------------------
(* Properties. *)

\* Type invariant.
TypeOK ==
  /\ file \in [Device -> FileStates]
  /\ copying \in [Device -> Copying]
  /\ \A e \in Device : copying[e] \in {"mine", "both"} => pc = "copying" /\ e = d
  /\ cfg \in Config
  /\ pc \in Steps \cup {"ended", "lost", "rejected"}
  /\ current \in DOMAIN Devices
  /\ attempt \in 1 .. MaxAttempts
  /\ result \in [Device -> Staged \cup {"none", "failed"}]
  /\ sure \subseteq Device /\ outlived \subseteq Device
  /\ faults \in 0 .. MaxFaults

\* A device reported as verified holds the image, over retries, lost answers
\* and failures of other devices, when the device gave a verdict and no copy of
\* an earlier attempt is about.
VerifiedIsImage ==
  \A e \in Device \ outlived : (result[e] = "verified" /\ e \in sure) => file[e] = "image"

\* With an expected size, what was copied to a staged device has that size as
\* long as no answer is lost.
StagedHasSize ==
  \A e \in Device :
    (faults = 0 /\ cfg.size /\ result[e] \in Staged /\ file[e] # "absent") => RightSize(file[e])

\* A step that comes to its end has had a result for each of its devices: the
\* failure of one costs no other its turn.
EveryDeviceTried == pc = "ended" => \A e \in Device : result[e] # "none"

\* A retry does not put at risk what an earlier attempt, or somebody else, has
\* staged: an image that can be told by size and MD5 is not copied over while
\* the device answers.
ImageKept ==
  [][\A e \in Device :
       (file[e] = "image" /\ faults' = 0 /\ cfg.size /\ cfg.md5 /\ ~cfg.overwrite) => file'[e] = "image"]_vars

=============================================================================
