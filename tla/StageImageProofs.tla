-------------------------- MODULE StageImageProofs --------------------------
(***************************************************************************)
(* StageImage for any devices, attempts and faults: what the result of a   *)
(* device says of the file it holds.                                       *)
(***************************************************************************)
EXTENDS StageImage, TLAPS

Working == {"begin", "connect", "dir", "verify", "transfer", "copying", "dirAfter", "verifyNew"}

(* The devices have their results in turn. *)
Turn ==
  /\ \A i \in DOMAIN Devices : i > current => result[Devices[i]] = "none"
  /\ \A i \in DOMAIN Devices : i < current => result[Devices[i]] # "none"
  /\ pc \in Working => result[d] = "none"
  /\ pc \in {"report", "ended"} => result[d] # "none"
  /\ pc = "ended" => current = Len(Devices)

(* Copies without a session come from faults, and are remembered. *)
Orphans ==
  /\ \A e \in Device : copying[e] \in {"orphan", "both"} => e \in outlived
  /\ outlived # {} => faults # 0

(* What the step knows of the file when no answer has been lost. *)
Known ==
  faults = 0 /\ cfg.size =>
    /\ pc = "verify" => RightSize(file[d])
    /\ pc = "verifyNew" => RightSize(file[d]) \/ file[d] = "absent"
    /\ pc \in {"transfer", "copying"} /\ ~cfg.overwrite => file[d] # "image"

Base == TypeOK /\ Turn /\ Orphans
Inv == Base /\ Known /\ VerifiedIsImage /\ StagedHasSize

USE ConstantsAssumption DEF FileStates, Copying, Staged, Steps, Config

-----------------------------------------------------------------------------

LEMMA CurrentDevice == ASSUME TypeOK PROVE d \in Device /\ \A i \in DOMAIN Devices : i # current => Devices[i] # d
BY DEF TypeOK, d, Device

(* The calls on one device leave the others alone. *)
Work == Connect \/ Dir \/ VerifyExisting \/ Transfer \/ HttpTransfer \/ DirAfter \/ VerifyNew

Framed ==
  /\ \A e \in Device :
       e # d => /\ file'[e] = file[e] /\ result'[e] = result[e] /\ copying'[e] = copying[e]
                /\ (e \in sure' <=> e \in sure) /\ (e \in outlived' <=> e \in outlived)
  /\ current' = current /\ d' = d /\ cfg' = cfg /\ attempt' = attempt
  /\ pc \in Working

LEMMA InitInv == Init => Inv
<1> SUFFICES ASSUME Init PROVE Inv
  OBVIOUS
<1>1. 1 \in DOMAIN Devices
  OBVIOUS
<1>2. TypeOK
  <2>1. file \in [Device -> FileStates]
    BY DEF Init
  <2>4. cfg \in Config
    BY DEF Init
  <2>5. faults \in 0 .. MaxFaults
    BY DEF Init
  <2>6. attempt \in 1 .. MaxAttempts
    BY DEF Init
  <2>2. copying = [e \in Device |-> "idle"] /\ result = [e \in Device |-> "none"]
    BY DEF Init
  <2>3. copying \in [Device -> Copying] /\ result \in [Device -> Staged \cup {"none", "failed"}]
    BY <2>2
  <2> QED
    BY <1>1, <2>1, <2>2, <2>3, <2>4, <2>5, <2>6 DEF Init, TypeOK
<1>3. Turn
  <2>1. \A i \in DOMAIN Devices : result[Devices[i]] = "none"
    BY DEF Init, Device
  <2> QED
    BY <1>1, <2>1 DEF Init, Turn, Working, d
<1> QED
  BY <1>2, <1>3 DEF Init, Inv, Base, Orphans, Known, VerifiedIsImage, StagedHasSize

LEMMA WorkFramed == ASSUME TypeOK, Work PROVE Framed
<1>1. d \in Device
  BY CurrentDevice
<1>2. CASE Connect
  BY <1>1, <1>2 DEF Connect, Framed, TypeOK, Working, Continue, Fails, Result, d
<1>3. CASE Dir
  BY <1>1, <1>3 DEF Dir, Framed, TypeOK, Working, Continue, Succeeds, Result, Fault, d
<1>4. CASE VerifyExisting
  BY <1>1, <1>4 DEF VerifyExisting, Verify, Framed, TypeOK, Working, Continue, Succeeds, Result, Fault, d
<1>5. CASE Transfer
  BY <1>1, <1>5 DEF Transfer, OpenFile, Framed, TypeOK, Working, Continue, Fails, Result, d
<1>6. CASE HttpTransfer
  BY <1>1, <1>6 DEF HttpTransfer, Abandon, Framed, TypeOK, Working, Continue, Fails, Result, Fault, d
<1>7. CASE DirAfter
  BY <1>1, <1>7 DEF DirAfter, Framed, TypeOK, Working, Continue, Fails, Succeeds, Result, Fault, d
<1>8. CASE VerifyNew
  BY <1>1, <1>8 DEF VerifyNew, Verify, Framed, TypeOK, Working, Fails, Succeeds, Result, Fault, d
<1> QED
  BY <1>2, <1>3, <1>4, <1>5, <1>6, <1>7, <1>8 DEF Work

LEMMA WorkTypeOK ==
  ASSUME TypeOK, Work
  PROVE  TypeOK'
<1>1. d \in Device
  BY CurrentDevice
<1>2. CASE Connect
  BY <1>1, <1>2 DEF Connect, Continue, Fails, Result, TypeOK, d
<1>3. CASE Dir
  BY <1>1, <1>3 DEF Dir, Continue, Succeeds, Result, Fault, TypeOK, d
<1>4. CASE VerifyExisting
  BY <1>1, <1>4 DEF VerifyExisting, Verify, Continue, Succeeds, Result, Fault, TypeOK, d
<1>5. CASE Transfer
  BY <1>1, <1>5 DEF Transfer, OpenFile, Continue, Fails, Result, TypeOK, d
<1>6. CASE HttpTransfer
  <2>1. pc = "copying" /\ d' = d /\ UNCHANGED <<cfg, current, attempt, sure>>
    BY <1>6 DEF HttpTransfer, d
  <2>2. pc' \in {"dirAfter", "report"} /\ result' \in [Device -> Staged \cup {"none", "failed"}]
    BY <1>1, <1>6 DEF HttpTransfer, Continue, Fails, Result, TypeOK
  <2>3. file' \in [Device -> FileStates]
    BY <1>1, <1>6 DEF HttpTransfer, CopiedTo, BrokenTo, TypeOK
  <2>4. /\ copying' \in [Device -> Copying] /\ copying'[d] \in {"idle", "orphan"}
        /\ \A e \in Device \ {d} : copying'[e] = copying[e]
    <3>1. copying[d] \in Copying
      BY <1>1 DEF TypeOK
    <3>2. \/ copying' = [copying EXCEPT ![d] = IF copying[d] = "both" THEN "orphan" ELSE "idle"]
          \/ copying' = [copying EXCEPT ![d] = IF copying[d] \in {"mine", "both"} THEN "orphan" ELSE copying[d]]
      BY <1>6 DEF HttpTransfer, Abandon
    <3> QED
      BY <1>1, <3>1, <3>2 DEF TypeOK
  <2>5. outlived' \subseteq Device /\ faults' \in 0 .. MaxFaults
    BY <1>1, <1>6 DEF HttpTransfer, Abandon, Fault, TypeOK
  <2> QED
    BY <2>1, <2>2, <2>3, <2>4, <2>5 DEF TypeOK
<1>7. CASE DirAfter
  BY <1>1, <1>7 DEF DirAfter, Continue, Fails, Succeeds, Result, Fault, TypeOK, d
<1>8. CASE VerifyNew
  BY <1>1, <1>8 DEF VerifyNew, Verify, Fails, Succeeds, Result, Fault, TypeOK, d
<1> QED
  BY <1>2, <1>3, <1>4, <1>5, <1>6, <1>7, <1>8 DEF Work

(* A device has its result when its calls are over, and not before. *)
LEMMA WorkResult ==
  ASSUME TypeOK, Turn, Work
  PROVE  /\ pc' \in Working \cup {"report"}
         /\ pc' \in Working => result'[d] = "none"
         /\ pc' = "report" => result'[d] # "none"
<1>1. d \in Device
  BY CurrentDevice
<1>2. CASE Connect
  BY <1>1, <1>2 DEF Connect, Continue, Fails, Result, TypeOK, Turn, Working, d
<1>3. CASE Dir
  BY <1>1, <1>3 DEF Dir, Continue, Succeeds, Result, Fault, TypeOK, Turn, Working, d
<1>4. CASE VerifyExisting
  BY <1>1, <1>4 DEF VerifyExisting, Verify, Continue, Succeeds, Result, Fault, TypeOK, Turn, Working, d
<1>5. CASE Transfer
  BY <1>1, <1>5 DEF Transfer, OpenFile, Continue, Fails, Result, TypeOK, Turn, Working, d
<1>6. CASE HttpTransfer
  BY <1>1, <1>6 DEF HttpTransfer, Abandon, Continue, Fails, Result, Fault, TypeOK, Turn, Working, d
<1>7. CASE DirAfter
  BY <1>1, <1>7 DEF DirAfter, Continue, Fails, Succeeds, Result, Fault, TypeOK, Turn, Working, d
<1>8. CASE VerifyNew
  BY <1>1, <1>8 DEF VerifyNew, Verify, Fails, Succeeds, Result, Fault, TypeOK, Turn, Working, d
<1> QED
  BY <1>2, <1>3, <1>4, <1>5, <1>6, <1>7, <1>8 DEF Work

LEMMA WorkOrphans ==
  ASSUME TypeOK, Orphans, Work
  PROVE  Orphans'
<1>1. d \in Device
  BY CurrentDevice
<1>2. CASE Connect
  BY <1>1, <1>2 DEF Connect, Continue, Fails, Result, TypeOK, Orphans, d
<1>3. CASE Dir
  BY <1>1, <1>3 DEF Dir, Continue, Succeeds, Result, Fault, TypeOK, Orphans, d
<1>4. CASE VerifyExisting
  BY <1>1, <1>4 DEF VerifyExisting, Verify, Continue, Succeeds, Result, Fault, TypeOK, Orphans, d
<1>5. CASE Transfer
  BY <1>1, <1>5 DEF Transfer, OpenFile, Continue, Fails, Result, TypeOK, Orphans, d
<1>6. CASE HttpTransfer
  BY <1>1, <1>6 DEF HttpTransfer, Abandon, Continue, Fails, Result, Fault, TypeOK, Orphans, d
<1>7. CASE DirAfter
  BY <1>1, <1>7 DEF DirAfter, Continue, Fails, Succeeds, Result, Fault, TypeOK, Orphans, d
<1>8. CASE VerifyNew
  BY <1>1, <1>8 DEF VerifyNew, Verify, Fails, Succeeds, Result, Fault, TypeOK, Orphans, d
<1> QED
  BY <1>2, <1>3, <1>4, <1>5, <1>6, <1>7, <1>8 DEF Work

LEMMA BaseKept == Base /\ [Next]_vars => Base'
<1> SUFFICES ASSUME Base, [Next]_vars PROVE Base'
  OBVIOUS
<1>a. TypeOK /\ Turn /\ Orphans /\ d \in Device
  BY CurrentDevice DEF Base
<1>1. CASE Work
  <2>1. TypeOK' /\ Orphans'
    BY <1>1, <1>a, WorkTypeOK, WorkOrphans
  <2>2. Turn'
    <3>1. Framed
      BY <1>1, <1>a, WorkFramed
    <3>2. \A i \in DOMAIN Devices : i # current => result'[Devices[i]] = result[Devices[i]]
      BY <1>a, <3>1, CurrentDevice DEF Framed, Device
    <3> QED
      BY <1>1, <1>a, <3>1, <3>2, WorkResult DEF Turn, Framed, Working
  <2> QED
    BY <2>1, <2>2 DEF Base
<1>2. CASE Begin
  <2>1. TypeOK' /\ Orphans'
    BY <1>2, <1>a DEF Begin, TypeOK, Orphans, d
  <2>2. Turn'
    BY <1>2, <1>a DEF Begin, Turn, Working, d
  <2> QED
    BY <2>1, <2>2 DEF Base
<1>3. CASE Report
  <2>1. TypeOK'
    BY <1>3, <1>a DEF Report, Fault, Result, TypeOK, d
  <2>2. Orphans'
    BY <1>3, <1>a DEF Report, Fault, TypeOK, Orphans
  <2>3. Turn'
    <3>1. \A e \in Device : e # d => result'[e] = result[e]
      BY <1>3, <1>a DEF Report, Result, TypeOK
    <3>2. result'[d] # "none"
      BY <1>3, <1>a DEF Report, Result, TypeOK, Turn
    <3>3. \A i \in DOMAIN Devices : i # current => result'[Devices[i]] = result[Devices[i]]
      BY <1>a, <3>1, CurrentDevice DEF Device
    <3>4. current \in DOMAIN Devices /\ DOMAIN Devices = 1 .. Len(Devices)
      BY <1>a DEF TypeOK
    <3>5. CASE current < Len(Devices) /\ pc' = "connect" /\ current' = current + 1
      <4>1. \A i \in DOMAIN Devices : i > current' => result'[Devices[i]] = "none"
        BY <1>a, <3>3, <3>4, <3>5 DEF Turn
      <4>2. \A i \in DOMAIN Devices : i < current' => result'[Devices[i]] # "none"
        BY <1>a, <3>2, <3>3, <3>4, <3>5 DEF Turn, d
      <4>3. d' = Devices[current + 1] /\ current + 1 \in DOMAIN Devices
        BY <3>4, <3>5 DEF d
      <4>4. result'[d'] = "none"
        BY <1>a, <3>3, <3>4, <4>3 DEF Turn
      <4> QED
        BY <3>5, <4>1, <4>2, <4>4 DEF Turn
    <3>6. CASE ~(current < Len(Devices)) /\ pc' = "ended" /\ current' = current
      <4>1. d' = d /\ current = Len(Devices)
        BY <3>4, <3>6 DEF d
      <4> QED
        BY <1>a, <3>2, <3>3, <3>4, <3>6, <4>1 DEF Turn, Working
    <3> QED
      BY <1>3, <3>5, <3>6 DEF Report
  <2> QED
    BY <2>1, <2>2, <2>3 DEF Base
<1>4. CASE OrphanEnds
  <2>1. PICK e \in Device :
          /\ copying[e] \in {"orphan", "both"}
          /\ file' \in {[file EXCEPT ![e] = f] : f \in CopiedTo(e) \cup BrokenTo}
          /\ copying' = [copying EXCEPT ![e] = IF copying[e] = "both" THEN "mine" ELSE "idle"]
    BY <1>4 DEF OrphanEnds
  <2>2. UNCHANGED <<cfg, pc, current, attempt, result, sure, outlived, faults>> /\ d' = d
    BY <1>4 DEF OrphanEnds, d
  <2>3. file' \in [Device -> FileStates] /\ copying' \in [Device -> Copying]
    BY <1>a, <2>1 DEF TypeOK, CopiedTo, BrokenTo
  <2>4. TypeOK'
    BY <1>a, <2>1, <2>2, <2>3 DEF TypeOK
  <2>5. Orphans'
    BY <1>a, <2>1, <2>2 DEF TypeOK, Orphans
  <2>6. Turn'
    BY <1>a, <2>2 DEF Turn
  <2> QED
    BY <2>4, <2>5, <2>6 DEF Base
<1>5. CASE StepLost
  <2>1. TypeOK'
    BY <1>5, <1>a DEF StepLost, Fault, Abandon, TypeOK, d
  <2>2. Orphans'
    BY <1>5, <1>a DEF StepLost, Fault, Abandon, TypeOK, Orphans
  <2>3. Turn'
    BY <1>5, <1>a DEF StepLost, Turn, Working
  <2> QED
    BY <2>1, <2>2, <2>3 DEF Base
<1>6. CASE Retry
  <2>1. 1 \in DOMAIN Devices /\ \A i \in DOMAIN Devices : Devices[i] \in Device
    BY DEF Device
  <2>2. pc # "copying"
    BY <1>6 DEF Retry
  <2>3. TypeOK'
    BY <1>6, <1>a, <2>1, <2>2 DEF Retry, TypeOK
  <2>4. Orphans'
    BY <1>6, <1>a DEF Retry, Orphans
  <2>5. \A i \in DOMAIN Devices : result'[Devices[i]] = "none"
    BY <1>6, <2>1 DEF Retry
  <2>6. Turn'
    BY <1>6, <2>1, <2>5 DEF Retry, Turn, Working, d
  <2> QED
    BY <2>3, <2>4, <2>6 DEF Base
<1>7. CASE UNCHANGED vars
  BY <1>7, <1>a DEF Base, TypeOK, Turn, Orphans, vars, d
<1> QED
  BY <1>1, <1>2, <1>3, <1>4, <1>5, <1>6, <1>7 DEF Next, Handler, Work

(* What the calls on a device learn of its file. *)
LEMMA WorkKnown ==
  ASSUME Inv, Work
  PROVE  Known'
<1>1. d \in Device /\ TypeOK /\ Turn
  BY CurrentDevice DEF Inv, Base
<1>2. Known /\ d' = d /\ cfg' = cfg
  BY <1>1, WorkFramed DEF Inv, Framed
<1>3. CASE Connect
  BY <1>1, <1>2, <1>3 DEF Connect, Continue, Fails, Result, TypeOK, Known
<1>4. CASE Dir
  BY <1>1, <1>2, <1>4 DEF Dir, Matches, RightSize, Continue, Succeeds, Result, Fault, TypeOK, Known
<1>5. CASE VerifyExisting
  BY <1>1, <1>2, <1>5 DEF VerifyExisting, Verify, Verdicts, RightSize, Continue, Succeeds, Result, Fault, TypeOK, Known
<1>6. CASE Transfer
  BY <1>1, <1>2, <1>6 DEF Transfer, OpenFile, RightSize, Continue, Fails, Result, TypeOK, Known
<1>7. CASE HttpTransfer
  BY <1>1, <1>2, <1>7 DEF HttpTransfer, Abandon, BrokenTo, Continue, Fails, Result, Fault, TypeOK, Known
<1>8. CASE DirAfter
  BY <1>1, <1>2, <1>8 DEF DirAfter, RightSize, Continue, Fails, Succeeds, Result, Fault, TypeOK, Known
<1>9. CASE VerifyNew
  BY <1>1, <1>2, <1>9 DEF VerifyNew, Verify, Verdicts, RightSize, Fails, Succeeds, Result, Fault, TypeOK, Known
<1> QED
  BY <1>3, <1>4, <1>5, <1>6, <1>7, <1>8, <1>9 DEF Work

LEMMA WorkVerified ==
  ASSUME Inv, Work
  PROVE  result'[d] = "verified" /\ d \in sure' => file'[d] = "image"
<1>1. d \in Device /\ TypeOK /\ Turn
  BY CurrentDevice DEF Inv, Base
<1>2. Known /\ d' = d /\ cfg' = cfg
  BY <1>1, WorkFramed DEF Inv, Framed
<1>3. CASE Connect
  BY <1>1, <1>2, <1>3 DEF Connect, Continue, Fails, Result, TypeOK, Turn, Working
<1>4. CASE Dir
  BY <1>1, <1>2, <1>4 DEF Dir, Matches, RightSize, Continue, Succeeds, Result, Fault, TypeOK, Turn, Working
<1>5. CASE VerifyExisting
  BY <1>1, <1>2, <1>5 DEF VerifyExisting, Verify, Verdicts, RightSize, Continue, Succeeds, Result, Fault, TypeOK, Turn, Working
<1>6. CASE Transfer
  BY <1>1, <1>2, <1>6 DEF Transfer, OpenFile, RightSize, Continue, Fails, Result, TypeOK, Turn, Working
<1>7. CASE HttpTransfer
  BY <1>1, <1>2, <1>7 DEF HttpTransfer, Abandon, BrokenTo, Continue, Fails, Result, Fault, TypeOK, Turn, Working
<1>8. CASE DirAfter
  BY <1>1, <1>2, <1>8 DEF DirAfter, RightSize, Continue, Fails, Succeeds, Result, Fault, TypeOK, Turn, Working
<1>9. CASE VerifyNew
  BY <1>1, <1>2, <1>9 DEF VerifyNew, Verify, Verdicts, RightSize, Fails, Succeeds, Result, Fault, TypeOK, Turn, Working
<1> QED
  BY <1>3, <1>4, <1>5, <1>6, <1>7, <1>8, <1>9 DEF Work

LEMMA WorkSized ==
  ASSUME Inv, Work
  PROVE  faults' = 0 /\ cfg.size /\ result'[d] \in Staged /\ file'[d] # "absent"
            => RightSize(file'[d])
<1>1. d \in Device /\ TypeOK /\ Turn
  BY CurrentDevice DEF Inv, Base
<1>2. Known /\ d' = d /\ cfg' = cfg
  BY <1>1, WorkFramed DEF Inv, Framed
<1>3. CASE Connect
  BY <1>1, <1>2, <1>3 DEF Connect, Continue, Fails, Result, TypeOK, Turn, Working, Known
<1>4. CASE Dir
  BY <1>1, <1>2, <1>4 DEF Dir, Matches, RightSize, Continue, Succeeds, Result, Fault, TypeOK, Turn, Working, Known
<1>5. CASE VerifyExisting
  BY <1>1, <1>2, <1>5 DEF VerifyExisting, Verify, Verdicts, RightSize, Continue, Succeeds, Result, Fault, TypeOK, Turn, Working, Known
<1>6. CASE Transfer
  BY <1>1, <1>2, <1>6 DEF Transfer, OpenFile, RightSize, Continue, Fails, Result, TypeOK, Turn, Working, Known
<1>7. CASE HttpTransfer
  BY <1>1, <1>2, <1>7 DEF HttpTransfer, Abandon, BrokenTo, Continue, Fails, Result, Fault, TypeOK, Turn, Working, Known
<1>8. CASE DirAfter
  BY <1>1, <1>2, <1>8 DEF DirAfter, RightSize, Continue, Fails, Succeeds, Result, Fault, TypeOK, Turn, Working, Known
<1>9. CASE VerifyNew
  BY <1>1, <1>2, <1>9 DEF VerifyNew, Verify, Verdicts, RightSize, Fails, Succeeds, Result, Fault, TypeOK, Turn, Working, Known
<1> QED
  BY <1>3, <1>4, <1>5, <1>6, <1>7, <1>8, <1>9 DEF Work

LEMMA InvKept == Inv /\ [Next]_vars => Inv'
<1> SUFFICES ASSUME Inv, [Next]_vars PROVE Inv'
  OBVIOUS
<1>a. TypeOK /\ Turn /\ Orphans /\ d \in Device
  BY CurrentDevice DEF Inv, Base
<1>b. Base'
  BY BaseKept DEF Inv
<1>c. faults \in Nat /\ faults' \in Nat /\ faults <= faults'
  <2>1. faults \in Nat /\ faults' \in Nat
    BY <1>a, <1>b DEF Base, TypeOK
  <2>2. faults' = faults \/ faults' = faults + 1
    BY DEF Next, Handler, Begin, Connect, Dir, VerifyExisting, Verify, Transfer, HttpTransfer, DirAfter,
           VerifyNew, Report, OrphanEnds, StepLost, Retry, Fault, vars
  <2> QED
    BY <2>1, <2>2
<1>1. CASE Work
  <2>1. Framed /\ d' = d /\ cfg' = cfg
    BY <1>1, <1>a, WorkFramed DEF Framed
  <2>2. Known'
    BY <1>1, WorkKnown
  <2>3. VerifiedIsImage'
    <3>1. ASSUME NEW e \in Device, e \notin outlived', result'[e] = "verified", e \in sure'
          PROVE  file'[e] = "image"
      <4>1. CASE e = d
        BY <1>1, <3>1, <4>1, WorkVerified
      <4>2. CASE e # d
        BY <2>1, <3>1, <4>2 DEF Framed, Inv, VerifiedIsImage
      <4> QED
        BY <4>1, <4>2
    <3> QED
      BY <3>1 DEF VerifiedIsImage
  <2>4. StagedHasSize'
    <3>1. ASSUME NEW e \in Device, faults' = 0, cfg'.size, result'[e] \in Staged, file'[e] # "absent"
          PROVE  RightSize(file'[e])
      <4>1. CASE e = d
        BY <1>1, <2>1, <3>1, <4>1, WorkSized
      <4>2. CASE e # d
        BY <1>c, <2>1, <3>1, <4>2 DEF Framed, Inv, StagedHasSize
      <4> QED
        BY <4>1, <4>2
    <3> QED
      BY <3>1 DEF StagedHasSize, RightSize
  <2> QED
    BY <1>b, <2>2, <2>3, <2>4 DEF Inv
<1>2. CASE Begin
  <2>1. pc' \in {"connect", "rejected"} /\ UNCHANGED <<file, copying, cfg, current, attempt, result, sure, outlived, faults>>
    BY <1>2 DEF Begin
  <2>2. Known' /\ VerifiedIsImage' /\ StagedHasSize'
    BY <2>1 DEF Inv, Known, VerifiedIsImage, StagedHasSize, RightSize
  <2> QED
    BY <1>b, <2>2 DEF Inv
<1>3. CASE Report
  <2>1. /\ UNCHANGED <<file, cfg, sure, outlived>> /\ pc' \in {"connect", "ended"}
        /\ \A e \in Device : result'[e] = result[e] \/ result'[e] = "failed"
    BY <1>3, <1>a DEF Report, Result, TypeOK
  <2>2. Known'
    BY <2>1 DEF Known
  <2>3. VerifiedIsImage'
    BY <2>1 DEF Inv, VerifiedIsImage
  <2>4. StagedHasSize'
    BY <1>c, <2>1 DEF Inv, StagedHasSize, RightSize
  <2> QED
    BY <1>b, <2>2, <2>3, <2>4 DEF Inv
<1>4. CASE OrphanEnds
  <2>1. PICK e \in Device :
          /\ copying[e] \in {"orphan", "both"}
          /\ file' \in {[file EXCEPT ![e] = f] : f \in CopiedTo(e) \cup BrokenTo}
    BY <1>4 DEF OrphanEnds
  <2>2. UNCHANGED <<cfg, pc, current, attempt, result, sure, outlived, faults>> /\ d' = d
    BY <1>4 DEF OrphanEnds, d
  <2>3. e \in outlived /\ faults' # 0
    BY <1>a, <2>1, <2>2 DEF Orphans
  <2>4. \A f \in Device \ outlived' : file'[f] = file[f]
    BY <1>a, <2>1, <2>2, <2>3 DEF TypeOK
  <2>5. VerifiedIsImage'
    BY <2>2, <2>4 DEF Inv, VerifiedIsImage
  <2>6. Known' /\ StagedHasSize'
    BY <2>3 DEF Known, StagedHasSize
  <2> QED
    BY <1>b, <2>5, <2>6 DEF Inv
<1>5. CASE StepLost
  <2>1. faults' # 0 /\ UNCHANGED <<file, result, sure>> /\ outlived \subseteq outlived'
    BY <1>5, <1>a DEF StepLost, Fault, Abandon, TypeOK
  <2>2. VerifiedIsImage'
    BY <2>1 DEF Inv, VerifiedIsImage
  <2>3. Known' /\ StagedHasSize'
    BY <2>1 DEF Known, StagedHasSize
  <2> QED
    BY <1>b, <2>2, <2>3 DEF Inv
<1>6. CASE Retry
  <2>1. pc' = "begin" /\ \A e \in Device : result'[e] = "none"
    BY <1>6 DEF Retry
  <2>2. Known' /\ VerifiedIsImage' /\ StagedHasSize'
    BY <2>1 DEF Known, VerifiedIsImage, StagedHasSize
  <2> QED
    BY <1>b, <2>2 DEF Inv
<1>7. CASE UNCHANGED vars
  BY <1>7, <1>b DEF Inv, Known, VerifiedIsImage, StagedHasSize, RightSize, vars, d
<1> QED
  BY <1>1, <1>2, <1>3, <1>4, <1>5, <1>6, <1>7 DEF Next, Handler, Work

(* An image that is recognised is not opened for writing. *)
LEMMA ImageNotOpened ==
  ASSUME Inv, [Next]_vars, NEW e \in Device, file[e] = "image", faults' = 0, cfg.size, cfg.md5, ~cfg.overwrite
  PROVE  file'[e] = "image"
<1>1. TypeOK /\ Orphans /\ Known /\ d \in Device /\ faults \in Nat
  BY CurrentDevice DEF Inv, Base, TypeOK
<1>2. CASE Transfer \/ HttpTransfer
  <2>1. faults = 0
    BY <1>1, <1>2 DEF Transfer, HttpTransfer, Fault
  <2>2. e # d
    BY <1>1, <1>2, <2>1 DEF Known, Transfer, HttpTransfer
  <2> QED
    BY <1>1, <1>2, <2>2, WorkFramed DEF Framed, Work
<1>3. CASE OrphanEnds
  BY <1>1, <1>3 DEF OrphanEnds, Orphans
<1>4. CASE ~(Transfer \/ HttpTransfer \/ OrphanEnds)
  <2>1. file' = file
    BY <1>4 DEF Next, Handler, Begin, Connect, Dir, VerifyExisting, DirAfter, VerifyNew, Report, StepLost,
                Retry, vars
  <2> QED
    BY <2>1
<1> QED
  BY <1>2, <1>3, <1>4

-----------------------------------------------------------------------------

(* The inductive invariant: the devices in turn, whose copies are about, what  *)
(* the step has learnt of the current file.                                    *)
THEOREM Invariance == Spec => []Inv
<1>1. Init => Inv
  BY InitInv
<1>2. Inv /\ [Next]_vars => Inv'
  BY InvKept
<1> QED
  BY <1>1, <1>2, PTL DEF Spec

(* Type correctness of stage_image and its handler, for any devices, attempts  *)
(* and faults; among others, only the device being staged has a copy with a    *)
(* session.                                                                    *)
THEOREM TypeCorrect == Spec => []TypeOK
<1>1. Inv => TypeOK
  BY DEF Inv, Base
<1> QED
  BY <1>1, Invariance, PTL

(* A device whose verify_md5 gave a verdict, and that counts as verified,      *)
(* holds the image, whatever became of earlier attempts and other devices.     *)
THEOREM Verified == Spec => []VerifiedIsImage
<1>1. Inv => VerifiedIsImage
  BY DEF Inv
<1> QED
  BY <1>1, Invariance, PTL

(* Without a lost answer a staged file has the expected size.                  *)
THEOREM Sized == Spec => []StagedHasSize
<1>1. Inv => StagedHasSize
  BY DEF Inv
<1> QED
  BY <1>1, Invariance, PTL

(* The handler's loop gives every device a result, also behind one that fails. *)
THEOREM Tried == Spec => []EveryDeviceTried
<1>1. Inv => EveryDeviceTried
  <2> SUFFICES ASSUME Inv, pc = "ended", NEW e \in Device PROVE result[e] # "none"
    BY DEF EveryDeviceTried
  <2>1. PICK i \in DOMAIN Devices : e = Devices[i]
    BY DEF Device
  <2>2. DOMAIN Devices = 1 .. Len(Devices) /\ current = Len(Devices) /\ result[d] # "none"
    BY DEF Inv, Base, Turn
  <2>3. CASE i < current
    BY <2>1, <2>3 DEF Inv, Base, Turn
  <2>4. CASE i = current
    BY <2>1, <2>2, <2>4 DEF d
  <2> QED
    BY <2>2, <2>3, <2>4
<1> QED
  BY <1>1, Invariance, PTL

(* Whatever is retried, an image that size and MD5 tell is not copied over.    *)
THEOREM NotCopiedOver == Spec => ImageKept
<1>1. Inv /\ [Next]_vars =>
        [\A e \in Device :
           (file[e] = "image" /\ faults' = 0 /\ cfg.size /\ cfg.md5 /\ ~cfg.overwrite) => file'[e] = "image"]_vars
  BY ImageNotOpened
<1> QED
  BY <1>1, Invariance, PTL DEF Spec, ImageKept

=============================================================================
