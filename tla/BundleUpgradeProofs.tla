------------------------- MODULE BundleUpgradeProofs -------------------------
(***************************************************************************)
(* BundleUpgrade for any images, boot lists, attempts and faults: what a   *)
(* verification promises of the next reload, and what cleanup leaves.      *)
(***************************************************************************)
EXTENDS BundleUpgrade, TLAPS

(* A boot list from which nothing but the new image is booted first. *)
Good(list) == list = <<>> \/ list[1] = New

(* No image has been deleted yet. *)
Complete ==
  (pc \in InstallCalls \cup VerifyCalls \/ (pc = "cleanBoot" /\ attempt = 1)) => flash = Image

(* Once the saved list is good, the running one and the fallback stay good. *)
Kept ==
  Good(bootStart) => Good(bootRun) /\ (pc = "config" => Good(prev))

(* The new image was booted from a good list, while all images are there.   *)
BootedGood ==
  (pc \in InstallCalls \cup VerifyCalls \/ (pc = "cleanBoot" /\ attempt = 1)) /\ running = New
    => Good(bootStart)

(* What the driver knows of the version. *)
Known ==
  /\ fresh => up # "down" /\ cur = running
  /\ pc = "verifyBoot" /\ cur = New => Good(bootStart)
  /\ pc \in CleanupCalls /\ cfg.target = New => cur = New
  /\ pc \in CleanupCalls /\ cfg.target = New => Good(bootStart)

(* Cleanup spares the list it has read. *)
Spared ==
  /\ pc \in {"cleanDir", "delete"} /\ cfg.target = New => Good(boots)
  /\ pc = "delete" => dels \cap Listed(boots) = {}

Inv == TypeOK /\ Complete /\ Kept /\ BootedGood /\ Known /\ Spared

Command == {"terminal", "clear", "image", "fallback", "end"}

USE DEF InstallCalls, VerifyCalls, CleanupCalls, Calls, Ended

-----------------------------------------------------------------------------
(* Boot lists. *)

LEMMA Limits == MaxAttempts \in Nat \ {0} /\ MaxFaults \in Nat
BY ConstantsAssumption

LEMMA TheImages == New \in Image /\ Old \in Image /\ New # Old /\ New # NoImage
BY ConstantsAssumption DEF NoImage

LEMMA AddedType == ASSUME NEW list \in Seq(Image), NEW image \in Image
                   PROVE  Added(list, image) \in Seq(Image)
BY DEF Added

LEMMA AddedGood == ASSUME NEW list \in Seq(Image), Good(list)
                   PROVE  Good(Added(list, New))
BY TheImages DEF Added, Good, Listed

LEMMA CommandsType == ASSUME NEW images \in Seq(Image)
                      PROVE  /\ Commands(images) \in Seq(Command)
                             /\ "fallback" \in Listed(Commands(images)) => images # <<>>
<1>1. /\ <<"terminal", "clear", "image", "end">> \in Seq(Command)
      /\ <<"terminal", "clear", "image", "fallback", "end">> \in Seq(Command)
  BY DEF Command
<1>2. "fallback" \notin Listed(<<"terminal", "clear", "image", "end">>)
  BY DEF Listed
<1> QED
  BY <1>1, <1>2 DEF Commands

LEMMA TailListed == ASSUME NEW S, NEW seq \in Seq(S), seq # <<>>
                    PROVE  /\ Head(seq) \in Listed(seq) /\ Head(seq) \in S
                           /\ Tail(seq) \in Seq(S)
                           /\ Listed(Tail(seq)) \subseteq Listed(seq)
BY DEF Listed

(* What the device boots. *)
LEMMA BootedImage == ASSUME TypeOK PROVE NextBoot \subseteq Image
BY DEF TypeOK, NextBoot, Bootable

LEMMA GoodBoot == ASSUME TypeOK, flash = Image, New \in NextBoot PROVE Good(bootStart)
<1> SUFFICES ASSUME bootStart # <<>> PROVE bootStart[1] = New
  BY DEF Good
<1>1. 1 \in Bootable(bootStart) /\ \A k \in Bootable(bootStart) : 1 <= k
  BY DEF TypeOK, Bootable
<1>2. PICK j \in Bootable(bootStart) : New = bootStart[j] /\ \A k \in Bootable(bootStart) : j <= k
  BY <1>1 DEF NextBoot
<1>3. j = 1
  BY <1>1, <1>2 DEF TypeOK, Bootable
<1> QED
  BY <1>2, <1>3

LEMMA BootsNew == ASSUME TypeOK, flash = Image, bootStart # <<>>, bootStart[1] = New
                  PROVE  NextBoot = {New}
<1>1. 1 \in Bootable(bootStart) /\ \A k \in Bootable(bootStart) : 1 <= k
  BY DEF TypeOK, Bootable
<1>2. {j \in Bootable(bootStart) : \A k \in Bootable(bootStart) : j <= k} = {1}
  BY <1>1 DEF TypeOK, Bootable
<1>3. NextBoot = {bootStart[i] : i \in {1}}
  BY <1>1, <1>2 DEF NextBoot
<1> QED
  BY <1>3

-----------------------------------------------------------------------------
(* Types. *)

(* The type invariant, in groups the provers can take. *)
Counted ==
  /\ attempt \in 1 .. MaxAttempts /\ faults \in 0 .. MaxFaults
  /\ pc \in Calls \cup Ended /\ cfg \in Config
DeviceType ==
  /\ up \in {"up", "reloading", "down"}
  /\ running \in Image /\ flash \subseteq Image
  /\ bootRun \in Seq(Image) /\ bootStart \in Seq(Image)
DriverType ==
  /\ prev \in Seq(Image) /\ boots \in Seq(Image)
  /\ cur \in Image \cup {NoImage}
  /\ dels \subseteq Image /\ removed \subseteq Image
  /\ todo \in Seq(Command)
  /\ "fallback" \in Listed(todo) => prev # <<>>
Flags == inConfig \in BOOLEAN /\ fresh \in BOOLEAN /\ reboot \in BOOLEAN /\ success \in BOOLEAN

LEMMA Types == TypeOK <=> Counted /\ DeviceType /\ DriverType /\ Flags
BY DEF TypeOK, Counted, DeviceType, DriverType, Flags, Command

LEMMA TypesAgain == ASSUME Counted', DeviceType', DriverType', Flags' PROVE TypeOK'
BY DEF TypeOK, Counted, DeviceType, DriverType, Flags, Command

LEMMA InitInv == Init => Inv
<1> SUFFICES ASSUME Init PROVE Inv
  OBVIOUS
<1>1. bootStart \in Seq(Image)
  BY ConstantsAssumption DEF Init
<1>2. <<>> \in Seq(Image) /\ <<>> \in Seq(Command) /\ Listed(<<>>) = {}
  BY DEF Listed
<1>3. TypeOK
  <2>1. Counted
    BY Limits DEF Init, Counted
  <2>2. DeviceType
    BY <1>1, TheImages DEF Init, DeviceType
  <2>3. DriverType
    BY <1>2 DEF Init, DriverType
  <2>4. Flags
    BY DEF Init, Flags
  <2> QED
    BY <2>1, <2>2, <2>3, <2>4, Types
<1> QED
  BY <1>3, TheImages DEF Init, Inv, Complete, Kept, BootedGood, Known, Spared

LEMMA TypeKept == TypeOK /\ [Next]_vars => TypeOK'
<1> SUFFICES ASSUME Counted, DeviceType, DriverType, Flags, [Next]_vars
             PROVE  Counted' /\ DeviceType' /\ DriverType' /\ Flags'
  BY Types, TypesAgain
<1> USE Limits, TheImages
<1>1. CASE GoDown
  <2>1. Counted'
    BY <1>1 DEF Counted, device, driver, GoDown, Fails
  <2>2. DeviceType'
    BY <1>1 DEF DeviceType, device, driver, GoDown, Fails
  <2>3. DriverType'
    BY <1>1 DEF DriverType, device, driver, GoDown, Fails
  <2>4. Flags'
    BY <1>1 DEF Flags, device, driver, GoDown, Fails
  <2> QED
    BY <2>1, <2>2, <2>3, <2>4
<1>2. CASE PowerLoss
  <2>1. Counted'
    BY <1>2 DEF Counted, device, driver, PowerLoss, Fails, Answering
  <2>2. DeviceType'
    BY <1>2 DEF DeviceType, device, driver, PowerLoss, Fails, Answering
  <2>3. DriverType'
    BY <1>2 DEF DriverType, device, driver, PowerLoss, Fails, Answering
  <2>4. Flags'
    BY <1>2 DEF Flags, device, driver, PowerLoss, Fails, Answering
  <2> QED
    BY <2>1, <2>2, <2>3, <2>4
<1>3. CASE Boot
  <2>1. Counted'
    BY <1>3 DEF Counted, device, driver, Boot
  <2>2. DeviceType'
    BY <1>3, BootedImage, Types DEF Boot, DeviceType
  <2>3. DriverType'
    BY <1>3 DEF DriverType, device, driver, Boot
  <2>4. Flags'
    BY <1>3 DEF Flags, device, driver, Boot
  <2> QED
    BY <2>1, <2>2, <2>3, <2>4
<1>4. CASE Connect
  <2>1. Counted'
    BY <1>4 DEF Counted, device, driver, Connect, InstallRaises, EndInstall, StartStep,
       FailStep
  <2>2. DeviceType'
    BY <1>4 DEF DeviceType, device, driver, Connect, InstallRaises, EndInstall, StartStep,
       FailStep
  <2>3. DriverType'
    BY <1>4 DEF DriverType, device, driver, Connect, InstallRaises, EndInstall, StartStep,
       FailStep
  <2>4. Flags'
    BY <1>4 DEF Flags, device, driver, Connect, InstallRaises, EndInstall, StartStep,
       FailStep
  <2> QED
    BY <2>1, <2>2, <2>3, <2>4
<1>5. CASE ShowBoot
  <2>1. Counted'
    BY <1>5 DEF Counted, device, driver, ShowBoot, Answered, NoAnswer, Answering, Configure,
       InstallRaises, EndInstall, StartStep, FailStep
  <2>2. DeviceType'
    BY <1>5 DEF DeviceType, device, driver, ShowBoot, Answered, NoAnswer, Answering,
       Configure, InstallRaises, EndInstall, StartStep, FailStep
  <2>3. DriverType'
    <3>1. bootRun \in Seq(Image) /\ <<>> \in Seq(Image)
      BY DEF DeviceType
    <3>2. CASE \E images \in {bootRun, <<>>} : Configure(images)
      BY <3>1, <3>2, CommandsType DEF Configure, DriverType
    <3>3. CASE InstallRaises
      BY <3>3 DEF InstallRaises, EndInstall, DriverType
    <3> QED
      BY <1>5, <3>2, <3>3 DEF ShowBoot
  <2>4. Flags'
    BY <1>5 DEF Flags, device, driver, ShowBoot, Answered, NoAnswer, Answering, Configure,
       InstallRaises, EndInstall, StartStep, FailStep
  <2> QED
    BY <2>1, <2>2, <2>3, <2>4
<1>6. CASE ConfigCommand
  <2>1. Counted'
    <3>1. faults' \in 0 .. MaxFaults /\ cfg' \in Config
      <4>1. (Answered \/ NoAnswer) /\ cfg' = cfg
        BY <1>6 DEF ConfigCommand
      <4> QED
        BY <4>1 DEF Answered, NoAnswer, Counted
    <3>2. CASE UNCHANGED <<attempt, pc>>
      BY <3>1, <3>2 DEF Counted
    <3>3. CASE InstallRaises
      BY <3>1, <3>3 DEF InstallRaises, EndInstall, StartStep, FailStep, Counted
    <3> QED
      BY <1>6, <3>2, <3>3 DEF ConfigCommand
  <2>2. DeviceType'
    <3>1. todo # <<>> /\ todo \in Seq(Command) /\ ("fallback" \in Listed(todo) => prev # <<>>)
      BY <1>6 DEF ConfigCommand, DriverType
    <3>2. Head(todo) = "fallback" => prev[1] \in Image
      BY <3>1, TailListed DEF DriverType
    <3>3. bootRun' \in Seq(Image)
      <4>1. CASE Configured(Head(todo))
        <5>1. <<>> \in Seq(Image) /\ bootRun \in Seq(Image)
          BY DEF DeviceType
        <5>2. Added(bootRun, New) \in Seq(Image)
          BY <5>1, AddedType
        <5>3. Head(todo) = "fallback" => Added(bootRun, prev[1]) \in Seq(Image)
          BY <3>2, <5>1, AddedType
        <5> QED
          BY <4>1, <5>1, <5>2, <5>3 DEF Configured
      <4>2. CASE UNCHANGED bootRun
        BY <4>2 DEF DeviceType
      <4> QED
        BY <1>6, <4>1, <4>2 DEF ConfigCommand
    <3> QED
      BY <1>6, <3>3 DEF DeviceType, ConfigCommand
  <2>3. DriverType'
    <3>1. todo # <<>> /\ todo \in Seq(Command)
      BY <1>6 DEF ConfigCommand, DriverType
    <3>2. CASE todo' = Tail(todo) /\ UNCHANGED <<prev, reboot, cur, success, boots, dels, removed>>
      BY <3>1, <3>2, TailListed DEF DriverType
    <3>3. CASE InstallRaises
      BY <3>3 DEF InstallRaises, EndInstall, DriverType
    <3> QED
      BY <1>6, <3>2, <3>3 DEF ConfigCommand
  <2>4. Flags'
    <3>1. inConfig' \in BOOLEAN
      <4>1. CASE Configured(Head(todo))
        <5>1. cfg.session \in BOOLEAN
          BY ConstantsAssumption DEF Counted, Config
        <5> QED
          BY <4>1, <5>1 DEF Configured
      <4>2. CASE ~Configured(Head(todo))
        <5>1. InstallRaises => inConfig' = FALSE
          BY DEF InstallRaises, EndInstall
        <5>2. InstallRaises \/ inConfig' = inConfig \/ inConfig' = FALSE
          BY <1>6, <4>2 DEF ConfigCommand
        <5> QED
          BY <5>1, <5>2 DEF Flags
      <4> QED
        BY <4>1, <4>2
    <3>2. reboot' \in BOOLEAN
      BY <1>6 DEF ConfigCommand, InstallRaises, EndInstall, Flags
    <3> QED
      BY <1>6, <3>1, <3>2 DEF ConfigCommand, InstallRaises, EndInstall, Flags
  <2> QED
    BY <2>1, <2>2, <2>3, <2>4
<1>7. CASE CheckBoot
  <2>1. Counted'
    BY <1>7 DEF Counted, device, driver, CheckBoot, GoOn, Answered, NoAnswer, Answering,
       InstallRaises, EndInstall, StartStep, FailStep
  <2>2. DeviceType'
    BY <1>7 DEF DeviceType, device, driver, CheckBoot, GoOn, Answered, NoAnswer, Answering,
       InstallRaises, EndInstall, StartStep, FailStep
  <2>3. DriverType'
    BY <1>7 DEF DriverType, device, driver, CheckBoot, GoOn, Answered, NoAnswer, Answering,
       InstallRaises, EndInstall, StartStep, FailStep
  <2>4. Flags'
    BY <1>7 DEF Flags, device, driver, CheckBoot, GoOn, Answered, NoAnswer, Answering,
       InstallRaises, EndInstall, StartStep, FailStep
  <2> QED
    BY <2>1, <2>2, <2>3, <2>4
<1>8. CASE WriteMemory
  <2>1. Counted'
    BY <1>8 DEF Counted, device, driver, WriteMemory, Saved, GoOn, Answered, NoAnswer,
       Answering, InstallRaises, EndInstall, StartStep, FailStep
  <2>2. DeviceType'
    BY <1>8 DEF DeviceType, device, driver, WriteMemory, Saved, GoOn, Answered, NoAnswer,
       Answering, InstallRaises, EndInstall, StartStep, FailStep
  <2>3. DriverType'
    BY <1>8 DEF DriverType, device, driver, WriteMemory, Saved, GoOn, Answered, NoAnswer,
       Answering, InstallRaises, EndInstall, StartStep, FailStep
  <2>4. Flags'
    BY <1>8 DEF Flags, device, driver, WriteMemory, Saved, GoOn, Answered, NoAnswer,
       Answering, InstallRaises, EndInstall, StartStep, FailStep
  <2> QED
    BY <2>1, <2>2, <2>3, <2>4
<1>9. CASE Reload
  <2>1. Counted'
    BY <1>9 DEF Counted, device, driver, Reload, Answered, NoAnswer, Answering,
       InstallRaises, EndInstall, StartStep, FailStep
  <2>2. DeviceType'
    BY <1>9 DEF DeviceType, device, driver, Reload, Answered, NoAnswer, Answering,
       InstallRaises, EndInstall, StartStep, FailStep
  <2>3. DriverType'
    BY <1>9 DEF DriverType, device, driver, Reload, Answered, NoAnswer, Answering,
       InstallRaises, EndInstall, StartStep, FailStep
  <2>4. Flags'
    BY <1>9 DEF Flags, device, driver, Reload, Answered, NoAnswer, Answering, InstallRaises,
       EndInstall, StartStep, FailStep
  <2> QED
    BY <2>1, <2>2, <2>3, <2>4
<1>10. CASE AwaitDevice
  <2>1. Counted'
    BY <1>10 DEF Counted, device, driver, AwaitDevice, GoOn, Answered, NoAnswer, Answering,
       EndVerify, StartStep, FailStep
  <2>2. DeviceType'
    BY <1>10 DEF DeviceType, device, driver, AwaitDevice, GoOn, Answered, NoAnswer,
       Answering, EndVerify, StartStep, FailStep
  <2>3. DriverType'
    BY <1>10 DEF DriverType, device, driver, AwaitDevice, GoOn, Answered, NoAnswer,
       Answering, EndVerify, StartStep, FailStep
  <2>4. Flags'
    BY <1>10 DEF Flags, device, driver, AwaitDevice, GoOn, Answered, NoAnswer, Answering,
       EndVerify, StartStep, FailStep
  <2> QED
    BY <2>1, <2>2, <2>3, <2>4
<1>11. CASE ShowVersion
  <2>1. Counted'
    BY <1>11 DEF Counted, device, driver, ShowVersion, Answered, NoAnswer, Answering,
       EndVerify, StartStep, FailStep
  <2>2. DeviceType'
    BY <1>11 DEF DeviceType, device, driver, ShowVersion, Answered, NoAnswer, Answering,
       EndVerify, StartStep, FailStep
  <2>3. DriverType'
    BY <1>11 DEF DriverType, DeviceType, ShowVersion, EndVerify
  <2>4. Flags'
    BY <1>11 DEF Flags, device, driver, ShowVersion, Answered, NoAnswer, Answering,
       EndVerify, StartStep, FailStep
  <2> QED
    BY <2>1, <2>2, <2>3, <2>4
<1>12. CASE VerifyBoot
  <2>1. Counted'
    BY <1>12 DEF Counted, device, driver, VerifyBoot, Answered, NoAnswer, Answering,
       EndVerify, StartStep, FailStep, Matches
  <2>2. DeviceType'
    BY <1>12 DEF DeviceType, device, driver, VerifyBoot, Answered, NoAnswer, Answering,
       EndVerify, StartStep, FailStep, Matches
  <2>3. DriverType'
    BY <1>12 DEF DriverType, device, driver, VerifyBoot, Answered, NoAnswer, Answering,
       EndVerify, StartStep, FailStep, Matches
  <2>4. Flags'
    BY <1>12 DEF Flags, device, driver, VerifyBoot, Answered, NoAnswer, Answering,
       EndVerify, StartStep, FailStep, Matches
  <2> QED
    BY <2>1, <2>2, <2>3, <2>4
<1>13. CASE CleanBoot
  <2>1. Counted'
    BY <1>13 DEF Counted, device, driver, CleanBoot, Answered, NoAnswer, Answering, FailStep
  <2>2. DeviceType'
    BY <1>13 DEF DeviceType, device, driver, CleanBoot, Answered, NoAnswer, Answering, FailStep
  <2>3. DriverType'
    <3>1. <<>> \in Seq(Image)
      OBVIOUS
    <3> QED
      BY <1>13, <3>1 DEF DriverType, DeviceType, CleanBoot
  <2>4. Flags'
    BY <1>13 DEF Flags, device, driver, CleanBoot, Answered, NoAnswer, Answering, FailStep
  <2> QED
    BY <2>1, <2>2, <2>3, <2>4
<1>14. CASE CleanDir
  <2>1. Counted'
    BY <1>14 DEF Counted, device, driver, CleanDir, Answered, NoAnswer, Answering, FailStep,
       FilesToDelete, Oldest
  <2>2. DeviceType'
    BY <1>14 DEF DeviceType, device, driver, CleanDir, Answered, NoAnswer, Answering,
       FailStep, FilesToDelete, Oldest
  <2>3. DriverType'
    <3>1. FilesToDelete(flash \ Listed(boots)) \subseteq Image
      BY DEF FilesToDelete, Oldest, DeviceType
    <3> QED
      BY <1>14, <3>1 DEF DriverType, CleanDir
  <2>4. Flags'
    BY <1>14 DEF Flags, device, driver, CleanDir, Answered, NoAnswer, Answering, FailStep,
       FilesToDelete, Oldest
  <2> QED
    BY <2>1, <2>2, <2>3, <2>4
<1>15. CASE Delete
  <2>1. Counted'
    BY <1>15 DEF Counted, device, driver, Delete, Answered, NoAnswer, Answering
  <2>2. DeviceType'
    BY <1>15 DEF DeviceType, device, driver, Delete, Answered, NoAnswer, Answering
  <2>3. DriverType'
    BY <1>15 DEF DriverType, device, driver, Delete, Answered, NoAnswer, Answering
  <2>4. Flags'
    BY <1>15 DEF Flags, device, driver, Delete, Answered, NoAnswer, Answering
  <2> QED
    BY <2>1, <2>2, <2>3, <2>4
<1>16. CASE Cleaned
  <2>1. Counted'
    BY <1>16 DEF Counted, device, driver, Cleaned
  <2>2. DeviceType'
    BY <1>16 DEF DeviceType, device, driver, Cleaned
  <2>3. DriverType'
    BY <1>16 DEF DriverType, device, driver, Cleaned
  <2>4. Flags'
    BY <1>16 DEF Flags, device, driver, Cleaned
  <2> QED
    BY <2>1, <2>2, <2>3, <2>4
<1>17. CASE WorkerLost
  <2>1. Counted'
    BY <1>17 DEF Counted, device, driver, WorkerLost, FailStep, FirstCall
  <2>2. DeviceType'
    BY <1>17 DEF DeviceType, device, driver, WorkerLost, FailStep, FirstCall
  <2>3. DriverType'
    BY <1>17 DEF DriverType, device, driver, WorkerLost, FailStep, FirstCall
  <2>4. Flags'
    BY <1>17 DEF Flags, device, driver, WorkerLost, FailStep, FirstCall
  <2> QED
    BY <2>1, <2>2, <2>3, <2>4
<1>18. CASE Over
  <2>1. Counted'
    BY <1>18 DEF Counted, Over, vars, device, driver
  <2>2. DeviceType'
    BY <1>18 DEF DeviceType, Over, vars, device, driver
  <2>3. DriverType'
    BY <1>18 DEF DriverType, Over, vars, device, driver
  <2>4. Flags'
    BY <1>18 DEF Flags, Over, vars, device, driver
  <2> QED
    BY <2>1, <2>2, <2>3, <2>4
<1>19. CASE UNCHANGED vars
  <2>1. Counted'
    BY <1>19 DEF Counted, device, driver, vars
  <2>2. DeviceType'
    BY <1>19 DEF DeviceType, device, driver, vars
  <2>3. DriverType'
    BY <1>19 DEF DriverType, device, driver, vars
  <2>4. Flags'
    BY <1>19 DEF Flags, device, driver, vars
  <2> QED
    BY <2>1, <2>2, <2>3, <2>4
<1> QED
  BY <1>1, <1>2, <1>3, <1>4, <1>5, <1>6, <1>7, <1>8, <1>9, <1>10, <1>11, <1>12,
     <1>13, <1>14, <1>15, <1>16, <1>17, <1>18, <1>19
     DEF Next, Device, Host, Install, Verify, Cleanup

LEMMA CompleteKept == TypeOK /\ Complete /\ [Next]_vars => Complete'
<1> SUFFICES ASSUME TypeOK /\ Complete, [Next]_vars PROVE Complete'
  OBVIOUS
<1> USE Types, Limits DEF Complete, Counted
<1>1. CASE GoDown
  BY <1>1 DEF device, driver, GoDown, Fails
<1>2. CASE PowerLoss
  BY <1>2 DEF device, driver, PowerLoss, Fails, Answering
<1>3. CASE Boot
  BY <1>3 DEF device, driver, Boot
<1>4. CASE Connect
  BY <1>4 DEF device, driver, Connect, InstallRaises, EndInstall, StartStep, FailStep
<1>5. CASE ShowBoot
  BY <1>5 DEF device, driver, ShowBoot, Answered, NoAnswer, Answering, Configure,
     InstallRaises, EndInstall, StartStep, FailStep
<1>6. CASE ConfigCommand
  <2>1. CASE UNCHANGED <<attempt, pc>>
    BY <1>6, <2>1 DEF ConfigCommand
  <2>2. CASE InstallRaises
    BY <1>6, <2>2 DEF ConfigCommand, InstallRaises, EndInstall, StartStep, FailStep
  <2> QED
    BY <1>6, <2>1, <2>2 DEF ConfigCommand
<1>7. CASE CheckBoot
  BY <1>7 DEF device, driver, CheckBoot, GoOn, Answered, NoAnswer, Answering, InstallRaises,
     EndInstall, StartStep, FailStep
<1>8. CASE WriteMemory
  BY <1>8 DEF device, driver, WriteMemory, Saved, GoOn, Answered, NoAnswer, Answering,
     InstallRaises, EndInstall, StartStep, FailStep
<1>9. CASE Reload
  BY <1>9 DEF device, driver, Reload, Answered, NoAnswer, Answering, InstallRaises,
     EndInstall, StartStep, FailStep
<1>10. CASE AwaitDevice
  BY <1>10 DEF device, driver, AwaitDevice, GoOn, Answered, NoAnswer, Answering, EndVerify,
     StartStep, FailStep
<1>11. CASE ShowVersion
  BY <1>11 DEF device, driver, ShowVersion, Answered, NoAnswer, Answering, EndVerify,
     StartStep, FailStep
<1>12. CASE VerifyBoot
  BY <1>12 DEF device, driver, VerifyBoot, Answered, NoAnswer, Answering, EndVerify,
     StartStep, FailStep, Matches
<1>13. CASE CleanBoot
  BY <1>13 DEF device, driver, CleanBoot, Answered, NoAnswer, Answering, FailStep
<1>14. CASE CleanDir
  BY <1>14 DEF device, driver, CleanDir, Answered, NoAnswer, Answering, FailStep,
     FilesToDelete, Oldest
<1>15. CASE Delete
  BY <1>15 DEF device, driver, Delete, Answered, NoAnswer, Answering
<1>16. CASE Cleaned
  BY <1>16 DEF device, driver, Cleaned
<1>17. CASE WorkerLost
  BY <1>17 DEF device, driver, WorkerLost, FailStep, FirstCall
<1>18. CASE Over
  BY <1>18 DEF device, driver, Over, vars
<1>19. CASE UNCHANGED vars
  BY <1>19 DEF device, driver, vars
<1> QED
  BY <1>1, <1>2, <1>3, <1>4, <1>5, <1>6, <1>7, <1>8, <1>9, <1>10, <1>11, <1>12,
     <1>13, <1>14, <1>15, <1>16, <1>17, <1>18, <1>19
     DEF Next, Device, Host, Install, Verify, Cleanup

LEMMA KeptKept == TypeOK /\ Kept /\ [Next]_vars => Kept'
<1> SUFFICES ASSUME TypeOK /\ Kept, [Next]_vars PROVE Kept'
  OBVIOUS
<1> USE Types DEF Kept
<1>1. CASE GoDown
  BY <1>1 DEF device, driver, GoDown, Fails
<1>2. CASE PowerLoss
  BY <1>2 DEF device, driver, PowerLoss, Fails, Answering
<1>3. CASE Boot
  BY <1>3 DEF device, driver, Boot
<1>4. CASE Connect
  BY <1>4 DEF device, driver, Connect, InstallRaises, EndInstall, StartStep, FailStep
<1>5. CASE ShowBoot
  <2>1. Good(<<>>)
    BY DEF Good
  <2>2. CASE InstallRaises
    BY <1>5, <2>2 DEF ShowBoot, InstallRaises, EndInstall, StartStep, FailStep, device
  <2>3. CASE \E images \in {bootRun, <<>>} : Configure(images)
    BY <1>5, <2>1, <2>3 DEF ShowBoot, Configure, device
  <2> QED
    BY <1>5, <2>2, <2>3 DEF ShowBoot
<1>6. CASE ConfigCommand
  <2>1. CASE InstallRaises
    BY <1>6, <2>1 DEF ConfigCommand, InstallRaises, EndInstall, StartStep, FailStep
  <2>2. CASE UNCHANGED <<bootRun, pc, prev>>
    BY <1>6, <2>2 DEF ConfigCommand
  <2>3. CASE Configured(Head(todo)) /\ UNCHANGED <<pc, prev>>
    <3> SUFFICES ASSUME Good(bootStart) PROVE Good(bootRun')
      BY <1>6, <2>3 DEF ConfigCommand
    <3>1. todo # <<>> /\ todo \in Seq(Command) /\ ("fallback" \in Listed(todo) => prev # <<>>)
      BY <1>6 DEF ConfigCommand, DriverType
    <3>2. Head(todo) = "fallback" => prev[1] = New
      BY <1>6, <3>1, TailListed DEF ConfigCommand, Good
    <3>3. Good(bootRun) /\ Good(Added(bootRun, New)) /\ Good(<<>>)
      BY AddedGood DEF Good, DeviceType
    <3> QED
      BY <2>3, <3>2, <3>3 DEF Configured
  <2> QED
    BY <1>6, <2>1, <2>2, <2>3 DEF ConfigCommand
<1>7. CASE CheckBoot
  BY <1>7 DEF device, driver, CheckBoot, GoOn, Answered, NoAnswer, Answering, InstallRaises,
     EndInstall, StartStep, FailStep
<1>8. CASE WriteMemory
  BY <1>8 DEF device, driver, WriteMemory, Saved, GoOn, Answered, NoAnswer, Answering,
     InstallRaises, EndInstall, StartStep, FailStep
<1>9. CASE Reload
  BY <1>9 DEF device, driver, Reload, Answered, NoAnswer, Answering, InstallRaises,
     EndInstall, StartStep, FailStep
<1>10. CASE AwaitDevice
  BY <1>10 DEF device, driver, AwaitDevice, GoOn, Answered, NoAnswer, Answering, EndVerify,
     StartStep, FailStep
<1>11. CASE ShowVersion
  BY <1>11 DEF device, driver, ShowVersion, Answered, NoAnswer, Answering, EndVerify,
     StartStep, FailStep
<1>12. CASE VerifyBoot
  BY <1>12 DEF device, driver, VerifyBoot, Answered, NoAnswer, Answering, EndVerify,
     StartStep, FailStep, Matches
<1>13. CASE CleanBoot
  BY <1>13 DEF device, driver, CleanBoot, Answered, NoAnswer, Answering, FailStep
<1>14. CASE CleanDir
  BY <1>14 DEF device, driver, CleanDir, Answered, NoAnswer, Answering, FailStep,
     FilesToDelete, Oldest
<1>15. CASE Delete
  BY <1>15 DEF device, driver, Delete, Answered, NoAnswer, Answering
<1>16. CASE Cleaned
  BY <1>16 DEF device, driver, Cleaned
<1>17. CASE WorkerLost
  BY <1>17 DEF device, driver, WorkerLost, FailStep, FirstCall
<1>18. CASE Over
  BY <1>18 DEF device, driver, Over, vars
<1>19. CASE UNCHANGED vars
  BY <1>19 DEF device, driver, vars
<1> QED
  BY <1>1, <1>2, <1>3, <1>4, <1>5, <1>6, <1>7, <1>8, <1>9, <1>10, <1>11, <1>12,
     <1>13, <1>14, <1>15, <1>16, <1>17, <1>18, <1>19
     DEF Next, Device, Host, Install, Verify, Cleanup

LEMMA BootedGoodKept == TypeOK /\ Complete /\ Kept /\ BootedGood /\ [Next]_vars => BootedGood'
<1> SUFFICES ASSUME TypeOK /\ Complete /\ Kept /\ BootedGood, [Next]_vars PROVE BootedGood'
  OBVIOUS
<1> USE Types, GoodBoot, Limits DEF Complete, Kept, BootedGood, Counted
<1>1. CASE GoDown
  BY <1>1 DEF device, driver, GoDown, Fails
<1>2. CASE PowerLoss
  BY <1>2 DEF device, driver, PowerLoss, Fails, Answering
<1>3. CASE Boot
  BY <1>3 DEF device, driver, Boot
<1>4. CASE Connect
  BY <1>4 DEF device, driver, Connect, InstallRaises, EndInstall, StartStep, FailStep
<1>5. CASE ShowBoot
  BY <1>5 DEF device, driver, ShowBoot, Answered, NoAnswer, Answering, Configure,
     InstallRaises, EndInstall, StartStep, FailStep
<1>6. CASE ConfigCommand
  BY <1>6 DEF device, driver, ConfigCommand, Answered, NoAnswer, Answering, InstallRaises,
     EndInstall, StartStep, FailStep
<1>7. CASE CheckBoot
  BY <1>7 DEF device, driver, CheckBoot, GoOn, Answered, NoAnswer, Answering, InstallRaises,
     EndInstall, StartStep, FailStep
<1>8. CASE WriteMemory
  BY <1>8 DEF device, driver, WriteMemory, Saved, GoOn, Answered, NoAnswer, Answering,
     InstallRaises, EndInstall, StartStep, FailStep
<1>9. CASE Reload
  BY <1>9 DEF device, driver, Reload, Answered, NoAnswer, Answering, InstallRaises,
     EndInstall, StartStep, FailStep
<1>10. CASE AwaitDevice
  BY <1>10 DEF device, driver, AwaitDevice, GoOn, Answered, NoAnswer, Answering, EndVerify,
     StartStep, FailStep
<1>11. CASE ShowVersion
  BY <1>11 DEF device, driver, ShowVersion, Answered, NoAnswer, Answering, EndVerify,
     StartStep, FailStep
<1>12. CASE VerifyBoot
  BY <1>12 DEF device, driver, VerifyBoot, Answered, NoAnswer, Answering, EndVerify,
     StartStep, FailStep, Matches
<1>13. CASE CleanBoot
  BY <1>13 DEF device, driver, CleanBoot, Answered, NoAnswer, Answering, FailStep
<1>14. CASE CleanDir
  BY <1>14 DEF device, driver, CleanDir, Answered, NoAnswer, Answering, FailStep,
     FilesToDelete, Oldest
<1>15. CASE Delete
  BY <1>15 DEF device, driver, Delete, Answered, NoAnswer, Answering
<1>16. CASE Cleaned
  BY <1>16 DEF device, driver, Cleaned
<1>17. CASE WorkerLost
  BY <1>17 DEF device, driver, WorkerLost, FailStep, FirstCall
<1>18. CASE Over
  BY <1>18 DEF device, driver, Over, vars
<1>19. CASE UNCHANGED vars
  BY <1>19 DEF device, driver, vars
<1> QED
  BY <1>1, <1>2, <1>3, <1>4, <1>5, <1>6, <1>7, <1>8, <1>9, <1>10, <1>11, <1>12,
     <1>13, <1>14, <1>15, <1>16, <1>17, <1>18, <1>19
     DEF Next, Device, Host, Install, Verify, Cleanup

LEMMA KnownKept == TypeOK /\ Complete /\ Kept /\ BootedGood /\ Known /\ [Next]_vars => Known'
<1> SUFFICES ASSUME TypeOK /\ Complete /\ Kept /\ BootedGood /\ Known, [Next]_vars PROVE Known'
  OBVIOUS
<1> USE Types, Limits, TheImages DEF Kept, BootedGood, Known, Counted, DeviceType
<1>1. CASE GoDown
  BY <1>1 DEF device, driver, GoDown, Fails
<1>2. CASE PowerLoss
  BY <1>2 DEF device, driver, PowerLoss, Fails, Answering
<1>3. CASE Boot
  BY <1>3 DEF device, driver, Boot
<1>4. CASE Connect
  BY <1>4 DEF device, driver, Connect, InstallRaises, EndInstall, StartStep, FailStep
<1>5. CASE ShowBoot
  BY <1>5 DEF device, driver, ShowBoot, Answered, NoAnswer, Answering, Configure,
     InstallRaises, EndInstall, StartStep, FailStep
<1>6. CASE ConfigCommand
  BY <1>6 DEF device, driver, ConfigCommand, Answered, NoAnswer, Answering, InstallRaises,
     EndInstall, StartStep, FailStep
<1>7. CASE CheckBoot
  BY <1>7 DEF device, driver, CheckBoot, GoOn, Answered, NoAnswer, Answering, InstallRaises,
     EndInstall, StartStep, FailStep
<1>8. CASE WriteMemory
  BY <1>8 DEF device, driver, WriteMemory, Saved, GoOn, Answered, NoAnswer, Answering,
     InstallRaises, EndInstall, StartStep, FailStep
<1>9. CASE Reload
  BY <1>9 DEF device, driver, Reload, Answered, NoAnswer, Answering, InstallRaises,
     EndInstall, StartStep, FailStep
<1>10. CASE AwaitDevice
  BY <1>10 DEF device, driver, AwaitDevice, GoOn, Answered, NoAnswer, Answering, EndVerify,
     StartStep, FailStep
<1>11. CASE ShowVersion
  BY <1>11 DEF device, driver, ShowVersion, Answered, NoAnswer, Answering, EndVerify,
     StartStep, FailStep
<1>12. CASE VerifyBoot
  BY <1>12 DEF device, driver, VerifyBoot, Answered, NoAnswer, Answering, EndVerify,
     StartStep, FailStep, Matches
<1>13. CASE CleanBoot
  BY <1>13 DEF device, driver, CleanBoot, Answered, NoAnswer, Answering, FailStep
<1>14. CASE CleanDir
  BY <1>14 DEF device, driver, CleanDir, Answered, NoAnswer, Answering, FailStep,
     FilesToDelete, Oldest
<1>15. CASE Delete
  BY <1>15 DEF device, driver, Delete, Answered, NoAnswer, Answering
<1>16. CASE Cleaned
  BY <1>16 DEF device, driver, Cleaned
<1>17. CASE WorkerLost
  BY <1>17 DEF device, driver, WorkerLost, FailStep, FirstCall
<1>18. CASE Over
  BY <1>18 DEF device, driver, Over, vars
<1>19. CASE UNCHANGED vars
  BY <1>19 DEF device, driver, vars
<1> QED
  BY <1>1, <1>2, <1>3, <1>4, <1>5, <1>6, <1>7, <1>8, <1>9, <1>10, <1>11, <1>12,
     <1>13, <1>14, <1>15, <1>16, <1>17, <1>18, <1>19
     DEF Next, Device, Host, Install, Verify, Cleanup

LEMMA SparedKept == TypeOK /\ Kept /\ Known /\ Spared /\ [Next]_vars => Spared'
<1> SUFFICES ASSUME TypeOK /\ Kept /\ Known /\ Spared, [Next]_vars PROVE Spared'
  OBVIOUS
<1> USE Types DEF Kept, Known, Spared
<1>1. CASE GoDown
  BY <1>1 DEF device, driver, GoDown, Fails
<1>2. CASE PowerLoss
  BY <1>2 DEF device, driver, PowerLoss, Fails, Answering
<1>3. CASE Boot
  BY <1>3 DEF device, driver, Boot
<1>4. CASE Connect
  BY <1>4 DEF device, driver, Connect, InstallRaises, EndInstall, StartStep, FailStep
<1>5. CASE ShowBoot
  BY <1>5 DEF device, driver, ShowBoot, Answered, NoAnswer, Answering, Configure,
     InstallRaises, EndInstall, StartStep, FailStep
<1>6. CASE ConfigCommand
  BY <1>6 DEF device, driver, ConfigCommand, Answered, NoAnswer, Answering, InstallRaises,
     EndInstall, StartStep, FailStep
<1>7. CASE CheckBoot
  BY <1>7 DEF device, driver, CheckBoot, GoOn, Answered, NoAnswer, Answering, InstallRaises,
     EndInstall, StartStep, FailStep
<1>8. CASE WriteMemory
  BY <1>8 DEF device, driver, WriteMemory, Saved, GoOn, Answered, NoAnswer, Answering,
     InstallRaises, EndInstall, StartStep, FailStep
<1>9. CASE Reload
  BY <1>9 DEF device, driver, Reload, Answered, NoAnswer, Answering, InstallRaises,
     EndInstall, StartStep, FailStep
<1>10. CASE AwaitDevice
  BY <1>10 DEF device, driver, AwaitDevice, GoOn, Answered, NoAnswer, Answering, EndVerify,
     StartStep, FailStep
<1>11. CASE ShowVersion
  BY <1>11 DEF device, driver, ShowVersion, Answered, NoAnswer, Answering, EndVerify,
     StartStep, FailStep
<1>12. CASE VerifyBoot
  BY <1>12 DEF device, driver, VerifyBoot, Answered, NoAnswer, Answering, EndVerify,
     StartStep, FailStep, Matches
<1>13. CASE CleanBoot
  <2>1. Good(<<>>)
    BY DEF Good
  <2> QED
    BY <1>13, <2>1 DEF device, CleanBoot, Answered, NoAnswer, FailStep
<1>14. CASE CleanDir
  BY <1>14 DEF device, driver, CleanDir, Answered, NoAnswer, Answering, FailStep,
     FilesToDelete, Oldest
<1>15. CASE Delete
  BY <1>15 DEF device, driver, Delete, Answered, NoAnswer, Answering
<1>16. CASE Cleaned
  BY <1>16 DEF device, driver, Cleaned
<1>17. CASE WorkerLost
  BY <1>17 DEF device, driver, WorkerLost, FailStep, FirstCall
<1>18. CASE Over
  BY <1>18 DEF device, driver, Over, vars
<1>19. CASE UNCHANGED vars
  BY <1>19 DEF device, driver, vars
<1> QED
  BY <1>1, <1>2, <1>3, <1>4, <1>5, <1>6, <1>7, <1>8, <1>9, <1>10, <1>11, <1>12,
     <1>13, <1>14, <1>15, <1>16, <1>17, <1>18, <1>19
     DEF Next, Device, Host, Install, Verify, Cleanup

LEMMA InvKept == Inv /\ [Next]_vars => Inv'
BY TypeKept, CompleteKept, KeptKept, BootedGoodKept, KnownKept, SparedKept DEF Inv

THEOREM Invariance == Spec => []Inv
BY InitInv, InvKept, PTL DEF Spec

-----------------------------------------------------------------------------

(* The type invariant holds for any images, boot lists, attempts and faults. *)
THEOREM TypeCorrect == Spec => []TypeOK
<1>1. Inv => TypeOK
  BY DEF Inv
<1> QED
  BY <1>1, Invariance, PTL

(* A verification against the new image is a promise about the next reload:  *)
(* the list the image was booted from is the saved one still, or one that    *)
(* starts with it.                                                           *)
THEOREM Promise == Spec => []VerifiedBoots
<1>1. Inv => VerifiedBoots
  <2> SUFFICES ASSUME Inv, pc = "cleanBoot", attempt = 1, fresh, cfg.target = New, bootStart # <<>>
               PROVE  NextBoot = {New}
    BY DEF VerifiedBoots
  <2>1. running = New
    BY DEF Inv, Known
  <2>2. flash = Image /\ bootStart[1] = New
    BY <2>1 DEF Inv, Complete, BootedGood, Good
  <2> QED
    BY <2>2, BootsNew DEF Inv
<1> QED
  BY <1>1, Invariance, PTL

LEMMA ListedFirst == ASSUME NEW list \in Seq(Image), list # <<>> PROVE list[1] \in Listed(list)
BY DEF Listed

LEMMA OnlyDeleteDeletes == ASSUME Inv, [Next]_vars, flash' # flash
                           PROVE  pc = "delete" /\ \E file \in dels : flash \ flash'
                              \subseteq {file}
<1> USE DEF device
<1>1. CASE GoDown
  BY <1>1 DEF GoDown
<1>2. CASE PowerLoss
  BY <1>2 DEF PowerLoss
<1>3. CASE Boot
  BY <1>3 DEF Boot
<1>4. CASE Connect
  BY <1>4 DEF Connect
<1>5. CASE ShowBoot
  BY <1>5 DEF ShowBoot
<1>6. CASE ConfigCommand
  BY <1>6 DEF ConfigCommand
<1>7. CASE CheckBoot
  BY <1>7 DEF CheckBoot
<1>8. CASE WriteMemory
  BY <1>8 DEF WriteMemory
<1>9. CASE Reload
  BY <1>9 DEF Reload
<1>10. CASE AwaitDevice
  BY <1>10 DEF AwaitDevice
<1>11. CASE ShowVersion
  BY <1>11 DEF ShowVersion
<1>12. CASE VerifyBoot
  BY <1>12 DEF VerifyBoot
<1>13. CASE CleanBoot
  BY <1>13 DEF CleanBoot
<1>14. CASE CleanDir
  BY <1>14 DEF CleanDir
<1>15. CASE Delete
  BY <1>15 DEF Delete
<1>16. CASE Cleaned
  BY <1>16 DEF Cleaned
<1>17. CASE WorkerLost
  BY <1>17 DEF WorkerLost
<1>18. CASE Over
  BY <1>18 DEF Over, vars
<1>19. CASE UNCHANGED vars
  BY <1>19 DEF vars
<1> QED
  BY <1>1, <1>2, <1>3, <1>4, <1>5, <1>6, <1>7, <1>8, <1>9, <1>10, <1>11, <1>12,
     <1>13, <1>14, <1>15, <1>16, <1>17, <1>18, <1>19
     DEF Next, Device, Host, Install, Verify, Cleanup

LEMMA Sparing ==
  Inv /\ [Next]_vars =>
    [/\ cfg.target = New /\ boots # <<>> => New \notin flash \ flash'
     /\ boots = bootStart => (flash \ flash') \cap Listed(bootStart) = {}]_vars
<1> SUFFICES ASSUME Inv, [Next]_vars, flash' # flash
             PROVE  /\ cfg.target = New /\ boots # <<>> => New \notin flash \ flash'
                    /\ boots = bootStart => (flash \ flash') \cap Listed(bootStart) = {}
  OBVIOUS
<1>1. pc = "delete" /\ (flash \ flash') \cap Listed(boots) = {}
  BY OnlyDeleteDeletes DEF Inv, Spared
<1>2. cfg.target = New /\ boots # <<>> => New \in Listed(boots)
  BY <1>1, ListedFirst DEF Inv, Spared, Good, TypeOK
<1> QED
  BY <1>1, <1>2

(* Cleanup spares the new image and the images of the list it has read. *)
THEOREM SparedByCleanup == Spec => DeletionsSpareBoot
BY Invariance, Sparing, PTL DEF Spec, DeletionsSpareBoot

=============================================================================
