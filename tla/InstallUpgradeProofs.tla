------------------------ MODULE InstallUpgradeProofs ------------------------
(***************************************************************************)
(* The safety properties of InstallUpgrade for every set of versions, every *)
(* substring relation and every bound on retries, polls and faults.        *)
(***************************************************************************)
EXTENDS InstallUpgrade, TLAPS

\* The device only ever holds the two versions, one that runs the new version
\* was booted into it from the saved packages.conf statement, and the driver's
\* save comes behind a whole set, or one a reload has undone.
DeviceInv ==
  /\ {running, pkg, base} \subseteq {Old, New}
  /\ Answering /\ running = New => pkg = New /\ bootStart = "packages"
  /\ pc = "write" => bootRun \in {"packages", bootStart}
  /\ bootStart = "empty" => cfg.activate

\* A version read since the last reload is the one that runs, and a commit
\* seen since then still stands.
ReadInv ==
  /\ fresh => Answering /\ cur = running
  /\ pc \in InstallSteps => ~committed
  /\ committed /\ fresh => pkg = base

\* What a successful verification saw.
VerdictInv ==
  Verified => committed /\ (cfg.target # NoVersion => Contains(cur, cfg.target))

\* Who may give the rollback point up.
CommitInv ==
  /\ RollbackPointHeld
  /\ pc = "commit" => cfg.autoCommit

IInv == TypeOK /\ DeviceInv /\ ReadInv /\ VerdictInv /\ CommitInv

-----------------------------------------------------------------------------
(* Type correctness. *)

LEMMA FailStepType ==
  ASSUME TypeOK, NEW first \in Steps, FailStep(first)
  PROVE  pc' \in Steps \cup Ended /\ attempt' \in 1 .. MaxAttempts
BY ConstantsAssumption DEF TypeOK, FailStep, Ended

LEMMA StartStepType ==
  ASSUME NEW first \in Steps, StartStep(first)
  PROVE  pc' \in Steps \cup Ended /\ attempt' \in 1 .. MaxAttempts
BY ConstantsAssumption DEF StartStep

LEMMA EndInstallType ==
  ASSUME TypeOK, NEW result \in InstallResult, EndInstall(result)
  PROVE  /\ pc' \in Steps \cup Ended /\ attempt' \in 1 .. MaxAttempts
         /\ inst' \in InstallResult
         /\ cur' \in MaybeVersion /\ committed' \in BOOLEAN
         /\ ver' \in VerifyResult /\ clean' \in CleanupOutcome
<1>1. {"poll", "connect"} \subseteq Steps
  BY DEF Steps, InstallSteps, VerifySteps
<1>. QED
  BY <1>1, FailStepType, StartStepType DEF EndInstall, TypeOK

LEMMA EndVerifyType ==
  ASSUME TypeOK, NEW result \in VerifyResult, EndVerify(result)
  PROVE  /\ pc' \in Steps \cup Ended /\ attempt' \in 1 .. MaxAttempts
         /\ ver' \in VerifyResult /\ polls' \in 0 .. MaxPolls
<1>1. {"poll", "cleanup"} \subseteq Steps
  BY DEF Steps, InstallSteps, VerifySteps
<1>. QED
  BY <1>1, ConstantsAssumption, FailStepType, StartStepType DEF EndVerify, TypeOK

\* Every result the install step ends with is an InstallResult.
LEMMA InstallResults ==
  ASSUME TypeOK
  PROVE  /\ TakenForReboot \in InstallResult
         /\ AlreadyAtTarget \in InstallResult
         /\ ConnectionLost \in InstallResult
         /\ \A b \in BOOLEAN :
              Accepted(b) \in InstallResult /\ Failure(b) \in InstallResult
BY DEF TypeOK, Config, Failure, TakenForReboot, AlreadyAtTarget, ConnectionLost, Accepted, InstallResult

LEMMA VerifyResults ==
  /\ NoVerify \in VerifyResult
  /\ \A s, m, c \in BOOLEAN :
       [success |-> s, match |-> m, changed |-> TRUE, committed |-> c] \in VerifyResult
BY DEF NoVerify, VerifyResult

LEMMA FaultCount ==
  ASSUME TypeOK
  PROVE  /\ Answered => faults' \in 0 .. MaxFaults
         /\ NoAnswer => faults' \in 0 .. MaxFaults
         /\ faults < MaxFaults /\ faults' = faults + 1 => faults' \in 0 .. MaxFaults
BY ConstantsAssumption DEF TypeOK, Answered, NoAnswer

LEMMA TypeStep == TypeOK /\ [Next]_vars => TypeOK'
<1> SUFFICES ASSUME TypeOK, [Next]_vars
         PROVE  TypeOK'
  OBVIOUS
<1>. USE DEF TypeOK, device, driver, Steps, InstallSteps, VerifySteps, Ended
<1>1. CASE GoDown
  BY <1>1 DEF GoDown
<1>2. CASE PowerLoss
  BY <1>2, FaultCount DEF PowerLoss
<1>3. CASE Boot
  BY <1>3, ConstantsAssumption DEF Boot, NextBoot
<1>4. CASE AutoRollback
  BY <1>4 DEF AutoRollback
<1>5. CASE Connect
  BY <1>5 DEF Connect
<1>6. CASE ConnectRaises
  BY <1>6, FaultCount, InstallResults, EndInstallType DEF ConnectRaises
<1>7. CASE ShowBoot
  BY <1>7, FaultCount DEF ShowBoot
<1>8. CASE ConfigureBoot
  BY <1>8, FaultCount DEF ConfigureBoot, BootStatement
<1>9. CASE InstallAdd
  BY <1>9, FaultCount, InstallResults, EndInstallType, ConstantsAssumption DEF InstallAdd, Activation, PromptsAnswered, Config
<1>10. CASE InstallSameImage
  BY <1>10, FaultCount, InstallResults, EndInstallType DEF InstallSameImage
<1>11. CASE InstallRefused
  BY <1>11, FaultCount, InstallResults, EndInstallType DEF InstallRefused, PromptsAnswered
<1>12. CASE InstallLost
  BY <1>12, FaultCount, InstallResults, EndInstallType, ConstantsAssumption DEF InstallLost, Activation, PromptsAnswered, Config
<1>13. CASE Poll
  BY <1>13, FaultCount, ConstantsAssumption DEF Poll, TimeLeft, WaitInterval
<1>14. CASE PollTimeout
  BY <1>14, EndVerifyType, VerifyResults DEF PollTimeout
<1>15. CASE ShowVersion
  BY <1>15, FaultCount, EndVerifyType, VerifyResults DEF ShowVersion, MaybeVersion
<1>16. CASE InstallSummary
  BY <1>16, FaultCount DEF InstallSummary
<1>17. CASE InstallCommit
  BY <1>17, FaultCount DEF InstallCommit
<1>18. CASE SummaryAgain
  BY <1>18, FaultCount DEF SummaryAgain
<1>19. CASE Decide
  BY <1>19, EndVerifyType, VerifyResults DEF Decide, Matches
<1>20. CASE Cleanup
  BY <1>20, FaultCount, FailStepType DEF Cleanup, EndCleanup, CleanupOutcome
<1>21. CASE WorkerLost
  BY <1>21, FaultCount, FailStepType, ConstantsAssumption DEF WorkerLost, FirstCall
<1>22. CASE WorkerLostInstalling
  BY <1>22, FaultCount, FailStepType, ConstantsAssumption DEF WorkerLostInstalling, Activation, PromptsAnswered
<1>23. CASE Over
  BY <1>23 DEF Over, vars
<1>24. CASE UNCHANGED vars
  BY <1>24 DEF vars
<1>25. CASE WriteMemory
  BY <1>25, FaultCount DEF WriteMemory
<1>. QED
  BY <1>1, <1>2, <1>3, <1>4, <1>5, <1>6, <1>7, <1>8, <1>9, <1>10, <1>11, <1>12, <1>13, <1>14, <1>15, <1>16, <1>17, <1>18, <1>19, <1>20, <1>21, <1>22, <1>23, <1>24, <1>25
     DEF Next, Device, Host, Install, Verify, Loss

-----------------------------------------------------------------------------
(* The inductive invariant, one conjunct at a time. *)

\* The new version is only ever booted from a saved packages.conf statement.
LEMMA DeviceStep == IInv /\ [Next]_vars => DeviceInv'
<1> SUFFICES ASSUME IInv, [Next]_vars
         PROVE  DeviceInv'
  OBVIOUS
<1>. USE ConstantsAssumption DEF IInv, TypeOK, device, driver, DeviceInv, Answering
<1>1. CASE GoDown \/ PowerLoss \/ AutoRollback
  BY <1>1 DEF GoDown, PowerLoss, AutoRollback
<1>2. CASE Boot
  BY <1>2 DEF Boot, NextBoot
<1>3. CASE ConfigureBoot
  BY <1>3 DEF ConfigureBoot
<1>4. CASE WriteMemory
  BY <1>4 DEF WriteMemory
\* Whatever the offer to save does, the new version does not run yet.
<1>5. ASSUME PromptsAnswered, pc' # "write", UNCHANGED <<running, bootRun, cfg>>,
             (Activation /\ Answering) \/ UNCHANGED <<pkg, base, up>>
      PROVE  DeviceInv'
  BY <1>5 DEF PromptsAnswered, Activation, Active
<1>6. CASE InstallAdd \/ InstallLost
  BY <1>5, <1>6 DEF InstallAdd, InstallLost, Answered, EndInstall, StartStep, FailStep
<1>7. CASE WorkerLostInstalling
  BY <1>5, <1>7 DEF WorkerLostInstalling, FailStep
<1>8. CASE InstallRefused
  <2>1. PromptsAnswered /\ pc' # "write"
    BY <1>8 DEF InstallRefused, PromptsAnswered, EndInstall, StartStep, FailStep
  <2>. QED
    BY <1>5, <1>8, <2>1 DEF InstallRefused
<1>9. CASE InstallCommit
  BY <1>9 DEF InstallCommit
<1>10. CASE ConnectRaises \/ InstallSameImage
  BY <1>10 DEF ConnectRaises, InstallSameImage, EndInstall, StartStep, FailStep
<1>11. CASE Connect \/ ShowBoot \/ Poll \/ InstallSummary \/ SummaryAgain
  BY <1>11 DEF Connect, ShowBoot, Poll, InstallSummary, SummaryAgain
<1>12. CASE PollTimeout \/ ShowVersion \/ Decide
  BY <1>12 DEF PollTimeout, ShowVersion, Decide, EndVerify, StartStep, FailStep
<1>13. CASE Cleanup
  BY <1>13 DEF Cleanup, EndCleanup, FailStep
<1>14. CASE WorkerLost
  BY <1>14 DEF WorkerLost, FailStep, FirstCall
<1>15. CASE Over \/ UNCHANGED vars
  BY <1>15 DEF Over, vars
<1>. QED
  BY <1>1, <1>2, <1>3, <1>4, <1>6, <1>7, <1>8, <1>9, <1>10, <1>11, <1>12, <1>13, <1>14, <1>15
     DEF Next, Device, Host, Install, Verify, Loss

\* What the driver read since the last reload stays true until the next one.
LEMMA ReadStep == IInv /\ [Next]_vars => ReadInv'
<1> SUFFICES ASSUME IInv, [Next]_vars
         PROVE  ReadInv'
  OBVIOUS
<1>. USE ConstantsAssumption DEF IInv, TypeOK, device, driver, ReadInv, Answering, InstallSteps, VerifySteps, Steps
<1>1. CASE GoDown \/ PowerLoss \/ AutoRollback \/ Boot
  BY <1>1 DEF GoDown, PowerLoss, AutoRollback, Boot, DeviceInv
<1>2. CASE Connect \/ ShowBoot \/ ConfigureBoot \/ WriteMemory
  BY <1>2 DEF Connect, ShowBoot, ConfigureBoot, WriteMemory, Answered, NoAnswer
<1>3. CASE ConnectRaises
  <2>1. /\ pc = "connect" /\ UNCHANGED <<device, cur, committed, fresh>>
    BY <1>3 DEF ConnectRaises, EndInstall
  <2>. QED
    BY <2>1
<1>4. CASE InstallSameImage
  BY <1>4 DEF InstallSameImage, EndInstall
<1>5. CASE InstallRefused
  <2>1. /\ pc = "installAdd" /\ UNCHANGED <<up, running, pkg, base, cur, committed, fresh>>
    BY <1>5 DEF InstallRefused, EndInstall
  <2>. QED
    BY <2>1
<1>6. CASE InstallAdd
  BY <1>6 DEF InstallAdd, Activation, EndInstall, FailStep, StartStep
<1>7. CASE InstallLost
  BY <1>7 DEF InstallLost, Activation, EndInstall, FailStep, StartStep
<1>8. CASE WorkerLostInstalling
  BY <1>8 DEF WorkerLostInstalling, Activation, FailStep
<1>9. CASE WorkerLost
  BY <1>9 DEF WorkerLost, FailStep, FirstCall
<1>10. CASE Poll \/ PollTimeout \/ Decide
  BY <1>10 DEF Poll, PollTimeout, Decide, EndVerify, StartStep, FailStep
<1>11. CASE ShowVersion
  BY <1>11 DEF ShowVersion, EndVerify, StartStep, FailStep, Answered
<1>12. CASE InstallSummary \/ InstallCommit \/ SummaryAgain
  BY <1>12 DEF InstallSummary, InstallCommit, SummaryAgain
<1>13. CASE Cleanup
  BY <1>13 DEF Cleanup, EndCleanup, FailStep
<1>14. CASE Over \/ UNCHANGED vars
  BY <1>14 DEF Over, vars
<1>. QED
  BY <1>1, <1>2, <1>3, <1>4, <1>5, <1>6, <1>7, <1>8, <1>9, <1>10, <1>11, <1>12, <1>13, <1>14
     DEF Next, Device, Host, Install, Verify, Loss

\* A success is only ever reported on what the driver read.
LEMMA VerdictStep == IInv /\ [Next]_vars => VerdictInv'
<1> SUFFICES ASSUME IInv, [Next]_vars
         PROVE  VerdictInv'
  OBVIOUS
<1>. USE ConstantsAssumption DEF IInv, TypeOK, device, driver, VerdictInv, Verified
<1>1. CASE GoDown \/ PowerLoss \/ AutoRollback \/ Boot
  BY <1>1 DEF GoDown, PowerLoss, AutoRollback, Boot
<1>2. CASE Connect \/ ShowBoot \/ ConfigureBoot \/ WriteMemory
  BY <1>2 DEF Connect, ShowBoot, ConfigureBoot, WriteMemory
<1>3. CASE ConnectRaises \/ InstallSameImage \/ InstallRefused \/ InstallAdd \/ InstallLost
  BY <1>3 DEF ConnectRaises, InstallSameImage, InstallRefused, InstallAdd, InstallLost, EndInstall, FailStep, StartStep
<1>4. CASE WorkerLost \/ WorkerLostInstalling
  BY <1>4 DEF WorkerLost, WorkerLostInstalling, FailStep, FirstCall
<1>5. CASE Poll \/ InstallSummary \/ InstallCommit \/ SummaryAgain
  BY <1>5 DEF Poll, InstallSummary, InstallCommit, SummaryAgain
<1>6. CASE PollTimeout \/ ShowVersion
  BY <1>6 DEF PollTimeout, ShowVersion, EndVerify, NoVerify, StartStep, FailStep
<1>7. CASE Decide
  BY <1>7 DEF Decide, EndVerify, Matches, StartStep, FailStep
<1>8. CASE Cleanup
  BY <1>8 DEF Cleanup, EndCleanup, FailStep
<1>9. CASE Over \/ UNCHANGED vars
  BY <1>9 DEF Over, vars
<1>. QED
  BY <1>1, <1>2, <1>3, <1>4, <1>5, <1>6, <1>7, <1>8, <1>9
     DEF Next, Device, Host, Install, Verify, Loss

\* Every commit is one the operator asked for.
LEMMA CommitStep == IInv /\ [Next]_vars => CommitInv'
<1> SUFFICES ASSUME IInv, [Next]_vars
         PROVE  CommitInv'
  OBVIOUS
<1>. USE ConstantsAssumption DEF IInv, TypeOK, device, driver, CommitInv, RollbackPointHeld
<1>1. CASE GoDown \/ PowerLoss \/ AutoRollback \/ Boot
  BY <1>1 DEF GoDown, PowerLoss, AutoRollback, Boot
<1>2. CASE Connect \/ ShowBoot \/ ConfigureBoot \/ WriteMemory
  BY <1>2 DEF Connect, ShowBoot, ConfigureBoot, WriteMemory
<1>3. CASE ConnectRaises \/ InstallSameImage \/ InstallRefused
  BY <1>3 DEF ConnectRaises, InstallSameImage, InstallRefused, EndInstall, FailStep, StartStep
<1>4. CASE InstallAdd \/ InstallLost
  BY <1>4 DEF InstallAdd, InstallLost, Activation, EndInstall, FailStep, StartStep
<1>5. CASE WorkerLost
  BY <1>5 DEF WorkerLost, FailStep, FirstCall
<1>6. CASE WorkerLostInstalling
  BY <1>6 DEF WorkerLostInstalling, Activation, FailStep
<1>7. CASE Poll \/ InstallSummary \/ SummaryAgain
  BY <1>7 DEF Poll, InstallSummary, SummaryAgain
<1>8. CASE InstallCommit
  BY <1>8 DEF InstallCommit
<1>9. CASE PollTimeout \/ ShowVersion \/ Decide
  BY <1>9 DEF PollTimeout, ShowVersion, Decide, EndVerify, StartStep, FailStep
<1>10. CASE Cleanup
  BY <1>10 DEF Cleanup, EndCleanup, FailStep
<1>11. CASE Over \/ UNCHANGED vars
  BY <1>11 DEF Over, vars
<1>. QED
  BY <1>1, <1>2, <1>3, <1>4, <1>5, <1>6, <1>7, <1>8, <1>9, <1>10, <1>11
     DEF Next, Device, Host, Install, Verify, Loss

\* The invariant holds of every initial state.
LEMMA InitIInv == Init => IInv
<1> SUFFICES ASSUME Init PROVE IInv
  OBVIOUS
<1>. USE ConstantsAssumption DEF Init
<1>1. TypeOK
  <2>1. inst \in InstallResult /\ ver \in VerifyResult
    BY DEF Failure, InstallResult, NoVerify, VerifyResult
  <2>2. /\ up \in {"up", "reloading", "down"}
        /\ running \in Version /\ pkg \in Version /\ base \in Version
        /\ bootRun \in BootStatement /\ bootStart \in BootStatement
        /\ cfg \in Config /\ pc \in Steps \cup Ended
    BY DEF BootStatement, Steps, InstallSteps
  <2>3. /\ attempt \in 1 .. MaxAttempts /\ polls \in 0 .. MaxPolls
        /\ faults \in 0 .. MaxFaults
    OBVIOUS
  <2>4. /\ cur \in MaybeVersion /\ committed \in BOOLEAN
        /\ clean \in CleanupOutcome /\ fresh \in BOOLEAN
    BY DEF MaybeVersion, CleanupOutcome
  <2>. QED
    BY <2>1, <2>2, <2>3, <2>4 DEF TypeOK
<1>2. DeviceInv
  BY DEF DeviceInv, BootStatement
<1>3. ReadInv /\ VerdictInv /\ CommitInv
  BY DEF ReadInv, VerdictInv, Verified, CommitInv, RollbackPointHeld
<1>. QED
  BY <1>1, <1>2, <1>3 DEF IInv

\* The inductive invariant of the module.
THEOREM Invariant == Spec => []IInv
<1>1. IInv /\ [Next]_vars => IInv'
  <2>1. IInv => TypeOK
    BY DEF IInv
  <2>. QED
    BY <2>1, TypeStep, DeviceStep, ReadStep, VerdictStep, CommitStep DEF IInv
<1>. QED
  BY InitIInv, <1>1, PTL DEF Spec

-----------------------------------------------------------------------------
(* The properties. *)

\* Type correctness for every number of attempts, polls and faults.
THEOREM Typed == Spec => []TypeOK
<1>1. IInv => TypeOK
  BY DEF IInv
<1>. QED
  BY <1>1, Invariant, PTL

\* A successful verification against a new target, on a device that has not
\* reloaded since, survives the next reload: the version read runs, hence (by
\* DeviceInv) it was booted from the saved packages.conf statement, and the
\* commit seen is still the commit (by ReadInv).
THEOREM VerifiedSurvives == Spec => []VerifiedSurvivesReload
<1>1. IInv => VerifiedSurvivesReload
  <2> SUFFICES ASSUME IInv, Verified, fresh, cfg.target # NoVersion,
                      ~Contains(Old, cfg.target)
               PROVE  /\ Contains(running, cfg.target)
                      /\ NextBoot = running
                      /\ base = running
                      /\ bootStart = "packages"
    BY DEF VerifiedSurvivesReload
  <2>1. committed /\ Contains(cur, cfg.target)
    BY DEF IInv, VerdictInv
  <2>2. Answering /\ cur = running /\ pkg = base
    BY <2>1 DEF IInv, ReadInv
  <2>3. running = New
    BY <2>1, <2>2 DEF IInv, DeviceInv
  <2>4. pkg = New /\ bootStart = "packages"
    BY <2>2, <2>3 DEF IInv, DeviceInv
  <2>. QED
    BY <2>1, <2>2, <2>3, <2>4 DEF NextBoot
<1>. QED
  BY <1>1, Invariant, PTL

\* However the configuration set is interrupted and retried, only an activation
\* can leave the startup configuration without a boot statement, by saving what
\* the broken set left, and then the new version does not run.
THEOREM BootKept == Spec => []SavedBootKept
<1>1. IInv => SavedBootKept
  <2> SUFFICES ASSUME IInv, bootStart = "empty"
               PROVE  cfg.activate /\ (Answering => running = Old)
    BY DEF SavedBootKept
  <2>1. cfg.activate
    BY DEF IInv, DeviceInv
  <2>2. ASSUME Answering PROVE running # New
    BY <2>2 DEF IInv, DeviceInv
  <2>. QED
    BY <2>1, <2>2 DEF IInv, DeviceInv
<1>. QED
  BY <1>1, Invariant, PTL

\* Only `commit` and `auto_commit` give the rollback point up.
THEOREM RollbackPoint == Spec => []RollbackPointHeld
<1>1. IInv => RollbackPointHeld
  BY DEF IInv, CommitInv
<1>. QED
  BY <1>1, Invariant, PTL

=============================================================================
