-------------------------- MODULE OtaEngineProofs --------------------------
(***************************************************************************)
(* Theorems about the OTA transaction engine, for every set of adapters    *)
(* and any number of crashes and reboots.                                  *)
(***************************************************************************)
EXTENDS OtaEngine, TLAPS

(***************************************************************************)
(* The inductive invariant.  WorkFollowsJournal alone is not inductive: the *)
(* proof needs to know which phases each location of Execute works on, what *)
(* was established on the way to a "completed" or "rolled_back" that is not *)
(* journalled yet, and what a journalled phase says about the device.       *)
(***************************************************************************)
Ongoing == EarlyPhases \cup {"installed", "activated", "reboot_requested"}

PhaseAt ==
    /\ pc = "idle" => tx = NoTx
    /\ pc \in {"run", "save"} => tx.phase \in Ongoing \cup {"completed", "rolled_back"}
    /\ pc \in {"resume", "saveRetry", "rebootRetry"} =>
          tx.phase \in RebootPhases /\ disk.phase = tx.phase
    /\ pc \in {"copy", "check"} => tx.phase = "prepared"
    /\ pc \in {"confirm", "commit"} => tx.phase \in {"activated", "reboot_requested"}
    /\ pc = "fail" => tx.phase \in Ongoing
    /\ pc \in {"saveRollback", "rebootRollback"} => tx.phase = "rollback_reboot_requested"
    /\ pc = "saveEnd" => tx.phase \in {"rolled_back", "rollback_failed"}

TargetRuns ==
    ExactlyConfirmed /\ (pc = "commit" \/ tx.phase = "completed") => dev.running = "new"

OldOnly == dev.running = "old" /\ dev.next = "old"
RevertsIn(b) == dev.next = "old" /\ b # 0 /\ (b = boot \/ dev.running = "old")

OSTreeDevice ==
    env.adapter = "ostree" /\ env.bootId =>
        /\ disk.phase \in {"none", "rolled_back"} \cup EarlyPhases => OldOnly
        /\ tx.phase \in {"rolled_back"} \cup EarlyPhases => OldOnly
        /\ disk.phase = "rollback_reboot_requested" => RevertsIn(disk.boot)
        /\ tx.phase = "rollback_reboot_requested" => RevertsIn(tx.boot)

\* The .part file is on the disk before it gets its final name; and what was
\* verified, in the journal or on the way there, is whole.
Staged ==
    /\ staging.final.synced /\ (pc = "check" => staging.part.synced)
    /\ ArtifactRequired /\ "verified" \in {disk.phase, tx.phase} => digestMatches(staging.final)

\* What the journal holds while a phase is due to be written: not yet an
\* outcome, and the stage before the one that is due.
Pending == EarlyPhases \cup {"installed", "activated"}
Due ==
    /\ pc = "save" => /\ tx.phase \in Ongoing => disk.phase \in Pending
                      /\ tx.phase = "completed" => disk.phase \in {"activated", "reboot_requested"}
                      /\ tx.phase = "rolled_back" => disk.phase = "rollback_reboot_requested"
    /\ pc = "saveRollback" => disk.phase \in Ongoing
    /\ pc \in {"rebootRollback", "saveEnd"} => disk.phase \in Ongoing \cup {"rollback_reboot_requested"}

IInv == TypeOK /\ WorkFollowsJournal /\ PhaseAt /\ TargetRuns /\ OSTreeDevice /\ Staged /\ Due

-----------------------------------------------------------------------------

\* The steps of the engine leave the request and the configuration alone,
\* and every variable keeps its type.
LEMMA TypeInit == Init => TypeOK
<1> SUFFICES ASSUME Init PROVE TypeOK
  OBVIOUS
<1>1. disk \in Transaction /\ tx \in Transaction
  BY DEF Init, NoTx, Transaction, Phases
<1>2. dev \in Device
  BY DEF Init, Device, Images
<1>3. aged \in BOOLEAN
  BY DEF Init
<1>4. /\ boot \in 1..MaxBoots
      /\ crashes \in 0..MaxCrashes
  BY BoundsAssumption DEF Init
<1>5. /\ pc \in Locations
      /\ result \in {"none", "rebooting", "succeeded", "failed"}
  BY DEF Init, Locations
<1>6. staging \in [part : File, final : File]
  BY ArtifactAssumption DEF Init, NoFile, File
<1> QED
  BY <1>1, <1>2, <1>3, <1>4, <1>5, <1>6 DEF Init, TypeOK

Answers == {"none", "rebooting", "succeeded", "failed"}

\* save writes a whole transaction.
LEMMA PersistType ==
  ASSUME TypeOK, NEW t \in Transaction, Persist(t)
  PROVE  disk' \in Transaction /\ aged' \in BOOLEAN
<1>1. aged' \in BOOLEAN
  BY DEF Persist
<1> QED
  BY <1>1 DEF Persist

\* Returning from Execute leaves no local state.
LEMMA ReturnType ==
  ASSUME NEW s \in Answers, Return(s)
  PROVE  tx' \in Transaction /\ pc' \in Locations /\ result' \in Answers
BY DEF Return, Answers, Locations, NoTx, Transaction, Phases

\* A step on a transaction's phase, boot ID or attempts keeps its type.
LEMMA TxType ==
  ASSUME NEW t \in Transaction, NEW p \in Phases, NEW b \in Nat, NEW k \in BOOLEAN
  PROVE  /\ [t EXCEPT !.phase = p] \in Transaction
         /\ [t EXCEPT !.phase = p, !.boot = b] \in Transaction
         /\ [t EXCEPT !.phase = p, !.prev = k] \in Transaction
BY DEF Transaction

\* The boot ID that is journalled is a number.
LEMMA BootIdType == TypeOK => BootId \in Nat
BY BoundsAssumption DEF TypeOK, BootId

\* Every phase name the engine writes is a phase.
LEMMA PhaseNames ==
  {"created", "prepared", "downloaded", "verified", "installed", "activated",
   "reboot_requested", "rollback_reboot_requested", "completed", "rolled_back",
   "rollback_failed", "none"} \subseteq Phases
BY DEF Phases, EarlyPhases, RebootPhases, Terminal

\* What the updaters do to the device keeps its type.
LEMMA DeviceType ==
  TypeOK => /\ Installed \in Device /\ Activated \in Device
            /\ Committed \in Device /\ RolledBack \in Device
<1> SUFFICES ASSUME TypeOK
             PROVE  /\ Installed \in Device /\ Activated \in Device
                    /\ Committed \in Device /\ RolledBack \in Device
  OBVIOUS
<1>1. Installed \in Device
  BY DEF TypeOK, Installed, Device, Images
<1>2. Activated \in Device
  BY DEF TypeOK, Activated, Device, Images
<1>3. Committed \in Device
  BY DEF TypeOK, Committed, Device, Images
<1>4. RolledBack \in Device
  BY DEF TypeOK, RolledBack, Device, Images
<1> QED
  BY <1>1, <1>2, <1>3, <1>4

\* The steps of fetch and a power loss keep the files' types.
LEMMA StagingType ==
  ASSUME TypeOK, OpenPart \/ CopyPart \/ ClosePart \/ CheckPart \/ Reboot
  PROVE  staging' \in [part : File, final : File]
<1>1. NoFile \in File
  BY ArtifactAssumption DEF NoFile, File
<1>2. CASE OpenPart
  BY <1>1, <1>2 DEF OpenPart, TypeOK
<1>3. CASE CopyPart
  <2>1. PICK right \in BOOLEAN :
          staging' = [staging EXCEPT !.part = [n |-> @.n + 1, ok |-> @.ok /\ right, synced |-> FALSE]]
    BY <1>3 DEF CopyPart
  <2>2. staging.part.n + 1 \in 0..(Limit + 1)
    BY <1>3, ArtifactAssumption DEF CopyPart, TypeOK, File
  <2>3. (staging.part.ok /\ right) \in BOOLEAN
    OBVIOUS
  <2> DEFINE grown == [n |-> staging.part.n + 1, ok |-> staging.part.ok /\ right, synced |-> FALSE]
  <2>4. grown \in File
    BY <2>2, <2>3, Zenon DEF File
  <2>5. staging' = [staging EXCEPT !.part = grown]
    BY <2>1
  <2> HIDE DEF grown
  <2> QED
    BY <2>4, <2>5 DEF TypeOK
<1>4. CASE ClosePart
  <2>1. [staging.part EXCEPT !.synced = TRUE] \in File
    BY Zenon DEF TypeOK, File
  <2> QED
    BY <1>4, <2>1 DEF ClosePart, TypeOK
<1>5. CASE CheckPart
  BY <1>1, <1>5 DEF CheckPart, TypeOK
<1>6. CASE Reboot
  <2>1. ASSUME NEW f \in File PROVE AfterPowerLoss(f) \subseteq File
    BY DEF AfterPowerLoss
  <2> QED
    BY <1>6, <2>1 DEF Reboot, TypeOK
<1> QED
  BY <1>2, <1>3, <1>4, <1>5, <1>6

(* Every step of Engine.Execute, of the boot loader and of the environment     *)
(* keeps the variables in their types.                                        *)
LEMMA TypeStep == TypeOK /\ [Next]_vars => TypeOK'
<1> SUFFICES ASSUME TypeOK, [Next]_vars PROVE TypeOK'
  OBVIOUS
<1>c. NoTx \in Transaction
  BY DEF NoTx, Transaction, Phases
<1>a. Fresh \in Transaction
  BY <1>c, PhaseNames DEF Fresh, Transaction
<1>d. tx.attempts < RebootLimit => [tx EXCEPT !.attempts = @ + 1] \in Transaction
  BY DEF TypeOK, Transaction, RebootLimit
<1>e. ASSUME Age PROVE aged' \in BOOLEAN
  BY <1>e DEF Age
<1>f. ASSUME Reboot PROVE dev' \in Device
  BY <1>f DEF Reboot, BootChoices, TypeOK, Device, Images
<1>1. CASE Reject
  BY <1>1, ReturnType DEF Reject, TypeOK, journal, outside, system, Answers
<1>2. CASE Create
  BY <1>2, PersistType, <1>a DEF Create, TypeOK, outside, system, Locations
<1>3. CASE Load
  BY <1>3 DEF Load, TypeOK, journal, outside, system, Locations
<1>4. CASE Replay
  BY <1>4, ReturnType DEF Replay, TypeOK, journal, outside, system, Answers
<1>5. CASE Preflight
  <2>1. CASE Fail
    BY <1>5, <2>1 DEF Preflight, TypeOK, Fail, journal, outside, system, Locations
  <2>2. CASE ~Fail
    <3>1. PICK known \in BOOLEAN : tx' = [tx EXCEPT !.phase = "prepared", !.prev = known]
      BY <1>5, <2>2 DEF Preflight
    <3>2. tx' \in Transaction
      BY <3>1, PhaseNames DEF TypeOK, Transaction
    <3> QED
      BY <1>5, <2>2, <3>2 DEF Preflight, TypeOK, journal, outside, system, Locations
  <2> QED
    BY <2>1, <2>2
<1>6. CASE Download
  BY <1>6, TxType, PhaseNames DEF Download, TypeOK, Fail, At, journal, outside, system, Locations
<1>7. CASE Verify
  BY <1>7, TxType, PhaseNames DEF Verify, TypeOK, Fail, At, journal, outside, system, Locations
<1>8. CASE Install
  BY <1>8, TxType, PhaseNames, DeviceType DEF Install, TypeOK, At, journal, outside, system, Locations
<1>9. CASE Activate
  BY <1>9, TxType, PhaseNames, DeviceType DEF Activate, TypeOK, At, journal, outside, system, Locations
<1>10. CASE AfterActivate
  <2>1. tx' \in Transaction
    BY <1>10, PhaseNames, BootIdType DEF AfterActivate, TypeOK, Transaction
  <2> QED
    BY <1>10, <2>1 DEF AfterActivate, TypeOK, journal, outside, system, Locations
<1>11. CASE Save
  BY <1>11, PersistType, ReturnType DEF Save, TypeOK, journal, outside, system, Locations, Answers
<1>12. CASE RequestReboot
  BY <1>12, ReturnType DEF RequestReboot, TypeOK, Fail, At, outside, system, Locations, Answers
<1>13. CASE Finish
  BY <1>13, ReturnType DEF Finish, TypeOK, journal, outside, system, Answers
<1>14. CASE AwaitReboot
  BY <1>14, ReturnType, TxType, PhaseNames, <1>d DEF AwaitReboot, TypeOK, journal, outside, system, Locations, Answers
<1>15. CASE SaveRetry
  BY <1>15, PersistType, ReturnType DEF SaveRetry, TypeOK, journal, outside, system, Locations, Answers
<1>16. CASE RebootRetry
  BY <1>16, ReturnType DEF RebootRetry, TypeOK, outside, system, Answers
<1>17. CASE Rebooted
  BY <1>17, TxType, PhaseNames DEF Rebooted, TypeOK, journal, outside, system, Locations
<1>18. CASE Confirm
  BY <1>18 DEF Confirm, TypeOK, Fail, journal, outside, system, Locations
<1>19. CASE Commit
  <2>1. tx' \in Transaction /\ dev' \in Device
    <3>1. [tx EXCEPT !.phase = "completed"] \in Transaction
      BY PhaseNames DEF TypeOK, Transaction
    <3>2. dev \in Device /\ Committed \in Device /\ tx \in Transaction
      BY DeviceType DEF TypeOK
    <3> QED
      BY <1>19, <3>1, <3>2 DEF Commit
  <2> QED
    BY <1>19, <2>1 DEF Commit, TypeOK, journal, outside, system, Locations
<1>20. CASE Abandon
  BY <1>20, TxType, PhaseNames DEF Abandon, TypeOK, journal, outside, system, Locations
<1>21. CASE Rollback
  <2>1. tx' \in Transaction
    BY <1>21, PhaseNames, BootIdType DEF Rollback, TypeOK, Transaction
  <2> QED
    BY <1>21, <2>1, DeviceType DEF Rollback, TypeOK, journal, outside, system, Locations
<1>22. CASE RollbackFails
  BY <1>22, TxType, PhaseNames, DeviceType DEF RollbackFails, TypeOK, journal, outside, system, Locations
<1>23. CASE SaveRollback
  BY <1>23, PersistType DEF SaveRollback, TypeOK, journal, outside, system, Locations
<1>24. CASE RebootRollback
  <2>1. tx' \in Transaction /\ pc' \in Locations /\ result' \in Answers
    <3>1. [tx EXCEPT !.phase = "rollback_failed"] \in Transaction
      BY PhaseNames DEF TypeOK, Transaction
    <3>2. CASE Return("rebooting")
      BY <3>2, ReturnType DEF Answers
    <3>3. CASE ~Return("rebooting")
      BY <1>24, <3>1, <3>3 DEF RebootRollback, TypeOK, Locations, Answers
    <3> QED
      BY <3>2, <3>3
  <2> QED
    BY <1>24, <2>1 DEF RebootRollback, TypeOK, outside, system, Answers
<1>25. CASE SaveEnd
  BY <1>25, PersistType, ReturnType DEF SaveEnd, TypeOK, journal, outside, system, Answers
<1>26. CASE Age
  BY <1>26, <1>e DEF Age, TypeOK, outside, system
<1>27. CASE Crash
  BY <1>27, <1>c, BoundsAssumption DEF Crash, TypeOK, journal, Locations
<1>28. CASE Reboot
  <2>1. boot' \in 1..MaxBoots
    BY <1>28, BoundsAssumption DEF Reboot, TypeOK
  <2> QED
    BY <1>28, <2>1, <1>c, <1>f, StagingType DEF Reboot, TypeOK, journal, Locations
<1>29. CASE UNCHANGED vars
  BY <1>29 DEF TypeOK, vars
<1>30. CASE OpenPart
  BY <1>30, StagingType DEF OpenPart, TypeOK, Fail, At, journal, system, Locations
<1>31. CASE CopyPart
  BY <1>31, StagingType DEF CopyPart, TypeOK, journal, system, Locations
<1>32. CASE ClosePart
  BY <1>32, StagingType DEF ClosePart, TypeOK, journal, system, Locations
<1>33. CASE CheckPart
  <2>1. tx' \in Transaction
    <3>1. tx \in Transaction /\ [tx EXCEPT !.phase = "downloaded"] \in Transaction
      BY PhaseNames DEF TypeOK, Transaction
    <3>2. tx' = tx \/ tx' = [tx EXCEPT !.phase = "downloaded"]
      BY <1>33 DEF CheckPart, Fail
    <3> QED
      BY <3>1, <3>2
  <2>2. pc' \in Locations
    BY <1>33 DEF CheckPart, Fail, Locations
  <2>3. UNCHANGED <<disk, aged, result, dev, env, job, boot, crashes>>
    BY <1>33 DEF CheckPart, Fail, journal, system
  <2> QED
    BY <1>33, StagingType, <2>1, <2>2, <2>3 DEF TypeOK
<1>34. CASE CloseJob
  BY <1>34 DEF CloseJob, journal, TypeOK, outside, system
<1> QED
  BY <1>1, <1>2, <1>3, <1>4, <1>5, <1>6, <1>7, <1>8, <1>9, <1>10, <1>11, <1>12, <1>13, <1>14, <1>15, <1>16, <1>17, <1>18, <1>19, <1>20, <1>21, <1>22, <1>23, <1>24, <1>25, <1>26, <1>27, <1>28, <1>29, <1>30, <1>31, <1>32, <1>33, <1>34
     DEF Next, Call, Engine, Forward, Fetch, Resume, ConfirmAndCommit, FailAndRollback, World

\* The control structure of Execute: which phases a location works on, and
\* that it works on the journalled phase.
LEMMA PhaseStep == TypeOK /\ WorkFollowsJournal /\ PhaseAt /\ [Next]_vars => WorkFollowsJournal' /\ PhaseAt'
<1> SUFFICES ASSUME TypeOK, WorkFollowsJournal, PhaseAt, [Next]_vars PROVE WorkFollowsJournal' /\ PhaseAt'
  OBVIOUS
<1>1. CASE Reject
  BY <1>1 DEF Reject, Return, journal, NoTx, TypeOK, Transaction, WorkFollowsJournal, Acting, PhaseAt, Ongoing, Phases, EarlyPhases, RebootPhases, Terminal
<1>2. CASE Create
  BY <1>2 DEF Create, Persist, Fresh, NoTx, TypeOK, Transaction, WorkFollowsJournal, Acting, PhaseAt, Ongoing, Phases, EarlyPhases, RebootPhases, Terminal
<1>3. CASE Load
  BY <1>3 DEF Load, journal, TypeOK, Transaction, WorkFollowsJournal, Acting, PhaseAt, Ongoing, Phases, EarlyPhases, RebootPhases, Terminal
<1>4. CASE Replay
  BY <1>4 DEF Replay, Return, journal, NoTx, TypeOK, Transaction, WorkFollowsJournal, Acting, PhaseAt, Ongoing, Phases, EarlyPhases, RebootPhases, Terminal
<1>5. CASE Preflight
  BY <1>5 DEF Preflight, At, Fail, journal, TypeOK, Transaction, WorkFollowsJournal, Acting, PhaseAt, Ongoing, Phases, EarlyPhases, RebootPhases, Terminal
<1>6. CASE Download
  BY <1>6 DEF Download, At, Fail, journal, TypeOK, Transaction, WorkFollowsJournal, Acting, PhaseAt, Ongoing, Phases, EarlyPhases, RebootPhases, Terminal
<1>7. CASE Verify
  BY <1>7 DEF Verify, At, Fail, journal, TypeOK, Transaction, WorkFollowsJournal, Acting, PhaseAt, Ongoing, Phases, EarlyPhases, RebootPhases, Terminal
<1>8. CASE Install
  BY <1>8 DEF Install, At, journal, TypeOK, Transaction, WorkFollowsJournal, Acting, PhaseAt, Ongoing, Phases, EarlyPhases, RebootPhases, Terminal
<1>9. CASE Activate
  BY <1>9 DEF Activate, At, journal, TypeOK, Transaction, WorkFollowsJournal, Acting, PhaseAt, Ongoing, Phases, EarlyPhases, RebootPhases, Terminal
<1>10. CASE AfterActivate
  BY <1>10 DEF AfterActivate, At, journal, TypeOK, Transaction, WorkFollowsJournal, Acting, PhaseAt, Ongoing, Phases, EarlyPhases, RebootPhases, Terminal
<1>11. CASE Save
  BY <1>11 DEF Save, Persist, Return, journal, NoTx, TypeOK, Transaction, WorkFollowsJournal, Acting, PhaseAt, Ongoing, Phases, EarlyPhases, RebootPhases, Terminal
<1>12. CASE RequestReboot
  BY <1>12 DEF RequestReboot, At, Fail, Return, NoTx, TypeOK, Transaction, WorkFollowsJournal, Acting, PhaseAt, Ongoing, Phases, EarlyPhases, RebootPhases, Terminal
<1>13. CASE Finish
  BY <1>13 DEF Finish, Return, journal, NoTx, TypeOK, Transaction, WorkFollowsJournal, Acting, PhaseAt, Ongoing, Phases, EarlyPhases, RebootPhases, Terminal
<1>14. CASE AwaitReboot
  BY <1>14 DEF AwaitReboot, Return, journal, NoTx, TypeOK, Transaction, WorkFollowsJournal, Acting, PhaseAt, Ongoing, Phases, EarlyPhases, RebootPhases, Terminal
<1>15. CASE SaveRetry
  BY <1>15 DEF SaveRetry, Persist, Return, journal, NoTx, TypeOK, Transaction, WorkFollowsJournal, Acting, PhaseAt, Ongoing, Phases, EarlyPhases, RebootPhases, Terminal
<1>16. CASE RebootRetry
  BY <1>16 DEF RebootRetry, Return, NoTx, TypeOK, Transaction, WorkFollowsJournal, Acting, PhaseAt, Ongoing, Phases, EarlyPhases, RebootPhases, Terminal
<1>17. CASE Rebooted
  BY <1>17 DEF Rebooted, journal, TypeOK, Transaction, WorkFollowsJournal, Acting, PhaseAt, Ongoing, Phases, EarlyPhases, RebootPhases, Terminal
<1>18. CASE Confirm
  BY <1>18 DEF Confirm, Fail, journal, TypeOK, Transaction, WorkFollowsJournal, Acting, PhaseAt, Ongoing, Phases, EarlyPhases, RebootPhases, Terminal
<1>19. CASE Commit
  BY <1>19 DEF Commit, journal, TypeOK, Transaction, WorkFollowsJournal, Acting, PhaseAt, Ongoing, Phases, EarlyPhases, RebootPhases, Terminal
<1>20. CASE Abandon
  BY <1>20 DEF Abandon, journal, TypeOK, Transaction, WorkFollowsJournal, Acting, PhaseAt, Ongoing, Phases, EarlyPhases, RebootPhases, Terminal
<1>21. CASE Rollback
  BY <1>21 DEF Rollback, journal, TypeOK, Transaction, WorkFollowsJournal, Acting, PhaseAt, Ongoing, Phases, EarlyPhases, RebootPhases, Terminal
<1>22. CASE RollbackFails
  BY <1>22 DEF RollbackFails, journal, TypeOK, Transaction, WorkFollowsJournal, Acting, PhaseAt, Ongoing, Phases, EarlyPhases, RebootPhases, Terminal
<1>23. CASE SaveRollback
  BY <1>23 DEF SaveRollback, Persist, journal, TypeOK, Transaction, WorkFollowsJournal, Acting, PhaseAt, Ongoing, Phases, EarlyPhases, RebootPhases, Terminal
<1>24. CASE RebootRollback
  BY <1>24 DEF RebootRollback, Return, NoTx, TypeOK, Transaction, WorkFollowsJournal, Acting, PhaseAt, Ongoing, Phases, EarlyPhases, RebootPhases, Terminal
<1>25. CASE SaveEnd
  BY <1>25 DEF SaveEnd, Persist, Return, journal, NoTx, TypeOK, Transaction, WorkFollowsJournal, Acting, PhaseAt, Ongoing, Phases, EarlyPhases, RebootPhases, Terminal
<1>26. CASE Age
  BY <1>26 DEF Age, TypeOK, Transaction, WorkFollowsJournal, Acting, PhaseAt, Ongoing, Phases, EarlyPhases, RebootPhases, Terminal
<1>27. CASE Crash
  BY <1>27 DEF Crash, journal, NoTx, TypeOK, Transaction, WorkFollowsJournal, Acting, PhaseAt, Ongoing, Phases, EarlyPhases, RebootPhases, Terminal
<1>28. CASE Reboot
  BY <1>28 DEF Reboot, journal, NoTx, TypeOK, Transaction, WorkFollowsJournal, Acting, PhaseAt, Ongoing, Phases, EarlyPhases, RebootPhases, Terminal
<1>29. CASE UNCHANGED vars
  BY <1>29 DEF vars, TypeOK, Transaction, WorkFollowsJournal, Acting, PhaseAt, Ongoing, Phases, EarlyPhases, RebootPhases, Terminal
<1>30. CASE OpenPart
  BY <1>30 DEF OpenPart, At, Fail, journal, TypeOK, Transaction, WorkFollowsJournal, Acting, PhaseAt, Ongoing, Phases, EarlyPhases, RebootPhases, Terminal, system
<1>31. CASE CopyPart
  BY <1>31 DEF CopyPart, At, Fail, journal, TypeOK, Transaction, WorkFollowsJournal, Acting, PhaseAt, Ongoing, Phases, EarlyPhases, RebootPhases, Terminal, system
<1>32. CASE ClosePart
  BY <1>32 DEF ClosePart, At, Fail, journal, TypeOK, Transaction, WorkFollowsJournal, Acting, PhaseAt, Ongoing, Phases, EarlyPhases, RebootPhases, Terminal, system
<1>33. CASE CheckPart
  BY <1>33 DEF CheckPart, At, Fail, journal, TypeOK, Transaction, WorkFollowsJournal, Acting, PhaseAt, Ongoing, Phases, EarlyPhases, RebootPhases, Terminal, system
<1>34. CASE CloseJob
  BY <1>34 DEF CloseJob, journal, TypeOK, Transaction, WorkFollowsJournal, Acting, PhaseAt, Ongoing, Phases, EarlyPhases, RebootPhases, Terminal
<1> QED
  BY <1>1, <1>2, <1>3, <1>4, <1>5, <1>6, <1>7, <1>8, <1>9, <1>10, <1>11, <1>12, <1>13, <1>14, <1>15, <1>16, <1>17, <1>18, <1>19, <1>20, <1>21, <1>22, <1>23, <1>24, <1>25, <1>26, <1>27, <1>28, <1>29, <1>30, <1>31, <1>32, <1>33, <1>34
     DEF Next, Call, Engine, Forward, Fetch, Resume, ConfirmAndCommit, FailAndRollback, World

\* "completed" is reached only through a version check of the running image.
LEMMA TargetStep == TypeOK /\ PhaseAt /\ TargetRuns /\ [Next]_vars => TargetRuns'
<1> SUFFICES ASSUME TypeOK, PhaseAt, TargetRuns, [Next]_vars PROVE TargetRuns'
  OBVIOUS
<1>1. CASE Reject
  BY <1>1 DEF Reject, Return, journal, NoTx, TypeOK, Transaction, Device, PhaseAt, Ongoing, EarlyPhases, RebootPhases, Terminal, TargetRuns, ExactlyConfirmed, outside, system
<1>2. CASE Create
  BY <1>2 DEF Create, Persist, Fresh, NoTx, TypeOK, Transaction, Device, PhaseAt, Ongoing, EarlyPhases, RebootPhases, Terminal, TargetRuns, ExactlyConfirmed, outside, system
<1>3. CASE Load
  BY <1>3 DEF Load, journal, TypeOK, Transaction, Device, PhaseAt, Ongoing, EarlyPhases, RebootPhases, Terminal, TargetRuns, ExactlyConfirmed, outside, system
<1>4. CASE Replay
  BY <1>4 DEF Replay, Return, journal, NoTx, TypeOK, Transaction, Device, PhaseAt, Ongoing, EarlyPhases, RebootPhases, Terminal, TargetRuns, ExactlyConfirmed, outside, system
<1>5. CASE Preflight
  <2>1. tx'.phase # "completed" /\ pc' # "commit"
    BY <1>5 DEF Preflight, At, Fail, TypeOK, Transaction
  <2> QED
    BY <2>1 DEF TargetRuns
<1>6. CASE Download
  BY <1>6 DEF Download, At, Fail, journal, TypeOK, Transaction, Device, PhaseAt, Ongoing, EarlyPhases, RebootPhases, Terminal, TargetRuns, ExactlyConfirmed, outside, system
<1>7. CASE Verify
  BY <1>7 DEF Verify, At, Fail, journal, TypeOK, Transaction, Device, PhaseAt, Ongoing, EarlyPhases, RebootPhases, Terminal, TargetRuns, ExactlyConfirmed, outside, system
<1>8. CASE Install
  BY <1>8 DEF Install, At, journal, TypeOK, Transaction, Device, PhaseAt, Ongoing, EarlyPhases, RebootPhases, Terminal, TargetRuns, ExactlyConfirmed, outside, system
<1>9. CASE Activate
  BY <1>9 DEF Activate, At, journal, TypeOK, Transaction, Device, PhaseAt, Ongoing, EarlyPhases, RebootPhases, Terminal, TargetRuns, ExactlyConfirmed, outside, system
<1>10. CASE AfterActivate
  BY <1>10 DEF AfterActivate, At, journal, TypeOK, Transaction, Device, PhaseAt, Ongoing, EarlyPhases, RebootPhases, Terminal, TargetRuns, ExactlyConfirmed, outside, system
<1>11. CASE Save
  BY <1>11 DEF Save, Persist, Return, journal, NoTx, TypeOK, Transaction, Device, PhaseAt, Ongoing, EarlyPhases, RebootPhases, Terminal, TargetRuns, ExactlyConfirmed, outside, system
<1>12. CASE RequestReboot
  BY <1>12 DEF RequestReboot, At, Fail, Return, NoTx, TypeOK, Transaction, Device, PhaseAt, Ongoing, EarlyPhases, RebootPhases, Terminal, TargetRuns, ExactlyConfirmed, outside, system
<1>13. CASE Finish
  BY <1>13 DEF Finish, Return, journal, NoTx, TypeOK, Transaction, Device, PhaseAt, Ongoing, EarlyPhases, RebootPhases, Terminal, TargetRuns, ExactlyConfirmed, outside, system
<1>14. CASE AwaitReboot
  BY <1>14 DEF AwaitReboot, Return, journal, NoTx, TypeOK, Transaction, Device, PhaseAt, Ongoing, EarlyPhases, RebootPhases, Terminal, TargetRuns, ExactlyConfirmed, outside, system
<1>15. CASE SaveRetry
  BY <1>15 DEF SaveRetry, Persist, Return, journal, NoTx, TypeOK, Transaction, Device, PhaseAt, Ongoing, EarlyPhases, RebootPhases, Terminal, TargetRuns, ExactlyConfirmed, outside, system
<1>16. CASE RebootRetry
  BY <1>16 DEF RebootRetry, Return, NoTx, TypeOK, Transaction, Device, PhaseAt, Ongoing, EarlyPhases, RebootPhases, Terminal, TargetRuns, ExactlyConfirmed, outside, system
<1>17. CASE Rebooted
  BY <1>17 DEF Rebooted, journal, TypeOK, Transaction, Device, PhaseAt, Ongoing, EarlyPhases, RebootPhases, Terminal, TargetRuns, ExactlyConfirmed, outside, system
<1>18. CASE Confirm
  <2>1. tx' = tx /\ dev' = dev /\ env' = env
    BY <1>18 DEF Confirm, Fail, outside, system
  <2>2. CASE VersionConfirmed /\ pc' = "commit"
    <3>1. ExactlyConfirmed => CurrentVersion = {{dev.running}} /\ "new" \in {dev.running}
      <4> SUFFICES ASSUME ExactlyConfirmed
                   PROVE  CurrentVersion = {{dev.running}} /\ "new" \in {dev.running}
        OBVIOUS
      <4>1. CurrentVersion = {{dev.running}}
        BY DEF ExactlyConfirmed, CurrentVersion
      <4> QED
        BY <2>2, <4>1 DEF VersionConfirmed, ExactlyConfirmed
    <3> QED
      BY <2>1, <3>1 DEF TargetRuns, ExactlyConfirmed
  <2>3. CASE Fail
    BY <1>18, <2>1, <2>3 DEF Fail, TargetRuns, ExactlyConfirmed
  <2> QED
    BY <1>18, <2>2, <2>3 DEF Confirm
<1>19. CASE Commit
  BY <1>19 DEF Commit, journal, TypeOK, Transaction, Device, PhaseAt, Ongoing, EarlyPhases, RebootPhases, Terminal, TargetRuns, ExactlyConfirmed, outside, system, Committed
<1>20. CASE Abandon
  BY <1>20 DEF Abandon, journal, TypeOK, Transaction, Device, PhaseAt, Ongoing, EarlyPhases, RebootPhases, Terminal, TargetRuns, ExactlyConfirmed, outside, system
<1>21. CASE Rollback
  <2>1. tx'.phase # "completed" /\ pc' # "commit"
    BY <1>21 DEF Rollback, TypeOK, Transaction
  <2> QED
    BY <2>1 DEF TargetRuns
<1>22. CASE RollbackFails
  BY <1>22 DEF RollbackFails, journal, TypeOK, Transaction, Device, PhaseAt, Ongoing, EarlyPhases, RebootPhases, Terminal, TargetRuns, ExactlyConfirmed, outside, system
<1>23. CASE SaveRollback
  BY <1>23 DEF SaveRollback, Persist, journal, TypeOK, Transaction, Device, PhaseAt, Ongoing, EarlyPhases, RebootPhases, Terminal, TargetRuns, ExactlyConfirmed, outside, system
<1>24. CASE RebootRollback
  BY <1>24 DEF RebootRollback, Return, NoTx, TypeOK, Transaction, Device, PhaseAt, Ongoing, EarlyPhases, RebootPhases, Terminal, TargetRuns, ExactlyConfirmed, outside, system
<1>25. CASE SaveEnd
  BY <1>25 DEF SaveEnd, Persist, Return, journal, NoTx, TypeOK, Transaction, Device, PhaseAt, Ongoing, EarlyPhases, RebootPhases, Terminal, TargetRuns, ExactlyConfirmed, outside, system
<1>26. CASE Age
  BY <1>26 DEF Age, TypeOK, Transaction, Device, PhaseAt, Ongoing, EarlyPhases, RebootPhases, Terminal, TargetRuns, ExactlyConfirmed, outside, system
<1>27. CASE Crash
  BY <1>27 DEF Crash, journal, NoTx, TypeOK, Transaction, Device, PhaseAt, Ongoing, EarlyPhases, RebootPhases, Terminal, TargetRuns, ExactlyConfirmed, outside, system
<1>28. CASE Reboot
  BY <1>28 DEF Reboot, journal, NoTx, TypeOK, Transaction, Device, PhaseAt, Ongoing, EarlyPhases, RebootPhases, Terminal, TargetRuns, ExactlyConfirmed, outside, system
<1>29. CASE UNCHANGED vars
  BY <1>29 DEF vars, TypeOK, Transaction, Device, PhaseAt, Ongoing, EarlyPhases, RebootPhases, Terminal, TargetRuns, ExactlyConfirmed, outside, system
<1>30. CASE OpenPart
  BY <1>30 DEF OpenPart, At, Fail, journal, TypeOK, Transaction, Device, PhaseAt, Ongoing, EarlyPhases, RebootPhases, Terminal, TargetRuns, ExactlyConfirmed, outside, system
<1>31. CASE CopyPart
  BY <1>31 DEF CopyPart, At, Fail, journal, TypeOK, Transaction, Device, PhaseAt, Ongoing, EarlyPhases, RebootPhases, Terminal, TargetRuns, ExactlyConfirmed, outside, system
<1>32. CASE ClosePart
  BY <1>32 DEF ClosePart, At, Fail, journal, TypeOK, Transaction, Device, PhaseAt, Ongoing, EarlyPhases, RebootPhases, Terminal, TargetRuns, ExactlyConfirmed, outside, system
<1>33. CASE CheckPart
  BY <1>33 DEF CheckPart, At, Fail, journal, TypeOK, Transaction, Device, PhaseAt, Ongoing, EarlyPhases, RebootPhases, Terminal, TargetRuns, ExactlyConfirmed, outside, system
<1>34. CASE CloseJob
  BY <1>34 DEF CloseJob, journal, TypeOK, Transaction, Device, PhaseAt, Ongoing, EarlyPhases, RebootPhases, Terminal, TargetRuns, ExactlyConfirmed, outside, system
<1> QED
  BY <1>1, <1>2, <1>3, <1>4, <1>5, <1>6, <1>7, <1>8, <1>9, <1>10, <1>11, <1>12, <1>13, <1>14, <1>15, <1>16, <1>17, <1>18, <1>19, <1>20, <1>21, <1>22, <1>23, <1>24, <1>25, <1>26, <1>27, <1>28, <1>29, <1>30, <1>31, <1>32, <1>33, <1>34
     DEF Next, Call, Engine, Forward, Fetch, Resume, ConfirmAndCommit, FailAndRollback, World

\* What the journal says about an OSTree device is true of it.
LEMMA OSTreeStep == TypeOK /\ WorkFollowsJournal /\ PhaseAt /\ OSTreeDevice /\ [Next]_vars => OSTreeDevice'
<1> SUFFICES ASSUME TypeOK, WorkFollowsJournal, PhaseAt, OSTreeDevice, [Next]_vars PROVE OSTreeDevice'
  OBVIOUS
<1>1. CASE Reject
  BY <1>1 DEF Reject, Return, journal, NoTx, TypeOK, Transaction, Device, Images, WorkFollowsJournal, Acting, PhaseAt, Ongoing, EarlyPhases, RebootPhases, Terminal, OSTreeDevice, OldOnly, RevertsIn, outside, system
<1>2. CASE Create
  BY <1>2 DEF Create, Persist, Fresh, NoTx, TypeOK, Transaction, Device, Images, WorkFollowsJournal, Acting, PhaseAt, Ongoing, EarlyPhases, RebootPhases, Terminal, OSTreeDevice, OldOnly, RevertsIn, outside, system
<1>3. CASE Load
  BY <1>3 DEF Load, journal, TypeOK, Transaction, Device, Images, WorkFollowsJournal, Acting, PhaseAt, Ongoing, EarlyPhases, RebootPhases, Terminal, OSTreeDevice, OldOnly, RevertsIn, outside, system
<1>4. CASE Replay
  BY <1>4 DEF Replay, Return, journal, NoTx, TypeOK, Transaction, Device, Images, WorkFollowsJournal, Acting, PhaseAt, Ongoing, EarlyPhases, RebootPhases, Terminal, OSTreeDevice, OldOnly, RevertsIn, outside, system
<1>5. CASE Preflight
  BY <1>5 DEF Preflight, At, Fail, journal, TypeOK, Transaction, Device, Images, WorkFollowsJournal, Acting, PhaseAt, Ongoing, EarlyPhases, RebootPhases, Terminal, OSTreeDevice, OldOnly, RevertsIn, outside, system
<1>6. CASE Download
  BY <1>6 DEF Download, At, Fail, journal, TypeOK, Transaction, Device, Images, WorkFollowsJournal, Acting, PhaseAt, Ongoing, EarlyPhases, RebootPhases, Terminal, OSTreeDevice, OldOnly, RevertsIn, outside, system
<1>7. CASE Verify
  BY <1>7 DEF Verify, At, Fail, journal, TypeOK, Transaction, Device, Images, WorkFollowsJournal, Acting, PhaseAt, Ongoing, EarlyPhases, RebootPhases, Terminal, OSTreeDevice, OldOnly, RevertsIn, outside, system
<1>8. CASE Install
  BY <1>8 DEF Install, At, journal, TypeOK, Transaction, Device, Images, WorkFollowsJournal, Acting, PhaseAt, Ongoing, EarlyPhases, RebootPhases, Terminal, OSTreeDevice, OldOnly, RevertsIn, outside, system, Installed, Live
<1>9. CASE Activate
  BY <1>9 DEF Activate, At, journal, TypeOK, Transaction, Device, Images, WorkFollowsJournal, Acting, PhaseAt, Ongoing, EarlyPhases, RebootPhases, Terminal, OSTreeDevice, OldOnly, RevertsIn, outside, system, Activated
<1>10. CASE AfterActivate
  BY <1>10 DEF AfterActivate, At, journal, TypeOK, Transaction, Device, Images, WorkFollowsJournal, Acting, PhaseAt, Ongoing, EarlyPhases, RebootPhases, Terminal, OSTreeDevice, OldOnly, RevertsIn, outside, system
<1>11. CASE Save
  <2>1. CASE Persist(tx) /\ UNCHANGED tx
    <3>1. disk' = tx /\ tx' = tx /\ UNCHANGED <<dev, boot, env>>
      BY <1>11, <2>1 DEF Save, Persist, outside, system
    <3>2. tx.phase \in Ongoing \cup {"completed", "rolled_back"}
      BY <1>11 DEF Save, PhaseAt
    <3> QED
      BY <3>1, <3>2 DEF OSTreeDevice, OldOnly, RevertsIn, Ongoing, EarlyPhases
  <2>2. CASE Return("failed") /\ UNCHANGED journal
    BY <1>11, <2>2 DEF Save, Return, NoTx, journal, outside, system, EarlyPhases, OSTreeDevice, OldOnly, RevertsIn
  <2> QED
    BY <1>11, <2>1, <2>2 DEF Save
<1>12. CASE RequestReboot
  BY <1>12 DEF RequestReboot, At, Fail, Return, NoTx, TypeOK, Transaction, Device, Images, WorkFollowsJournal, Acting, PhaseAt, Ongoing, EarlyPhases, RebootPhases, Terminal, OSTreeDevice, OldOnly, RevertsIn, outside, system
<1>13. CASE Finish
  BY <1>13 DEF Finish, Return, journal, NoTx, TypeOK, Transaction, Device, Images, WorkFollowsJournal, Acting, PhaseAt, Ongoing, EarlyPhases, RebootPhases, Terminal, OSTreeDevice, OldOnly, RevertsIn, outside, system
<1>14. CASE AwaitReboot
  BY <1>14 DEF AwaitReboot, Return, journal, NoTx, TypeOK, Transaction, Device, Images, WorkFollowsJournal, Acting, PhaseAt, Ongoing, EarlyPhases, RebootPhases, Terminal, OSTreeDevice, OldOnly, RevertsIn, outside, system
<1>15. CASE SaveRetry
  BY <1>15 DEF SaveRetry, Persist, Return, journal, NoTx, TypeOK, Transaction, Device, Images, WorkFollowsJournal, Acting, PhaseAt, Ongoing, EarlyPhases, RebootPhases, Terminal, OSTreeDevice, OldOnly, RevertsIn, outside, system
<1>16. CASE RebootRetry
  BY <1>16 DEF RebootRetry, Return, NoTx, TypeOK, Transaction, Device, Images, WorkFollowsJournal, Acting, PhaseAt, Ongoing, EarlyPhases, RebootPhases, Terminal, OSTreeDevice, OldOnly, RevertsIn, outside, system
<1>17. CASE Rebooted
  BY <1>17 DEF Rebooted, journal, TypeOK, Transaction, Device, Images, WorkFollowsJournal, Acting, PhaseAt, Ongoing, EarlyPhases, RebootPhases, Terminal, OSTreeDevice, OldOnly, RevertsIn, outside, system, SameBoot, BootId
<1>18. CASE Confirm
  BY <1>18 DEF Confirm, Fail, journal, TypeOK, Transaction, Device, Images, WorkFollowsJournal, Acting, PhaseAt, Ongoing, EarlyPhases, RebootPhases, Terminal, OSTreeDevice, OldOnly, RevertsIn, outside, system
<1>19. CASE Commit
  BY <1>19 DEF Commit, journal, TypeOK, Transaction, Device, Images, WorkFollowsJournal, Acting, PhaseAt, Ongoing, EarlyPhases, RebootPhases, Terminal, OSTreeDevice, OldOnly, RevertsIn, outside, system, Committed
<1>20. CASE Abandon
  BY <1>20 DEF Abandon, journal, TypeOK, Transaction, Device, Images, WorkFollowsJournal, Acting, PhaseAt, Ongoing, EarlyPhases, RebootPhases, Terminal, OSTreeDevice, OldOnly, RevertsIn, outside, system
<1>21. CASE Rollback
  <2> SUFFICES ASSUME env.adapter = "ostree", env.bootId PROVE OSTreeDevice'
    BY <1>21 DEF Rollback, OSTreeDevice, outside, system
  <2>1. RequiresReboot = {TRUE}
    BY DEF RequiresReboot
  <2>2. tx' = [tx EXCEPT !.phase = "rollback_reboot_requested", !.boot = boot]
    BY <1>21, <2>1 DEF Rollback, BootId
  <2>3. tx'.phase = "rollback_reboot_requested" /\ tx'.boot = boot
    BY <2>2 DEF TypeOK, Transaction
  <2>4. dev'.next = "old" /\ dev'.running = dev.running
    BY <1>21 DEF Rollback, RolledBack, Live, TypeOK, Device
  <2>5. boot # 0 /\ boot' = boot /\ disk' = disk
    BY <1>21 DEF Rollback, journal, outside, system, TypeOK
  <2>6. disk.phase \in {"installed", "activated", "reboot_requested"}
    BY <1>21 DEF Rollback, PhaseAt, WorkFollowsJournal, Acting, Ongoing
  <2> QED
    BY <2>3, <2>4, <2>5, <2>6 DEF OSTreeDevice, OldOnly, RevertsIn, EarlyPhases
<1>22. CASE RollbackFails
  BY <1>22 DEF RollbackFails, journal, TypeOK, Transaction, Device, Images, WorkFollowsJournal, Acting, PhaseAt, Ongoing, EarlyPhases, RebootPhases, Terminal, OSTreeDevice, OldOnly, RevertsIn, outside, system, RolledBack, Live
<1>23. CASE SaveRollback
  BY <1>23 DEF SaveRollback, Persist, journal, TypeOK, Transaction, Device, Images, WorkFollowsJournal, Acting, PhaseAt, Ongoing, EarlyPhases, RebootPhases, Terminal, OSTreeDevice, OldOnly, RevertsIn, outside, system
<1>24. CASE RebootRollback
  BY <1>24 DEF RebootRollback, Return, NoTx, TypeOK, Transaction, Device, Images, WorkFollowsJournal, Acting, PhaseAt, Ongoing, EarlyPhases, RebootPhases, Terminal, OSTreeDevice, OldOnly, RevertsIn, outside, system
<1>25. CASE SaveEnd
  BY <1>25 DEF SaveEnd, Persist, Return, journal, NoTx, TypeOK, Transaction, Device, Images, WorkFollowsJournal, Acting, PhaseAt, Ongoing, EarlyPhases, RebootPhases, Terminal, OSTreeDevice, OldOnly, RevertsIn, outside, system
<1>26. CASE Age
  BY <1>26 DEF Age, TypeOK, Transaction, Device, Images, WorkFollowsJournal, Acting, PhaseAt, Ongoing, EarlyPhases, RebootPhases, Terminal, OSTreeDevice, OldOnly, RevertsIn, outside, system
<1>27. CASE Crash
  BY <1>27 DEF Crash, journal, NoTx, TypeOK, Transaction, Device, Images, WorkFollowsJournal, Acting, PhaseAt, Ongoing, EarlyPhases, RebootPhases, Terminal, OSTreeDevice, OldOnly, RevertsIn, outside, system
<1>28. CASE Reboot
  BY <1>28 DEF Reboot, journal, NoTx, TypeOK, Transaction, Device, Images, WorkFollowsJournal, Acting, PhaseAt, Ongoing, EarlyPhases, RebootPhases, Terminal, OSTreeDevice, OldOnly, RevertsIn, outside, system, BootChoices, Live
<1>29. CASE UNCHANGED vars
  BY <1>29 DEF vars, TypeOK, Transaction, Device, Images, WorkFollowsJournal, Acting, PhaseAt, Ongoing, EarlyPhases, RebootPhases, Terminal, OSTreeDevice, OldOnly, RevertsIn, outside, system
<1>30. CASE OpenPart
  BY <1>30 DEF OpenPart, At, Fail, journal, TypeOK, Transaction, Device, Images, WorkFollowsJournal, Acting, PhaseAt, Ongoing, EarlyPhases, RebootPhases, Terminal, OSTreeDevice, OldOnly, RevertsIn, outside, system
<1>31. CASE CopyPart
  BY <1>31 DEF CopyPart, At, Fail, journal, TypeOK, Transaction, Device, Images, WorkFollowsJournal, Acting, PhaseAt, Ongoing, EarlyPhases, RebootPhases, Terminal, OSTreeDevice, OldOnly, RevertsIn, outside, system
<1>32. CASE ClosePart
  BY <1>32 DEF ClosePart, At, Fail, journal, TypeOK, Transaction, Device, Images, WorkFollowsJournal, Acting, PhaseAt, Ongoing, EarlyPhases, RebootPhases, Terminal, OSTreeDevice, OldOnly, RevertsIn, outside, system
<1>33. CASE CheckPart
  BY <1>33 DEF CheckPart, At, Fail, journal, TypeOK, Transaction, Device, Images, WorkFollowsJournal, Acting, PhaseAt, Ongoing, EarlyPhases, RebootPhases, Terminal, OSTreeDevice, OldOnly, RevertsIn, outside, system
<1>34. CASE CloseJob
  BY <1>34 DEF CloseJob, journal, TypeOK, Transaction, Device, Images, WorkFollowsJournal, Acting, PhaseAt, Ongoing, EarlyPhases, RebootPhases, Terminal, OSTreeDevice, OldOnly, RevertsIn, outside, system
<1> QED
  BY <1>1, <1>2, <1>3, <1>4, <1>5, <1>6, <1>7, <1>8, <1>9, <1>10, <1>11, <1>12, <1>13, <1>14, <1>15, <1>16, <1>17, <1>18, <1>19, <1>20, <1>21, <1>22, <1>23, <1>24, <1>25, <1>26, <1>27, <1>28, <1>29, <1>30, <1>31, <1>32, <1>33, <1>34
     DEF Next, Call, Engine, Forward, Fetch, Resume, ConfirmAndCommit, FailAndRollback, World

\* What was verified stays whole, and on the disk.
LEMMA StagedStep == TypeOK /\ PhaseAt /\ Staged /\ [Next]_vars => Staged'
<1> SUFFICES ASSUME TypeOK, PhaseAt, Staged, [Next]_vars PROVE Staged'
  OBVIOUS
<1>1. CASE Reject
  BY <1>1 DEF Reject, Return, journal, NoTx, system, outside, TypeOK, Transaction, PhaseAt, EarlyPhases, RebootPhases, Terminal, Staged, ArtifactRequired, digestMatches
<1>2. CASE Create
  BY <1>2 DEF Create, Persist, Fresh, NoTx, journal, system, outside, TypeOK, Transaction, PhaseAt, EarlyPhases, RebootPhases, Terminal, Staged, ArtifactRequired, digestMatches
<1>3. CASE Load
  BY <1>3 DEF Load, journal, system, outside, TypeOK, Transaction, PhaseAt, EarlyPhases, RebootPhases, Terminal, Staged, ArtifactRequired, digestMatches
<1>4. CASE Replay
  BY <1>4 DEF Replay, Return, journal, NoTx, system, outside, TypeOK, Transaction, PhaseAt, EarlyPhases, RebootPhases, Terminal, Staged, ArtifactRequired, digestMatches
<1>5. CASE Preflight
  BY <1>5 DEF Preflight, At, Fail, journal, system, outside, TypeOK, Transaction, PhaseAt, EarlyPhases, RebootPhases, Terminal, Staged, ArtifactRequired, digestMatches
<1>6. CASE Download
  BY <1>6 DEF Download, At, Fail, journal, system, outside, TypeOK, Transaction, PhaseAt, EarlyPhases, RebootPhases, Terminal, Staged, ArtifactRequired, digestMatches
<1>7. CASE Verify
  BY <1>7 DEF Verify, At, Fail, journal, system, outside, TypeOK, Transaction, PhaseAt, EarlyPhases, RebootPhases, Terminal, Staged, ArtifactRequired, digestMatches
<1>8. CASE Install
  BY <1>8 DEF Install, At, journal, system, outside, TypeOK, Transaction, PhaseAt, EarlyPhases, RebootPhases, Terminal, Staged, ArtifactRequired, digestMatches
<1>9. CASE Activate
  BY <1>9 DEF Activate, At, journal, system, outside, TypeOK, Transaction, PhaseAt, EarlyPhases, RebootPhases, Terminal, Staged, ArtifactRequired, digestMatches
<1>10. CASE AfterActivate
  BY <1>10 DEF AfterActivate, At, journal, system, outside, TypeOK, Transaction, PhaseAt, EarlyPhases, RebootPhases, Terminal, Staged, ArtifactRequired, digestMatches
<1>11. CASE Save
  BY <1>11 DEF Save, Persist, Return, journal, NoTx, system, outside, TypeOK, Transaction, PhaseAt, EarlyPhases, RebootPhases, Terminal, Staged, ArtifactRequired, digestMatches
<1>12. CASE RequestReboot
  BY <1>12 DEF RequestReboot, At, Fail, Return, NoTx, journal, system, outside, TypeOK, Transaction, PhaseAt, EarlyPhases, RebootPhases, Terminal, Staged, ArtifactRequired, digestMatches
<1>13. CASE Finish
  BY <1>13 DEF Finish, Return, journal, NoTx, system, outside, TypeOK, Transaction, PhaseAt, EarlyPhases, RebootPhases, Terminal, Staged, ArtifactRequired, digestMatches
<1>14. CASE AwaitReboot
  BY <1>14 DEF AwaitReboot, Return, journal, NoTx, system, outside, TypeOK, Transaction, PhaseAt, EarlyPhases, RebootPhases, Terminal, Staged, ArtifactRequired, digestMatches
<1>15. CASE SaveRetry
  BY <1>15 DEF SaveRetry, Persist, Return, journal, NoTx, system, outside, TypeOK, Transaction, PhaseAt, EarlyPhases, RebootPhases, Terminal, Staged, ArtifactRequired, digestMatches
<1>16. CASE RebootRetry
  BY <1>16 DEF RebootRetry, Return, NoTx, journal, system, outside, TypeOK, Transaction, PhaseAt, EarlyPhases, RebootPhases, Terminal, Staged, ArtifactRequired, digestMatches
<1>17. CASE Rebooted
  BY <1>17 DEF Rebooted, journal, system, outside, TypeOK, Transaction, PhaseAt, EarlyPhases, RebootPhases, Terminal, Staged, ArtifactRequired, digestMatches
<1>18. CASE Confirm
  BY <1>18 DEF Confirm, Fail, journal, system, outside, TypeOK, Transaction, PhaseAt, EarlyPhases, RebootPhases, Terminal, Staged, ArtifactRequired, digestMatches
<1>19. CASE Commit
  BY <1>19 DEF Commit, journal, system, outside, TypeOK, Transaction, PhaseAt, EarlyPhases, RebootPhases, Terminal, Staged, ArtifactRequired, digestMatches
<1>20. CASE Abandon
  BY <1>20 DEF Abandon, journal, system, outside, TypeOK, Transaction, PhaseAt, EarlyPhases, RebootPhases, Terminal, Staged, ArtifactRequired, digestMatches
<1>21. CASE Rollback
  BY <1>21 DEF Rollback, journal, system, outside, TypeOK, Transaction, PhaseAt, EarlyPhases, RebootPhases, Terminal, Staged, ArtifactRequired, digestMatches
<1>22. CASE RollbackFails
  BY <1>22 DEF RollbackFails, journal, system, outside, TypeOK, Transaction, PhaseAt, EarlyPhases, RebootPhases, Terminal, Staged, ArtifactRequired, digestMatches
<1>23. CASE SaveRollback
  BY <1>23 DEF SaveRollback, Persist, journal, system, outside, TypeOK, Transaction, PhaseAt, EarlyPhases, RebootPhases, Terminal, Staged, ArtifactRequired, digestMatches
<1>24. CASE RebootRollback
  BY <1>24 DEF RebootRollback, Return, NoTx, journal, system, outside, TypeOK, Transaction, PhaseAt, EarlyPhases, RebootPhases, Terminal, Staged, ArtifactRequired, digestMatches
<1>25. CASE SaveEnd
  BY <1>25 DEF SaveEnd, Persist, Return, journal, NoTx, system, outside, TypeOK, Transaction, PhaseAt, EarlyPhases, RebootPhases, Terminal, Staged, ArtifactRequired, digestMatches
<1>26. CASE Age
  BY <1>26 DEF Age, journal, system, outside, TypeOK, Transaction, PhaseAt, EarlyPhases, RebootPhases, Terminal, Staged, ArtifactRequired, digestMatches
<1>27. CASE Crash
  BY <1>27 DEF Crash, journal, NoTx, system, outside, TypeOK, Transaction, PhaseAt, EarlyPhases, RebootPhases, Terminal, Staged, ArtifactRequired, digestMatches
<1>28. CASE Reboot
  BY <1>28 DEF Reboot, journal, NoTx, AfterPowerLoss, system, outside, TypeOK, Transaction, PhaseAt, EarlyPhases, RebootPhases, Terminal, Staged, ArtifactRequired, digestMatches
<1>29. CASE UNCHANGED vars
  BY <1>29 DEF vars, journal, system, outside, TypeOK, Transaction, PhaseAt, EarlyPhases, RebootPhases, Terminal, Staged, ArtifactRequired, digestMatches
<1>30. CASE OpenPart
  BY <1>30 DEF OpenPart, At, Fail, journal, File, NoFile, system, outside, TypeOK, Transaction, PhaseAt, EarlyPhases, RebootPhases, Terminal, Staged, ArtifactRequired, digestMatches
<1>31. CASE CopyPart
  BY <1>31 DEF CopyPart, At, Fail, journal, File, NoFile, system, outside, TypeOK, Transaction, PhaseAt, EarlyPhases, RebootPhases, Terminal, Staged, ArtifactRequired, digestMatches
<1>32. CASE ClosePart
  BY <1>32 DEF ClosePart, At, Fail, journal, File, NoFile, system, outside, TypeOK, Transaction, PhaseAt, EarlyPhases, RebootPhases, Terminal, Staged, ArtifactRequired, digestMatches
<1>33. CASE CheckPart
  BY <1>33 DEF CheckPart, At, Fail, journal, File, NoFile, system, outside, TypeOK, Transaction, PhaseAt, EarlyPhases, RebootPhases, Terminal, Staged, ArtifactRequired, digestMatches
<1>34. CASE CloseJob
  BY <1>34 DEF CloseJob, journal, system, outside, TypeOK, Transaction, PhaseAt, EarlyPhases, RebootPhases, Terminal, Staged, ArtifactRequired, digestMatches
<1> QED
  BY <1>1, <1>2, <1>3, <1>4, <1>5, <1>6, <1>7, <1>8, <1>9, <1>10, <1>11, <1>12, <1>13, <1>14, <1>15, <1>16, <1>17, <1>18, <1>19, <1>20, <1>21, <1>22, <1>23, <1>24, <1>25, <1>26, <1>27, <1>28, <1>29, <1>30, <1>31, <1>32, <1>33, <1>34
     DEF Next, Call, Engine, Forward, Fetch, Resume, ConfirmAndCommit, FailAndRollback, World

-----------------------------------------------------------------------------
(* The theorems.                                                           *)

\* An outcome is journalled after the work, and each stage after the one before.
LEMMA DueStep == TypeOK /\ WorkFollowsJournal /\ PhaseAt /\ Due /\ [Next]_vars => Due'
<1> SUFFICES ASSUME TypeOK, WorkFollowsJournal, PhaseAt, Due, [Next]_vars PROVE Due'
  OBVIOUS
<1> USE DEF TypeOK, Transaction, WorkFollowsJournal, Acting, PhaseAt, Due, Ongoing, Pending,
            EarlyPhases, RebootPhases, Terminal
<1>1. CASE Reject
  BY <1>1 DEF Reject, Return, journal, NoTx
<1>2. CASE Create
  BY <1>2 DEF Create, Persist, Fresh, NoTx
<1>3. CASE Load
  BY <1>3 DEF Load, journal
<1>4. CASE Replay
  BY <1>4 DEF Replay, Return, journal, NoTx
<1>5. CASE Preflight
  BY <1>5 DEF Preflight, At, Fail, journal
<1>6. CASE Download
  BY <1>6 DEF Download, At, Fail, journal
<1>7. CASE Verify
  BY <1>7 DEF Verify, At, Fail, journal
<1>8. CASE Install
  BY <1>8 DEF Install, At, journal
<1>9. CASE Activate
  BY <1>9 DEF Activate, At, journal
<1>10. CASE AfterActivate
  BY <1>10 DEF AfterActivate, At, journal
<1>11. CASE Save
  BY <1>11 DEF Save, Persist, Return, journal, NoTx
<1>12. CASE RequestReboot
  BY <1>12 DEF RequestReboot, At, Fail, Return, NoTx
<1>13. CASE Finish
  BY <1>13 DEF Finish, Return, journal, NoTx
<1>14. CASE AwaitReboot
  BY <1>14 DEF AwaitReboot, Return, journal, NoTx
<1>15. CASE SaveRetry
  BY <1>15 DEF SaveRetry, Persist, Return, journal, NoTx
<1>16. CASE RebootRetry
  BY <1>16 DEF RebootRetry, Return, NoTx
<1>17. CASE Rebooted
  BY <1>17 DEF Rebooted, journal
<1>18. CASE Confirm
  BY <1>18 DEF Confirm, Fail, journal
<1>19. CASE Commit
  BY <1>19 DEF Commit, journal
<1>20. CASE Abandon
  BY <1>20 DEF Abandon, journal
<1>21. CASE Rollback
  BY <1>21 DEF Rollback, journal
<1>22. CASE RollbackFails
  BY <1>22 DEF RollbackFails, journal
<1>23. CASE SaveRollback
  BY <1>23 DEF SaveRollback, Persist, journal
<1>24. CASE RebootRollback
  BY <1>24 DEF RebootRollback, Return, NoTx
<1>25. CASE SaveEnd
  BY <1>25 DEF SaveEnd, Persist, Return, journal, NoTx
<1>26. CASE Age
  BY <1>26 DEF Age
<1>27. CASE Crash
  BY <1>27 DEF Crash, journal, NoTx
<1>28. CASE Reboot
  BY <1>28 DEF Reboot, journal, NoTx
<1>29. CASE UNCHANGED vars
  BY <1>29 DEF vars
<1>30. CASE OpenPart
  BY <1>30 DEF OpenPart, At, Fail, journal, system
<1>31. CASE CopyPart
  BY <1>31 DEF CopyPart, At, Fail, journal, system
<1>32. CASE ClosePart
  BY <1>32 DEF ClosePart, At, Fail, journal, system
<1>33. CASE CheckPart
  BY <1>33 DEF CheckPart, At, Fail, journal, system
<1>34. CASE CloseJob
  BY <1>34 DEF CloseJob, journal
<1> QED
  BY <1>1, <1>2, <1>3, <1>4, <1>5, <1>6, <1>7, <1>8, <1>9, <1>10, <1>11, <1>12, <1>13, <1>14, <1>15, <1>16, <1>17, <1>18, <1>19, <1>20, <1>21, <1>22, <1>23, <1>24, <1>25, <1>26, <1>27, <1>28, <1>29, <1>30, <1>31, <1>32, <1>33, <1>34
     DEF Next, Call, Engine, Forward, Fetch, Resume, ConfirmAndCommit, FailAndRollback, World

\* The inductive invariant holds at the start, is kept, so holds throughout.
LEMMA Inductive == Spec => []IInv
<1>1. Init => IInv
  <2> SUFFICES ASSUME Init PROVE IInv
    OBVIOUS
  <2>1. TypeOK
    BY TypeInit
  <2>2. WorkFollowsJournal /\ PhaseAt
    BY DEF Init, WorkFollowsJournal, Acting, PhaseAt, NoTx
  <2>4. Staged
    BY ArtifactAssumption DEF Init, Staged, NoFile, NoTx
  <2>3. TargetRuns /\ OSTreeDevice
    BY DEF Init, NoTx, TargetRuns, OSTreeDevice, OldOnly, RevertsIn, EarlyPhases
  <2>5. Due
    BY DEF Init, Due
  <2> QED
    BY <2>1, <2>2, <2>3, <2>4, <2>5 DEF IInv
<1>2. IInv /\ [Next]_vars => IInv'
  BY TypeStep, PhaseStep, TargetStep, OSTreeStep, StagedStep, DueStep DEF IInv
<1> QED
  BY <1>1, <1>2, PTL DEF Spec

\* Type correctness of the engine.
THEOREM TypeCorrect == Spec => []TypeOK
<1>1. IInv => TypeOK
  BY DEF IInv
<1> QED
  BY <1>1, Inductive, PTL

\* Whatever crashes, power losses and failed writes happen, Execute drives
\* the updater only on the phase that the journal holds.
THEOREM JournalFollowed == Spec => []WorkFollowsJournal
<1>1. IInv => WorkFollowsJournal
  BY DEF IInv
<1> QED
  BY <1>1, Inductive, PTL

\* An OSTree transaction that is journalled as rolled back has left the
\* device on its old deployment.
THEOREM RolledBackSound == Spec => []RolledBackRunsOld
<1>1. IInv => RolledBackRunsOld
  BY DEF IInv, RolledBackRunsOld, OSTreeDevice, OldOnly
<1> QED
  BY <1>1, Inductive, PTL

\* Once the reboot is journalled, resuming never installs again.
THEOREM ResumeWithoutReinstall == Spec => NoReinstall
<1>1. IInv => (disk.phase \in RebootPhases \cup Terminal => ~Install)
  BY DEF IInv, WorkFollowsJournal, Acting, Install, At, RebootPhases, Terminal
<1> QED
  BY <1>1, Inductive, PTL DEF NoReinstall

\* No partial or wrong content is installed, whatever the server sends and
\* wherever crashes and power losses fall.
THEOREM InstalledWhole == Spec => WholeInstalled
<1>1. IInv => (Install /\ ArtifactRequired => digestMatches(staging.final))
  BY DEF IInv, Staged, Install, At
<1> QED
  BY <1>1, Inductive, PTL DEF WholeInstalled

\* Success is journalled only while the new image is the one that runs.
THEOREM SuccessSound == Spec => SuccessOnlyOnTarget
<1>1. IInv /\ [Next]_vars =>
        [(disk'.phase = "completed" /\ disk.phase # "completed" /\ ExactlyConfirmed)
            => dev.running = "new"]_vars
  <2> SUFFICES ASSUME IInv, [Next]_vars, ExactlyConfirmed,
                      disk'.phase = "completed", disk.phase # "completed"
               PROVE  dev.running = "new"
    OBVIOUS
  <2>1. disk' = tx \/ disk' = Fresh \/ disk' = disk
    BY DEF Next, Call, Engine, Forward, Fetch, Resume, ConfirmAndCommit, FailAndRollback, World,
           Reject, Create, Load, Replay, Preflight, Download, OpenPart, CopyPart, ClosePart, CheckPart, Verify, Install, Activate,
           AfterActivate, Save, RequestReboot, Finish, AwaitReboot, SaveRetry, RebootRetry,
           Rebooted, Confirm, Commit, Abandon, Rollback, RollbackFails, SaveRollback,
           RebootRollback, SaveEnd, Age, Crash, Reboot, CloseJob, Persist, journal, vars
  <2>2. Fresh.phase # "completed"
    BY DEF Fresh, NoTx
  <2> QED
    BY <2>1, <2>2 DEF IInv, TargetRuns
<1> QED
  BY <1>1, Inductive, PTL DEF Spec, SuccessOnlyOnTarget

-----------------------------------------------------------------------------
(* The refinement.                                                         *)

\* What a step is, seen from outside: at most a new image; an answer; a phase
\* that is journalled; or the last answer, perhaps with the outcome journalled.
Works == disk' = disk /\ result' = result
Tells ==
    /\ disk' = disk /\ dev' = dev
    /\ \/ result' = "failed"
       \/ result' = "succeeded" /\ disk.phase = "completed"
       \/ result' = "rebooting" /\ disk.phase \notin Terminal
Records ==
    /\ result' = result /\ dev' = dev
    /\ \/ pc \in {"save", "saveRetry", "saveRollback"} /\ disk' = tx
       \/ disk.phase = "none" /\ disk' = Fresh
Ends == pc = "saveEnd" /\ disk' = tx /\ result' = "failed" /\ dev' = dev

LEMMA OutsideStep ==
  ASSUME IInv, [Next]_vars
  PROVE  env' = env /\ (Works \/ Tells \/ Records \/ Ends)
<1>a. WorkFollowsJournal /\ PhaseAt /\ Due
  BY DEF IInv
<1>0. env' = env
  BY DEF Next, Call, Engine, Forward, Fetch, Resume, ConfirmAndCommit, FailAndRollback, World,
         Reject, Create, Load, Replay, Preflight, Download, OpenPart, CopyPart, ClosePart, CheckPart, Verify, Install, Activate,
         AfterActivate, Save, RequestReboot, Finish, AwaitReboot, SaveRetry, RebootRetry,
         Rebooted, Confirm, Commit, Abandon, Rollback, RollbackFails, SaveRollback,
         RebootRollback, SaveEnd, Age, Crash, Reboot, CloseJob, outside, system, vars
<1>1. CASE Load \/ Preflight \/ Download \/ Fetch \/ Verify \/ Install \/ Activate \/ AfterActivate
  BY <1>0, <1>1 DEF Load, Preflight, Download, Fetch, OpenPart, CopyPart, ClosePart, CheckPart, Verify, Install,
              Activate, AfterActivate, Fail, journal, Works
<1>2. CASE Rebooted \/ ConfirmAndCommit \/ Abandon \/ Rollback \/ RollbackFails \/ World \/ UNCHANGED vars
  BY <1>0, <1>2 DEF Rebooted, ConfirmAndCommit, Confirm, Commit, Abandon, Rollback, RollbackFails, World,
              Age, Crash, Reboot, CloseJob, Fail, journal, vars, Works
<1>3. CASE Reject \/ Replay
  BY <1>0, <1>3 DEF Reject, Replay, Return, journal, Tells
<1>4. CASE RequestReboot
  BY <1>0, <1>4, <1>a DEF RequestReboot, At, Fail, Return, Works, Tells, WorkFollowsJournal, Acting, Terminal
<1>5. CASE Finish
  BY <1>0, <1>5, <1>a DEF Finish, Return, journal, Tells, WorkFollowsJournal, Acting
<1>6. CASE AwaitReboot \/ RebootRetry
  BY <1>0, <1>6, <1>a DEF AwaitReboot, RebootRetry, Return, journal, Works, Tells, PhaseAt, RebootPhases, Terminal
<1>7. CASE RebootRollback
  BY <1>0, <1>7, <1>a DEF RebootRollback, Return, Works, Tells, Due, Ongoing, EarlyPhases, Terminal
<1>8. CASE Save \/ SaveRetry \/ SaveRollback
  BY <1>0, <1>8 DEF Save, SaveRetry, SaveRollback, Persist, Return, journal, Works, Tells, Records
<1>9. CASE SaveEnd
  BY <1>0, <1>9 DEF SaveEnd, Persist, Return, journal, Tells, Ends
<1>10. CASE Create
  BY <1>0, <1>10 DEF Create, Persist, Records
<1> QED
  BY <1>0, <1>1, <1>2, <1>3, <1>4, <1>5, <1>6, <1>7, <1>8, <1>9, <1>10
     DEF Next, Call, Engine, Forward, Resume, ConfirmAndCommit, FailAndRollback, World

\* Each of them is a step of the abstract transaction, or none.
LEMMA Simulation == IInv /\ [Next]_vars => [Abstract!ANext]_(Abstract!avars)
<1> SUFFICES ASSUME IInv, [Next]_vars PROVE [Abstract!ANext]_(Abstract!avars)
  OBVIOUS
<1> USE DEF Abstract!ANext, Abstract!avars, Abstract!Decided, Terminal
<1>a. TypeOK /\ PhaseAt /\ TargetRuns /\ Due
  BY DEF IInv
<1>b. env' = env /\ ExactlyConfirmed' = ExactlyConfirmed
  BY OutsideStep DEF ExactlyConfirmed
<1>c. dev'.running \in Images
  BY <1>a, TypeStep DEF TypeOK, Device
<1>1. CASE Works
  BY <1>1, <1>b, <1>c DEF Works, Abstract!ChangeImage, Images
<1>2. CASE Tells
  BY <1>2, <1>b DEF Tells, Abstract!Say
<1>3. CASE Records
  <2>1. CASE disk.phase = "none" /\ disk' = Fresh
    BY <1>3, <1>b, <2>1 DEF Records, Fresh, NoTx
  <2>2. CASE pc = "saveRetry" /\ disk' = tx
    BY <1>3, <1>a, <1>b, <2>2 DEF Records, PhaseAt
  <2>3. CASE pc = "saveRollback" /\ disk' = tx
    BY <1>3, <1>a, <1>b, <2>3 DEF Records, PhaseAt, Due, Ongoing, EarlyPhases, Abstract!Revert
  <2>4. CASE pc = "save" /\ disk' = tx
    <3>1. CASE tx.phase \in Pending
      BY <1>3, <1>a, <1>b, <2>4, <3>1 DEF Records, Due, Pending, Ongoing, EarlyPhases
    <3>2. CASE tx.phase = "reboot_requested"
      BY <1>3, <1>a, <1>b, <2>4, <3>2 DEF Records, Due, Pending, Ongoing, EarlyPhases, Abstract!Switch
    <3>3. CASE tx.phase = "completed"
      BY <1>3, <1>a, <1>b, <2>4, <3>3 DEF Records, Due, TargetRuns, Abstract!Complete
    <3>4. CASE tx.phase = "rolled_back"
      BY <1>3, <1>a, <1>b, <2>4, <3>4 DEF Records, Due, Abstract!Undo
    <3> QED
      BY <1>a, <2>4, <3>1, <3>2, <3>3, <3>4 DEF PhaseAt, Ongoing, Pending
  <2> QED
    BY <1>3, <2>1, <2>2, <2>3, <2>4 DEF Records
<1>4. CASE Ends
  BY <1>4, <1>a, <1>b DEF Ends, PhaseAt, Due, Ongoing, EarlyPhases, Abstract!Undo
<1> QED
  BY <1>1, <1>2, <1>3, <1>4, OutsideStep

\* Execute with its journal implements the abstract transaction: a durable
\* stage that only moves forward, success only on the new image, and answers
\* that agree with the stage.
THEOREM Refinement == Spec => ImplementsTransaction
<1>1. Init => Abstract!AInit
  BY DEF Init, NoTx, Abstract!AInit, ExactlyConfirmed, Terminal, Environments
<1> QED
  BY <1>1, Simulation, Inductive, PTL DEF Spec, ImplementsTransaction, Abstract!ASpec
=============================================================================
