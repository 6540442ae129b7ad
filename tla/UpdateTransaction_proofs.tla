---------------------- MODULE UpdateTransaction_proofs ----------------------
(***************************************************************************)
(* The update properties for any number of jobs, commits and troubles.     *)
(*                                                                         *)
(* None of them is inductive.  What the disk holds follows from the phase  *)
(* in the journal (DiskFollowsJournal), and while a worker lives also from *)
(* the step it is at (WorkerKnows): what it has put in place, and what it  *)
(* relies on.  Writes are locked from before the first change on           *)
(* (WritesAreLocked), so the configuration the journal saw is still the    *)
(* one configd has (ConfigurationIsKept), and the journal still is that of *)
(* the job that is reported (JobIsKept).                                   *)
(***************************************************************************)
EXTENDS UpdateTransaction, TLAPS

\* Phases before the first rename, or after the end.
Untouched == TERMINAL_PHASES \cup {"none", "stopping"}
\* Phases in which the checkpoint is what the device goes back to.
Moving == {"checkpointed", "switching"}

\* Where the worker can be, by what it is doing.
Choosing == {"recover", "decide", "download", "build"}
StoppingPanel == {"stop_panel", "save_stopping"}
StoppingAll == {"stop_all", "checkpoint"}
Checking == {"health", "record", "commit"}
Switching == {"move_native", "save_switching", "place_native", "unpack", "configure", "start_new"}
               \cup Checking
Aborting == {"abort", "start_old", "fail"}
Restarting == {"start_restored", "verify", "save_rolled_back"}
Restoring == {"restore_stop", "restore_native", "place_saved", "restore_state", "copy_state",
              "restore_package", "configure_old", "record_old"} \cup Restarting
\* It has stopped something, and has not yet said what came of it.
Acting == StoppingPanel \cup StoppingAll \cup Switching \cup Aborting \cup Restoring
            \cup {"succeed", "report"}
Places == {"off", "begin", "unlink", "exit"} \cup Choosing \cup Acting

WorkerType == worker \in [pc : Places, for : {"none", "recover", "upgrade"}]

Whole(v) == native = v /\ web = v /\ installation = v
Runs(v) == switch \in {Stopped, v}

DiskFollowsJournal ==
  /\ journal.phase \in Untouched => Whole(installation) /\ Runs(installation) /\ config # Half
  /\ journal.phase \in {"stopping", "aborted", "rolled_back"} => installation = journal.before
  /\ journal.phase = "committed" => installation = journal.job
  /\ journal.phase = "stopping" => saved = Absent
  /\ journal.phase = "checkpointed" => saved = journal.before \/ (saved = Absent /\ native = journal.before)
  /\ journal.phase = "switching" => saved = journal.before
  /\ journal.phase \in Moving => checkpoint = journal.config
  /\ permission => worker.pc \in {"health", "verify"}

\* Which journal each step stands on, what has been put in place by then, and
\* that nothing is written to the configuration meanwhile.
WorkerKnows ==
  /\ worker.pc \in {"decide", "download", "build"} \cup StoppingPanel =>
       journal.phase \in Untouched \ {"stopping"}
  /\ worker.pc = "save_stopping" => panel = Stopped /\ "panel" \notin booting
  /\ worker.pc \in StoppingAll \cup {"abort"} => journal.phase = "stopping"
  /\ worker.pc = "start_old" => journal.phase = "aborted"
  /\ worker.pc = "fail" => journal.phase \in {"stopping", "aborted"}
  /\ worker.pc = "report" => journal.phase \in {"aborted", "rolled_back"}
  /\ worker.pc \in StoppingAll \cup Switching \cup {"succeed"} => journal.job = job
  /\ worker.pc \in {"move_native", "save_switching"} => journal.phase = "checkpointed"
  /\ worker.pc = "move_native" => native = journal.before
  /\ worker.pc = "save_switching" => saved = journal.before
  /\ worker.pc \in Switching \ {"move_native", "save_switching"} => journal.phase = "switching"
  /\ worker.pc \in {"unpack", "configure", "start_new"} \cup Checking => native = job
  /\ worker.pc \in {"start_new"} \cup Checking => web = job
  /\ worker.pc \in Checking => Runs(job)
  /\ worker.pc = "commit" => installation = job
  /\ worker.pc = "succeed" => journal.phase = "committed"
  /\ worker.pc \in Restoring => journal.phase \in Moving
  /\ worker.pc \in {"restore_native", "place_saved"} => saved = journal.before
  /\ worker.pc \in Restoring \ {"restore_stop", "restore_native", "place_saved"} => native = journal.before
  /\ worker.pc \in {"record_old"} \cup Restarting => web = journal.before
  /\ worker.pc \in Restarting => installation = journal.before
  /\ worker.pc \in {"verify", "save_rolled_back"} => Runs(journal.before)
  /\ worker.pc \in {"record", "commit", "save_rolled_back"} => config = journal.config
  /\ worker.pc \in {"checkpoint"} \cup Switching \cup (Restoring \ {"restore_stop"}) => ~admitted
  /\ worker.pc = "unlink" /\ journal.phase \in Moving =>
       Whole(installation) /\ Runs(installation) /\ saveFaults < MaxSaveFaults

WritesAreLocked ==
  /\ worker.pc \in Acting \cup {"download", "build"} => state \in BUSY \ {"queued"}
  /\ worker.pc \in Acting => marker
  /\ worker.pc = "recover" /\ journal.phase # "none" => marker
  /\ worker.pc \notin {"off", "begin", "exit"} /\ state \in BUSY /\ helper # "lock" => marker
  /\ journal.phase \in Moving => marker \/ switch = Stopped \/ (Whole(installation) /\ Runs(installation))

\* A job is newer than what it replaces, and no more is saved than was committed.
Ordered ==
  /\ installation <= job /\ journal.job <= job
  /\ journal.phase # "none" => journal.before < journal.job
  /\ state = "queued" \/ worker.pc \in {"download", "build"} \cup StoppingPanel => installation < job
  /\ config # Half => config <= committed
  /\ journal.config <= committed
  /\ admitted => committed < MaxCommits

ConfigurationIsKept ==
  /\ journal.phase \in Untouched => config = committed
  /\ journal.phase \in Moving =>
       journal.config = committed /\ ~admitted /\ (marker \/ switch = Stopped)

JobIsKept ==
  /\ journal.phase = "stopping" => switch = Stopped \/ (panel = Stopped /\ "panel" \notin booting)
  /\ journal.phase \in Moving => state \in BUSY
  /\ journal.phase \in Moving \cup {"stopping"} => journal.job = job
  /\ worker.pc \in {"start_old", "report"} => journal.job = job

\* The last two hold while every last save of a journal has worked.
IInv ==
  /\ TypeOK /\ WorkerType /\ DiskFollowsJournal /\ WorkerKnows /\ WritesAreLocked /\ Ordered
  /\ saveFaults = MaxSaveFaults => ConfigurationIsKept /\ JobIsKept
  /\ ReportsAreTrue
----------------------------------------------------------------------------
USE DEF IInv, TypeOK, WorkerType, DiskFollowsJournal, WorkerKnows, WritesAreLocked, Ordered,
        ConfigurationIsKept, JobIsKept, ReportsAreTrue, Whole, Runs, Untouched, Moving,
        Choosing, StoppingPanel, StoppingAll, Checking, Switching, Aborting, Restarting, Restoring,
        Acting, Places, Off, BUSY, TERMINAL_PHASES, Versions, Step, At, Go, Progress, Phase, Trouble,
        disk, files, services, bounds, surroundings

\* A directory that is half copied is no configuration.
LEMMA Bounds ==
  /\ MaxJobs \in Nat /\ MaxCommits \in Nat /\ MaxTrouble \in Nat /\ MaxSaveFaults \in Nat
  /\ Half \notin Nat /\ Absent \notin Nat
  BY UpdateAssumption

\* One whole version, nothing under way.
LEMMA InitHolds == Init => IInv
  <1>1. Init => marker \in BOOLEAN /\ permission \in BOOLEAN /\ admitted \in BOOLEAN
    BY Zenon DEF Init
  <1> QED
    BY <1>1, Bounds DEF Init

\* The marker and the permission exist or not.
Flags == marker \in BOOLEAN /\ permission \in BOOLEAN /\ admitted \in BOOLEAN

\* What happens around the worker keeps the invariant: starts at boot, failures,
\* writes and requests.
LEMMA SurroundingsKeep ==
  ASSUME IInv, BootSwitch \/ BootPanel \/ PowerCut \/ KillWorker \/ Admit \/ Commit \/ Check
                \/ Install \/ LockWrites \/ Dispatch \/ StartWorker
  PROVE  IInv'
  <1> USE Bounds
  <1>1. CASE BootSwitch
    BY <1>1 DEF BootSwitch, Gate
  <1>2. CASE BootPanel
    BY <1>2 DEF BootPanel
  <1>3. CASE PowerCut
    <2>1. Flags'
      BY <1>3, Zenon DEF PowerCut, Flags
    <2> QED
      BY <1>3, <2>1 DEF PowerCut, Flags
  <1>4. CASE KillWorker
    <2>1. Flags'
      BY <1>4, Zenon DEF KillWorker, Flags
    <2> QED
      BY <1>4, <2>1 DEF KillWorker, Flags
  <1>5. CASE Admit
    BY <1>5 DEF Admit
  <1>6. CASE Commit
    <2>1. Flags'
      BY <1>6, Zenon DEF Commit, Flags
    <2> QED
      BY <1>6, <2>1 DEF Commit, Flags
  <1>7. CASE Check
    BY <1>7 DEF Check
  <1>8. CASE Install
    BY <1>8 DEF Install, Candidate
  <1>9. CASE LockWrites
    BY <1>9 DEF LockWrites
  <1>10. CASE Dispatch
    BY <1>10 DEF Dispatch
  <1>11. CASE StartWorker
    BY <1>11 DEF StartWorker
  <1> QED
    BY <1>1, <1>2, <1>3, <1>4, <1>5, <1>6, <1>7, <1>8, <1>9, <1>10, <1>11

\* So does a worker that recovers an ended transaction, or has moved nothing.
LEMMA FirstStepsKeep ==
  ASSUME IInv, Begin \/ RecoverEnded \/ RecoverInterrupted \/ Decide \/ Prepare \/ StopPanel
                \/ SaveStopping \/ NotStarted \/ StopAll \/ SaveCheckpoint \/ UpgradeAborts
                \/ Abort \/ StartOld \/ AbortFails \/ Fail \/ Unlink \/ Exit
  PROVE  IInv'
  <1> USE Bounds
  <1>1. CASE Begin
    <2>1. Flags'
      BY <1>1, Zenon DEF Begin, Flags
    <2>2. marker' <=> (marker \/ state \in BUSY \/ journal.phase # "none")
      BY <1>1, Zenon DEF Begin
    <2>3. Step("begin", "recover") /\ UNCHANGED <<disk, permission, services, helper, bounds>>
      BY <1>1 DEF Begin
    <2> QED
      BY <2>1, <2>2, <2>3 DEF Flags
  <1>2. CASE RecoverEnded
    BY <1>2 DEF RecoverEnded, JournalTells
  <1>3. CASE RecoverInterrupted
    BY <1>3 DEF RecoverInterrupted
  <1>4. CASE Decide
    BY <1>4 DEF Decide
  <1>5. CASE Prepare
    BY <1>5 DEF Prepare
  <1>6. CASE StopPanel
    BY <1>6 DEF StopPanel
  <1>7. CASE SaveStopping
    BY <1>7 DEF SaveStopping
  <1>8. CASE NotStarted
    BY <1>8 DEF NotStarted
  <1>9. CASE StopAll
    <2>1. Flags'
      BY <1>9, Zenon DEF StopAll, StopServices, Flags
    <2> QED
      BY <1>9, <2>1 DEF StopAll, StopServices, Flags
  <1>10. CASE SaveCheckpoint
    BY <1>10 DEF SaveCheckpoint
  <1>11. CASE UpgradeAborts
    BY <1>11 DEF UpgradeAborts
  <1>12. CASE Abort
    BY <1>12 DEF Abort
  <1>13. CASE StartOld
    BY <1>13 DEF StartOld, StartServices
  <1>14. CASE AbortFails
    BY <1>14 DEF AbortFails
  <1>15. CASE Fail
    BY <1>15 DEF Fail
  <1>16. CASE Unlink
    <2>1. Flags'
      BY <1>16, Zenon DEF Unlink, Flags
    <2> QED
      BY <1>16, <2>1 DEF Unlink, Flags
  <1>17. CASE Exit
    BY <1>17 DEF Exit
  <1> QED
    BY <1>1, <1>2, <1>3, <1>4, <1>5, <1>6, <1>7, <1>8, <1>9, <1>10, <1>11, <1>12, <1>13, <1>14,
       <1>15, <1>16, <1>17

\* So does one that puts the new version in place.
LEMMA SwitchingKeeps ==
  ASSUME IInv, MoveNative \/ SaveSwitching \/ PlaceNative \/ InstallPackage \/ StartNew
                \/ Health \/ Record \/ SaveCommitted \/ CommitNotSaved \/ Succeed
                \/ UpgradeFails
  PROVE  IInv'
  <1> USE Bounds
  <1>1. CASE MoveNative
    BY <1>1 DEF MoveNative
  <1>2. CASE SaveSwitching
    BY <1>2 DEF SaveSwitching
  <1>3. CASE PlaceNative
    BY <1>3 DEF PlaceNative
  <1>4. CASE InstallPackage
    BY <1>4 DEF InstallPackage
  <1>5. CASE StartNew
    BY <1>5 DEF StartNew, StartServices
  <1>6. CASE Health
    <2>1. Flags'
      BY <1>6, Zenon DEF Health, Flags
    <2> QED
      BY <1>6, <2>1 DEF Health, Flags
  <1>7. CASE Record
    BY <1>7 DEF Record
  <1>8. CASE SaveCommitted
    BY <1>8 DEF SaveCommitted
  <1>9. CASE CommitNotSaved
    BY <1>9 DEF CommitNotSaved
  <1>10. CASE Succeed
    BY <1>10 DEF Succeed
  <1>11. CASE UpgradeFails
    <2>1. Flags'
      BY <1>11, Zenon DEF UpgradeFails, Flags
    <2> QED
      BY <1>11, <2>1 DEF UpgradeFails, Flags
  <1> QED
    BY <1>1, <1>2, <1>3, <1>4, <1>5, <1>6, <1>7, <1>8, <1>9, <1>10, <1>11

\* So does one that goes back to the checkpoint.
LEMMA RestoringKeeps ==
  ASSUME IInv, RestoreStop \/ RestoreNative \/ RestoreState \/ RestorePackage \/ StartRestored
                \/ Verify \/ SaveRolledBack \/ Report \/ RestoreFails
  PROVE  IInv'
  <1> USE Bounds
  <1>1. CASE RestoreStop
    <2>1. Flags'
      BY <1>1, Zenon DEF RestoreStop, StopServices, Flags
    <2> QED
      BY <1>1, <2>1 DEF RestoreStop, StopServices, Flags
  <1>2. CASE RestoreNative
    BY <1>2 DEF RestoreNative
  <1>3. CASE RestoreState
    BY <1>3 DEF RestoreState
  <1>4. CASE RestorePackage
    BY <1>4 DEF RestorePackage
  <1>5. CASE StartRestored
    BY <1>5 DEF StartRestored, StartServices
  <1>6. CASE Verify
    <2>1. Flags'
      BY <1>6, Zenon DEF Verify, Flags
    <2> QED
      BY <1>6, <2>1 DEF Verify, Flags
  <1>7. CASE SaveRolledBack
    BY <1>7 DEF SaveRolledBack
  <1>8. CASE Report
    BY <1>8 DEF Report
  <1>9. CASE RestoreFails
    <2>1. Flags'
      BY <1>9, Zenon DEF RestoreFails, Flags
    <2> QED
      BY <1>9, <2>1 DEF RestoreFails, Flags
  <1> QED
    BY <1>1, <1>2, <1>3, <1>4, <1>5, <1>6, <1>7, <1>8, <1>9

\* A step keeps the invariant.
LEMMA StepHolds == IInv /\ [Next]_vars => IInv'
  <1>1. ASSUME IInv, UNCHANGED vars PROVE IInv'
    BY <1>1 DEF vars
  <1> QED
    BY <1>1, SurroundingsKeep, FirstStepsKeep, SwitchingKeeps, RestoringKeeps DEF Next, Worker

----------------------------------------------------------------------------
HIDE DEF IInv, TypeOK, ReportsAreTrue

\* The invariant holds throughout.
LEMMA Invariant == Spec => []IInv
  BY InitHolds, StepHolds, PTL DEF Spec

\* The files, the services and the worker keep their types.
THEOREM TypeCorrect == Spec => []TypeOK
  <1>1. IInv => TypeOK
    BY DEF IInv
  <1> QED
    BY <1>1, Invariant, PTL

\* A transaction that has ended leaves one whole version on disk, and while writes
\* are open the switch runs the version on record (upgrade, rollback, recover).
THEOREM VersionIsWhole == Spec => []OneWholeVersion
  <1>1. IInv /\ journal.phase \in TERMINAL_PHASES \cup {"none"} =>
          native = installation /\ web = installation /\ config # Half
    BY DEF IInv
  <1>2. IInv /\ switch # Stopped /\ ~marker =>
          switch = installation /\ native = installation /\ web = installation
    BY DEF IInv, TypeOK
  <1>3. IInv => OneWholeVersion
    BY <1>1, <1>2 DEF OneWholeVersion
  <1> QED
    BY <1>3, Invariant, PTL

\* No update undoes a commit, while the journal can be saved (NothingLost).
THEOREM CommitsAreKept == Spec => []NothingLost
  <1>1. IInv => NothingLost
    BY DEF IInv, TypeOK, NothingLost
  <1> QED
    BY <1>1, Invariant, PTL

\* What is reported of a job is so (ReportsAreTrue).
THEOREM ReportsAreCorrect == Spec => []ReportsAreTrue
  <1>1. IInv => ReportsAreTrue
    BY DEF IInv
  <1> QED
    BY <1>1, Invariant, PTL
----------------------------------------------------------------------------
\* Most steps leave the journal, the native tree and the configuration alone.
LEMMA SurroundingsStutter ==
  ASSUME \/ BootSwitch \/ BootPanel \/ PowerCut \/ KillWorker \/ Admit \/ Check \/ Install
         \/ LockWrites \/ Dispatch \/ StartWorker \/ Begin \/ RecoverEnded \/ RecoverInterrupted
         \/ Decide \/ Prepare \/ StopPanel \/ NotStarted \/ StopAll \/ UpgradeAborts \/ StartOld
         \/ AbortFails \/ Fail \/ Unlink \/ Exit \/ Health \/ CommitNotSaved \/ Succeed \/ UpgradeFails
         \/ RestoreStop \/ StartRestored \/ Verify \/ Report \/ RestoreFails \/ Record
  PROVE  UNCHANGED <<journal, native, config, checkpoint>>
  BY DEF BootSwitch, BootPanel, PowerCut, KillWorker, Admit, Check, Install, LockWrites, Dispatch,
         StartWorker, Begin, RecoverEnded, RecoverInterrupted, Decide, Prepare, StopPanel, NotStarted,
         StopAll, UpgradeAborts, StartOld, AbortFails, Fail, Unlink, Exit, Health, CommitNotSaved,
         Succeed, UpgradeFails, RestoreStop, StartRestored, Verify, Report, RestoreFails, Record,
         disk, files

\* What the others change is not what the device would come back with, except
\* that of a commit and of the end of an update.
LEMMA StepIsAtomic == IInv /\ [Next]_vars => [Atomic!Next]_<<InPlace, Kept>>
  <1> SUFFICES ASSUME IInv, [Next]_vars PROVE [Atomic!Next]_<<InPlace, Kept>>
    OBVIOUS
  <1> USE Bounds DEF IInv, TypeOK, InPlace, Kept
  <1>1. ASSUME UNCHANGED <<journal, native, config, checkpoint>>
        PROVE  UNCHANGED <<InPlace, Kept>>
    BY <1>1
  <1>2. CASE Commit
    BY <1>2 DEF Commit, Atomic!Next, Atomic!Commit
  <1>3. CASE SaveStopping \/ SaveCheckpoint \/ Abort
    BY <1>3 DEF SaveStopping, SaveCheckpoint, Abort
  <1>4. CASE MoveNative \/ SaveSwitching \/ PlaceNative \/ InstallPackage \/ StartNew
    BY <1>4 DEF MoveNative, SaveSwitching, PlaceNative, InstallPackage, StartNew, StartServices
  <1>5. CASE SaveCommitted
    BY <1>5 DEF SaveCommitted, Atomic!Next, Atomic!Update
  <1>6. CASE RestoreNative \/ RestoreState \/ RestorePackage \/ SaveRolledBack
    BY <1>6 DEF RestoreNative, RestoreState, RestorePackage, SaveRolledBack
  <1>7. CASE UNCHANGED vars
    BY <1>1, <1>7 DEF vars
  <1> QED
    BY <1>1, <1>2, <1>3, <1>4, <1>5, <1>6, <1>7, SurroundingsStutter DEF Next, Worker

\* An update is one step to a newer version, however it is interrupted.
THEOREM Refinement == Spec => ImplementsAtomicUpdate
  <1>1. Init => Atomic!Init
    BY DEF Init, Atomic!Init, InPlace, Kept
  <1> QED
    BY <1>1, Invariant, StepIsAtomic, PTL DEF Spec, Atomic!Spec, ImplementsAtomicUpdate
=============================================================================
