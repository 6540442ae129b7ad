------------------------- MODULE UpdateTransaction -------------------------
(***************************************************************************)
(* A release update: the request helper and the worker of update_helper.py,*)
(* upgrade() and rollback() of installation.py, the startup gate of        *)
(* update_gate.py and the maintenance check of app.py.                     *)
(*                                                                         *)
(* Files survive a power cut; what is in /run (the marker, the startup     *)
(* permission), the services and the worker do not.  The worker may also   *)
(* be killed alone, and each of its steps may fail.  Job j installs        *)
(* version j; version 0 is the one installed at first.                     *)
(***************************************************************************)
EXTENDS Naturals

CONSTANTS
  Stopped, Absent, Half,  \* a service, a tree; a copy cut short or spoiled
  MaxJobs,       \* bound: update jobs of one behaviour
  MaxCommits,    \* bound: configuration commits
  MaxTrouble,    \* bound: failed steps, killed workers, power cuts
  MaxSaveFaults  \* bound: journal saves that find the disk full at the last phase

ASSUME UpdateAssumption == MaxJobs \in Nat /\ MaxCommits \in Nat /\ MaxTrouble \in Nat
                             /\ MaxSaveFaults \in Nat
                             /\ {Stopped, Absent, Half} \cap Nat = {}

VARIABLES
  (* on disk *)
  state, job,      \* state.json: the job's progress and its number
  journal,         \* transaction.json: its phase, job, previous version and configuration
  native, web,     \* the version of the native tree and of the Web package
  saved,           \* the native tree moved to the checkpoint
  installation,    \* installation.json: the version on record
  config,          \* the native state: how many commits it holds, or Half
  checkpoint,      \* its copy
  (* volatile *)
  marker,          \* /run/fm10k-update/maintenance
  permission,      \* a startup permission that names the living worker
  switch, panel,   \* the version each runs, or Stopped
  booting,         \* what systemd has still to start after a power cut
  helper,          \* where the install request is: "idle", "lock", "start"
  worker,          \* where the worker is, and whether it recovers or upgrades
  admitted,        \* a configuration write has passed writable() and is under way
  (* history and bounds *)
  committed,       \* how many commits configd has made durable
  trouble, saveFaults

disk == <<state, job, journal, native, web, saved, installation, config, checkpoint>>
files == <<native, web, saved, installation, config, checkpoint>>
services == <<switch, panel, booting, admitted>>
bounds == <<committed, trouble, saveFaults>>
surroundings == <<marker, permission, services, helper, bounds>>
vars == <<disk, worker, surroundings>>

Off == [pc |-> "off", for |-> "none"]

BUSY == {"queued", "downloading", "preparing", "installing", "restarting",
         "rolling_back", "recovery_required"}
TERMINAL_PHASES == {"committed", "rolled_back", "aborted"}
Versions == 0..MaxJobs

Init ==
  /\ state = "idle" /\ job = 0
  /\ journal = [phase |-> "none", job |-> 0, before |-> 0, config |-> 0]
  /\ native = 0 /\ web = 0 /\ saved = Absent /\ installation = 0
  /\ config = 0 /\ checkpoint = Half
  /\ marker = FALSE /\ permission = FALSE
  /\ switch = 0 /\ panel = 0 /\ booting = {}
  /\ helper = "idle" /\ worker = Off /\ admitted = FALSE
  /\ committed = 0 /\ trouble = MaxTrouble /\ saveFaults = MaxSaveFaults

Trouble == trouble > 0 /\ trouble' = trouble - 1 /\ UNCHANGED <<committed, saveFaults>>
At(pc) == worker.pc = pc
Go(pc) == worker' = [worker EXCEPT !.pc = pc]
Step(from, to) == At(from) /\ Go(to)
Progress(s) == state' = s /\ UNCHANGED job
Phase(p) == journal' = [journal EXCEPT !.phase = p]
----------------------------------------------------------------------------
(* Services.                                                               *)

\* verify_update_gate(), run before the native services start.
Gate == journal.phase \in TERMINAL_PHASES \cup {"none"} \/ permission

StopServices ==
  /\ switch' = Stopped /\ panel' = Stopped
  /\ booting' = booting \ {"switch", "panel"}
  /\ admitted' = FALSE

\* start_services(); its callers hold a permission or have ended the transaction.
StartServices ==
  /\ native # Absent /\ web # Half
  /\ switch' = native /\ panel' = web
  /\ booting' = booting \ {"switch", "panel"}
  /\ UNCHANGED admitted

\* At boot each unit starts or gives up, in any order.
BootSwitch ==
  /\ "switch" \in booting
  /\ switch' = IF Gate /\ native # Absent THEN native ELSE Stopped
  /\ booting' = booting \ {"switch"}
  /\ UNCHANGED <<disk, marker, permission, panel, admitted, helper, worker, bounds>>

BootPanel ==
  /\ "panel" \in booting
  /\ panel' = IF web # Half THEN web ELSE Stopped
  /\ booting' = booting \ {"panel"}
  /\ UNCHANGED <<disk, marker, permission, switch, admitted, helper, worker, bounds>>

PowerCut ==
  /\ Trouble
  /\ marker' = FALSE /\ permission' = FALSE
  /\ switch' = Stopped /\ panel' = Stopped /\ admitted' = FALSE
  /\ booting' = {"switch", "panel", "worker"}
  /\ helper' = "idle" /\ worker' = Off
  /\ UNCHANGED disk

\* A permission that names a dead process permits nothing.
KillWorker ==
  /\ worker # Off
  /\ Trouble
  /\ permission' = FALSE
  /\ worker' = Off
  /\ UNCHANGED <<disk, marker, services, helper>>

\* Mutant: the write check does not know of maintenance.
AdmitAlways ==
  /\ panel # Stopped /\ switch # Stopped /\ ~admitted
  /\ committed < MaxCommits
  /\ admitted' = TRUE
  /\ UNCHANGED <<disk, marker, permission, switch, panel, booting, helper, worker, bounds>>

\* writable(): the marker is looked at once, when the request comes in.
Admit ==
  /\ panel # Stopped /\ switch # Stopped /\ ~admitted
  /\ ~marker
  /\ committed < MaxCommits
  /\ admitted' = TRUE
  /\ UNCHANGED <<disk, marker, permission, switch, panel, booting, helper, worker, bounds>>

\* The write reaches configd, which does not need the panel any more.
Commit ==
  /\ admitted /\ switch # Stopped /\ config # Half
  /\ admitted' = FALSE
  /\ config' = config + 1
  /\ committed' = committed + 1
  /\ UNCHANGED <<state, job, journal, native, web, saved, installation, checkpoint, marker,
                  permission, switch, panel, booting, helper, worker, trouble, saveFaults>>
----------------------------------------------------------------------------
(* The request helper.                                                     *)

\* check(): the result is written over any outcome that is not busy.
Check ==
  /\ panel # Stopped /\ helper = "idle"
  /\ state \notin BUSY
  /\ \E result \in {"available", "up_to_date"} : Progress(result)
  /\ UNCHANGED <<journal, files, marker, permission, services, helper, worker, bounds>>

\* The candidate of the last check stays until a check or a success clears it,
\* and has to be newer than the version on record.
Candidate ==
  state = "available" \/ (state \in {"failed", "rolled_back"} /\ installation # job)

\* The panel reads the configuration from configd, then install() saves the job;
\* next writes are locked and the worker is started.
Install ==
  /\ panel # Stopped /\ switch # Stopped /\ helper = "idle"
  /\ state \notin BUSY /\ Candidate
  /\ job < MaxJobs
  /\ state' = "queued" /\ job' = job + 1
  /\ helper' = "lock"
  /\ UNCHANGED <<journal, files, marker, permission, services, worker, bounds>>

LockWrites ==
  /\ helper = "lock"
  /\ marker' = TRUE
  /\ helper' = "start"
  /\ UNCHANGED <<disk, permission, services, worker, bounds>>

\* systemctl start does nothing when the unit is still running.
Dispatch ==
  /\ helper = "start"
  /\ worker' = IF worker = Off THEN [Off EXCEPT !.pc = "begin"] ELSE worker
  /\ booting' = booting \ {"worker"}
  /\ helper' = "idle"
  /\ UNCHANGED <<disk, marker, permission, switch, panel, admitted, bounds>>

\* At boot, as the unit is wanted by multi-user.target, or by an administrator.
StartWorker ==
  /\ worker = Off
  /\ worker' = [Off EXCEPT !.pc = "begin"]
  /\ booting' = booting \ {"worker"}
  /\ UNCHANGED <<disk, marker, permission, switch, panel, admitted, helper, bounds>>
----------------------------------------------------------------------------
(* work(): what was interrupted first, then the queued job.                *)

\* Whatever is unfinished locks writes again: a power cut has removed the marker.
Begin ==
  /\ Step("begin", "recover")
  /\ marker' = (marker \/ state \in BUSY \/ journal.phase # "none")
  /\ UNCHANGED <<disk, permission, services, helper, bounds>>

\* Mutant: any busy job is taken for the one the journal tells of.
JournalTellsOfAny == state \in BUSY

\* By number for an ended rollback; by version, which tells the same here, for
\* a committed job.
JournalTells == state \in BUSY /\ job = journal.job

\* recover(): a transaction that had ended, its job unreported or not.
RecoverEnded ==
  /\ At("recover")
  /\ journal.phase \in TERMINAL_PHASES \cup {"none"}
  /\ IF journal.phase # "none" /\ JournalTells
     THEN /\ Progress(CASE journal.phase = "committed" -> "succeeded"
                        [] journal.phase = "rolled_back" -> "rolled_back"
                        [] journal.phase = "aborted" -> "failed")
          /\ Go("unlink")
     ELSE Go("decide") /\ UNCHANGED <<state, job>>
  /\ UNCHANGED <<journal, files, surroundings>>

\* Mutant: nothing is taken to be switched before the journal says so.
RecoverUnmoved ==
  /\ At("recover")
  /\ journal.phase \in {"stopping", "checkpointed", "switching"}
  /\ Progress("rolling_back")
  /\ worker' = [pc |-> IF journal.phase \in {"stopping", "checkpointed"}
                          THEN "abort" ELSE "restore_stop",
                for |-> "recover"]
  /\ UNCHANGED <<journal, files, surroundings>>

\* recover(): nothing was switched yet, or the checkpoint has to come back.
RecoverInterrupted ==
  /\ At("recover")
  /\ journal.phase \in {"stopping", "checkpointed", "switching"}
  /\ Progress("rolling_back")
  /\ worker' = [pc |-> IF journal.phase = "stopping" THEN "abort" ELSE "restore_stop",
                for |-> "recover"]
  /\ UNCHANGED <<journal, files, surroundings>>

Decide ==
  /\ At("decide")
  /\ IF state = "queued"
     THEN Progress("downloading") /\ worker' = [pc |-> "download", for |-> "upgrade"]
     ELSE Progress(IF state \in BUSY THEN "failed" ELSE state) /\ Go("unlink")
  /\ UNCHANGED <<journal, files, surroundings>>

\* The download is verified, then upgrade() builds the native tree aside.  The
\* build takes minutes: a request that was being handled has locked the writes.
Prepare ==
  /\ \/ At("download") /\ switch # Stopped /\ Progress("preparing") /\ Go("build")
     \/ At("build") /\ helper = "idle" /\ Progress("installing") /\ Go("stop_panel")
  /\ UNCHANGED <<journal, files, surroundings>>

StopPanel ==
  /\ Step("stop_panel", "save_stopping")
  /\ panel' = Stopped /\ booting' = booting \ {"panel"}
  /\ UNCHANGED <<disk, marker, permission, switch, admitted, helper, bounds>>

\* The configuration is read from configd; the journal names a new checkpoint.
SaveStopping ==
  /\ Step("save_stopping", "stop_all")
  /\ switch # Stopped
  /\ journal' = [phase |-> "stopping", job |-> job, before |-> installation, config |-> config]
  /\ saved' = Absent /\ checkpoint' = Half
  /\ UNCHANGED <<state, job, native, web, installation, config, surroundings>>

\* An exception before the journal is saved: only the panel may have to start.
NotStarted ==
  /\ worker.pc \in {"download", "build", "stop_panel", "save_stopping"}
  /\ IF worker.pc \in {"download", "save_stopping"} /\ switch = Stopped
     THEN UNCHANGED bounds
     ELSE Trouble
  /\ panel' = IF worker.pc \in {"stop_panel", "save_stopping"} THEN web ELSE panel
  /\ Progress("failed")
  /\ Go("unlink")
  /\ UNCHANGED <<journal, files, marker, permission, switch, booting, admitted, helper>>

StopAll ==
  /\ Step("stop_all", "checkpoint")
  /\ StopServices
  /\ UNCHANGED <<disk, marker, permission, helper, bounds>>

\* configd's durable pointer still is what the snapshot said.
SaveCheckpoint ==
  /\ Step("checkpoint", "move_native")
  /\ config = journal.config
  /\ checkpoint' = config
  /\ Phase("checkpointed")
  /\ UNCHANGED <<state, job, native, web, saved, installation, config, surroundings>>

\* Until the checkpoint is saved an exception only restarts what was stopped.
UpgradeAborts ==
  /\ worker.pc \in {"stop_all", "checkpoint"}
  /\ IF At("checkpoint") /\ config # journal.config THEN UNCHANGED bounds ELSE Trouble
  /\ Go("abort")
  /\ UNCHANGED <<disk, marker, permission, services, helper>>

\* Mutant: the services are left to systemd, which may have given them up.
AbortOnly ==
  /\ At("abort")
  /\ Phase("aborted")
  /\ Go(IF worker.for = "recover" THEN "report" ELSE "fail")
  /\ UNCHANGED <<state, job, files, surroundings>>

\* The transaction ends before the services are back.
Abort ==
  /\ Step("abort", "start_old")
  /\ Phase("aborted")
  /\ UNCHANGED <<state, job, files, surroundings>>

StartOld ==
  /\ At("start_old")
  /\ StartServices
  /\ Go(IF worker.for = "recover" THEN "report" ELSE "fail")
  /\ UNCHANGED <<disk, marker, permission, helper, bounds>>

\* An exception while aborting.
AbortFails ==
  /\ worker.pc \in {"abort", "start_old"}
  /\ Trouble
  /\ IF worker.for = "recover"
     THEN Progress("recovery_required") /\ Go("exit")
     ELSE UNCHANGED <<state, job>> /\ Go("fail")
  /\ UNCHANGED <<journal, files, marker, permission, services, helper>>

Fail ==
  /\ Step("fail", "unlink")
  /\ Progress("failed")
  /\ UNCHANGED <<journal, files, surroundings>>
----------------------------------------------------------------------------
(* upgrade(), from the first rename on.                                    *)

MoveNative ==
  /\ Step("move_native", "save_switching")
  /\ saved' = native /\ native' = Absent
  /\ UNCHANGED <<state, job, journal, web, installation, config, checkpoint, surroundings>>

SaveSwitching ==
  /\ Step("save_switching", "place_native")
  /\ Phase("switching")
  /\ UNCHANGED <<state, job, files, surroundings>>

PlaceNative ==
  /\ Step("place_native", "unpack")
  /\ native' = job
  /\ UNCHANGED <<state, job, journal, web, saved, installation, config, checkpoint,
                  surroundings>>

\* dpkg -i of the new package, interruptible half way.
InstallPackage ==
  /\ \/ At("unpack") /\ web' = Half /\ Go("configure")
     \/ At("configure") /\ web' = job /\ Go("start_new")
  /\ UNCHANGED <<state, job, journal, native, saved, installation, config, checkpoint,
                  surroundings>>

\* Nothing says beforehand that the new version leaves the old state as it was.
StartNew ==
  /\ Step("start_new", "health")
  /\ Progress("restarting")
  /\ permission' = TRUE
  /\ StartServices
  /\ config' \in {config, Half}
  /\ UNCHANGED <<journal, native, web, saved, installation, checkpoint, marker, helper, bounds>>

\* Mutant: the health check does not compare the configurations.
HealthOfServices ==
  /\ Step("health", "record")
  /\ permission' = FALSE
  /\ UNCHANGED <<disk, marker, services, helper, bounds>>

\* The health check, then the record of what is installed.
Health ==
  /\ Step("health", "record")
  /\ config = journal.config
  /\ permission' = FALSE
  /\ UNCHANGED <<disk, marker, services, helper, bounds>>

Record ==
  /\ Step("record", "commit")
  /\ installation' = job
  /\ UNCHANGED <<state, job, journal, native, web, saved, config, checkpoint, surroundings>>

SaveCommitted ==
  /\ Step("commit", "succeed")
  /\ Phase("committed")
  /\ UNCHANGED <<state, job, files, surroundings>>

\* That save fails.  The transaction in memory says committed, so rollback()
\* returns at once and its caller reports the previous version restored.
CommitNotSaved ==
  /\ Step("commit", "unlink")
  /\ saveFaults > 0 /\ saveFaults' = saveFaults - 1
  /\ Progress("rolled_back")
  /\ UNCHANGED <<journal, files, marker, permission, services, helper, committed, trouble>>

Succeed ==
  /\ Step("succeed", "unlink")
  /\ Progress("succeeded")
  /\ UNCHANGED <<journal, files, surroundings>>

\* An exception once the checkpoint is saved.
UpgradeFails ==
  /\ worker.pc \in {"move_native", "save_switching", "place_native", "unpack", "configure",
                    "start_new", "health", "record"}
  /\ IF At("health") /\ config # journal.config THEN UNCHANGED bounds ELSE Trouble
  /\ permission' = FALSE
  /\ Progress("rolling_back")
  /\ Go("restore_stop")
  /\ UNCHANGED <<journal, files, marker, services, helper>>
----------------------------------------------------------------------------
(* rollback(), from recover() or upgrade().                                *)

RestoreStop ==
  /\ At("restore_stop")
  /\ saved # Absent \/ journal.phase # "switching"
  /\ StopServices
  /\ Go(IF saved # Absent THEN "restore_native" ELSE "restore_state")
  /\ UNCHANGED <<disk, marker, permission, helper, bounds>>

\* What is in place goes aside; a copy of the checkpoint takes its place.
RestoreNative ==
  /\ \/ At("restore_native") /\ native' = Absent /\ Go("place_saved")
     \/ At("place_saved") /\ native' = saved /\ Go("restore_state")
  /\ UNCHANGED <<state, job, journal, web, saved, installation, config, checkpoint,
                  surroundings>>

\* Each directory is removed and copied back.
RestoreState ==
  /\ \/ At("restore_state") /\ config' = Half /\ Go("copy_state")
     \/ At("copy_state") /\ config' = checkpoint /\ Go("restore_package")
  /\ UNCHANGED <<state, job, journal, native, web, saved, installation, checkpoint,
                  surroundings>>

RestorePackage ==
  /\ \/ /\ At("restore_package") /\ web' = Half
        /\ Go("configure_old") /\ UNCHANGED installation
     \/ /\ At("configure_old") /\ web' = journal.before
        /\ Go("record_old") /\ UNCHANGED installation
     \/ /\ At("record_old") /\ installation' = journal.before
        /\ Go("start_restored") /\ UNCHANGED web
  /\ UNCHANGED <<state, job, journal, native, saved, config, checkpoint, surroundings>>

StartRestored ==
  /\ Step("start_restored", "verify")
  /\ permission' = TRUE
  /\ StartServices
  /\ UNCHANGED <<disk, marker, helper, bounds>>

Verify ==
  /\ Step("verify", "save_rolled_back")
  /\ config = journal.config
  /\ permission' = FALSE
  /\ UNCHANGED <<disk, marker, services, helper, bounds>>

SaveRolledBack ==
  /\ Step("save_rolled_back", "report")
  /\ Phase("rolled_back")
  /\ UNCHANGED <<state, job, files, surroundings>>

Report ==
  /\ Step("report", "unlink")
  /\ Progress("rolled_back")
  /\ UNCHANGED <<journal, files, surroundings>>

\* The recovery itself fails: the lock and the checkpoint stay.
RestoreFails ==
  /\ worker.pc \in {"restore_stop", "restore_native", "place_saved", "restore_state", "copy_state",
                    "restore_package", "configure_old", "record_old", "start_restored", "verify",
                    "save_rolled_back"}
  /\ IF At("verify") /\ config # journal.config THEN UNCHANGED bounds ELSE Trouble
  /\ permission' = FALSE
  /\ Progress("recovery_required")
  /\ Go("exit")
  /\ UNCHANGED <<journal, files, marker, services, helper>>

\* The lock is released whatever job it is for.
Unlink ==
  /\ Step("unlink", "exit")
  /\ marker' = FALSE
  /\ UNCHANGED <<disk, permission, services, helper, bounds>>

Exit ==
  /\ At("exit")
  /\ worker' = Off
  /\ UNCHANGED <<disk, surroundings>>

Worker ==
  \/ Begin \/ RecoverEnded \/ RecoverInterrupted \/ Decide
  \/ Prepare \/ StopPanel \/ SaveStopping \/ NotStarted
  \/ StopAll \/ SaveCheckpoint \/ UpgradeAborts
  \/ Abort \/ StartOld \/ AbortFails \/ Fail
  \/ MoveNative \/ SaveSwitching \/ PlaceNative \/ InstallPackage \/ StartNew
  \/ Health \/ Record \/ SaveCommitted \/ CommitNotSaved \/ Succeed \/ UpgradeFails
  \/ RestoreStop \/ RestoreNative \/ RestoreState \/ RestorePackage \/ StartRestored
  \/ Verify \/ SaveRolledBack \/ Report \/ RestoreFails
  \/ Unlink \/ Exit

Next ==
  \/ BootSwitch \/ BootPanel \/ PowerCut \/ KillWorker
  \/ Admit \/ Commit
  \/ Check \/ Install \/ LockWrites \/ Dispatch \/ StartWorker
  \/ Worker

Spec == Init /\ [][Next]_vars

\* What systemd starts at boot it starts; a request and a worker that run go on.
FairSpec == Spec /\ WF_vars(BootSwitch) /\ WF_vars(BootPanel)
            /\ WF_vars("worker" \in booting /\ StartWorker)
            /\ WF_vars(LockWrites \/ Dispatch) /\ WF_vars(Worker)
----------------------------------------------------------------------------
(* Properties.                                                             *)

TypeOK ==
  /\ state \in BUSY \cup {"idle", "available", "up_to_date", "succeeded", "rolled_back", "failed"}
  /\ job \in Versions /\ installation \in Versions
  /\ native \in Versions \cup {Absent} /\ saved \in Versions \cup {Absent}
  /\ web \in Versions \cup {Half}
  /\ switch \in Versions \cup {Stopped} /\ panel \in Versions \cup {Stopped}
  /\ journal \in [phase : TERMINAL_PHASES \cup {"none", "stopping", "checkpointed", "switching"},
                   job : Versions, before : Versions, config : 0..MaxCommits]
  /\ config \in 0..MaxCommits \cup {Half} /\ checkpoint \in 0..MaxCommits \cup {Half}
  /\ marker \in BOOLEAN /\ permission \in BOOLEAN /\ admitted \in BOOLEAN
  /\ booting \subseteq {"switch", "panel", "worker"} /\ helper \in {"idle", "lock", "start"}
  /\ worker.for \in {"none", "recover", "upgrade"}
  /\ committed \in 0..MaxCommits /\ trouble \in 0..MaxTrouble /\ saveFaults \in 0..MaxSaveFaults

\* What is there, and what runs, is one whole version.  A transaction that ended,
\* or was never begun, leaves it on disk: the native tree, the Web package, the
\* record and the configuration (the native start is allowed on the phase
\* alone).  The switch runs the version on record whenever writes are open: the
\* marker is gone after a power cut, and then the startup gate stands in.
OneWholeVersion ==
  /\ journal.phase \in TERMINAL_PHASES \cup {"none"} =>
       native = installation /\ web = installation /\ config # Half
  /\ switch # Stopped /\ ~marker =>
       switch = installation /\ native = installation /\ web = installation

\* No configuration that configd has made durable is undone or spoiled by an
\* update, at any crash or failure, while the journal can be saved.
NothingLost ==
  switch # Stopped /\ ~marker /\ saveFaults = MaxSaveFaults => config = committed

\* A job said to have succeeded is the one installed and committed; one said
\* to be rolled back left the version before it.
ReportsAreTrue ==
  /\ state = "succeeded" => journal.phase = "committed" /\ journal.job = job /\ installation = job
  /\ state = "rolled_back" /\ saveFaults = MaxSaveFaults =>
       journal.phase \in TERMINAL_PHASES /\ journal.job = job /\ installation = journal.before

\* Until a transaction ends, the device goes back to what the checkpoint holds.
InPlace == IF journal.phase \in {"checkpointed", "switching"} THEN journal.before ELSE native
Kept == IF journal.phase \in {"checkpointed", "switching"} THEN checkpoint ELSE config

\* However it is interrupted, an update is one step from the old version to a
\* newer one, for the configuration that is in force (installation.py:622).
Atomic == INSTANCE AtomicUpdate WITH version <- InPlace, configuration <- Kept
ImplementsAtomicUpdate == Atomic!Spec

\* After the last trouble, what systemd starts at boot brings the device back:
\* the interrupted job is reported, writes are open and the switch runs, unless
\* by then the next job is asked for.
BootRecovers ==
  \A j \in Versions :
    (trouble = 0 /\ "worker" \in booting /\ job = j)
      ~> (job > j \/ (state \notin BUSY /\ switch # Stopped /\ ~marker))

\* docs/OTA.md: a failed update restores and verifies the previous version.
RolledBackIsOld == state = "rolled_back" => installation = journal.before

\* docs/OTA.md: starting the worker again continues a recovery that failed.
RecoveryContinues ==
  [][state = "recovery_required" /\ state' \notin BUSY /\ booting = {} => switch' # Stopped]_vars

\* docs/OTA.md: during an update other writes are refused.  A queued job has
\* its marker once the request is answered, except until a boot's worker starts.
QueuedIsLocked ==
  state = "queued" /\ helper = "idle" /\ worker = Off /\ "worker" \notin booting => marker
=============================================================================
