----------------------------- MODULE NativeBoot -----------------------------
(***************************************************************************)
(* The files switchd starts from, the scripts that change them one by one  *)
(* (stage_basic100g.py, stage_native_control.py, refresh-boot of           *)
(* install_native_observation.py, deploy_roce.py), and the guard           *)
(* (native_guard.py) that decides at every start whether they fit.         *)
(*                                                                         *)
(* A write may fail, and power may fail between any two.  Nobody starts    *)
(* the services by hand while a script is at work.                         *)
(***************************************************************************)
EXTENDS Integers, Sequences

CONSTANTS
  MaxRevision,    \* bound: commits of configd
  MaxBootTrouble  \* bound: failed writes, power failures
ASSUME BootAssumption == MaxRevision \in Nat \ {0, 1} /\ MaxBootTrouble \in Nat

VARIABLES
  files,       \* what is on disk, by file, and directories moved away
  switching,   \* switchd has been let start
  script,      \* script at work
  todo,        \* files it has yet to write, in order
  backups,     \* directories below /var/backups: copies of files
  checkpoint,  \* the one deploy_roce restores
  report,      \* install.json of the last deployment
  bootTrouble

bootVars == <<files, switching, script, todo, backups, checkpoint, report, bootTrouble>>

\* f with the entries of w in place of its own.
Over(w, f) == [n \in DOMAIN w \cup DOMAIN f |-> IF n \in DOMAIN w THEN w[n] ELSE f[n]]
Revision(n, mode) == [r \in {n} |-> mode]

\* The rendered SDK startup file, of a configuration; edition 1 is rendered
\* by newer source, edition 2 has the buffers for RoCE.
Sdk(mode, edition) == [config |-> mode, edition |-> edition]
Digests(active, platform, sdk) == [active |-> active, platform |-> platform, sdk |-> sdk]
Manifest(mode, baseline, seed, digests) ==
  [mode |-> mode, baseline |-> baseline, seed |-> seed, sha256 |-> digests]

\* prepare has left an observation; configd's only revision is the seed.
BootInit ==
  /\ files = [ active |-> "observe", platform |-> "observe", sdk |-> Sdk("observe", 0),
               manifest |-> Manifest("observe", "observe", 1,
                                     Digests("observe", "observe", Sdk("observe", 0))),
               env |-> "observe", tx_counter |-> 1, rollback |-> Revision(1, "observe"),
               runtime |-> "old", package |-> "old", absent |-> {} ]
  /\ switching = FALSE /\ script = "none" /\ todo = <<>> /\ backups = {} /\ checkpoint = [absent |-> {}]
  /\ report = "none" /\ bootTrouble = 0

(***************************************************************************)
(* verify_startup.                                                         *)
(***************************************************************************)
DigestsMatch(f) == f.manifest.sha256 = Digests(f.active, f.platform, f.sdk)
\* A fixed installation runs its seed; control runs what configd has committed.
SeedStands(f) ==
  f.tx_counter = f.manifest.seed /\ f.tx_counter \in DOMAIN f.rollback
    /\ f.rollback[f.tx_counter] = f.active
ReplayStands(f) == f.tx_counter >= f.manifest.seed /\ f.tx_counter \in DOMAIN f.rollback
MayStart(f) ==
  /\ f.absent = {} /\ f.env = f.manifest.mode
  /\ DigestsMatch(f) /\ f.active = f.manifest.baseline
  /\ IF f.manifest.mode = "control" THEN ReplayStands(f) ELSE SeedStands(f)

Idle == script = "none"
Start ==
  /\ Idle /\ ~switching /\ MayStart(files) /\ switching' = TRUE
  /\ UNCHANGED <<files, script, todo, backups, checkpoint, report, bootTrouble>>
StopSwitch ==
  /\ Idle /\ switching /\ switching' = FALSE
  /\ UNCHANGED <<files, script, todo, backups, checkpoint, report, bootTrouble>>

\* configd commits, once it has the control.
CommitRevision ==
  /\ Idle /\ switching /\ files.env = "control" /\ files.tx_counter < MaxRevision
  /\ files' = [files EXCEPT !.tx_counter = @ + 1,
                            !.rollback = Over(Revision(files.tx_counter + 1, "user"), @)]
  /\ UNCHANGED <<switching, script, todo, backups, checkpoint, report, bootTrouble>>

(***************************************************************************)
(* The staging scripts: checks, copies, then one file after another.       *)
(***************************************************************************)
Copy(names) == [name \in names |-> files[name]]
Begin(name, writes, copies) ==
  /\ script' = name /\ todo' = writes /\ backups' = backups \cup {copies}
  /\ UNCHANGED <<files, bootTrouble>>

\* Mutant: the pointer is not among the copies.
BasicCopiesButPointer == Copy({"active", "platform", "sdk", "manifest", "env"})
BasicCopies == Copy({"active", "platform", "sdk", "manifest", "env", "tx_counter"})
StageBasic ==
  LET m == "basic100g"
  IN /\ Idle /\ ~switching /\ files.manifest.mode = "observe" /\ files.manifest.seed = 1
     /\ DigestsMatch(files) /\ files.active = "observe" /\ files.tx_counter = 1 /\ SeedStands(files)
     /\ 2 \notin DOMAIN files.rollback /\ files.env = "observe"
     /\ Begin("stage_basic100g",
              << [rollback |-> Over(Revision(2, m), files.rollback)], [active |-> m], [platform |-> m],
                 [sdk |-> Sdk(m, 0)], [env |-> m], [tx_counter |-> 2],
                 [manifest |-> Manifest(m, m, 2, Digests(m, m, Sdk(m, 0)))] >>,
              BasicCopies)
     /\ UNCHANGED <<switching, checkpoint, report>>

StageControl ==
  /\ Idle /\ ~switching /\ files.manifest.mode \in {"observe", "basic100g"}
  /\ DigestsMatch(files) /\ files.active = files.manifest.baseline
  /\ ReplayStands(files) /\ files.env = files.manifest.mode
  /\ Begin("stage_native_control",
           << [manifest |-> [files.manifest EXCEPT !.mode = "control"]], [env |-> "control"] >>,
           Copy({"manifest", "env"}))
  /\ UNCHANGED <<switching, checkpoint, report>>

RefreshBoot ==
  LET sdk == Sdk(files.active, 1)
  IN /\ Idle /\ ~switching /\ files.manifest.mode \in {"observe", "basic100g"}
     /\ DigestsMatch(files) /\ files.active = files.manifest.baseline /\ SeedStands(files)
     /\ Begin("refresh_boot",
              << [sdk |-> sdk], [manifest |-> [files.manifest EXCEPT !.sha256.sdk = sdk]] >>,
              Copy({"manifest", "sdk"}))
     /\ UNCHANGED <<switching, checkpoint, report>>

(***************************************************************************)
(* deploy_roce: stop, checkpoint, install, start, look; or restore.        *)
(***************************************************************************)
\* All of the three directories, and the package.
DeployCheckpoint ==
  Over([absent |-> {}],
       Copy({"runtime", "package", "active", "platform", "sdk", "manifest", "tx_counter", "rollback"}))
\* Programs, startup files unless the buffers are kept, package.
Installs(keep) ==
  LET sdk == [files.sdk EXCEPT !.edition = 2]
  IN IF keep
     THEN << [runtime |-> "mixed"], [runtime |-> "new"], [package |-> "mixed"], [package |-> "new"] >>
     ELSE << [runtime |-> "mixed"], [runtime |-> "new"],
             [sdk |-> sdk], [manifest |-> [files.manifest EXCEPT !.sha256.sdk = sdk]],
             [package |-> "mixed"], [package |-> "new"] >>
\* Each directory is moved away, then copied back.
Restores(c) ==
  << [absent |-> {"native"}], [runtime |-> c.runtime, absent |-> {}], [absent |-> {"boot"}],
     [active |-> c.active, platform |-> c.platform, sdk |-> c.sdk, manifest |-> c.manifest, absent |-> {}],
     [absent |-> {"config"}], [tx_counter |-> c.tx_counter, rollback |-> c.rollback, absent |-> {}],
     [package |-> "mixed"], [package |-> c.package] >>

DeployRoce ==
  /\ Idle /\ switching /\ files.env = "control" /\ files.package = "old"
  /\ \E keep \in BOOLEAN : (keep => files.sdk.edition = 2) /\ Begin("deploy_roce", Installs(keep), DeployCheckpoint)
  /\ switching' = FALSE /\ checkpoint' = DeployCheckpoint /\ report' = "none"

\* All units start, control becomes synchronized, configuration and accounts are
\* as they were, the buffers are ready: or this fails.
DeployStarts(name, says) ==
  /\ script = name /\ todo = <<>> /\ MayStart(files)
  /\ switching' = TRUE /\ script' = "none" /\ report' = says
  /\ UNCHANGED <<files, todo, backups, checkpoint, bootTrouble>>

(***************************************************************************)
(* Writes, their failures, and the power.                                  *)
(***************************************************************************)
WriteNext ==
  /\ todo # <<>> /\ files' = Over(Head(todo), files) /\ todo' = Tail(todo)
  /\ UNCHANGED <<switching, script, backups, checkpoint, report, bootTrouble>>
StagingEnds ==
  /\ script \in {"stage_basic100g", "stage_native_control", "refresh_boot", "stage_restore"} /\ todo = <<>>
  /\ script' = "none"
  /\ UNCHANGED <<files, switching, todo, backups, checkpoint, report, bootTrouble>>

BootTrouble == bootTrouble < MaxBootTrouble /\ bootTrouble' = bootTrouble + 1
Ends == script' = "none" /\ todo' = <<>>
\* stage_native_control puts both files back, the others end.
StagingFails ==
  /\ todo # <<>> /\ BootTrouble
  /\ \/ /\ script = "stage_native_control" /\ script' = "stage_restore"
        /\ todo' = << [manifest |-> [files.manifest EXCEPT !.mode = files.manifest.baseline]],
                      [env |-> files.manifest.baseline] >>
     \/ script \in {"stage_basic100g", "refresh_boot", "stage_restore"} /\ Ends
  /\ UNCHANGED <<files, switching, backups, checkpoint, report>>
\* deploy_roce writes its report and restores, unless the report cannot be written.
DeployFails ==
  /\ script = "deploy_roce" /\ BootTrouble
  /\ (script' = "deploy_restore" /\ todo' = Restores(checkpoint)) \/ Ends
  /\ UNCHANGED <<files, switching, backups, checkpoint, report>>
RestoreFails ==
  /\ script = "deploy_restore" /\ BootTrouble /\ Ends
  /\ UNCHANGED <<files, switching, backups, checkpoint, report>>

PowerFails ==
  /\ switching \/ ~Idle
  /\ BootTrouble /\ switching' = FALSE /\ Ends
  /\ UNCHANGED <<files, backups, checkpoint, report>>

BootNext ==
  \/ Start \/ StopSwitch \/ CommitRevision
  \/ StageBasic \/ StageControl \/ RefreshBoot \/ DeployRoce
  \/ DeployStarts("deploy_roce", "installed") \/ DeployStarts("deploy_restore", "restored")
  \/ WriteNext \/ StagingEnds \/ StagingFails \/ DeployFails \/ RestoreFails \/ PowerFails

BootSpec == BootInit /\ [][BootNext]_bootVars

(***************************************************************************)
(* Properties.                                                             *)
(***************************************************************************)

\* Startup files of one configuration, which is the one that runs.
OneConfiguration(f) ==
  /\ f.active = f.manifest.baseline /\ f.platform = f.active /\ f.sdk.config = f.active
  /\ f.env # "control" => f.env = f.active /\ f.rollback[f.tx_counter] = f.active

\* Wherever the power failed or a write did: switchd has only been let start on
\* startup files of one configuration, the one configd has when it has no
\* control; a board that would not start, or runs no one release, can be
\* restored from a directory of copies; and what deploy_roce reported is so.
BoardStartsOrRestores ==
  /\ switching => OneConfiguration(files)
  /\ Idle /\ ~(MayStart(files) /\ files.runtime = files.package) =>
       \E copy \in backups : LET f == Over(copy, files) IN
         MayStart(f) /\ OneConfiguration(f) /\ f.runtime = f.package
  /\ report = "installed" => files.runtime = "new" /\ files.package = "new" /\ files.sdk.edition = 2
  /\ report = "restored" /\ Idle =>
       MayStart(files) /\ \A name \in {"runtime", "package", "sdk", "manifest"} : files[name] = checkpoint[name]
=============================================================================
