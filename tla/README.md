# Verification of the FM10K control panel

TLA+ specifications of the control panel (`backend/fm10k_controlpanel`) and of
the part of NetLab's `configd` it depends on, TLC runs over small instances, and
TLAPS proofs for all instances.  Paths below are relative to `src/`; file names
without a directory are in `src/backend/fm10k_controlpanel/`.

## 1. The system

The panel is a web process that configures a 24-port switch card.  It holds no
configuration of its own: a *configuration authority* does, either the simulator
`MockConfigd` (in the same process) or NetLab's `configd` (another process, over
IPC).  A configuration is committed *with confirmation*: it takes effect, a timer
starts, and unless the operator confirms in time the previous one comes back.

| Component | State | Operations | Interacts with |
|---|---|---|---|
| Authority contract | configuration in force, the safe one, the pending job, outcomes | stage, confirm, roll back, refuse | what both backends promise the panel |
| `MockConfigd` (simulator.py) | `mock-configd.json`; revision, pending, last transaction, lanes, degraded ports | apply, confirm, rollback, tick, snapshot, restart | called on the owner thread; writes with `atomic_json` |
| `OwnerQueue` (service.py) | priority queue, keys, stopping event, futures | submit, `_run`, call, close | web threads and the sampler submit; its thread owns the transport |
| `PanelService` (service.py) | jobs, busy job, drafts, caches, deadlines | preview, commit, finish, recover_control, config, `_sample` | OwnerQueue for every backend call; app.py calls it |
| `NetlabBackend` (netlab.py) | connection, last decoded configuration | one RPC per operation, snapshots as evidence | panel_rpc.inc in configd |
| Panel RPCs (`vendor/netlab/sbin/configd/panel_rpc.inc`, `main.c`) | active commit, candidate, `confirmed.json`, sync flags | snapshot, validate, apply, confirm, rollback, recover; idle timer and replay | switchd and the protocol daemons |
| Commit journal (`commit_journal.c`) | journals, snapshots, pointer, confirmed record | create, update state, recover | configd only |
| Update transaction (`update_helper.py`, `installation.py`, `update_gate.py`) | state file, journal, marker, startup permission, checkpoint | check, install, work, recover, rollback | systemd units; gates the panel's start; locks its writes |
| HTTP application (`app.py`) | none of its own | requests; `writable` checks the maintenance marker | all of the above |
| Sessions (`auth.py`) | session table, login failures | login, session, logout | app.py |
| Optics page, eye scan, RoCE history (`optics.py`, `eye.py`, `roce_monitor.py`) | caches by revision, scan and port | read, start, cancel, sample | OwnerQueue; the scanner in switchd (`hardware/native/fm10k_eye_scan.c`) |
| RoCE profile (`roce.py`, `dcbx.py`, `models.py`, `netlab_codec.py`) | none | check, suggest, compile, decode the read-back | drafts; the switch's registers |
| Time synchronisation (`time_helper.py`) | a drop-in, the daemon, a lock | sync, restore | systemd; one helper process per request |
| Startup files (`scripts/stage_*.py`, `install_native_observation.py`, `deploy_roce.py`, `native_guard.py`) | files below `/etc`, copies, manifest | stage, refresh, deploy, restore, verify | switchd's start |
| ECN test paths (`scripts/verify_ecn_marking.py`, `roce_ecn_gateway.py`) | namespaces, captures, lent NICs, a report | build, probe, judge, clean up | the kernel of a test host |
| Board HAL (`board.py`, `hardware/native`) | registers: transmit masks, fan table | masked writes with readback | simulator; switchd |
| Models, codec, release, preflight | none | validation, conversion, verification of files | everywhere |
| Frontend, deploy, scripts | none | presentation, units, build | API |

Which behaviours are hard: calls of several threads meet in one queue and one
table of jobs; each piece of work is several RPCs, between which the authority's
timer, late requests and other threads go on; replies are lost after the commit
point; either process may be killed between two saves; a rollback may fail
itself.  `PROJECT.json` lists these hazards at their lines, with the properties
that cover each and a note where none does yet.

What makes each component correct:

- *Authority*: the configuration that is not confirmed is never safe, comes back
  exactly, and an answer once given stays true through crashes.
- *OwnerQueue*: no accepted work is forgotten, no key stays set, shutdown ends.
- *PanelService*: the state of a job agrees with what the authority did, one
  operation at a time, and every operation gives its place back.
- *Update transaction*: at every crash point either version is whole, the switch
  neither starts on a half-written one nor stays stopped after a recovery, no
  configuration is lost, and the report says what is installed.
- *configd*: "synchronised" is true of the hardware, a configuration nobody confirmed
  has a timer, and what was reported stays so, through crashes between any two writes.
- *Sessions, caches*: bounded tables, no session older than the credentials, no entry
  older than what it was taken from, no alarm without an unbroken series of samples.
- *Board and RoCE*: a write to a shared register changes one group; what the read-back
  calls applied is lossless, and what was sent is called applied.
- *Scripts and helpers*: what they report is so, and what they have taken or replaced can
  be found and restored.

## 2. The modules

| Module | Models | Role |
|---|---|---|
| `ConfirmedCommit` | the contract | abstract specification |
| `MockConfigd` | simulator.py, storage.py | implements `ConfirmedCommit` (`Implements`) |
| `MockConfigd_proofs` | | types, safety and the refinement, proved |
| `OwnerQueue` | service.py, class OwnerQueue | the thread and its queue |
| `OwnerQueue_proofs` | | types and safety, proved |
| `PanelService` | service.py, netlab.py, panel_rpc.inc, parts of main.c | composes the panel with the authority's handlers |
| `PanelService_proofs` | | types, safety and the end of jobs, proved |
| `Configd` | main.c (commit, timeout, recovery, replay), panel_rpc.inc, commit_journal.c, switchd's transaction tracker | the native authority write by write |
| `Configd_proofs` | | types and the properties of `Configd` and of `ConfirmedCommit`, proved |
| `AtomicUpdate` | the contract of an update | abstract specification |
| `UpdateTransaction` | update_helper.py, installation.py (upgrade, rollback), update_gate.py, `writable` of app.py | the update worker, its journal and recovery; implements `AtomicUpdate` (`ImplementsAtomicUpdate`) |
| `UpdateTransaction_proofs` | | types, safety and the refinement, proved |
| `BoardHal` | board.py, and simulator.py over it | register accesses of a configuration |
| `BoardHal_proofs` | | types and its three properties, proved |
| `RoceCommissioning` | roce.py, dcbx.py, rules of models.py, QoS of netlab_codec.py | from the draft to the read-back |
| `Sessions` | auth.py and its handlers in app.py | sessions, throttle, account |
| `OpticsCache`, `EyeScan`, `RoceMonitor` | service.py and optics.py; fm10k_eye_scan.c and eye.py; roce_monitor.py and netlab.py | what the panel keeps between requests |
| `Web_proofs` | | all safety of the four modules above, and of `RoceCommissioning`, proved |
| `EcnLab`; `EcnGateway` | verify_ecn_marking.py and ecn_lab.py; roce_ecn_gateway.py | the two ECN test paths |
| `TimeSync` | time_helper.py | helpers against systemd |
| `NativeBoot` | stage_basic100g.py, stage_native_control.py, install_native_observation.py, deploy_roce.py, native_guard.py | startup files and who writes them |
| `Operations_proofs` | | safety of `EcnLab`, `EcnGateway`, `TimeSync` and `NativeBoot`, proved |
| `MC*` | | constants for TLC, and composition of modules that share a run |

Operators named `...` with a comment that starts with `Mutant:` are wrong
variants of the definition that follows them; they are used by no specification
and serve to show that a property would notice the mistake.

### ConfirmedCommit

Four variables: the configuration in force, the one no timer can take away, the
pending job, and each job's outcome.  `Stage`, `Confirm`, `RollBack` (operator,
timer or restart) and `Abandon` (refused or cut short) are all that can happen.

### MockConfigd

`configuration`, `revision`, `pending`, `last_transaction` are the attributes of
the class, `disk` is the file.  Every call holds the lock, so a call is one action,
with one exception: `apply` saves its before-image, drives the hardware, and saves
again (`ApplyBegin`, then `ApplyFinish` or `ApplyFailed`), and `Crash` may come in
between.  `Tick` is the timer every call starts with; `RollBack`, which does not
run it, is separate.  Lanes are kept per port group: `Written` is a complete
`_apply_hardware`, `Restored` a failed one whose restoration worked, `NotRestored`
one whose restoration failed (the simulated bus fails there only when
`fail_rollback` is set, as the tests do).  `failure` is a fault armed through
`POST /simulation/fault`; a step it does not match leaves it armed, hence
`Written` with a fault armed.  Time is the bit `due`.  `settled` and `told` are
history: what the file decided about a job, and the answers callers received.

Left out: a save that fails (full disk), the simulated counters and sensors.  The manual
PWM test touches the fan only and is in `BoardHal`.

### OwnerQueue

A client is a place in the program that submits and waits.  `Put` and `AddKey` are
the two halves of `submit` under the lock, because `put_nowait` makes the work
visible to the owner before its key is recorded; that `DiscardKey` takes the
lock is what makes this safe.  The heap is a set with the order `older`;
`Precedes` is the tuple order (priority, sequence).  `EnterGet`/`Empty`/`Take`
separate the loop condition from `get`, so `close` can fall between them.

`call` is `submit` and a wait of at most 30 s.  A client whose wait ends early may
submit again; that is another client of the model.

### PanelService

Two processes and the wire between them.  configd: `revision` (the active commit
plus one), `record` (`confirmed.json`), `synced` (the board is bound, the hardware
in sync and the authority certain), `wire` (requests not yet handled, of which
some have been given up by the client).  The panel: `jobs`, `busy`, `request`
(what the queued work closes over), `drafts`, `owner` (where the owner thread is in
its current piece of work), `seen` and `reader` (snapshots that are used after
other steps have happened).

One action is one RPC or one locked section.  `Deliver` is configd's handling of a
request, `Timeout` its idle tick, `NativeReplay` the replay it does by itself.  A
rollback may fail before its commit point (`RestoreFails`), or after it (`Follows`:
the before-image is active but the hardware is out of sync); a commit may also pass
its commit point without its record saved, and gets it back on `Reconciled`.  A lost
or late reply does not matter to the panel except for a recovery: `apply` and
`_finish` decide from the snapshot (`Proven`, `FinishProven`).  `fate` is history: what
became of each job's configuration; "kept" is a configuration that could not be
taken back and was committed over.

Simplified: the board's binding and the out-of-sync flag are one bit; a
configuration is named by the job that commits it, so the comparison of
configurations after an apply is implied by the job; tables are unbounded;
`finish` reads its first snapshot and sends its request in one step.

### UpdateTransaction

Versions are numbers: job *j* installs version *j*.  `state` and `job` are
`state.json`; `journal` is `transaction.json` with its phase, its job, the version
before and the configuration the snapshot saw; `native`, `web` and `installation` are the
native tree, the Web package and the record; `config` counts the commits the native
state holds, and is `Half` while it is being copied, or when the new version has
spoiled it.  These survive a power cut.  `marker` and `permission` are files in `/run`,
`switch` and `panel` the running versions.

The worker is one process; `worker.pc` names the step that comes next, in the order
of `work`, `recover`, `upgrade` and `rollback`, and `worker.for` which of them it serves.  One
step is one durable change (a rename, a saved file, dpkg half way, a removed
directory), so that `KillWorker` and `PowerCut` fall between any two.  An exception is
the step that the handler around it takes (`NotStarted`, `UpgradeAborts`, `AbortFails`,
`UpgradeFails`, `RestoreFails`).  `CommitNotSaved` is the save of the last phase that fails, with
the phase already changed in memory.  `booting` holds the units systemd has still to
start, in any order; the native one asks `Gate` first.

Around it: `Install`, `LockWrites` and `Dispatch` are the three effects of an accepted request,
`Admit` is `writable` letting a configuration write through, `Commit` its arrival at
configd, possibly much later.

Left out: what an admission checks on the host; the digests that detect a damaged
checkpoint; the content of the candidate beyond its presence; `check` is one step,
though its network call takes time; commits from the command line, which do not know
the marker: one made during the health check of the new version is rolled back with it.
One timing assumption: the build takes longer than the helper needs between saving a job
and locking writes (`Prepare` waits for `helper = "idle"`).

### Configd

`disk` is what survives: the number last reserved and the pointer to the active
transaction (both in `tx_counter`), the journals with their immutable snapshots, and
`confirmed.json`.  `authority` is configd's memory, `hw` is switchd: what the ASIC
holds and the before-image of the transaction it has applied and not yet been told the
fate of.  `task` is where configd's one thread is; it names the transaction and for whom
the work is done, and each step of it is one durable write or one call to switchd, in the
order of `handle_commit`, `configd_apply_confirmed_timeout`, `configd_on_init` and
`reconcile_active_state`.  A write that fails has left the old text or the new one; the
one exception is the pointer, of which the rename may be seen and not be safe, so that a
power cut may take it back.  `earlier` is the disk before such a publication, until a
later write syncs the directory; the power cut brings all of it back, what was written
after the pointer included (assumed: a directory keeps the order of its renames).  A call that fails may have done
nothing, a part or all.  `Crash`, `RestartSwitch` (the hardware is blank afterwards) and
`PowerCut` come between any two steps, `Expire` at any time.  `told` is history: the
confirmations asked for, and what a snapshot has reported of each transaction while
nothing on disk was unsynced.  That limit is the code's: when the pointer's sync fails, a
later write fails or is cut off, a recovery finds nothing more to write and takes the
hardware back into sync, and a snapshot then reports an outcome, a power cut may still
bring the old pointer back and contradict it.  It takes five troubles in a row.

Assumed and left out: the native control mode; snapshots stay readable; every commit
touches the hardware, and only layer 2 of it; no production guard is armed.  The
mirror of the active configuration is a failing write of `Publish` and nothing else;
comments, the index and compaction of journals, scope leases, the candidate and its
validation are not there.  `MaxTx` also bounds how often a way back is retried.

Two facts of the model that no property states.  A commit refused because the creation of
its journal failed, after the file had become visible, leaves a `PREPARED` journal, and
`prepare_unresolved_for_active_replay` then refuses every replay until configd is
restarted (main.c:2987).  A transaction switchd could neither finish nor undo, and that
is the active one, blocks every replay until switchd is restarted.

### BoardHal

One step is one access of the I2C bus, which may be lost and come back between any two;
a write may not latch.  `call` and `ops` are the code's own call tree flattened: a
configuration, its rollback, the muting of what cannot be restored, and the manual PWM
test.  `ops` is the program such a call still has to run, a sequence of operations: the
mask of one group, the fan's curve, or a step of the SDK that may fail; `Each` lays the
groups out in the order of `PHYSICAL`.  Masks are sets of lanes per nibble, a curve is the
value its table entries carry.

### RoceCommissioning

A draft is a record with the fields the rules look at; `IsDraft` says what `models.py` lets
them hold.  `Issues`, `ValidConfig`, `Suggested` are `roce.py`'s checks, the validators and
the suggestions; `Compiled` is what the
codec's values mean for each register group; `Applied` is what `decode_operational` and
`dcbx.decode` make of them.  A commit writes the groups one by one and may stop half way,
so that groups of an earlier configuration remain.  The PFC watchdog and the SDK are
external.  Not part of the read-back in the code, and so not promised by
`AppliedIsLossless`: the default priority, and the trust of ports that are not selected.

### Sessions

`Auth` holds one lock, so each of its calls is a step; a request is admitted in one step
and handled in another, between which others change the account or log out.  The failures
of an address are the set of those still kept, each with its time; `guesses` is the history
of all of them, which nothing prunes.  A save
that fails may have replaced the file or not; the code then drops every session.

### OpticsCache, EyeScan, RoceMonitor

`OpticsCache` has the HTTP thread (which holds the service lock while it submits), the
owner thread (which reads without the lock) and a switch that is reconfigured at any
moment and whose PHY snapshot follows later; the entry records what was taken, and under
which mode.  `EyeScan` has the native scan with each of its writes to the lane failing or
losing its answer, and the panel merging pages of it; columns are the number of the run
they belong to.  `RoceMonitor` has the several remote calls of a reading, with a commit or
fresh counters between them, and the times between readings.

### EcnLab, EcnGateway

Each command may be refused or time out after the kernel has carried it out; packets and
records of captures are lost; signals raise where Python runs their handlers; SIGKILL
ends the script anywhere.  What the script believes (`owned`, `workers`, the lists) is kept
apart from what exists (`kernel`, `place`, `spaces`).  One consequence the property does
not exclude: a namespace whose `ip netns add` timed out after it had been made is not owned,
so the laboratory's report says `cleaned_up` and it stays.

### TimeSync

Helpers compete for the lock; each writes its drop-in, enables and restarts the daemon,
reads back, and undoes.  `systemctl` may fail or time out with its work done, the daemon
may stop, and systemd ends a helper that takes too long.

### NativeBoot

Files are named as the code names them and hold the name of the configuration they were
written for.  A script is the list of files it has still to write (`todo`); a write may
fail, and power may fail between any two.  `MayStart` is the guard.  Assumed: renames persist
in the order they were made (only `stage_native_control` syncs the directory), the copies
`deploy_roce` makes are complete before it changes anything, and nobody starts services
by hand while a script works.  The guard does not check the programs that are neither SDK
libraries nor configuration: power lost while `deploy_roce` copies them boots a mixture,
and a report that cannot be written at deploy_roce.py:189 keeps it from restoring; the
property asks only that the copies to restore from exist.  Left out: the cutover of the
legacy owner, and what `prepare` installs besides these files.

## 3. Runs

| Run | Question | Bounds | States |
|---|---|---|---|
| `authority` | what does the contract promise, and does configd keep it through crashes? | contract: 3 jobs, 3 configurations; configd: 4 transactions, 2 images, 2 troubles | 3 187 584 |
| `mock_configd` | does the simulator keep it, killed anywhere? | 2 groups, 2 modes, 3 jobs, 2 faults | 59 072 |
| `owner_queue` | do submitters, owner and shutdown interleave well? | 5 clients on 3 priorities, 2 keys, queue of 2, 2 closers | 7 264 |
| `panel_service` | do the panel's jobs agree with configd? | 3 jobs, 2 drafts, 5 revisions, 3 troubles, symmetry | 3.6 million |
| `panel_service_live` | is every place released and every outcome reported? | 2 jobs, 1 draft, 4 revisions, 2 troubles | 83 482 |
| `update_transaction` | is one whole version in place, no commit lost, the report true, and does a boot finish what was interrupted? | 2 jobs, 2 commits, 3 troubles, 1 failing last save | 245 611 |
| `device_programming` | is the board programmed whole, and is what is called lossless lossless? | 3 groups on 2 modules, 3 configurations, 2 faults; 3 ports, 4 code points, 2 edits of any field, 1 commit | 444 592 |
| `web_process` | is anything the panel keeps older than what it came from? | 2 clients, 2 sessions; 2 groups, 2 revisions; 2 scans of 3 columns; 4 readings | 2 007 875 |
| `operations` | are reports of scripts and helpers so, and can what they took be restored? | 2 namespaces, 1 to 3 probes of each case, 2 faults; 2 NICs, 3 faults; 2 helpers, 2 lists, 3 faults; 4 revisions, 3 troubles | 3 501 143 |
| `rolled_back_is_old`, `recovery_continues`, `queued_is_locked` | does the code do what the documentation says? (no: see below) | as small as shows it | |

Four runs hold several modules that share no state.  A variable (`lane`, `part` or `job`)
says which of them is explored; the others stand still, so that the states add up
instead of multiplying.  Nothing is claimed of their combinations.

Why these bounds are enough to see the interesting cases:

- Two groups distinguish a group a commit touches from one it does not; three jobs
  allow a commit, one that overlaps or follows it, and one after a restart; two
  faults allow a failing step and a failing retry of its rollback.
- A queue of two with five clients is full often; two clients share a key; two
  closers race.
- `trouble` counts every lost or late message, failed read, failed rollback, loss
  of sync and panel restart.  Three of them suffice for a lost apply reply, a lost
  snapshot and a late delivery in one behaviour; five revisions for two commits that
  are both taken back.  Jobs and drafts are interchangeable, so the safety run uses
  symmetry; the liveness run, which must not, is smaller.

- Four transactions are the first one and three more: a commit, the way back from it and
  the next commit, or a commit over another.  Two troubles are a lost write and a crash or
  power cut after it, or a crash and a failing replay; with three troubles and four
  transactions (15.4 million states, too long for a regular run) all properties hold too.
  Two images that have nothing in common make a leftover object visible.
- Three groups are two that share the registers of a module and one that does not.  Two
  edits combine any two fields of a draft, on each of three confirmed bases; one commit that
  stops anywhere mixes the groups of two configurations.
- Two browsers, a window of two and a lifetime of three steps in four let an expiry, a
  success and a change fall between two guesses; three columns in pages of one make a scan
  that is read over several calls; four readings pass the suspicion threshold once with
  and once without a gap.
- Two helpers are one at work and one at the door or killed before; three faults fail a
  step, its undoing and a command after that.  Four revisions are the seed, two commits
  and one after a restoration.
- Two jobs put a second update on top of the journal of the first, ended or not;
  three troubles interrupt an update, its recovery, and the recovery of that; two commits
  fall before and after a checkpoint.

Deadlock is checked in the update runs, where a worker can always be started.  In the
others it is not: a finite number of jobs ends every behaviour, as does the
end of the owner thread.

Three runs end in a counterexample, each against a sentence of the documentation:

- `rolled_back_is_old` (docs/OTA.md:34, a failed update restores the previous version):
  `upgrade` marks the transaction committed in memory, its save fails, `rollback` returns at
  once because of the mark, and the update is reported as rolled back while the new
  version runs.  The journal on disk still says `switching`, so the next boot does take
  it back, with every commit made since; this is why `NothingLost` and the second half
  of `ReportsAreTrue` exclude behaviours in which that save has failed.
- `recovery_continues` (docs/OTA.md:38, starting the worker continues a failed recovery): a
  recovery in phase `stopping` saves `aborted` before it starts the services; if the start
  fails, the next worker finds an ended transaction, says that the previous version is
  back, opens writes and starts nothing.  Only a boot does.
- `queued_is_locked` (docs/OTA.md:10 and tests/test_update_helper.py:44, writes are locked
  during an update): a worker that is ending removes the marker of a job accepted at that
  moment, and the start of the unit that was to run it is lost with it.

`OutcomeIsReported` says what the code does and no more: a job is reconciled while
the authority still holds the evidence.  A newer commit replaces the last
transaction; if one is made before a sample has read the outcome (a sampling
interval, or longer while samples fail because a sensor or port read fails), the
older job stays `awaiting_confirmation` until the panel restarts, and updates and
time synchronisation are refused meanwhile.

Fairness, and what justifies it:

- *The owner thread is scheduled and RPCs end*: every RPC has a timeout; weak
  fairness of its steps.
- *Its lock is not withheld for ever* (`SF` of `DiscardKey`): submitters hold it for a
  few statements.
- *A queued commit is started although `finish` calls keep coming* (`SF` of `Start`):
  equal priorities are served in order, which is `UrgentIsServed` of `OwnerQueue`.
- *Samples happen*: the monitor submits one every second.
- *The clock reaches a deadline, systemd restarts the panel* (`Restart=on-failure`),
  faults are finite: `MockConfigd`.
- *systemd starts at boot what is enabled, and a request or an update that runs goes on*:
  `UpdateTransaction`.  An administrator's start of the worker is not fair.
- The runs added for the board, the panel's caches, the scripts and configd check safety
  only: their behaviours end when their bounds are used up, or when a person ends them.
- No fairness is assumed of operators, of web clients, or of configd's timer.

## 4. Proofs

TLAPS proves, for all values of the constants allowed by the named assumptions
(`AuthorityAssumption`, `MockAssumption`, `QueueAssumption`, `ServiceAssumption`,
`UpdateAssumption`, `ConfigdAssumption`, `SessionsAssumption`, `EyeAssumption`,
`MonitorAssumption`, `GatewayAssumption`, `TimeAssumption`, `LabAssumption`, `BootAssumption`,
`RoceAssumption`, `BoardAssumption`).  They say that bounds are numbers, that tables and windows are not empty,
that the special values differ from the others and that what is offered for a field is
something it may hold; no more.  TLC evaluates each of them in a run.

| Module | Theorems | Which property of a run |
|---|---|---|
| `MockConfigd_proofs` | `TypeCorrect`, `LanesCorrect`, `AnswersCorrect`, `RevisionCorrect`, `Refinement` | all but `PendingSettles` |
| `OwnerQueue_proofs` | `TypeCorrect`, `KeysCorrect`, `CoalescingCorrect`, `ShutdownCorrect` | the two invariants |
| `PanelService_proofs` | `TypeCorrect`, `JobsAreTruthful`, `FailuresStayUnconfirmed`, `EndingsStay` | all three of the safety run |
| `Configd_proofs` | `TypesHold`, `SynchronizedIsTrue`, `UnconfirmedIsTakenBack`, `ReportsAreFinal` | all three of configd |
| | `TypeCorrect`, `SafeCorrect`, `AwaitingCorrect`, `OutcomeCorrect` | `OutcomeIsFinal` of `ConfirmedCommit` |
| `UpdateTransaction_proofs` | `TypeCorrect`, `VersionIsWhole`, `CommitsAreKept`, `ReportsAreCorrect`, `Refinement` | all but `BootRecovers` |
| `BoardHal_proofs` | `BoardTypesHold`, `RunningCurveIsWhole`, `ReportsAreTrue`, `OthersStay` | all three of `BoardHal` |
| `Web_proofs` | `NoSessionOutlivesCredentials`, `GuessesStayBounded`, `TablesStayBounded`, `ReadingsAreCurrent`, `LanesAreGivenBack`, `EyesAreWhole`, `AlarmsAreEarned` | all six |
| | `FaithfulIsRecognised`, `AppliedIsCorrect`, `SuggestionsAreEnough`, `SharesAreCorrect` | the four of `RoceCommissioning` |
| `Operations_proofs` | `NoNicIsLost`, `AnswersAreTrue`, `PassedIsEarned`, `BoardIsSafe` | all four |

Hardly any of these properties is inductive.  The invariants they rest on, and why:

- *ConfirmedCommit*.  The conjunction of the three invariants is inductive; the action
  property needs `OneAwaiting`, without which a rollback might reach a job that is not
  pending.
- *MockConfigd*.  Adds that what a restart would read is what the process knows
  (`MemoryIsSaved`), how `settled` and `pending` relate, and that a pending before-image
  equals the active configuration while the apply is still under way (without it a crash
  between the two saves would change the configuration without a rollback, which the
  abstract authority does not allow).  The refinement maps the saved file: a commit exists
  for the abstract authority when its second save has happened.
- *OwnerQueue*.  Ties keys to work: work under a key is queued, in hand, or just put by
  the client holding the lock; and a finalizing owner has nothing queued, which needs that
  `stopping` is never reset.
- *PanelService*.  The panel knows a transaction by its revision only.  `Claim` says that a
  revision the panel takes for a job's belongs to no other job, in the record and in every
  snapshot still looked at; it holds because revisions only grow and one configuration
  at a time is in doubt (`AuthorityIsConsistent`).  `WireIsHarmless` and `OneApply` say what
  a request that is still on the wire can reach: an apply only a job nobody reports a
  result of, once.  `OwnerHoldsItsJob` and `JobsAreStartedOnce` say that the job the owner
  thread is at is moved on by nobody else, and `SampleIsTrue` that a sample has not
  become false before it is used.
- *Configd*.  The properties speak of a configd at rest that calls itself synchronised;
  `ConfigdInv` says what is true between any two writes.  `DisksHold`: the published
  transaction never failed, each was started from an older one, and no confirmation is on
  record that nobody asked for, on the disk and on the one a power cut may bring back.
  `HardwareIsAccounted`: whatever failed, the hardware holds objects of the published
  configuration, of the one it replaced as long as its journal is open, and of the
  transaction switchd keeps a before-image of, and of no others; so a replay from the source
  the code chooses removes them all.  `AuthorityKnows`: memory and pointer agree unless
  configd knows that it could not tell.  `ThreadKnows`: what each step may rely on, for
  instance that a candidate is on the hardware with its way back as long as switchd is the
  one it was bound to.  `ReportsInv` adds that a transaction that was reported is on every
  disk a power cut may leave, one reported as rolled back is older than the pointer, one
  reported as confirmed has its record, and no work in progress leads away from it.
- *UpdateTransaction*.  What the disk holds follows from the phase in the journal
  (`DiskFollowsJournal`) and from the step the worker is at (`WorkerKnows`): with the
  worker gone only the first remains, and it is what recovery relies on.  Writes are locked
  from before the first change on (`WritesAreLocked`), so that the configuration the
  journal saw is still configd's (`ConfigurationIsKept`) and the journal is that of the job
  reported (`JobIsKept`); these two hold while every last save of a journal has worked, as
  `rolled_back_is_old` shows.  The refinement maps the version to the one in the journal's
  `before` while the phase is `checkpointed` or `switching`, and to what is in place
  otherwise: the update takes effect in the save that says `committed`.
- *BoardHal*.  Between two accesses the registers agree with nothing the authority says, so
  the invariant looks ahead: a program sets keys (the lanes of a group, the curve that
  runs), and what it still has to run leaves every key at the goal of the call
  (`GoalIsReached`), which is the new configuration for an apply, what was read before the
  first write for a rollback, and the authority's configuration otherwise.  A failure
  replaces the program by another, from wherever the registers are; that works because a
  program touches no key on which the two configurations agree (`StaysWithin`), so those
  still hold what both ask for, and sets all others.  `MaskKnows` and `FanKnows` say what
  has been read back inside an operation; `AutomaticIsWhole` needs the latter alone: the
  table is switched on by the last write of a program whose earlier ones have all been seen.
- *The web process*.  `CredentialsHold`: without an administrator there is no session, or the
  first administrator might inherit one.  `GuessesKept`: of the wrong passwords of an address
  those that still count are all kept, however much was pruned and when, and their times
  are in the order they were given; so when the one `Attempts` before a new one is within the
  window, those since are as well, and are enough to refuse it.  `TablesHold` adds to the types
  that the tables are finite: a new session takes another's place when the table is full, and
  only an address that is not refused gets another failure.  `OpticsInv`: a reading is current already while it
  is collected, since only the owner thread, which collects it, moves the revision on.
  `ScanKnows`: the lane is changed in no more than the scan has noted, so that its end
  restores all of it; `CacheHolds`: every column the panel has is of the run it names.
  `Accounted`: what the alarm is decided from is the history, from a sample on after which
  it is unbroken.
- *RoceCommissioning*.  `RoceInv`: what is confirmed has passed the checks, and a port whose
  reception is released is one that pauses and whose watchdog is on (`LeasesHold`): only
  such a port has the excuse the read-back accepts.  The rest is about the operators.
  `SharesAddUp`: what rounding leaves is the sum of the fractions divided by the total, so less
  than the number of classes, and as many classes stand early enough in the order of
  their fractions, since the rank in that order is a bijection (`FirstAreSoMany`).
  `SuggestionsReach`: an issue that stands at a field no suggestion changes is not there,
  so the suggestions reach every selected port.
- *Operations*.  `GatewayInv`: the list on disk is the list in memory, and a NIC is only
  ever away in its own namespace, on that list, while the namespace exists.  `Stands`: what
  a time helper has done and remembers, by the place it is at; whoever works holds the lock, so
  no other helper's step disturbs it.  `LabInv`: a lost probe stops the stage before it
  is judged, so what a capture does not show was kept by the queue.
- *NativeBoot*.  `BootInv` says, for each script, which writes are left and what the earlier ones
  have made of the files.  Every manifest that exists or will be written is of one
  configuration (`Honest`), so files the guard lets start are.  Before control is native
  the digests match only on files that start, or that start once the mode is put back,
  so a script that checks them begins on safe files, and its copies cover what it writes;
  the revision it adds does not show under the pointer in the copies (`BeforeControl`).
  Under control only a deployment writes, and its checkpoint covers all files but the mode,
  which it leaves alone (`UnderControl`).

Types are proved for `ConfirmedCommit`, `MockConfigd`, `OwnerQueue`, `PanelService`,
`UpdateTransaction`, `Configd`, `BoardHal` and `Sessions`, and are part of the other invariants as far as they are
needed.

Every safety and action property a passing run checks is proved.  Only model-checked is all
liveness (`BootRecovers`, `PendingSettles`, `ShutdownCompletes`, `UrgentIsServed`,
`PlaceIsReleased`, `OutcomeIsReported`): liveness under fairness is out of the prover's reach.
TLC also looks for what the proofs cannot show: that each property is broken by a mutant
of the code, and that every action can happen.

No module proved about declares a RECURSIVE operator.

## 5. What is left

In this order:

1. The result that `check` of the update helper writes over another's (its network call as
   a step of its own), and the limits of the panel's tables.
2. configd as a refinement of `ConfirmedCommit`.  It is one only for commits of the panel and
   without failing rollbacks: a commit of the command line confirms another's, and a
   configuration whose rollback failed before its commit point may be kept.

### Not modelled

- *Release verification* (`release.py`), *preflight, installation checks, HTTPS setup, host
  sensors*: functions of files and of the host at one moment, or I/O; nothing interacts.
- *Validation and XML conversion of whole configurations* (`models.py`, `netlab_codec.py`
  beyond the lossless profile): functions of large records, covered by the repository's
  tests.
- *Register sequences of the native adapter* (`hardware/native`, except the eye scan): what
  a register does is not in the source.
- *The protocol daemons* of NetLab, the *frontend*, *build and acceptance scripts*: third-party
  code, presentation, and tools that keep no state.
