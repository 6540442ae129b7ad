---------------------------- MODULE MockConfigd ----------------------------
(***************************************************************************)
(* The simulated configuration authority, backend/fm10k_controlpanel/      *)
(* simulator.py.  Every call holds the authority's lock and starts with    *)
(* the confirmation timer (tick), so a call is one action, except apply:   *)
(* it persists twice, before and after it touches the hardware, and the    *)
(* process may be killed in between.                                       *)
(*                                                                         *)
(* A configuration is what the optical lanes of each port group are set    *)
(* to; the wall clock is abstracted to whether the deadline has passed.    *)
(***************************************************************************)
EXTENDS Integers

CONSTANTS
  Groups, Modes,   \* the port groups and what a group can be configured to
  Muted,           \* a group whose transmit lanes are switched off
  Default,         \* SwitchConfiguration(): the fresh configuration
  Jobs, NoJob,     \* uuid4 job identifiers
  MaxFaults        \* bound: faults an operator arms in one behaviour

Configs == [Groups -> Modes]

ASSUME MockAssumption ==
  /\ Default \in Configs
  /\ Muted \notin Modes
  /\ NoJob \notin Jobs
  /\ MaxFaults \in Nat

VARIABLES
  up,               \* the panel process, and the simulator in it, runs
  disk,             \* mock-configd.json
  revision, configuration, pending, last_transaction,   \* the same, in memory
  target,           \* the configuration apply is writing (Default when there is none)
  lanes,            \* what each group's transmit lanes are programmed to
  degraded,         \* degraded_ports, by group
  failure,          \* a fault is armed for the next hardware step it matches
  faults,           \* faults still to be armed (bounds the environment)
  due,              \* the clock has reached the pending deadline
  settled,          \* history: what the saved state decided about each job
  told              \* history: the answers calls have returned, <<job, answer>>

memory == <<revision, configuration, pending, last_transaction>>
hardware == <<lanes, degraded, failure>>
vars == <<up, disk, memory, target, hardware, faults, due, settled, told>>

NoPending == [job |-> NoJob, before |-> Default, phase |-> "none"]
NoTransaction == [job |-> NoJob, revision |-> 0, state |-> "none"]

File(r, c, p, t) ==
  [revision |-> r, configuration |-> c, pending |-> p, last_transaction |-> t]

Idle == pending.phase # "applying"       \* no apply is between its two saves
Awaiting == pending.phase = "awaiting_confirmation"
\* Mutant: the timer leaves a degraded switch alone.
ExpiredHealthy == Awaiting /\ due /\ degraded = {}
Expired == Awaiting /\ due       \* the condition of tick()

\* _persist: atomic_json replaces the file in one rename.
Persist == disk' = File(revision', configuration', pending', last_transaction')

Settle(j, how) == settled' = [settled EXCEPT ![j] = how]
Tell(j, answer) == told' = told \cup {<<j, answer>>}

Init ==
  /\ up = TRUE
  /\ revision = 1
  /\ configuration = Default
  /\ pending = NoPending
  /\ last_transaction = NoTransaction
  /\ disk = File(1, Default, NoPending, NoTransaction)
  /\ target = Default
  /\ lanes = Default
  /\ degraded = {}
  /\ failure = FALSE
  /\ faults = MaxFaults
  /\ due = FALSE
  /\ settled = [j \in Jobs |-> "open"]
  /\ told = {}
----------------------------------------------------------------------------
(* _apply_hardware: quiesce, reprogram and verify the groups that differ.  *)

Affected(before, after) == {g \in Groups : before[g] # after[g]}

Written(before, after) ==
  /\ lanes' = [g \in Groups |-> IF g \in Affected(before, after) THEN after[g] ELSE lanes[g]]
  /\ degraded' = degraded \ Affected(before, after)
  /\ UNCHANGED failure

\* A step fails and the lanes go back to what they were read as beforehand.
Restored ==
  /\ failure = TRUE
  /\ failure' = FALSE
  /\ UNCHANGED <<lanes, degraded>>

\* Mutant: the failed restoration is reported but nothing is muted.
NotMuted(before, after) ==
  /\ failure = TRUE
  /\ failure' = FALSE
  /\ UNCHANGED lanes
  /\ degraded' = degraded \cup Affected(before, after)

\* A step fails and so does the restoration (RollbackError): mute and mark.
NotRestored(before, after) ==
  /\ failure = TRUE
  /\ failure' = FALSE
  /\ lanes' = [g \in Groups |-> IF g \in Affected(before, after) THEN Muted ELSE lanes[g]]
  /\ degraded' = degraded \cup Affected(before, after)

Broken(before, after) == Restored \/ NotRestored(before, after)
----------------------------------------------------------------------------
(* rollback() of the pending job: the hardware first, then the file.       *)

\* Mutant: the restored configuration is saved under the revision it replaces.
TakeBackSameRevision ==
  /\ Written(configuration, pending.before)
  /\ last_transaction' = [job |-> pending.job, revision |-> revision, state |-> "rolled_back"]
  /\ configuration' = pending.before
  /\ revision' = revision
  /\ pending' = NoPending
  /\ due' = FALSE
  /\ Persist
  /\ Settle(pending.job, "rolled_back")

TakeBack ==
  /\ Written(configuration, pending.before)
  /\ last_transaction' = [job |-> pending.job, revision |-> revision, state |-> "rolled_back"]
  /\ configuration' = pending.before
  /\ revision' = revision + 1
  /\ pending' = NoPending
  /\ due' = FALSE
  /\ Persist
  /\ Settle(pending.job, "rolled_back")

CannotTakeBack ==
  /\ Broken(configuration, pending.before)
  /\ UNCHANGED <<memory, disk, due, settled>>

\* tick(): every call runs it first.  When the deadline has passed it rolls
\* back, and the call that found it so has nothing left to act on: apply is
\* stale, confirm has no pending job, snapshot shows the old configuration.
\* When the rollback raises, the pending record stays for the next call.
Tick ==
  /\ up /\ Idle /\ Expired
  /\ TakeBack \/ CannotTakeBack
  /\ UNCHANGED <<up, target, faults, told>>

\* apply(), to its first save: the before-image is on disk before any lane moves.
ApplyBegin(j, c, expected_revision) ==
  /\ up /\ Idle /\ ~Expired
  /\ settled[j] = "open" /\ pending.job # j
  /\ pending = NoPending
  /\ expected_revision = revision
  /\ pending' = [job |-> j, before |-> configuration, phase |-> "applying"]
  /\ target' = c
  /\ UNCHANGED <<up, revision, configuration, last_transaction, hardware, faults, due, settled, told>>
  /\ Persist

\* apply() raises before it saves anything: overlapping commit or stale revision.
ApplyRefused(j, expected_revision) ==
  /\ up /\ Idle /\ ~Expired
  /\ settled[j] = "open" /\ pending.job # j
  /\ pending # NoPending \/ expected_revision # revision
  /\ Settle(j, "refused")
  /\ UNCHANGED <<up, memory, disk, target, hardware, faults, due, told>>

\* apply(), from the hardware on: the deadline starts when the lanes are verified.
ApplyFinish ==
  /\ up /\ ~Idle
  /\ Written(configuration, target)
  /\ configuration' = target
  /\ revision' = revision + 1
  /\ pending' = [job |-> pending.job, before |-> pending.before, phase |-> "awaiting_confirmation"]
  /\ target' = Default
  /\ Tell(pending.job, "awaiting")
  /\ UNCHANGED <<up, last_transaction, faults, due, settled>>
  /\ Persist

\* apply() when the hardware raises: the pending record is withdrawn.
ApplyFailed ==
  /\ up /\ ~Idle
  /\ Broken(configuration, target)
  /\ pending' = NoPending
  /\ target' = Default
  /\ Settle(pending.job, "refused")
  /\ UNCHANGED <<up, revision, configuration, last_transaction, faults, due, told>>
  /\ Persist

\* Mutant: the confirmation is answered before it is saved.
ConfirmUnsaved(j) ==
  /\ up /\ Idle /\ ~Expired
  /\ pending.job = j
  /\ last_transaction' = [job |-> j, revision |-> revision, state |-> "confirmed"]
  /\ pending' = NoPending
  /\ due' = FALSE
  /\ Settle(j, "confirmed")
  /\ Tell(j, "confirmed")
  /\ UNCHANGED <<up, disk, revision, configuration, target, hardware, faults>>

Confirm(j) ==
  /\ up /\ Idle /\ ~Expired
  /\ pending.job = j
  /\ last_transaction' = [job |-> j, revision |-> revision, state |-> "confirmed"]
  /\ pending' = NoPending
  /\ due' = FALSE
  /\ Settle(j, "confirmed")
  /\ Tell(j, "confirmed")
  /\ UNCHANGED <<up, revision, configuration, target, hardware, faults>>
  /\ Persist

\* The operator's rollback() does not run the timer first.
RollBack(j) ==
  /\ up /\ Idle
  /\ pending.job = j
  /\ \/ TakeBack /\ Tell(j, "rolled_back")
     \/ CannotTakeBack /\ UNCHANGED told
  /\ UNCHANGED <<up, target, faults>>

\* POST /simulation/fault arms one failing hardware step.
SimulationFault ==
  /\ up /\ Idle /\ faults > 0
  /\ failure' = TRUE
  /\ faults' = faults - 1
  /\ UNCHANGED <<up, disk, memory, target, lanes, degraded, due, settled, told>>

ClockReachesDeadline ==
  /\ up /\ Awaiting /\ ~due
  /\ due' = TRUE
  /\ UNCHANGED <<up, disk, memory, target, hardware, faults, settled, told>>

\* The process is killed: memory and the simulated bus are lost.
Crash ==
  /\ up
  /\ up' = FALSE
  /\ target' = Default
  /\ due' = FALSE
  /\ failure' = FALSE
  /\ UNCHANGED <<disk, memory, lanes, degraded, faults, settled, told>>

\* Mutant: a restart clears the pending record and keeps the unconfirmed configuration.
RestartKeepingUnconfirmed ==
  /\ ~up
  /\ up' = TRUE
  /\ revision' = disk.revision
  /\ configuration' = disk.configuration
  /\ last_transaction' = disk.last_transaction
  /\ pending' = NoPending
  /\ lanes' = configuration'
  /\ degraded' = {}
  /\ UNCHANGED <<target, failure, faults, due, settled, told>>
  /\ Persist

\* __init__: a stored pending record means the commit was cut short.
Restart ==
  /\ ~up
  /\ up' = TRUE
  /\ IF disk.pending = NoPending
     THEN /\ revision' = disk.revision
          /\ configuration' = disk.configuration
          /\ last_transaction' = disk.last_transaction
          /\ UNCHANGED settled
     ELSE /\ revision' = disk.revision + 1
          /\ configuration' = disk.pending.before
          /\ last_transaction' = [job |-> disk.pending.job, revision |-> disk.revision,
                                  state |-> "rolled_back"]
          /\ Settle(disk.pending.job, "rolled_back")
  /\ pending' = NoPending
  /\ lanes' = configuration'
  /\ degraded' = {}
  /\ UNCHANGED <<target, failure, faults, due, told>>
  /\ Persist

Next ==
  \/ Tick
  \/ \E j \in Jobs, c \in Configs, r \in 1..revision : ApplyBegin(j, c, r)
  \/ \E j \in Jobs, r \in 1..revision : ApplyRefused(j, r)
  \/ ApplyFinish
  \/ ApplyFailed
  \/ \E j \in Jobs : Confirm(j) \/ RollBack(j)
  \/ SimulationFault
  \/ ClockReachesDeadline
  \/ Crash
  \/ Restart

Spec == Init /\ [][Next]_vars

\* The panel samples the authority every second, and each sample runs tick;
\* time passes; systemd restarts the process; a call in progress proceeds.
Fairness ==
  /\ WF_vars(Tick)
  /\ WF_vars(ClockReachesDeadline)
  /\ WF_vars(Restart)
  /\ WF_vars(ApplyFinish \/ ApplyFailed)

FairSpec == Spec /\ Fairness
----------------------------------------------------------------------------
(* What the saved file says, as the abstract authority sees it.            *)

Provisional(file) == file.pending.phase = "awaiting_confirmation"

Authority == INSTANCE ConfirmedCommit WITH
  Initial <- Default,
  inForce <- disk.configuration,
  safe <- IF Provisional(disk) THEN disk.pending.before ELSE disk.configuration,
  pending <- IF Provisional(disk) THEN disk.pending.job ELSE NoJob,
  outcome <- [j \in Jobs |->
                IF Provisional(disk) /\ disk.pending.job = j THEN "awaiting" ELSE settled[j]]

Pendings == [job : Jobs, before : Configs, phase : {"applying", "awaiting_confirmation"}]
              \cup {NoPending}
Transactions == [job : Jobs, revision : Nat, state : {"confirmed", "rolled_back"}]
                  \cup {NoTransaction}
Files == [revision : Nat, configuration : Configs, pending : Pendings,
          last_transaction : Transactions]

TypeOK ==
  /\ up \in BOOLEAN /\ failure \in BOOLEAN /\ due \in BOOLEAN
  /\ disk \in Files
  /\ File(revision, configuration, pending, last_transaction) \in Files
  /\ target \in Configs
  /\ lanes \in [Groups -> Modes \cup {Muted}]
  /\ degraded \in SUBSET Groups
  /\ faults \in 0..MaxFaults
  /\ settled \in [Jobs -> {"open", "refused", "confirmed", "rolled_back"}]
  /\ told \in SUBSET (Jobs \X {"awaiting", "confirmed", "rolled_back"})

\* Every save is complete: what a restart would read is what the process knows.
MemoryIsSaved == disk = File(revision, configuration, pending, last_transaction)

\* Whenever no apply holds the lock, the optical lanes carry exactly the active
\* configuration, and a group reported as degraded transmits nothing: through
\* failed steps, failed restorations, rollbacks by the timer and restarts.
LanesFollowConfiguration ==
  up /\ Idle =>
    \A g \in Groups : lanes[g] = IF g \in degraded THEN Muted ELSE configuration[g]

\* An answer a caller received survives every later crash and timer: what was
\* reported confirmed is never rolled back, and the reverse.
AnswersAreDurable ==
  \A j \in Jobs :
    /\ <<j, "confirmed">> \in told => settled[j] = "confirmed"
    /\ <<j, "rolled_back">> \in told => settled[j] = "rolled_back"
    /\ <<j, "awaiting">> \in told /\ pending.job # j => settled[j] \in {"confirmed", "rolled_back"}

\* The optimistic lock is sound: the saved revision never goes back, and a
\* revision number names one configuration, so an edit prepared against a
\* revision can only be applied to the configuration it was prepared on.
RevisionNamesConfiguration ==
  [][/\ disk'.revision >= disk.revision
     /\ disk'.revision = disk.revision => disk'.configuration = disk.configuration]_vars

\* The simulator is a confirmed-commit authority.
Implements == Authority!Spec

\* No commit stays provisional: it is confirmed or the timer takes it back,
\* even when the first attempts to restore the hardware fail.
PendingSettles == (pending # NoPending) ~> (pending = NoPending)
=============================================================================
