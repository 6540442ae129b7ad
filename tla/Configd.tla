------------------------------- MODULE Configd -------------------------------
(***************************************************************************)
(* The native configuration authority: how configd commits with            *)
(* confirmation (main.c handle_commit), takes a configuration back         *)
(* (configd_apply_confirmed_timeout), and gets itself and the hardware     *)
(* into one state again after a failure or a restart (configd_on_init,     *)
(* reconcile_active_state), over the files of commit_journal.c.            *)
(*                                                                         *)
(* One step is one durable write, or one call to switchd: configd or power *)
(* may fail between any two.  configd is one thread, so nothing else comes *)
(* between them.  A write that fails has left the old text or the new one. *)
(***************************************************************************)
EXTENDS Integers, FiniteSets

CONSTANTS
  Images,            \* configurations: sets of hardware objects
  Seed,              \* the one the native control starts with
  MaxTx,             \* bound: transactions
  MaxConfigdTrouble  \* bound: failed writes and calls, crashes, restarts, power cuts
ASSUME ConfigdAssumption ==
  Seed \in Images /\ MaxTx \in Nat \ {0} /\ MaxConfigdTrouble \in Nat

VARIABLES
  disk,           \* tx_counter, journals with their snapshots, confirmed.json;
                  \* earlier: the disk before a publication not synced since
  authority,      \* what configd holds in memory
  task,           \* the work its thread is at
  hw,             \* switchd and the ASIC
  told,           \* history, by transaction: confirmations asked for, outcomes reported
  configdTrouble

configdVars == <<disk, authority, task, hw, told, configdTrouble>>

Txs == 1..MaxTx
NoRecord == [tx |-> 0, state |-> "none"]
Terminal == {"committed", "failed", "reconciled"}
\* A transaction's journal with its immutable snapshot.  expired: the deadline
\* of its confirmed intent has passed.
Journal(state, base, confirmed, config) ==
  [state |-> state, base |-> base, confirmed |-> confirmed, expired |-> FALSE, config |-> config]
Absent == Journal("absent", 0, FALSE, {})
\* What the thread does next, on which transaction, for whom; forced: the
\* failure it has to record leaves the hardware in doubt; generation: the
\* switchd it found when it started.
At(step, for) == [step |-> step, tx |-> 0, for |-> for, forced |-> FALSE, generation |-> 0]
Idle == At("idle", "none")
Down == [up |-> FALSE, active |-> 0, outOfSync |-> FALSE, uncertain |-> FALSE,
         bound |-> 0, failed |-> 0]

ConfigdInit ==
  /\ disk = [ pointer |-> 1, earlier |-> {}, sequence |-> 1, record |-> NoRecord,
              journal |-> [t \in Txs |-> IF t = 1 THEN Journal("committed", 0, FALSE, Seed) ELSE Absent] ]
  /\ authority = Down /\ task = Idle
  /\ hw = [content |-> {}, retained |-> 0, broken |-> FALSE, before |-> {}, generation |-> 1]
  /\ told = [t \in Txs |-> {}] /\ configdTrouble = 0

Ready == authority.up /\ task = Idle
J(tx) == disk.journal[tx]
Active == authority.active
Unresolved == {t \in Txs : J(t).state \notin Terminal \cup {"absent"}}

Calm == UNCHANGED configdTrouble
Trouble == configdTrouble < MaxConfigdTrouble /\ configdTrouble' = configdTrouble + 1
Go(step) == task' = [task EXCEPT !.step = step]
Fail(forced) == task' = [task EXCEPT !.step = "finalize", !.forced = forced]
OutOfSync == authority' = [authority EXCEPT !.outOfSync = TRUE]

(***************************************************************************)
(* Writes below the journal directory.  Each that succeeds has synced the  *)
(* directory, and with it a tx_counter whose own sync had failed: until    *)
(* then a power cut may bring the earlier disk back (external: a directory *)
(* keeps the order of its renames).                                        *)
(***************************************************************************)
WithState(d, tx, state) == [d EXCEPT !.journal[tx].state = state]
WithRecord(d, tx, state) == [d EXCEPT !.record = [tx |-> tx, state |-> state]]
Written(d) == disk' = [d EXCEPT !.earlier = {}] /\ Calm
NotWritten(d) == disk' \in {disk, d} /\ Trouble

(***************************************************************************)
(* switchd.  A plan removes what the source has and the target lacks; a    *)
(* full one writes all of the target, a difference only what the source    *)
(* lacks.  switchd keeps the before-image of what it has applied until the *)
(* transaction is marked or taken back, and does nothing else meanwhile;   *)
(* one it could neither finish nor undo (broken) can only be taken back.   *)
(***************************************************************************)
Full(content, source, target) == (content \ (source \ target)) \cup target
Difference(content, source, target) == (content \ (source \ target)) \cup (target \ source)
Holding(tx, content, broken) ==
  [hw EXCEPT !.content = content, !.retained = tx, !.broken = broken, !.before = hw.content]
Released(content) == [hw EXCEPT !.content = content, !.retained = 0, !.broken = FALSE, !.before = {}]
Free == hw.retained = 0
Owned(tx) == hw.retained = tx /\ ~hw.broken
\* What a call that failed or did not answer has done: nothing, part, or all.
InDoubt(tx, target) ==
  IF ~Free THEN {hw}
  ELSE {hw, Holding(tx, target, FALSE)}
         \cup {Holding(tx, c, TRUE) : c \in SUBSET (hw.content \cup target)}

(***************************************************************************)
(* A transaction: a commit from the panel (always confirmed) or from the   *)
(* command line ("plain" or "confirmed"), or the way back from one.        *)
(***************************************************************************)
Reverting == task.for \in {"timer", "rollback", "recover"}

\* A new identifier, and the journal of its transaction.
Reserve(config, started, refused) ==
  LET tx == disk.sequence + 1
      reserved == [disk EXCEPT !.sequence = tx]
      prepared == [reserved EXCEPT !.journal[tx] = Journal("prepared", Active, FALSE, config)]
  IN /\ tx \in Txs
     /\ \/ Written(prepared) /\ task' = [started EXCEPT !.tx = tx]
        \/ disk' \in {disk, reserved, prepared} /\ Trouble /\ task' = refused

\* panel_board_bound: the switchd is the one the configuration was replayed to.
Bound == hw.generation = authority.bound
FindUnbound ==
  /\ Ready /\ ~Bound /\ ~authority.outOfSync /\ OutOfSync
  /\ UNCHANGED <<disk, task, hw, told, configdTrouble>>
StartCommit(for, config) ==
  /\ Ready /\ ~authority.outOfSync
  /\ for = "panel" => Bound /\ disk.record.state # "awaiting"
  /\ Reserve(config, At("applying", for), Idle)
  /\ UNCHANGED <<authority, hw, told>>

Applying ==
  /\ task.step = "applying"
  /\ \/ Written(WithState(disk, task.tx, "applying")) /\ Go(IF Reverting THEN "publish" ELSE "hardware")
     \/ NotWritten(WithState(disk, task.tx, "applying")) /\ Fail(FALSE)
  /\ UNCHANGED <<authority, hw, told>>

Hardware ==
  LET tx == task.tx
      target == Difference(hw.content, J(Active).config, J(tx).config)
  IN
  /\ task.step = "hardware"
  /\ \/ Free /\ hw' = Holding(tx, target, FALSE) /\ Calm /\ Go("verify")
     \/ Free /\ hw' = hw /\ Trouble /\ Fail(FALSE)             \* switchd has undone it, and says so
     \/ hw' \in InDoubt(tx, target) /\ Trouble /\ Fail(TRUE)
  /\ UNCHANGED <<disk, authority, told>>

\* rollback_verified_candidate, when the candidate cannot be published.
TakeBack ==
  \/ hw.retained = task.tx /\ hw' = Released(hw.before) /\ Fail(FALSE)
  \/ hw.retained # task.tx /\ hw' = hw /\ Fail(TRUE)

\* VERIFYING, VERIFY_OK, and the confirmed intent.
Verify ==
  LET verified == WithState(disk, task.tx, "verified")
      intended == [verified EXCEPT !.journal[task.tx].confirmed = task.for # "plain"]
  IN
  /\ task.step = "verify"
  /\ \/ Written(intended) /\ Go("publish") /\ UNCHANGED hw
     \/ disk' \in {disk, verified, intended} /\ Trouble /\ TakeBack
  /\ UNCHANGED <<authority, told>>

\* persist_active_authority, and what its caller makes of the result.
Publish ==
  LET published == [disk EXCEPT !.pointer = task.tx]
      promoted == [authority EXCEPT !.active = task.tx]
      next == IF Reverting THEN "converge" ELSE IF J(task.tx).confirmed THEN "record" ELSE "mark"
  IN
  /\ task.step = "publish"
  /\ \/ Written(published) /\ authority' = promoted /\ Go(next) /\ UNCHANGED hw
     \/ /\ disk' = disk /\ Trouble /\ UNCHANGED authority             \* the old one is still there
        /\ IF Reverting THEN (hw' = hw /\ Fail(FALSE)) ELSE TakeBack
     \/ /\ disk' = [published EXCEPT !.earlier = {disk}] /\ Trouble   \* the new one is seen, not safe
        /\ authority' = [promoted EXCEPT !.uncertain = TRUE] /\ Fail(TRUE) /\ UNCHANGED hw
     \/ /\ disk' \in {disk, [published EXCEPT !.earlier = {disk}]} /\ Trouble  \* unreadable
        /\ authority' = [authority EXCEPT !.uncertain = TRUE] /\ Fail(TRUE) /\ UNCHANGED hw
     \/ /\ disk' = [published EXCEPT !.earlier = {}] /\ Trouble    \* its mirror is not written
        /\ authority' = promoted /\ Fail(TRUE) /\ UNCHANGED hw
  /\ UNCHANGED told

\* configd_save_confirmed_awaiting.
Record ==
  /\ task.step = "record"
  /\ \/ Written(WithRecord(disk, task.tx, "awaiting")) /\ Go("mark")
     \/ NotWritten(WithRecord(disk, task.tx, "awaiting")) /\ Fail(TRUE)
  /\ UNCHANGED <<authority, hw, told>>

\* HW_MARKED_COMMITTED, and switchd gives up its before-image.
Mark ==
  LET marked == WithState(disk, task.tx, "marked") IN
  /\ task.step = "mark"
  /\ \/ /\ Owned(task.tx) /\ hw' = Released(hw.content) /\ Written(marked)
        /\ Go(IF J(task.tx).confirmed THEN "commit" ELSE "supersede")
     \/ ~Owned(task.tx) /\ hw' = hw /\ Written(marked) /\ Fail(TRUE)
     \/ hw' = hw /\ NotWritten(marked) /\ Fail(TRUE)
     \/ hw' \in {hw, Released(hw.content)} /\ disk' = marked /\ Trouble /\ Fail(TRUE)
  /\ UNCHANGED <<authority, told>>

\* configd_confirm_pending_commit: a commit that needs no confirmation
\* confirms the one before, unless that has expired.
Supersede ==
  LET r == disk.record
      after == WithRecord(disk, r.tx, IF J(r.tx).expired THEN "timed_out" ELSE "confirmed")
  IN
  /\ task.step = "supersede" /\ Go("commit")
  /\ IF r.state = "awaiting" THEN (Written(after) \/ NotWritten(after)) ELSE (UNCHANGED disk /\ Calm)
  /\ UNCHANGED <<authority, hw, told>>

Commit ==
  /\ task.step = "commit"
  /\ \/ /\ Written(WithState(disk, task.tx, "committed"))
        /\ task' = IF Reverting THEN At("timed_out", task.for) ELSE Idle
     \/ NotWritten(WithState(disk, task.tx, "committed")) /\ Fail(TRUE)
  /\ UNCHANGED <<authority, hw, told>>

\* journal_finalize_failure.
Finalize ==
  LET tx == task.tx IN
  /\ task.step = "finalize" /\ task' = IF Reverting THEN At("timed_out", task.for) ELSE Idle
  /\ \/ ~task.forced /\ Written(WithState(disk, tx, "failed")) /\ UNCHANGED authority
     \/ task.forced /\ Written(WithState(disk, tx, "unsynced")) /\ OutOfSync
     \/ /\ disk' \in {disk, WithState(disk, tx, "unsynced"), IF task.forced THEN disk ELSE WithState(disk, tx, "failed")}
        /\ Trouble /\ OutOfSync
  /\ UNCHANGED <<hw, told>>

(***************************************************************************)
(* The way back: configd_apply_confirmed_timeout publishes the previous    *)
(* configuration as a new transaction, then brings the hardware to it.     *)
(***************************************************************************)
\* confirmed_record_matches_active_intent.
Matches ==
  LET r == disk.record IN
  /\ r.state \in {"awaiting", "timed_out"} /\ r.tx = Active
  /\ J(r.tx).state = "committed" /\ J(r.tx).confirmed
Revert(for) ==
  \/ ~Matches /\ OutOfSync /\ task' = Idle /\ UNCHANGED disk /\ Calm
  \/ Matches /\ authority.outOfSync /\ task' = Idle /\ UNCHANGED <<disk, authority>> /\ Calm
  \/ /\ Matches /\ ~authority.outOfSync /\ UNCHANGED authority
     /\ Reserve(J(J(Active).base).config, At("applying", for), At("timed_out", for))

\* configd_check_confirmed_timeout, when idle and at the end of a start; a
\* recovery looks at the record without marking it.
Check ==
  LET r == disk.record
      checking == IF task.step = "check" THEN task.for ELSE "timer"
      expired == r.state = "awaiting" /\ J(r.tx).expired
      marks == expired /\ checking # "recover"
      stale == r.state = "awaiting" /\ r.tx < Active /\ ~marks
      due == r.tx = Active /\ (r.state = "timed_out" \/ expired)
      conflict == \/ r.tx > Active
                  \/ r.state = "awaiting" /\ r.tx = Active /\ ~expired /\ ~Matches
  IN
  /\ authority.up /\ (task = Idle \/ task.step = "check") /\ r # NoRecord
  /\ \/ /\ marks /\ Written(WithRecord(disk, r.tx, "timed_out"))
        /\ IF r.tx > Active THEN OutOfSync ELSE UNCHANGED authority
        /\ task' = IF due THEN At("due", "timer") ELSE Idle
     \/ marks /\ NotWritten(WithRecord(disk, r.tx, "timed_out")) /\ OutOfSync /\ task' = Idle
     \/ stale /\ Written(WithRecord(disk, r.tx, "confirmed")) /\ UNCHANGED authority /\ task' = Idle
     \/ stale /\ NotWritten(WithRecord(disk, r.tx, "confirmed")) /\ OutOfSync /\ task' = Idle
     \/ ~marks /\ conflict /\ OutOfSync /\ task' = Idle /\ UNCHANGED disk /\ Calm
     \/ ~marks /\ due /\ task' = At("due", checking) /\ UNCHANGED <<disk, authority>> /\ Calm
     \/ /\ task.step = "check" /\ ~marks /\ ~stale /\ ~due /\ ~conflict
        /\ task' = Idle /\ UNCHANGED <<disk, authority>> /\ Calm
  /\ UNCHANGED <<hw, told>>
NothingToCheck ==
  /\ task.step = "check" /\ disk.record = NoRecord /\ task' = Idle
  /\ UNCHANGED <<disk, authority, hw, told, configdTrouble>>
Due == task.step = "due" /\ Revert(task.for) /\ UNCHANGED <<hw, told>>

\* handle_panel_finish.
Rollback ==
  /\ Ready /\ disk.record.state = "awaiting" /\ disk.record.tx = Active
  /\ Revert("rollback") /\ UNCHANGED <<hw, told>>
Tells(tx, what) == told' = [told EXCEPT ![tx] = @ \cup what]
ConfirmCommit ==
  LET r == disk.record
      confirmed == WithRecord(disk, r.tx, "confirmed")
  IN
  /\ Ready /\ r.state = "awaiting" /\ r.tx = Active
  /\ ~authority.outOfSync /\ ~authority.uncertain
  /\ \/ Written(confirmed) /\ Tells(r.tx, {"asked", "confirmed"})
     \/ NotWritten(confirmed) /\ Tells(r.tx, {"asked"})
  /\ UNCHANGED <<authority, task, hw>>

\* Bring the hardware from the configuration taken back to the one published.
Converge ==
  LET tx == task.tx
      target == Full(hw.content, J(J(tx).base).config, J(tx).config)
  IN
  /\ task.step = "converge"
  /\ \/ Free /\ hw' = Released(target) /\ Calm /\ Go("commit")
     \/ hw' \in InDoubt(tx, target) \cup {Released(target)} /\ Trouble /\ Fail(TRUE)
  /\ UNCHANGED <<disk, authority, told>>
TimedOut ==
  LET after == WithRecord(disk, disk.record.tx, "timed_out") IN
  /\ task.step = "timed_out" /\ (Written(after) \/ NotWritten(after)) /\ task' = Idle
  /\ UNCHANGED <<authority, hw, told>>

\* Mutant: a record that timed out is taken for a rollback without a journal
\* that proves one.
OutcomeOfRecord ==
  LET r == disk.record IN
  IF authority.outOfSync \/ authority.uncertain THEN "uncertain"
  ELSE IF r.state = "confirmed" /\ r.tx = Active THEN "confirmed"
  ELSE IF r.state = "timed_out" THEN "rolled_back" ELSE "open"

\* panel_confirmed_outcome, as a snapshot reports it; the history keeps what was
\* reported while nothing on disk was unsynced.
Outcome ==
  LET r == disk.record IN
  IF authority.outOfSync \/ authority.uncertain THEN "uncertain"
  ELSE IF r.state = "confirmed" /\ r.tx = Active THEN "confirmed"
  ELSE IF /\ r.state = "timed_out" /\ J(Active).state = "committed" /\ J(Active).base = r.tx
          /\ J(Active).config = J(J(r.tx).base).config THEN "rolled_back"
  ELSE "open"
Report ==
  /\ Ready /\ Outcome \in {"confirmed", "rolled_back"}
  /\ Tells(disk.record.tx, IF disk.earlier = {} THEN {Outcome} ELSE {})
  /\ UNCHANGED <<disk, authority, task, hw, configdTrouble>>

(***************************************************************************)
(* configd_on_init.  The hardware is never taken for granted.              *)
(***************************************************************************)
\* nl_journal_recover.
Recovered(state) ==
  CASE state = "prepared" -> "failed"
    [] state \in {"applying", "verified", "marked"} -> "unsynced"
    [] OTHER -> state
Boot ==
  /\ ~authority.up
  /\ authority' = [Down EXCEPT !.up = TRUE, !.active = disk.pointer, !.outOfSync = TRUE]
  /\ task' = At("journals", "timer")
  /\ UNCHANGED <<disk, hw, told, configdTrouble>>
RecoverJournals ==
  LET stale == {t \in Txs : Recovered(J(t).state) # J(t).state}
      After(S) ==
        [disk EXCEPT !.journal = [t \in Txs |-> IF t \in S THEN [J(t) EXCEPT !.state = Recovered(@)] ELSE J(t)]]
  IN
  /\ task.step = "journals"
  /\ \/ stale = {} /\ Go("intent") /\ UNCHANGED disk /\ Calm
     \/ \E t \in stale : Written(After({t})) /\ UNCHANGED task
     \/ /\ stale # {} /\ Go("intent") /\ Trouble
        /\ \E S \in SUBSET stale : disk' \in {After(S), [After(S) EXCEPT !.earlier = IF S = {} THEN @ ELSE {}]}
  /\ UNCHANGED <<authority, hw, told>>

(***************************************************************************)
(* reconcile_active_state: for the tick that finds itself out of sync, and *)
(* for handle_panel_recover.                                               *)
(***************************************************************************)
Resolving(for) == [At("resolve", for) EXCEPT !.generation = hw.generation]
ReplayTick ==
  /\ Ready /\ (~Bound \/ authority.outOfSync) /\ authority.failed # hw.generation
  /\ OutOfSync /\ task' = Resolving("tick")
  /\ UNCHANGED <<disk, hw, told, configdTrouble>>
Recover ==
  /\ Ready /\ task' = Resolving("recover")
  /\ UNCHANGED <<disk, authority, hw, told, configdTrouble>>
Refuse ==
  /\ task' = Idle
  /\ authority' = [authority EXCEPT !.outOfSync = TRUE,
                                    !.failed = IF task.for = "tick" THEN task.generation ELSE @]

\* prepare_unresolved_for_active_replay.
Blocked ==
  \/ authority.uncertain
  \/ \E t \in Unresolved : J(t).state # "unsynced" \/ t < Active \/ hw.retained \notin {0, t}
Speculative == {t \in Unresolved : t > Active}
TakenBack(t) ==
  IF hw.retained = t THEN Released(hw.before)
  ELSE Released(Difference(hw.content, J(t).config, J(Active).config))
Resolve ==
  /\ task.step = "resolve"
  /\ \/ Blocked /\ Refuse /\ UNCHANGED <<disk, hw>> /\ Calm
     \/ \E t \in Speculative :
          LET after == WithState(disk, t, IF hw.retained = t THEN "failed" ELSE "reconciled") IN
          /\ ~Blocked
          /\ \/ hw' = TakenBack(t) /\ Written(after) /\ UNCHANGED <<authority, task>>
             \/ /\ hw' \in {TakenBack(t)} \cup InDoubt(t, TakenBack(t).content)
                /\ disk' \in {disk, IF hw' = TakenBack(t) THEN after ELSE disk} /\ Trouble /\ Refuse
     \/ /\ ~Blocked /\ Speculative = {} /\ Go("replay") /\ Calm /\ UNCHANGED <<disk, authority>>
        /\ hw' = IF Active \in Unresolved /\ Owned(Active) THEN Released(hw.content) ELSE hw
  /\ UNCHANGED told

\* Mutant: the active configuration is replayed over itself, always.
SourceIsActive == J(Active).config

\* replay_active_to_hardware: from the configuration before, if this one is in doubt.
Source ==
  IF J(Active).state = "unsynced" /\ J(Active).base < Active /\ J(Active).base > 0
  THEN J(J(Active).base).config ELSE J(Active).config
Replay ==
  LET target == Full(hw.content, Source, J(Active).config) IN
  /\ task.step = "replay"
  /\ \/ Free /\ hw' = Released(target) /\ Calm /\ Go("intent") /\ UNCHANGED authority
     \/ ~Free /\ hw' = hw /\ Calm /\ Refuse
     \/ hw' \in InDoubt(Active, target) \cup {Released(target)} /\ Free /\ Trouble /\ Refuse
  /\ UNCHANGED <<disk, told>>

\* Mutant: a record of an older transaction is taken for this one's.
IntentOfRecord == IF disk.record.tx > Active THEN "conflict" ELSE "fine"

\* configd_recover_active_confirmed_intent: fine, to be written again, or in conflict.
Intent ==
  LET r == disk.record
      j == J(Active)
  IN IF ~j.confirmed
     THEN IF r.tx > Active \/ (r.tx = Active /\ r.state \in {"awaiting", "timed_out"}) THEN "conflict" ELSE "fine"
     ELSE IF j.state \notin {"verified", "marked", "committed", "unsynced"} \/ r.tx > Active THEN "conflict"
     ELSE IF r.tx = Active THEN "fine" ELSE "lost"
RecoverIntent ==
  LET after == WithRecord(disk, Active, "awaiting")
      booting == task.for = "timer"
  IN
  /\ task.step = "intent"
  /\ \/ /\ Intent = "fine" /\ UNCHANGED <<disk, authority>> /\ Calm
        /\ Go(IF booting THEN "check" ELSE "finish")
     \/ /\ Intent = "lost" /\ Written(after) /\ UNCHANGED authority
        /\ Go(IF booting THEN "check" ELSE "finish")
     \/ /\ \/ Intent = "lost" /\ NotWritten(after)
           \/ Intent = "conflict" /\ UNCHANGED disk /\ Calm
        /\ IF booting THEN Go("check") /\ OutOfSync ELSE Refuse
  /\ UNCHANGED <<hw, told>>

\* finalize_replayed_active_journals, and the binding to this switchd.
Finish ==
  LET after == IF Active \in Unresolved THEN WithState(disk, Active, "committed") ELSE disk
      bound == [authority EXCEPT !.outOfSync = FALSE, !.bound = task.generation, !.failed = 0]
  IN
  /\ task.step = "finish"
  /\ \/ /\ hw.generation = task.generation /\ authority' = bound
        /\ IF after = disk THEN (UNCHANGED disk /\ Calm) ELSE (Written(after))
        /\ task' = IF task.for = "recover" THEN At("check", "recover") ELSE Idle
     \/ hw.generation # task.generation /\ Refuse /\ Calm /\ disk' = [after EXCEPT !.earlier = IF after = disk THEN @ ELSE {}]
     \/ NotWritten(after) /\ Refuse
  /\ UNCHANGED <<hw, told>>

(***************************************************************************)
(* Around it: the clock, the operator, switchd and power.                  *)
(***************************************************************************)
Expire ==
  \E t \in {disk.pointer, disk.record.tx} \ {0} :
    /\ J(t).confirmed /\ ~J(t).expired /\ disk' = [disk EXCEPT !.journal[t].expired = TRUE]
    /\ UNCHANGED <<authority, task, hw, told, configdTrouble>>
Crash ==
  /\ authority.up /\ authority' = Down /\ task' = Idle /\ Trouble
  /\ UNCHANGED <<disk, hw, told>>
Blank == [content |-> {}, retained |-> 0, broken |-> FALSE, before |-> {}, generation |-> hw.generation + 1]
RestartSwitch ==
  /\ hw' = Blank /\ Trouble /\ UNCHANGED <<disk, authority, task, told>>
\* A deadline of another boot has passed; a pointer that was not synced may be
\* gone, and then what was written after it is gone too.
PowerCut ==
  /\ authority' = Down /\ task' = Idle /\ hw' = Blank /\ Trouble
  /\ \E d \in {disk} \cup disk.earlier :
       disk' = [d EXCEPT !.earlier = {},
                         !.journal = [t \in Txs |-> [d.journal[t] EXCEPT !.expired = d.journal[t].confirmed]]]
  /\ UNCHANGED told

ConfigdNext ==
  \/ \E for \in {"panel", "confirmed", "plain"}, c \in Images : StartCommit(for, c)
  \/ FindUnbound \/ Applying \/ Hardware \/ Verify \/ Publish \/ Record \/ Mark
  \/ Supersede \/ Commit \/ Finalize
  \/ Check \/ NothingToCheck \/ Due \/ Rollback \/ ConfirmCommit \/ Converge \/ TimedOut \/ Report
  \/ Boot \/ RecoverJournals \/ ReplayTick \/ Recover \/ Resolve \/ Replay \/ RecoverIntent \/ Finish
  \/ Expire \/ Crash \/ RestartSwitch \/ PowerCut

ConfigdSpec == ConfigdInit /\ [][ConfigdNext]_configdVars

----------------------------------------------------------------------------
InSync == Ready /\ ~authority.outOfSync

\* A configd that says it is synchronized with this switchd is: the active
\* configuration is the one published, the hardware holds its objects and no
\* others, and switchd holds nothing back, however it got there (main.c:3344).
SynchronizedIsActual ==
  InSync /\ Bound =>
    Active = disk.pointer /\ hw.content = J(Active).config /\ hw.retained = 0

\* A configuration that nobody has confirmed has a record that will take it
\* back, whichever of the writes of its commit was lost, unless configd knows
\* that it is out of sync (main.c:2341).
UnconfirmedIsTimed ==
  InSync /\ J(Active).confirmed /\ "asked" \notin told[Active] => Matches

\* What a snapshot has reported of a commit is final: one rolled back is never
\* published again, and one confirmed is only replaced by a commit, never by a
\* timer, a recovery or a power cut (panel_rpc.inc:49).
ReportsHold ==
  [][/\ \A t \in Txs : "rolled_back" \in told[t] => disk'.pointer # t
     /\ "confirmed" \in told[disk.pointer] /\ disk'.pointer # disk.pointer
          => task.step = "publish" /\ ~Reverting]_configdVars
=============================================================================
