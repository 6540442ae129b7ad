--------------------------- MODULE Configd_proofs ---------------------------
(***************************************************************************)
(* What the native configuration authority promises, for every set of      *)
(* configurations and any number of transactions, failures, crashes and    *)
(* power cuts.                                                             *)
(*                                                                         *)
(* The promises hold only while configd is at rest and says that it is     *)
(* synchronized.  Why they do is what is true at every step in between:    *)
(* DisksHold of the files, HardwareIsAccounted of switchd whether or not   *)
(* configd is in sync, AuthorityKnows of what it holds in memory, and      *)
(* ThreadKnows of the work its thread is at.                               *)
(***************************************************************************)
EXTENDS ConfirmedCommit, Configd, TLAPS

(***************************************************************************)
(* What is asked of any authority (ConfirmedCommit), for any jobs and      *)
(* configurations.  The invariant is the conjunction of its three: that    *)
(* only the pending job is "awaiting" is what makes an outcome final.      *)
(***************************************************************************)
AuthorityInv == TypeOK /\ NothingProvisional /\ OneAwaiting

\* The authority starts in it.
LEMMA AuthorityStarts == Init => AuthorityInv
  BY AuthorityAssumption DEF Init, AuthorityInv, TypeOK, NothingProvisional, OneAwaiting, Outcomes

\* Every step of the authority keeps the invariant.
LEMMA AuthorityStep == AuthorityInv /\ [Next]_vars => AuthorityInv'
<1> SUFFICES ASSUME AuthorityInv, [Next]_vars PROVE AuthorityInv'
  OBVIOUS
<1> USE AuthorityAssumption DEF AuthorityInv, TypeOK, NothingProvisional, OneAwaiting, Outcomes
<1>1. ASSUME NEW j \in Jobs, NEW c \in Configs, Stage(j, c) PROVE AuthorityInv'
  BY <1>1 DEF Stage
<1>2. ASSUME NEW j \in Jobs, NEW how \in {"refused", "rolled_back"}, Abandon(j, how) PROVE AuthorityInv'
  BY <1>2 DEF Abandon
<1>3. CASE Confirm
  BY <1>3 DEF Confirm
<1>4. CASE RollBack
  BY <1>4 DEF RollBack
<1>5. CASE UNCHANGED vars
  BY <1>5 DEF vars
<1> QED
  BY <1>1, <1>2, <1>3, <1>4, <1>5 DEF Next

\* It is an invariant.
LEMMA AuthorityInvariant == Spec => []AuthorityInv
  BY AuthorityStarts, AuthorityStep, PTL DEF Spec

\* The authority's state has its type.
THEOREM TypeCorrect == Spec => []TypeOK
<1>1. AuthorityInv => TypeOK
  BY DEF AuthorityInv
<1> QED
  BY <1>1, AuthorityInvariant, PTL

\* With nothing awaiting confirmation, what is in force is safe.
THEOREM SafeCorrect == Spec => []NothingProvisional
<1>1. AuthorityInv => NothingProvisional
  BY DEF AuthorityInv
<1> QED
  BY <1>1, AuthorityInvariant, PTL

\* Only the pending job is awaiting.
THEOREM AwaitingCorrect == Spec => []OneAwaiting
<1>1. AuthorityInv => OneAwaiting
  BY DEF AuthorityInv
<1> QED
  BY <1>1, AuthorityInvariant, PTL

\* A reported outcome never changes.
THEOREM OutcomeCorrect == Spec => OutcomeIsFinal
<1> DEFINE Final == \A j \in Jobs : outcome[j] \notin {"open", "awaiting"} => outcome'[j] = outcome[j]
<1>1. AuthorityInv /\ [Next]_vars => [Final]_vars
  <2> SUFFICES ASSUME AuthorityInv, Next, NEW k \in Jobs, outcome[k] \notin {"open", "awaiting"}
               PROVE outcome'[k] = outcome[k]
    BY DEF vars
  <2> USE AuthorityAssumption DEF AuthorityInv, TypeOK, OneAwaiting
  <2>1. ASSUME NEW j \in Jobs, NEW c \in Configs, Stage(j, c) PROVE outcome'[k] = outcome[k]
    BY <2>1 DEF Stage
  <2>2. ASSUME NEW j \in Jobs, NEW how, Abandon(j, how) PROVE outcome'[k] = outcome[k]
    BY <2>2 DEF Abandon
  <2>3. CASE Confirm
    BY <2>3 DEF Confirm
  <2>4. CASE RollBack
    BY <2>4 DEF RollBack
  <2> QED
    BY <2>1, <2>2, <2>3, <2>4 DEF Next
<1> QED
  BY <1>1, AuthorityInvariant, PTL DEF Spec, OutcomeIsFinal

(***************************************************************************)
(* Types.                                                                  *)
(***************************************************************************)
Objects == UNION Images
States == {"absent", "prepared", "applying", "verified", "marked", "committed",
           "unsynced", "failed", "reconciled"}
Journals == [ state : States, base : 0..MaxTx, confirmed : BOOLEAN, expired : BOOLEAN,
              config : SUBSET Objects ]
Records == [tx : 0..MaxTx, state : {"none", "awaiting", "timed_out", "confirmed"}]
Settled == [ pointer : Txs, earlier : {{}}, sequence : Txs, record : Records,
             journal : [Txs -> Journals] ]
Disks == [ pointer : Txs, earlier : SUBSET Settled, sequence : Txs, record : Records,
           journal : [Txs -> Journals] ]
Steps == {"idle", "applying", "hardware", "verify", "publish", "record", "mark", "supersede",
          "commit", "finalize", "converge", "timed_out", "due", "check", "journals",
          "resolve", "replay", "intent", "finish"}
Purposes == {"none", "panel", "confirmed", "plain", "timer", "rollback", "recover", "tick"}
Authorities == [ up : BOOLEAN, active : 0..MaxTx, outOfSync : BOOLEAN, uncertain : BOOLEAN,
                 bound : Nat, failed : Nat ]
Tasks == [step : Steps, tx : 0..MaxTx, for : Purposes, forced : BOOLEAN, generation : Nat]
Hardwares == [ content : SUBSET Objects, retained : 0..MaxTx, broken : BOOLEAN,
               before : SUBSET Objects, generation : Nat \ {0} ]

ConfigdTypes ==
  /\ disk \in Disks /\ authority \in Authorities /\ task \in Tasks /\ hw \in Hardwares
  /\ told \in [Txs -> SUBSET {"asked", "confirmed", "rolled_back"}]

(***************************************************************************)
(* The files: the published transaction is never one that failed, every    *)
(* transaction was started from an older one, and none is recorded as      *)
(* confirmed that nobody confirmed.  That holds of the disk a power cut    *)
(* may bring back too.                                                     *)
(***************************************************************************)
InPlaceOfPublished == {"applying", "verified", "marked", "committed", "unsynced"}
DiskIsWhole(d) ==
  /\ d.pointer <= d.sequence /\ d.record.tx <= d.pointer
  /\ d.record.state = "none" => d.record.tx = 0
  /\ d.journal[1].state = "committed" /\ ~d.journal[1].confirmed /\ d.journal[1].base = 0
  /\ d.journal[d.pointer].state \in InPlaceOfPublished
  /\ \A t \in Txs : d.journal[t].state # "absent" =>
       t <= d.sequence /\ (t # 1 => d.journal[t].base \in 1..(t - 1))
ConfirmedIsAsked(d) ==
  d.record.state = "confirmed" /\ d.record.tx = d.pointer /\ d.journal[d.pointer].confirmed
    => "asked" \in told[d.pointer]
DisksHold == \A d \in {disk} \cup disk.earlier : DiskIsWhole(d) /\ ConfirmedIsAsked(d)

(***************************************************************************)
(* The hardware: its objects are of the published configuration, of the    *)
(* one it replaces as long as its transaction is open, and of the          *)
(* transaction whose before-image switchd keeps.  A replay needs no more.  *)
(***************************************************************************)
Own ==
  J(disk.pointer).config \cup
    (IF J(disk.pointer).state = "committed" THEN {} ELSE J(J(disk.pointer).base).config)
HardwareIsAccounted ==
  IF Free THEN hw.content \subseteq Own
  ELSE /\ disk.pointer <= hw.retained /\ J(hw.retained).state # "absent"
       /\ hw.before \subseteq Own
       /\ hw.content \subseteq Own \cup J(hw.retained).config

\* The memory: the active transaction is the published one, unless configd
\* knows that it could not tell.
AuthorityKnows ==
  /\ authority.bound <= hw.generation /\ task.generation <= hw.generation
  /\ ~authority.up => task = Idle
  /\ authority.up =>
       /\ Active \in Txs /\ Active <= disk.pointer
       /\ ~authority.uncertain => Active = disk.pointer
       /\ authority.uncertain => authority.outOfSync \/ (task.step = "finalize" /\ task.forced)

(***************************************************************************)
(* The thread.  Steady: a configuration that may be called synchronized.   *)
(* Candidate: the one being installed, with the way back.  A switchd that  *)
(* restarts meanwhile loses its objects, so what is there is only equal    *)
(* while the switchd is the bound one.                                     *)
(***************************************************************************)
Carries(t) == Free /\ hw.content \subseteq J(t).config
Timed(t) == J(t).confirmed => disk.record.tx = t
Steady ==
  /\ J(Active).state = "committed" /\ Carries(Active) /\ Timed(Active)
  /\ Bound => hw.content = J(Active).config
Candidate ==
  /\ hw.content \subseteq J(task.tx).config
  /\ hw.before \subseteq J(J(task.tx).base).config
  /\ hw.retained \in {0, task.tx}
  /\ Bound => hw.content = J(task.tx).config /\ hw.before = J(J(task.tx).base).config
                /\ hw.retained = task.tx

\* The parts of ThreadKnows, by the step the thread is at.
InWork ==
  /\ ~authority.outOfSync /\ task.tx \in 2..MaxTx /\ J(task.tx).state # "absent"
  /\ disk.pointer <= task.tx /\ task.for \in Purposes \ {"none", "tick"}
Unpublished ==
  /\ InWork /\ ~authority.uncertain /\ disk.pointer < task.tx
  /\ J(task.tx).base = Active /\ J(Active).state = "committed" /\ Timed(Active)
Published == InWork /\ ~authority.uncertain /\ task.tx = Active

AtRest ==
  /\ authority.up /\ ~authority.outOfSync => Steady
  /\ task.step \in {"check", "due"} => task.for \in {"timer", "recover"}
Preparing ==
  /\ Unpublished /\ disk.earlier = {} /\ Steady /\ ~J(task.tx).confirmed
  /\ task.step = "hardware" => ~Reverting /\ J(task.tx).state = "applying"
Verifying ==
  /\ Unpublished /\ disk.earlier = {} /\ ~Reverting /\ Candidate
  /\ J(task.tx).state = "applying" /\ ~J(task.tx).confirmed
Publishing ==
  /\ Unpublished /\ disk.earlier = {} /\ J(task.tx).state \in {"applying", "verified"}
  /\ IF Reverting THEN Steady /\ ~J(task.tx).confirmed ELSE Candidate
Marking ==
  /\ Published /\ ~Reverting /\ Candidate
  /\ task.step = "mark" => Timed(Active)
Ending ==
  /\ Published /\ Carries(Active) /\ Timed(Active) /\ (Bound => hw.content = J(Active).config)
  /\ task.step = "supersede" => ~J(Active).confirmed
Converging ==
  /\ Published /\ Reverting /\ Free /\ ~J(Active).confirmed
  /\ hw.content \subseteq J(J(Active).base).config
Failing == InWork /\ (~task.forced => Unpublished /\ Steady)
Booting == authority.outOfSync /\ ~authority.uncertain /\ task.for = "timer"
Replaying ==
  ~authority.uncertain /\ J(Active).state \in {"committed", "unsynced"} /\ task.for # "timer"
Replayed ==
  /\ Replaying /\ Carries(Active)
  /\ hw.generation = task.generation => hw.content = J(Active).config

ThreadKnows ==
  /\ task.step \in {"idle", "check", "due", "timed_out"} => AtRest
  /\ task.step \in {"applying", "hardware"} => Preparing
  /\ task.step = "verify" => Verifying
  /\ task.step = "publish" => Publishing
  /\ task.step \in {"record", "mark"} => Marking
  /\ task.step \in {"supersede", "commit"} => Ending
  /\ task.step = "converge" => Converging
  /\ task.step = "finalize" => Failing
  /\ task.step = "journals" => Booting
  /\ task.step = "resolve" => task.for # "timer"
  /\ task.step = "replay" => Replaying
  /\ task.step = "intent" => IF task.for = "timer" THEN Booting ELSE Replayed
  /\ task.step = "finish" => Replayed /\ Timed(Active)

ConfigdInv == ConfigdTypes /\ DisksHold /\ HardwareIsAccounted /\ AuthorityKnows /\ ThreadKnows

-----------------------------------------------------------------------------
USE DEF Txs, Active, Ready, Bound, Free, Idle, At

(***************************************************************************)
(* What plans, writes and calls do.                                        *)
(***************************************************************************)
\* What a plan leaves on the hardware.
LEMMA PlanFull ==
  ASSUME NEW S, NEW T, NEW content, content \subseteq S \cup T
  PROVE  Full(content, S, T) = T
BY Zenon DEF Full

LEMMA PlanDifference ==
  ASSUME NEW S, NEW T, NEW content
  PROVE  /\ Difference(content, S, T) \subseteq content \cup T
         /\ content \subseteq S => Difference(content, S, T) \subseteq T
         /\ content = S => Difference(content, S, T) = T
BY Zenon DEF Difference

\* What every write but a publication leaves alone; to the journal of one
\* transaction, and to the record.
Keeps ==
  /\ disk' \in Disks /\ disk'.earlier \subseteq disk.earlier
  /\ disk'.pointer = disk.pointer /\ disk'.sequence = disk.sequence
  /\ \A t \in Txs : /\ disk'.journal[t].base = disk.journal[t].base
                    /\ disk'.journal[t].config = disk.journal[t].config
                    /\ t <= disk.pointer => disk'.journal[t].confirmed = disk.journal[t].confirmed
                    /\ disk'.journal[t].state = "absent" <=> disk.journal[t].state = "absent"
Moves(tx, s) ==
  /\ disk' \in Disks /\ disk'.earlier \subseteq disk.earlier
  /\ disk'.pointer = disk.pointer /\ disk'.sequence = disk.sequence /\ disk'.record = disk.record
  /\ \A t \in Txs : /\ disk'.journal[t].base = disk.journal[t].base
                    /\ disk'.journal[t].config = disk.journal[t].config
                    /\ disk'.journal[t].confirmed = disk.journal[t].confirmed
                    /\ disk'.journal[t].state = IF t = tx THEN s ELSE disk.journal[t].state
Notes(tx, s) ==
  /\ disk' \in Disks /\ disk'.earlier \subseteq disk.earlier
  /\ disk'.pointer = disk.pointer /\ disk'.sequence = disk.sequence /\ disk'.journal = disk.journal
  /\ disk'.record = [tx |-> tx, state |-> s]

LEMMA JournalWith ==
  ASSUME NEW d \in Disks, NEW tx \in Txs, NEW s \in States
  PROVE  /\ WithState(d, tx, s) \in Disks
         /\ WithState(d, tx, s).earlier = d.earlier
         /\ WithState(d, tx, s).pointer = d.pointer
         /\ WithState(d, tx, s).sequence = d.sequence
         /\ WithState(d, tx, s).record = d.record
         /\ \A t \in Txs : /\ WithState(d, tx, s).journal[t].base = d.journal[t].base
                           /\ WithState(d, tx, s).journal[t].config = d.journal[t].config
                           /\ WithState(d, tx, s).journal[t].confirmed = d.journal[t].confirmed
                           /\ WithState(d, tx, s).journal[t].state = IF t = tx THEN s ELSE d.journal[t].state
<1> DEFINE j == [d.journal EXCEPT ![tx] = [@ EXCEPT !.state = s]]
<1>1. d.journal \in [Txs -> Journals]
  BY DEF Disks
<1>2. [d.journal[tx] EXCEPT !.state = s] \in Journals
  BY <1>1 DEF Journals
<1>3. j \in [Txs -> Journals]
  BY <1>1, <1>2
<1>4. \A t \in Txs : /\ j[t].base = d.journal[t].base
                     /\ j[t].config = d.journal[t].config
                     /\ j[t].confirmed = d.journal[t].confirmed
                     /\ j[t].state = IF t = tx THEN s ELSE d.journal[t].state
  BY <1>1 DEF Journals
<1>5. WithState(d, tx, s) = [d EXCEPT !.journal = j]
  BY DEF WithState, Disks
<1> HIDE DEF j
<1>6. WithState(d, tx, s) \in Disks
  BY <1>3, <1>5 DEF Disks
<1>7. WithState(d, tx, s).journal = j /\ WithState(d, tx, s).earlier = d.earlier
      /\ WithState(d, tx, s).pointer = d.pointer /\ WithState(d, tx, s).sequence = d.sequence
      /\ WithState(d, tx, s).record = d.record
  BY <1>5 DEF Disks
<1> QED
  BY <1>4, <1>6, <1>7 DEF j

LEMMA RecordWith ==
  ASSUME NEW d \in Disks, NEW tx \in 0..MaxTx, NEW s \in {"none", "awaiting", "timed_out", "confirmed"}
  PROVE  /\ WithRecord(d, tx, s) \in Disks
         /\ WithRecord(d, tx, s).earlier = d.earlier
         /\ WithRecord(d, tx, s).pointer = d.pointer
         /\ WithRecord(d, tx, s).sequence = d.sequence
         /\ WithRecord(d, tx, s).journal = d.journal
         /\ WithRecord(d, tx, s).record = [tx |-> tx, state |-> s]
BY DEF WithRecord, Disks, Records

LEMMA Synced ==
  ASSUME NEW d \in Disks
  PROVE  /\ [d EXCEPT !.earlier = {}] \in Disks
         /\ [d EXCEPT !.earlier = {}].earlier = {}
         /\ [d EXCEPT !.earlier = {}].pointer = d.pointer
         /\ [d EXCEPT !.earlier = {}].sequence = d.sequence
         /\ [d EXCEPT !.earlier = {}].journal = d.journal
         /\ [d EXCEPT !.earlier = {}].record = d.record
BY DEF Disks

LEMMA StateWritten ==
  ASSUME ConfigdTypes, NEW tx \in Txs, NEW s \in States
  PROVE  /\ Written(WithState(disk, tx, s)) => Moves(tx, s) /\ disk'.earlier = {}
         /\ NotWritten(WithState(disk, tx, s)) => Moves(tx, s) \/ disk' = disk
         /\ disk' = WithState(disk, tx, s) => Moves(tx, s)
<1> DEFINE d == WithState(disk, tx, s)
<1>1. d \in Disks /\ d.earlier = disk.earlier /\ d.pointer = disk.pointer /\ d.sequence = disk.sequence
      /\ d.record = disk.record
      /\ \A t \in Txs : /\ d.journal[t].base = disk.journal[t].base
                        /\ d.journal[t].config = disk.journal[t].config
                        /\ d.journal[t].confirmed = disk.journal[t].confirmed
                        /\ d.journal[t].state = IF t = tx THEN s ELSE disk.journal[t].state
  BY JournalWith DEF ConfigdTypes
<1> HIDE DEF d
<1>2. disk' = d => Moves(tx, s)
  BY <1>1 DEF Moves
<1>3. disk' = [d EXCEPT !.earlier = {}] => Moves(tx, s) /\ disk'.earlier = {}
  BY <1>1, Synced DEF Moves
<1> QED
  BY <1>2, <1>3 DEF Written, NotWritten, d

LEMMA RecordWritten ==
  ASSUME ConfigdTypes, NEW tx \in 0..MaxTx, NEW s \in {"none", "awaiting", "timed_out", "confirmed"}
  PROVE  /\ Written(WithRecord(disk, tx, s)) => Notes(tx, s)
         /\ NotWritten(WithRecord(disk, tx, s)) => Notes(tx, s) \/ disk' = disk
<1> DEFINE d == WithRecord(disk, tx, s)
<1>1. d \in Disks /\ d.earlier = disk.earlier /\ d.pointer = disk.pointer /\ d.sequence = disk.sequence
      /\ d.journal = disk.journal /\ d.record = [tx |-> tx, state |-> s]
  BY RecordWith DEF ConfigdTypes
<1> HIDE DEF d
<1>2. disk' = d => Notes(tx, s)
  BY <1>1 DEF Notes
<1>3. disk' = [d EXCEPT !.earlier = {}] => Notes(tx, s)
  BY <1>1, Synced DEF Notes
<1> QED
  BY <1>2, <1>3 DEF Written, NotWritten, d

LEMMA MovesKeeps ==
  ASSUME NEW tx \in Txs, NEW s \in States \ {"absent"}, Moves(tx, s), J(tx).state # "absent"
  PROVE  Keeps
BY DEF Moves, Keeps, J

LEMMA KeepsWhole ==
  ASSUME ConfigdTypes, DisksHold, Keeps, told' = told, disk'.record = disk.record,
         disk'.journal[1].state = "committed",
         disk'.journal[disk.pointer].state \in InPlaceOfPublished
  PROVE  DisksHold'
<1>1. disk \in Disks /\ disk.pointer \in Txs
  BY DEF ConfigdTypes, Disks
<1>2. DiskIsWhole(disk')
  <2>1. 1 \in Txs /\ 1 <= disk.pointer
    BY <1>1, ConfigdAssumption
  <2> QED
    BY <1>1, <2>1 DEF Keeps, DisksHold, DiskIsWhole
<1>3. ConfirmedIsAsked(disk)'
  BY <1>1 DEF Keeps, DisksHold, ConfirmedIsAsked
<1>4. \A d \in disk.earlier : DiskIsWhole(d) /\ ConfirmedIsAsked(d)'
  BY DEF DisksHold, ConfirmedIsAsked
<1> QED
  BY <1>2, <1>3, <1>4 DEF DisksHold, Keeps, ConfirmedIsAsked

LEMMA NotesWhole ==
  ASSUME ConfigdTypes, DisksHold, NEW tx \in 0..MaxTx, NEW s, s # "none", Notes(tx, s), tx <= disk.pointer,
         \A t \in Txs : told[t] \subseteq told'[t],
         s = "confirmed" /\ tx = disk.pointer /\ J(tx).confirmed => "asked" \in told'[tx]
  PROVE  DisksHold'
<1>1. disk \in Disks /\ disk.pointer \in Txs
  BY DEF ConfigdTypes, Disks
<1>2. DiskIsWhole(disk')
  BY <1>1 DEF Notes, DisksHold, DiskIsWhole
<1>3. ConfirmedIsAsked(disk)'
  BY <1>1 DEF Notes, DisksHold, ConfirmedIsAsked, J
<1>4. ASSUME NEW d \in disk.earlier PROVE DiskIsWhole(d) /\ ConfirmedIsAsked(d)'
  <2>1. d.pointer \in Txs
    BY <1>1 DEF Disks, Settled
  <2> QED
    BY <2>1 DEF DisksHold, ConfirmedIsAsked
<1> QED
  BY <1>2, <1>3, <1>4 DEF DisksHold, Notes, ConfirmedIsAsked

LEMMA StillWhole ==
  ASSUME ConfigdTypes, DisksHold, disk' = disk, \A t \in Txs : told[t] \subseteq told'[t]
  PROVE  DisksHold'
<1> SUFFICES ASSUME NEW d \in {disk} \cup disk.earlier
             PROVE  DiskIsWhole(d) /\ ConfirmedIsAsked(d)'
  BY DEF DisksHold, ConfirmedIsAsked
<1>1. d.pointer \in Txs
  BY DEF ConfigdTypes, Disks, Settled
<1> QED
  BY <1>1 DEF DisksHold, ConfirmedIsAsked

LEMMA KeepsAccounted ==
  ASSUME ConfigdTypes, DisksHold, HardwareIsAccounted, Keeps, hw' = hw,
         disk'.journal[disk.pointer].state = "committed"
           => J(disk.pointer).state = "committed" \/ Carries(disk.pointer)
  PROVE  HardwareIsAccounted'
<1>1. disk \in Disks /\ disk.pointer \in Txs /\ hw.retained \in 0..MaxTx
  BY DEF ConfigdTypes, Disks, Hardwares
<1>2. J(disk.pointer).state # "committed" => J(disk.pointer).base \in Txs
  <2>1. DiskIsWhole(disk) /\ MaxTx \in Nat
    BY ConfigdAssumption DEF DisksHold
  <2>2. disk.journal[disk.pointer].state # "absent"
    BY <2>1 DEF DiskIsWhole, InPlaceOfPublished
  <2> QED
    BY <1>1, <2>1, <2>2 DEF DiskIsWhole, J
<1>3. Own \subseteq Own' \/ Carries(disk.pointer)
  BY <1>1, <1>2 DEF Own, Keeps, J
<1>4. J(disk.pointer).config \subseteq Own'
  BY <1>1 DEF Own, Keeps, J
<1>5. CASE Free
  BY <1>1, <1>3, <1>4, <1>5 DEF HardwareIsAccounted, Carries
<1>6. CASE ~Free
  BY <1>1, <1>3, <1>6 DEF HardwareIsAccounted, Keeps, J, Carries
<1> QED
  BY <1>5, <1>6

USE DEF Reverting, Calm, Trouble
USE ConfigdAssumption

(***************************************************************************)
(* The invariant is kept by every step; one lemma for each action.         *)
(***************************************************************************)
LEMMA Where ==
  ASSUME ConfigdInv
  PROVE  /\ ConfigdTypes /\ DisksHold /\ HardwareIsAccounted /\ AuthorityKnows /\ ThreadKnows
         /\ MaxTx \in Nat /\ disk \in Disks /\ authority \in Authorities /\ task \in Tasks /\ hw \in Hardwares
         /\ disk.pointer \in Txs
         /\ task.step # "idle" => authority.up
         /\ authority.up => Active \in Txs
BY DEF ConfigdInv, ConfigdTypes, Disks, AuthorityKnows

LEMMA ApplyingKeeps == ConfigdInv /\ Applying => ConfigdInv'
<1> SUFFICES ASSUME ConfigdInv, Applying PROVE ConfigdInv'
  OBVIOUS
<1> USE Where
<1>1. /\ task.tx \in Txs /\ J(task.tx).state # "absent" /\ disk.pointer < task.tx
      /\ authority.up /\ ~authority.outOfSync /\ ~authority.uncertain /\ Active = disk.pointer /\ Steady
      /\ disk.earlier = {} /\ J(task.tx).base = Active
  BY DEF Applying, ThreadKnows, Preparing, Unpublished, InWork, AuthorityKnows
<1>2. \/ Moves(task.tx, "applying") /\ disk'.earlier = {} /\ Go(IF Reverting THEN "publish" ELSE "hardware")
      \/ (Moves(task.tx, "applying") \/ disk' = disk) /\ Fail(FALSE)
  BY <1>1, StateWritten DEF Applying, States
<1>3. UNCHANGED <<authority, hw, told>>
  BY DEF Applying
<1>4. task' \in Tasks /\ task'.tx = task.tx /\ task'.for = task.for /\ task'.generation = task.generation
  BY <1>2 DEF Go, Fail, Tasks, Steps
<1>5. Keeps /\ disk'.record = disk.record /\ \A t \in Txs \ {task.tx} : J(t)'.state = J(t).state
  BY <1>1, <1>2, MovesKeeps DEF Moves, Keeps, J, States
<1>6. ConfigdTypes'
  BY <1>3, <1>4, <1>5 DEF ConfigdTypes, Keeps, Applying
<1>7. DisksHold'
  BY <1>1, <1>3, <1>5, KeepsWhole DEF J, DisksHold, DiskIsWhole
<1>8. HardwareIsAccounted'
  BY <1>1, <1>3, <1>5, KeepsAccounted DEF J
<1>9. AuthorityKnows'
  BY <1>1, <1>2, <1>3, <1>4, <1>5 DEF AuthorityKnows, Keeps, Go, Fail
<1>10. Steady'
  BY <1>1, <1>3, <1>5 DEF Steady, Keeps, J, Carries, Timed
<1>11. InWork' /\ Unpublished'
  BY <1>1, <1>3, <1>4, <1>5, <1>10
     DEF ThreadKnows, Preparing, Applying, Unpublished, InWork, Steady, Keeps, J
<1>12. task'.step = "finalize" => Failing'
  BY <1>10, <1>11 DEF Failing
<1>13. task'.step = "publish" => Publishing'
  BY <1>1, <1>2, <1>3, <1>4, <1>5, <1>10, <1>11
     DEF ThreadKnows, Preparing, Applying, Publishing, Moves, Go, Fail, J, Tasks
<1>14. task'.step = "hardware" => Preparing'
  BY <1>1, <1>2, <1>3, <1>4, <1>5, <1>10, <1>11
     DEF ThreadKnows, Preparing, Applying, Moves, Go, Fail, J, Tasks
<1>15. task'.step \in {"finalize", "publish", "hardware"}
  BY <1>2 DEF Go, Fail, Tasks
<1> QED
  BY <1>6, <1>7, <1>8, <1>9, <1>12, <1>13, <1>14, <1>15 DEF ConfigdInv, ThreadKnows

LEMMA FindUnboundKeeps == ConfigdInv /\ FindUnbound => ConfigdInv'
<1> SUFFICES ASSUME ConfigdInv, FindUnbound PROVE ConfigdInv'
  OBVIOUS
<1> USE Where
<1>1. disk' = disk /\ task' = task /\ hw' = hw /\ told' = told /\ task.step = "idle"
      /\ authority' = [authority EXCEPT !.outOfSync = TRUE] /\ authority.up
  BY DEF FindUnbound, OutOfSync
<1>2. authority' \in Authorities /\ authority'.outOfSync /\ authority'.up /\ authority'.active = Active
      /\ authority'.uncertain = authority.uncertain /\ authority'.bound = authority.bound
  BY <1>1 DEF Authorities
<1>3. ConfigdTypes'
  BY <1>1, <1>2 DEF ConfigdTypes
<1>4. DisksHold'
  BY <1>1, StillWhole
<1>5. HardwareIsAccounted'
  BY <1>1 DEF HardwareIsAccounted, Own, J
<1>6. AuthorityKnows'
  BY <1>1, <1>2 DEF AuthorityKnows
<1>7. AtRest'
  BY <1>1, <1>2 DEF AtRest
<1> QED
  BY <1>1, <1>3, <1>4, <1>5, <1>6, <1>7 DEF ConfigdInv, ThreadKnows

LEMMA ReserveKeeps ==
  ASSUME ConfigdInv, authority.up, ~authority.outOfSync,
         task.step \in {"idle", "check", "due", "timed_out"},
         NEW config \in SUBSET Objects, NEW for \in Purposes \ {"none", "tick"},
         NEW refused \in {Idle, At("timed_out", for)},
         Reserve(config, At("applying", for), refused), UNCHANGED <<authority, hw, told>>
  PROVE  ConfigdInv'
<1> USE Where
<1>a. PICK tx \in Txs : tx = disk.sequence + 1
  BY DEF Reserve
<1> DEFINE new == Journal("prepared", Active, FALSE, config)
           reserved == [disk EXCEPT !.sequence = tx]
           prepared == [reserved EXCEPT !.journal[tx] = new]
<1>1. Steady /\ ~authority.uncertain /\ Active = disk.pointer /\ disk.sequence \in Txs
  BY DEF ThreadKnows, AtRest, AuthorityKnows, Disks
<1>2. DiskIsWhole(disk)
  BY DEF DisksHold
<1>3. tx \in Txs /\ tx > disk.pointer /\ tx # 1 /\ J(tx).state = "absent"
  BY <1>1, <1>2, <1>a DEF DiskIsWhole, J
<1>4. new \in Journals /\ new.state = "prepared" /\ new.base = Active /\ ~new.confirmed
  BY <1>1 DEF Journal, Journals, States
<1> HIDE DEF new
<1>5. reserved \in Disks /\ reserved = [disk EXCEPT !.sequence = tx]
  BY <1>3 DEF Disks
<1>6. prepared = [reserved EXCEPT !.journal = [disk.journal EXCEPT ![tx] = new]]
  BY DEF Disks
<1>7. [disk.journal EXCEPT ![tx] = new] \in [Txs -> Journals]
  BY <1>4 DEF Disks
<1>8. prepared \in Disks
  BY <1>5, <1>6, <1>7 DEF Disks
<1>9. /\ prepared.pointer = disk.pointer /\ prepared.record = disk.record /\ prepared.sequence = tx
      /\ prepared.earlier = disk.earlier /\ prepared.journal = [disk.journal EXCEPT ![tx] = new]
      /\ reserved.pointer = disk.pointer /\ reserved.record = disk.record /\ reserved.sequence = tx
      /\ reserved.earlier = disk.earlier /\ reserved.journal = disk.journal
  BY <1>6 DEF Disks
<1>10. \/ Written(prepared) /\ task' = [At("applying", for) EXCEPT !.tx = tx]
       \/ disk' \in {disk, reserved, prepared} /\ task' = refused
  BY <1>a DEF Reserve, new
<1> HIDE DEF reserved, prepared
<1>11. /\ disk' \in Disks /\ disk'.earlier \subseteq disk.earlier
       /\ disk'.pointer = disk.pointer /\ disk'.record = disk.record
       /\ disk'.sequence \in {disk.sequence, tx} /\ disk'.journal \in {disk.journal, [disk.journal EXCEPT ![tx] = new]}
       /\ disk'.journal # disk.journal => disk'.sequence = tx
  BY <1>5, <1>8, <1>9, <1>10, Synced DEF Written
<1>12. \/ /\ disk'.earlier = {} /\ disk'.journal = [disk.journal EXCEPT ![tx] = new]
          /\ task' = [At("applying", for) EXCEPT !.tx = tx]
       \/ task' = refused
  BY <1>8, <1>9, <1>10, Synced DEF Written
<1>13. \A t \in Txs : t # tx => J(t)' = J(t)
  BY <1>11 DEF J, Disks
<1>14. J(tx)' \in {J(tx), new} /\ (disk'.sequence = tx \/ J(tx)' = J(tx))
  BY <1>3, <1>11 DEF J, Disks
<1>15. ConfigdTypes'
  <2>1. task' \in Tasks
    <3>1. Idle \in Tasks /\ At("timed_out", for) \in Tasks /\ At("applying", for) \in Tasks
      BY DEF Tasks, Steps, Purposes
    <3>2. \A r \in Tasks : [r EXCEPT !.tx = tx] \in Tasks
      BY DEF Tasks
    <3> QED
      BY <1>12, <3>1, <3>2
  <2> QED
    BY <1>11, <2>1 DEF ConfigdTypes
<1>16. DiskIsWhole(disk')
  <2>1. disk'.journal[1].state = "committed" /\ disk'.journal[disk.pointer].state \in InPlaceOfPublished
        /\ ~disk'.journal[1].confirmed /\ disk'.journal[1].base = 0
    BY <1>2, <1>3, <1>13 DEF DiskIsWhole, J
  <2>2. ASSUME NEW t \in Txs, disk'.journal[t].state # "absent"
        PROVE  t <= disk'.sequence /\ (t # 1 => disk'.journal[t].base \in 1..(t - 1))
    <3>1. CASE t # tx
      BY <1>1, <1>2, <1>11, <1>13, <1>a, <2>2, <3>1 DEF DiskIsWhole, J
    <3>2. CASE t = tx
      BY <1>1, <1>2, <1>3, <1>4, <1>14, <1>a, <2>2, <3>2 DEF DiskIsWhole, J
    <3> QED
      BY <3>1, <3>2
  <2> QED
    BY <1>1, <1>2, <1>11, <1>a, <2>1, <2>2 DEF DiskIsWhole
<1>17. DisksHold'
  BY <1>3, <1>11, <1>13, <1>16 DEF DisksHold, ConfirmedIsAsked, J
<1>18. J(Active)' = J(Active) /\ Steady'
  BY <1>1, <1>3, <1>11, <1>13 DEF Steady, Carries, Timed, J
<1>19. HardwareIsAccounted'
  BY <1>1, <1>11, <1>18 DEF Steady, Carries, HardwareIsAccounted, Own, J
<1>20. AuthorityKnows'
  BY <1>1, <1>3, <1>11, <1>12 DEF AuthorityKnows, Hardwares
<1>21. CASE task' = refused
  BY <1>15, <1>17, <1>18, <1>19, <1>20, <1>21 DEF ConfigdInv, ThreadKnows, AtRest
<1>22. CASE disk'.earlier = {} /\ disk'.journal = [disk.journal EXCEPT ![tx] = new]
            /\ task' = [At("applying", for) EXCEPT !.tx = tx]
  <2>1. J(tx)' = new /\ task'.tx = tx /\ task'.for = for /\ task'.step = "applying"
    BY <1>3, <1>22 DEF J, Disks
  <2>2. Preparing'
    BY <1>1, <1>3, <1>4, <1>11, <1>18, <1>22, <2>1 DEF Preparing, Unpublished, InWork, Steady
  <2> QED
    BY <1>15, <1>17, <1>19, <1>20, <2>1, <2>2 DEF ConfigdInv, ThreadKnows
<1> QED
  BY <1>12, <1>21, <1>22

LEMMA StartCommitKeeps ==
  ASSUME ConfigdInv, NEW for \in {"panel", "confirmed", "plain"}, NEW config \in Images,
         StartCommit(for, config)
  PROVE  ConfigdInv'
<1>1. config \in SUBSET Objects
  BY Zenon DEF Objects
<1>2. for \in Purposes \ {"none", "tick"}
  BY DEF Purposes
<1>3. authority.up /\ ~authority.outOfSync /\ task.step \in {"idle", "check", "due", "timed_out"}
      /\ Reserve(config, At("applying", for), Idle) /\ UNCHANGED <<authority, hw, told>>
  BY DEF StartCommit
<1> HIDE DEF At, Idle
<1> QED
  BY <1>1, <1>2, <1>3, ReserveKeeps

\* What a call that failed may have left is accounted for.
LEMMA Doubtful ==
  ASSUME ConfigdTypes, HardwareIsAccounted, disk' = disk, NEW t \in Txs, J(t).state # "absent",
         disk.pointer <= t, NEW target \in SUBSET Objects, target \subseteq Own \cup J(t).config,
         hw' \in InDoubt(t, target)
  PROVE  /\ hw' \in Hardwares /\ HardwareIsAccounted' /\ hw'.generation = hw.generation
<1>1. hw \in Hardwares /\ Own' = Own
  BY DEF ConfigdTypes, Own, J
<1>2. CASE hw' = hw
  BY <1>1, <1>2 DEF HardwareIsAccounted, J
<1>3. CASE hw' # hw
  <2>1. PICK c \in SUBSET (hw.content \cup target), b \in BOOLEAN : Free /\ hw' = Holding(t, c, b)
    BY <1>3 DEF InDoubt
  <2>2. /\ hw'.content = c /\ hw'.retained = t /\ hw'.before = hw.content
        /\ hw'.generation = hw.generation
    BY <1>1, <2>1 DEF Holding, Hardwares
  <2>3. hw' \in Hardwares
    <3>1. c \in SUBSET Objects
      BY <1>1, <2>1 DEF Hardwares
    <3>2. hw' = [content |-> c, retained |-> t, broken |-> b, before |-> hw.content,
                 generation |-> hw.generation]
      BY <1>1, <2>1 DEF Holding, Hardwares
    <3>3. hw.content \in SUBSET Objects /\ hw.generation \in Nat \ {0} /\ t \in 0..MaxTx
      BY <1>1 DEF Hardwares
    <3> QED
      BY <2>1, <3>1, <3>2, <3>3 DEF Hardwares
  <2>4. hw.content \subseteq Own
    BY <2>1 DEF HardwareIsAccounted
  <2>5. HardwareIsAccounted'
    BY <1>1, <2>1, <2>2, <2>4 DEF HardwareIsAccounted, J
  <2> QED
    BY <2>2, <2>3, <2>5
<1> QED
  BY <1>2, <1>3

LEMMA Release ==
  ASSUME hw \in Hardwares, NEW c \in SUBSET Objects, hw' = Released(c)
  PROVE  /\ hw' \in Hardwares /\ hw'.content = c /\ hw'.retained = 0
         /\ hw'.generation = hw.generation
<1>1. hw' = [content |-> c, retained |-> 0, broken |-> FALSE, before |-> {},
             generation |-> hw.generation]
  BY DEF Released, Hardwares
<1> QED
  BY <1>1 DEF Hardwares

LEMMA OwnIsOwn ==
  ASSUME ConfigdInv
  PROVE  /\ J(disk.pointer).config \subseteq Own
         /\ J(disk.pointer).state = "committed" => Own = J(disk.pointer).config
         /\ J(disk.pointer).state # "committed" =>
              /\ J(disk.pointer).base \in Txs /\ J(disk.pointer).base < disk.pointer
              /\ Own = J(disk.pointer).config \cup J(J(disk.pointer).base).config
<1> USE Where
<1>1. DiskIsWhole(disk)
  BY DEF DisksHold
<1> QED
  BY <1>1 DEF Own, J, DiskIsWhole, InPlaceOfPublished

LEMMA HardwareKeeps == ConfigdInv /\ Hardware => ConfigdInv'
<1> SUFFICES ASSUME ConfigdInv, Hardware PROVE ConfigdInv'
  OBVIOUS
<1> USE Where
<1> DEFINE target == Difference(hw.content, J(Active).config, J(task.tx).config)
<1>1. /\ Preparing /\ ~Reverting /\ J(task.tx).state = "applying" /\ task.step = "hardware"
      /\ task.tx \in Txs /\ authority.up /\ ~authority.outOfSync /\ Active = disk.pointer
  BY DEF Hardware, ThreadKnows, Preparing, Unpublished, InWork, AuthorityKnows
<1>2. disk' = disk /\ authority' = authority /\ told' = told
  BY DEF Hardware
<1>3. J(Active).config \in SUBSET Objects /\ J(task.tx).config \in SUBSET Objects /\ hw.content \in SUBSET Objects
  BY <1>1 DEF J, Disks, Journals, Hardwares
<1>4. target \subseteq hw.content \cup J(task.tx).config
  BY PlanDifference
<1>5. Free /\ hw.content \subseteq J(Active).config /\ J(Active).state = "committed"
      /\ (Bound => hw.content = J(Active).config)
  BY <1>1 DEF Preparing, Steady, Carries
<1>6. target \subseteq J(task.tx).config /\ (Bound => target = J(task.tx).config)
  BY <1>5, PlanDifference
<1>7. \/ hw' = Holding(task.tx, target, FALSE) /\ Go("verify")
      \/ hw' = hw /\ Fail(FALSE)
      \/ hw' \in InDoubt(task.tx, target) /\ Fail(TRUE)
  BY DEF Hardware
<1> HIDE DEF target
<1>8. hw' \in InDoubt(task.tx, target)
  BY <1>5, <1>7 DEF InDoubt
<1>9. hw' \in Hardwares /\ HardwareIsAccounted' /\ hw'.generation = hw.generation
  BY <1>1, <1>2, <1>3, <1>6, <1>8, Doubtful DEF Preparing, Unpublished, InWork
<1>10. task' \in Tasks /\ task'.tx = task.tx /\ task'.for = task.for /\ task'.generation = task.generation
       /\ task'.step \in {"verify", "finalize"}
  BY <1>7 DEF Go, Fail, Tasks, Steps
<1>11. ConfigdTypes'
  BY <1>2, <1>9, <1>10 DEF ConfigdTypes
<1>12. DisksHold'
  BY <1>2, StillWhole
<1>13. AuthorityKnows'
  BY <1>1, <1>2, <1>9, <1>10 DEF AuthorityKnows, Preparing, Unpublished
<1>14. Unpublished' /\ InWork'
  BY <1>1, <1>2, <1>10 DEF Preparing, Unpublished, InWork, J, Timed
<1>15. ASSUME task'.step = "finalize" PROVE Failing'
  <2>1. ~task'.forced => hw' = hw
    BY <1>7, <1>15 DEF Go, Fail, Tasks
  <2> QED
    BY <1>1, <1>2, <1>14, <2>1 DEF Failing, Preparing, Steady, Carries, Timed, J
<1>16. ASSUME task'.step = "verify" PROVE Verifying'
  <2>1. hw' = Holding(task.tx, target, FALSE)
    BY <1>7, <1>16 DEF Fail, Tasks
  <2>2. hw'.content = target /\ hw'.before = hw.content /\ hw'.retained = task.tx
    BY <2>1 DEF Holding, Hardwares
  <2>3. Candidate'
    BY <1>1, <1>2, <1>5, <1>6, <1>9, <1>10, <2>2 DEF Candidate, J, Preparing, Unpublished
  <2> QED
    BY <1>1, <1>2, <1>10, <1>14, <2>3 DEF Verifying, Preparing, J
<1> QED
  BY <1>9, <1>10, <1>11, <1>12, <1>13, <1>15, <1>16 DEF ConfigdInv, ThreadKnows

\* The before-image goes back when a candidate cannot be published.
LEMMA TakeBackKeeps ==
  ASSUME ConfigdInv, task.step \in {"verify", "publish"}, TakeBack, Unpublished, Candidate, ~Reverting,
         authority' = authority, told' = told, Keeps, disk'.record = disk.record,
         \A t \in Txs : t # task.tx => disk'.journal[t].state = disk.journal[t].state
  PROVE  ConfigdInv'
<1> USE Where
<1>1. /\ authority.up /\ Active = disk.pointer /\ task.tx \in Txs /\ disk.pointer # task.tx /\ task.tx # 1
  BY DEF Unpublished, InWork, AuthorityKnows
<1>2. /\ J(Active)'.state = "committed" /\ J(Active)'.config = J(Active).config
      /\ J(Active)'.confirmed = J(Active).confirmed /\ disk'.journal[1].state = "committed"
  BY <1>1 DEF Keeps, J, Unpublished, DisksHold, DiskIsWhole
<1>3. \/ hw.retained = task.tx /\ hw' = Released(hw.before) /\ Fail(FALSE)
      \/ hw' = hw /\ Fail(TRUE)
  BY DEF TakeBack
<1>4. task' \in Tasks /\ task'.tx = task.tx /\ task'.for = task.for /\ task'.generation = task.generation
      /\ task'.step = "finalize"
  BY <1>3 DEF Fail, Tasks, Steps
<1>5. hw' \in Hardwares /\ hw'.generation = hw.generation
  <2>1. hw.before \in SUBSET Objects
    BY DEF Hardwares
  <2> QED
    BY <1>3, <2>1, Release
<1>6. ConfigdTypes'
  BY <1>4, <1>5 DEF ConfigdTypes, Keeps
<1>7. DisksHold'
  BY <1>1, <1>2, KeepsWhole DEF J, InPlaceOfPublished
<1>8. HardwareIsAccounted'
  <2>1. CASE hw' = hw
    BY <1>1, <1>2, <2>1, KeepsAccounted DEF J, Unpublished
  <2>2. CASE hw' = Released(hw.before)
    <3>1. hw'.retained = 0 /\ hw'.content = hw.before
      BY <2>2 DEF Released, Hardwares
    <3>2. hw.before \subseteq J(Active).config /\ J(Active).config \subseteq Own'
      BY <1>1, <1>2 DEF Candidate, Unpublished, Own, Keeps, J
    <3> QED
      BY <3>1, <3>2 DEF HardwareIsAccounted
  <2> QED
    BY <1>3, <2>1, <2>2
<1>9. AuthorityKnows'
  BY <1>1, <1>4, <1>5 DEF AuthorityKnows, Keeps, Unpublished
<1>10. InWork' /\ Unpublished'
  BY <1>1, <1>2, <1>4 DEF InWork, Unpublished, Keeps, J, Timed
<1>11. ~task'.forced => Steady'
  <2> SUFFICES ASSUME ~task'.forced PROVE Steady'
    OBVIOUS
  <2>1. hw' = Released(hw.before) /\ hw.retained = task.tx
    BY <1>3 DEF Fail, Tasks
  <2>2. hw'.retained = 0 /\ hw'.content = hw.before
    BY <2>1 DEF Released, Hardwares
  <2>3. hw.before \subseteq J(Active).config /\ (Bound => hw.before = J(Active).config)
    BY DEF Candidate, Unpublished
  <2> QED
    BY <1>2, <1>5, <1>10, <2>2, <2>3 DEF Steady, Carries, Unpublished, J
<1> QED
  BY <1>4, <1>6, <1>7, <1>8, <1>9, <1>10, <1>11 DEF ConfigdInv, ThreadKnows, Failing

LEMMA VerifyKeeps == ConfigdInv /\ Verify => ConfigdInv'
<1> SUFFICES ASSUME ConfigdInv, Verify PROVE ConfigdInv'
  OBVIOUS
<1> USE Where
<1> DEFINE verified == WithState(disk, task.tx, "verified")
           intended == [verified EXCEPT !.journal[task.tx].confirmed = task.for # "plain"]
<1>1. /\ Verifying /\ task.step = "verify" /\ task.tx \in Txs /\ authority.up /\ Active = disk.pointer
      /\ disk.pointer < task.tx /\ task.tx # 1
  BY DEF Verify, ThreadKnows, Verifying, Unpublished, InWork, AuthorityKnows
<1>2. /\ verified \in Disks /\ verified.earlier = disk.earlier /\ verified.pointer = disk.pointer
      /\ verified.sequence = disk.sequence /\ verified.record = disk.record
      /\ \A t \in Txs : /\ verified.journal[t].base = disk.journal[t].base
                        /\ verified.journal[t].config = disk.journal[t].config
                        /\ verified.journal[t].confirmed = disk.journal[t].confirmed
                        /\ verified.journal[t].state = IF t = task.tx THEN "verified" ELSE disk.journal[t].state
  <2>1. "verified" \in States
    BY DEF States
  <2>2. /\ verified \in Disks /\ verified.earlier = disk.earlier /\ verified.pointer = disk.pointer
        /\ verified.sequence = disk.sequence /\ verified.record = disk.record
    BY <1>1, <2>1, JournalWith
  <2>3. \A t \in Txs : /\ verified.journal[t].base = disk.journal[t].base
                       /\ verified.journal[t].config = disk.journal[t].config
                       /\ verified.journal[t].confirmed = disk.journal[t].confirmed
    BY <1>1, <2>1, JournalWith
  <2>4. \A t \in Txs : verified.journal[t].state = IF t = task.tx THEN "verified" ELSE disk.journal[t].state
    BY <1>1, <2>1, JournalWith
  <2> QED
    BY <2>2, <2>3, <2>4
<1>3. \/ Written(intended) /\ Go("publish") /\ hw' = hw
      \/ disk' \in {disk, verified, intended} /\ TakeBack
  BY DEF Verify
<1>4. authority' = authority /\ told' = told
  BY DEF Verify
<1> HIDE DEF verified
<1> DEFINE j == [verified.journal EXCEPT ![task.tx] = [@ EXCEPT !.confirmed = task.for # "plain"]]
<1>5. verified.journal \in [Txs -> Journals]
  BY <1>2 DEF Disks
<1>6. j \in [Txs -> Journals]
  <2> DEFINE c == task.for # "plain"
  <2>1. c \in BOOLEAN
    OBVIOUS
  <2> HIDE DEF c
  <2>2. [verified.journal[task.tx] EXCEPT !.confirmed = c] \in Journals
    BY <1>1, <1>5, <2>1 DEF Journals
  <2>3. [verified.journal EXCEPT ![task.tx] = [@ EXCEPT !.confirmed = c]] \in [Txs -> Journals]
    BY <1>5, <2>2
  <2> QED
    BY <2>3 DEF c
<1>7. \A t \in Txs : /\ j[t].base = verified.journal[t].base
                     /\ j[t].config = verified.journal[t].config
                     /\ t # task.tx => j[t].confirmed = verified.journal[t].confirmed
                     /\ j[t].state = verified.journal[t].state
  BY <1>5 DEF Journals
<1>8. intended = [verified EXCEPT !.journal = j]
  BY <1>2 DEF Disks
<1> HIDE DEF j, intended
<1>9. /\ intended \in Disks /\ intended.earlier = disk.earlier /\ intended.pointer = disk.pointer
      /\ intended.sequence = disk.sequence /\ intended.record = disk.record /\ intended.journal = j
  BY <1>2, <1>6, <1>8 DEF Disks
<1>10. /\ disk' \in Disks /\ disk'.earlier \subseteq disk.earlier /\ disk'.pointer = disk.pointer
       /\ disk'.sequence = disk.sequence /\ disk'.record = disk.record
       /\ disk'.journal \in {disk.journal, verified.journal, j}
       /\ Written(intended) => disk'.journal = j /\ disk'.earlier = {}
  BY <1>2, <1>3, <1>9, Synced DEF Written
<1>11. \A t \in Txs : t # task.tx =>
         /\ disk'.journal[t].state = disk.journal[t].state
         /\ disk'.journal[t].confirmed = disk.journal[t].confirmed
  BY <1>2, <1>7, <1>10
<1>12. Keeps
  BY <1>1, <1>2, <1>7, <1>10, <1>11 DEF Keeps, Verifying, Unpublished, InWork, J
<1>13. CASE TakeBack
  BY <1>1, <1>4, <1>10, <1>11, <1>12, <1>13, TakeBackKeeps DEF Verifying
<1>14. CASE Written(intended) /\ Go("publish") /\ hw' = hw
  <2>1. /\ task' \in Tasks /\ task'.tx = task.tx /\ task'.for = task.for /\ task'.generation = task.generation
        /\ task'.step = "publish"
    BY <1>14 DEF Go, Tasks, Steps
  <2>2. ConfigdTypes'
    BY <1>4, <1>10, <1>14, <2>1 DEF ConfigdTypes
  <2>3. J(Active)'.state = "committed" /\ J(Active)' = J(Active)' /\ disk'.journal[1].state = "committed"
    BY <1>1, <1>4, <1>11 DEF J, Verifying, Unpublished, DisksHold, DiskIsWhole
  <2>4. DisksHold'
    BY <1>1, <1>4, <1>10, <1>12, <2>3, KeepsWhole DEF J, InPlaceOfPublished
  <2>5. HardwareIsAccounted'
    BY <1>1, <1>12, <1>14, KeepsAccounted DEF Verifying, Unpublished
  <2>6. AuthorityKnows'
    BY <1>1, <1>4, <1>10, <1>14, <2>1 DEF AuthorityKnows
  <2>7. Unpublished' /\ Candidate'
    BY <1>1, <1>4, <1>10, <1>11, <1>12, <1>14, <2>1, <2>3
       DEF Unpublished, InWork, Candidate, Verifying, Keeps, J, Timed
  <2>8. J(task.tx)'.state = "verified"
    BY <1>1, <1>2, <1>7, <1>10, <1>14, <2>1 DEF J
  <2>9. Publishing'
    BY <1>1, <1>10, <1>14, <2>1, <2>7, <2>8 DEF Publishing, Verifying, J
  <2> QED
    BY <2>1, <2>2, <2>4, <2>5, <2>6, <2>9 DEF ConfigdInv, ThreadKnows
<1> QED
  BY <1>3, <1>13, <1>14

\* The pointer that is published, seen or durable.
LEMMA PublishedHolds ==
  ASSUME ConfigdInv, Publishing, task.step = "publish", hw' = hw, told' = told,
         disk' \in Disks, disk'.earlier \subseteq {disk}, disk'.pointer = task.tx,
         disk'.sequence = disk.sequence, disk'.record = disk.record, disk'.journal = disk.journal
  PROVE  DisksHold' /\ HardwareIsAccounted'
<1> USE Where
<1>1. /\ task.tx \in Txs /\ disk.pointer < task.tx /\ Active = disk.pointer /\ DiskIsWhole(disk)
      /\ J(task.tx).state \in {"applying", "verified"} /\ J(task.tx).base = Active
  BY DEF Publishing, Unpublished, InWork, AuthorityKnows, DisksHold
<1>2. DiskIsWhole(disk')
  <2>1. task.tx <= disk.sequence /\ disk.record.tx <= task.tx /\ disk.record.tx \in 0..MaxTx
    BY <1>1 DEF DiskIsWhole, J, Disks, Records
  <2>2. disk'.journal[task.tx].state \in InPlaceOfPublished
    BY <1>1 DEF J, InPlaceOfPublished
  <2> QED
    BY <1>1, <2>1, <2>2 DEF DiskIsWhole
<1>3. ConfirmedIsAsked(disk)'
  BY <1>1, <1>2 DEF ConfirmedIsAsked, DiskIsWhole, Disks, Records
<1>4. DisksHold'
  BY <1>2, <1>3 DEF DisksHold, ConfirmedIsAsked
<1>5. Own' = J(task.tx).config \cup J(Active).config
  BY <1>1 DEF Own, J
<1>6. CASE Reverting
  <2>1. Free /\ hw.content \subseteq J(Active).config
    BY <1>6 DEF Publishing, Steady, Carries
  <2> QED
    BY <1>4, <1>5, <2>1 DEF HardwareIsAccounted
<1>7. CASE ~Reverting
  <2>1. /\ hw.content \subseteq J(task.tx).config /\ hw.before \subseteq J(Active).config
        /\ hw.retained \in {0, task.tx}
    BY <1>1, <1>7 DEF Publishing, Candidate
  <2>2. hw.content \subseteq Own' /\ hw.before \subseteq Own'
    BY <1>5, <2>1
  <2>3. disk'.journal[task.tx].state # "absent"
    BY <1>1 DEF J
  <2> QED
    BY <1>1, <1>4, <2>1, <2>2, <2>3 DEF HardwareIsAccounted, J
<1> QED
  BY <1>4, <1>6, <1>7

LEMMA PublishKeeps == ConfigdInv /\ Publish => ConfigdInv'
<1> SUFFICES ASSUME ConfigdInv, Publish PROVE ConfigdInv'
  OBVIOUS
<1> USE Where
<1> DEFINE published == [disk EXCEPT !.pointer = task.tx]
           promoted == [authority EXCEPT !.active = task.tx]
           next == IF Reverting THEN "converge" ELSE IF J(task.tx).confirmed THEN "record" ELSE "mark"
<1>1. /\ Publishing /\ task.step = "publish" /\ task.tx \in Txs /\ authority.up /\ Active = disk.pointer
      /\ disk.pointer < task.tx /\ disk.earlier = {} /\ told' = told
  BY DEF Publish, ThreadKnows, Publishing, Unpublished, InWork, AuthorityKnows
<1>2. \/ Written(published) /\ authority' = promoted /\ Go(next) /\ hw' = hw
      \/ /\ disk' = disk /\ authority' = authority
         /\ IF Reverting THEN (hw' = hw /\ Fail(FALSE)) ELSE TakeBack
      \/ /\ disk' = [published EXCEPT !.earlier = {disk}]
         /\ authority' = [promoted EXCEPT !.uncertain = TRUE] /\ Fail(TRUE) /\ hw' = hw
      \/ /\ disk' \in {disk, [published EXCEPT !.earlier = {disk}]}
         /\ authority' = [authority EXCEPT !.uncertain = TRUE] /\ Fail(TRUE) /\ hw' = hw
      \/ disk' = [published EXCEPT !.earlier = {}] /\ authority' = promoted /\ Fail(TRUE) /\ hw' = hw
  BY DEF Publish
<1>3. disk \in Settled
  BY <1>1 DEF Disks, Settled
<1>4. \A E \in SUBSET Settled : LET d == [published EXCEPT !.earlier = E] IN
        /\ d \in Disks /\ d.earlier = E /\ d.pointer = task.tx /\ d.sequence = disk.sequence
        /\ d.record = disk.record /\ d.journal = disk.journal
  BY <1>1 DEF Disks
<1>5. promoted \in Authorities /\ promoted.active = task.tx /\ promoted.up /\ ~promoted.outOfSync
      /\ ~promoted.uncertain /\ promoted.bound = authority.bound
  BY <1>1 DEF Authorities, Publishing, Unpublished, InWork
<1> HIDE DEF published, promoted
<1> DEFINE Seen == /\ disk' \in Disks /\ disk'.earlier \subseteq {disk} /\ disk'.pointer = task.tx
                   /\ disk'.sequence = disk.sequence /\ disk'.record = disk.record
                   /\ disk'.journal = disk.journal
<1>7. CASE Written(published) /\ authority' = promoted /\ Go(next) /\ hw' = hw
  <2>1. Seen
    BY <1>4, <1>7 DEF Written
  <2>2. DisksHold' /\ HardwareIsAccounted'
    BY <1>1, <1>7, <2>1, PublishedHolds
  <2>3. /\ task' \in Tasks /\ task'.tx = task.tx /\ task'.for = task.for /\ task'.generation = task.generation
        /\ task'.step = next
    BY <1>7 DEF Go, Tasks, Steps
  <2>4. ConfigdTypes'
    BY <1>1, <1>5, <1>7, <2>1, <2>3 DEF ConfigdTypes
  <2>5. AuthorityKnows'
    BY <1>1, <1>5, <1>7, <2>1, <2>3 DEF AuthorityKnows
  <2>6. Published'
    BY <1>1, <1>5, <1>7, <2>1, <2>3 DEF Published, InWork, Publishing, Unpublished, J
  <2>7. CASE Reverting
    <3>1. Converging'
      BY <1>1, <1>5, <1>7, <2>1, <2>3, <2>6, <2>7
         DEF Converging, Publishing, Unpublished, Steady, Carries, J
    <3> QED
      BY <2>2, <2>3, <2>4, <2>5, <2>7, <3>1 DEF ConfigdInv, ThreadKnows
  <2>8. CASE ~Reverting
    <3>1. Candidate'
      BY <1>1, <1>5, <1>7, <2>1, <2>3, <2>8 DEF Candidate, Publishing, J
    <3>2. Marking'
      BY <1>1, <1>5, <1>7, <2>1, <2>3, <2>6, <2>8, <3>1 DEF Marking, Timed, J
    <3> QED
      BY <2>2, <2>3, <2>4, <2>5, <2>8, <3>2 DEF ConfigdInv, ThreadKnows
  <2> QED
    BY <2>7, <2>8
<1>8. CASE disk' = disk /\ authority' = authority /\ ~Reverting /\ TakeBack
  <2>1. Keeps
    BY <1>8 DEF Keeps
  <2> QED
    BY <1>1, <1>8, <2>1, TakeBackKeeps DEF Publishing
<1>9. ASSUME Fail(TRUE) \/ (Fail(FALSE) /\ Reverting /\ authority' = authority /\ disk' = disk),
             hw' = hw, authority' \in Authorities,
             authority'.up, authority'.active \in {Active, task.tx}, authority'.outOfSync = authority.outOfSync,
             authority'.bound = authority.bound,
             authority'.uncertain \/ authority'.active = disk'.pointer,
             authority'.active = task.tx => Seen, disk' = disk \/ Seen
      PROVE  ConfigdInv'
  <2>1. /\ task' \in Tasks /\ task'.tx = task.tx /\ task'.for = task.for /\ task'.generation = task.generation
        /\ task'.step = "finalize" /\ (task'.forced \/ (Reverting /\ authority' = authority /\ disk' = disk))
    BY <1>9 DEF Fail, Tasks, Steps
  <2>2. DisksHold' /\ HardwareIsAccounted' /\ disk' \in Disks
    <3>1. CASE Seen
      BY <1>1, <1>9, <3>1, PublishedHolds
    <3>2. CASE disk' = disk
      BY <1>1, <1>9, <3>2, StillWhole DEF HardwareIsAccounted, Own, J
    <3> QED
      BY <1>9, <3>1, <3>2
  <2>3. ConfigdTypes'
    BY <1>1, <1>9, <2>1, <2>2 DEF ConfigdTypes
  <2>4. AuthorityKnows'
    BY <1>1, <1>9, <2>1 DEF AuthorityKnows, Publishing, Unpublished
  <2>5. InWork'
    BY <1>1, <1>9, <2>1 DEF Publishing, Unpublished, InWork, J
  <2>6. ~task'.forced => Unpublished' /\ Steady'
    BY <1>1, <1>9, <2>1, <2>5 DEF Publishing, Unpublished, Steady, Carries, Timed, J
  <2> QED
    BY <2>1, <2>2, <2>3, <2>4, <2>5, <2>6 DEF ConfigdInv, ThreadKnows, Failing
<1>10. CASE disk' = disk /\ authority' = authority /\ Reverting /\ hw' = hw /\ Fail(FALSE)
  BY <1>1, <1>9, <1>10
<1>11. CASE /\ disk' = [published EXCEPT !.earlier = {disk}] /\ hw' = hw /\ Fail(TRUE)
            /\ authority' = [promoted EXCEPT !.uncertain = TRUE]
  <2>1. Seen
    BY <1>3, <1>4, <1>11
  <2>2. authority' \in Authorities /\ authority'.active = task.tx /\ authority'.up /\ authority'.uncertain
        /\ authority'.outOfSync = authority.outOfSync /\ authority'.bound = authority.bound
    BY <1>5, <1>11 DEF Authorities, promoted
  <2> QED
    BY <1>9, <1>11, <2>1, <2>2
<1>12. CASE /\ disk' \in {disk, [published EXCEPT !.earlier = {disk}]} /\ hw' = hw /\ Fail(TRUE)
            /\ authority' = [authority EXCEPT !.uncertain = TRUE]
  <2>1. Seen \/ disk' = disk
    <3>1. CASE disk' = [published EXCEPT !.earlier = {disk}]
      BY <1>3, <1>4, <3>1
    <3> QED
      BY <1>12, <3>1
  <2>2. authority' \in Authorities /\ authority'.active = Active /\ authority'.up /\ authority'.uncertain
        /\ authority'.outOfSync = authority.outOfSync /\ authority'.bound = authority.bound
    BY <1>1, <1>12 DEF Authorities
  <2> QED
    BY <1>1, <1>9, <1>12, <2>1, <2>2
<1>13. CASE disk' = [published EXCEPT !.earlier = {}] /\ authority' = promoted /\ Fail(TRUE) /\ hw' = hw
  <2>1. Seen
    BY <1>4, <1>13
  <2>2. authority'.outOfSync = authority.outOfSync
    BY <1>13 DEF promoted, Authorities
  <2> QED
    BY <1>5, <1>9, <1>13, <2>1, <2>2
<1> QED
  BY <1>2, <1>7, <1>8, <1>10, <1>11, <1>12, <1>13

LEMMA RecordKeeps == ConfigdInv /\ Record => ConfigdInv'
<1> SUFFICES ASSUME ConfigdInv, Record PROVE ConfigdInv'
  OBVIOUS
<1> USE Where
<1>1. /\ Marking /\ task.step = "record" /\ task.tx \in Txs /\ authority.up /\ task.tx = disk.pointer
      /\ Active = disk.pointer
  BY DEF Record, ThreadKnows, Marking, Published, InWork, AuthorityKnows
<1>2. \/ Written(WithRecord(disk, task.tx, "awaiting")) /\ Go("mark")
      \/ NotWritten(WithRecord(disk, task.tx, "awaiting")) /\ Fail(TRUE)
  BY DEF Record
<1>3. authority' = authority /\ hw' = hw /\ told' = told
  BY DEF Record
<1>4. task.tx \in 0..MaxTx
  BY <1>1
<1>5. /\ Notes(task.tx, "awaiting") \/ disk' = disk
      /\ Written(WithRecord(disk, task.tx, "awaiting")) => Notes(task.tx, "awaiting")
  BY <1>2, <1>4, RecordWritten
<1>6. /\ disk' \in Disks /\ disk'.pointer = disk.pointer /\ disk'.journal = disk.journal
      /\ disk'.sequence = disk.sequence
  BY <1>5 DEF Notes
<1>7. task' \in Tasks /\ task'.tx = task.tx /\ task'.for = task.for /\ task'.generation = task.generation
      /\ task'.step \in {"mark", "finalize"} /\ (task'.step = "mark" => Notes(task.tx, "awaiting"))
      /\ (task'.step = "finalize" => task'.forced)
  <2>1. (Go("mark") /\ Notes(task.tx, "awaiting")) \/ Fail(TRUE)
    BY <1>2, <1>5
  <2>2. CASE Go("mark") /\ Notes(task.tx, "awaiting")
    BY <2>2 DEF Go, Tasks, Steps
  <2>3. CASE Fail(TRUE)
    BY <2>3 DEF Fail, Tasks, Steps
  <2> QED
    BY <2>1, <2>2, <2>3
<1>8. ConfigdTypes'
  BY <1>3, <1>6, <1>7 DEF ConfigdTypes
<1>9. DisksHold'
  BY <1>1, <1>3, <1>4, <1>5, NotesWhole, StillWhole
<1>10. HardwareIsAccounted'
  BY <1>3, <1>6 DEF HardwareIsAccounted, Own, J
<1>11. AuthorityKnows'
  BY <1>1, <1>3, <1>6, <1>7 DEF AuthorityKnows, Marking, Published
<1>12. InWork' /\ Published'
  BY <1>1, <1>3, <1>6, <1>7 DEF Marking, Published, InWork, J
<1>13. task'.step = "mark" => Marking'
  BY <1>1, <1>3, <1>6, <1>7, <1>12 DEF Marking, Candidate, Timed, Notes, J
<1> QED
  BY <1>7, <1>8, <1>9, <1>10, <1>11, <1>12, <1>13 DEF ConfigdInv, ThreadKnows, Failing

LEMMA MarkKeeps == ConfigdInv /\ Mark => ConfigdInv'
<1> SUFFICES ASSUME ConfigdInv, Mark PROVE ConfigdInv'
  OBVIOUS
<1> USE Where
<1> DEFINE marked == WithState(disk, task.tx, "marked")
<1>1. /\ Marking /\ task.step = "mark" /\ task.tx \in Txs /\ authority.up /\ task.tx = disk.pointer
      /\ Active = disk.pointer /\ task.tx # 1 /\ J(task.tx).state # "absent" /\ ~Reverting
  BY DEF Mark, ThreadKnows, Marking, Published, InWork, AuthorityKnows
<1>2. \/ /\ Owned(task.tx) /\ hw' = Released(hw.content) /\ Written(marked)
         /\ Go(IF J(task.tx).confirmed THEN "commit" ELSE "supersede")
      \/ hw' \in {hw, Released(hw.content)} /\ (Written(marked) \/ NotWritten(marked) \/ disk' = marked)
         /\ Fail(TRUE)
  BY DEF Mark
<1>3. authority' = authority /\ told' = told
  BY DEF Mark
<1>4. "marked" \in States \ {"absent"}
  BY DEF States
<1>5. /\ Moves(task.tx, "marked") \/ disk' = disk
      /\ Written(marked) => Moves(task.tx, "marked")
  BY <1>1, <1>2, <1>4, StateWritten
<1> HIDE DEF marked
<1>6. Keeps /\ disk'.record = disk.record /\ disk'.journal[1].state = "committed"
      /\ disk'.journal[disk.pointer].state \in InPlaceOfPublished
  <2>1. CASE disk' = disk
    BY <2>1 DEF Keeps, DisksHold, DiskIsWhole
  <2>2. CASE Moves(task.tx, "marked")
    BY <1>1, <1>4, <2>2, MovesKeeps DEF Moves, DisksHold, DiskIsWhole, InPlaceOfPublished
  <2> QED
    BY <1>5, <2>1, <2>2
<1>7. hw.content \subseteq J(task.tx).config /\ hw.content \in SUBSET Objects
      /\ (Bound => hw.content = J(task.tx).config) /\ J(Active)'.config = J(Active).config
      /\ J(Active)'.confirmed = J(Active).confirmed
  BY <1>1, <1>3, <1>6 DEF Marking, Candidate, Hardwares, Keeps, J
<1>8. hw' = Released(hw.content) =>
        /\ hw' \in Hardwares /\ hw'.content = hw.content /\ hw'.retained = 0 /\ hw'.generation = hw.generation
  BY <1>7, Release
<1>9. hw' \in Hardwares /\ hw'.generation = hw.generation
  BY <1>2, <1>8
<1>10. task' \in Tasks /\ task'.tx = task.tx /\ task'.for = task.for /\ task'.generation = task.generation
       /\ \/ /\ task'.step \in {"commit", "supersede"} /\ hw' = Released(hw.content)
             /\ task'.step = "supersede" => ~J(task.tx).confirmed
          \/ task'.step = "finalize" /\ task'.forced
  BY <1>2 DEF Go, Fail, Tasks, Steps
<1>11. ConfigdTypes'
  BY <1>3, <1>6, <1>9, <1>10 DEF ConfigdTypes, Keeps
<1>12. DisksHold'
  BY <1>3, <1>6, KeepsWhole
<1>13. HardwareIsAccounted'
  <2>1. CASE hw' = hw
    <3>1. disk'.journal[disk.pointer].state = "committed" => J(disk.pointer).state = "committed"
      BY <1>1, <1>4, <1>5 DEF Moves, J
    <3> QED
      BY <1>6, <2>1, <3>1, KeepsAccounted
  <2>2. CASE hw' = Released(hw.content)
    <3>1. hw.content \subseteq Own'
      BY <1>1, <1>6, <1>7 DEF Own, Keeps, J
    <3> QED
      BY <1>8, <2>2, <3>1 DEF HardwareIsAccounted
  <2> QED
    BY <1>2, <2>1, <2>2
<1>14. AuthorityKnows'
  BY <1>1, <1>3, <1>6, <1>9, <1>10 DEF AuthorityKnows, Keeps, Marking, Published
<1>15. InWork' /\ Published'
  BY <1>1, <1>3, <1>6, <1>10 DEF Marking, Published, InWork, Keeps, J
<1>16. task'.step \in {"commit", "supersede"} => Ending'
  BY <1>1, <1>3, <1>6, <1>7, <1>8, <1>10, <1>15 DEF Marking, Ending, Carries, Timed
<1> QED
  BY <1>10, <1>11, <1>12, <1>13, <1>14, <1>15, <1>16 DEF ConfigdInv, ThreadKnows, Failing

LEMMA SupersedeKeeps == ConfigdInv /\ Supersede => ConfigdInv'
<1> SUFFICES ASSUME ConfigdInv, Supersede PROVE ConfigdInv'
  OBVIOUS
<1> USE Where
<1> DEFINE newState == IF J(disk.record.tx).expired THEN "timed_out" ELSE "confirmed"
<1>1. /\ Ending /\ task.step = "supersede" /\ task.tx \in Txs /\ authority.up /\ task.tx = disk.pointer
      /\ Active = disk.pointer /\ ~J(Active).confirmed
  BY DEF Supersede, ThreadKnows, Ending, Published, InWork, AuthorityKnows
<1>2. authority' = authority /\ hw' = hw /\ told' = told /\ Go("commit")
  BY DEF Supersede
<1>3. disk.record.tx \in 0..MaxTx /\ disk.record.tx <= disk.pointer
  BY DEF Disks, Records, DisksHold, DiskIsWhole
<1>a. newState # "none"
  OBVIOUS
<1>4. Notes(disk.record.tx, newState) \/ disk' = disk
  <2>1. newState \in {"none", "awaiting", "timed_out", "confirmed"}
    OBVIOUS
  <2>2. disk' = disk \/ Written(WithRecord(disk, disk.record.tx, newState))
                     \/ NotWritten(WithRecord(disk, disk.record.tx, newState))
    BY DEF Supersede
  <2> HIDE DEF newState
  <2> QED
    BY <1>3, <2>1, <2>2, RecordWritten
<1> HIDE DEF newState
<1>5. /\ disk' \in Disks /\ disk'.pointer = disk.pointer /\ disk'.journal = disk.journal
      /\ disk'.sequence = disk.sequence
  BY <1>4 DEF Notes
<1>6. task' \in Tasks /\ task'.tx = task.tx /\ task'.for = task.for /\ task'.generation = task.generation
      /\ task'.step = "commit"
  BY <1>2 DEF Go, Tasks, Steps
<1>7. ConfigdTypes'
  BY <1>2, <1>5, <1>6 DEF ConfigdTypes
<1>8. DisksHold'
  BY <1>a, <1>1, <1>2, <1>3, <1>4, NotesWhole, StillWhole
<1>9. HardwareIsAccounted'
  BY <1>2, <1>5 DEF HardwareIsAccounted, Own, J
<1>10. AuthorityKnows'
  BY <1>1, <1>2, <1>5, <1>6 DEF AuthorityKnows, Ending, Published
<1>11. Ending'
  BY <1>1, <1>2, <1>5, <1>6 DEF Ending, Published, InWork, Carries, Timed, J
<1> QED
  BY <1>6, <1>7, <1>8, <1>9, <1>10, <1>11 DEF ConfigdInv, ThreadKnows

LEMMA CommitKeeps == ConfigdInv /\ Commit => ConfigdInv'
<1> SUFFICES ASSUME ConfigdInv, Commit PROVE ConfigdInv'
  OBVIOUS
<1> USE Where
<1>1. /\ Ending /\ task.step = "commit" /\ task.tx \in Txs /\ authority.up /\ task.tx = disk.pointer
      /\ Active = disk.pointer /\ J(task.tx).state # "absent" /\ ~authority.outOfSync
  BY DEF Commit, ThreadKnows, Ending, Published, InWork, AuthorityKnows
<1>2. \/ /\ Written(WithState(disk, task.tx, "committed"))
         /\ task' = IF Reverting THEN At("timed_out", task.for) ELSE Idle
      \/ NotWritten(WithState(disk, task.tx, "committed")) /\ Fail(TRUE)
  BY DEF Commit
<1>3. authority' = authority /\ hw' = hw /\ told' = told
  BY DEF Commit
<1>4. "committed" \in States \ {"absent"}
  BY DEF States
<1>5. \/ Moves(task.tx, "committed") /\ task' = IF Reverting THEN At("timed_out", task.for) ELSE Idle
      \/ (Moves(task.tx, "committed") \/ disk' = disk) /\ Fail(TRUE)
  BY <1>1, <1>2, <1>4, StateWritten
<1>6. Keeps /\ disk'.record = disk.record /\ disk'.journal[1].state = "committed"
      /\ disk'.journal[disk.pointer].state \in InPlaceOfPublished
  <2>1. CASE disk' = disk
    BY <2>1 DEF Keeps, DisksHold, DiskIsWhole
  <2>2. CASE Moves(task.tx, "committed")
    BY <1>1, <1>4, <2>2, MovesKeeps DEF Moves, DisksHold, DiskIsWhole, InPlaceOfPublished
  <2> QED
    BY <1>5, <2>1, <2>2
<1>7. task' \in Tasks /\ task'.generation <= hw.generation
      /\ \/ task'.step \in {"idle", "timed_out"} /\ Moves(task.tx, "committed")
         \/ task'.step = "finalize" /\ task'.forced /\ task'.tx = task.tx /\ task'.for = task.for
  <2>1. CASE Fail(TRUE)
    BY <2>1 DEF Fail, Tasks, Steps, AuthorityKnows
  <2>2. CASE Moves(task.tx, "committed") /\ task' = IF Reverting THEN At("timed_out", task.for) ELSE Idle
    BY <2>2 DEF Tasks, Steps, Purposes, Hardwares
  <2> QED
    BY <1>5, <2>1, <2>2
<1>8. ConfigdTypes'
  BY <1>3, <1>6, <1>7 DEF ConfigdTypes, Keeps
<1>9. DisksHold'
  BY <1>3, <1>6, KeepsWhole
<1>10. HardwareIsAccounted'
  BY <1>1, <1>3, <1>6, KeepsAccounted DEF Ending
<1>11. AuthorityKnows'
  BY <1>1, <1>3, <1>6, <1>7 DEF AuthorityKnows, Keeps, Ending, Published
<1>12. task'.step \in {"idle", "timed_out"} => Steady'
  BY <1>1, <1>3, <1>6, <1>7 DEF Steady, Ending, Carries, Timed, Keeps, Moves, J
<1>13. task'.step = "finalize" => InWork'
  BY <1>1, <1>3, <1>6, <1>7 DEF Ending, Published, InWork, Keeps, J
<1> QED
  BY <1>7, <1>8, <1>9, <1>10, <1>11, <1>12, <1>13 DEF ConfigdInv, ThreadKnows, Failing, AtRest

LEMMA FinalizeKeeps == ConfigdInv /\ Finalize => ConfigdInv'
<1> SUFFICES ASSUME ConfigdInv, Finalize PROVE ConfigdInv'
  OBVIOUS
<1> USE Where
<1>1. /\ Failing /\ task.step = "finalize" /\ task.tx \in Txs /\ task.tx # 1 /\ authority.up
      /\ J(task.tx).state # "absent" /\ ~authority.outOfSync /\ disk.pointer <= task.tx
  BY DEF Finalize, ThreadKnows, Failing, InWork
<1>2. \/ ~task.forced /\ Written(WithState(disk, task.tx, "failed")) /\ authority' = authority
      \/ /\ \/ Written(WithState(disk, task.tx, "unsynced"))
            \/ disk' \in {disk, WithState(disk, task.tx, "unsynced")}
            \/ ~task.forced /\ disk' = WithState(disk, task.tx, "failed")
         /\ OutOfSync
  BY DEF Finalize
<1>3. hw' = hw /\ told' = told /\ task' = IF Reverting THEN At("timed_out", task.for) ELSE Idle
  BY DEF Finalize
<1>4. "failed" \in States \ {"absent"} /\ "unsynced" \in States \ {"absent"}
  BY DEF States
<1>5. \/ ~task.forced /\ Moves(task.tx, "failed") /\ authority' = authority
      \/ /\ disk' = disk \/ Moves(task.tx, "unsynced") \/ (~task.forced /\ Moves(task.tx, "failed"))
         /\ OutOfSync
  BY <1>1, <1>2, <1>4, StateWritten
<1>6. ~task.forced => disk.pointer < task.tx /\ Active = disk.pointer /\ Steady /\ ~authority.uncertain
  BY <1>1 DEF Failing, Unpublished, AuthorityKnows
<1>7. Keeps /\ disk'.record = disk.record /\ disk'.journal[1].state = "committed"
      /\ disk'.journal[disk.pointer].state \in InPlaceOfPublished
      /\ (disk'.journal[disk.pointer].state = "committed" => J(disk.pointer).state = "committed")
  <2>1. CASE disk' = disk
    BY <2>1 DEF Keeps, DisksHold, DiskIsWhole, J
  <2>2. CASE Moves(task.tx, "unsynced")
    BY <1>1, <1>4, <2>2, MovesKeeps DEF Moves, DisksHold, DiskIsWhole, InPlaceOfPublished, J
  <2>3. CASE ~task.forced /\ Moves(task.tx, "failed")
    BY <1>1, <1>4, <1>6, <2>3, MovesKeeps DEF Moves, DisksHold, DiskIsWhole, J
  <2> QED
    BY <1>5, <2>1, <2>2, <2>3
<1>8. task' \in Tasks /\ task'.generation <= hw.generation /\ task'.step \in {"idle", "timed_out"}
  BY <1>3 DEF Tasks, Steps, Purposes, Hardwares
<1>9. /\ authority' \in Authorities /\ authority'.up /\ authority'.active = Active
      /\ authority'.uncertain = authority.uncertain /\ authority'.bound = authority.bound
      /\ authority'.outOfSync \/ (~task.forced /\ Moves(task.tx, "failed"))
  BY <1>1, <1>5 DEF OutOfSync, Authorities
<1>10. ConfigdTypes'
  BY <1>3, <1>7, <1>8, <1>9 DEF ConfigdTypes, Keeps
<1>11. DisksHold'
  BY <1>3, <1>7, KeepsWhole
<1>12. HardwareIsAccounted'
  BY <1>3, <1>7, KeepsAccounted
<1>13. AuthorityKnows'
  BY <1>1, <1>3, <1>6, <1>7, <1>8, <1>9 DEF AuthorityKnows, Keeps
<1>14. ~authority'.outOfSync => Steady'
  BY <1>1, <1>3, <1>6, <1>7, <1>9 DEF Steady, Carries, Timed, Keeps, Moves, J
<1> QED
  BY <1>8, <1>10, <1>11, <1>12, <1>13, <1>14 DEF ConfigdInv, ThreadKnows, AtRest

\* Between transactions, a step that at most writes the record again.
LEMMA RestKeeps ==
  ASSUME ConfigdInv, authority.up, task.step \in {"idle", "check", "due", "timed_out"},
         hw' = hw, told' \in [Txs -> SUBSET {"asked", "confirmed", "rolled_back"}],
         task' \in Tasks, task'.generation <= hw.generation,
         task'.step \in {"idle", "check", "due", "timed_out"},
         task'.step \in {"check", "due"} => task'.for \in {"timer", "recover"},
         authority' = authority \/ OutOfSync,
         disk' \in Disks, disk'.pointer = disk.pointer, disk'.journal = disk.journal,
         disk'.record.tx = disk.record.tx, DisksHold'
  PROVE  ConfigdInv'
<1> USE Where
<1>1. /\ authority' \in Authorities /\ authority'.up /\ authority'.active = Active
      /\ authority'.uncertain = authority.uncertain /\ authority'.bound = authority.bound
      /\ ~authority'.outOfSync => ~authority.outOfSync
  BY DEF OutOfSync, Authorities
<1>2. ConfigdTypes'
  BY <1>1 DEF ConfigdTypes
<1>3. HardwareIsAccounted'
  BY DEF HardwareIsAccounted, Own, J
<1>4. AuthorityKnows'
  BY <1>1 DEF AuthorityKnows
<1>5. ~authority'.outOfSync => Steady'
  BY <1>1 DEF ThreadKnows, AtRest, Steady, Carries, Timed, J
<1> QED
  BY <1>2, <1>3, <1>4, <1>5 DEF ConfigdInv, ThreadKnows, AtRest

\* Writing the record again, but never as confirmed where nobody asked.
LEMMA NotedAgain ==
  ASSUME ConfigdInv, told' = told, NEW s \in {"awaiting", "timed_out", "confirmed"},
         \/ Written(WithRecord(disk, disk.record.tx, s))
         \/ NotWritten(WithRecord(disk, disk.record.tx, s))
         \/ disk' = disk,
         s = "confirmed" => disk.record.tx # disk.pointer
  PROVE  /\ disk' \in Disks /\ disk'.pointer = disk.pointer /\ disk'.journal = disk.journal
         /\ disk'.record.tx = disk.record.tx /\ DisksHold'
<1> USE Where
<1>1. disk.record.tx \in 0..MaxTx /\ disk.record.tx <= disk.pointer
  BY DEF Disks, Records, DisksHold, DiskIsWhole
<1>2. Notes(disk.record.tx, s) \/ disk' = disk
  BY <1>1, RecordWritten
<1>3. CASE disk' = disk
  BY <1>3, StillWhole
<1>4. CASE Notes(disk.record.tx, s)
  BY <1>1, <1>4, NotesWhole DEF Notes
<1> QED
  BY <1>2, <1>3, <1>4

LEMMA RestTasks ==
  ASSUME ConfigdInv
  PROVE  /\ Idle \in Tasks /\ Idle.step = "idle" /\ Idle.generation <= hw.generation
         /\ \A for \in Purposes, step \in {"check", "due", "timed_out"} :
              At(step, for) \in Tasks /\ At(step, for).step = step /\ At(step, for).for = for
                /\ At(step, for).generation <= hw.generation
BY Where DEF Tasks, Steps, Purposes, Hardwares

\* The way back starts from a record of the active configuration.
LEMMA RevertKeeps ==
  ASSUME ConfigdInv, authority.up, task.step \in {"idle", "due"},
         NEW for \in {"timer", "rollback", "recover"}, Revert(for), UNCHANGED <<hw, told>>
  PROVE  ConfigdInv'
<1> USE Where
<1>1. CASE Matches /\ ~authority.outOfSync /\ authority' = authority
           /\ Reserve(J(J(Active).base).config, At("applying", for), At("timed_out", for))
  <2>1. Steady /\ Active = disk.pointer /\ Active \in Txs /\ DiskIsWhole(disk)
    BY <1>1 DEF ThreadKnows, AtRest, AuthorityKnows, DisksHold
  <2>2. J(Active).confirmed /\ J(Active).state # "absent"
    BY <1>1, <2>1 DEF Matches, Steady
  <2>3. J(Active).base \in Txs
    BY <2>1, <2>2 DEF DiskIsWhole, J
  <2>4. J(J(Active).base).config \in SUBSET Objects
    BY <2>3 DEF J, Disks, Journals
  <2>5. for \in Purposes \ {"none", "tick"} /\ UNCHANGED <<authority, hw, told>>
    BY <1>1 DEF Purposes
  <2> HIDE DEF At, Idle
  <2> QED
    BY <1>1, <2>4, <2>5, ReserveKeeps
<1>2. CASE disk' = disk /\ task' = Idle /\ (authority' = authority \/ OutOfSync)
  <2>1. DisksHold'
    BY <1>2, StillWhole
  <2> QED
    BY <1>2, <2>1, RestKeeps, RestTasks DEF ConfigdTypes
<1> QED
  BY <1>1, <1>2 DEF Revert

LEMMA DueKeeps == ConfigdInv /\ Due => ConfigdInv'
<1> SUFFICES ASSUME ConfigdInv, Due PROVE ConfigdInv'
  OBVIOUS
<1>1. /\ authority.up /\ task.step \in {"idle", "due"} /\ UNCHANGED <<hw, told>>
      /\ task.for \in {"timer", "rollback", "recover"} /\ Revert(task.for)
  BY Where DEF Due, ThreadKnows, AtRest
<1> QED
  BY <1>1, RevertKeeps

LEMMA RollbackKeeps == ConfigdInv /\ Rollback => ConfigdInv'
<1> SUFFICES ASSUME ConfigdInv, Rollback PROVE ConfigdInv'
  OBVIOUS
<1>1. /\ authority.up /\ task.step \in {"idle", "due"} /\ UNCHANGED <<hw, told>> /\ Revert("rollback")
  BY DEF Rollback
<1> QED
  BY <1>1, RevertKeeps

LEMMA CheckKeeps == ConfigdInv /\ Check => ConfigdInv'
<1> SUFFICES ASSUME ConfigdInv, Check PROVE ConfigdInv'
  OBVIOUS
<1> USE Where
<1> DEFINE r == disk.record
           checking == IF task.step = "check" THEN task.for ELSE "timer"
<1>1. /\ authority.up /\ task.step \in {"idle", "check"} /\ hw' = hw /\ told' = told
      /\ checking \in {"timer", "recover"}
  BY DEF Check, ThreadKnows, AtRest
<1>2. \/ /\ \/ Written(WithRecord(disk, r.tx, "timed_out"))
            \/ NotWritten(WithRecord(disk, r.tx, "timed_out"))
            \/ disk' = disk
         /\ task' \in {Idle, At("due", "timer"), At("due", checking)}
         /\ authority' = authority \/ OutOfSync
      \/ /\ Written(WithRecord(disk, r.tx, "confirmed")) \/ NotWritten(WithRecord(disk, r.tx, "confirmed"))
         /\ r.tx < Active /\ task' = Idle /\ (authority' = authority \/ OutOfSync)
  BY DEF Check
<1>3. /\ task' \in Tasks /\ task'.generation <= hw.generation /\ task'.step \in {"idle", "due"}
      /\ task'.step = "due" => task'.for \in {"timer", "recover"}
      /\ authority' = authority \/ OutOfSync
  <2>1. {"timer", "recover"} \subseteq Purposes
    BY DEF Purposes
  <2> HIDE DEF At, Idle, checking
  <2> QED
    BY <1>1, <1>2, <2>1, RestTasks
<1>4. r.tx < Active => r.tx # disk.pointer
  BY <1>1 DEF AuthorityKnows, Disks, Records
<1>5. /\ disk' \in Disks /\ disk'.pointer = disk.pointer /\ disk'.journal = disk.journal
      /\ disk'.record.tx = disk.record.tx /\ DisksHold'
  BY <1>1, <1>2, <1>4, NotedAgain
<1> QED
  BY <1>1, <1>3, <1>5, RestKeeps DEF ConfigdTypes

LEMMA NothingToCheckKeeps == ConfigdInv /\ NothingToCheck => ConfigdInv'
<1> SUFFICES ASSUME ConfigdInv, NothingToCheck PROVE ConfigdInv'
  OBVIOUS
<1> USE Where
<1>1. disk' = disk /\ authority' = authority /\ hw' = hw /\ told' = told /\ task' = Idle /\ task.step = "check"
  BY DEF NothingToCheck
<1>2. DisksHold'
  BY <1>1, StillWhole
<1> HIDE DEF Idle
<1> QED
  BY <1>1, <1>2, RestKeeps, RestTasks DEF ConfigdTypes

LEMMA TimedOutKeeps == ConfigdInv /\ TimedOut => ConfigdInv'
<1> SUFFICES ASSUME ConfigdInv, TimedOut PROVE ConfigdInv'
  OBVIOUS
<1> USE Where
<1>1. /\ task.step = "timed_out" /\ authority' = authority /\ hw' = hw /\ told' = told /\ task' = Idle
      /\ \/ Written(WithRecord(disk, disk.record.tx, "timed_out"))
         \/ NotWritten(WithRecord(disk, disk.record.tx, "timed_out"))
  BY DEF TimedOut
<1>2. /\ disk' \in Disks /\ disk'.pointer = disk.pointer /\ disk'.journal = disk.journal
      /\ disk'.record.tx = disk.record.tx /\ DisksHold'
  BY <1>1, NotedAgain
<1> HIDE DEF Idle
<1> QED
  BY <1>1, <1>2, RestKeeps, RestTasks DEF ConfigdTypes

LEMMA ReportKeeps == ConfigdInv /\ Report => ConfigdInv'
<1> SUFFICES ASSUME ConfigdInv, Report PROVE ConfigdInv'
  OBVIOUS
<1> USE Where
<1>1. /\ disk' = disk /\ authority' = authority /\ hw' = hw /\ task' = task /\ task.step = "idle"
      /\ authority.up /\ task = Idle
      /\ \E S \in SUBSET {"asked", "confirmed", "rolled_back"} :
           told' = [told EXCEPT ![disk.record.tx] = @ \cup S]
  BY DEF Report, Tells
<1>2. /\ told' \in [Txs -> SUBSET {"asked", "confirmed", "rolled_back"}]
      /\ \A t \in Txs : told[t] \subseteq told'[t]
  BY <1>1 DEF ConfigdTypes
<1>3. DisksHold'
  BY <1>1, <1>2, StillWhole
<1> QED
  BY <1>1, <1>2, <1>3, RestKeeps, RestTasks

LEMMA ConfirmCommitKeeps == ConfigdInv /\ ConfirmCommit => ConfigdInv'
<1> SUFFICES ASSUME ConfigdInv, ConfirmCommit PROVE ConfigdInv'
  OBVIOUS
<1> USE Where
<1> DEFINE tx == disk.record.tx
<1>1. /\ authority' = authority /\ hw' = hw /\ task' = task /\ task = Idle /\ authority.up
      /\ tx = Active /\ ~authority.uncertain
      /\ \E S \in SUBSET {"asked", "confirmed", "rolled_back"} :
           "asked" \in S /\ told' = [told EXCEPT ![tx] = @ \cup S]
      /\ Written(WithRecord(disk, tx, "confirmed")) \/ NotWritten(WithRecord(disk, tx, "confirmed"))
  BY DEF ConfirmCommit, Tells
<1>2. tx \in Txs /\ tx = disk.pointer
  BY <1>1 DEF AuthorityKnows
<1>3. /\ told' \in [Txs -> SUBSET {"asked", "confirmed", "rolled_back"}]
      /\ (\A t \in Txs : told[t] \subseteq told'[t]) /\ "asked" \in told'[tx]
  BY <1>1, <1>2 DEF ConfigdTypes
<1>4. Notes(tx, "confirmed") \/ disk' = disk
  BY <1>1, <1>2, RecordWritten
<1>5. CASE disk' = disk
  <2>1. DisksHold'
    BY <1>3, <1>5, StillWhole
  <2> QED
    BY <1>1, <1>3, <1>5, <2>1, RestKeeps, RestTasks
<1>6. CASE Notes(tx, "confirmed")
  <2>1. DisksHold'
    BY <1>2, <1>3, <1>6, NotesWhole
  <2>2. /\ disk' \in Disks /\ disk'.pointer = disk.pointer /\ disk'.journal = disk.journal
        /\ disk'.record.tx = tx
    BY <1>6 DEF Notes
  <2> QED
    BY <1>1, <1>3, <2>1, <2>2, RestKeeps, RestTasks
<1> QED
  BY <1>4, <1>5, <1>6

LEMMA ConvergeKeeps == ConfigdInv /\ Converge => ConfigdInv'
<1> SUFFICES ASSUME ConfigdInv, Converge PROVE ConfigdInv'
  OBVIOUS
<1> USE Where
<1> DEFINE target == Full(hw.content, J(J(task.tx).base).config, J(task.tx).config)
<1>1. /\ Converging /\ task.step = "converge" /\ task.tx \in Txs /\ authority.up /\ task.tx = disk.pointer
      /\ Active = disk.pointer /\ J(task.tx).state # "absent" /\ Reverting
  BY DEF Converge, ThreadKnows, Converging, Published, InWork, AuthorityKnows
<1>2. hw.content \subseteq J(J(task.tx).base).config
  BY <1>1 DEF Converging
<1>3. target = J(task.tx).config /\ target \in SUBSET Objects
  BY <1>1, <1>2, PlanFull DEF J, Disks, Journals
<1>4. \/ hw' = Released(target) /\ Go("commit")
      \/ hw' \in InDoubt(task.tx, target) \cup {Released(target)} /\ Fail(TRUE)
  BY DEF Converge
<1>5. disk' = disk /\ authority' = authority /\ told' = told
  BY DEF Converge
<1> HIDE DEF target
<1>6. target \subseteq Own
  BY <1>1, <1>3, OwnIsOwn
<1>7. hw' = Released(target) =>
        hw' \in Hardwares /\ hw'.content = target /\ hw'.retained = 0 /\ hw'.generation = hw.generation
  BY <1>3, Release
<1>8. Own' = Own
  BY <1>5 DEF Own, J
<1>9. hw' \in Hardwares /\ hw'.generation = hw.generation /\ HardwareIsAccounted'
  <2>1. CASE hw' = Released(target)
    BY <1>6, <1>7, <1>8, <2>1 DEF HardwareIsAccounted
  <2>2. CASE hw' \in InDoubt(task.tx, target)
    BY <1>1, <1>3, <1>5, <1>6, <2>2, Doubtful
  <2> QED
    BY <1>4, <2>1, <2>2
<1>10. task' \in Tasks /\ task'.tx = task.tx /\ task'.for = task.for /\ task'.generation = task.generation
       /\ \/ task'.step = "commit" /\ hw' = Released(target)
          \/ task'.step = "finalize" /\ task'.forced
  BY <1>4 DEF Go, Fail, Tasks, Steps
<1>11. ConfigdTypes'
  BY <1>5, <1>9, <1>10 DEF ConfigdTypes
<1>12. DisksHold'
  BY <1>5, StillWhole
<1>13. AuthorityKnows'
  BY <1>1, <1>5, <1>9, <1>10 DEF AuthorityKnows, Converging, Published
<1>14. InWork' /\ Published'
  BY <1>1, <1>5, <1>10 DEF Converging, Published, InWork, J
<1>15. task'.step = "commit" => Ending'
  BY <1>1, <1>3, <1>5, <1>7, <1>10, <1>14 DEF Converging, Ending, Carries, Timed, J
<1> QED
  BY <1>9, <1>10, <1>11, <1>12, <1>13, <1>14, <1>15 DEF ConfigdInv, ThreadKnows, Failing

LEMMA BootKeeps == ConfigdInv /\ Boot => ConfigdInv'
<1> SUFFICES ASSUME ConfigdInv, Boot PROVE ConfigdInv'
  OBVIOUS
<1> USE Where
<1>1. disk' = disk /\ hw' = hw /\ told' = told /\ task' = At("journals", "timer")
      /\ authority' = [Down EXCEPT !.up = TRUE, !.active = disk.pointer, !.outOfSync = TRUE]
  BY DEF Boot
<1>2. authority' \in Authorities /\ authority'.up /\ authority'.outOfSync /\ authority'.active = disk.pointer
      /\ ~authority'.uncertain /\ authority'.bound = 0
  <2>1. authority' = [up |-> TRUE, active |-> disk.pointer, outOfSync |-> TRUE, uncertain |-> FALSE,
                      bound |-> 0, failed |-> 0]
    BY <1>1 DEF Down
  <2>2. disk.pointer \in 0..MaxTx
    OBVIOUS
  <2> QED
    BY <2>1, <2>2 DEF Authorities
<1>3. task' \in Tasks /\ task'.step = "journals" /\ task'.for = "timer" /\ task'.generation = 0
  BY <1>1 DEF Tasks, Steps, Purposes
<1>4. ConfigdTypes'
  BY <1>1, <1>2, <1>3 DEF ConfigdTypes
<1>5. DisksHold'
  BY <1>1, StillWhole
<1>6. HardwareIsAccounted'
  BY <1>1 DEF HardwareIsAccounted, Own, J
<1>7. AuthorityKnows'
  BY <1>1, <1>2, <1>3 DEF AuthorityKnows, Hardwares, Disks
<1> QED
  BY <1>2, <1>3, <1>4, <1>5, <1>6, <1>7 DEF ConfigdInv, ThreadKnows, Booting

LEMMA CrashKeeps == ConfigdInv /\ Crash => ConfigdInv'
<1> SUFFICES ASSUME ConfigdInv, Crash PROVE ConfigdInv'
  OBVIOUS
<1> USE Where
<1>1. disk' = disk /\ hw' = hw /\ told' = told /\ task' = Idle /\ authority' = Down
  BY DEF Crash
<1>2. authority' \in Authorities /\ ~authority'.up /\ authority'.bound = 0
  BY <1>1 DEF Authorities, Down
<1>3. task' \in Tasks /\ task'.step = "idle" /\ task'.generation = 0
  BY <1>1 DEF Tasks, Steps, Purposes
<1>4. ConfigdTypes'
  BY <1>1, <1>2, <1>3 DEF ConfigdTypes
<1>5. DisksHold'
  BY <1>1, StillWhole
<1>6. HardwareIsAccounted'
  BY <1>1 DEF HardwareIsAccounted, Own, J
<1>7. AuthorityKnows'
  BY <1>1, <1>2, <1>3 DEF AuthorityKnows, Hardwares
<1> QED
  BY <1>2, <1>3, <1>4, <1>5, <1>6, <1>7 DEF ConfigdInv, ThreadKnows, AtRest

LEMMA Blanked ==
  ASSUME hw \in Hardwares, hw' = Blank
  PROVE  /\ hw' \in Hardwares /\ hw'.content = {} /\ hw'.retained = 0 /\ hw'.before = {}
         /\ hw'.generation = hw.generation + 1
BY DEF Blank, Hardwares

LEMMA RestartSwitchKeeps == ConfigdInv /\ RestartSwitch => ConfigdInv'
<1> SUFFICES ASSUME ConfigdInv, RestartSwitch PROVE ConfigdInv'
  OBVIOUS
<1> USE Where
<1>1. disk' = disk /\ authority' = authority /\ told' = told /\ task' = task /\ hw' = Blank
  BY DEF RestartSwitch
<1>2. /\ hw' \in Hardwares /\ hw'.content = {} /\ hw'.retained = 0 /\ hw'.before = {}
      /\ hw'.generation = hw.generation + 1
  BY <1>1, Blanked
<1>3. ConfigdTypes'
  BY <1>1, <1>2 DEF ConfigdTypes
<1>4. DisksHold'
  BY <1>1, StillWhole
<1>5. HardwareIsAccounted'
  BY <1>1, <1>2 DEF HardwareIsAccounted
<1>6. AuthorityKnows' /\ ~Bound' /\ hw'.generation # task.generation
  BY <1>1, <1>2 DEF AuthorityKnows, Hardwares, Authorities, Tasks
<1>7. /\ (Steady => Steady') /\ (Candidate => Candidate') /\ (InWork => InWork')
      /\ (Unpublished => Unpublished') /\ (Published => Published')
      /\ (Replaying => Replaying') /\ (Booting => Booting') /\ (Timed(Active) => Timed(Active)')
  BY <1>1, <1>2, <1>6
     DEF Steady, Candidate, InWork, Unpublished, Published, Replaying, Booting, Timed, Carries, J
<1>8. /\ (AtRest => AtRest') /\ (Preparing => Preparing') /\ (Verifying => Verifying')
      /\ (Publishing => Publishing') /\ (Marking => Marking') /\ (Failing => Failing')
  BY <1>1, <1>7 DEF AtRest, Preparing, Verifying, Publishing, Marking, Failing, J
<1>9. (Ending => Ending') /\ (Converging => Converging') /\ (Replayed => Replayed')
  BY <1>1, <1>2, <1>6, <1>7 DEF Ending, Converging, Replayed, Carries, Timed, J
<1>10. ThreadKnows'
  BY <1>1, <1>7, <1>8, <1>9 DEF ThreadKnows
<1> QED
  BY <1>3, <1>4, <1>5, <1>6, <1>10 DEF ConfigdInv

LEMMA PowerCutKeeps == ConfigdInv /\ PowerCut => ConfigdInv'
<1> SUFFICES ASSUME ConfigdInv, PowerCut PROVE ConfigdInv'
  OBVIOUS
<1> USE Where
<1>1. told' = told /\ task' = Idle /\ authority' = Down /\ hw' = Blank
  BY DEF PowerCut
<1>2. PICK d \in {disk} \cup disk.earlier :
        disk' = [d EXCEPT !.earlier = {},
                          !.journal = [t \in Txs |-> [d.journal[t] EXCEPT !.expired = d.journal[t].confirmed]]]
  BY DEF PowerCut
<1>3. d \in Disks /\ DiskIsWhole(d) /\ ConfirmedIsAsked(d)
  <2>1. Settled \subseteq Disks
    BY DEF Settled, Disks
  <2> QED
    BY <2>1 DEF DisksHold, Disks
<1> DEFINE j == [t \in Txs |-> [d.journal[t] EXCEPT !.expired = d.journal[t].confirmed]]
<1>4. d.journal \in [Txs -> Journals]
  BY <1>3 DEF Disks
<1>5. \A r \in Journals : LET e == [r EXCEPT !.expired = r.confirmed] IN
        e \in Journals /\ e.state = r.state /\ e.base = r.base /\ e.confirmed = r.confirmed
          /\ e.config = r.config
  BY DEF Journals
<1>6. j \in [Txs -> Journals]
  BY <1>4, <1>5
<1>7. \A t \in Txs : /\ j[t].state = d.journal[t].state /\ j[t].base = d.journal[t].base
                     /\ j[t].confirmed = d.journal[t].confirmed
  BY <1>4, <1>5
<1>8. disk' = [d EXCEPT !.earlier = {}, !.journal = j]
  BY <1>2
<1> HIDE DEF j
<1>9. /\ disk' \in Disks /\ disk'.earlier = {} /\ disk'.journal = j /\ disk'.pointer = d.pointer
      /\ disk'.sequence = d.sequence /\ disk'.record = d.record
  BY <1>3, <1>6, <1>8 DEF Disks
<1>10. authority' \in Authorities /\ ~authority'.up /\ authority'.bound = 0
  BY <1>1 DEF Authorities, Down
<1>11. task' \in Tasks /\ task'.step = "idle" /\ task'.generation = 0
  BY <1>1 DEF Tasks, Steps, Purposes
<1>12. /\ hw' \in Hardwares /\ hw'.content = {} /\ hw'.retained = 0 /\ hw'.before = {}
  BY <1>1, Blanked
<1>13. ConfigdTypes'
  BY <1>1, <1>9, <1>10, <1>11, <1>12 DEF ConfigdTypes
<1>14. DisksHold'
  <2>1. 1 \in Txs /\ d.pointer \in Txs
    BY <1>3 DEF Disks
  <2>2. DiskIsWhole(disk')
    BY <1>3, <1>7, <1>9, <2>1 DEF DiskIsWhole
  <2>3. ConfirmedIsAsked(disk)'
    BY <1>1, <1>3, <1>7, <1>9, <2>1 DEF ConfirmedIsAsked
  <2> QED
    BY <1>9, <2>2, <2>3 DEF DisksHold, ConfirmedIsAsked
<1>15. HardwareIsAccounted'
  BY <1>12 DEF HardwareIsAccounted
<1>16. AuthorityKnows'
  BY <1>1, <1>10, <1>11, <1>12 DEF AuthorityKnows, Hardwares
<1> QED
  BY <1>10, <1>11, <1>13, <1>14, <1>15, <1>16 DEF ConfigdInv, ThreadKnows, AtRest

LEMMA ExpireKeeps == ConfigdInv /\ Expire => ConfigdInv'
<1> SUFFICES ASSUME ConfigdInv, Expire PROVE ConfigdInv'
  OBVIOUS
<1> USE Where
<1>1. PICK tx \in {disk.pointer, disk.record.tx} \ {0} :
        disk' = [disk EXCEPT !.journal[tx].expired = TRUE]
  BY DEF Expire
<1>2. authority' = authority /\ task' = task /\ hw' = hw /\ told' = told
  BY DEF Expire
<1>3. tx \in Txs /\ disk.journal \in [Txs -> Journals]
  BY <1>1 DEF Disks, Records
<1> DEFINE j == [disk.journal EXCEPT ![tx] = [@ EXCEPT !.expired = TRUE]]
<1>4. \A r \in Journals : LET e == [r EXCEPT !.expired = TRUE] IN
        e \in Journals /\ e.state = r.state /\ e.base = r.base /\ e.confirmed = r.confirmed
          /\ e.config = r.config
  BY DEF Journals
<1>5. j \in [Txs -> Journals]
  BY <1>3, <1>4
<1>6. \A t \in Txs : /\ j[t].state = disk.journal[t].state /\ j[t].base = disk.journal[t].base
                     /\ j[t].confirmed = disk.journal[t].confirmed /\ j[t].config = disk.journal[t].config
  BY <1>3, <1>4
<1>7. disk' = [disk EXCEPT !.journal = j]
  BY <1>1, <1>3 DEF Disks
<1> HIDE DEF j
<1>8. /\ disk' \in Disks /\ disk'.earlier = disk.earlier /\ disk'.journal = j /\ disk'.pointer = disk.pointer
      /\ disk'.sequence = disk.sequence /\ disk'.record = disk.record
  BY <1>5, <1>7 DEF Disks
<1>9. Keeps
  BY <1>6, <1>8 DEF Keeps
<1>10. ConfigdTypes'
  BY <1>2, <1>8 DEF ConfigdTypes
<1>11. DisksHold'
  <2>1. disk'.journal[1].state = "committed" /\ disk'.journal[disk.pointer].state \in InPlaceOfPublished
    BY <1>6, <1>8 DEF DisksHold, DiskIsWhole
  <2> QED
    BY <1>2, <1>8, <1>9, <2>1, KeepsWhole
<1>12. HardwareIsAccounted'
  <2>1. disk'.journal[disk.pointer].state = "committed" => J(disk.pointer).state = "committed"
    BY <1>6, <1>8 DEF J
  <2> QED
    BY <1>2, <1>9, <2>1, KeepsAccounted
<1>13. AuthorityKnows'
  BY <1>2, <1>8 DEF AuthorityKnows
<1>14. \A t \in Txs : /\ J(t)'.state = J(t).state /\ J(t)'.base = J(t).base
                      /\ J(t)'.confirmed = J(t).confirmed /\ J(t)'.config = J(t).config
  BY <1>6, <1>8 DEF J
<1>15. InWork => task.tx \in Txs /\ J(task.tx).base \in Txs
  BY DEF InWork, DisksHold, DiskIsWhole, J
<1>16. CASE ~authority.up
  BY <1>2, <1>10, <1>11, <1>12, <1>13, <1>16 DEF ConfigdInv, ThreadKnows, AtRest, AuthorityKnows
<1>17. CASE authority.up
  <2>1. (Carries(Active) => Carries(Active)') /\ (Timed(Active) => Timed(Active)')
    BY <1>2, <1>8, <1>14, <1>17 DEF Carries, Timed
  <2>2. Steady => Steady'
    BY <1>2, <1>14, <1>17, <2>1 DEF Steady
  <2>3. (InWork => InWork') /\ (Booting => Booting')
    BY <1>2, <1>8, <1>14, <1>15 DEF InWork, Booting
  <2>4. InWork /\ Candidate => Candidate'
    BY <1>2, <1>14, <1>15 DEF Candidate
  <2>5. (Unpublished => Unpublished') /\ (Published => Published')
    BY <1>2, <1>8, <1>14, <1>15, <1>17, <2>1, <2>3 DEF Unpublished, Published
  <2>6. (AtRest => AtRest') /\ (Failing => Failing')
    BY <1>2, <2>2, <2>3, <2>5 DEF AtRest, Failing
  <2>7. (Preparing => Preparing') /\ (Verifying => Verifying')
    BY <1>2, <1>8, <1>14, <1>15, <2>2, <2>4, <2>5 DEF Preparing, Verifying, Unpublished
  <2>8. (Publishing => Publishing') /\ (Marking => Marking')
    BY <1>2, <1>8, <1>14, <1>15, <2>1, <2>2, <2>4, <2>5 DEF Publishing, Marking, Unpublished, Published
  <2>9. (Ending => Ending') /\ (Converging => Converging')
    BY <1>2, <1>14, <1>15, <1>17, <2>1, <2>5 DEF Ending, Converging, Published
  <2>10. (Replaying => Replaying') /\ (Replayed => Replayed')
    BY <1>2, <1>14, <1>17, <2>1 DEF Replaying, Replayed
  <2>11. ThreadKnows'
    BY <1>2, <2>1, <2>3, <2>6, <2>7, <2>8, <2>9, <2>10 DEF ThreadKnows
  <2> QED
    BY <1>10, <1>11, <1>12, <1>13, <2>11 DEF ConfigdInv
<1> QED
  BY <1>16, <1>17

LEMMA RecoverJournalsKeeps == ConfigdInv /\ RecoverJournals => ConfigdInv'
<1> SUFFICES ASSUME ConfigdInv, RecoverJournals PROVE ConfigdInv'
  OBVIOUS
<1> USE Where
<1> DEFINE stale == {t \in Txs : Recovered(J(t).state) # J(t).state}
           j(S) == [t \in Txs |-> IF t \in S THEN [J(t) EXCEPT !.state = Recovered(@)] ELSE J(t)]
<1>1. task.step = "journals" /\ Booting /\ authority.up
  BY DEF RecoverJournals, ThreadKnows
<1>2. authority' = authority /\ hw' = hw /\ told' = told /\ (task' = task \/ Go("intent"))
  BY DEF RecoverJournals
<1>a. \A r \in Journals :
        LET e == [r EXCEPT !.state = Recovered(@)] IN
        /\ e \in Journals /\ e.base = r.base /\ e.confirmed = r.confirmed /\ e.config = r.config
        /\ e.state = Recovered(r.state) /\ (e.state = "absent" <=> r.state = "absent")
        /\ (e.state = "committed" <=> r.state = "committed")
        /\ (r.state \in InPlaceOfPublished => e.state \in InPlaceOfPublished)
  BY DEF Journals, States, Recovered, InPlaceOfPublished
<1>b. disk.journal \in [Txs -> Journals]
  BY DEF Disks
<1>3. PICK S \in SUBSET Txs :
        disk' \in {disk, [disk EXCEPT !.journal = j(S)], [[disk EXCEPT !.journal = j(S)] EXCEPT !.earlier = {}]}
  <2>1. CASE disk' = disk
    BY <2>1
  <2>2. CASE \E t \in stale : Written([disk EXCEPT !.journal = j({t})])
    BY <2>2 DEF Written
  <2>3. CASE \E S \in SUBSET stale :
               disk' \in {[disk EXCEPT !.journal = j(S)],
                          [[disk EXCEPT !.journal = j(S)] EXCEPT !.earlier = IF S = {} THEN @ ELSE {}]}
    <3>1. PICK S \in SUBSET stale :
               disk' \in {[disk EXCEPT !.journal = j(S)],
                          [[disk EXCEPT !.journal = j(S)] EXCEPT !.earlier = IF S = {} THEN @ ELSE {}]}
      BY <2>3
    <3>2. j(S) \in [Txs -> Journals]
      BY <1>a, <1>b DEF J
    <3>3. [disk EXCEPT !.journal = j(S)] \in Disks
      BY <3>2 DEF Disks
    <3>4. \A d \in Disks : [d EXCEPT !.earlier = IF S = {} THEN @ ELSE {}] \in {d, [d EXCEPT !.earlier = {}]}
      BY DEF Disks
    <3> HIDE DEF j, stale
    <3>5. S \in SUBSET Txs
      BY <3>1 DEF stale
    <3> QED
      BY <3>1, <3>3, <3>4, <3>5
  <2> QED
    BY <2>1, <2>2, <2>3 DEF RecoverJournals
<1>6. j(S) \in [Txs -> Journals]
  BY <1>a, <1>b DEF J
<1>7. \A t \in Txs : /\ j(S)[t].base = disk.journal[t].base /\ j(S)[t].confirmed = disk.journal[t].confirmed
                     /\ j(S)[t].config = disk.journal[t].config
                     /\ j(S)[t].state = "absent" <=> disk.journal[t].state = "absent"
                     /\ j(S)[t].state = "committed" <=> disk.journal[t].state = "committed"
                     /\ disk.journal[t].state \in InPlaceOfPublished => j(S)[t].state \in InPlaceOfPublished
  BY <1>a, <1>b DEF J
<1>8. [disk EXCEPT !.journal = j(S)] \in Disks
  BY <1>6 DEF Disks
<1>9. disk' \in Disks /\ disk'.earlier \in {disk.earlier, {}} /\ disk'.pointer = disk.pointer
      /\ disk'.sequence = disk.sequence /\ disk'.record = disk.record
      /\ disk'.journal \in {disk.journal, j(S)}
  <2> DEFINE d == [disk EXCEPT !.journal = j(S)]
  <2>1. d.earlier = disk.earlier /\ d.pointer = disk.pointer /\ d.sequence = disk.sequence
        /\ d.record = disk.record /\ d.journal = j(S)
    BY <1>6 DEF Disks
  <2> HIDE DEF d, j
  <2>2. d \in Disks /\ disk' \in {disk, d, [d EXCEPT !.earlier = {}]}
    BY <1>3, <1>8 DEF d
  <2> QED
    BY <2>1, <2>2, Synced
<1> HIDE DEF j, stale
<1>10. Keeps
  BY <1>7, <1>9 DEF Keeps
<1>11. task' \in Tasks /\ task'.for = task.for /\ task'.generation = task.generation
       /\ task'.step \in {"journals", "intent"}
  BY <1>1, <1>2 DEF Go, Tasks, Steps
<1>12. ConfigdTypes'
  BY <1>2, <1>9, <1>11 DEF ConfigdTypes
<1>13. DiskIsWhole(disk) /\ 1 \in Txs
  BY DEF DisksHold
<1>14. DisksHold'
  <2>1. disk'.journal[1].state = "committed" /\ disk'.journal[disk.pointer].state \in InPlaceOfPublished
    BY <1>7, <1>9, <1>13 DEF DiskIsWhole
  <2> QED
    BY <1>2, <1>9, <1>10, <2>1, KeepsWhole
<1>15. HardwareIsAccounted'
  <2>1. disk'.journal[disk.pointer].state = "committed" => J(disk.pointer).state = "committed"
    BY <1>7, <1>9 DEF J
  <2> QED
    BY <1>2, <1>10, <2>1, KeepsAccounted
<1>16. AuthorityKnows'
  BY <1>1, <1>2, <1>9, <1>11 DEF AuthorityKnows
<1>17. Booting' /\ task'.for = "timer"
  BY <1>1, <1>2, <1>11 DEF Booting
<1> QED
  BY <1>11, <1>12, <1>14, <1>15, <1>16, <1>17 DEF ConfigdInv, ThreadKnows

LEMMA Resolves ==
  ASSUME ConfigdInv, NEW for \in {"tick", "recover"}, task' = Resolving(for)
  PROVE  task' \in Tasks /\ task'.step = "resolve" /\ task'.for = for /\ task'.generation = hw.generation
<1>1. task' = [step |-> "resolve", tx |-> 0, for |-> for, forced |-> FALSE, generation |-> hw.generation]
  BY DEF Resolving
<1>2. hw.generation \in Nat /\ MaxTx \in Nat
  BY Where DEF Hardwares
<1> QED
  BY <1>1, <1>2 DEF Tasks, Steps, Purposes

LEMMA ReplayTickKeeps == ConfigdInv /\ ReplayTick => ConfigdInv'
<1> SUFFICES ASSUME ConfigdInv, ReplayTick PROVE ConfigdInv'
  OBVIOUS
<1> USE Where
<1>1. disk' = disk /\ hw' = hw /\ told' = told /\ task' = Resolving("tick") /\ authority.up
      /\ authority' = [authority EXCEPT !.outOfSync = TRUE]
  BY DEF ReplayTick, OutOfSync
<1>2. authority' \in Authorities /\ authority'.outOfSync /\ authority'.up /\ authority'.active = Active
      /\ authority'.uncertain = authority.uncertain /\ authority'.bound = authority.bound
  BY <1>1 DEF Authorities
<1>3. task' \in Tasks /\ task'.step = "resolve" /\ task'.for = "tick" /\ task'.generation = hw.generation
  BY <1>1, Resolves
<1>4. ConfigdTypes'
  BY <1>1, <1>2, <1>3 DEF ConfigdTypes
<1>5. DisksHold'
  BY <1>1, StillWhole
<1>6. HardwareIsAccounted'
  BY <1>1 DEF HardwareIsAccounted, Own, J
<1>7. AuthorityKnows'
  BY <1>1, <1>2, <1>3 DEF AuthorityKnows, Hardwares
<1> QED
  BY <1>3, <1>4, <1>5, <1>6, <1>7 DEF ConfigdInv, ThreadKnows

LEMMA RecoverKeeps == ConfigdInv /\ Recover => ConfigdInv'
<1> SUFFICES ASSUME ConfigdInv, Recover PROVE ConfigdInv'
  OBVIOUS
<1> USE Where
<1>1. disk' = disk /\ hw' = hw /\ told' = told /\ task' = Resolving("recover") /\ authority.up
      /\ authority' = authority /\ task.step = "idle"
  BY DEF Recover
<1>2. task' \in Tasks /\ task'.step = "resolve" /\ task'.for = "recover" /\ task'.generation = hw.generation
  BY <1>1, Resolves
<1>3. ConfigdTypes'
  BY <1>1, <1>2 DEF ConfigdTypes
<1>4. DisksHold'
  BY <1>1, StillWhole
<1>5. HardwareIsAccounted'
  BY <1>1 DEF HardwareIsAccounted, Own, J
<1>6. AuthorityKnows'
  BY <1>1, <1>2 DEF AuthorityKnows, Hardwares
<1> QED
  BY <1>2, <1>3, <1>4, <1>5, <1>6 DEF ConfigdInv, ThreadKnows

\* A replay that gives up leaves configd out of sync, and at rest.
LEMMA RefuseKeeps ==
  ASSUME ConfigdInv, authority.up, Refuse, told' = told,
         hw' \in Hardwares, hw'.generation = hw.generation, HardwareIsAccounted',
         disk' \in Disks, disk'.pointer = disk.pointer, DisksHold'
  PROVE  ConfigdInv'
<1> USE Where
<1>1. authority' \in Authorities /\ authority'.outOfSync /\ authority'.up /\ authority'.active = Active
      /\ authority'.uncertain = authority.uncertain /\ authority'.bound = authority.bound
  <2>1. \A n \in Nat : LET a == [authority EXCEPT !.outOfSync = TRUE, !.failed = n] IN
          a \in Authorities /\ a.outOfSync /\ a.up = authority.up /\ a.active = Active
            /\ a.uncertain = authority.uncertain /\ a.bound = authority.bound
    BY DEF Authorities
  <2>2. task.generation \in Nat /\ authority.failed \in Nat
    BY DEF Tasks, Authorities
  <2>3. authority' = [authority EXCEPT !.outOfSync = TRUE,
                                       !.failed = IF task.for = "tick" THEN task.generation ELSE @]
    BY DEF Refuse
  <2> DEFINE n == IF task.for = "tick" THEN task.generation ELSE authority.failed
  <2>4. authority' = [authority EXCEPT !.outOfSync = TRUE, !.failed = n] /\ n \in Nat
    BY <2>2, <2>3 DEF Authorities
  <2> HIDE DEF n
  <2> QED
    BY <2>1, <2>4
<1>2. task' = Idle /\ task' \in Tasks /\ task'.step = "idle" /\ task'.generation <= hw.generation
  <2>1. task' = Idle
    BY DEF Refuse
  <2> HIDE DEF Idle
  <2> QED
    BY <2>1, RestTasks
<1>3. ConfigdTypes'
  BY <1>1, <1>2 DEF ConfigdTypes
<1>4. AuthorityKnows'
  BY <1>1, <1>2 DEF AuthorityKnows
<1> QED
  BY <1>1, <1>2, <1>3, <1>4 DEF ConfigdInv, ThreadKnows, AtRest

\* What prepare_unresolved_for_active_replay leaves to take back.
LEMMA SpeculativeIs ==
  ASSUME ConfigdInv, authority.up, ~Blocked, NEW t \in Speculative
  PROVE  /\ ~authority.uncertain /\ Active = disk.pointer /\ t \in Txs /\ disk.pointer < t
         /\ J(t).state = "unsynced" /\ hw.retained \in {0, t}
         /\ TakenBack(t).content \in SUBSET Objects /\ TakenBack(t).content \subseteq Own
         /\ hw' = TakenBack(t) =>
              /\ hw' \in Hardwares /\ hw'.generation = hw.generation
              /\ hw'.content \subseteq Own /\ hw'.retained = 0
<1> USE Where
<1>1. ~authority.uncertain /\ Active = disk.pointer /\ t \in Txs /\ disk.pointer < t
      /\ J(t).state = "unsynced" /\ hw.retained \in {0, t}
  BY DEF Blocked, Speculative, Unresolved, AuthorityKnows
<1>2. \A c : Released(c).content = c
  BY DEF Released, Hardwares
<1>3. hw.content \in SUBSET Objects /\ hw.before \in SUBSET Objects /\ J(Active).config \in SUBSET Objects
  BY DEF Hardwares, J, Disks, Journals
<1>4. PICK c \in SUBSET Objects : TakenBack(t) = Released(c) /\ c \subseteq Own
  <2>1. CASE hw.retained = t
    BY <1>1, <1>3, <2>1 DEF TakenBack, HardwareIsAccounted
  <2>2. CASE hw.retained = 0
    <3> DEFINE c == Difference(hw.content, J(t).config, J(Active).config)
    <3>1. c \subseteq hw.content \cup J(Active).config
      BY PlanDifference
    <3>2. hw.content \subseteq Own /\ J(Active).config \subseteq Own
      BY <1>1, <2>2, OwnIsOwn DEF HardwareIsAccounted
    <3>3. TakenBack(t) = Released(c)
      BY <1>1, <2>2 DEF TakenBack
    <3> HIDE DEF c
    <3> QED
      BY <1>3, <3>1, <3>2, <3>3
  <2> QED
    BY <1>1, <2>1, <2>2
<1>5. hw' = TakenBack(t) =>
        /\ hw' \in Hardwares /\ hw'.content = c /\ hw'.retained = 0 /\ hw'.generation = hw.generation
  BY <1>4, Release
<1> QED
  BY <1>1, <1>2, <1>4, <1>5

LEMMA ResolveKeeps == ConfigdInv /\ Resolve => ConfigdInv'
<1> SUFFICES ASSUME ConfigdInv, Resolve PROVE ConfigdInv'
  OBVIOUS
<1> USE Where
<1>1. task.step = "resolve" /\ authority.up /\ task.for # "timer" /\ told' = told
  BY DEF Resolve, ThreadKnows
<1>2. CASE Refuse /\ disk' = disk /\ hw' = hw
  <2>1. DisksHold'
    BY <1>1, <1>2, StillWhole
  <2>2. HardwareIsAccounted'
    BY <1>2 DEF HardwareIsAccounted, Own, J
  <2> QED
    BY <1>1, <1>2, <2>1, <2>2, RefuseKeeps
<1>3. ASSUME NEW t \in Speculative, ~Blocked, NEW s \in {"failed", "reconciled"},
             \/ /\ hw' = TakenBack(t) /\ Written(WithState(disk, t, s))
                /\ authority' = authority /\ task' = task
             \/ /\ hw' \in {TakenBack(t)} \cup InDoubt(t, TakenBack(t).content)
                /\ disk' \in {disk, IF hw' = TakenBack(t) THEN WithState(disk, t, s) ELSE disk} /\ Refuse
      PROVE  ConfigdInv'
  <2>1. /\ ~authority.uncertain /\ Active = disk.pointer /\ t \in Txs /\ disk.pointer < t
        /\ J(t).state = "unsynced" /\ hw.retained \in {0, t}
        /\ TakenBack(t).content \in SUBSET Objects /\ TakenBack(t).content \subseteq Own
        /\ hw' = TakenBack(t) =>
             /\ hw' \in Hardwares /\ hw'.generation = hw.generation
             /\ hw'.content \subseteq Own /\ hw'.retained = 0
    BY <1>1, <1>3, SpeculativeIs
  <2>2. CASE hw' = TakenBack(t)
    <3>1. disk' = disk \/ Written(WithState(disk, t, s)) \/ disk' = WithState(disk, t, s)
      BY <1>3, <2>2
    <3>2. s \in States \ {"absent"}
      BY DEF States
    <3>3. disk' = disk \/ Moves(t, s)
      BY <2>1, <3>1, <3>2, StateWritten
    <3>5. DisksHold'
      <4>1. disk'.record = disk.record /\ Keeps /\ disk'.journal[1].state = "committed"
            /\ disk'.journal[disk.pointer].state = disk.journal[disk.pointer].state
        <5>1. CASE disk' = disk
          BY <5>1 DEF Keeps, DisksHold, DiskIsWhole
        <5>2. CASE Moves(t, s)
          BY <2>1, <3>2, <5>2, MovesKeeps DEF Moves, DisksHold, DiskIsWhole
        <5> QED
          BY <3>3, <5>1, <5>2
      <4>2. disk'.journal[disk.pointer].state \in InPlaceOfPublished
        BY <4>1 DEF DisksHold, DiskIsWhole
      <4> QED
        BY <1>1, <4>1, <4>2, KeepsWhole
    <3>6. Own' = Own
      <4>1. CASE disk' = disk
        BY <4>1 DEF Own, J
      <4>2. CASE Moves(t, s)
        <5>1. J(disk.pointer).state # "committed" => J(disk.pointer).base \in Txs
          BY OwnIsOwn
        <5> QED
          BY <2>1, <4>2, <5>1 DEF Own, J, Moves
      <4> QED
        BY <3>3, <4>1, <4>2
    <3>7. HardwareIsAccounted'
      BY <2>1, <2>2, <3>6 DEF HardwareIsAccounted
    <3>8. disk' \in Disks /\ disk'.pointer = disk.pointer
      BY <3>3 DEF Moves
    <3>9. CASE Refuse
      BY <1>1, <2>1, <2>2, <3>5, <3>7, <3>8, <3>9, RefuseKeeps
    <3>10. CASE authority' = authority /\ task' = task
      <4>1. ConfigdTypes'
        BY <1>1, <2>1, <2>2, <3>8, <3>10 DEF ConfigdTypes
      <4>2. AuthorityKnows'
        BY <1>1, <2>1, <2>2, <3>8, <3>10 DEF AuthorityKnows
      <4> QED
        BY <1>1, <3>5, <3>7, <3>10, <4>1, <4>2 DEF ConfigdInv, ThreadKnows
    <3> QED
      BY <1>3, <3>9, <3>10
  <2>3. CASE hw' # TakenBack(t)
    <3>1. hw' \in InDoubt(t, TakenBack(t).content) /\ disk' = disk /\ Refuse
      BY <1>3, <2>3
    <3>2. hw' \in Hardwares /\ HardwareIsAccounted' /\ hw'.generation = hw.generation
      BY <2>1, <3>1, Doubtful
    <3>3. DisksHold'
      BY <1>1, <3>1, StillWhole
    <3> QED
      BY <1>1, <3>1, <3>2, <3>3, RefuseKeeps
  <2> QED
    BY <2>2, <2>3
<1>4. CASE /\ ~Blocked /\ Speculative = {} /\ Go("replay") /\ UNCHANGED <<disk, authority>>
           /\ hw' = IF Active \in Unresolved /\ Owned(Active) THEN Released(hw.content) ELSE hw
  <2>1. ~authority.uncertain /\ Active = disk.pointer /\ Active \in Txs
    BY <1>1, <1>4 DEF Blocked, AuthorityKnows
  <2>2. J(Active).state \in {"committed", "unsynced"}
    <3>1. J(Active).state \in InPlaceOfPublished
      BY <2>1 DEF DisksHold, DiskIsWhole, J
    <3> QED
      BY <1>4, <2>1, <3>1 DEF Blocked, Unresolved, Terminal, InPlaceOfPublished
  <2>3. hw' \in Hardwares /\ hw'.generation = hw.generation /\ HardwareIsAccounted'
    <3>1. CASE hw' = hw
      BY <1>4, <3>1 DEF HardwareIsAccounted, Own, J
    <3>2. CASE hw' = Released(hw.content) /\ Owned(Active)
      <4>1. hw.content \in SUBSET Objects
        BY DEF Hardwares
      <4>2. /\ hw' \in Hardwares /\ hw'.content = hw.content /\ hw'.retained = 0
            /\ hw'.generation = hw.generation
        BY <3>2, <4>1, Release
      <4>3. hw.content \subseteq Own
        BY <2>1, <3>2, OwnIsOwn DEF HardwareIsAccounted, Owned
      <4>4. Own' = Own
        BY <1>4 DEF Own, J
      <4> QED
        BY <4>2, <4>3, <4>4 DEF HardwareIsAccounted
    <3> QED
      BY <1>4, <3>1, <3>2
  <2>4. task' \in Tasks /\ task'.step = "replay" /\ task'.for = task.for /\ task'.generation = task.generation
    BY <1>4 DEF Go, Tasks, Steps
  <2>5. ConfigdTypes'
    BY <1>1, <1>4, <2>3, <2>4 DEF ConfigdTypes
  <2>6. DisksHold'
    BY <1>1, <1>4, StillWhole
  <2>7. AuthorityKnows'
    BY <1>1, <1>4, <2>1, <2>3, <2>4 DEF AuthorityKnows
  <2>8. Replaying'
    BY <1>1, <1>4, <2>1, <2>2, <2>4 DEF Replaying, J
  <2> QED
    BY <2>3, <2>4, <2>5, <2>6, <2>7, <2>8 DEF ConfigdInv, ThreadKnows
<1>5. ASSUME NEW t \in Speculative, ~Blocked,
             LET after == WithState(disk, t, IF hw.retained = t THEN "failed" ELSE "reconciled") IN
             \/ hw' = TakenBack(t) /\ Written(after) /\ UNCHANGED <<authority, task>>
             \/ /\ hw' \in {TakenBack(t)} \cup InDoubt(t, TakenBack(t).content)
                /\ disk' \in {disk, IF hw' = TakenBack(t) THEN after ELSE disk} /\ Trouble /\ Refuse
      PROVE  ConfigdInv'
  <2>1. PICK s \in {"failed", "reconciled"} : s = IF hw.retained = t THEN "failed" ELSE "reconciled"
    OBVIOUS
  <2> QED
    BY <1>3, <1>5, <2>1
<1> QED
  BY <1>2, <1>4, <1>5 DEF Resolve

\* What a replay writes is the active configuration, whatever was there.
LEMMA ReplayIs ==
  ASSUME ConfigdInv, authority.up, Replaying
  PROVE  /\ Active = disk.pointer /\ Active \in Txs /\ J(Active).state # "absent"
         /\ J(Active).config \in SUBSET Objects /\ J(Active).config \subseteq Own
         /\ Free => Full(hw.content, Source, J(Active).config) = J(Active).config
<1> USE Where
<1>1. Active = disk.pointer /\ Active \in Txs /\ J(Active).state \in {"committed", "unsynced"}
  BY DEF Replaying, AuthorityKnows
<1>2. J(Active).config \in SUBSET Objects
  BY <1>1 DEF J, Disks, Journals
<1>3. J(Active).state = "unsynced" => J(Active).base \in Txs /\ J(Active).base < Active
                                      /\ Own = J(Active).config \cup J(J(Active).base).config
  BY <1>1, OwnIsOwn
<1>4. J(Active).state = "committed" => Own = J(Active).config
  BY <1>1, OwnIsOwn
<1>5. Free => hw.content \subseteq Own
  BY DEF HardwareIsAccounted
<1>6. Free => hw.content \subseteq Source \cup J(Active).config
  <2>1. CASE J(Active).state = "unsynced"
    BY <1>1, <1>3, <1>5, <2>1 DEF Source
  <2>2. CASE J(Active).state = "committed"
    BY <1>1, <1>4, <1>5, <2>2 DEF Source
  <2> QED
    BY <1>1, <2>1, <2>2
<1>7. Free => Full(hw.content, Source, J(Active).config) = J(Active).config
  BY <1>6, PlanFull
<1> QED
  BY <1>1, <1>2, <1>7, OwnIsOwn

LEMMA ReplayKeeps == ConfigdInv /\ Replay => ConfigdInv'
<1> SUFFICES ASSUME ConfigdInv, Replay PROVE ConfigdInv'
  OBVIOUS
<1> USE Where
<1> DEFINE target == Full(hw.content, Source, J(Active).config)
<1>1. task.step = "replay" /\ authority.up /\ Replaying /\ told' = told /\ disk' = disk
  BY DEF Replay, ThreadKnows
<1>2. /\ Active = disk.pointer /\ Active \in Txs /\ J(Active).state # "absent"
      /\ J(Active).config \in SUBSET Objects /\ J(Active).config \subseteq Own
      /\ Free => target = J(Active).config
  BY <1>1, ReplayIs
<1>3. \/ Free /\ hw' = Released(target) /\ Go("intent") /\ authority' = authority
      \/ hw' = hw /\ Refuse
      \/ hw' \in InDoubt(Active, target) \cup {Released(target)} /\ Free /\ Refuse
  BY DEF Replay
<1> HIDE DEF target
<1>4. Own' = Own
  BY <1>1 DEF Own, J
<1>5. Free /\ hw' = Released(target) =>
        /\ hw' \in Hardwares /\ hw'.content = J(Active).config /\ hw'.retained = 0
        /\ hw'.generation = hw.generation
  BY <1>2, Release
<1>6. hw' \in Hardwares /\ hw'.generation = hw.generation /\ HardwareIsAccounted'
  <2>1. CASE Free /\ hw' = Released(target)
    BY <1>2, <1>4, <1>5, <2>1 DEF HardwareIsAccounted
  <2>2. CASE hw' = hw
    BY <1>1, <1>4, <2>2 DEF HardwareIsAccounted, J
  <2>3. CASE Free /\ hw' \in InDoubt(Active, target)
    <3>1. target \in SUBSET Objects /\ target \subseteq Own \cup J(Active).config /\ disk.pointer <= Active
      BY <1>2, <2>3
    <3> QED
      BY <1>1, <1>2, <2>3, <3>1, Doubtful
  <2> QED
    BY <1>3, <2>1, <2>2, <2>3
<1>7. DisksHold'
  BY <1>1, StillWhole
<1>8. CASE Refuse
  BY <1>1, <1>6, <1>7, <1>8, RefuseKeeps
<1>9. CASE Free /\ hw' = Released(target) /\ Go("intent") /\ authority' = authority
  <2>1. task' \in Tasks /\ task'.step = "intent" /\ task'.for = task.for /\ task'.generation = task.generation
    BY <1>9 DEF Go, Tasks, Steps
  <2>2. ConfigdTypes'
    BY <1>1, <1>6, <1>9, <2>1 DEF ConfigdTypes
  <2>3. AuthorityKnows'
    BY <1>1, <1>2, <1>6, <1>9, <2>1 DEF AuthorityKnows
  <2>4. Replayed' /\ task'.for # "timer"
    BY <1>1, <1>2, <1>5, <1>9, <2>1 DEF Replayed, Replaying, Carries, J
  <2> QED
    BY <1>6, <1>7, <2>1, <2>2, <2>3, <2>4 DEF ConfigdInv, ThreadKnows
<1> QED
  BY <1>3, <1>8, <1>9

LEMMA RecoverIntentKeeps == ConfigdInv /\ RecoverIntent => ConfigdInv'
<1> SUFFICES ASSUME ConfigdInv, RecoverIntent PROVE ConfigdInv'
  OBVIOUS
<1> USE Where
<1> DEFINE after == WithRecord(disk, Active, "awaiting")
           booting == task.for = "timer"
<1>1. task.step = "intent" /\ authority.up /\ hw' = hw /\ told' = told
  BY DEF RecoverIntent
<1>2. IF booting THEN Booting ELSE Replayed
  BY <1>1 DEF ThreadKnows
<1>3. \/ /\ Intent = "fine" /\ disk' = disk /\ authority' = authority
         /\ Go(IF booting THEN "check" ELSE "finish")
      \/ /\ Intent = "lost" /\ Written(after) /\ authority' = authority
         /\ Go(IF booting THEN "check" ELSE "finish")
      \/ /\ NotWritten(after) \/ disk' = disk
         /\ IF booting THEN Go("check") /\ OutOfSync ELSE Refuse
  BY DEF RecoverIntent
<1>4. Active \in 0..MaxTx /\ Active <= disk.pointer /\ Active \in Txs
  BY <1>1 DEF AuthorityKnows
<1>5. disk' = disk \/ Notes(Active, "awaiting")
  BY <1>3, <1>4, RecordWritten
<1>6. Intent = "lost" /\ Written(after) => Notes(Active, "awaiting")
  BY <1>4, RecordWritten
<1> HIDE DEF after
<1>7. /\ disk' \in Disks /\ disk'.pointer = disk.pointer /\ disk'.journal = disk.journal
      /\ disk'.sequence = disk.sequence
  BY <1>5 DEF Notes
<1>8. DisksHold'
  <2>1. CASE disk' = disk
    BY <1>1, <2>1, StillWhole
  <2>2. CASE Notes(Active, "awaiting")
    BY <1>1, <1>4, <2>2, NotesWhole
  <2> QED
    BY <1>5, <2>1, <2>2
<1>9. HardwareIsAccounted'
  BY <1>1, <1>7 DEF HardwareIsAccounted, Own, J
<1>10. CASE Refuse
  BY <1>1, <1>7, <1>8, <1>9, <1>10, RefuseKeeps
<1>11. CASE booting /\ Go("check") /\ (authority' = authority \/ OutOfSync)
  <2>1. /\ authority' \in Authorities /\ authority'.up /\ authority'.active = Active /\ authority'.outOfSync
        /\ authority'.uncertain = authority.uncertain /\ authority'.bound = authority.bound
    BY <1>1, <1>2, <1>11 DEF OutOfSync, Authorities, Booting
  <2>2. task' \in Tasks /\ task'.step = "check" /\ task'.for = "timer" /\ task'.generation = task.generation
    BY <1>11 DEF Go, Tasks, Steps
  <2>3. ConfigdTypes'
    BY <1>1, <1>7, <2>1, <2>2 DEF ConfigdTypes
  <2>4. AuthorityKnows'
    BY <1>1, <1>7, <2>1, <2>2 DEF AuthorityKnows
  <2> QED
    BY <1>8, <1>9, <2>1, <2>2, <2>3, <2>4 DEF ConfigdInv, ThreadKnows, AtRest
<1>12. CASE ~booting /\ Go("finish") /\ authority' = authority /\ (Intent = "fine" \/ Notes(Active, "awaiting"))
  <2>1. task' \in Tasks /\ task'.step = "finish" /\ task'.for = task.for /\ task'.generation = task.generation
    BY <1>12 DEF Go, Tasks, Steps
  <2>2. ConfigdTypes'
    BY <1>1, <1>7, <1>12, <2>1 DEF ConfigdTypes
  <2>3. AuthorityKnows'
    BY <1>1, <1>2, <1>7, <1>12, <2>1 DEF AuthorityKnows, Replayed, Replaying
  <2>4. Replayed'
    BY <1>1, <1>2, <1>7, <1>12, <2>1 DEF Replayed, Replaying, Carries, J
  <2>5. Timed(Active)'
    <3>1. CASE Notes(Active, "awaiting")
      BY <1>12, <3>1 DEF Notes, Timed
    <3>2. CASE Intent = "fine" /\ disk' = disk
      <4>1. J(Active).confirmed => disk.record.tx = Active
        BY <3>2 DEF Intent
      <4> QED
        BY <1>12, <3>2, <4>1 DEF Timed, J
    <3> QED
      BY <1>5, <1>12, <3>1, <3>2
  <2> QED
    BY <1>8, <1>9, <2>1, <2>2, <2>3, <2>4, <2>5 DEF ConfigdInv, ThreadKnows
<1> QED
  BY <1>3, <1>6, <1>10, <1>11, <1>12

LEMMA FinishKeeps == ConfigdInv /\ Finish => ConfigdInv'
<1> SUFFICES ASSUME ConfigdInv, Finish PROVE ConfigdInv'
  OBVIOUS
<1> USE Where
<1> DEFINE after == IF Active \in Unresolved THEN WithState(disk, Active, "committed") ELSE disk
<1>1. task.step = "finish" /\ authority.up /\ hw' = hw /\ told' = told /\ Replayed /\ Timed(Active)
  BY DEF Finish, ThreadKnows
<1>2. Active = disk.pointer /\ Active \in Txs /\ J(Active).state \in {"committed", "unsynced"}
      /\ ~authority.uncertain /\ Carries(Active)
  BY <1>1 DEF Replayed, Replaying, AuthorityKnows
<1>3. "committed" \in States \ {"absent"}
  BY DEF States
<1>4. Active \notin Unresolved => J(Active).state = "committed"
  BY <1>2 DEF Unresolved, Terminal
<1>5. \/ /\ hw.generation = task.generation
         /\ authority' = [authority EXCEPT !.outOfSync = FALSE, !.bound = task.generation, !.failed = 0]
         /\ task' = IF task.for = "recover" THEN At("check", "recover") ELSE Idle
         /\ IF after = disk THEN disk' = disk ELSE Written(after)
      \/ /\ Refuse
         /\ NotWritten(after) \/ disk' = [after EXCEPT !.earlier = IF after = disk THEN @ ELSE {}]
  BY DEF Finish
<1>6. after \in Disks
  BY <1>2, <1>3, JournalWith
<1>7. disk' \in {disk, after, [after EXCEPT !.earlier = {}]}
  <2>1. [after EXCEPT !.earlier = IF after = disk THEN @ ELSE {}] \in {after, [after EXCEPT !.earlier = {}]}
    BY <1>6 DEF Disks
  <2> HIDE DEF after
  <2> QED
    BY <1>5, <2>1 DEF Written, NotWritten
<1>8. disk' = after \/ disk' = [after EXCEPT !.earlier = {}] => Moves(Active, "committed")
  <2>1. /\ after.pointer = disk.pointer /\ after.sequence = disk.sequence /\ after.record = disk.record
        /\ after.earlier = disk.earlier
        /\ \A t \in Txs : /\ after.journal[t].base = disk.journal[t].base
                          /\ after.journal[t].config = disk.journal[t].config
                          /\ after.journal[t].confirmed = disk.journal[t].confirmed
                          /\ after.journal[t].state = IF t = Active THEN "committed" ELSE disk.journal[t].state
    <3>1. CASE Active \in Unresolved
      BY <1>2, <1>3, <3>1, JournalWith
    <3>2. CASE Active \notin Unresolved
      BY <1>4, <3>2 DEF J
    <3> QED
      BY <3>1, <3>2
  <2> HIDE DEF after
  <2> DEFINE e == [after EXCEPT !.earlier = {}]
  <2>2. /\ e \in Disks /\ e.earlier = {} /\ e.pointer = after.pointer /\ e.sequence = after.sequence
        /\ e.journal = after.journal /\ e.record = after.record
    BY <1>6, Synced
  <2> HIDE DEF e
  <2>3. disk' = after => Moves(Active, "committed")
    BY <1>6, <2>1 DEF Moves
  <2>4. disk' = e => Moves(Active, "committed")
    BY <2>1, <2>2 DEF Moves
  <2> QED
    BY <2>3, <2>4 DEF e
<1> HIDE DEF after
<1>9. disk' = disk \/ Moves(Active, "committed")
  BY <1>7, <1>8
<1>10. Keeps /\ disk'.record = disk.record /\ disk'.journal[1].state = "committed"
       /\ disk'.journal[disk.pointer].state \in InPlaceOfPublished
  <2>1. CASE disk' = disk
    BY <2>1 DEF Keeps, DisksHold, DiskIsWhole
  <2>2. CASE Moves(Active, "committed")
    BY <1>2, <1>3, <2>2, MovesKeeps DEF Moves, DisksHold, DiskIsWhole, InPlaceOfPublished
  <2> QED
    BY <1>9, <2>1, <2>2
<1>11. DisksHold'
  BY <1>1, <1>10, KeepsWhole
<1>12. HardwareIsAccounted'
  BY <1>1, <1>2, <1>10, KeepsAccounted
<1>13. disk' \in Disks /\ disk'.pointer = disk.pointer
  BY <1>10 DEF Keeps
<1>14. CASE Refuse
  BY <1>1, <1>11, <1>12, <1>13, <1>14, RefuseKeeps
<1>15. CASE /\ hw.generation = task.generation
            /\ authority' = [authority EXCEPT !.outOfSync = FALSE, !.bound = task.generation, !.failed = 0]
            /\ task' = IF task.for = "recover" THEN At("check", "recover") ELSE Idle
            /\ IF after = disk THEN disk' = disk ELSE Written(after)
  <2>1. Moves(Active, "committed")
    BY <1>8, <1>15 DEF Written
  <2>2. /\ authority' \in Authorities /\ authority'.up /\ authority'.active = Active
        /\ ~authority'.uncertain /\ authority'.bound = hw.generation
    <3>1. hw.generation \in Nat
      BY DEF Hardwares
    <3> QED
      BY <1>1, <1>2, <1>15, <3>1 DEF Authorities
  <2>3. /\ task' \in Tasks /\ task'.step \in {"check", "idle"} /\ task'.generation <= hw.generation
        /\ task'.step = "check" => task'.for = "recover"
    <3>1. "recover" \in Purposes
      BY DEF Purposes
    <3>2. task' \in {Idle, At("check", "recover")}
      BY <1>15
    <3> HIDE DEF At, Idle
    <3> QED
      BY <3>1, <3>2, RestTasks
  <2>4. ConfigdTypes'
    BY <1>1, <1>13, <2>2, <2>3 DEF ConfigdTypes
  <2>5. AuthorityKnows'
    BY <1>1, <1>2, <1>13, <2>2, <2>3 DEF AuthorityKnows, Hardwares
  <2>6. Steady'
    <3>1. J(Active)'.config = J(Active).config /\ J(Active)'.confirmed = J(Active).confirmed
          /\ J(Active)'.state = "committed" /\ disk'.record = disk.record
      BY <1>2, <2>1, <2>2 DEF Moves, J
    <3> QED
      BY <1>1, <1>2, <1>15, <2>2, <3>1 DEF Steady, Carries, Timed, Replayed
  <2> QED
    BY <1>11, <1>12, <2>2, <2>3, <2>4, <2>5, <2>6 DEF ConfigdInv, ThreadKnows, AtRest
<1> QED
  BY <1>5, <1>14, <1>15

(***************************************************************************)
(* The invariant, and what it says of a configd at rest.                   *)
(***************************************************************************)
LEMMA Starts == ConfigdInit => ConfigdInv
<1> SUFFICES ASSUME ConfigdInit PROVE ConfigdInv
  OBVIOUS
<1> DEFINE journal == [t \in Txs |-> IF t = 1 THEN Journal("committed", 0, FALSE, Seed) ELSE Absent]
<1>1. /\ disk = [pointer |-> 1, earlier |-> {}, sequence |-> 1, record |-> NoRecord, journal |-> journal]
      /\ authority = Down /\ task = Idle
      /\ hw = [content |-> {}, retained |-> 0, broken |-> FALSE, before |-> {}, generation |-> 1]
      /\ told = [t \in Txs |-> {}]
  BY DEF ConfigdInit
<1>2. Journal("committed", 0, FALSE, Seed) \in Journals /\ Absent \in Journals
  BY DEF Journal, Absent, Journals, States, Objects
<1>3. journal \in [Txs -> Journals] /\ journal[1].state = "committed" /\ ~journal[1].confirmed
      /\ journal[1].base = 0
      /\ \A t \in Txs : journal[t].state # "absent" => t = 1
  BY <1>2 DEF Journal, Absent
<1> HIDE DEF journal
<1>4. disk \in Disks
  <2>1. NoRecord \in Records /\ 1 \in Txs
    BY DEF NoRecord, Records
  <2> QED
    BY <1>1, <1>3, <2>1 DEF Disks
<1>5. authority \in Authorities /\ task \in Tasks /\ hw \in Hardwares
  BY <1>1 DEF Down, Authorities, Tasks, Steps, Purposes, Hardwares
<1>6. ConfigdTypes
  BY <1>1, <1>4, <1>5 DEF ConfigdTypes
<1>7. DisksHold
  BY <1>1, <1>3 DEF DisksHold, DiskIsWhole, ConfirmedIsAsked, NoRecord, InPlaceOfPublished
<1>8. HardwareIsAccounted
  BY <1>1 DEF HardwareIsAccounted
<1>9. AuthorityKnows
  BY <1>1 DEF AuthorityKnows, Down
<1>10. ThreadKnows
  BY <1>1 DEF ThreadKnows, AtRest, Down
<1> QED
  BY <1>6, <1>7, <1>8, <1>9, <1>10 DEF ConfigdInv

LEMMA Keep == ConfigdInv /\ [ConfigdNext]_configdVars => ConfigdInv'
<1> SUFFICES ASSUME ConfigdInv, [ConfigdNext]_configdVars PROVE ConfigdInv'
  OBVIOUS
<1>1. ASSUME UNCHANGED configdVars PROVE ConfigdInv'
  <2>1. /\ ConfigdTypes' /\ DisksHold' /\ HardwareIsAccounted' /\ AuthorityKnows'
    BY <1>1 DEF configdVars, ConfigdInv, ConfigdTypes, DisksHold, ConfirmedIsAsked, HardwareIsAccounted, Own,
                J, AuthorityKnows
  <2>2. ThreadKnows'
    BY <1>1 DEF configdVars, ConfigdInv, ThreadKnows, AtRest, Preparing, Verifying, Publishing, Marking,
                Ending, Converging, Failing, Booting, Replaying, Replayed, InWork, Unpublished,
                Published, Steady, Candidate, Carries, Timed, J
  <2> QED
    BY <2>1, <2>2 DEF ConfigdInv
<1>2. ASSUME ConfigdNext PROVE ConfigdInv'
  BY <1>2, ApplyingKeeps, FindUnboundKeeps, StartCommitKeeps, HardwareKeeps, VerifyKeeps,
     PublishKeeps, RecordKeeps, MarkKeeps, SupersedeKeeps, CommitKeeps, FinalizeKeeps, CheckKeeps,
     NothingToCheckKeeps, DueKeeps, RollbackKeeps, ConfirmCommitKeeps, ConvergeKeeps, TimedOutKeeps,
     ReportKeeps, BootKeeps, RecoverJournalsKeeps, ReplayTickKeeps, RecoverKeeps, ResolveKeeps,
     ReplayKeeps, RecoverIntentKeeps, FinishKeeps, ExpireKeeps, CrashKeeps, RestartSwitchKeeps,
     PowerCutKeeps
     DEF ConfigdNext
<1> QED
  BY <1>1, <1>2

\* In every state the files, the hardware and what configd knows of them agree,
\* whichever write or call of configd_on_init, handle_commit or
\* reconcile_active_state has failed (main.c).
THEOREM ConfigdInvariant == ConfigdSpec => []ConfigdInv
BY Starts, Keep, PTL DEF ConfigdSpec

\* The files, the memory, the task and switchd keep their types.
THEOREM TypesHold == ConfigdSpec => []ConfigdTypes
<1>1. ConfigdInv => ConfigdTypes
  BY DEF ConfigdInv
<1> QED
  BY <1>1, ConfigdInvariant, PTL

\* A configd that says it is synchronized with this switchd is: what it calls
\* active is published, and the hardware holds that and nothing else
\* (reconcile_active_state, main.c:3344).
THEOREM SynchronizedIsTrue == ConfigdSpec => []SynchronizedIsActual
<1>1. ConfigdInv => SynchronizedIsActual
  <2> SUFFICES ASSUME ConfigdInv, InSync, Bound
               PROVE  Active = disk.pointer /\ hw.content = J(Active).config /\ hw.retained = 0
    BY DEF SynchronizedIsActual
  <2> USE Where
  <2>1. authority.up /\ ~authority.outOfSync /\ task.step = "idle"
    BY DEF InSync
  <2>2. Steady /\ ~authority.uncertain
    BY <2>1 DEF ThreadKnows, AtRest, AuthorityKnows
  <2> QED
    BY <2>1, <2>2 DEF AuthorityKnows, Steady, Carries
<1> QED
  BY <1>1, ConfigdInvariant, PTL

\* A configuration nobody has confirmed has the record that takes it back: a
\* commit, a replay or a start that lost it leaves configd out of sync
\* (configd_recover_active_confirmed_intent, main.c:2341).
THEOREM UnconfirmedIsTakenBack == ConfigdSpec => []UnconfirmedIsTimed
<1>1. ConfigdInv => UnconfirmedIsTimed
  <2> SUFFICES ASSUME ConfigdInv, InSync, J(Active).confirmed, "asked" \notin told[Active]
               PROVE  Matches
    BY DEF UnconfirmedIsTimed
  <2> USE Where
  <2>1. authority.up /\ ~authority.outOfSync /\ task.step = "idle"
    BY DEF InSync
  <2>2. Steady /\ Active = disk.pointer /\ Active \in Txs
    BY <2>1 DEF ThreadKnows, AtRest, AuthorityKnows
  <2>3. disk.record.tx = Active /\ J(Active).state = "committed"
    BY <2>2 DEF Steady, Timed
  <2>4. DiskIsWhole(disk) /\ ConfirmedIsAsked(disk)
    BY DEF DisksHold
  <2>5. disk.record.state # "confirmed" /\ disk.record.state # "none"
    BY <2>2, <2>3, <2>4 DEF DiskIsWhole, ConfirmedIsAsked, J
  <2>6. disk.record.state \in {"awaiting", "timed_out"}
    BY <2>5 DEF Disks, Records
  <2> QED
    BY <2>3, <2>6 DEF Matches
<1> QED
  BY <1>1, ConfigdInvariant, PTL

(***************************************************************************)
(* Reports.  ReportsOnDisk: a transaction that was reported was reserved   *)
(* on every disk a power cut may leave, one reported as rolled back is     *)
(* older than the one published there, and the record of one reported as   *)
(* confirmed says so.  ReportsInWork: a transaction at work is new, and    *)
(* the way back never leads from one reported as confirmed.                *)
(***************************************************************************)
ReportsOnDisk ==
  /\ \A d \in {disk} \cup disk.earlier :
       /\ disk.pointer <= d.sequence
       /\ \A t \in Txs : /\ told[t] # {} => t <= d.sequence
                         /\ "rolled_back" \in told[t] => t < d.pointer
       /\ "confirmed" \in told[d.pointer] => d.record = [tx |-> d.pointer, state |-> "confirmed"]
  /\ "confirmed" \in told[disk.pointer] => disk.earlier = {}

Working == task.step \in {"applying", "hardware", "verify", "publish", "record", "mark", "supersede",
                          "commit", "converge", "finalize"}
TakesBack == task.step = "timed_out" \/ (Working /\ Reverting)
ReportsInWork ==
  /\ Working => told[task.tx] = {}
  /\ TakesBack => "confirmed" \notin told[disk.pointer]

ReportsInv == ConfigdInv /\ ReportsOnDisk /\ ReportsInWork

LEMMA Reported ==
  ASSUME ReportsInv
  PROVE  ConfigdInv /\ ReportsOnDisk /\ ReportsInWork
BY DEF ReportsInv

\* A step that publishes nothing, and writes no record of a commit that was
\* reported as confirmed.
Quiet ==
  /\ told' = told /\ disk'.pointer = disk.pointer /\ disk'.earlier \subseteq disk.earlier
  /\ disk'.sequence \in Int /\ disk.sequence <= disk'.sequence
  /\ "confirmed" \in told[disk.pointer] => disk'.record = disk.record

LEMMA QuietHolds ==
  ASSUME ReportsInv, Quiet
  PROVE  ReportsOnDisk'
<1> USE Where, Reported
<1>1. disk.sequence \in Int /\ disk.pointer \in Int /\ disk.pointer \in Txs
  BY DEF Disks
<1>2. /\ disk.pointer <= disk'.sequence
      /\ \A t \in Txs : /\ told[t] # {} => t <= disk'.sequence
                        /\ "rolled_back" \in told[t] => t < disk'.pointer
      /\ "confirmed" \in told[disk'.pointer] =>
           disk'.record = [tx |-> disk'.pointer, state |-> "confirmed"] /\ disk'.earlier = {}
  <2>1. /\ disk.pointer <= disk.sequence
        /\ \A t \in Txs : /\ told[t] # {} => t <= disk.sequence
                          /\ "rolled_back" \in told[t] => t < disk.pointer
        /\ "confirmed" \in told[disk.pointer] =>
             disk.record = [tx |-> disk.pointer, state |-> "confirmed"] /\ disk.earlier = {}
    BY DEF ReportsOnDisk
  <2> QED
    BY <1>1, <2>1 DEF Quiet
<1>3. \A d \in disk'.earlier :
         /\ disk.pointer <= d.sequence
         /\ \A t \in Txs : /\ told[t] # {} => t <= d.sequence
                           /\ "rolled_back" \in told[t] => t < d.pointer
         /\ "confirmed" \in told[d.pointer] => d.record = [tx |-> d.pointer, state |-> "confirmed"]
  BY DEF ReportsOnDisk, Quiet
<1> QED
  BY <1>2, <1>3 DEF ReportsOnDisk, Quiet

\* What the thread does next, after such a step.
Proceeds ==
  \/ ~Working' /\ task'.step # "timed_out"
  \/ Working /\ Working' /\ task'.tx = task.tx /\ task'.for = task.for
  \/ TakesBack /\ task'.step = "timed_out"

LEMMA QuietKeeps ==
  ASSUME ReportsInv, ConfigdInv', Quiet, Proceeds
  PROVE  ReportsInv'
<1> USE Where, Reported
<1>1. ReportsOnDisk'
  BY QuietHolds
<1>2. ReportsInWork'
  BY DEF ReportsInWork, Quiet, Proceeds, Working, TakesBack
<1> QED
  BY <1>1, <1>2 DEF ReportsInv

\* The steps that write nothing.
LEMMA UnwrittenKeeps ==
  ASSUME ReportsInv, ConfigdInv', disk' = disk, told' = told, Proceeds
  PROVE  ReportsInv'
<1>1. Quiet
  BY Where, Reported DEF Quiet, Disks
<1> QED
  BY <1>1, QuietKeeps

\* The steps that write the journal of a transaction.
LEMMA JournalKeeps ==
  ASSUME ReportsInv, ConfigdInv', told' = told, Proceeds, Keeps, disk'.record = disk.record
  PROVE  ReportsInv'
<1>1. Quiet
  BY Where, Reported DEF Quiet, Keeps, Disks
<1> QED
  BY <1>1, QuietKeeps

\* The steps that write the record.
LEMMA RecordKeepsReports ==
  ASSUME ReportsInv, ConfigdInv', told' = told, Proceeds,
         NEW tx \in 0..MaxTx, NEW s, Notes(tx, s) \/ disk' = disk,
         "confirmed" \notin told[disk.pointer]
  PROVE  ReportsInv'
<1>1. Quiet
  BY Where, Reported DEF Quiet, Notes, Disks
<1> QED
  BY <1>1, QuietKeeps

LEMMA ReserveReports ==
  ASSUME ReportsInv, ConfigdInv', UNCHANGED told,
         NEW config, NEW for, NEW refused \in {Idle, At("timed_out", for)},
         for \in {"timer", "rollback", "recover"} => "confirmed" \notin told[disk.pointer],
         refused # Idle => for \in {"timer", "rollback", "recover"},
         Reserve(config, At("applying", for), refused)
  PROVE  ReportsInv'
<1> USE Where, Reported
<1> DEFINE new == Journal("prepared", Active, FALSE, config)
<1>a. PICK tx \in Txs : tx = disk.sequence + 1
  BY DEF Reserve
<1> DEFINE reserved == [disk EXCEPT !.sequence = tx]
           prepared == [reserved EXCEPT !.journal[tx] = new]
<1>1. \/ disk' = [prepared EXCEPT !.earlier = {}] /\ task' = [At("applying", for) EXCEPT !.tx = tx]
      \/ disk' \in {disk, reserved, prepared} /\ task' = refused
  BY <1>a DEF Reserve, Written
<1>2. disk.sequence \in Int
  BY DEF Disks
<1>3. /\ disk'.pointer = disk.pointer /\ disk'.record = disk.record /\ disk'.earlier \subseteq disk.earlier
      /\ disk'.sequence \in {disk.sequence, tx}
  BY <1>1 DEF Disks
<1>4. ReportsOnDisk'
  <2>1. Quiet
    BY <1>a, <1>2, <1>3 DEF Quiet
  <2> QED
    BY <2>1, QuietHolds
<1>5. told[tx] = {}
  <2>1. told[tx] # {} => tx <= disk.sequence
    BY DEF ReportsOnDisk
  <2> QED
    BY <1>a, <1>2, <2>1
<1>6. ReportsInWork'
  <2>1. CASE task' = [At("applying", for) EXCEPT !.tx = tx]
    BY <1>3, <1>5, <2>1 DEF ReportsInWork, Working, TakesBack
  <2>2. CASE task' = refused
    BY <1>3, <2>2 DEF ReportsInWork, Working, TakesBack
  <2> QED
    BY <1>1, <2>1, <2>2
<1> QED
  BY <1>4, <1>6 DEF ReportsInv

\* The steps that leave the disk alone.
LEMMA UnwrittenSteps ==
  ASSUME ReportsInv, ConfigdInv',
         \/ FindUnbound \/ Hardware \/ NothingToCheck \/ Converge \/ Boot \/ ReplayTick \/ Recover
         \/ Replay \/ Crash \/ RestartSwitch
  PROVE  ReportsInv'
<1> USE Where, Reported
<1>1. disk' = disk /\ told' = told
  BY DEF FindUnbound, Hardware, NothingToCheck, Converge, Boot, ReplayTick, Recover, Replay, Crash,
         RestartSwitch
<1>2. CASE FindUnbound \/ RestartSwitch
  <2>1. task' = task
    BY <1>2 DEF FindUnbound, RestartSwitch
  <2> QED
    BY <1>1, <2>1, UnwrittenKeeps DEF Proceeds, Working, TakesBack
<1>3. CASE Hardware \/ Converge
  <2>1. /\ task' = [task EXCEPT !.step = "verify"] \/ task' = [task EXCEPT !.step = "commit"]
           \/ Fail(TRUE) \/ Fail(FALSE)
        /\ task.step \in {"hardware", "converge"}
    BY <1>3 DEF Hardware, Converge, Go
  <2>2. task'.tx = task.tx /\ task'.for = task.for /\ task'.step \in {"verify", "commit", "finalize"}
    BY <2>1 DEF Fail, Tasks
  <2> QED
    BY <1>1, <2>1, <2>2, UnwrittenKeeps DEF Proceeds, Working
<1>4. CASE NothingToCheck \/ Boot \/ ReplayTick \/ Recover \/ Replay \/ Crash
  <2>1. task'.step \in {"idle", "journals", "resolve", "intent"}
    <3>1. CASE Replay
      BY <3>1 DEF Replay, Refuse, Go, Tasks
    <3> QED
      BY <1>4, <3>1 DEF NothingToCheck, Boot, ReplayTick, Recover, Crash, Resolving
  <2> QED
    BY <1>1, <2>1, UnwrittenKeeps DEF Proceeds, Working
<1> QED
  BY <1>2, <1>3, <1>4

\* The steps that write a journal.
LEMMA JournalSteps ==
  ASSUME ReportsInv, ConfigdInv', Applying \/ Verify \/ Mark \/ Commit \/ Finalize
  PROVE  ReportsInv'
<1> USE Where, Reported
<1>1. Working /\ told' = told
  BY DEF Applying, Verify, Mark, Commit, Finalize, Working
<1>2. Quiet
  <2>1. disk'.pointer = disk.pointer /\ disk'.record = disk.record /\ disk'.sequence = disk.sequence
        /\ disk'.earlier \subseteq disk.earlier
    BY <1>1 DEF Applying, Verify, Mark, Commit, Finalize, Written, NotWritten, WithState, Disks
  <2> QED
    BY <1>1, <2>1 DEF Quiet, Disks
<1>3. Proceeds
  <2>1. \/ \E s \in {"publish", "hardware", "commit", "supersede"} : task' = [task EXCEPT !.step = s]
        \/ Fail(TRUE) \/ Fail(FALSE)
        \/ task' = IF Reverting THEN At("timed_out", task.for) ELSE Idle
    BY DEF Applying, Verify, Mark, Commit, Finalize, Go, TakeBack
  <2>2. CASE \E s \in {"publish", "hardware", "commit", "supersede"} : task' = [task EXCEPT !.step = s]
    BY <1>1, <2>2 DEF Proceeds, Working, Tasks
  <2>3. CASE Fail(TRUE) \/ Fail(FALSE)
    BY <1>1, <2>3 DEF Proceeds, Working, Tasks, Fail
  <2>4. CASE task' = IF Reverting THEN At("timed_out", task.for) ELSE Idle
    BY <1>1, <2>4 DEF Proceeds, Working, TakesBack
  <2> QED
    BY <2>1, <2>2, <2>3, <2>4
<1> QED
  BY <1>2, <1>3, QuietKeeps

LEMMA RecoverySteps ==
  ASSUME ReportsInv, ConfigdInv', RecoverJournals \/ Resolve \/ Finish
  PROVE  ReportsInv'
<1> USE Where, Reported
<1>1. told' = told /\ task.step \in {"journals", "resolve", "finish"}
  BY DEF RecoverJournals, Resolve, Finish
<1>2. Quiet
  <2>1. disk'.pointer = disk.pointer /\ disk'.record = disk.record /\ disk'.sequence = disk.sequence
        /\ disk'.earlier \subseteq disk.earlier
    BY DEF RecoverJournals, Resolve, Finish, Written, NotWritten, WithState, Disks
  <2> QED
    BY <1>1, <2>1 DEF Quiet, Disks
<1>3. Proceeds
  <2>1. \/ \E s \in {"intent", "replay"} : task' = [task EXCEPT !.step = s]
        \/ task' = task \/ task' \in {Idle, At("check", "recover")}
    BY DEF RecoverJournals, Resolve, Finish, Go, Refuse
  <2> QED
    BY <1>1, <2>1 DEF Proceeds, Working, Tasks
<1> QED
  BY <1>2, <1>3, QuietKeeps

LEMMA ExpireReports ==
  ASSUME ReportsInv, ConfigdInv', Expire
  PROVE  ReportsInv'
<1> USE Where, Reported
<1>1. told' = told /\ task' = task
  BY DEF Expire
<1>2. Quiet
  <2>1. disk'.pointer = disk.pointer /\ disk'.record = disk.record /\ disk'.sequence = disk.sequence
        /\ disk'.earlier \subseteq disk.earlier
    BY DEF Expire, Disks
  <2> QED
    BY <1>1, <2>1 DEF Quiet, Disks
<1>3. Proceeds
  BY <1>1 DEF Proceeds, Working, TakesBack
<1> QED
  BY <1>2, <1>3, QuietKeeps

\* One reported as confirmed has the record of it.
LEMMA RecordOfConfirmed ==
  ASSUME ReportsOnDisk, "confirmed" \in told[disk.pointer]
  PROVE  disk.record.tx = disk.pointer /\ disk.record.state = "confirmed"
<1>1. disk.record = [tx |-> disk.pointer, state |-> "confirmed"]
  BY DEF ReportsOnDisk
<1> QED
  BY <1>1

\* The steps that write the record.
LEMMA RecordSteps ==
  ASSUME ReportsInv, ConfigdInv', Record \/ Supersede \/ Check \/ TimedOut \/ RecoverIntent
  PROVE  ReportsInv'
<1> USE Where, Reported
<1>0. told' = told /\ disk.record.tx \in 0..MaxTx
  <2>1. told' = told
    BY DEF Record, Supersede, Check, TimedOut, RecoverIntent
  <2> QED
    BY <2>1 DEF Disks, Records
<1>a. "confirmed" \in told[disk.pointer] =>
        disk.record.tx = disk.pointer /\ disk.record.state = "confirmed"
  BY RecordOfConfirmed
<1>1. CASE Record
  <2>1. task.step = "record" /\ task.tx \in 0..MaxTx /\ disk.pointer = task.tx /\ Working
    BY <1>1 DEF Record, ThreadKnows, Marking, Published, InWork, AuthorityKnows, Working
  <2>2. "confirmed" \notin told[disk.pointer]
    BY <2>1 DEF ReportsInWork
  <2>3. Notes(task.tx, "awaiting") \/ disk' = disk
    BY <1>1, <2>1, RecordWritten DEF Record
  <2>4. task' = [task EXCEPT !.step = "mark"] \/ Fail(TRUE)
    BY <1>1 DEF Record, Go
  <2>5. Proceeds
    BY <2>1, <2>4 DEF Proceeds, Working, Fail, Tasks
  <2> QED
    BY <1>0, <2>1, <2>2, <2>3, <2>5, RecordKeepsReports
<1>2. CASE Supersede
  <2>1. task.step = "supersede" /\ disk.pointer = task.tx /\ Working
    BY <1>2 DEF Supersede, ThreadKnows, Ending, Published, InWork, AuthorityKnows, Working
  <2>2. "confirmed" \notin told[disk.pointer]
    BY <2>1 DEF ReportsInWork
  <2>3. PICK s \in {"timed_out", "confirmed"} :
          \/ Written(WithRecord(disk, disk.record.tx, s)) \/ NotWritten(WithRecord(disk, disk.record.tx, s))
          \/ disk' = disk
    BY <1>2 DEF Supersede
  <2>4. Notes(disk.record.tx, s) \/ disk' = disk
    BY <1>0, <2>3, RecordWritten
  <2>5. Proceeds
    BY <1>2, <2>1 DEF Supersede, Go, Proceeds, Working, Tasks
  <2> QED
    BY <1>0, <2>2, <2>4, <2>5, RecordKeepsReports
<1>3. CASE Check
  <2>1. \/ /\ disk.record.state = "awaiting"
           /\ \E s \in {"timed_out", "confirmed"} :
                \/ Written(WithRecord(disk, disk.record.tx, s))
                \/ NotWritten(WithRecord(disk, disk.record.tx, s))
        \/ disk' = disk
    BY <1>3 DEF Check
  <2>2. task'.step \in {"idle", "due"}
    BY <1>3 DEF Check
  <2>3. Proceeds
    BY <2>2 DEF Proceeds, Working
  <2>4. CASE disk' = disk
    BY <1>0, <2>3, <2>4, UnwrittenKeeps
  <2>5. ASSUME disk.record.state = "awaiting", NEW s \in {"timed_out", "confirmed"},
               \/ Written(WithRecord(disk, disk.record.tx, s))
               \/ NotWritten(WithRecord(disk, disk.record.tx, s))
        PROVE  ReportsInv'
    <3>1. Notes(disk.record.tx, s) \/ disk' = disk
      BY <1>0, <2>5, RecordWritten
    <3>2. "confirmed" \notin told[disk.pointer]
      BY <1>a, <2>5
    <3> QED
      BY <1>0, <2>3, <3>1, <3>2, RecordKeepsReports
  <2> QED
    BY <2>1, <2>4, <2>5
<1>4. CASE TimedOut
  <2>1. "confirmed" \notin told[disk.pointer]
    BY <1>4 DEF TimedOut, ReportsInWork, TakesBack
  <2>2. Notes(disk.record.tx, "timed_out") \/ disk' = disk
    BY <1>0, <1>4, RecordWritten DEF TimedOut
  <2>3. Proceeds
    BY <1>4 DEF TimedOut, Proceeds, Working
  <2> QED
    BY <1>0, <2>1, <2>2, <2>3, RecordKeepsReports
<1>5. CASE RecoverIntent
  <2>1. task.step = "intent" /\ Active \in 0..MaxTx /\ Active = disk.pointer
    BY <1>5 DEF RecoverIntent, ThreadKnows, Booting, Replayed, Replaying, AuthorityKnows
  <2>2. task'.step \in {"check", "finish", "idle"}
    BY <1>5 DEF RecoverIntent, Go, Refuse, Tasks
  <2>3. Proceeds
    BY <2>2 DEF Proceeds, Working
  <2>4. CASE disk' = disk
    BY <1>0, <2>3, <2>4, UnwrittenKeeps
  <2>5. CASE Intent = "lost" /\ (Written(WithRecord(disk, Active, "awaiting"))
                                 \/ NotWritten(WithRecord(disk, Active, "awaiting")))
    <3>1. Notes(Active, "awaiting") \/ disk' = disk
      BY <2>1, <2>5, RecordWritten
    <3>2. disk.record.tx # Active
      BY <2>5 DEF Intent
    <3>3. "confirmed" \notin told[disk.pointer]
      BY <1>a, <2>1, <3>2
    <3> QED
      BY <1>0, <2>1, <2>3, <3>1, <3>3, RecordKeepsReports
  <2> QED
    BY <1>5, <2>4, <2>5 DEF RecoverIntent
<1> QED
  BY <1>1, <1>2, <1>3, <1>4, <1>5

\* The steps that start a transaction.
LEMMA StartSteps ==
  ASSUME ReportsInv, ConfigdInv',
         \/ \E for \in {"panel", "confirmed", "plain"}, c \in Images : StartCommit(for, c)
         \/ Due \/ Rollback
  PROVE  ReportsInv'
<1> USE Where, Reported
<1>1. ASSUME NEW for \in {"panel", "confirmed", "plain"}, NEW c, StartCommit(for, c)
      PROVE  ReportsInv'
  <2>1. Reserve(c, At("applying", for), Idle) /\ UNCHANGED told
    BY <1>1 DEF StartCommit
  <2> HIDE DEF At, Idle
  <2> QED
    BY <2>1, ReserveReports
<1>2. ASSUME NEW for \in {"timer", "rollback", "recover"}, Revert(for), UNCHANGED told
      PROVE  ReportsInv'
  <2>1. CASE disk' = disk /\ task' = Idle
    BY <1>2, <2>1, UnwrittenKeeps DEF Proceeds, Working
  <2>2. CASE Matches /\ Reserve(J(J(Active).base).config, At("applying", for), At("timed_out", for))
    <3>1. "confirmed" \notin told[disk.pointer]
      BY <2>2, RecordOfConfirmed DEF Matches
    <3> HIDE DEF At, Idle
    <3> QED
      BY <1>2, <2>2, <3>1, ReserveReports
  <2> QED
    BY <1>2, <2>1, <2>2 DEF Revert
<1>3. CASE Due
  <2>1. task.for \in {"timer", "rollback", "recover"} /\ Revert(task.for) /\ UNCHANGED told
    BY <1>3 DEF Due, ThreadKnows, AtRest
  <2> QED
    BY <1>2, <2>1
<1>4. CASE Rollback
  BY <1>2, <1>4 DEF Rollback
<1> QED
  BY <1>1, <1>3, <1>4

LEMMA PublishReports ==
  ASSUME ReportsInv, ConfigdInv', Publish
  PROVE  ReportsInv'
<1> USE Where, Reported
<1> DEFINE published == [disk EXCEPT !.pointer = task.tx]
<1>1. /\ Working /\ task.step = "publish" /\ task.tx \in Txs /\ disk.pointer < task.tx
      /\ disk.earlier = {} /\ told' = told /\ task.tx <= disk.sequence /\ disk.sequence \in Int
  BY DEF Publish, ThreadKnows, Publishing, Unpublished, InWork, Working, DisksHold, DiskIsWhole, J, Disks
<1>2. disk' \in {disk, [published EXCEPT !.earlier = {}], [published EXCEPT !.earlier = {disk}]}
  BY DEF Publish, Written
<1>3. task'.tx = task.tx /\ task'.for = task.for /\ Working'
  <2>1. \/ \E s \in {"converge", "record", "mark"} : task' = [task EXCEPT !.step = s]
        \/ Fail(TRUE) \/ Fail(FALSE)
    BY DEF Publish, Go, TakeBack
  <2> QED
    BY <2>1 DEF Working, Tasks, Fail
<1>4. CASE disk' = disk
  BY <1>1, <1>3, <1>4, UnwrittenKeeps DEF Proceeds
<1>5. CASE disk' \in {[published EXCEPT !.earlier = {}], [published EXCEPT !.earlier = {disk}]}
  <2>1. /\ disk'.pointer = task.tx /\ disk'.sequence = disk.sequence /\ disk'.earlier \subseteq {disk}
    BY <1>5 DEF Disks
  <2>2. told[task.tx] = {}
    BY <1>1 DEF ReportsInWork
  <2>3. /\ \A t \in Txs : /\ told[t] # {} => t <= disk.sequence
                          /\ "rolled_back" \in told[t] => t < disk.pointer
        /\ "confirmed" \in told[disk.pointer] => disk.record = [tx |-> disk.pointer, state |-> "confirmed"]
    BY DEF ReportsOnDisk
  <2>4. ReportsOnDisk'
    BY <1>1, <2>1, <2>2, <2>3 DEF ReportsOnDisk
  <2>5. ReportsInWork'
    BY <1>1, <1>3, <2>1, <2>2 DEF ReportsInWork
  <2> QED
    BY <2>4, <2>5 DEF ReportsInv
<1> QED
  BY <1>2, <1>4, <1>5

LEMMA PowerCutReports ==
  ASSUME ReportsInv, ConfigdInv', PowerCut
  PROVE  ReportsInv'
<1> USE Where, Reported
<1>1. told' = told /\ task' = Idle
  BY DEF PowerCut
<1>2. PICK d \in {disk} \cup disk.earlier :
        /\ disk'.pointer = d.pointer /\ disk'.record = d.record /\ disk'.sequence = d.sequence
        /\ disk'.earlier = {}
  <2>1. Settled \subseteq Disks
    BY DEF Settled, Disks
  <2>2. \A d \in {disk} \cup disk.earlier : d \in Disks
    BY <2>1 DEF Disks
  <2> QED
    BY <2>2 DEF PowerCut, Disks
<1>3. d.pointer <= d.sequence
  BY DEF DisksHold, DiskIsWhole
<1>4. /\ \A t \in Txs : /\ told[t] # {} => t <= d.sequence
                        /\ "rolled_back" \in told[t] => t < d.pointer
      /\ "confirmed" \in told[d.pointer] => d.record = [tx |-> d.pointer, state |-> "confirmed"]
  BY DEF ReportsOnDisk
<1>5. ReportsOnDisk'
  BY <1>1, <1>2, <1>3, <1>4 DEF ReportsOnDisk
<1>6. ReportsInWork'
  BY <1>1 DEF ReportsInWork, Working, TakesBack
<1> QED
  BY <1>5, <1>6 DEF ReportsInv

LEMMA ReportReports ==
  ASSUME ReportsInv, ConfigdInv', Report
  PROVE  ReportsInv'
<1> USE Where, Reported
<1>1. disk' = disk /\ task' = task /\ task = Idle /\ authority.up
  BY DEF Report
<1>2. CASE disk.earlier # {}
  <2>1. told' = told
    BY <1>2 DEF Report, Tells, ConfigdTypes
  <2> QED
    BY <1>1, <2>1, UnwrittenKeeps DEF Proceeds, Working
<1>3. CASE disk.earlier = {}
  <2>1. told' = [told EXCEPT ![disk.record.tx] = @ \cup {Outcome}] /\ Outcome \in {"confirmed", "rolled_back"}
    BY <1>3 DEF Report, Tells
  <2>2. ~authority.uncertain /\ Active = disk.pointer /\ disk.record.tx \in 0..disk.pointer
    BY <1>1, <2>1 DEF Outcome, AuthorityKnows, DisksHold, DiskIsWhole, Disks, Records
  <2>3. Outcome = "confirmed" => disk.record = [tx |-> disk.pointer, state |-> "confirmed"]
    BY <2>2 DEF Outcome, Disks, Records
  <2>4. Outcome = "rolled_back" => disk.record.tx < disk.pointer
    BY <2>2 DEF Outcome, DisksHold, DiskIsWhole, InPlaceOfPublished, J
  <2>5. disk.pointer <= disk.sequence /\ disk.sequence \in Int
    BY DEF DisksHold, DiskIsWhole, Disks
  <2>6. \A t \in Txs : told'[t] = IF t = disk.record.tx THEN told[t] \cup {Outcome} ELSE told[t]
    BY <2>1 DEF ConfigdTypes
  <2>7. /\ \A t \in Txs : /\ told[t] # {} => t <= disk.sequence
                          /\ "rolled_back" \in told[t] => t < disk.pointer
        /\ "confirmed" \in told[disk.pointer] => disk.record = [tx |-> disk.pointer, state |-> "confirmed"]
    BY DEF ReportsOnDisk
  <2>8. ReportsOnDisk'
    BY <1>1, <1>3, <2>1, <2>2, <2>3, <2>4, <2>5, <2>6, <2>7 DEF ReportsOnDisk
  <2>9. ReportsInWork'
    BY <1>1 DEF ReportsInWork, Working, TakesBack
  <2> QED
    BY <2>8, <2>9 DEF ReportsInv
<1> QED
  BY <1>2, <1>3

LEMMA ConfirmReports ==
  ASSUME ReportsInv, ConfigdInv', ConfirmCommit
  PROVE  ReportsInv'
<1> USE Where, Reported
<1> DEFINE tx == disk.record.tx
<1>1. /\ task' = task /\ task = Idle /\ authority.up /\ tx = Active /\ ~authority.uncertain
      /\ disk.record.state = "awaiting"
      /\ \/ Written(WithRecord(disk, tx, "confirmed")) /\ told' = [told EXCEPT ![tx] = @ \cup {"asked", "confirmed"}]
         \/ NotWritten(WithRecord(disk, tx, "confirmed")) /\ told' = [told EXCEPT ![tx] = @ \cup {"asked"}]
  BY DEF ConfirmCommit, Tells
<1>2. tx = disk.pointer /\ tx \in Txs
  BY <1>1 DEF AuthorityKnows
<1>3. "confirmed" \notin told[disk.pointer]
  BY <1>1, RecordOfConfirmed
<1>4. ReportsInWork'
  BY <1>1 DEF ReportsInWork, Working, TakesBack
<1>5. \/ /\ disk'.earlier = {} /\ disk'.record = [tx |-> tx, state |-> "confirmed"]
         /\ told' = [told EXCEPT ![tx] = @ \cup {"asked", "confirmed"}]
      \/ /\ disk'.earlier = disk.earlier /\ told' = [told EXCEPT ![tx] = @ \cup {"asked"}]
  BY <1>1 DEF Written, NotWritten, WithRecord, Disks
<1>6. disk'.pointer = disk.pointer /\ disk'.sequence = disk.sequence
  BY <1>1 DEF Written, NotWritten, WithRecord, Disks
<1>7. \A t \in Txs : /\ t # tx => told'[t] = told[t]
                     /\ told'[t] # {} => told[t] # {} \/ t = disk.pointer
                     /\ "rolled_back" \in told'[t] => "rolled_back" \in told[t]
  BY <1>1, <1>2 DEF ConfigdTypes
<1>8. \A d \in {disk} \cup disk.earlier :
        /\ disk.pointer <= d.sequence
        /\ \A t \in Txs : /\ told'[t] # {} => t <= d.sequence
                          /\ "rolled_back" \in told'[t] => t < d.pointer
  BY <1>2, <1>7 DEF ReportsOnDisk
<1>9. CASE disk'.earlier = {} /\ disk'.record = [tx |-> tx, state |-> "confirmed"]
  <2>1. ReportsOnDisk'
    BY <1>2, <1>6, <1>8, <1>9 DEF ReportsOnDisk
  <2> QED
    BY <1>4, <2>1 DEF ReportsInv
<1>10. CASE disk'.earlier = disk.earlier /\ told' = [told EXCEPT ![tx] = @ \cup {"asked"}]
  <2>1. \A t \in Txs : "confirmed" \in told'[t] => "confirmed" \in told[t]
    BY <1>2, <1>10 DEF ConfigdTypes
  <2>2. \A d \in disk.earlier : d.pointer \in Txs
    BY DEF Disks, Settled
  <2>3. ReportsOnDisk'
    BY <1>2, <1>3, <1>6, <1>8, <1>10, <2>1, <2>2 DEF ReportsOnDisk
  <2> QED
    BY <1>4, <2>3 DEF ReportsInv
<1> QED
  BY <1>5, <1>9, <1>10

LEMMA ReportsStay == ReportsInv /\ [ConfigdNext]_configdVars => ReportsInv'
<1> SUFFICES ASSUME ReportsInv, [ConfigdNext]_configdVars PROVE ReportsInv'
  OBVIOUS
<1>1. ConfigdInv'
  BY Keep, Reported
<1>2. CASE UNCHANGED configdVars
  <2>1. disk' = disk /\ told' = told /\ task' = task
    BY <1>2 DEF configdVars
  <2>2. Proceeds
    BY <2>1 DEF Proceeds, Working, TakesBack
  <2> QED
    BY <1>1, <2>1, <2>2, UnwrittenKeeps
<1>3. CASE ConfigdNext
  BY <1>1, <1>3, UnwrittenSteps, JournalSteps, RecoverySteps, ExpireReports, RecordSteps, StartSteps,
     PublishReports, PowerCutReports, ReportReports, ConfirmReports DEF ConfigdNext
<1> QED
  BY <1>2, <1>3

\* The pointer moves when one is published, or when a power cut takes back one
\* whose sync failed.
LEMMA PointerMoves ==
  ASSUME ReportsInv, [ConfigdNext]_configdVars, disk'.pointer # disk.pointer
  PROVE  \/ Publish /\ disk'.pointer = task.tx /\ task.step = "publish"
         \/ \E d \in disk.earlier : disk'.pointer = d.pointer
<1> USE Where, Reported
<1>1. CASE PowerCut
  <2>1. Settled \subseteq Disks
    BY DEF Settled, Disks
  <2>2. \A d \in {disk} \cup disk.earlier : d \in Disks
    BY <2>1 DEF Disks
  <2> QED
    BY <1>1, <2>2 DEF PowerCut, Disks
<1>2. CASE Publish
  BY <1>2 DEF Publish, Written, Disks
<1>3. CASE \/ Applying \/ Verify \/ Record \/ Mark \/ Supersede \/ Commit \/ Finalize
             \/ RecoverJournals \/ Resolve \/ RecoverIntent \/ Finish \/ Expire
  BY <1>3 DEF Applying, Verify, Record, Mark, Supersede, Commit, Finalize, RecoverJournals, Resolve,
              RecoverIntent, Finish, Expire, Written, NotWritten, WithState, WithRecord, Disks
<1>4. CASE \/ Check \/ Due \/ Rollback \/ ConfirmCommit \/ TimedOut
             \/ \E for \in {"panel", "confirmed", "plain"}, c \in Images : StartCommit(for, c)
  BY <1>4 DEF Check, Due, Rollback, ConfirmCommit, TimedOut, StartCommit, Revert, Reserve,
              Written, NotWritten, WithRecord, Disks
<1>5. CASE \/ FindUnbound \/ Hardware \/ NothingToCheck \/ Converge \/ Boot \/ ReplayTick \/ Recover
             \/ Replay \/ Crash \/ RestartSwitch \/ Report \/ UNCHANGED configdVars
  BY <1>5 DEF FindUnbound, Hardware, NothingToCheck, Converge, Boot, ReplayTick, Recover, Replay, Crash,
              RestartSwitch, Report, configdVars
<1> QED
  BY <1>1, <1>2, <1>3, <1>4, <1>5 DEF ConfigdNext

\* A reported outcome is final: no step publishes again what was reported as
\* rolled back, and only a new commit replaces what was reported as confirmed
\* (panel_confirmed_outcome, panel_rpc.inc:49).
THEOREM ReportsAreFinal == ConfigdSpec => ReportsHold
<1>1. ConfigdInit => ReportsInv
  <2> SUFFICES ASSUME ConfigdInit PROVE ReportsInv
    OBVIOUS
  <2>1. ConfigdInv
    BY Starts
  <2>2. disk.earlier = {} /\ disk.pointer = 1 /\ disk.sequence = 1 /\ task.step = "idle"
        /\ \A t \in Txs : told[t] = {}
    BY DEF ConfigdInit
  <2>3. ReportsOnDisk
    BY <2>2 DEF ReportsOnDisk
  <2>4. ReportsInWork
    BY <2>2 DEF ReportsInWork, Working, TakesBack
  <2> QED
    BY <2>1, <2>3, <2>4 DEF ReportsInv
<1>2. ReportsInv /\ [ConfigdNext]_configdVars =>
        [/\ \A t \in Txs : "rolled_back" \in told[t] => disk'.pointer # t
         /\ "confirmed" \in told[disk.pointer] /\ disk'.pointer # disk.pointer
              => task.step = "publish" /\ ~Reverting]_configdVars
  <2> SUFFICES ASSUME ReportsInv, [ConfigdNext]_configdVars
               PROVE  /\ \A t \in Txs : "rolled_back" \in told[t] => disk'.pointer # t
                      /\ "confirmed" \in told[disk.pointer] /\ disk'.pointer # disk.pointer
                           => task.step = "publish" /\ ~Reverting
    OBVIOUS
  <2> USE Where, Reported
  <2>1. ASSUME NEW t \in Txs, "rolled_back" \in told[t] PROVE disk'.pointer # t
    <3>1. \A d \in {disk} \cup disk.earlier : t < d.pointer
      BY <2>1 DEF ReportsOnDisk
    <3>2. t < disk.pointer
      BY <3>1
    <3>3. \A d \in disk.earlier : d.pointer \in Int
      BY DEF Disks, Settled
    <3>4. CASE disk'.pointer = task.tx /\ task.step = "publish"
      BY <3>2, <3>4 DEF ThreadKnows, Publishing, Unpublished, InWork
    <3> QED
      BY <3>1, <3>2, <3>3, <3>4, PointerMoves
  <2>2. ASSUME "confirmed" \in told[disk.pointer], disk'.pointer # disk.pointer
        PROVE  task.step = "publish" /\ ~Reverting
    <3>1. disk.earlier = {}
      BY <2>2 DEF ReportsOnDisk
    <3>2. task.step = "publish"
      BY <2>2, <3>1, PointerMoves
    <3> QED
      BY <2>2, <3>2 DEF ReportsInWork, Working, TakesBack
  <2> QED
    BY <2>1, <2>2
<1> HIDE DEF ReportsInv
<1> QED
  BY <1>1, <1>2, ReportsStay, PTL DEF ConfigdSpec, ReportsHold
=============================================================================
