------------------------- MODULE MockConfigd_proofs -------------------------
(***************************************************************************)
(* What the simulated authority guarantees for any number of port groups,  *)
(* modes, commits and faults.  Everything rests on one inductive           *)
(* invariant: the types, the file being the image of the memory, and a     *)
(* pending record always naming a job whose outcome is still open.         *)
(***************************************************************************)
EXTENDS MockConfigd, TLAPS

\* A pending record in progress belongs to a job that nothing has decided yet.
PendingIsOpen == pending # NoPending => settled[pending.job] = "open"

\* A job told it awaits confirmation is the pending one until it is decided.
ToldIsPending ==
  \A j \in Jobs : <<j, "awaiting">> \in told /\ settled[j] = "open" => pending.job = j /\ Awaiting

LanesCarryConfiguration ==
  up => \A g \in Groups : lanes[g] = IF g \in degraded THEN Muted ELSE configuration[g]

FinalAnswers ==
  \A j \in Jobs : \A how \in {"confirmed", "rolled_back"} :
    <<j, how>> \in told => settled[j] = how

\* A refused job was never told that it awaits confirmation.
RefusedIsUntold == \A j \in Jobs : settled[j] = "refused" => <<j, "awaiting">> \notin told

IInv ==
  /\ TypeOK
  /\ MemoryIsSaved
  /\ PendingIsOpen
  /\ ToldIsPending
  /\ LanesCarryConfiguration
  /\ FinalAnswers
  /\ RefusedIsUntold
-----------------------------------------------------------------------------
\* The actions of Next, one name for each alternative of a handler.
LEMMA NextCases ==
  ASSUME Next
  PROVE  \/ Tick \/ ApplyFinish \/ ApplyFailed \/ SimulationFault
         \/ ClockReachesDeadline \/ Crash \/ Restart
         \/ \E j \in Jobs, c \in Configs, r \in 1..revision : ApplyBegin(j, c, r)
         \/ \E j \in Jobs, r \in 1..revision : ApplyRefused(j, r)
         \/ \E j \in Jobs : Confirm(j)
         \/ \E j \in Jobs : RollBack(j)
  BY DEF Next

\* A hardware pass, whether it succeeds, is restored or is not, leaves each
\* group programmed to a mode or muted.
LEMMA HardwareTyped ==
  ASSUME TypeOK, NEW before \in Configs, NEW after \in Configs,
         Written(before, after) \/ Broken(before, after)
  PROVE  /\ lanes' \in [Groups -> Modes \cup {Muted}]
         /\ degraded' \in SUBSET Groups
         /\ failure' \in BOOLEAN
<1>1. CASE Written(before, after)
  BY <1>1 DEF TypeOK, Written, Affected, Configs
<1>2. CASE Restored
  BY <1>2 DEF TypeOK, Restored
<1>3. CASE NotRestored(before, after)
  BY <1>3 DEF TypeOK, NotRestored, Affected
<1> QED
  BY <1>1, <1>2, <1>3 DEF Broken

\* A pending record that is not the empty one names a job and its before-image.
LEMMA PendingTyped ==
  ASSUME TypeOK, pending # NoPending
  PROVE  /\ pending \in [job : Jobs, before : Configs, phase : {"applying", "awaiting_confirmation"}]
         /\ pending.job \in Jobs /\ pending.before \in Configs /\ pending.job # NoJob
<1>1. pending \in Pendings
  BY DEF TypeOK, Files, File
<1> QED
  BY <1>1, MockAssumption DEF Pendings

\* The empty pending record is in no phase and names no job.
LEMMA NoPendingFields ==
  /\ NoPending.job = NoJob /\ NoPending.before = Default /\ NoPending.phase = "none"
  BY DEF NoPending

\* The components of the memory image are typed one by one.
LEMMA MemoryTyped ==
  ASSUME NEW r, NEW c, NEW p, NEW t
  PROVE  File(r, c, p, t) \in Files <=>
           r \in Nat /\ c \in Configs /\ p \in Pendings /\ t \in Transactions
  BY DEF File, Files

\* The saved file and the lanes have the declared types, and the memory is what was saved.
LEMMA TypeStep ==
  ASSUME TypeOK, MemoryIsSaved, Next
  PROVE  TypeOK' /\ MemoryIsSaved'
<1> DEFINE M == revision \in Nat /\ configuration \in Configs /\ pending \in Pendings
                  /\ last_transaction \in Transactions
<1>0. M
  BY MemoryTyped DEF TypeOK
<1>a. ASSUME M', Persist PROVE /\ disk' \in Files /\ MemoryIsSaved'
                               /\ File(revision, configuration, pending, last_transaction)' \in Files
  BY <1>a DEF Persist, MemoryIsSaved, File, Files
<1>b. ASSUME UNCHANGED <<memory, disk>>
      PROVE  /\ disk' \in Files /\ MemoryIsSaved'
             /\ File(revision, configuration, pending, last_transaction)' \in Files
  BY <1>b DEF memory, TypeOK, MemoryIsSaved, File
<1>c. ASSUME pending # NoPending, TakeBack
      PROVE  /\ M' /\ Persist /\ due' \in BOOLEAN
             /\ settled' \in [Jobs -> {"open", "refused", "confirmed", "rolled_back"}]
  <2>1. pending.job \in Jobs /\ pending.before \in Configs
    BY <1>c, PendingTyped
  <2>2. /\ configuration' \in Configs /\ revision' \in Nat /\ pending' \in Pendings
    BY <1>0, <1>c, <2>1 DEF TakeBack, Pendings
  <2>5. Persist /\ due' \in BOOLEAN
    BY <1>c DEF TakeBack
  <2>3. last_transaction' \in Transactions
    BY <1>0, <1>c, <2>1 DEF TakeBack, Transactions
  <2>4. settled' \in [Jobs -> {"open", "refused", "confirmed", "rolled_back"}]
    BY <1>c, <2>1 DEF TakeBack, Settle, TypeOK
  <2> QED
    BY <2>2, <2>3, <2>4, <2>5
<1>d. ASSUME pending # NoPending, TakeBack \/ CannotTakeBack
      PROVE  /\ lanes' \in [Groups -> Modes \cup {Muted}]
             /\ degraded' \in SUBSET Groups
             /\ failure' \in BOOLEAN
  BY <1>0, <1>d, PendingTyped, HardwareTyped DEF TakeBack, CannotTakeBack
<1>1. ASSUME Tick PROVE TypeOK' /\ MemoryIsSaved'
  <2>1. pending # NoPending
    BY <1>1, NoPendingFields DEF Tick, Expired, Awaiting
  <2>2. CASE TakeBack
    BY <1>1, <2>1, <2>2, <1>a, <1>c, <1>d DEF Tick, TypeOK
  <2>3. CASE CannotTakeBack
    BY <1>1, <2>1, <2>3, <1>b, <1>d DEF Tick, CannotTakeBack, TypeOK
  <2> QED
    BY <1>1, <2>2, <2>3 DEF Tick
<1>2. ASSUME NEW j \in Jobs, NEW c \in Configs, NEW r \in 1..revision, ApplyBegin(j, c, r)
      PROVE TypeOK' /\ MemoryIsSaved'
  <2>1. M' /\ Persist
    BY <1>0, <1>2 DEF ApplyBegin, Pendings
  <2> QED
    BY <2>1, <1>a, <1>2 DEF ApplyBegin, hardware, TypeOK
<1>3. ASSUME NEW j \in Jobs, NEW r \in 1..revision, ApplyRefused(j, r)
      PROVE TypeOK' /\ MemoryIsSaved'
  BY <1>3, <1>b DEF ApplyRefused, Settle, hardware, TypeOK
<1>4. ASSUME ApplyFinish PROVE TypeOK' /\ MemoryIsSaved'
  <2>1. pending # NoPending
    BY <1>4, NoPendingFields DEF ApplyFinish, Idle
  <2>2. pending' \in Pendings
    BY <2>1, <1>4, PendingTyped DEF ApplyFinish, Pendings
  <2>3. M' /\ Persist
    BY <1>0, <1>4, <2>2 DEF ApplyFinish, TypeOK
  <2>4. /\ lanes' \in [Groups -> Modes \cup {Muted}] /\ degraded' \in SUBSET Groups
        /\ failure' \in BOOLEAN
    BY <1>0, <1>4, HardwareTyped DEF ApplyFinish, TypeOK
  <2>5. told' \in SUBSET (Jobs \X {"awaiting", "confirmed", "rolled_back"})
    BY <2>1, <1>4, PendingTyped DEF ApplyFinish, Tell, TypeOK
  <2>6. target' \in Configs
    BY <1>4, MockAssumption DEF ApplyFinish
  <2> QED
    BY <2>3, <2>4, <2>5, <2>6, <1>a, <1>4 DEF ApplyFinish, TypeOK
<1>5. ASSUME ApplyFailed PROVE TypeOK' /\ MemoryIsSaved'
  <2>1. pending # NoPending
    BY <1>5, NoPendingFields DEF ApplyFailed, Idle
  <2>2. M' /\ Persist
    BY <1>0, <1>5 DEF ApplyFailed, Pendings
  <2>3. /\ lanes' \in [Groups -> Modes \cup {Muted}] /\ degraded' \in SUBSET Groups
        /\ failure' \in BOOLEAN
    BY <1>0, <1>5, HardwareTyped DEF ApplyFailed, TypeOK
  <2>4. settled' \in [Jobs -> {"open", "refused", "confirmed", "rolled_back"}]
    BY <1>5, <2>1, PendingTyped DEF ApplyFailed, Settle, TypeOK
  <2>5. target' \in Configs
    BY <1>5, MockAssumption DEF ApplyFailed
  <2> QED
    BY <2>2, <2>3, <2>4, <2>5, <1>a, <1>5 DEF ApplyFailed, TypeOK
<1>6. ASSUME NEW j \in Jobs, Confirm(j) PROVE TypeOK' /\ MemoryIsSaved'
  <2>1. M' /\ Persist
    BY <1>0, <1>6 DEF Confirm, Pendings, Transactions
  <2> QED
    <3>1. told' \in SUBSET (Jobs \X {"awaiting", "confirmed", "rolled_back"})
      BY <1>6 DEF Confirm, Tell, TypeOK
    <3>2. settled' \in [Jobs -> {"open", "refused", "confirmed", "rolled_back"}]
      BY <1>6 DEF Confirm, Settle, TypeOK
    <3> QED
      BY <2>1, <3>1, <3>2, <1>a, <1>6 DEF Confirm, hardware, TypeOK
<1>7. ASSUME NEW j \in Jobs, RollBack(j) PROVE TypeOK' /\ MemoryIsSaved'
  <2>1. pending # NoPending
    BY <1>7, NoPendingFields, MockAssumption DEF RollBack
  <2>2. CASE TakeBack
    BY <1>7, <2>1, <2>2, <1>a, <1>c, <1>d DEF RollBack, Tell, CannotTakeBack, TypeOK
  <2>3. CASE CannotTakeBack
    BY <1>7, <2>1, <2>3, <1>b, <1>d DEF RollBack, Tell, CannotTakeBack, TypeOK
  <2> QED
    BY <1>7, <2>2, <2>3 DEF RollBack
<1>8. ASSUME SimulationFault PROVE TypeOK' /\ MemoryIsSaved'
  BY <1>8, <1>b, MockAssumption DEF SimulationFault, memory, TypeOK
<1>9. ASSUME ClockReachesDeadline PROVE TypeOK' /\ MemoryIsSaved'
  BY <1>9, <1>b DEF ClockReachesDeadline, hardware, TypeOK
<1>10. ASSUME Crash PROVE TypeOK' /\ MemoryIsSaved'
  BY <1>10, <1>b, MockAssumption DEF Crash, TypeOK
<1>11. ASSUME Restart PROVE TypeOK' /\ MemoryIsSaved'
  <2>1. revision' \in Nat /\ configuration' \in Configs /\ last_transaction' \in Transactions
        /\ settled' \in [Jobs -> {"open", "refused", "confirmed", "rolled_back"}]
    BY <1>0, <1>11, PendingTyped DEF Restart, MemoryIsSaved, File, Transactions, Settle, TypeOK
  <2>2. M' /\ Persist
    BY <2>1, <1>11 DEF Restart, Pendings
  <2>3. lanes' \in [Groups -> Modes \cup {Muted}] /\ degraded' \in SUBSET Groups
    BY <2>1, <1>11 DEF Restart, Configs
  <2> QED
    BY <2>1, <2>2, <2>3, <1>a, <1>11 DEF Restart, TypeOK
<1> QED
  BY <1>1, <1>2, <1>3, <1>4, <1>5, <1>6, <1>7, <1>8, <1>9, <1>10, <1>11, NextCases
-----------------------------------------------------------------------------
\* A hardware pass from the active configuration leaves the lanes carrying the
\* new configuration when it succeeds and the old one when it does not.
LEMMA HardwareLanes ==
  ASSUME TypeOK, LanesCarryConfiguration, up, NEW after \in Configs
  PROVE  /\ Written(configuration, after) =>
              \A g \in Groups : lanes'[g] = IF g \in degraded' THEN Muted ELSE after[g]
         /\ Broken(configuration, after) =>
              \A g \in Groups : lanes'[g] = IF g \in degraded' THEN Muted ELSE configuration[g]
<1>1. ASSUME Written(configuration, after), NEW g \in Groups
      PROVE  lanes'[g] = IF g \in degraded' THEN Muted ELSE after[g]
  BY <1>1 DEF Written, Affected, LanesCarryConfiguration
<1>2. ASSUME Restored, NEW g \in Groups
      PROVE  lanes'[g] = IF g \in degraded' THEN Muted ELSE configuration[g]
  BY <1>2 DEF Restored, LanesCarryConfiguration
<1>3. ASSUME NotRestored(configuration, after), NEW g \in Groups
      PROVE  lanes'[g] = IF g \in degraded' THEN Muted ELSE configuration[g]
  BY <1>3 DEF NotRestored, Affected, LanesCarryConfiguration
<1> QED
  BY <1>1, <1>2, <1>3 DEF Broken

LEMMA LanesStep ==
  ASSUME TypeOK, LanesCarryConfiguration, Next
  PROVE  LanesCarryConfiguration'
<1>0. configuration \in Configs
  BY MemoryTyped DEF TypeOK
<1>1. ASSUME up, pending # NoPending, TakeBack \/ CannotTakeBack, UNCHANGED up
      PROVE  LanesCarryConfiguration'
  BY <1>1, PendingTyped, HardwareLanes DEF TakeBack, CannotTakeBack, memory, LanesCarryConfiguration
<1>2. ASSUME Tick PROVE LanesCarryConfiguration'
  BY <1>1, <1>2, NoPendingFields DEF Tick, Expired, Awaiting
<1>3. ASSUME NEW j \in Jobs, RollBack(j) PROVE LanesCarryConfiguration'
  BY <1>1, <1>3, NoPendingFields, MockAssumption DEF RollBack
<1>4. ASSUME ApplyFinish PROVE LanesCarryConfiguration'
  BY <1>4, HardwareLanes DEF ApplyFinish, TypeOK, LanesCarryConfiguration
<1>5. ASSUME ApplyFailed PROVE LanesCarryConfiguration'
  BY <1>5, HardwareLanes DEF ApplyFailed, TypeOK, LanesCarryConfiguration
<1>6. ASSUME Restart PROVE LanesCarryConfiguration'
  BY <1>6 DEF Restart, LanesCarryConfiguration
<1>7. ASSUME Crash PROVE LanesCarryConfiguration'
  BY <1>7 DEF Crash, LanesCarryConfiguration
<1>8. ASSUME UNCHANGED <<up, lanes, degraded, configuration>> PROVE LanesCarryConfiguration'
  BY <1>8 DEF LanesCarryConfiguration
<1>9. ASSUME \/ SimulationFault
             \/ ClockReachesDeadline
             \/ \E j \in Jobs, c \in Configs, r \in 1..revision : ApplyBegin(j, c, r)
             \/ \E j \in Jobs, r \in 1..revision : ApplyRefused(j, r)
             \/ \E j \in Jobs : Confirm(j)
      PROVE  LanesCarryConfiguration'
  BY <1>8, <1>9 DEF SimulationFault, ClockReachesDeadline, ApplyBegin, ApplyRefused, Confirm,
                    memory, hardware
<1> QED
  BY <1>2, <1>3, <1>4, <1>5, <1>6, <1>7, <1>9, NextCases
-----------------------------------------------------------------------------
\* How the outcomes and the answers move: the part of the invariant about jobs.
Answers == PendingIsOpen /\ ToldIsPending /\ FinalAnswers /\ RefusedIsUntold

LEMMA AnswersStep ==
  ASSUME TypeOK, MemoryIsSaved, Answers, Next
  PROVE  Answers'
<1> USE DEF Answers, PendingIsOpen, ToldIsPending, FinalAnswers, RefusedIsUntold
<1>0. settled \in [Jobs -> {"open", "refused", "confirmed", "rolled_back"}]
  BY DEF TypeOK
<1>1. ASSUME pending # NoPending, Awaiting, TakeBack, UNCHANGED told PROVE Answers'
  BY <1>0, <1>1, PendingTyped, NoPendingFields DEF TakeBack, Settle
<1>2. ASSUME CannotTakeBack, UNCHANGED told PROVE Answers'
  BY <1>2 DEF CannotTakeBack, memory, Awaiting
<1>3. ASSUME Tick PROVE Answers'
  BY <1>1, <1>2, <1>3, NoPendingFields DEF Tick, Expired, Awaiting
<1>4. ASSUME NEW j \in Jobs, RollBack(j) PROVE Answers'
  <2>1. pending # NoPending
    BY <1>4, NoPendingFields, MockAssumption DEF RollBack
  <2>2. CASE TakeBack /\ Tell(j, "rolled_back")
    BY <1>0, <1>4, <2>1, <2>2, PendingTyped, NoPendingFields DEF RollBack, TakeBack, Settle, Tell
  <2> QED
    BY <1>2, <1>4, <2>2 DEF RollBack
<1>5. ASSUME NEW j \in Jobs, NEW c \in Configs, NEW r \in 1..revision, ApplyBegin(j, c, r)
      PROVE  Answers'
  BY <1>0, <1>5, NoPendingFields, MockAssumption DEF ApplyBegin, Awaiting
<1>6. ASSUME NEW j \in Jobs, NEW r \in 1..revision, ApplyRefused(j, r) PROVE Answers'
  BY <1>0, <1>6 DEF ApplyRefused, Settle, memory, Awaiting
<1>7. ASSUME ApplyFinish PROVE Answers'
  BY <1>0, <1>7, PendingTyped, NoPendingFields DEF ApplyFinish, Idle, Tell, Awaiting
<1>8. ASSUME ApplyFailed PROVE Answers'
  BY <1>0, <1>8, PendingTyped, NoPendingFields DEF ApplyFailed, Idle, Settle, Awaiting
<1>9. ASSUME NEW j \in Jobs, Confirm(j) PROVE Answers'
  BY <1>0, <1>9, PendingTyped, NoPendingFields, MockAssumption DEF Confirm, Settle, Tell, Awaiting
<1>10. ASSUME Restart PROVE Answers'
  BY <1>0, <1>10, PendingTyped, NoPendingFields DEF Restart, MemoryIsSaved, File, Settle, Awaiting
<1>11. ASSUME SimulationFault \/ ClockReachesDeadline \/ Crash PROVE Answers'
  BY <1>11 DEF SimulationFault, ClockReachesDeadline, Crash, memory, Awaiting
<1> QED
  BY <1>3, <1>4, <1>5, <1>6, <1>7, <1>8, <1>9, <1>10, <1>11, NextCases
-----------------------------------------------------------------------------
LEMMA Inductive == Spec => []IInv
<1>1. Init => IInv
  <2> SUFFICES ASSUME Init PROVE IInv
    OBVIOUS
  <2>1. TypeOK
    <3>1. disk \in Files /\ File(revision, configuration, pending, last_transaction) \in Files
      BY MockAssumption, MemoryTyped DEF Init, Pendings, Transactions
    <3>2. lanes \in [Groups -> Modes \cup {Muted}] /\ target \in Configs
      BY MockAssumption DEF Init, Configs
    <3>3. up \in BOOLEAN /\ failure \in BOOLEAN /\ due \in BOOLEAN
      BY DEF Init
    <3>4. faults \in 0..MaxFaults
      BY MockAssumption DEF Init
    <3>5. /\ degraded \in SUBSET Groups
          /\ settled \in [Jobs -> {"open", "refused", "confirmed", "rolled_back"}]
          /\ told \in SUBSET (Jobs \X {"awaiting", "confirmed", "rolled_back"})
      BY DEF Init
    <3> QED
      BY <3>1, <3>2, <3>3, <3>4, <3>5 DEF TypeOK
  <2>2. MemoryIsSaved /\ LanesCarryConfiguration
    BY DEF Init, MemoryIsSaved, LanesCarryConfiguration
  <2>3. PendingIsOpen /\ ToldIsPending /\ FinalAnswers /\ RefusedIsUntold
    BY DEF Init, PendingIsOpen, ToldIsPending, FinalAnswers, RefusedIsUntold
  <2> QED
    BY <2>1, <2>2, <2>3 DEF IInv
<1>2. IInv /\ [Next]_vars => IInv'
  <2> SUFFICES ASSUME IInv, [Next]_vars PROVE IInv'
    OBVIOUS
  <2>1. CASE Next
    BY <2>1, TypeStep, LanesStep, AnswersStep DEF IInv, Answers
  <2>2. CASE UNCHANGED vars
    BY <2>2 DEF vars, memory, hardware, IInv, TypeOK, MemoryIsSaved, PendingIsOpen, ToldIsPending,
                LanesCarryConfiguration, FinalAnswers, RefusedIsUntold, Awaiting
  <2> QED
    BY <2>1, <2>2
<1> QED
  BY <1>1, <1>2, PTL DEF Spec

\* Every state of the simulator is well typed, whatever the sizes of its parts.
THEOREM TypeCorrect == Spec => []TypeOK
<1>1. IInv => TypeOK
  BY DEF IInv
<1> QED
  BY <1>1, Inductive, PTL

\* Between calls the lanes carry the active configuration, or are muted and reported.
THEOREM LanesCorrect == Spec => []LanesFollowConfiguration
<1>1. IInv => LanesFollowConfiguration
  BY DEF IInv, LanesCarryConfiguration, LanesFollowConfiguration
<1> QED
  BY <1>1, Inductive, PTL

\* No crash, timer or later call contradicts an answer that was given.
THEOREM AnswersCorrect == Spec => []AnswersAreDurable
<1>1. IInv => AnswersAreDurable
  <2> SUFFICES ASSUME IInv, NEW j \in Jobs
               PROVE  /\ <<j, "confirmed">> \in told => settled[j] = "confirmed"
                      /\ <<j, "rolled_back">> \in told => settled[j] = "rolled_back"
                      /\ <<j, "awaiting">> \in told /\ pending.job # j
                           => settled[j] \in {"confirmed", "rolled_back"}
    BY DEF AnswersAreDurable
  <2>1. settled[j] \in {"open", "refused", "confirmed", "rolled_back"}
    BY DEF IInv, TypeOK
  <2> QED
    BY <2>1 DEF IInv, FinalAnswers, ToldIsPending, RefusedIsUntold
<1> QED
  BY <1>1, Inductive, PTL
-----------------------------------------------------------------------------
\* What one step does to the saved revision and configuration.
LEMMA RevisionStep ==
  ASSUME TypeOK, MemoryIsSaved, Next
  PROVE  /\ disk'.revision >= disk.revision
         /\ disk'.revision = disk.revision => disk'.configuration = disk.configuration
<1> DEFINE Good == /\ disk'.revision >= disk.revision
                   /\ disk'.revision = disk.revision => disk'.configuration = disk.configuration
<1>0. disk.revision = revision /\ disk.configuration = configuration /\ revision \in Nat
  BY MemoryTyped DEF TypeOK, MemoryIsSaved, File
<1>1. ASSUME Persist, revision' = revision, configuration' = configuration PROVE Good
  BY <1>0, <1>1 DEF Persist, File
<1>2. ASSUME Persist, revision' = revision + 1 PROVE Good
  BY <1>0, <1>2 DEF Persist, File
<1>3. ASSUME UNCHANGED disk PROVE Good
  BY <1>0, <1>3
<1>4. ASSUME TakeBack \/ CannotTakeBack PROVE Good
  BY <1>2, <1>3, <1>4 DEF TakeBack, CannotTakeBack
<1>5. CASE Tick
  BY <1>4, <1>5 DEF Tick
<1>6. CASE \E j \in Jobs : RollBack(j)
  BY <1>4, <1>6 DEF RollBack
<1>7. CASE ApplyFinish
  BY <1>2, <1>7 DEF ApplyFinish
<1>8. CASE Restart
  BY <1>0, <1>1, <1>2, <1>8 DEF Restart
<1>9. CASE \/ \E j \in Jobs, c \in Configs, r \in 1..revision : ApplyBegin(j, c, r)
           \/ ApplyFailed
           \/ \E j \in Jobs : Confirm(j)
  BY <1>1, <1>9 DEF ApplyBegin, ApplyFailed, Confirm
<1>10. CASE \/ SimulationFault \/ ClockReachesDeadline \/ Crash
            \/ \E j \in Jobs, r \in 1..revision : ApplyRefused(j, r)
  BY <1>3, <1>10 DEF SimulationFault, ClockReachesDeadline, Crash, ApplyRefused
<1> QED
  BY <1>5, <1>6, <1>7, <1>8, <1>9, <1>10, NextCases

\* An edit prepared against a revision is only ever applied to the
\* configuration that carried that number.
THEOREM RevisionCorrect == Spec => RevisionNamesConfiguration
<1>1. IInv /\ [Next]_vars =>
        [/\ disk'.revision >= disk.revision
         /\ disk'.revision = disk.revision => disk'.configuration = disk.configuration]_vars
  BY RevisionStep DEF IInv
<1> QED
  BY <1>1, Inductive, PTL DEF Spec, RevisionNamesConfiguration
-----------------------------------------------------------------------------
(* The simulator implements the abstract authority.  Its saved file alone   *)
(* decides what the authority's state is, so only saves are visible steps.  *)

\* While apply is between its saves, the before-image is what is still active.
BeforeIsActive == ~Idle => pending.before = configuration

LEMMA BeforeStep ==
  ASSUME TypeOK, BeforeIsActive, Next
  PROVE  BeforeIsActive'
<1> USE DEF BeforeIsActive, Idle
<1>1. ASSUME TakeBack \/ CannotTakeBack PROVE BeforeIsActive'
  BY <1>1, NoPendingFields DEF TakeBack, CannotTakeBack, memory
<1>2. CASE Tick \/ \E j \in Jobs : RollBack(j)
  BY <1>1, <1>2 DEF Tick, RollBack
<1>3. CASE ApplyFinish \/ ApplyFailed \/ Restart \/ \E j \in Jobs : Confirm(j)
  BY <1>3, NoPendingFields DEF ApplyFinish, ApplyFailed, Restart, Confirm
<1>4. CASE \E j \in Jobs, c \in Configs, r \in 1..revision : ApplyBegin(j, c, r)
  BY <1>4 DEF ApplyBegin
<1>5. CASE \/ SimulationFault \/ ClockReachesDeadline \/ Crash
           \/ \E j \in Jobs, r \in 1..revision : ApplyRefused(j, r)
  BY <1>5 DEF SimulationFault, ClockReachesDeadline, Crash, ApplyRefused, memory
<1> QED
  BY <1>2, <1>3, <1>4, <1>5, NextCases

\* A pending record that no apply holds awaits confirmation.
LEMMA AwaitingOrNone ==
  ASSUME TypeOK, pending # NoPending, Idle
  PROVE  pending.phase = "awaiting_confirmation"
  BY PendingTyped DEF Idle

AbstractStep == [Authority!Next]_(Authority!vars)

LEMMA ImplementationStep ==
  ASSUME TypeOK, MemoryIsSaved, Answers, BeforeIsActive, Next
  PROVE  AbstractStep
<1> USE DEF AbstractStep
<1>0. /\ disk.revision = revision /\ disk.configuration = configuration
      /\ disk.pending = pending /\ configuration \in Configs
      /\ settled \in [Jobs -> {"open", "refused", "confirmed", "rolled_back"}]
  BY MemoryTyped DEF TypeOK, MemoryIsSaved, File
<1>1. ASSUME UNCHANGED <<disk, settled>> PROVE AbstractStep
  BY <1>1 DEF Authority!vars, Provisional
<1>s. ASSUME Persist
      PROVE  disk'.configuration = configuration' /\ disk'.pending = pending'
  BY <1>s DEF Persist, File
<1>2. ASSUME pending # NoPending, Idle, TakeBack PROVE Authority!RollBack
  <2>1. /\ pending.phase = "awaiting_confirmation" /\ pending.job \in Jobs /\ pending.job # NoJob
        /\ disk'.configuration = pending.before /\ disk'.pending = NoPending
        /\ settled' = [settled EXCEPT ![pending.job] = "rolled_back"]
    BY <1>2, <1>s, AwaitingOrNone, PendingTyped DEF TakeBack, Settle
  <2> QED
    BY <1>0, <2>1, NoPendingFields DEF Authority!RollBack, Provisional
<1>3. ASSUME CannotTakeBack PROVE AbstractStep
  BY <1>1, <1>3 DEF CannotTakeBack
<1>4. CASE Tick
  BY <1>2, <1>3, <1>4, NoPendingFields DEF Tick, Expired, Awaiting, Authority!Next
<1>5. CASE \E j \in Jobs : RollBack(j)
  BY <1>2, <1>3, <1>5, NoPendingFields, MockAssumption DEF RollBack, Authority!Next
<1>6. ASSUME NEW j \in Jobs, NEW c \in Configs, NEW r \in 1..revision, ApplyBegin(j, c, r)
      PROVE  AbstractStep
  <2>1. /\ disk'.configuration = configuration /\ disk'.pending.phase = "applying"
        /\ settled' = settled /\ disk.pending.phase = "none"
    BY <1>0, <1>6, <1>s, NoPendingFields DEF ApplyBegin
  <2> QED
    BY <1>0, <2>1 DEF Authority!vars, Provisional
<1>7. ASSUME NEW j \in Jobs, NEW r \in 1..revision, ApplyRefused(j, r) PROVE AbstractStep
  <2>1. Authority!Abandon(j, "refused")
    BY <1>0, <1>7 DEF ApplyRefused, Settle, Authority!Abandon, Provisional
  <2> QED
    BY <2>1 DEF Authority!Next
<1>8. CASE ApplyFinish
  <2>1. /\ pending # NoPending /\ pending.job \in Jobs /\ pending.job # NoJob
        /\ pending.phase = "applying" /\ pending.before = configuration
    BY <1>8, NoPendingFields, PendingTyped DEF ApplyFinish, Idle, BeforeIsActive
  <2>2. /\ disk'.configuration = target /\ disk'.pending.phase = "awaiting_confirmation"
        /\ disk'.pending.job = pending.job /\ disk'.pending.before = pending.before
        /\ settled' = settled /\ settled[pending.job] = "open" /\ target \in Configs
    BY <1>8, <2>1, <1>s DEF ApplyFinish, Answers, PendingIsOpen, TypeOK
  <2> PICK j \in Jobs, c \in Configs : j = pending.job /\ c = target
    BY <2>1, <2>2
  <2>3. Authority!Stage(j, c)
    BY <1>0, <2>1, <2>2 DEF Authority!Stage, Provisional
  <2> QED
    BY <2>3 DEF Authority!Next
<1>9. CASE ApplyFailed
  <2>1. /\ pending # NoPending /\ pending.job \in Jobs /\ pending.phase = "applying"
        /\ settled[pending.job] = "open"
    BY <1>9, NoPendingFields, PendingTyped DEF ApplyFailed, Idle, Answers, PendingIsOpen
  <2>2. disk'.configuration = configuration /\ disk'.pending = NoPending
    BY <1>9, <1>s DEF ApplyFailed
  <2>3. Authority!Abandon(pending.job, "refused")
    BY <1>0, <1>9, <2>1, <2>2, NoPendingFields
    DEF ApplyFailed, Settle, Authority!Abandon, Provisional
  <2> QED
    BY <2>1, <2>3 DEF Authority!Next
<1>10. ASSUME NEW j \in Jobs, Confirm(j) PROVE AbstractStep
  <2>1. pending # NoPending /\ pending.phase = "awaiting_confirmation" /\ pending.job = j /\ j # NoJob
    BY <1>10, NoPendingFields, AwaitingOrNone, MockAssumption DEF Confirm
  <2>2. /\ disk'.configuration = configuration /\ disk'.pending = NoPending
        /\ settled' = [settled EXCEPT ![j] = "confirmed"]
    BY <1>10, <1>s DEF Confirm, Settle
  <2>3. Authority!Confirm
    BY <1>0, <2>1, <2>2, NoPendingFields DEF Authority!Confirm, Provisional
  <2> QED
    BY <2>3 DEF Authority!Next
<1>11. CASE Restart
  <2>0. disk'.configuration = configuration' /\ disk'.pending = NoPending
    BY <1>11, <1>s DEF Restart
  <2>1. CASE pending = NoPending
    BY <1>0, <1>11, <2>0, <2>1, NoPendingFields DEF Restart, Authority!vars, Provisional
  <2>2. CASE pending # NoPending
    <3>1. /\ pending.job \in Jobs /\ pending.job # NoJob
          /\ disk'.configuration = pending.before
          /\ settled' = [settled EXCEPT ![pending.job] = "rolled_back"]
          /\ settled[pending.job] = "open"
      BY <1>0, <1>11, <2>0, <2>2, PendingTyped DEF Restart, Settle, Answers, PendingIsOpen
    <3>2. CASE Idle
      <4>1. Authority!RollBack
        BY <1>0, <2>0, <2>2, <3>1, <3>2, AwaitingOrNone, NoPendingFields
        DEF Authority!RollBack, Provisional
      <4> QED
        BY <4>1 DEF Authority!Next
    <3>3. CASE ~Idle
      <4>1. Authority!Abandon(pending.job, "rolled_back")
        BY <1>0, <2>0, <3>1, <3>3, NoPendingFields
        DEF Idle, BeforeIsActive, Authority!Abandon, Provisional
      <4> QED
        BY <3>1, <4>1 DEF Authority!Next
    <3> QED
      BY <3>2, <3>3
  <2> QED
    BY <2>1, <2>2
<1>12. CASE SimulationFault \/ ClockReachesDeadline \/ Crash
  BY <1>1, <1>12 DEF SimulationFault, ClockReachesDeadline, Crash
<1> QED
  BY <1>4, <1>5, <1>6, <1>7, <1>8, <1>9, <1>10, <1>11, <1>12, NextCases

\* For any configuration space and any number of commits, the simulator's file
\* moves only as the abstract authority allows: staged, confirmed in time, or
\* taken back to exactly the configuration that was safe before.
THEOREM Refinement == Spec => Implements
<1>1. Init => Authority!Init /\ BeforeIsActive
  BY NoPendingFields
  DEF Init, File, Authority!Init, Provisional, BeforeIsActive, Idle
<1>2. IInv /\ BeforeIsActive /\ [Next]_vars => BeforeIsActive' /\ AbstractStep
  <2>1. ASSUME IInv, BeforeIsActive, Next PROVE BeforeIsActive' /\ AbstractStep
    BY <2>1, BeforeStep, ImplementationStep DEF IInv, Answers
  <2>2. ASSUME BeforeIsActive, UNCHANGED vars PROVE BeforeIsActive' /\ AbstractStep
    BY <2>2 DEF vars, memory, BeforeIsActive, Idle, AbstractStep, Authority!vars, Provisional
  <2> QED
    BY <2>1, <2>2
<1> QED
  BY <1>1, <1>2, Inductive, PTL DEF Spec, AbstractStep, Implements, Authority!Spec
=============================================================================
