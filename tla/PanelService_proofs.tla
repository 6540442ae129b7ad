------------------------ MODULE PanelService_proofs ------------------------
(***************************************************************************)
(* The panel's jobs agree with configd for any number of jobs, drafts,     *)
(* revisions and troubles.                                                 *)
(*                                                                         *)
(* The panel knows a transaction by its revision only.  Whatever it has    *)
(* taken for a job's revision (Claim) belongs to no other job in any       *)
(* snapshot it still looks at, because configd counts revisions up and has *)
(* one configuration in doubt at a time (AuthorityIsConsistent).  What is  *)
(* still on the wire cannot reach a job that has ended (WireIsHarmless),   *)
(* and the owner thread works on a job that nobody else moves on           *)
(* (OwnerHoldsItsJob).                                                     *)
(***************************************************************************)
EXTENDS PanelService, TLAPS

\* A commit whose record was not saved: its job is in doubt, and the record is another's.
Unsaved == \E j \in Jobs : fate[j] = "awaiting" /\ record.job # j

AuthorityIsConsistent ==
  /\ record.state # "none" => record.job \in Jobs /\ record.revision # 0
  /\ record.state = "none" => record.revision = 0
  /\ Pending => record.revision = revision
  /\ record.state \in {"awaiting", "timed_out"} => fate[record.job] = "awaiting" \/ Unsaved
  /\ Pending => fate[record.job] = "awaiting"
  /\ record.state \in {"confirmed", "rolled_back"} => fate[record.job] = record.state
  /\ Unsaved => ~synced
  /\ \A i, j \in Jobs : fate[i] = "awaiting" /\ fate[j] = "awaiting" => i = j

\* Revision r is that of job j's configuration, and of nothing else.
Claim(j, r) ==
  /\ r \in 1..revision
  /\ record.revision = r => record.job = j
  /\ seen.terminal.revision = r => seen.terminal.job = j
  /\ fate[j] # "none"
  /\ r = revision => \A i \in Jobs : fate[i] = "awaiting" => i = j

ClaimsAreTrue ==
  /\ \A j \in Jobs : jobs[j].state = "awaiting_confirmation" => Claim(j, jobs[j].revision)
  /\ reader.job # NoJob => Claim(reader.job, reader.revision)

\* A sample is as true when it is used as when it was read.
SampleIsTrue ==
  /\ owner.step # "sampled" => seen.terminal = NoRecord
  /\ seen.terminal.state \in {"confirmed", "rolled_back"} /\ seen.terminal.job \in Jobs =>
       fate[seen.terminal.job] = seen.terminal.state

OneApply ==
  \A m, n \in wire : m.method = "apply" /\ n.method = "apply" /\ m.job = n.job => m = n

WireIsHarmless ==
  \A m \in wire :
    /\ m.method = "apply" =>
         fate[m.job] = "none" /\ jobs[m.job].state \in {"running", "failed", "forgotten"}
    /\ m.method \in {"confirm", "rollback"} =>
         jobs[m.job].state \in {"awaiting_confirmation", "done", "rolled_back", "forgotten"}

OwnerHoldsItsJob ==
  /\ owner.step = "idle" => owner = Idle
  /\ owner.step \in {"waiting", "recovered", "check"} => owner.job \in Jobs /\ owner.method # "none"
  /\ owner.step = "recovered" => owner.method = "recover"
  /\ owner.step = "check" => owner.method # "recover"
  /\ owner.step \in {"waiting", "check"} /\ owner.method = "apply" =>
       jobs[owner.job].state = "running"
  /\ owner.step \in {"waiting", "recovered"} /\ owner.method = "recover" =>
       /\ jobs[owner.job].state = "running" /\ fate[owner.job] = "none"
       /\ \A m \in wire : m.method = "apply" => m.job # owner.job
  /\ owner.step \in {"waiting", "check"} /\ owner.method \in {"confirm", "rollback"} =>
       jobs[owner.job].state = "awaiting_confirmation" /\ Claim(owner.job, owner.revision)

\* What has not been started was never committed, and what runs cannot be confirmed.
JobsAreStartedOnce ==
  /\ \A j \in Jobs : jobs[j].state \in {"absent", "queued"} => fate[j] = "none"
  /\ \A j \in Jobs : jobs[j].state = "running" => fate[j] # "confirmed"
  /\ busy # NoJob =>
       /\ request.kind \in {"apply", "recover"}
       /\ request.kind = "apply" => request.base # 0
       /\ jobs[busy].state \notin {"absent", "forgotten"}

IInv ==
  /\ TypeOK /\ AuthorityIsConsistent /\ ClaimsAreTrue /\ SampleIsTrue /\ WireIsHarmless
  /\ OneApply /\ OwnerHoldsItsJob /\ JobsAreStartedOnce
  /\ JobsTellTheTruth /\ FailedIsNeverConfirmed
-----------------------------------------------------------------------------
USE ServiceAssumption
USE DEF IInv, TypeOK, AuthorityIsConsistent, Claim, ClaimsAreTrue, SampleIsTrue, WireIsHarmless, OneApply,
        OwnerHoldsItsJob, JobsAreStartedOnce, JobsTellTheTruth, FailedIsNeverConfirmed, Unsaved,
        Outcomes, JobStates, Methods, Pending, PendingJob, Terminal, Trouble, NoRecord, NoRequest,
        Idle, Absent, Forgotten, authority, tables

\* Nothing is committed, under way or known.
LEMMA InitHolds == Init => IInv
  BY DEF Init

\* Whether the replay works or not, these keep their types.
LEMMA FollowsType ==
  ASSUME TypeOK, Follows
  PROVE  synced' \in BOOLEAN /\ trouble' \in 0..MaxTrouble
  <1>1. synced' \in BOOLEAN
    BY Zenon DEF Follows
  <1>2. trouble' \in 0..MaxTrouble
    BY DEF Follows
  <1> QED
    BY <1>1, <1>2

\* What a request or the timer does to configd keeps the invariant.
LEMMA AuthorityKeeps ==
  ASSUME IInv, Timeout \/ LoseSync \/ NativeReplay
  PROVE  IInv'
  <1>1. CASE Timeout
    <2>1. CASE synced /\ Restore
      BY <1>1, <2>1, FollowsType DEF Timeout, Restore
    <2>2. CASE synced /\ RestoreFails
      BY <1>1, <2>2 DEF Timeout, RestoreFails
    <2>3. CASE ~synced
      BY <1>1, <2>3 DEF Timeout
    <2> QED
      BY <1>1, <2>1, <2>2, <2>3 DEF Timeout
  <1>2. CASE LoseSync
    <2>1. /\ synced' \in BOOLEAN /\ ~synced' /\ Trouble
          /\ UNCHANGED <<revision, record, fate, wire, tables, owner, seen, reader>>
      BY <1>2, Zenon DEF LoseSync
    <2> QED
      BY <2>1
  <1>3. CASE NativeReplay
    BY <1>3 DEF NativeReplay, Reconciled
  <1> QED
    BY <1>1, <1>2, <1>3

\* So does the handling of a request, in time or late.
LEMMA DeliveryKeeps ==
  ASSUME IInv, NEW m \in wire, Deliver(m)
  PROVE  IInv'
  <1>1. CASE m.method = "apply" /\ HandleApply(m) /\ UNCHANGED owner
    <2>. DEFINE New == [job |-> m.job, revision |-> revision + 1, state |-> "awaiting"]
                Saved == record' = New /\ IF record.state = "timed_out"
                                           THEN Trouble /\ UNCHANGED synced ELSE Follows
                NotSaved == Trouble /\ synced' = FALSE /\ UNCHANGED record
    <2>1. ASSUME Committed(m), synced' \in BOOLEAN, trouble' \in 0..MaxTrouble,
                 record' = New \/ (~synced' /\ UNCHANGED record)
          PROVE  IInv'
      <3>1. fate'[m.job] = "awaiting" /\ \A i \in Jobs \ {m.job} : fate'[i] # "awaiting"
        BY <2>1 DEF Committed
      <3>2. \A i \in Jobs \ {m.job} : fate[i] # "awaiting" => fate'[i] = fate[i]
        BY <2>1 DEF Committed
      <3>3. \A i \in Jobs \ {m.job} : fate[i] = "awaiting" => fate'[i] = "kept"
        BY <2>1 DEF Committed
      <3>4. fate' \in [Jobs -> {"none", "awaiting", "confirmed", "rolled_back", "kept"}]
        BY <2>1 DEF Committed
      <3>5. revision < MaxRevision /\ revision' = revision + 1
        BY <2>1 DEF Committed
      <3>6. ~Pending /\ synced /\ fate[m.job] = "none"
        BY <1>1 DEF HandleApply
      <3>7. wire' = wire \ {m} /\ UNCHANGED <<jobs, busy, request, drafts, seen, reader, owner>>
        BY <1>1 DEF Deliver
      <3> HIDE DEF New
      <3>8. AuthorityIsConsistent'
        <4>1. CASE record' = New
          BY <3>1, <3>5, <4>1 DEF New
        <4>2. CASE ~synced' /\ UNCHANGED record
          BY <3>1, <3>2, <3>3, <3>5, <3>6, <4>2
        <4> QED
          BY <2>1, <4>1, <4>2
      <3>9. record'.revision = revision' \/ UNCHANGED record
        BY <2>1, <3>5 DEF New
      <3>10. record' \in Outcomes /\ record'.state # "uncertain" /\ record'.job \in Jobs \cup {NoJob}
        BY <2>1, <3>5 DEF New
      <3>11. \A i \in Jobs, r \in Nat : Claim(i, r) => Claim(i, r)'
        BY <3>1, <3>2, <3>3, <3>5, <3>6, <3>7, <3>9
      <3>12. ClaimsAreTrue' /\ SampleIsTrue'
        BY <3>1, <3>2, <3>3, <3>5, <3>6, <3>7, <3>11
      <3>13. WireIsHarmless' /\ OneApply'
        <4>1. \A n \in wire' : n \in wire /\ (n.method = "apply" => n.job # m.job)
          BY <1>1, <3>7
        <4> QED
          BY <3>1, <3>2, <3>3, <3>7, <4>1
      <3>14. OwnerHoldsItsJob'
        BY <1>1, <3>1, <3>2, <3>3, <3>5, <3>6, <3>7, <3>11
      <3>15. JobsAreStartedOnce' /\ JobsTellTheTruth' /\ FailedIsNeverConfirmed'
        BY <1>1, <3>1, <3>2, <3>3, <3>6, <3>7
      <3>16. TypeOK'
        BY <2>1, <3>4, <3>5, <3>7, <3>10
      <3> QED
        BY <3>8, <3>12, <3>13, <3>14, <3>15, <3>16
    <2>2. CASE Trouble /\ synced' = FALSE /\ UNCHANGED <<revision, record, fate>>
      <3>1. synced' \in BOOLEAN /\ ~synced'
        BY <2>2, Zenon
      <3>2. Trouble /\ UNCHANGED <<revision, record, fate>>
        BY <2>2
      <3> QED
        BY <1>1, <3>1, <3>2 DEF Deliver
    <2>3. CASE Committed(m)
      <3>1. CASE Saved
        <4>1. synced' \in BOOLEAN /\ trouble' \in 0..MaxTrouble
          BY <3>1, FollowsType
        <4> QED
          BY <2>1, <2>3, <3>1, <4>1
      <3>2. CASE NotSaved
        <4>1. synced' \in BOOLEAN /\ ~synced' /\ Trouble /\ UNCHANGED record
          BY <3>2, Zenon
        <4> QED
          BY <2>1, <2>3, <4>1
      <3> QED
        BY <2>3, <3>1, <3>2 DEF Committed
    <2> QED
      BY <1>1, <2>2, <2>3 DEF HandleApply, Committed
  <1>2. CASE m.method = "confirm" /\ HandleConfirm(m) /\ UNCHANGED owner
    BY <1>2 DEF Deliver, HandleConfirm
  <1>3. CASE m.method = "rollback" /\ HandleRollback(m) /\ UNCHANGED owner
    <2>1. CASE Restore
      BY <1>3, <2>1, FollowsType DEF Deliver, HandleRollback, Restore
    <2>2. CASE RestoreFails
      BY <1>3, <2>2 DEF Deliver, HandleRollback, RestoreFails
    <2> QED
      BY <1>3, <2>1, <2>2 DEF HandleRollback
  <1>4. CASE NotHandled(m) /\ UNCHANGED owner
    BY <1>4 DEF Deliver, NotHandled
  <1>5. CASE m.method = "recover" /\ HandleRecover(m)
    BY <1>5 DEF Deliver, HandleRecover, Reconciled, Message
  <1> QED
    BY <1>1, <1>2, <1>3, <1>4, <1>5 DEF Deliver

\* So do the web threads that prepare a draft, or read the configuration, and a
\* restart of the panel.
LEMMA DraftsKeep ==
  ASSUME IInv, (\E d \in Drafts : Preview(d) \/ DraftExpires(d)) \/ ReadConfig \/ Register \/ PanelRestart
  PROVE  IInv'
  <1>1. ASSUME NEW d \in Drafts, Preview(d) \/ DraftExpires(d) PROVE IInv'
    BY <1>1 DEF Preview, DraftExpires
  <1>2. CASE ReadConfig
    BY <1>2 DEF ReadConfig
  <1>3. CASE Register
    BY <1>3 DEF Register
  <1>4. CASE PanelRestart
    <2>1. \A i \in Jobs : jobs'[i] = Forgotten \/ (jobs'[i] = Absent /\ jobs[i] = Absent)
      BY <1>4 DEF PanelRestart
    <2>2. jobs' \in [Jobs -> [state : JobStates, revision : 0..MaxRevision]]
      BY <1>4 DEF PanelRestart
    <2>3. \A i \in Jobs : jobs'[i].state = "forgotten" \/ (jobs'[i].state = "absent" /\ jobs[i].state = "absent")
      BY <2>1
    <2>4. wire' = wire /\ UNCHANGED authority /\ busy' = NoJob /\ owner' = Idle
          /\ seen' = [job |-> NoJob, terminal |-> NoRecord] /\ reader' = [job |-> NoJob, revision |-> 0]
      BY <1>4 DEF PanelRestart
    <2>5. TypeOK'
      BY <1>4, <2>2 DEF PanelRestart
    <2>6. AuthorityIsConsistent' /\ ClaimsAreTrue' /\ SampleIsTrue'
      BY <2>3, <2>4
    <2>7. WireIsHarmless' /\ OneApply' /\ OwnerHoldsItsJob' /\ JobsAreStartedOnce'
      BY <2>3, <2>4
    <2>8. JobsTellTheTruth' /\ FailedIsNeverConfirmed'
      BY <2>3
    <2> QED
      BY <2>5, <2>6, <2>7, <2>8
  <1> QED
    BY <1>1, <1>2, <1>3, <1>4

\* So do those that begin a job.
LEMMA JobsKeep ==
  ASSUME IInv, NEW j \in Jobs, (\E d \in Drafts : Commit(j, d)) \/ RecoverControl(j) \/ NotQueued(j)
  PROVE  IInv'
  <1>1. ASSUME NEW d \in Drafts, Commit(j, d) PROVE IInv'
    BY <1>1 DEF Commit
  <1>2. CASE RecoverControl(j)
    BY <1>2 DEF RecoverControl
  <1>3. CASE NotQueued(j)
    BY <1>3 DEF NotQueued
  <1> QED
    BY <1>1, <1>2, <1>3

\* So does a confirmation or rollback that is sent off.
LEMMA FinishKeeps ==
  ASSUME IInv, NEW j \in Jobs, NEW method \in {"confirm", "rollback"}, Finish(j, method)
  PROVE  IInv'
  BY DEF Finish, Send

\* So does the owner thread.
LEMMA OwnerKeeps ==
  ASSUME IInv, SampleRead \/ Owner
  PROVE  IInv'
  <1>1. CASE SampleRead
    BY <1>1 DEF SampleRead
  <1>2. CASE Start
    BY <1>2 DEF Start, Send, Waiting
  <1>3. CASE Answered
    BY <1>3 DEF Answered
  <1>4. CASE CheckApply
    <2>1. CASE jobs' = [jobs EXCEPT ![owner.job] = [state |-> "awaiting_confirmation", revision |-> revision]]
               /\ Proven
      BY <1>4, <2>1 DEF CheckApply, Proven
    <2>2. CASE jobs' = [jobs EXCEPT ![owner.job].state = "failed"]
      BY <1>4, <2>2 DEF CheckApply
    <2> QED
      BY <1>4, <2>1, <2>2 DEF CheckApply
  <1>5. CASE CheckRecover
    <2>1. CASE jobs' = [jobs EXCEPT ![owner.job].state = "done"]
      BY <1>5, <2>1 DEF CheckRecover
    <2>2. CASE jobs' = [jobs EXCEPT ![owner.job].state = "failed"]
      BY <1>5, <2>2 DEF CheckRecover
    <2> QED
      BY <1>5, <2>1, <2>2 DEF CheckRecover
  <1>6. CASE CheckFinish
    <2>1. CASE FinishProven /\ owner'.step = "refresh"
      <3>1. record.job = owner.job /\ owner.job \in Jobs /\ record.state = Terminal.state
        BY <1>6, <2>1 DEF CheckFinish, FinishProven
      <3>2. fate[owner.job] = IF owner.method = "confirm" THEN "confirmed" ELSE "rolled_back"
        BY <1>6, <2>1, <3>1 DEF CheckFinish, FinishProven
      <3>3. jobs[owner.job].state = "awaiting_confirmation" /\ owner.step = "check"
        BY <1>6 DEF CheckFinish
      <3>4. owner' = [owner EXCEPT !.step = "refresh"] /\ trouble' \in 0..MaxTrouble
             /\ UNCHANGED <<authority, wire, busy, request, drafts, seen, reader>>
        BY <1>6, <2>1 DEF CheckFinish
      <3>5. PICK ended \in {"done", "rolled_back"} :
              /\ jobs' = [jobs EXCEPT ![owner.job].state = ended]
              /\ fate[owner.job] = IF ended = "done" THEN "confirmed" ELSE "rolled_back"
        BY <1>6, <2>1, <3>2 DEF CheckFinish
      <3> HIDE DEF Terminal
      <3>6. TypeOK'
        <4>1. jobs' \in [Jobs -> [state : JobStates, revision : 0..MaxRevision]]
          BY <3>1, <3>5
        <4> QED
          BY <3>4, <4>1
      <3>7. AuthorityIsConsistent'
        BY <3>4
      <3>8. ClaimsAreTrue'
        BY <3>1, <3>4, <3>5
      <3>9. SampleIsTrue'
        BY <3>3, <3>4
      <3>10. WireIsHarmless' /\ OneApply' /\ OwnerHoldsItsJob' /\ JobsAreStartedOnce'
        BY <3>1, <3>3, <3>4, <3>5
      <3>11. JobsTellTheTruth' /\ FailedIsNeverConfirmed'
        BY <3>1, <3>3, <3>4, <3>5
      <3> QED
        BY <3>6, <3>7, <3>8, <3>9, <3>10, <3>11
    <2>2. CASE owner' = Idle /\ UNCHANGED jobs
      BY <1>6, <2>2 DEF CheckFinish
    <2> QED
      BY <1>6, <2>1, <2>2 DEF CheckFinish
  <1>7. CASE Reconcile
    BY <1>7 DEF Reconcile, Evidence, AfterSample
  <1>8. CASE SampleFails
    BY <1>8 DEF SampleFails, AfterSample
  <1>9. CASE Release
    BY <1>9 DEF Release
  <1> QED
    BY <1>1, <1>2, <1>3, <1>4, <1>5, <1>6, <1>7, <1>8, <1>9 DEF Owner
-----------------------------------------------------------------------------
HIDE DEF IInv, TypeOK, AuthorityIsConsistent, ClaimsAreTrue, SampleIsTrue, WireIsHarmless, OneApply,
         OwnerHoldsItsJob, JobsAreStartedOnce, JobsTellTheTruth, FailedIsNeverConfirmed

\* A step keeps the invariant.
LEMMA StepHolds == IInv /\ [Next]_vars => IInv'
  <1> SUFFICES ASSUME IInv, [Next]_vars PROVE IInv'
    OBVIOUS
  <1>1. CASE UNCHANGED vars
    BY <1>1 DEF vars, IInv, TypeOK, AuthorityIsConsistent, ClaimsAreTrue, SampleIsTrue, WireIsHarmless,
                OneApply, OwnerHoldsItsJob, JobsAreStartedOnce, JobsTellTheTruth,
                FailedIsNeverConfirmed
  <1>2. CASE Next
    BY <1>2, AuthorityKeeps, DeliveryKeeps, DraftsKeep, JobsKeep, FinishKeeps, OwnerKeeps DEF Next
  <1> QED
    BY <1>1, <1>2

\* The invariant holds throughout.
LEMMA Invariant == Spec => []IInv
  BY InitHolds, StepHolds, PTL DEF Spec

\* The tables of the panel, the wire and the authority keep their types.
THEOREM TypeCorrect == Spec => []TypeOK
  <1>1. IInv => TypeOK
    BY DEF IInv
  <1> QED
    BY <1>1, Invariant, PTL

\* A job reported done was confirmed, one reported rolled back was taken back
\* (JobsTellTheTruth).
THEOREM JobsAreTruthful == Spec => []JobsTellTheTruth
  <1>1. IInv => JobsTellTheTruth
    BY DEF IInv
  <1> QED
    BY <1>1, Invariant, PTL

\* A job reported failed is never made permanent (FailedIsNeverConfirmed).
THEOREM FailuresStayUnconfirmed == Spec => []FailedIsNeverConfirmed
  <1>1. IInv => FailedIsNeverConfirmed
    BY DEF IInv
  <1> QED
    BY <1>1, Invariant, PTL

\* What the panel has reported of an ended job it reports until it is restarted
\* (EndedJobsStay).
THEOREM EndingsStay == Spec => EndedJobsStay
  <1>1. IInv /\ [Next]_vars =>
          \A j \in Jobs : jobs[j].state \in {"done", "failed", "rolled_back"}
            => jobs'[j].state \in {jobs[j].state, "forgotten"}
    <2> SUFFICES ASSUME IInv, [Next]_vars, NEW j \in Jobs,
                        jobs[j].state \in {"done", "failed", "rolled_back"}
                 PROVE  jobs'[j].state \in {jobs[j].state, "forgotten"}
      OBVIOUS
    <2> USE DEF IInv, TypeOK, OwnerHoldsItsJob
    <2>1. CASE UNCHANGED jobs
      BY <2>1
    <2>2. ASSUME NEW i \in Jobs, (\E d \in Drafts : Commit(i, d)) \/ RecoverControl(i) \/ NotQueued(i)
          PROVE  jobs'[j].state \in {jobs[j].state, "forgotten"}
      BY <2>2 DEF Commit, RecoverControl, NotQueued
    <2>3. CASE Register
      BY <2>3 DEF Register
    <2>4. CASE PanelRestart
      BY <2>4 DEF PanelRestart
    <2>5. CASE Start
      BY <2>5 DEF Start, Waiting
    <2>6. CASE CheckApply
      BY <2>6 DEF CheckApply
    <2>7. CASE CheckRecover
      BY <2>7 DEF CheckRecover
    <2>8. CASE CheckFinish
      BY <2>8 DEF CheckFinish
    <2>9. CASE Reconcile
      BY <2>9 DEF Reconcile
    <2>10. CASE \/ Timeout \/ (\E m \in wire : Deliver(m)) \/ LoseSync \/ NativeReplay \/ ReadConfig
                \/ (\E d \in Drafts : Preview(d) \/ DraftExpires(d))
      BY <2>1, <2>10 DEF Timeout, Deliver, LoseSync, NativeReplay, ReadConfig, Preview, DraftExpires, tables
    <2>11. CASE \/ \E i \in Jobs, method \in {"confirm", "rollback"} : Finish(i, method)
                \/ SampleRead \/ Answered \/ SampleFails \/ Release
      BY <2>1, <2>11 DEF Finish, SampleRead, Answered, SampleFails, Release, tables
    <2>12. CASE UNCHANGED vars
      BY <2>1, <2>12 DEF vars, tables
    <2> QED
      BY <2>2, <2>3, <2>4, <2>5, <2>6, <2>7, <2>8, <2>9, <2>10, <2>11, <2>12 DEF Next, Owner
  <1> QED
    BY <1>1, Invariant, PTL DEF Spec, EndedJobsStay
=============================================================================
