---------------------------- MODULE PanelService ----------------------------
(***************************************************************************)
(* The panel's job service over the native authority: service.py, class    *)
(* PanelService, with the RPC client netlab.py and the authority's side of *)
(* each RPC as panel_rpc.inc answers it.                                   *)
(*                                                                         *)
(* The owner thread (module OwnerQueue) runs one piece of work at a time,  *)
(* but each piece is several RPCs, and between them the authority's timer, *)
(* requests that arrive late and the web threads go on.  A request the     *)
(* client has given up may still reach configd (wire).  A configuration is *)
(* named by the job that commits it; drafts keep only their base revision. *)
(***************************************************************************)
EXTENDS Naturals, FiniteSets

CONSTANTS
  Jobs, NoJob,   \* uuid4 identifiers of configuration and recovery jobs
  Drafts, NoDraft,   \* places in the table of previews
  MaxRevision,   \* bound: the revisions of one behaviour
  MaxTrouble     \* bound: lost or late replies, failed reads, faults, restarts

ASSUME ServiceAssumption ==
  /\ NoJob \notin Jobs
  /\ MaxRevision \in Nat \ {0}
  /\ MaxTrouble \in Nat

VARIABLES
  (* configd *)
  revision,   \* active_commit_id + 1
  record,     \* confirmed.json: the job and revision of the last confirmed commit
  synced,     \* ~hw_out_of_sync and the board is bound
  fate,       \* history: what became of each job's configuration
  wire,       \* requests sent and not yet handled
  (* the panel *)
  jobs,       \* self.jobs
  busy,       \* self.busy_job
  request,    \* what busy's work closes over: its kind and the draft it was given
  drafts,     \* self.drafts: the base revision of each, 0 when there is none
  owner,      \* the owner thread's piece of work
  seen,       \* the snapshot a sample works from
  reader,     \* the snapshot a GET /config is about to register
  trouble     \* trouble still to come (bounds the environment)

authority == <<revision, record, synced, fate>>
tables == <<jobs, busy, request, drafts>>
vars == <<authority, wire, tables, owner, seen, reader, trouble>>

Absent == [state |-> "absent", revision |-> 0]
Forgotten == [state |-> "forgotten", revision |-> 0]   \* lost with the process
NoRecord == [job |-> NoJob, revision |-> 0, state |-> "none"]
NoRequest == [kind |-> "none", draft |-> NoDraft, base |-> 0]
Idle == [step |-> "idle", method |-> "none", job |-> NoJob, revision |-> 0]

Init ==
  /\ revision = 1
  /\ record = NoRecord
  /\ synced = TRUE
  /\ fate = [j \in Jobs |-> "none"]
  /\ wire = {}
  /\ jobs = [j \in Jobs |-> Absent]
  /\ busy = NoJob
  /\ request = NoRequest
  /\ drafts = [d \in Drafts |-> 0]
  /\ owner = Idle
  /\ seen = [job |-> NoJob, terminal |-> NoRecord]
  /\ reader = [job |-> NoJob, revision |-> 0]
  /\ trouble = MaxTrouble

Trouble == trouble > 0 /\ trouble' = trouble - 1
Pending == record.state = "awaiting"

\* What the snapshot reports as last_transaction (panel_confirmed_outcome).
Terminal ==
  [record EXCEPT !.state = IF ~synced \/ @ = "timed_out" THEN "uncertain" ELSE @]

PendingJob == IF Pending THEN record.job ELSE NoJob
-----------------------------------------------------------------------------
(* configd.  One request or one idle tick at a time.                       *)

\* A commit point is passed; what follows it (replay, journal) works or does not.
Follows == UNCHANGED <<synced, trouble>> \/ (Trouble /\ synced' = FALSE)

\* The rollback commits the before-image as a configuration of its own.  When
\* the replay after it fails, only a recovery makes the record evidence.
Restore ==
  /\ revision < MaxRevision
  /\ revision' = revision + 1
  /\ record' = [record EXCEPT !.state = "rolled_back"]
  /\ fate' = [fate EXCEPT ![record.job] = "rolled_back"]
  /\ Follows

\* The rollback fails before its commit point: the record says timed out, the
\* unconfirmed configuration stays, and the hardware may be out of sync.
RestoreFails ==
  /\ Trouble
  /\ record' = [record EXCEPT !.state = "timed_out"]
  /\ synced' \in BOOLEAN
  /\ UNCHANGED <<revision, fate>>

\* The confirmation window ends, or an earlier attempt to restore is repeated.
\* Out of sync, the record expires and nothing is touched.
Timeout ==
  /\ record.state \in {"awaiting", "timed_out"}
  /\ IF synced
     THEN Restore \/ RestoreFails
     ELSE /\ record.state = "awaiting"
          /\ record' = [record EXCEPT !.state = "timed_out"]
          /\ UNCHANGED <<revision, synced, fate, trouble>>
  /\ UNCHANGED <<wire, tables, owner, seen, reader>>

\* The commit point of handle_panel_replace.  An unconfirmed configuration that
\* could not be taken back, on another failure, becomes part of the new one.
Committed(m) ==
  /\ revision < MaxRevision
  /\ revision' = revision + 1
  /\ fate' = [j \in Jobs |-> IF j = m.job THEN "awaiting"
                             ELSE IF fate[j] = "awaiting" THEN "kept" ELSE fate[j]]
  /\ \/ /\ record' = [job |-> m.job, revision |-> revision + 1, state |-> "awaiting"]
        /\ IF record.state = "timed_out" THEN Trouble /\ UNCHANGED synced ELSE Follows
     \/ Trouble /\ synced' = FALSE /\ UNCHANGED record      \* the record is not saved

HandleApply(m) ==
  /\ ~Pending /\ synced /\ m.revision = revision
  /\ \/ Committed(m)
     \/ Trouble /\ synced' = FALSE /\ UNCHANGED <<revision, record, fate>>

HandleConfirm(m) ==
  /\ Pending /\ record.job = m.job /\ synced
  /\ record' = [record EXCEPT !.state = "confirmed"]
  /\ fate' = [fate EXCEPT ![m.job] = "confirmed"]
  /\ UNCHANGED <<revision, synced, trouble>>

HandleRollback(m) ==
  /\ Pending /\ record.job = m.job /\ synced
  /\ Restore \/ RestoreFails

\* reconcile_active_state: the active configuration is replayed and read back.
\* An active commit whose record was not saved gets it back from its journal.
Reconciled ==
  /\ synced' = TRUE
  /\ IF \E j \in Jobs : fate[j] = "awaiting" /\ record.job # j
     THEN record' \in [job : {j \in Jobs : fate[j] = "awaiting"},
                       revision : {revision}, state : {"awaiting"}]
     ELSE UNCHANGED record
  /\ UNCHANGED <<revision, fate, trouble>>

HandleRecover(m) == m.revision = revision /\ Reconciled

\* The idle tick replays by itself when the SDK has started anew.
NativeReplay ==
  /\ ~synced
  /\ Reconciled
  /\ UNCHANGED <<wire, tables, owner, seen, reader>>

\* What the handlers refuse without a fault.  A candidate may be invalid.
Refused(m) ==
  CASE m.method = "apply" -> TRUE
    [] m.method \in {"confirm", "rollback"} -> ~(Pending /\ record.job = m.job /\ synced)
    [] m.method = "recover" -> m.revision # revision

\* A request is refused, or it fails or is lost on the way.
NotHandled(m) ==
  /\ IF Refused(m) THEN UNCHANGED trouble ELSE Trouble
  /\ UNCHANGED authority

\* The request whose reply the owner thread waits for.
Message == [method |-> owner.method, job |-> owner.job, revision |-> owner.revision]

\* Of the replies only that of a recovery counts: a snapshot decides the others.
Deliver(m) ==
  /\ m \in wire
  /\ wire' = wire \ {m}
  /\ \/ /\ \/ m.method = "apply" /\ HandleApply(m)
           \/ m.method = "confirm" /\ HandleConfirm(m)
           \/ m.method = "rollback" /\ HandleRollback(m)
           \/ NotHandled(m)
        /\ UNCHANGED owner
     \/ /\ m.method = "recover" /\ HandleRecover(m)
        /\ owner' = IF owner.step = "waiting" /\ m = Message
                    THEN [owner EXCEPT !.step = "recovered"] ELSE owner
  /\ UNCHANGED <<tables, seen, reader>>

\* The board or a daemon fails under a committed configuration.
LoseSync ==
  /\ synced
  /\ Trouble
  /\ synced' = FALSE
  /\ UNCHANGED <<revision, record, fate, wire, tables, owner, seen, reader>>
-----------------------------------------------------------------------------
(* The web threads.                                                        *)

\* preview(): its reads run on the owner thread.
Preview(d) ==
  /\ owner = Idle
  /\ drafts[d] = 0
  /\ ~Pending /\ synced
  /\ drafts' = [drafts EXCEPT ![d] = revision]
  /\ UNCHANGED <<authority, wire, jobs, busy, request, owner, seen, reader, trouble>>

DraftExpires(d) ==
  /\ drafts[d] # 0
  /\ drafts' = [drafts EXCEPT ![d] = 0]
  /\ UNCHANGED <<authority, wire, jobs, busy, request, owner, seen, reader, trouble>>

\* commit(), under the lock, and the submission of its work.
Commit(j, d) ==
  /\ drafts[d] # 0
  /\ busy = NoJob
  /\ jobs[j] = Absent
  /\ jobs' = [jobs EXCEPT ![j].state = "queued"]
  /\ busy' = j
  /\ request' = [kind |-> "apply", draft |-> d, base |-> drafts[d]]
  /\ UNCHANGED <<authority, wire, drafts, owner, seen, reader, trouble>>

\* recover_control(): the same place, and every preview is void.
RecoverControl(j) ==
  /\ busy = NoJob
  /\ jobs[j] = Absent
  /\ jobs' = [jobs EXCEPT ![j].state = "queued"]
  /\ busy' = j
  /\ request' = [kind |-> "recover", draft |-> NoDraft, base |-> 0]
  /\ drafts' = [d \in Drafts |-> 0]
  /\ UNCHANGED <<authority, wire, owner, seen, reader, trouble>>

\* The queue is full: the job fails and the draft can be committed again.
NotQueued(j) ==
  /\ busy = NoJob
  /\ jobs[j] = Absent
  /\ \E d \in Drafts : drafts[d] # 0
  /\ Trouble
  /\ jobs' = [jobs EXCEPT ![j].state = "failed"]
  /\ UNCHANGED <<authority, wire, busy, request, drafts, owner, seen, reader>>

\* config(): the snapshot is read on the owner thread ...
ReadConfig ==
  /\ owner = Idle
  /\ Pending /\ reader.job = NoJob
  /\ reader' = [job |-> record.job, revision |-> revision]
  /\ UNCHANGED <<authority, wire, tables, owner, seen, trouble>>

\* Mutant: the pending job is registered whether or not the panel has it.
RegisterAlways ==
  /\ reader.job # NoJob
  /\ jobs' = [jobs EXCEPT ![reader.job] =
                [state |-> "awaiting_confirmation", revision |-> reader.revision]]
  /\ reader' = [job |-> NoJob, revision |-> 0]
  /\ UNCHANGED <<authority, wire, busy, request, drafts, owner, seen, trouble>>

\* ... and a job that a restart of the panel lost is registered from it later.
Register ==
  /\ reader.job # NoJob
  /\ jobs' = IF jobs[reader.job].state \in {"absent", "forgotten"}
             THEN [jobs EXCEPT ![reader.job] =
                     [state |-> "awaiting_confirmation", revision |-> reader.revision]]
             ELSE jobs
  /\ reader' = [job |-> NoJob, revision |-> 0]
  /\ UNCHANGED <<authority, wire, busy, request, drafts, owner, seen, trouble>>

\* The panel process is killed and started again: its tables are volatile.
PanelRestart ==
  /\ Trouble
  /\ jobs' = [j \in Jobs |-> IF jobs[j] = Absent THEN Absent ELSE Forgotten]
  /\ busy' = NoJob
  /\ request' = NoRequest
  /\ drafts' = [d \in Drafts |-> 0]
  /\ owner' = Idle
  /\ seen' = [job |-> NoJob, terminal |-> NoRecord]
  /\ reader' = [job |-> NoJob, revision |-> 0]
  /\ UNCHANGED <<authority, wire>>
-----------------------------------------------------------------------------
(* The owner thread: work of commit() and recover_control(), finish(), _sample. *)

Send(method, j, r) ==
  /\ owner' = [step |-> "waiting", method |-> method, job |-> j, revision |-> r]
  /\ wire' = wire \cup {[method |-> method, job |-> j, revision |-> r]}

\* Work of priority 0 is queued: the sampler, priority 10, waits.
Waiting == busy # NoJob /\ jobs[busy].state = "queued"

\* The work of the busy job begins.  A recovery names the revision it reads.
Start ==
  /\ owner = Idle
  /\ Waiting
  /\ jobs' = [jobs EXCEPT ![busy].state = "running"]
  /\ Send(request.kind, busy, IF request.kind = "apply" THEN request.base ELSE revision)
  /\ UNCHANGED <<authority, busy, request, drafts, seen, reader, trouble>>

\* finish(): the job awaits, and the authority agrees (the first snapshot).
Finish(j, method) ==
  /\ owner = Idle
  /\ jobs[j].state = "awaiting_confirmation"
  /\ PendingJob = j
  /\ Send(method, j, revision)
  /\ UNCHANGED <<authority, tables, seen, reader, trouble>>

\* The reply, or the client's patience ends while configd is still at it.
Answered ==
  /\ owner.step = "waiting" /\ owner.method # "recover"
  /\ IF Message \in wire THEN Trouble ELSE UNCHANGED trouble
  /\ owner' = [owner EXCEPT !.step = "check"]
  /\ UNCHANGED <<authority, wire, tables, seen, reader>>

\* The second snapshot proves the apply: its job is pending and the hardware in
\* sync.  Whatever the reply was, only this evidence counts.
Proven == PendingJob = owner.job /\ synced

\* Mutant: a failed apply skips the finally block.
CheckApplyNoFinally ==
  /\ owner.step = "check" /\ owner.method = "apply"
  /\ \/ /\ Proven
        /\ jobs' = [jobs EXCEPT ![owner.job] =
                      [state |-> "awaiting_confirmation", revision |-> revision]]
        /\ owner' = [owner EXCEPT !.step = "refresh"]
     \/ /\ ~Proven
        /\ jobs' = [jobs EXCEPT ![owner.job].state = "failed"]
        /\ owner' = Idle
  /\ UNCHANGED <<authority, wire, busy, request, drafts, seen, reader, trouble>>

CheckApply ==
  /\ owner.step = "check" /\ owner.method = "apply"
  /\ \/ /\ Proven
        /\ jobs' = [jobs EXCEPT ![owner.job] =
                      [state |-> "awaiting_confirmation", revision |-> revision]]
        /\ owner' = [owner EXCEPT !.step = "refresh"]
        /\ UNCHANGED trouble
     \/ /\ Proven => Trouble       \* the snapshot itself fails
        /\ ~Proven => UNCHANGED trouble
        /\ jobs' = [jobs EXCEPT ![owner.job].state = "failed"]
        /\ owner' = [owner EXCEPT !.step = "release"]
  /\ UNCHANGED <<authority, wire, busy, request, drafts, seen, reader>>

CheckRecover ==
  /\ owner.method = "recover"
  /\ \/ /\ owner.step = "recovered" /\ synced
        /\ jobs' = [jobs EXCEPT ![owner.job].state = "done"]
        /\ UNCHANGED trouble
     \/ /\ \/ owner.step = "recovered" /\ ~synced /\ UNCHANGED trouble
           \/ owner.step = "recovered" /\ synced /\ Trouble      \* reply or snapshot lost
           \/ owner.step = "waiting" /\ Message \notin wire /\ UNCHANGED trouble
           \/ owner.step = "waiting" /\ Message \in wire /\ Trouble
        /\ jobs' = [jobs EXCEPT ![owner.job].state = "failed"]
  /\ owner' = [owner EXCEPT !.step = "refresh"]
  /\ UNCHANGED <<authority, wire, busy, request, drafts, seen, reader>>

\* _finish: the transaction it asked about is the last one and ended as asked.
FinishProven ==
  /\ synced /\ ~Pending
  /\ Terminal.revision = owner.revision
  /\ Terminal.state = IF owner.method = "confirm" THEN "confirmed" ELSE "rolled_back"

\* Mutant: a confirmation without proof is reported as a failed job.
CheckFinishGivesUp ==
  /\ owner.step = "check" /\ owner.method \in {"confirm", "rollback"}
  /\ \/ /\ FinishProven
        /\ jobs' = [jobs EXCEPT ![owner.job].state =
                      IF owner.method = "confirm" THEN "done" ELSE "rolled_back"]
        /\ owner' = [owner EXCEPT !.step = "refresh"]
        /\ UNCHANGED trouble
     \/ /\ FinishProven => Trouble
        /\ ~FinishProven => UNCHANGED trouble
        /\ owner' = Idle
        /\ jobs' = [jobs EXCEPT ![owner.job].state = "failed"]
  /\ UNCHANGED <<authority, wire, busy, request, drafts, seen, reader>>

CheckFinish ==
  /\ owner.step = "check" /\ owner.method \in {"confirm", "rollback"}
  /\ \/ /\ FinishProven
        /\ jobs' = [jobs EXCEPT ![owner.job].state =
                      IF owner.method = "confirm" THEN "done" ELSE "rolled_back"]
        /\ owner' = [owner EXCEPT !.step = "refresh"]
        /\ UNCHANGED trouble
     \/ /\ FinishProven => Trouble
        /\ ~FinishProven => UNCHANGED trouble
        /\ owner' = Idle           \* the caller gets the error, the job stays
        /\ UNCHANGED jobs
  /\ UNCHANGED <<authority, wire, busy, request, drafts, seen, reader>>

\* _sample, from the sampler or at the end of a write: the snapshot ...
SampleRead ==
  /\ (owner = Idle /\ ~Waiting) \/ owner.step = "refresh"
  /\ owner' = [owner EXCEPT !.step = "sampled"]
  /\ seen' = [job |-> PendingJob, terminal |-> Terminal]
  /\ UNCHANGED <<authority, wire, tables, reader, trouble>>

\* After a sample the owner is free, or has a busy job to release.
AfterSample ==
  owner' = IF owner.method \in {"apply", "recover"}
           THEN [owner EXCEPT !.step = "release"] ELSE Idle

\* Mutant: any ended transaction is taken for the job's own.
EvidenceOfAny(j) == seen.terminal.state \in {"confirmed", "rolled_back"}

\* Mutant: the transaction is compared with the revision after the job's.
EvidenceOffByOne(j) ==
  /\ seen.terminal.revision = jobs[j].revision + 1
  /\ seen.terminal.state \in {"confirmed", "rolled_back"}

\* The sample holds evidence of how job j's transaction ended.
Evidence(j) ==
  /\ seen.terminal.revision = jobs[j].revision
  /\ seen.terminal.state \in {"confirmed", "rolled_back"}

\* ... then ports, sensors and optics, and under the lock the reconciliation of
\* every job that still awaits.  Without evidence a job keeps waiting.
Reconcile ==
  /\ owner.step = "sampled"
  /\ jobs' = [j \in Jobs |->
       IF jobs[j].state = "awaiting_confirmation" /\ j # seen.job /\ Evidence(j)
       THEN [jobs[j] EXCEPT !.state =
               IF seen.terminal.state = "confirmed" THEN "done" ELSE "rolled_back"]
       ELSE jobs[j]]
  /\ seen' = [job |-> NoJob, terminal |-> NoRecord]
  /\ AfterSample
  /\ UNCHANGED <<authority, wire, busy, request, drafts, reader, trouble>>

\* Any failing read, or a full queue, abandons the whole sample.
SampleFails ==
  /\ owner.step = "sampled"
  /\ Trouble
  /\ seen' = [job |-> NoJob, terminal |-> NoRecord]
  /\ AfterSample
  /\ UNCHANGED <<authority, wire, tables, reader>>

\* finally: the place is free and the draft is used up.
Release ==
  /\ owner.step = "release"
  /\ busy' = NoJob
  /\ request' = NoRequest
  /\ drafts' = [d \in Drafts |-> IF d = request.draft THEN 0 ELSE drafts[d]]
  /\ owner' = Idle
  /\ UNCHANGED <<authority, wire, jobs, seen, reader, trouble>>

Owner ==
  \/ Start \/ Answered \/ CheckApply \/ CheckRecover \/ CheckFinish
  \/ Reconcile \/ SampleFails \/ Release

Next ==
  \/ Timeout
  \/ \E m \in wire : Deliver(m)
  \/ LoseSync \/ NativeReplay
  \/ \E d \in Drafts : Preview(d) \/ DraftExpires(d) \/ \E j \in Jobs : Commit(j, d)
  \/ \E j \in Jobs : RecoverControl(j) \/ NotQueued(j)
  \/ ReadConfig \/ Register
  \/ PanelRestart
  \/ \E j \in Jobs, method \in {"confirm", "rollback"} : Finish(j, method)
  \/ SampleRead
  \/ Owner

Spec == Init /\ [][Next]_vars

\* The owner thread is scheduled, every RPC ends (it has a timeout), and the
\* sampler submits a sample every second.  Work of one priority is served in
\* the order it came (OwnerQueue!UrgentIsServed): repeated finish() calls do not
\* overtake a queued commit for ever.
Fairness ==
  /\ WF_vars(Owner)
  /\ SF_vars(Start)
  /\ WF_vars(SampleRead)
  /\ \A j \in Jobs : WF_vars(\E m \in wire : m.job = j /\ Deliver(m))

FairSpec == Spec /\ Fairness
-----------------------------------------------------------------------------
JobStates == {"absent", "forgotten", "queued", "running", "awaiting_confirmation",
              "done", "failed", "rolled_back"}
Methods == {"apply", "confirm", "rollback", "recover"}

Outcomes == [job : Jobs \cup {NoJob}, revision : 0..MaxRevision,
             state : {"none", "awaiting", "timed_out", "confirmed", "rolled_back", "uncertain"}]

TypeOK ==
  /\ revision \in 1..MaxRevision
  /\ record \in Outcomes /\ record.state # "uncertain"
  /\ synced \in BOOLEAN
  /\ fate \in [Jobs -> {"none", "awaiting", "confirmed", "rolled_back", "kept"}]
  /\ wire \subseteq [method : Methods, job : Jobs, revision : 1..MaxRevision]
  /\ jobs \in [Jobs -> [state : JobStates, revision : 0..MaxRevision]]
  /\ busy \in Jobs \cup {NoJob}
  /\ request \in [kind : {"apply", "recover", "none"}, draft : Drafts \cup {NoDraft},
                 base : 0..MaxRevision]
  /\ drafts \in [Drafts -> 0..MaxRevision]
  /\ owner \in [step : {"idle", "waiting", "recovered", "check", "refresh", "sampled", "release"},
               method : Methods \cup {"none"}, job : Jobs \cup {NoJob},
               revision : 0..MaxRevision]
  /\ seen \in [job : Jobs \cup {NoJob}, terminal : Outcomes]
  /\ reader \in [job : Jobs \cup {NoJob}, revision : 0..MaxRevision]
  /\ trouble \in 0..MaxTrouble

\* A configuration job the panel reports as done was confirmed, and one it
\* reports as rolled back was taken back: whatever replies were lost, however
\* stale the sample, and although the panel learns both only from a revision
\* number.  (A recovery job is never given to the authority as a commit.)
JobsTellTheTruth ==
  \A j \in Jobs :
    /\ jobs[j].state = "done" /\ fate[j] # "none" => fate[j] = "confirmed"
    /\ jobs[j].state = "rolled_back" => fate[j] = "rolled_back"

\* A commit reported as failed is never made permanent behind the operator's
\* back: if configd did commit it, after all, only the timer can end it.
FailedIsNeverConfirmed == \A j \in Jobs : jobs[j].state = "failed" => fate[j] # "confirmed"

\* While the panel runs, a job it has reported as ended stays as reported.
EndedJobsStay ==
  [][\A j \in Jobs : jobs[j].state \in {"done", "failed", "rolled_back"}
       => jobs'[j].state \in {jobs[j].state, "forgotten"}]_vars

\* A commit or recovery gives its place back, also when every RPC is lost.
PlaceIsReleased == (busy # NoJob) ~> (busy = NoJob)

\* A job whose transaction has ended is reported as ended, while the authority
\* still holds the evidence: no newer commit, and the hardware in sync.
Decided(j) == record.job = j /\ synced /\ fate[j] \in {"confirmed", "rolled_back"}
OutcomeIsReported ==
  \A j \in Jobs :
    (jobs[j].state = "awaiting_confirmation" /\ Decided(j))
      ~> (jobs[j].state # "awaiting_confirmation" \/ ~Decided(j))
=============================================================================
