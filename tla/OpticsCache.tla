---------------------------- MODULE OpticsCache ----------------------------
(***************************************************************************)
(* The optics page of service.py: readings of the PHY are cached for each  *)
(* port group, and refreshed by a task of the owner queue.                 *)
(*                                                                         *)
(* Three actors meet: the HTTP thread of port_optics, which holds the      *)
(* service lock while it submits the task; the owner thread, which reads   *)
(* the configuration and the PHY without the lock and takes it to store    *)
(* the result; and the switch (external), which is reconfigured at any     *)
(* moment and whose PHY snapshot follows the configuration a while later.  *)
(***************************************************************************)
EXTENDS Integers, Sequences

CONSTANTS
  Epls,                    \* port groups
  None,                    \* no cache entry, no task
  MaxRevisions, MaxTroubles \* bounds: configurations, failed calls

OpticsModes == {"100g", "40g", "split"}

VARIABLES
  modes,        \* the confirmed configurations so far: group modes by revision
  phy,          \* by group: the mode its PHY snapshot was taken in
  seen,         \* _optics_revision
  cached,       \* _optics_cache: [revision, quality, mode, taken] by group, or None
  due,          \* groups whose refresh is due
  inflight,     \* _optics_inflight
  queued,       \* groups whose task is in the owner queue
  task,         \* the task of the owner thread: [epl, at, read], or None
  holder,       \* the group whose request holds the service lock, or None
  troubles      \* bound

opticsVars == <<modes, phy, seen, cached, due, inflight, queued, task, holder, troubles>>

\* mode: what the revision configures; taken: what the PHY snapshot was taken in.
Entry(revision, quality, mode) ==
  [revision |-> revision, quality |-> quality, mode |-> mode, taken |-> None]
Readable == {"valid", "stale"}        \* an entry with lanes
Trouble == troubles < MaxTroubles /\ troubles' = troubles + 1

OpticsInit ==
  /\ \E mode \in [Epls -> OpticsModes] : modes = <<mode>> /\ phy = mode
  /\ seen = None
  /\ cached = [e \in Epls |-> None] /\ due = Epls
  /\ inflight = {} /\ queued = {} /\ task = None /\ holder = None /\ troubles = 0

\* The switch: another configuration, and a PHY snapshot in its mode.
Reconfigure ==
  /\ Len(modes) < MaxRevisions
  /\ \E e \in Epls, m \in OpticsModes :
       modes' = Append(modes, [modes[Len(modes)] EXCEPT ![e] = m])
  /\ UNCHANGED <<phy, seen, cached, due, inflight, queued, task, holder, troubles>>
PhyFollows ==
  /\ \E e \in Epls : phy' = [phy EXCEPT ![e] = modes[Len(modes)][e]]
  /\ UNCHANGED <<modes, seen, cached, due, inflight, queued, task, holder, troubles>>

\* _observe_optics_revision: another revision forgets every reading.
\* Mutant: nothing is forgotten.
ObservesNothing(revision) == seen' = revision /\ UNCHANGED <<cached, due>>
Observes(revision) ==
  /\ seen' = revision
  /\ IF revision = seen THEN UNCHANGED <<cached, due>>
     ELSE cached' = [e \in Epls |-> None] /\ due' = Epls

\* _sample, and any read of the configuration, on the owner thread.
Sample ==
  /\ task = None /\ holder = None
  /\ Observes(Len(modes))
  /\ UNCHANGED <<modes, phy, inflight, queued, task, holder, troubles>>

\* PHY_REFRESH_SECONDS have passed.
DueAgain ==
  /\ \E e \in Epls \ due : due' = due \cup {e}
  /\ UNCHANGED <<modes, phy, seen, cached, inflight, queued, task, holder, troubles>>

(***************************************************************************)
(* port_optics.                                                            *)
(***************************************************************************)
Unsupported(e) == cached[e] # None /\ cached[e].quality = "unsupported"
Wanted(e) == ~Unsupported(e) /\ e \notin inflight /\ e \in due

\* The key of a task is in the queue from its submission until it has returned.
Keyed(e) == e \in queued \/ (task # None /\ task.epl = e)
\* The task is put in the queue while the lock is held.
Submit(e) ==
  /\ holder = None /\ Wanted(e) /\ ~Keyed(e)
  /\ holder' = e /\ queued' = queued \cup {e}
  /\ UNCHANGED <<modes, phy, seen, cached, due, inflight, task, troubles>>
\* The queue is full or closed: what there is is shown as stale.
SubmitRefused(e) ==
  /\ holder = None /\ Wanted(e) /\ ~Keyed(e) /\ Trouble
  /\ cached' = [cached EXCEPT ![e] =
       IF @ = None THEN Entry(None, "unavailable", None)
       ELSE [@ EXCEPT !.quality = IF cached[e].quality \in Readable THEN "stale" ELSE "unavailable"]]
  /\ due' = due \ {e}
  /\ UNCHANGED <<modes, phy, seen, inflight, queued, task, holder>>
\* It counts as in flight from here on, and the lock is released.
AddInflight ==
  /\ holder # None
  /\ holder' = None /\ inflight' = inflight \cup {holder}
  /\ UNCHANGED <<modes, phy, seen, cached, due, queued, task, troubles>>

(***************************************************************************)
(* _collect_optics, on the owner thread.                                   *)
(***************************************************************************)
TakeTask ==
  /\ task = None
  /\ \E e \in queued :
       /\ queued' = queued \ {e}
       /\ task' = [epl |-> e, at |-> "configuration", read |-> None]
  /\ UNCHANGED <<modes, phy, seen, cached, due, inflight, holder, troubles>>

\* _read_config: the snapshot, and its revision under the lock.
ReadConfiguration ==
  /\ task # None /\ task.at = "configuration" /\ holder = None
  /\ Observes(Len(modes))
  /\ task' = [task EXCEPT !.at = "phy",
       !.read = Entry(Len(modes), "pending", modes[Len(modes)][task.epl])]
  /\ UNCHANGED <<modes, phy, inflight, queued, holder, troubles>>

\* optical_diagnostics and decode_phy: the modes must agree.
\* Mutant: the mode in the PHY snapshot is not compared.
QualityUnasked(taken, mode) == "valid"
QualityOf(taken, mode) == IF taken = mode THEN "valid" ELSE "pending"
ReadPhy ==
  /\ task # None /\ task.at = "phy"
  /\ task' = [task EXCEPT !.at = "store", !.read =
       IF @.mode = "split" THEN [@ EXCEPT !.quality = "unsupported"]
       ELSE [Entry(@.revision, QualityOf(phy[task.epl], @.mode), @.mode) EXCEPT !.taken = phy[task.epl]]]
  /\ UNCHANGED <<modes, phy, seen, cached, due, inflight, queued, holder, troubles>>

\* Either call fails: an earlier reading of the same revision is kept as stale.
CollectFails ==
  /\ task # None /\ task.at \in {"configuration", "phy"} /\ holder = None /\ Trouble
  /\ LET e == task.epl
         read == IF task.read = None THEN Entry(None, "unavailable", None)
                 ELSE [task.read EXCEPT !.quality = "unavailable"]
     IN task' = [task EXCEPT !.at = "store",
          !.read = IF cached[e] # None /\ cached[e].revision = seen /\ cached[e].quality \in Readable
                     THEN [cached[e] EXCEPT !.quality = "stale"] ELSE read]
  /\ UNCHANGED <<modes, phy, seen, cached, due, inflight, queued, holder>>

\* The finally clause, under the lock.
Store ==
  /\ task # None /\ task.at = "store" /\ holder = None
  /\ cached' = [cached EXCEPT ![task.epl] = task.read]
  /\ due' = due \ {task.epl} /\ inflight' = inflight \ {task.epl}
  /\ task' = [task EXCEPT !.at = "done"]
  /\ UNCHANGED <<modes, phy, seen, queued, holder, troubles>>
\* The owner thread takes the key away once the task has returned.
DiscardOpticsKey ==
  /\ task # None /\ task.at = "done" /\ task' = None
  /\ UNCHANGED <<modes, phy, seen, cached, due, inflight, queued, holder, troubles>>

OpticsNext ==
  \/ Reconfigure \/ PhyFollows \/ Sample \/ DueAgain \/ AddInflight
  \/ \E e \in Epls : Submit(e) \/ SubmitRefused(e)
  \/ TakeTask \/ ReadConfiguration \/ ReadPhy \/ CollectFails \/ Store \/ DiscardOpticsKey

OpticsSpec == OpticsInit /\ [][OpticsNext]_opticsVars

(***************************************************************************)
(* Properties.                                                             *)
(***************************************************************************)

\* A reading is shown only for the revision the panel saw last, whatever was
\* reconfigured while it was collected: lanes are shown only when the PHY was
\* in the mode that revision gives the group, and a group is called
\* unsupported, which stops its refresh, only when that revision splits it.
OpticsAreCurrent ==
  \A e \in Epls :
    cached[e] # None /\ cached[e].quality # "unavailable" =>
      /\ cached[e].revision = seen
      /\ cached[e].quality \in Readable => cached[e].taken = modes[seen][e]
      /\ cached[e].quality = "unsupported" => modes[seen][e] = "split"
=============================================================================
