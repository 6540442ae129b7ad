-------------------------- MODULE ConfirmedCommit --------------------------
(***************************************************************************)
(* What a configuration authority of the panel promises, whichever backend *)
(* carries it: the simulator (simulator.py, MockConfigd) or the native     *)
(* configd behind panel_rpc.inc.  A configuration is put in force under a  *)
(* job and stays provisional until the operator confirms it; otherwise the *)
(* configuration that was safe before comes back, exactly.                 *)
(*                                                                         *)
(* The variables are the four things a snapshot lets a client observe or   *)
(* deduce; nothing here says how they are stored or how long a step takes. *)
(***************************************************************************)
CONSTANTS
  Configs,   \* the configurations
  Initial,   \* the configuration of a fresh installation
  Jobs,      \* job identifiers: each names one commit
  NoJob      \* no job

ASSUME AuthorityAssumption == Initial \in Configs /\ NoJob \notin Jobs

VARIABLES
  inForce,   \* the configuration the authority reports as active
  safe,      \* the configuration no timer or restart can take away
  pending,   \* the job awaiting confirmation, or NoJob
  outcome    \* for each job: "open", "awaiting", "refused", "confirmed" or "rolled_back"

vars == <<inForce, safe, pending, outcome>>

Outcomes == {"open", "awaiting", "refused", "confirmed", "rolled_back"}

Init ==
  /\ inForce = Initial
  /\ safe = Initial
  /\ pending = NoJob
  /\ outcome = [j \in Jobs |-> "open"]

\* The configuration of job j is in force, provisionally.
Stage(j, c) ==
  /\ pending = NoJob
  /\ outcome[j] = "open"
  /\ inForce' = c
  /\ pending' = j
  /\ outcome' = [outcome EXCEPT ![j] = "awaiting"]
  /\ UNCHANGED safe

\* Mutant: a late failure is recorded over an outcome that was reported.
AbandonLate(j, how) ==
  /\ outcome[j] # "awaiting"
  /\ outcome' = [outcome EXCEPT ![j] = how]
  /\ UNCHANGED <<inForce, safe, pending>>

\* Job j never took effect: it was refused, failed, or was cut short.
Abandon(j, how) ==
  /\ outcome[j] = "open"
  /\ outcome' = [outcome EXCEPT ![j] = how]
  /\ UNCHANGED <<inForce, safe, pending>>

\* The operator confirms in time.
Confirm ==
  /\ pending # NoJob
  /\ safe' = inForce
  /\ outcome' = [outcome EXCEPT ![pending] = "confirmed"]
  /\ pending' = NoJob
  /\ UNCHANGED inForce

\* The operator, the timer or a restart takes the configuration back.
RollBack ==
  /\ pending # NoJob
  /\ inForce' = safe
  /\ outcome' = [outcome EXCEPT ![pending] = "rolled_back"]
  /\ pending' = NoJob
  /\ UNCHANGED safe

Next ==
  \/ \E j \in Jobs, c \in Configs : Stage(j, c)
  \/ \E j \in Jobs, how \in {"refused", "rolled_back"} : Abandon(j, how)
  \/ Confirm
  \/ RollBack

Spec == Init /\ [][Next]_vars
----------------------------------------------------------------------------
TypeOK ==
  /\ inForce \in Configs
  /\ safe \in Configs
  /\ pending \in Jobs \cup {NoJob}
  /\ outcome \in [Jobs -> Outcomes]

\* With nothing awaiting confirmation, the configuration in force is safe: no
\* timer or restart to come can take it back.
NothingProvisional == pending = NoJob => inForce = safe

\* The job awaiting confirmation is the only one whose outcome is undecided
\* while its configuration may be in force.
OneAwaiting == \A j \in Jobs : outcome[j] = "awaiting" <=> pending = j

\* An outcome that was reported never changes, and no later commit, refusal,
\* timer or restart turns a confirmed job into one that was taken back.
OutcomeIsFinal ==
  [][\A j \in Jobs : outcome[j] \notin {"open", "awaiting"} => outcome'[j] = outcome[j]]_vars
=============================================================================
