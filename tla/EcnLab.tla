------------------------------- MODULE EcnLab -------------------------------
(***************************************************************************)
(* The software ECN laboratory: scripts/verify_ecn_marking.py builds a     *)
(* bridge between private namespaces, with a RED queue (ecn_lab.py) on its *)
(* way out, sends probes in three stages and judges from two captures what *)
(* the bridge did to them.                                                 *)
(*                                                                         *)
(* Commands of ip may be refused, or time out when the kernel has already  *)
(* done the work; a capture may lose a packet; SIGINT and SIGTERM raise    *)
(* wherever their handlers run, and SIGKILL ends the script anywhere.      *)
(***************************************************************************)
EXTENDS Integers, Sequences, FiniteSets, SequencesExt

CONSTANTS
  Names,        \* namespaces
  Rounds,       \* probes of each case, by stage
  MaxLabFaults  \* bound: refused commands, lost packets, misbehaviour, signals

\* cases: probes for the RED queue, by what their ECN bits say, and others.
DataCases == {"ect", "not_ect", "ce"}
Cases == DataCases \cup {"bypass"}
CaseOrder == <<"ect", "not_ect", "ce", "bypass">>
Stages == 0..2          \* idle, congested, recovered

ASSUME LabAssumption == Rounds \in [Stages -> Nat \ {0}] /\ MaxLabFaults \in Nat

VARIABLES
  kernel,       \* namespaces that exist
  owned,        \* the script's list of those it has created
  capturing,    \* capture processes that run
  workers,      \* the script's list of them
  labAt,        \* where the script is
  stage,
  probes,       \* of this stage: [case, fate, ingress, egress]
  red,          \* statistics of the queue, and probes it still holds: [marked, early, held]
  verdicts,     \* results of the stages so far
  labReport,    \* in memory: [passed, cleaned]
  labDisk,      \* report.json: the same
  truth,        \* history: every ended stage behaved as it should
  labFaults

labVars == <<kernel, owned, capturing, workers, labAt, stage, probes, red, verdicts,
             labReport, labDisk, truth, labFaults>>
evidence == <<stage, probes, red, verdicts, truth>>

LabInit ==
  /\ kernel = {} /\ owned = {} /\ capturing = {} /\ workers = {}
  /\ labAt = "create" /\ stage = 0 /\ probes = <<>>
  /\ red = [marked |-> FALSE, early |-> FALSE, held |-> FALSE]
  /\ verdicts = <<>> /\ truth = TRUE /\ labFaults = 0
  /\ labReport = [passed |-> FALSE, cleaned |-> FALSE] /\ labDisk = labReport

LabFault == labFaults < MaxLabFaults /\ labFaults' = labFaults + 1
Raises == labAt' = "finally"
Checkpoint == labDisk' = labReport /\ UNCHANGED labReport

(***************************************************************************)
(* setup.                                                                  *)
(***************************************************************************)
\* A signal waits until a namespace that exists is also owned.
CreateNamespace ==
  /\ labAt = "create" /\ Names \ owned # {}
  /\ \E n \in Names \ owned :
       \/ /\ kernel' = kernel \cup {n} /\ owned' = owned \cup {n} /\ UNCHANGED <<labAt, labFaults>>
       \/ /\ LabFault /\ kernel' \in {kernel, kernel \cup {n}} /\ Raises /\ UNCHANGED owned
  /\ Checkpoint /\ UNCHANGED <<capturing, workers, evidence>>

\* Links, queues and filters, all inside the namespaces, until the bridge forwards.
Configure ==
  /\ labAt = "create" /\ owned = Names
  /\ \/ labAt' = "ingress" /\ UNCHANGED labFaults
     \/ LabFault /\ Raises
  /\ UNCHANGED <<kernel, owned, capturing, workers, evidence, labReport, labDisk>>

(***************************************************************************)
(* run_stage.                                                              *)
(***************************************************************************)
\* start_capture: the process, and its place in the list.
StartCapture(side, next) ==
  /\ labAt = side
  /\ capturing' = capturing \cup {side}
  /\ \/ workers' = workers \cup {side} /\ labAt' = next /\ UNCHANGED labFaults
     \/ LabFault /\ Raises /\ workers' \in {workers, workers \cup {side}}
  /\ UNCHANGED <<kernel, owned, evidence, labReport, labDisk>>

\* RED marks what may be marked and drops the rest, under load and for a round
\* after it; anything else is what the stage is there to find.
Loaded == stage = 1 \/ (stage = 2 /\ Len(probes) < Len(CaseOrder))
Normal(c) ==
  {"same"} \cup IF ~Loaded \/ c = "bypass" THEN {} ELSE IF c = "ect" THEN {"marked"} ELSE {"dropped"}
Fates == {"same", "marked", "dropped", "altered", "held"}
Passes(fate) == fate \in {"same", "marked", "altered"}
SentAll == Len(probes) = Rounds[stage] * Len(CaseOrder)

\* Each round starts with another case.
NextCase ==
  LET n == Len(probes)
      k == Len(CaseOrder)
  IN CaseOrder[((n + n \div k) % k) + 1]
SendProbe ==
  /\ labAt = "send" /\ ~SentAll
  /\ LET c == NextCase
     IN \E fate \in Fates, in \in BOOLEAN, out \in BOOLEAN :
          /\ fate = "marked" => c # "ce"
          /\ Passes(fate) \/ out
          /\ IF fate \in Normal(c) /\ in /\ out THEN UNCHANGED labFaults ELSE LabFault
          /\ probes' = Append(probes, [case |-> c, fate |-> fate, ingress |-> in,
                                       egress |-> out /\ Passes(fate)])
          /\ red' = IF c = "bypass" THEN red
                    ELSE [ marked |-> red.marked \/ fate = "marked",
                           early |-> red.early \/ fate = "dropped",
                           held |-> red.held \/ fate = "held" ]
  /\ UNCHANGED <<kernel, owned, capturing, workers, labAt, stage, verdicts, labReport, labDisk, truth>>

SendFails ==
  /\ labAt = "send" /\ LabFault /\ Raises
  /\ UNCHANGED <<kernel, owned, capturing, workers, evidence, labReport, labDisk>>

\* The captures stop; one whose socket has dropped a packet fails.
\* Mutant: what the socket dropped is not looked at.
LostUnseen(p) == FALSE
Lost(p) == ~p.ingress \/ (Passes(p.fate) /\ ~p.egress)
StopCaptures ==
  /\ labAt = "send" /\ SentAll
  /\ capturing' = {}
  /\ labAt' = IF \E i \in DOMAIN probes : Lost(probes[i]) THEN "finally" ELSE "verify"
  /\ UNCHANGED <<kernel, owned, workers, evidence, labReport, labDisk, labFaults>>

(***************************************************************************)
(* verify_stage, from the captures alone.                                  *)
(***************************************************************************)
Keys(c) == {i \in DOMAIN probes : probes[i].case = c /\ probes[i].ingress}
Received(c) == {i \in Keys(c) : probes[i].egress}
Marked(S) == {i \in S : probes[i].case = "ect" /\ probes[i].fate = "marked"}
Window(S) == {i \in S : Cardinality({j \in S : j > i}) < 2}

CasePasses(c) ==
  LET keys == Keys(c)
      received == Received(c)
  IN /\ keys # {}
     /\ received # {} \/ (stage = 1 /\ c = "not_ect")
     /\ IF stage = 2 /\ c # "bypass"
          THEN Cardinality(keys) >= 3 /\ Window(keys) \subseteq received /\ Marked(Window(keys)) = {}
          ELSE stage # 1 \/ c = "bypass" => received = keys /\ Marked(received) = {}
     /\ stage = 1 /\ c = "ect" => Marked(received) # {}
     /\ stage = 1 /\ c = "not_ect" => received # keys

CapturesAgree ==
  /\ \A i \in DOMAIN probes : probes[i].ingress
  /\ \A i \in DOMAIN probes : probes[i].egress =>
       probes[i].fate = "same" \/ (probes[i].fate = "marked" /\ probes[i].case = "ect")

\* The queue must be empty, and have counted both under load.
\* Mutant: a queue that still holds probes is not noticed.
QueueAgreesUndrained == stage = 1 => red.marked /\ red.early
QueueAgrees == ~red.held /\ (stage = 1 => red.marked /\ red.early)

\* What really happened to the probes of the stage, whatever was captured.
Fated(c, S) == {i \in DOMAIN probes : probes[i].case = c /\ probes[i].fate \in S}
Behaved ==
  /\ \A i \in DOMAIN probes : /\ probes[i].fate # "altered"
                              /\ probes[i].fate = "marked" => probes[i].case = "ect"
  /\ Fated("bypass", Fates \ {"same"}) = {}
  /\ stage = 0 => Fated("ect", {"same"}) # {} /\ Fated("ect", Fates \ {"same"}) = {}
  /\ stage = 1 => Fated("ect", {"marked"}) # {} /\ Fated("not_ect", {"dropped"}) # {}
  /\ stage = 2 => \A c \in DataCases : Window(Fated(c, Fates)) \subseteq Fated(c, {"same"})

VerifyStage ==
  /\ labAt = "verify"
  /\ verdicts' = Append(verdicts, CapturesAgree /\ (\A c \in Cases : CasePasses(c)) /\ QueueAgrees)
  /\ truth' = (truth /\ Behaved)
  /\ probes' = <<>> /\ red' = [red EXCEPT !.held = FALSE]
  /\ IF stage = 2 THEN labAt' = "judge" /\ UNCHANGED stage
     ELSE labAt' = "ingress" /\ stage' = stage + 1
  /\ workers' = {}        \* they have ended
  /\ Checkpoint /\ UNCHANGED <<kernel, owned, capturing, labFaults>>

Judge ==
  /\ labAt = "judge" /\ labAt' = "finally"
  /\ labReport' = [labReport EXCEPT !.passed = \A i \in DOMAIN verdicts : verdicts[i]]
  /\ UNCHANGED <<kernel, owned, capturing, workers, evidence, labDisk, labFaults>>

(***************************************************************************)
(* Signals, and cleanup.                                                   *)
(***************************************************************************)
\* Until finally has switched them off, a signal there ends the script.
Interrupted ==
  /\ labAt \notin {"cleanup", "end"} /\ LabFault
  /\ labAt' = IF labAt = "finally" THEN "end" ELSE "finally"
  /\ UNCHANGED <<kernel, owned, capturing, workers, evidence, labReport, labDisk>>
Killed ==
  /\ labAt # "end" /\ LabFault /\ labAt' = "end"
  /\ UNCHANGED <<kernel, owned, capturing, workers, evidence, labReport, labDisk>>

IgnoreSignals ==
  /\ labAt = "finally" /\ labAt' = "cleanup"
  /\ UNCHANGED <<kernel, owned, capturing, workers, evidence, labReport, labDisk, labFaults>>

\* The workers end, the namespaces go, the report tells.  An error is noted
\* and the next one is tried.
Cleanup ==
  /\ labAt = "cleanup" /\ labAt' = "end"
  /\ capturing' = capturing \ workers
  /\ \E failed \in SUBSET owned :
       /\ Cardinality(failed) <= MaxLabFaults - labFaults
       /\ labFaults' = labFaults + Cardinality(failed)
       /\ \E gone \in SUBSET failed : kernel' = kernel \ ((owned \ failed) \cup gone)
       /\ labReport' = [passed |-> labReport.passed /\ failed = {}, cleaned |-> failed = {}]
  /\ labDisk' = labReport'
  /\ UNCHANGED <<owned, workers, evidence>>

\* A capture ends by itself after 45 seconds.
WorkerExpires ==
  /\ labAt = "end" /\ capturing # {} /\ capturing' = {}
  /\ UNCHANGED <<kernel, owned, workers, labAt, evidence, labReport, labDisk, labFaults>>

LabNext ==
  \/ CreateNamespace \/ Configure
  \/ StartCapture("ingress", "egress") \/ StartCapture("egress", "send")
  \/ SendProbe \/ SendFails \/ StopCaptures \/ VerifyStage \/ Judge
  \/ Interrupted \/ Killed \/ IgnoreSignals \/ Cleanup \/ WorkerExpires

LabSpec == LabInit /\ [][LabNext]_labVars

(***************************************************************************)
(* Properties.                                                             *)
(***************************************************************************)

\* A report on disk that says "passed" is earned, whatever was lost, refused
\* or interrupted: the bridge left all alone while it was idle, marked and
\* dropped by RED under load, let probes through unmarked afterwards, touched
\* no bypass traffic in any stage, and nothing of the laboratory is left.
EvidenceIsReal ==
  /\ labDisk.passed => truth /\ Len(verdicts) = 3 /\ kernel = {} /\ capturing = {}
  /\ labDisk.cleaned => kernel \cap owned = {}
=============================================================================
