----------------------------- MODULE EcnGateway -----------------------------
(***************************************************************************)
(* The temporary ECN gateway: scripts/roce_ecn_gateway.py lends two NICs   *)
(* of a test host to private namespaces, with a RED queue between them,    *)
(* and gives them back.  report.json is all a person has to find a NIC by  *)
(* when the script did not end well.                                       *)
(*                                                                         *)
(* A command may be refused or time out, and then may have been carried    *)
(* out; SIGKILL or a power failure of the script may come between any two  *)
(* steps (SIGINT and SIGTERM only set a flag).                             *)
(***************************************************************************)
EXTENDS Integers

CONSTANT MaxGatewayFaults   \* bound: commands that do not succeed
ASSUME GatewayAssumption == MaxGatewayFaults \in Nat

Sides == {1, 2}        \* ingress and egress: a NIC and a namespace on each
Home == 0              \* where the NICs belong

VARIABLES
  eligible,    \* spare NICs with default queues, no addresses, no routes
  place,       \* kernel: the namespace each NIC is in
  up,          \* kernel: NICs that are up
  spaces,      \* kernel: namespaces that exist
  gatewayAt,   \* where the script is
  before,      \* NICs inspected
  ownedNames,  \* namespaces on the script's list
  moved,       \* NICs on its list to give back
  errors,      \* cleanup has met one
  gatewayReport, \* report.json: [owned, moved, ready, cleaned]
  gatewayFaults

gatewayVars == <<eligible, place, up, spaces, gatewayAt, before, ownedNames, moved,
                 errors, gatewayReport, gatewayFaults>>
nics == <<eligible, place, up>>
lists == <<before, ownedNames, moved, errors>>

GatewayInit ==
  /\ eligible \in SUBSET Sides /\ place = [s \in Sides |-> Home] /\ up \in SUBSET Sides
  /\ spaces = {} /\ gatewayAt = "inspect1" /\ before = {} /\ ownedNames = {} /\ moved = {}
  /\ errors = FALSE /\ gatewayFaults = 0
  /\ gatewayReport = [owned |-> {}, moved |-> {}, ready |-> FALSE, cleaned |-> FALSE]

\* report.json is replaced whole.
Save(ready, cleaned) ==
  gatewayReport' = [owned |-> ownedNames', moved |-> moved', ready |-> ready, cleaned |-> cleaned]
SaveLists == Save(gatewayReport.ready, gatewayReport.cleaned)
CommandFails == gatewayFaults < MaxGatewayFaults /\ gatewayFaults' = gatewayFaults + 1
CommandSucceeds == UNCHANGED gatewayFaults
At(here) == gatewayAt = here
To(next) == gatewayAt' = next

(***************************************************************************)
(* setup.                                                                  *)
(***************************************************************************)
Inspect(side, here, next) ==
  /\ At(here)
  /\ LET fit == side \in eligible \cap up
     IN \/ fit /\ CommandSucceeds /\ before' = before \cup {side} /\ To(next)
        \/ ((~fit /\ CommandSucceeds) \/ CommandFails) /\ UNCHANGED before /\ To("return2")
  /\ UNCHANGED <<nics, spaces, ownedNames, moved, errors, gatewayReport>>

\* A namespace, noted, and IPv6 switched off in it.
AddSpace(name, here, next) ==
  /\ At(here)
  /\ \/ /\ spaces' = spaces \cup {name} /\ ownedNames' = ownedNames \cup {name} /\ UNCHANGED moved
        /\ SaveLists
        /\ (CommandSucceeds /\ To(next)) \/ (CommandFails /\ To("return2"))
     \/ /\ CommandFails /\ To("return2") /\ spaces' \in {spaces, spaces \cup {name}}
        /\ UNCHANGED <<ownedNames, moved, gatewayReport>>
  /\ UNCHANGED <<nics, before, errors>>

\* A NIC is put on the list before it is moved.
\* Mutant: it is put on the list in memory, and saved with the next checkpoint.
RecordUnsaved(side) ==
  moved' = moved \cup {side} /\ UNCHANGED <<ownedNames, gatewayReport>>
Record(side) ==
  moved' = moved \cup {side} /\ UNCHANGED ownedNames /\ SaveLists
RecordNic(side, here, next) ==
  /\ At(here) /\ Record(side) /\ To(next)
  /\ UNCHANGED <<nics, spaces, before, errors, gatewayFaults>>

\* A NIC that changes namespace goes down.
Put(side, target) ==
  place' = [place EXCEPT ![side] = target] /\ up' = up \ {side} /\ UNCHANGED eligible

MoveNic(side, here, next) ==
  /\ At(here)
  /\ \/ CommandSucceeds /\ To(next) /\ Put(side, side)
     \/ CommandFails /\ To("return2") /\ (Put(side, side) \/ UNCHANGED nics)
  /\ UNCHANGED <<spaces, lists, gatewayReport>>

\* Bridges, queue and filter, until the bridges forward.
ConfigureGateway ==
  /\ gatewayAt = "configure"
  /\ \/ /\ CommandSucceeds /\ gatewayAt' = "serve" /\ up' = Sides
        /\ UNCHANGED lists /\ Save(TRUE, FALSE)
     \/ /\ CommandFails /\ To("return2") /\ up' \in SUBSET Sides
        /\ UNCHANGED <<lists, gatewayReport>>
  /\ UNCHANGED <<eligible, place, spaces>>

\* Until a signal, the stop file or the end of the lifetime; then a snapshot.
StopServing ==
  /\ gatewayAt = "serve" /\ To("return2")
  /\ UNCHANGED <<nics, spaces, lists, gatewayReport, gatewayFaults>>

(***************************************************************************)
(* cleanup: NICs, namespaces, and a look at the result.  The end of the    *)
(* script between the commands of a step leaves what a failure leaves.     *)
(***************************************************************************)
\* The NIC never left: it comes off the list.
NeverLeft(side) ==
  /\ place[side] = Home /\ CommandSucceeds
  /\ moved' = moved \ {side} /\ UNCHANGED <<nics, errors>>
\* The NIC is back: it comes off the list, and up.
Back(side) ==
  /\ place[side] # Home
  /\ place' = [place EXCEPT ![side] = Home] /\ moved' = moved \ {side} /\ UNCHANGED eligible
  /\ \/ CommandSucceeds /\ up' = up \cup {side} /\ UNCHANGED errors
     \/ CommandFails /\ up' \in {up \ {side}, up \cup {side}} /\ errors' = TRUE
\* A command fails: the NIC stays on the list, wherever it is.
Stuck(side) ==
  /\ CommandFails /\ errors' = TRUE /\ UNCHANGED moved
  /\ UNCHANGED nics \/ (place[side] # Home /\ Put(side, Home))

\* The last NIC moved is the first to return.
ReturnNic(side, here, next) ==
  /\ At(here) /\ To(next)
  /\ IF side \in moved
       THEN (NeverLeft(side) \/ Back(side) \/ Stuck(side)) /\ UNCHANGED ownedNames /\ SaveLists
       ELSE UNCHANGED <<nics, moved, ownedNames, errors, gatewayReport, gatewayFaults>>
  /\ UNCHANGED <<spaces, before>>

\* A namespace some NIC on the list was moved to stays.
DeleteSpace(name, here, next) ==
  /\ At(here) /\ To(next)
  /\ IF name \in ownedNames \ moved
       THEN \/ /\ CommandSucceeds /\ spaces' = spaces \ {name}
               /\ ownedNames' = ownedNames \ {name} /\ UNCHANGED errors
            \/ /\ CommandFails /\ spaces' \in {spaces, spaces \ {name}}
               /\ errors' = TRUE /\ UNCHANGED ownedNames
       ELSE UNCHANGED <<spaces, ownedNames, errors, gatewayFaults>>
  /\ UNCHANGED <<nics, before, moved, gatewayReport>>

\* Mutant: the NICs are not looked at again.
RestoredUnlooked == TRUE
Restored == \A side \in before : place[side] = Home /\ side \in up
CheckResult ==
  /\ gatewayAt = "check" /\ gatewayAt' = "end"
  /\ \/ CommandSucceeds /\ errors' = (errors \/ ~Restored)
     \/ before # {} /\ CommandFails /\ errors' = TRUE
  /\ UNCHANGED <<before, ownedNames, moved, nics, spaces>>
  /\ Save(gatewayReport.ready, ~errors' /\ moved = {} /\ ownedNames = {})

GatewayKilled ==
  /\ gatewayAt # "end" /\ gatewayAt' = "end"
  /\ UNCHANGED <<nics, spaces, lists, gatewayReport, gatewayFaults>>

\* A cable, a driver or a person takes a NIC that is at home down.
NicGoesDown ==
  /\ gatewayAt # "end" /\ \E side \in up : place[side] = Home /\ up' = up \ {side}
  /\ CommandFails
  /\ UNCHANGED <<eligible, place, spaces, gatewayAt, lists, gatewayReport>>

GatewayNext ==
  \/ Inspect(1, "inspect1", "inspect2") \/ Inspect(2, "inspect2", "add1")
  \/ AddSpace(1, "add1", "add2") \/ AddSpace(2, "add2", "record1")
  \/ RecordNic(1, "record1", "move1") \/ MoveNic(1, "move1", "record2")
  \/ RecordNic(2, "record2", "move2") \/ MoveNic(2, "move2", "configure")
  \/ ConfigureGateway \/ StopServing
  \/ ReturnNic(2, "return2", "return1") \/ ReturnNic(1, "return1", "delete2")
  \/ DeleteSpace(2, "delete2", "delete1") \/ DeleteSpace(1, "delete1", "check")
  \/ CheckResult \/ GatewayKilled \/ NicGoesDown

GatewaySpec == GatewayInit /\ [][GatewayNext]_gatewayVars

(***************************************************************************)
(* Properties.                                                             *)
(***************************************************************************)

\* No NIC is lost, whenever the script ends and whatever fails: one that is
\* away is on the list in report.json, and its namespace is still there; and a
\* report that says "cleaned up" is true: the NICs the script touched are at
\* home and up at that moment, and nothing is left on its lists.
NicsComeHome ==
  /\ \A side \in Sides : place[side] # Home => /\ side \in gatewayReport.moved
                                              /\ place[side] \in spaces
  /\ gatewayReport.cleaned => /\ \A side \in before : place[side] = Home /\ side \in up
                              /\ gatewayReport.owned = {} /\ gatewayReport.moved = {}
=============================================================================
