----------------------------- MODULE MCOperations -----------------------------
\* What is done to the system from outside the switch: the two ECN test paths,
\* the time helper, and the scripts that change the startup files.  They share
\* no state, so each is explored while the others stand still.
EXTENDS EcnLab, EcnGateway, TimeSync, NativeBoot

VARIABLE job

operationsVars == <<job, labVars, gatewayVars, timeVars, bootVars>>

MCNames == {"sw", "dst"}
MCRounds == [s \in Stages |-> s + 1]
MCServerLists == {"lan", "public"}

\* The others stand still in one of their initial states.
Only(j) == job = j
Init ==
  /\ job \in {"lab", "gateway", "time", "boot"}
  /\ LabInit /\ GatewayInit /\ TimeInit /\ BootInit
  /\ ~Only("gateway") => eligible = Sides /\ up = Sides
  /\ ~Only("time") => /\ dropin = None /\ override = None /\ ntp /\ daemon = None
                      /\ \A h \in Helpers : helper[h].wants = Keep
Next ==
  \/ Only("lab") /\ LabNext /\ UNCHANGED <<job, gatewayVars, timeVars, bootVars>>
  \/ Only("gateway") /\ GatewayNext /\ UNCHANGED <<job, labVars, timeVars, bootVars>>
  \/ Only("time") /\ TimeNext /\ UNCHANGED <<job, labVars, gatewayVars, bootVars>>
  \/ Only("boot") /\ BootNext /\ UNCHANGED <<job, labVars, gatewayVars, timeVars>>
Spec == Init /\ [][Next]_operationsVars
=============================================================================
