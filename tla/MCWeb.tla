-------------------------------- MODULE MCWeb --------------------------------
\* The parts of the panel process around its configuration authority: sessions,
\* optics page, eye diagram and RoCE history.  They share no state, so each is
\* explored while the others stand still.
EXTENDS Sessions, OpticsCache, EyeScan, RoceMonitor

VARIABLE part

webVars == <<part, sessionsVars, opticsVars, eyeVars, monitorVars>>

Init ==
  /\ part \in {"sessions", "optics", "eye", "monitor"}
  /\ SessionsInit /\ OpticsInit /\ EyeInit /\ MonitorInit
  /\ part # "optics" => modes = <<[e \in Epls |-> "100g"]>>
Next ==
  \/ /\ part = "sessions" /\ SessionsNext
     /\ UNCHANGED <<part, opticsVars, eyeVars, monitorVars>>
  \/ /\ part = "optics" /\ OpticsNext
     /\ UNCHANGED <<part, sessionsVars, eyeVars, monitorVars>>
  \/ /\ part = "eye" /\ EyeNext
     /\ UNCHANGED <<part, sessionsVars, opticsVars, monitorVars>>
  \/ /\ part = "monitor" /\ MonitorNext
     /\ UNCHANGED <<part, sessionsVars, opticsVars, eyeVars>>
Spec == Init /\ [][Next]_webVars
=============================================================================
