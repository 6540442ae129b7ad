----------------------------- MODULE MCAuthority -----------------------------
\* The contract of an authority, for three jobs over three configurations, and
\* the native authority, for a first configuration and three transactions over
\* two images.  They share no state: each is explored while the other stands
\* still.
EXTENDS ConfirmedCommit, Configd

CONSTANTS j1, j2, j3, c1, c2, c3

MCJobs == {j1, j2, j3}
MCConfigs == {c1, c2, c3}
MCImages == {{"a"}, {"b"}}
MCSeed == {"a"}

VARIABLE lane

LanesInit == Init /\ ConfigdInit /\ lane \in {"contract", "configd"}
LanesNext ==
  \/ lane = "contract" /\ Next /\ UNCHANGED <<lane, configdVars>>
  \/ lane = "configd" /\ ConfigdNext /\ UNCHANGED <<lane, vars>>
LanesSpec == LanesInit /\ [][LanesNext]_<<lane, vars, configdVars>>
=============================================================================
