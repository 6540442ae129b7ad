--------------------------- MODULE MCMockConfigd ---------------------------
\* Two port groups of two modes, three commits, two injected hardware faults.
EXTENDS MockConfigd

CONSTANTS g1, g2, split, joined, j1, j2, j3

MCGroups == {g1, g2}
MCModes == {split, joined}
MCJobs == {j1, j2, j3}
MCDefault == [g \in MCGroups |-> split]
=============================================================================
