--------------------------- MODULE MCPanelService ---------------------------
\* Jobs and drafts are interchangeable: symmetry is used where no liveness is checked.
EXTENDS PanelService, TLC

CONSTANTS j1, j2, j3, d1, d2

TwoJobs == {j1, j2}
ThreeJobs == {j1, j2, j3}
OneDraft == {d1}
TwoDrafts == {d1, d2}
Interchangeable == Permutations(ThreeJobs) \cup Permutations(TwoDrafts)
=============================================================================
