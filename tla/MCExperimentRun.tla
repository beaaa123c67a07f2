-------------------------- MODULE MCExperimentRun --------------------------
(* An instance of ExperimentRun: one run of the trade manager and one of an *)
(* author, two processes.                                                   *)
EXTENDS ExperimentRun, TLC

CONSTANTS p1, p2, manager, author

MCProcs == {p1, p2}
MCRuns == {manager, author}
MCBars == [r \in MCRuns |-> IF r = manager THEN 3 ELSE 2]
MCSymmetry == Permutations(MCProcs)
=============================================================================
