---------------------------- MODULE MCStageState ----------------------------
(* Four runs of one stage, two of them with a lineage event. *)
EXTENDS StageState, TLC

CONSTANTS a, b, c, d

MCRuns == {a, b, c, d}
MCLineage == {b, c}
MCSymmetry == Permutations({a, d}) \cup Permutations({b, c})
=============================================================================
