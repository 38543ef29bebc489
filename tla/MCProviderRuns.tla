---------------------------- MODULE MCProviderRuns ----------------------------
(* Two workers, two submissions of one target. *)
EXTENDS ProviderRuns, TLC

CONSTANTS w1, w2

MCSymmetry == Permutations({w1, w2})
=============================================================================
