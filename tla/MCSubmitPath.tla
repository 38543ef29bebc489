----------------------------- MODULE MCSubmitPath -----------------------------
(* Up to three calls with two keys, an approval, one worker or two. *)
EXTENDS SubmitPath, TLC

CONSTANTS w1, w2, k1, k2, q1, a1

MCSymmetry == Permutations({k1, k2})
=============================================================================
