---------------------------- MODULE MCControlPlane ----------------------------
(* Two workers, two submissions of one target, at most one cancel request. *)
EXTENDS ControlPlane, TLC

CONSTANTS w1, w2, q1

MCSymmetry == Permutations({w1, w2})
=============================================================================
