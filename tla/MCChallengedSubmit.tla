--------------------------- MODULE MCChallengedSubmit ---------------------------
(* Three attempts on two submissions, one key or none, and two challenges. *)
EXTENDS ChallengedSubmit, TLC

CONSTANTS r1, r2, r3, s1, s2, k1, b1, b2, c1, c2

MCSymmetry ==
  Permutations(Attempts) \cup Permutations({s1, s2}) \cup Permutations({c1, c2})
    \cup Permutations({b1, b2})
=============================================================================
