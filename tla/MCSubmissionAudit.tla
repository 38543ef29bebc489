-------------------------- MODULE MCSubmissionAudit --------------------------
(* Four writes, two of them of the same document. *)
EXTENDS SubmissionAudit, TLC

CONSTANTS a, b, c, d

MCContentOf == (a :> "x") @@ (b :> "x") @@ (c :> "y") @@ (d :> "z")
=============================================================================
