----------------------------- MODULE MCDirLocks -----------------------------
(* The directory locks for TLC: three processes of one kind, two faults.   *)
EXTENDS DirLocks

=============================================================================
