--------------------------- MODULE MCBackendLocks ---------------------------
(* Three runs over two lock scopes: a and c need both, b needs the second. *)
EXTENDS BackendLocks, TLC

CONSTANTS a, b, c

MCRuns == {a, b, c}
MCNeeds == (a :> {1, 2}) @@ (b :> {2}) @@ (c :> {1, 2})
=============================================================================
