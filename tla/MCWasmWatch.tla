---------------------------- MODULE MCWasmWatch ----------------------------
(* Dev servers that use the same modules, and one that uses none. *)
EXTENDS WasmWatch, TLC

CONSTANTS c1, c2, t1

UsesC == [c \in Clients |-> Tasks]
UsesOne == [c \in Clients |-> IF c = c1 THEN Tasks ELSE {}]

Bound(clients, edits, renames, faults, kinds) ==
  [clients |-> clients, edits |-> edits, renames |-> renames, faults |-> faults, kinds |-> kinds]

BoundsSafety ==
  {Bound(2, 1, 0, 1, {"build", "stop", "kill", "upgrade"}), Bound(2, 0, 0, 2, {"build", "stop"})}

BoundsLiveness ==
  {Bound(2, 1, 0, 1, {"quit", "kill"}), Bound(2, 0, 0, 1, Faults), Bound(1, 1, 1, 1, Faults),
   Bound(2, 0, 1, 0, {}), Bound(1, 1, 2, 0, {})}

MCSymmetry == Permutations(Clients) \cup Permutations(Daemons)
=============================================================================
