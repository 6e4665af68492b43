---------------------------- MODULE MCHeldPages ----------------------------
(* Two requests at once on a page with two items, for TLC. *)
EXTENDS HeldPages, TLC

CONSTANTS i1, i2, c1, c2

Symmetry == Permutations({i1, i2}) \cup Permutations({c1, c2})
=============================================================================
