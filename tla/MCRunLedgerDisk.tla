-------------------------- MODULE MCRunLedgerDisk --------------------------
(* Small instances of RunLedgerDisk for TLC. *)
EXTENDS RunLedgerDisk, TLC

CONSTANTS c1, c2

\* Changes differ in name only, and no formula chooses one.
Symmetry == Permutations(Changes)
=============================================================================
