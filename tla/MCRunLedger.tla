---------------------------- MODULE MCRunLedger ----------------------------
(* Small instances of RunLedger for TLC. *)
EXTENDS RunLedger

CONSTANTS asker, colleague

MCPeople == {asker, colleague}
\* The first agent works for the asker, any other for the colleague.
MCReviewer == LET first == CHOOSE a \in Agents : TRUE
              IN  [a \in Agents |-> IF a = first THEN asker ELSE colleague]

\* Passages and changes differ in name only.
Symmetry == Permutations(Slots) \cup Permutations(Changes)
=============================================================================
