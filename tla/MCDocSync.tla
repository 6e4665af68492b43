----------------------------- MODULE MCDocSync -----------------------------
(* Two pages, two edits, two places for the sockets of a page, for TLC. *)
EXTENDS DocSync

CONSTANTS t1, t2, e1, e2, s1, s2
=============================================================================
