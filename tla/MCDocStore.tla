----------------------------- MODULE MCDocStore -----------------------------
(* Small instances of DocStore; the configurations give the sets and bounds. *)
EXTENDS DocStore

CONSTANTS e1, e2, e3
=============================================================================
