---------------------------- MODULE MCActorHost ----------------------------
(* Small instances of ActorHost: p1 and r1 ask for document a, p2 for b, and *)
(* turns call from one document to the other.                              *)
EXTENDS ActorHost

CONSTANTS a, b, p1, p2, r1

MCDoor == [c \in Peers \cup Requests |-> IF c = p2 THEN b ELSE a]
OneWay == {<<a, b>>}
BothWays == {<<a, b>>, <<b, a>>}
=============================================================================
