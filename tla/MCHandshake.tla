---------------------------- MODULE MCHandshake ----------------------------
(***************************************************************************)
(* An instance of Handshake for TLC: two calls that are answered by the    *)
(* responder of the protocol, and one by a plain node, and one key that    *)
(* messages are sent with.                                                 *)
(***************************************************************************)
EXTENDS Handshake

CONSTANTS c1, c2, c3, m1

Calls == {c1, c2, c3}
Messages == {m1}
Kinds == [c \in Calls |-> IF c = c3 THEN "node" ELSE "responder"]
=============================================================================
