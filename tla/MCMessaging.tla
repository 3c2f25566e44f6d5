----------------------------- MODULE MCMessaging -----------------------------
(***************************************************************************)
(* Instances of Messaging for TLC.                                         *)
(***************************************************************************)
EXTENDS Messaging, TLC

CONSTANTS A, B, demo, other

Nodes == {A, B}
Keys == {demo, other}
OneKey == {demo}
NodeSymmetry == Permutations(Nodes)
NodeAndKeySymmetry == Permutations(Nodes) \cup Permutations(Keys)
=============================================================================
