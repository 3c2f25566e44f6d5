----------------------------- MODULE MCDiscovery -----------------------------
(***************************************************************************)
(* Instances of Discovery for TLC: each node in a directory of its own, or *)
(* both in one, as in the guide of the README.                             *)
(***************************************************************************)
EXTENDS Discovery

CONSTANTS A, B, project

Nodes == {A, B}
OwnDir == [n \in Nodes |-> n]
SharedDir == [n \in Nodes |-> project]
=============================================================================
