------------------------------ MODULE MCTrustStore ------------------------------
(***************************************************************************)
(* Instances of TrustStore for TLC.                                        *)
(***************************************************************************)
EXTENDS TrustStore, TLC

CONSTANTS n1, n2, k1, k2

Nodes == {n1, n2}
Keys == {k1, k2}
OneKey == {k1}
NodeSymmetry == Permutations(Nodes)
NodeAndKeySymmetry == Permutations(Nodes) \cup Permutations(Keys)
=============================================================================
