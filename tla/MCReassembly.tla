----------------------------- MODULE MCReassembly -----------------------------
(***************************************************************************)
(* Instances of Reassembly for TLC: three calls, three files of one name,  *)
(* one of them torn, and one of another name.                              *)
(***************************************************************************)
EXTENDS Reassembly, TLC

CONSTANTS a, b, c, d

Files == {a, b, c, d}
NamesOf == (a :> "x") @@ (b :> "x") @@ (c :> "x") @@ (d :> "y")
Sizes == (a :> 2) @@ (b :> 1) @@ (c :> 0) @@ (d :> 1)
Inconsistent == {c}
NoNames == {}
OneName == {"x"}
TwoNames == {"x", "y"}
=============================================================================
