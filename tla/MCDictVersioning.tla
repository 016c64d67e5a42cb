-------------------------- MODULE MCDictVersioning --------------------------
(* Instances of DictVersioning for TLC: items with a code each, or two that     *)
(* compete for one code.                                                   *)
EXTENDS DictVersioning, TLC

CONSTANTS i1, i2, c1, c2, w1, w2, p1, p2, b1

TwoCodes == (i1 :> c1) @@ (i2 :> c2)
SharedCode == (i1 :> c1) @@ (i2 :> c1)

RequestSymmetry == Permutations({w1, w2}) \cup Permutations({p1, p2})
=============================================================================
