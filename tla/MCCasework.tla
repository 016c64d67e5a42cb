----------------------------- MODULE MCCasework -----------------------------
(* Instances of Casework for TLC: two projects that want the same code, a   *)
(* task, a problem and two statuses.                                        *)
EXTENDS Casework, TLC

CONSTANTS r1, r2, t1, q1, open, closed, u1, u2, c1, reader, ann

Code == [p \in Projects |-> "code"]
Reporter == [q \in Problems |-> ann]

CaseSymmetry == Permutations({u1, u2}) \cup Permutations({open, closed})
=============================================================================
