-------------------------- MODULE MCSyncInspection --------------------------
(* Instances of SyncInspection for TLC: an inspection, three points of it,  *)
(* two with the same seq, a problem found on it and a photo of that.       *)
EXTENDS SyncInspection, TLC

CONSTANTS i1, p1, p2, p3, q1, a1, b1, b2, f1, f2

Owner == [i \in Children |-> IF i = a1 THEN q1 ELSE i1]
PointSeq == [p \in Points |-> IF p = p1 THEN 1 ELSE 2]

RequestSymmetry == Permutations({b1, b2}) \cup Permutations({f1, f2})
=============================================================================
