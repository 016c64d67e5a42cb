---------------------------- MODULE MCRbacPolicy ----------------------------
(***************************************************************************)
(* Instances of RbacPolicy for TLC: a user, a system role that the seed    *)
(* lets do everything, a role to be created and deleted, two replicas, two *)
(* edits at once, and two permissions that overlap as user:update and      *)
(* user:roles:write do: a rule for the first matches the second as well.   *)
(***************************************************************************)
EXTENDS RbacPolicy, TLC

CONSTANTS r1, r2, u1, p1, p2, all, x1, x2, e1, e2

MCMatches == {<<q, q>> : q \in {p1, p2, all}} \cup {<<p2, p1>>, <<p1, all>>, <<p2, all>>}

MCSeed == {<<r2, all>>, <<u1, r2>>}

PolicySymmetry == Permutations({x1, x2}) \cup Permutations({e1, e2})
=============================================================================
