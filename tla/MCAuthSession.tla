--------------------------- MODULE MCAuthSession ---------------------------
(* Instances of AuthSession for TLC: a console with two API calls.          *)
EXTENDS AuthSession, TLC

CONSTANTS c1, c2

CallSymmetry == Permutations({c1, c2})
=============================================================================
