-------------------------- MODULE MCMediaPipeline --------------------------
(* Instances of MediaPipeline for TLC.  No symmetry: its safe runs check    *)
(* liveness as well.                                                       *)
EXTENDS MediaPipeline

CONSTANTS m1, r1, r2, w1, w2, g1, g2
=============================================================================
