---------------------------- MODULE MCExportWatch ----------------------------
(* Instances of ExportWatch for TLC.                                       *)
EXTENDS ExportWatch

CONSTANTS j1, j2, w1, w2
=============================================================================
