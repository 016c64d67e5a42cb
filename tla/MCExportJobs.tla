---------------------------- MODULE MCExportJobs ----------------------------
(* Instances of ExportJobs for TLC.                                        *)
EXTENDS ExportJobs, TLC

CONSTANTS j1, j2, w1, w2

\* Goroutines are interchangeable (used by the runs that check no liveness).
WorkerSymmetry == Permutations({w1, w2})
=============================================================================
