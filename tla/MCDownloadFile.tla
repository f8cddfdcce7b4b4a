--------------------------- MODULE MCDownloadFile ---------------------------
(* Values and symmetry for the runs of DownloadFile.                       *)
EXTENDS DownloadFile, TLC

CONSTANTS w1, w2

WorkerSymmetry == Permutations(Workers)
=============================================================================
