---------------------------- MODULE MCUploadFile ----------------------------
(* Values and symmetry for the runs of UploadFile.                         *)
EXTENDS UploadFile, TLC

CONSTANTS w1, w2

WorkerSymmetry == Permutations(Workers)
=============================================================================
