---------------------------- MODULE MCRoundTrip -----------------------------
(* Values for the run of RoundTrip: the object becomes shorter.              *)
EXTENDS RoundTrip

Lengths == <<2, 1>>
=============================================================================
