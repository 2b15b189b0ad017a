---------------------------- MODULE MCProcessRun ----------------------------
(* ProcessRun on small constants.  The two streams are treated alike, so    *)
(* they are symmetric in the runs without a liveness property.              *)
EXTENDS ProcessRun, TLC

StreamSymmetry == Permutations(Streams)
=============================================================================
