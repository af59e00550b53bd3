---------------------------- MODULE MCReconstruction ----------------------------
(* The runs are routed to the Colab queue; attempts are bounded by two instead of *)
(* five, which the faults of a run can use up.                                    *)
EXTENDS Reconstruction
=================================================================================
