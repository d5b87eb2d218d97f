--------------------- MODULE MCProgressiveFrameRenderer ---------------------
(***************************************************************************)
(* Instances of ProgressiveFrameRenderer for TLC: two workers and          *)
(* generators, batches of two indices (67 in the code), passes of one      *)
(* sample that grow by one (4096 and 8192 in the code).                    *)
(***************************************************************************)
EXTENDS ProgressiveFrameRenderer

OneSample == {1}
LightPaths == {0, 2}
=============================================================================
