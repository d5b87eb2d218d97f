------------------------- MODULE MCRenderingManager -------------------------
(***************************************************************************)
(* Instances of RenderingManager for TLC: the user changes the camera and  *)
(* the shading override up to MaxChanges times, and starts any number of   *)
(* renderings.                                                             *)
(***************************************************************************)
EXTENDS RenderingManager
=============================================================================
