----------------------- MODULE MCGenericFrameRenderer -----------------------
(***************************************************************************)
(* Instances of GenericFrameRenderer for TLC: two workers, and a frame of  *)
(* two tiles, of which the last one is incomplete.                         *)
(***************************************************************************)
EXTENDS GenericFrameRenderer

Canvas(w, h, tw, th) == [width |-> w, height |-> h, tileWidth |-> tw, tileHeight |-> th]

SmallCanvases == {Canvas(3, 1, 2, 2)}

\* An order of two tiles is one of the random ones, whatever produced it.
SomeOrderings == {"spiral", "random"}
=============================================================================
