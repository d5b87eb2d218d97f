---------------------------- MODULE FrameRenderer ----------------------------
(***************************************************************************)
(* renderer/kernel/rendering/iframerenderer.h: what a frame renderer       *)
(* promises to the master renderer, which owns it.  It changes the frame   *)
(* only between start_rendering() and the moment is_rendering() becomes    *)
(* false, and is_rendering() becomes true again only by another start,     *)
(* before which the owner has to stop it.                                  *)
(*                                                                         *)
(* ProgressiveFrameRenderer and GenericFrameRenderer implement it.         *)
(***************************************************************************)

VARIABLES mode,  \* of the frame renderer
          image  \* the frame it renders to

Mode == {"ready", "rendering", "finished", "stopped", "gone"}

FrameRendererInit == mode = "ready"

\* start_rendering(), the first one or after stop_rendering(); the frame is not cleared.
Start ==
    /\ mode \in {"ready", "stopped"}
    /\ mode' = "rendering"
    /\ UNCHANGED image

\* A job writes to the frame.
Draw == mode = "rendering" /\ UNCHANGED mode

\* The last job is done or was deleted: is_rendering() becomes false.
Finish ==
    /\ mode = "rendering"
    /\ mode' = "finished"
    /\ UNCHANGED image

\* stop_rendering() or terminate_rendering() returns.
Stop ==
    /\ mode \in {"rendering", "finished"}
    /\ mode' = "stopped"
    /\ UNCHANGED image

\* The destructor, which the owner only calls when nothing is being rendered.
Release ==
    /\ mode \in {"ready", "finished", "stopped"}
    /\ mode' = "gone"
    /\ UNCHANGED image

FrameRendererNext == Start \/ Draw \/ Finish \/ Stop \/ Release

FrameRendererSpec == FrameRendererInit /\ [][FrameRendererNext]_<<mode, image>>

=============================================================================
