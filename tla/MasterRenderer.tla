--------------------------- MODULE MasterRenderer ---------------------------
(***************************************************************************)
(* renderer/kernel/rendering/masterrenderer.cpp: the loop that builds the  *)
(* rendering components, renders frames and obeys the renderer controller. *)
(*                                                                         *)
(* It runs in one thread.  `mpc' names what this thread does next; at the  *)
(* locations in Callbacks it is inside a method of the controller, and the *)
(* action named after the method is its return.  The frame renderer is     *)
(* only what IFrameRenderer shows of it; it finishes by itself at any      *)
(* time.  The controller is left to the module that extends this one; in   *)
(* RenderingManager it is the studio's.                                    *)
(***************************************************************************)
EXTENDS Naturals

CONSTANTS SetupMayThrow,  \* building the components may throw
          FrameMayThrow,  \* scene->on_frame_begin() or start_rendering() may throw
          Endless         \* the frame renderer never finishes by itself

ASSUME MasterAssumption == {SetupMayThrow, FrameMayThrow, Endless} \subseteq BOOLEAN

VARIABLES mpc,            \* where the master renderer's thread is
          status,         \* the status the methods return to one another
          frameRenderer,  \* the frame renderer, as its owner sees it
          frameOpen       \* entities of the scene are between on_frame_begin and _end

masterVars == <<mpc, status, frameRenderer, frameOpen>>

Terminate == "terminate"
Abort == "abort"
Restart == "restart"
Reinitialize == "reinitialize"
Continue == "continue"
Status == {Continue, Terminate, Abort, Restart, Reinitialize}

Callbacks == {"rendering_begin", "frame_begin", "progress", "frame_end",
              "rendering_success", "rendering_abort"}
Location == Callbacks \cup
    {"idle", "initialize", "scene_begin", "start", "poll", "halt", "scene_end", "returning"}

\* Where there is no frame renderer
Between == {"idle", "rendering_begin", "initialize", "rendering_success", "rendering_abort",
            "returning"}

MasterTypeOK ==
    /\ mpc \in Location
    /\ status \in Status
    /\ frameRenderer \in {"none", "ready", "rendering", "finished", "stopped"}
    /\ frameOpen \in BOOLEAN

MasterInit ==
    /\ mpc = "idle"
    /\ status = Continue
    /\ frameRenderer = "none"
    /\ frameOpen = FALSE

Moves(from, to) == mpc = from /\ mpc' = to

-----------------------------------------------------------------------------

\* render(): do_render() announces the rendering to the controller.
Render ==
    /\ Moves("idle", "rendering_begin")
    /\ UNCHANGED <<status, frameRenderer, frameOpen>>

OnRenderingBegin ==
    /\ Moves("rendering_begin", "initialize")
    /\ UNCHANGED <<status, frameRenderer, frameOpen>>

\* initialize_and_render_frame_sequence() up to its last line: either every component
\* is built, or an input does not bind or a parameter is unknown.
Initialize ==
    /\ \/ /\ Moves("initialize", "frame_begin")
          /\ frameRenderer' = "ready"
          /\ UNCHANGED status
       \/ /\ Moves("initialize", "rendering_abort")
          /\ status' = Abort
          /\ UNCHANGED frameRenderer
    /\ UNCHANGED frameOpen

OnFrameBegin ==
    /\ Moves("frame_begin", "scene_begin")
    /\ UNCHANGED <<status, frameRenderer, frameOpen>>

SceneFrameBegin ==
    /\ Moves("scene_begin", "start")
    /\ frameOpen' = TRUE
    /\ UNCHANGED <<status, frameRenderer>>

StartRendering ==
    /\ Moves("start", "poll")
    /\ frameRenderer' = "rendering"
    /\ UNCHANGED <<status, frameOpen>>

\* while (frame_renderer->is_rendering()): ask the controller, or leave with Terminate.
Poll ==
    /\ \/ Moves("poll", "progress") /\ frameRenderer = "rendering" /\ UNCHANGED status
       \/ Moves("poll", "scene_end") /\ frameRenderer # "rendering" /\ status' = Terminate
    /\ UNCHANGED <<frameRenderer, frameOpen>>

\* on_progress() returns s.
OnProgress(s) ==
    /\ Moves("progress", IF s = Continue THEN "poll" ELSE "halt")
    /\ status' = s
    /\ UNCHANGED <<frameRenderer, frameOpen>>

\* Mutant: a restart does not stop the frame renderer.
HaltUnlessRestart ==
    /\ Moves("halt", "scene_end")
    /\ frameRenderer' = IF status = Restart THEN frameRenderer ELSE "stopped"
    /\ UNCHANGED <<status, frameOpen>>

\* terminate_rendering(), or stop_rendering() before a restart.
Halt ==
    /\ Moves("halt", "scene_end")
    /\ frameRenderer' = "stopped"
    /\ UNCHANGED <<status, frameOpen>>

SceneFrameEnd ==
    /\ Moves("scene_end", "frame_end")
    /\ frameOpen' = FALSE
    /\ UNCHANGED <<status, frameRenderer>>

\* Mutant: an abort falls through to the next rendering.
OnFrameEndFallingThrough ==
    /\ \/ status = Restart                 /\ Moves("frame_end", "frame_begin")
       \/ status \in {Reinitialize, Abort} /\ Moves("frame_end", "rendering_begin")
       \/ status = Terminate               /\ Moves("frame_end", "rendering_success")
    /\ frameRenderer' = IF status = Restart THEN frameRenderer ELSE "none"
    /\ UNCHANGED <<status, frameOpen>>

\* The switches of render_frame_sequence() and do_render(): the next frame with the
\* same frame renderer, or without it a new rendering, success or abort.
OnFrameEnd ==
    /\ \/ status = Restart      /\ Moves("frame_end", "frame_begin")
       \/ status = Reinitialize /\ Moves("frame_end", "rendering_begin")
       \/ status = Terminate    /\ Moves("frame_end", "rendering_success")
       \/ status = Abort        /\ Moves("frame_end", "rendering_abort")
    /\ frameRenderer' = IF status = Restart THEN frameRenderer ELSE "none"
    /\ UNCHANGED <<status, frameOpen>>

OnRenderingSuccess ==
    /\ Moves("rendering_success", "returning")
    /\ UNCHANGED <<status, frameRenderer, frameOpen>>

OnRenderingAbort ==
    /\ Moves("rendering_abort", "returning")
    /\ UNCHANGED <<status, frameRenderer, frameOpen>>

\* render() returns and its thread ends.
Return ==
    /\ Moves("returning", "idle")
    /\ status' = Continue
    /\ UNCHANGED <<frameRenderer, frameOpen>>

\* An exception unwinds to render(), which reports an abort.  On the way the frame
\* renderer is released, but scene->on_frame_end() is not called for the entities that
\* were told of the frame: some of them, if one of them threw.
Throw ==
    /\ \/ SetupMayThrow /\ mpc = "initialize" /\ UNCHANGED frameOpen
       \/ FrameMayThrow /\ mpc = "scene_begin" /\ frameOpen' \in {frameOpen, TRUE}
       \/ FrameMayThrow /\ mpc = "start" /\ UNCHANGED frameOpen
    /\ mpc' = "rendering_abort"
    /\ frameRenderer' = "none"
    /\ UNCHANGED status

\* The last sample or tile is done.
FrameRendererFinishes ==
    /\ ~Endless
    /\ frameRenderer = "rendering"
    /\ frameRenderer' = "finished"
    /\ UNCHANGED <<mpc, status, frameOpen>>

MasterStep ==
    \/ Initialize \/ SceneFrameBegin \/ StartRendering \/ Poll \/ Halt \/ SceneFrameEnd
    \/ Return

=============================================================================
