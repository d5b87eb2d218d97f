-------------------------- MODULE RenderingManager --------------------------
(***************************************************************************)
(* appleseed.studio/mainwindow: the user interface thread (RenderingManager*)
(* and the parts of MainWindow that call it) beside the master renderer's  *)
(* thread.  The controller's callbacks are Qt signals over blocking queued *)
(* connections: the master thread waits at a callback location until the   *)
(* user interface thread has run the slot.  on_progress() is no signal, it *)
(* reads m_status; requests of the user are written to m_status by the     *)
(* user interface thread, the last one wins.                               *)
(*                                                                         *)
(* The camera and the shading override are versions: what the user has     *)
(* set, what the scene or the parameters hold, what the engine was built   *)
(* with.  The scene's camera is besides an object of its own, which the    *)
(* user may replace in the project explorer at any time: the old one is    *)
(* deleted, although the camera controller and a ray or light path that is *)
(* being traced go on using it, and the new one is not prepared for the    *)
(* frame in progress.                                                      *)
(***************************************************************************)
EXTENDS MasterRenderer

CONSTANTS MaxChanges,  \* bound: how often the user moves the camera, and overrides the shading
          MaxEdits     \* bound: how often the user edits the camera in the project explorer

ASSUME StudioAssumption == MaxChanges \in Nat /\ MaxEdits \in Nat

VARIABLES ui,                \* what the user interface thread is doing
          widgetsRendering,  \* the menus as enable_disable_widgets(rendering) left them
          request,           \* QtRendererController::m_status
          camera,            \* the transform of the camera controller
          sceneCamera,       \* the transform of the scene's camera
          cameraController,  \* m_camera_controller is not null
          cameraObject,      \* which object the scene's camera is: the number of edits
          controlled,        \* m_camera of the camera controller
          prepared,          \* the camera whose on_frame_begin() was called last
          shading,           \* m_override_shading and m_override_shading_mode
          params,            \* the override in the master renderer's parameters
          engine,            \* the override the shading engine was built with
          endPosted,         \* a queued signal_rendering_end for the main window
          fresh              \* history: a request was made since the frame began

objectVars == <<cameraObject, controlled, prepared>>
cameraVars == <<camera, sceneCamera, cameraController, cameraObject, controlled, prepared>>
shadingVars == <<shading, params, engine>>
windowVars == <<ui, widgetsRendering, endPosted>>
requestVars == <<request, fresh>>
vars == <<masterVars, windowVars, requestVars, cameraVars, shadingVars>>

Init ==
    /\ MasterInit
    /\ ui = "free" /\ widgetsRendering = FALSE /\ endPosted = FALSE
    /\ request = Continue /\ fresh = FALSE
    /\ camera = 0 /\ sceneCamera = 0 /\ cameraController = FALSE
    /\ cameraObject = 0 /\ controlled = 0 /\ prepared = 0
    /\ shading = 0 /\ params = 0 /\ engine = 0

IsRendering == mpc # "idle"  \* m_master_renderer_thread->isRunning()

\* No modal question is open and the main window is not closed: wait_until_rendering_end()
\* processes what the user does too.
TakesInput == ui \in {"free", "waiting"}

-----------------------------------------------------------------------------
(* The user. *)

\* m_renderer_controller.set_status()
SetStatus(s) == request' = s /\ fresh' = TRUE

AbortRendering == SetStatus(Abort)
RestartRendering == SetStatus(Restart)
ReinitializeRendering == SetStatus(Reinitialize)

\* Start rendering.  Nothing but the menus' state prevents it while the previous thread
\* is still leaving render(): Qt then ends the process, for a QThread must not be
\* deleted while it runs.
UserStarts ==
    /\ TakesInput
    /\ ~widgetsRendering
    /\ widgetsRendering' = TRUE
    /\ cameraController' = TRUE
    /\ camera' = sceneCamera
    /\ controlled' = cameraObject
    /\ IF IsRendering
       THEN ui' = "dead" /\ UNCHANGED masterVars
       ELSE Render /\ UNCHANGED ui
    /\ params' = 0
    /\ UNCHANGED <<endPosted, requestVars, sceneCamera, cameraObject, prepared, shading, engine>>

\* Stop rendering.
UserStops ==
    /\ TakesInput
    /\ widgetsRendering
    /\ AbortRendering
    /\ UNCHANGED <<masterVars, windowVars, cameraVars, shadingVars>>

\* Mutant: the scene's camera follows the mouse.
UserMovesSceneCamera ==
    /\ TakesInput
    /\ cameraController
    /\ camera < MaxChanges
    /\ camera' = camera + 1
    /\ sceneCamera' = camera'
    /\ RestartRendering
    /\ UNCHANGED <<masterVars, windowVars, cameraController, objectVars, shadingVars>>

\* The render widget's event filter: the mouse has dragged the camera.
UserMovesCamera ==
    /\ TakesInput
    /\ cameraController
    /\ camera < MaxChanges
    /\ camera' = camera + 1
    /\ RestartRendering
    /\ UNCHANGED <<masterVars, windowVars, sceneCamera, cameraController, objectVars,
                   shadingVars>>

\* The camera is edited in the project explorer, which stays enabled while rendering: a new
\* object with the same transform takes its place, and no request is made.
UserEditsCamera ==
    /\ TakesInput
    /\ cameraObject < MaxEdits
    /\ cameraObject' = cameraObject + 1
    /\ UNCHANGED <<masterVars, windowVars, requestVars, camera, sceneCamera, cameraController,
                   controlled, prepared, shadingVars>>

\* slot_set_shading_override(), slot_clear_shading_override().
UserOverridesShading ==
    /\ TakesInput
    /\ shading < MaxChanges
    /\ shading' = shading + 1
    /\ ReinitializeRendering
    /\ UNCHANGED <<masterVars, windowVars, cameraVars, params, engine>>

\* MainWindow::closeEvent(): a modal question if a rendering is in progress.  A second close
\* event asks again while the first one waits, below it on the stack.
UserCloses ==
    /\ TakesInput
    /\ \/ ~IsRendering /\ ui' = "closed"
       \/ IsRendering /\ ui = "free" /\ ui' = "asking"
       \/ IsRendering /\ ui = "waiting" /\ ui' = "asking again"
    /\ UNCHANGED <<masterVars, widgetsRendering, endPosted, requestVars, cameraVars,
                   shadingVars>>

UserAnswers ==
    /\ ui \in {"asking", "asking again"}
    /\ \/ ui' = (IF ui = "asking" THEN "free" ELSE "waiting") /\ UNCHANGED requestVars
       \/ ui' = "waiting" /\ AbortRendering
    /\ UNCHANGED <<masterVars, widgetsRendering, endPosted, cameraVars, shadingVars>>

\* wait_until_rendering_end() returns, once for every close event on the stack;
\* can_close_project() may still refuse.
WaitEnds ==
    /\ ui = "waiting"
    /\ ~IsRendering
    /\ ui' \in {"free", "closed"}
    /\ UNCHANGED <<masterVars, widgetsRendering, endPosted, requestVars, cameraVars,
                   shadingVars>>

UserActs ==
    \/ UserStarts \/ UserStops \/ UserMovesCamera \/ UserEditsCamera
    \/ UserOverridesShading \/ UserCloses \/ UserAnswers

-----------------------------------------------------------------------------
(* The slots, run by the user interface thread whenever it processes events. *)

ProcessesEvents == ui \in {"free", "asking", "waiting", "asking again"}

\* The use of a deleted camera, if it is one, may be the end of the process.
Uses(object) == ui' \in (IF object = cameraObject THEN {ui} ELSE {ui, "dead"})

SlotRenderingBegin ==
    /\ ProcessesEvents
    /\ OnRenderingBegin
    /\ params' = shading
    /\ UNCHANGED <<windowVars, requestVars, cameraVars, shading, engine>>

\* CameraController::update_camera_transform().  What is written to a deleted camera is lost,
\* unless the scene's camera happens to be at the same address.
UpdateCameraTransform ==
    /\ Uses(controlled)
    /\ sceneCamera' \in (IF controlled = cameraObject THEN {camera} ELSE {sceneCamera, camera})

\* Mutant: the camera controller is not asked for its transform.
SlotFrameBeginSameCamera ==
    /\ ProcessesEvents
    /\ OnFrameBegin
    /\ request' = Continue
    /\ fresh' = FALSE
    /\ UNCHANGED <<windowVars, cameraVars, shadingVars>>

\* Mutant: the status is not reset.
SlotFrameBeginSameStatus ==
    /\ ProcessesEvents
    /\ OnFrameBegin
    /\ fresh' = FALSE
    /\ UpdateCameraTransform
    /\ UNCHANGED <<widgetsRendering, endPosted, request, camera, cameraController, objectVars,
                   shadingVars>>

SlotFrameBegin ==
    /\ ProcessesEvents
    /\ OnFrameBegin
    /\ request' = Continue
    /\ fresh' = FALSE
    /\ UpdateCameraTransform
    /\ UNCHANGED <<widgetsRendering, endPosted, camera, cameraController, objectVars,
                   shadingVars>>

\* Mutant: the camera controller is destroyed with the frame.
SlotFrameEndWithoutCamera ==
    /\ ProcessesEvents
    /\ OnFrameEnd
    /\ cameraController' = FALSE
    /\ UNCHANGED <<windowVars, requestVars, camera, sceneCamera, objectVars, shadingVars>>

SlotFrameEnd ==
    /\ ProcessesEvents
    /\ OnFrameEnd
    /\ UNCHANGED <<windowVars, requestVars, cameraVars, shadingVars>>

\* The destructor of the camera controller writes to its camera.  The same signal is then
\* passed on to the main window, over a queued connection.
SlotRenderingEnd ==
    /\ ProcessesEvents
    /\ OnRenderingSuccess \/ OnRenderingAbort
    /\ Uses(controlled)
    /\ cameraController' = FALSE
    /\ endPosted' = TRUE
    /\ UNCHANGED <<widgetsRendering, requestVars, camera, sceneCamera, objectVars, shadingVars>>

\* MainWindow::slot_rendering_end().
WindowRenderingEnd ==
    /\ ProcessesEvents
    /\ endPosted
    /\ endPosted' = FALSE
    /\ widgetsRendering' = FALSE
    /\ UNCHANGED <<masterVars, ui, requestVars, cameraVars, shadingVars>>

Slots ==
    \/ SlotRenderingBegin \/ SlotFrameBegin \/ SlotFrameEnd \/ SlotRenderingEnd
    \/ WindowRenderingEnd

-----------------------------------------------------------------------------
(* The master renderer's thread between the callbacks. *)

\* The engine is built from the parameters as they are at that moment, a frame is begun with
\* the camera that the scene has.
MasterProceeds ==
    /\ MasterStep
    /\ engine' = IF mpc = "initialize" THEN params ELSE engine
    /\ prepared' = IF mpc = "scene_begin" THEN cameraObject ELSE prepared
    /\ UNCHANGED <<windowVars, requestVars, camera, sceneCamera, cameraController, cameraObject,
                   controlled, shading, params>>

ReadRequest ==
    /\ OnProgress(request)
    /\ UNCHANGED <<windowVars, requestVars, cameraVars, shadingVars>>

Disturbance ==
    /\ Throw \/ FrameRendererFinishes
    /\ UNCHANGED <<windowVars, requestVars, cameraVars, shadingVars>>

\* A rendering thread reads the camera that was deleted under its ray or light path, or the
\* new one, which was never told that a frame begins: in the worst case it crashes.
RenderingThreadCrashes ==
    /\ frameRenderer = "rendering"
    /\ prepared # cameraObject
    /\ ui' = "dead"
    /\ UNCHANGED <<masterVars, widgetsRendering, endPosted, requestVars, cameraVars, shadingVars>>

Next ==
    /\ ui # "dead"
    /\ \/ UserActs \/ WaitEnds \/ Slots \/ MasterProceeds \/ ReadRequest \/ Disturbance
       \/ RenderingThreadCrashes

Spec == Init /\ [][Next]_vars

\* Both threads are scheduled and the event loop runs; what the user does, failures and
\* the end of the frame are left to chance.
Fairness == WF_vars(WaitEnds) /\ WF_vars(Slots) /\ WF_vars(MasterProceeds \/ ReadRequest)

FairSpec == Spec /\ Fairness

-----------------------------------------------------------------------------
(* Properties. *)

WindowTypeOK ==
    /\ ui \in {"free", "asking", "waiting", "asking again", "closed", "dead"}
    /\ request \in Status
    /\ widgetsRendering \in BOOLEAN /\ cameraController \in BOOLEAN
    /\ endPosted \in BOOLEAN /\ fresh \in BOOLEAN

VersionsTypeOK ==
    /\ camera \in 0 .. MaxChanges /\ sceneCamera \in 0 .. MaxChanges
    /\ cameraObject \in 0 .. MaxEdits /\ controlled \in 0 .. MaxEdits
    /\ prepared \in 0 .. MaxEdits
    /\ shading \in 0 .. MaxChanges /\ params \in 0 .. MaxChanges
    /\ engine \in 0 .. MaxChanges

TypeOK == MasterTypeOK /\ WindowTypeOK /\ VersionsTypeOK

FrameInProgress == mpc \in {"scene_begin", "start", "poll", "progress"}

\* "assert(!frame_renderer->is_rendering())" (masterrenderer.cpp:339): no frame is begun
\* or ended, and no frame renderer replaced, while one still renders.
FrameRendererQuiet ==
    mpc \notin {"poll", "progress", "halt"} => frameRenderer # "rendering"

\* The camera and the shading parameters belong to the user interface thread, yet are
\* read by the rendering threads without a lock.  The blocking connections keep every slot
\* and every start out of a frame: while it is rendered only an edit in the project explorer
\* touches what the threads read, and even that leaves the camera where it is.
OnlyEditsTouchTheScene ==
    [][frameRenderer = "rendering" =>
           /\ UNCHANGED <<sceneCamera, params, engine>>
           /\ UserEditsCamera \/ UNCHANGED cameraObject]_vars

\* A user who edits the camera only when there is no camera controller, that is between
\* renderings ...
EditsBetweenRenderings == [][cameraController => UNCHANGED cameraObject]_vars

\* ... finds that the controller never refers to a deleted camera, that every frame is rendered
\* with the camera it was begun with, and that only a start in the last moment of the previous
\* rendering ends the process.
CamerasInUseExist ==
    /\ cameraController => controlled = cameraObject
    /\ mpc \in {"start", "poll", "progress", "halt"} => prepared = cameraObject
    /\ ui = "dead" => mpc = "returning"

\* The frame renderer as its contract sees it; its frame is not the master renderer's.
Owned == INSTANCE FrameRenderer WITH
    mode <- IF frameRenderer = "none" THEN "gone" ELSE frameRenderer, image <- <<>>

\* The master renderer keeps its side of the contract that both frame renderers implement,
\* whatever throws and in whatever order requests arrive: it starts a frame renderer that
\* is new or stopped, stops one that was started, releases one that does not render.
ContractKept ==
    [][IF frameRenderer = "none" THEN Owned!FrameRendererInit'
                                 ELSE Owned!FrameRendererNext]_frameRenderer

\* A camera movement is never lost while a frame is in progress: either the scene's
\* camera is up to date or a request will bring about a new frame or the end.  Only the
\* edit of the camera takes it away from its controller.
CameraChangeNotLost ==
    FrameInProgress /\ controlled = cameraObject /\ sceneCamera # camera => request # Continue

\* "Restart rendering from scratch, taking into account any configuration changes."
\* (irenderercontroller.h:78): the same of a shading override.
ShadingChangeNotLost ==
    FrameInProgress /\ engine # shading => request = Reinitialize \/ request = Abort

\* It is lost in two ways: by a camera movement, whose request overwrites it, and by the
\* frame that begins after the parameters were read.  A user who avoids both ...
OverridesDuringFrames ==
    [][~UserMovesCamera /\ (mpc \in {"initialize", "frame_begin"} => UNCHANGED shading)]_vars

\* ... finds every override in the engine, or a request that is still to be read.
OverridesKept ==
    /\ Restart \notin {request, status}
    /\ mpc = "initialize" => params = shading
    /\ mpc = "frame_begin" => engine = shading
    /\ ShadingChangeNotLost

\* A request left over from an earlier frame or rendering never stops a later one.
StaleRequestIgnored == FrameInProgress /\ request # Continue => fresh

\* slot_frame_begin() uses the camera controller without a test.
CameraControllerThere == mpc = "frame_begin" => cameraController

\* The menus allow a start only when the user interface has seen the end of the previous
\* rendering: at that time the master thread is at most about to return.
StartOnlyAfterTheEnd == ~widgetsRendering => mpc \in {"idle", "returning"}

(* The inductive invariant behind the safety properties above. *)

\* What the methods return to one another is never ContinueRendering.
VerdictReached == mpc \in {"halt", "scene_end", "frame_end"} => status # Continue

\* The camera controller lives as long as the rendering.
CameraControllerLives == mpc \notin {"idle", "returning"} => cameraController

\* The end of a rendering is announced before the menus allow another.
EndAnnounced == endPosted => widgetsRendering /\ mpc \in {"idle", "returning"}

\* There is a frame renderer while a frame is rendered, and none that was started is
\* started again before it was stopped.
RendererInStep ==
    /\ mpc \in {"frame_begin", "scene_begin", "start"} => frameRenderer \in {"ready", "stopped"}
    /\ mpc \in {"poll", "progress", "halt"} => frameRenderer \in {"rendering", "finished"}
    /\ mpc \in {"scene_end", "frame_end"} =>
           frameRenderer \in {"finished", "stopped"}
           /\ (status = Restart => frameRenderer = "stopped")
    /\ mpc \in Between => frameRenderer = "none"

\* A camera that was replaced is never the scene's camera again.
ReplacedForGood == controlled <= cameraObject /\ prepared <= cameraObject

IInv ==
    /\ TypeOK
    /\ ReplacedForGood
    /\ FrameRendererQuiet
    /\ CameraChangeNotLost
    /\ StaleRequestIgnored
    /\ CameraControllerLives
    /\ StartOnlyAfterTheEnd
    /\ EndAnnounced
    /\ VerdictReached
    /\ RendererInStep

\* An abort that on_progress() can see ends the rendering, if no later request overwrites
\* it and the process does not end, as it may after the edit of a camera in use.
AbortEndsRendering ==
    request = Abort /\ mpc \in {"poll", "progress"}
        ~> mpc = "idle" \/ (request # Abort /\ fresh) \/ ui = "dead"

\* "Wait until rendering has ended" (renderingmanager.h:79): closing the main window,
\* once confirmed, aborts the rendering and returns.
CloseReturns == ui = "waiting" ~> ui \in {"free", "closed", "dead"}

=============================================================================
