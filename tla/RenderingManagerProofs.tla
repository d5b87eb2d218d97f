----------------------- MODULE RenderingManagerProofs -----------------------
(***************************************************************************)
(* The inductive invariant of RenderingManager: what the studio's window   *)
(* and the master renderer's thread may rely on, however often the user    *)
(* changes something and whichever step of the renderer throws.            *)
(***************************************************************************)
EXTENDS RenderingManager, TLAPS

\* The invariant holds when the studio has started.
LEMMA InitIInv == Init => IInv
<1>. SUFFICES ASSUME Init PROVE IInv
  OBVIOUS
<1>. USE StudioAssumption
     DEF Init, MasterInit, IInv, TypeOK, MasterTypeOK, Location, Callbacks, Status, Continue,
         Terminate, Abort, Restart, Reinitialize, FrameRendererQuiet, CameraChangeNotLost,
         FrameInProgress, StaleRequestIgnored, CameraControllerLives, StartOnlyAfterTheEnd,
         EndAnnounced, VerdictReached, RendererInStep, Between
<1>1. MasterTypeOK
  OBVIOUS
<1>2. WindowTypeOK
  BY DEF WindowTypeOK
<1>3. VersionsTypeOK
  BY DEF VersionsTypeOK
<1>4. /\ FrameRendererQuiet /\ CameraChangeNotLost /\ StaleRequestIgnored
      /\ CameraControllerLives /\ StartOnlyAfterTheEnd /\ EndAnnounced /\ VerdictReached
      /\ RendererInStep
  OBVIOUS
<1>5. ReplacedForGood
  BY DEF ReplacedForGood
<1>. QED  BY <1>1, <1>2, <1>3, <1>4, <1>5

\* The user may change everything but the master thread's state, which a start hands over.
LEMMA UserTypeOK == TypeOK /\ UserActs => TypeOK'
<1>. SUFFICES ASSUME MasterTypeOK, WindowTypeOK, VersionsTypeOK, UserActs
              PROVE  MasterTypeOK' /\ WindowTypeOK' /\ VersionsTypeOK'
  BY DEF TypeOK
<1>1. MasterTypeOK'
  BY DEF UserActs, UserStarts, UserStops, UserMovesCamera, UserEditsCamera, UserOverridesShading,
         UserCloses, UserAnswers, Render, Moves, MasterTypeOK, Location, Callbacks, masterVars
<1>2. WindowTypeOK'
  BY DEF UserActs, UserStarts, UserStops, UserMovesCamera, UserEditsCamera, UserOverridesShading,
         UserCloses, UserAnswers, AbortRendering, RestartRendering, ReinitializeRendering,
         SetStatus, cameraVars, windowVars, requestVars, WindowTypeOK, Status, Abort, Restart,
         Reinitialize
<1>3. VersionsTypeOK'
  <2>. USE StudioAssumption DEF VersionsTypeOK, objectVars, cameraVars, shadingVars
  <2>1. CASE UserStarts
    BY <2>1 DEF UserStarts
  <2>2. CASE UserMovesCamera
    BY <2>2 DEF UserMovesCamera
  <2>3. CASE UserEditsCamera
    BY <2>3 DEF UserEditsCamera
  <2>4. CASE UserOverridesShading
    BY <2>4 DEF UserOverridesShading
  <2>5. CASE UserStops \/ UserCloses \/ UserAnswers
    BY <2>5 DEF UserStops, UserCloses, UserAnswers
  <2>. QED  BY <2>1, <2>2, <2>3, <2>4, <2>5 DEF UserActs
<1>. QED  BY <1>1, <1>2, <1>3

\* So may the slots.
LEMMA SlotTypeOK == TypeOK /\ Slots => TypeOK'
<1>. SUFFICES ASSUME TypeOK, Slots PROVE TypeOK'
  OBVIOUS
<1>. USE DEF TypeOK, Slots, SlotRenderingBegin, SlotFrameBegin, SlotFrameEnd, SlotRenderingEnd,
             WindowRenderingEnd, objectVars, cameraVars, shadingVars, windowVars, requestVars
<1>1. MasterTypeOK'
  BY DEF OnRenderingBegin, OnFrameBegin, OnFrameEnd, OnRenderingSuccess, OnRenderingAbort, Moves,
         MasterTypeOK, Location, Callbacks, masterVars
<1>2. WindowTypeOK'
  BY DEF WindowTypeOK, UpdateCameraTransform, Uses, Status, Continue
<1>3. VersionsTypeOK'
  BY DEF VersionsTypeOK, UpdateCameraTransform
<1>. QED  BY <1>1, <1>2, <1>3

\* The master thread, and what ends the process.
LEMMA MasterStepTypeOK ==
    TypeOK /\ (MasterProceeds \/ ReadRequest \/ Disturbance \/ RenderingThreadCrashes) => TypeOK'
<1>. SUFFICES ASSUME TypeOK, MasterProceeds \/ ReadRequest \/ Disturbance \/ RenderingThreadCrashes
              PROVE  TypeOK'
  OBVIOUS
<1>. USE DEF TypeOK, MasterProceeds, ReadRequest, Disturbance, RenderingThreadCrashes, objectVars,
             cameraVars, shadingVars, windowVars, requestVars
<1>1. MasterTypeOK'
  <2>. USE DEF MasterTypeOK, Location, Callbacks, Status, Terminate, Abort
  <2>1. CASE MasterStep
    BY <2>1 DEF MasterStep, Initialize, SceneFrameBegin, StartRendering, Poll, Halt, SceneFrameEnd,
                Return, Moves, Continue
  <2>2. CASE ReadRequest
    BY <2>2 DEF OnProgress, WindowTypeOK, Moves
  <2>3. CASE Throw
    BY <2>3 DEF Throw
  <2>4. CASE FrameRendererFinishes
    BY <2>4 DEF FrameRendererFinishes
  <2>5. CASE RenderingThreadCrashes
    BY <2>5 DEF masterVars
  <2>. QED  BY <2>1, <2>2, <2>3, <2>4, <2>5
<1>2. WindowTypeOK'
  BY DEF WindowTypeOK
<1>3. VersionsTypeOK'
  BY DEF VersionsTypeOK
<1>. QED  BY <1>1, <1>2, <1>3

\* Every step of the user, of a slot and of the master thread preserves the types.
LEMMA NextTypeOK == TypeOK /\ [Next]_vars => TypeOK'
<1>. SUFFICES ASSUME TypeOK, [Next]_vars PROVE TypeOK'
  OBVIOUS
<1>1. CASE UNCHANGED vars \/ WaitEnds
  BY <1>1 DEF TypeOK, WaitEnds, vars, masterVars, MasterTypeOK, WindowTypeOK, VersionsTypeOK,
              objectVars, cameraVars, shadingVars, windowVars, requestVars
<1>. QED  BY <1>1, UserTypeOK, SlotTypeOK, MasterStepTypeOK DEF Next

\* And with the types the rest of the invariant.
LEMMA NextIInv == IInv /\ [Next]_vars => IInv'
<1>. SUFFICES ASSUME IInv, [Next]_vars PROVE IInv'
  OBVIOUS
<1>1. /\ mpc \in Location /\ status \in Status /\ mpc' \in Location
      /\ cameraObject \in Nat /\ controlled \in Nat /\ prepared \in Nat /\ ReplacedForGood
  BY NextTypeOK, StudioAssumption DEF IInv, TypeOK, MasterTypeOK, VersionsTypeOK
<1>2. ReplacedForGood'
  <2>. USE <1>1 DEF ReplacedForGood, objectVars, cameraVars
  <2>1. CASE UserStarts \/ UserEditsCamera
    BY <2>1 DEF UserStarts, UserEditsCamera
  <2>2. CASE MasterProceeds
    BY <2>2 DEF MasterProceeds
  <2>3. CASE UNCHANGED objectVars
    BY <2>3
  <2>. QED  BY <2>1, <2>2, <2>3
            DEF Next, UserActs, UserStops, UserMovesCamera, UserOverridesShading, UserCloses,
                UserAnswers, WaitEnds, Slots, SlotRenderingBegin, SlotFrameBegin, SlotFrameEnd,
                SlotRenderingEnd, WindowRenderingEnd, ReadRequest, Disturbance,
                RenderingThreadCrashes, vars
<1>. DEFINE Rest == /\ FrameRendererQuiet /\ CameraChangeNotLost /\ StaleRequestIgnored
                    /\ CameraControllerLives /\ StartOnlyAfterTheEnd /\ EndAnnounced
                    /\ VerdictReached /\ RendererInStep
<1>3. Rest
  BY DEF IInv
<1>4. Rest'
  <2>. USE <1>1, <1>3
       DEF Location, Callbacks, Status, Continue, Terminate, Abort, Restart, Reinitialize,
           FrameRendererQuiet, CameraChangeNotLost, FrameInProgress, StaleRequestIgnored,
           CameraControllerLives, StartOnlyAfterTheEnd, EndAnnounced, VerdictReached,
           RendererInStep, Between, masterVars, objectVars, cameraVars, windowVars, requestVars,
           Moves, IsRendering
  <2>1. CASE UserStarts
    BY <2>1 DEF UserStarts, Render
  <2>2. CASE UserStops \/ UserMovesCamera \/ UserOverridesShading
    BY <2>2 DEF UserStops, UserMovesCamera, UserOverridesShading, AbortRendering,
                RestartRendering, ReinitializeRendering, SetStatus
  <2>12. CASE UserAnswers
    <3>1. CASE UNCHANGED requestVars
      BY <2>12, <3>1 DEF UserAnswers
    <3>2. CASE AbortRendering
      BY <2>12, <3>2 DEF UserAnswers, AbortRendering, SetStatus
    <3>. QED  BY <2>12, <3>1, <3>2 DEF UserAnswers
  <2>3. CASE UserEditsCamera
    BY <1>1, <2>3 DEF UserEditsCamera, ReplacedForGood
  <2>4. CASE UserCloses
    BY <2>4 DEF UserCloses
  <2>13. CASE WaitEnds
    BY <2>13 DEF WaitEnds
  <2>14. CASE RenderingThreadCrashes
    BY <2>14 DEF RenderingThreadCrashes
  <2>5. CASE SlotRenderingBegin \/ SlotFrameEnd \/ WindowRenderingEnd
    BY <2>5 DEF SlotRenderingBegin, OnRenderingBegin, SlotFrameEnd, OnFrameEnd, WindowRenderingEnd
  <2>6. CASE SlotFrameBegin
    BY <2>6 DEF SlotFrameBegin, OnFrameBegin, UpdateCameraTransform
  <2>7. CASE SlotRenderingEnd
    BY <2>7 DEF SlotRenderingEnd, OnRenderingSuccess, OnRenderingAbort
  <2>8. CASE MasterProceeds
    BY <2>8 DEF MasterProceeds, MasterStep, Initialize, SceneFrameBegin, StartRendering, Poll, Halt,
                SceneFrameEnd, Return
  <2>9. CASE ReadRequest
    BY <2>9 DEF ReadRequest, OnProgress
  <2>10. CASE Disturbance
    BY <2>10 DEF Disturbance, Throw, FrameRendererFinishes
  <2>11. CASE UNCHANGED vars
    BY <2>11 DEF vars
  <2>. QED  BY <2>1, <2>2, <2>3, <2>4, <2>5, <2>6, <2>7, <2>8, <2>9, <2>10, <2>11, <2>12,
               <2>13, <2>14 DEF Next, UserActs, Slots
<1>. QED  BY NextTypeOK, <1>2, <1>4 DEF IInv

\* The invariant holds in every reachable state.
THEOREM Invariance == Spec => []IInv
BY InitIInv, NextIInv, PTL DEF Spec

\* The variables keep their types.
THEOREM TypeCorrect == Spec => []TypeOK
<1>1. IInv => TypeOK
  BY DEF IInv
<1>. QED  BY <1>1, Invariance, PTL

\* No frame begins, ends or loses its renderer while the renderer still works: the
\* assertions of MasterRenderer::render_frame_sequence() cannot fail.
THEOREM NeverInterrupted == Spec => []FrameRendererQuiet
<1>1. IInv => FrameRendererQuiet
  BY DEF IInv
<1>. QED  BY <1>1, Invariance, PTL

\* A camera movement during a frame is always followed by a request that is still to be
\* read, or already in the scene's camera.
THEOREM CameraChangesShown == Spec => []CameraChangeNotLost
<1>1. IInv => CameraChangeNotLost
  BY DEF IInv
<1>. QED  BY <1>1, Invariance, PTL

\* No request outlives the frame it was made in.
THEOREM RequestsAreFresh == Spec => []StaleRequestIgnored
<1>1. IInv => StaleRequestIgnored
  BY DEF IInv
<1>. QED  BY <1>1, Invariance, PTL

\* slot_frame_begin() finds a camera controller.
THEOREM CameraControllerPresent == Spec => []CameraControllerThere
<1>1. IInv => CameraControllerThere
  BY DEF IInv, CameraControllerLives, CameraControllerThere
<1>. QED  BY <1>1, Invariance, PTL

\* The menus never allow a second rendering beside one that is not about to return.
THEOREM StartsInTurn == Spec => []StartOnlyAfterTheEnd
<1>1. IInv => StartOnlyAfterTheEnd
  BY DEF IInv
<1>. QED  BY <1>1, Invariance, PTL

\* While a frame is rendered, no slot and no start of a rendering changes what the rendering
\* threads read without a lock; the user's edit of the camera replaces it, where it stands.
THEOREM SceneIsStable == Spec => OnlyEditsTouchTheScene
<1>1. ASSUME IInv, [Next]_vars
      PROVE  [frameRenderer = "rendering" =>
                  /\ UNCHANGED <<sceneCamera, params, engine>>
                  /\ UserEditsCamera \/ UNCHANGED cameraObject]_vars
  <2>. SUFFICES ASSUME frameRenderer = "rendering", Next
                PROVE  /\ UNCHANGED <<sceneCamera, params, engine>>
                       /\ UserEditsCamera \/ UNCHANGED cameraObject
    BY <1>1
  <2>1. mpc \in {"poll", "progress", "halt"}
    BY <1>1 DEF IInv, FrameRendererQuiet
  <2>. USE <2>1 DEF objectVars, cameraVars, shadingVars, Moves
  <2>2. CASE UserActs
    BY <1>1, <2>2
       DEF UserActs, UserStarts, Render, UserStops, UserMovesCamera, UserEditsCamera,
           UserOverridesShading, UserCloses, UserAnswers, IsRendering, IInv, StartOnlyAfterTheEnd
  <2>3. CASE WaitEnds
    BY <2>3 DEF WaitEnds
  <2>4. CASE Slots
    BY <2>4
       DEF Slots, SlotRenderingBegin, OnRenderingBegin, SlotFrameBegin, OnFrameBegin, SlotFrameEnd,
           SlotRenderingEnd, WindowRenderingEnd
  <2>5. CASE MasterProceeds
    BY <2>5 DEF MasterProceeds
  <2>6. CASE ReadRequest \/ Disturbance \/ RenderingThreadCrashes
    BY <2>6 DEF ReadRequest, Disturbance, RenderingThreadCrashes
  <2>. QED  BY <2>2, <2>3, <2>4, <2>5, <2>6 DEF Next
<1>. QED  BY <1>1, Invariance, PTL DEF Spec, OnlyEditsTouchTheScene

\* If the camera is only edited between renderings, no deleted camera is ever used by the
\* camera controller, and no frame is rendered with a camera that was not prepared for it.
THEOREM CamerasExist == Spec /\ EditsBetweenRenderings => []CamerasInUseExist
<1>1. Init => CamerasInUseExist
  BY DEF Init, MasterInit, CamerasInUseExist
<1>2. ASSUME IInv, CamerasInUseExist, [Next]_vars, [cameraController => UNCHANGED cameraObject]_vars
      PROVE  CamerasInUseExist'
  <2>. USE DEF CamerasInUseExist, masterVars, windowVars, objectVars, cameraVars, Moves
  <2>1. CASE UNCHANGED vars
    BY <1>2, <2>1 DEF vars
  <2>2. CASE UserStarts
    BY <1>2, <2>2 DEF UserStarts, Render, IsRendering, IInv, StartOnlyAfterTheEnd
  <2>3. CASE UserStops \/ UserMovesCamera \/ UserOverridesShading
    BY <1>2, <2>3 DEF UserStops, UserMovesCamera, UserOverridesShading
  <2>4. CASE UserCloses
    BY <1>2, <2>4 DEF UserCloses
  <2>16. CASE WaitEnds
    BY <1>2, <2>16 DEF WaitEnds
  <2>13. CASE UserAnswers
    BY <1>2, <2>13 DEF UserAnswers
  <2>5. CASE UserEditsCamera /\ ~UNCHANGED vars
    <3>1. ~cameraController
      BY <1>2, <2>5 DEF UserEditsCamera, IInv, TypeOK
    <3>2. mpc \in {"idle", "returning"}
      BY <1>2, <3>1 DEF IInv, CameraControllerLives
    <3>. QED  BY <1>2, <2>5, <3>1, <3>2 DEF UserEditsCamera
  <2>6. CASE SlotRenderingBegin
    BY <1>2, <2>6 DEF SlotRenderingBegin, OnRenderingBegin, ProcessesEvents
  <2>14. CASE SlotFrameEnd
    BY <1>2, <2>14 DEF SlotFrameEnd, OnFrameEnd, ProcessesEvents
  <2>15. CASE WindowRenderingEnd
    BY <1>2, <2>15 DEF WindowRenderingEnd, ProcessesEvents
  <2>7. CASE SlotFrameBegin
    BY <1>2, <2>7 DEF SlotFrameBegin, OnFrameBegin, UpdateCameraTransform, Uses, ProcessesEvents,
                      IInv, CameraControllerLives
  <2>8. CASE SlotRenderingEnd
    BY <1>2, <2>8 DEF SlotRenderingEnd, OnRenderingSuccess, OnRenderingAbort, Uses,
                      ProcessesEvents, IInv, CameraControllerLives
  <2>9. CASE MasterProceeds /\ ui # "dead"
    BY <1>2, <2>9 DEF MasterProceeds, MasterStep, Initialize, SceneFrameBegin, StartRendering, Poll,
                      Halt, SceneFrameEnd, Return, IInv, RendererInStep, Between
  <2>10. CASE ReadRequest
    BY <1>2, <2>10 DEF ReadRequest, OnProgress
  <2>11. CASE Disturbance
    BY <1>2, <2>11 DEF Disturbance, Throw, FrameRendererFinishes
  <2>12. CASE RenderingThreadCrashes
    BY <1>2, <2>12 DEF RenderingThreadCrashes, IInv, FrameRendererQuiet
  <2>. QED  BY <1>2, <2>1, <2>2, <2>3, <2>4, <2>5, <2>6, <2>7, <2>8, <2>9, <2>10, <2>11, <2>12,
               <2>13, <2>14, <2>15, <2>16 DEF Next, UserActs, Slots
<1>. QED  BY <1>1, <1>2, Invariance, PTL DEF Spec, EditsBetweenRenderings

\* The master renderer uses each frame renderer as the contract allows: a restart, a new
\* rendering, an abort and an exception all find it in a state in which it may be started,
\* stopped or released.  The proofs of both frame renderers show the other side.
THEOREM ContractIsKept == Spec => ContractKept
<1>1. ASSUME IInv, [Next]_vars
      PROVE  [IF frameRenderer = "none" THEN Owned!FrameRendererInit'
                                        ELSE Owned!FrameRendererNext]_frameRenderer
  <2>. SUFFICES ASSUME Next, frameRenderer' # frameRenderer
                PROVE  IF frameRenderer = "none" THEN Owned!FrameRendererInit'
                                                 ELSE Owned!FrameRendererNext
    BY <1>1 DEF vars, masterVars
  <2>1. CASE UserActs \/ WaitEnds \/ ReadRequest \/ RenderingThreadCrashes
    BY <2>1 DEF UserActs, UserStarts, Render, UserStops, UserMovesCamera, UserEditsCamera,
                UserOverridesShading, RenderingThreadCrashes, UserCloses, UserAnswers, WaitEnds, ReadRequest, OnProgress, masterVars
  <2>2. CASE Slots
    <3>1. mpc = "frame_end" /\ status # Restart /\ frameRenderer' = "none"
      BY <2>2 DEF Slots, SlotRenderingBegin, OnRenderingBegin, SlotFrameBegin, OnFrameBegin,
                  SlotFrameEnd, OnFrameEnd, SlotRenderingEnd, OnRenderingSuccess,
                  OnRenderingAbort, WindowRenderingEnd, masterVars, Moves
    <3>2. frameRenderer \in {"finished", "stopped"}
      BY <1>1, <3>1 DEF IInv, RendererInStep
    <3>. QED  BY <3>1, <3>2 DEF Owned!FrameRendererNext, Owned!Release
  <2>3. CASE MasterProceeds
    <3>1. CASE Initialize
      BY <1>1, <3>1 DEF Initialize, Moves, IInv, RendererInStep, Between, Owned!FrameRendererInit
    <3>2. CASE StartRendering
      BY <1>1, <3>2 DEF StartRendering, Moves, IInv, RendererInStep, Owned!FrameRendererNext,
                        Owned!Start
    <3>3. CASE Halt
      BY <1>1, <3>3 DEF Halt, Moves, IInv, RendererInStep, Owned!FrameRendererNext, Owned!Stop
    <3>4. CASE SceneFrameBegin \/ Poll \/ SceneFrameEnd \/ Return
      BY <3>4 DEF SceneFrameBegin, Poll, SceneFrameEnd, Return
    <3>. QED  BY <2>3, <3>1, <3>2, <3>3, <3>4 DEF MasterProceeds, MasterStep
  <2>4. CASE Disturbance
    <3>1. CASE Throw
      <4>1. mpc \in {"initialize", "scene_begin", "start"} /\ frameRenderer' = "none"
        BY <3>1 DEF Throw
      <4>2. frameRenderer \in {"ready", "stopped"}
        BY <1>1, <4>1 DEF IInv, RendererInStep, Between
      <4>. QED  BY <4>1, <4>2 DEF Owned!FrameRendererNext, Owned!Release
    <3>2. CASE FrameRendererFinishes
      BY <3>2 DEF FrameRendererFinishes, Owned!FrameRendererNext, Owned!Finish
    <3>. QED  BY <2>4, <3>1, <3>2 DEF Disturbance
  <2>. QED  BY <2>1, <2>2, <2>3, <2>4 DEF Next
<1>. QED  BY <1>1, Invariance, PTL DEF Spec, ContractKept

\* An override of the shading is only lost to a camera movement or to the frame that begins
\* while it is made: this is all that ShadingChangeNotLost, which does not hold, lacks.
THEOREM OverridesAreKept == Spec /\ OverridesDuringFrames => []ShadingChangeNotLost
<1>1. Init => OverridesKept
  BY DEF Init, MasterInit, OverridesKept, ShadingChangeNotLost, FrameInProgress, Continue, Restart
<1>2. ASSUME IInv, OverridesKept, [Next]_vars,
             [~UserMovesCamera /\ (mpc \in {"initialize", "frame_begin"} =>
                                      UNCHANGED shading)]_vars
      PROVE  OverridesKept'
  <2>. USE DEF OverridesKept, ShadingChangeNotLost, FrameInProgress, Continue, Restart, Abort,
               Reinitialize, Terminate, Moves, masterVars, requestVars, shadingVars
  <2>1. CASE UNCHANGED vars
    BY <1>2, <2>1 DEF vars
  <2>2. CASE UserStarts
    BY <1>2, <2>2 DEF UserStarts, Render, IsRendering, IInv, StartOnlyAfterTheEnd
  <2>3. CASE UserStops \/ UserCloses \/ UserAnswers
    BY <1>2, <2>3 DEF UserStops, UserCloses, UserAnswers, AbortRendering, SetStatus
  <2>4. CASE UserMovesCamera /\ ~UNCHANGED vars
    BY <1>2, <2>4
  <2>5. CASE UserOverridesShading /\ ~UNCHANGED vars
    BY <1>2, <2>5 DEF UserOverridesShading, ReinitializeRendering, SetStatus, IInv, TypeOK
  <2>6. CASE WaitEnds
    BY <1>2, <2>6 DEF WaitEnds
  <2>7. CASE SlotRenderingBegin
    BY <1>2, <2>7 DEF SlotRenderingBegin, OnRenderingBegin
  <2>8. CASE SlotFrameBegin
    BY <1>2, <2>8 DEF SlotFrameBegin, OnFrameBegin
  <2>9. CASE SlotFrameEnd
    BY <1>2, <2>9 DEF SlotFrameEnd, OnFrameEnd
  <2>10. CASE SlotRenderingEnd \/ WindowRenderingEnd
    BY <1>2, <2>10 DEF SlotRenderingEnd, OnRenderingSuccess, OnRenderingAbort, WindowRenderingEnd
  <2>11. CASE MasterProceeds
    BY <1>2, <2>11 DEF MasterProceeds, MasterStep, Initialize, SceneFrameBegin, StartRendering, Poll,
                       Halt, SceneFrameEnd, Return
  <2>12. CASE ReadRequest
    BY <1>2, <2>12 DEF ReadRequest, OnProgress
  <2>13. CASE Disturbance
    BY <1>2, <2>13 DEF Disturbance, Throw, FrameRendererFinishes
  <2>14. CASE UserEditsCamera \/ RenderingThreadCrashes
    BY <1>2, <2>14 DEF UserEditsCamera, RenderingThreadCrashes
  <2>. QED  BY <1>2, <2>1, <2>2, <2>3, <2>4, <2>5, <2>6, <2>7, <2>8, <2>9, <2>10, <2>11, <2>12,
               <2>13, <2>14 DEF Next, UserActs, Slots
<1>3. OverridesKept => ShadingChangeNotLost
  BY DEF OverridesKept
<1>. QED  BY <1>1, <1>2, <1>3, Invariance, PTL DEF Spec, OverridesDuringFrames

=============================================================================
