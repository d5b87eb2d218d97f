---------------------- MODULE GenericFrameRendererProofs ----------------------
(***************************************************************************)
(* GenericFrameRenderer implements FrameRenderer, uses no tile renderer    *)
(* that was released, and leaves in the frame and in the render widget     *)
(* what it should (FrameComplete, DisplayUpToDate), for any number of      *)
(* workers, any canvases and any order of the tiles.  What it needs to     *)
(* know of the tiles and their orders is proved in TileOrderingProofs.     *)
(***************************************************************************)
EXTENDS GenericFrameRenderer, TileOrderingProofs

W == INSTANCE WorkerPoolProofs WITH
         Job <- TileJob, OwnedJob <- TileJob, KeepRunning <- FALSE

-----------------------------------------------------------------------------
(* The renderer's steps are steps of the pool. *)

\* The constants of the renderer meet the assumptions of the pool.
LEMMA PoolConstants == W!JobAssumption /\ W!PoolAssumption
BY NoJobAssumption, GenericAssumption DEF W!JobAssumption, W!PoolAssumption

\* What the renderer needs to know of the pool.
PoolFacts ==
    /\ scheduled \in Seq(TileJob)
    /\ \A w \in Worker : pc[w] = "execute" => held[w] \in running
    /\ ~created => running = {} /\ \A w \in Worker : pc[w] = "none"

\* The invariant of the pool says so.
LEMMA PoolFactsHold == W!IInv => PoolFacts
<1>. SUFFICES ASSUME W!IInv PROVE PoolFacts
  OBVIOUS
<1>1. Worker = W!Worker
  BY DEF Worker, W!Worker
<1>2. W!QueueTypeOK /\ W!QueueStates /\ W!LoopsInStep
  BY DEF W!IInv, W!TypeOK
<1>3. \A w \in Worker : pc[w] = "execute" => held[w] \in running
  BY <1>1, <1>2 DEF W!QueueStates, W!Executing
<1>4. ~created => running = {} /\ \A w \in Worker : pc[w] = "none"
  BY <1>1, <1>2 DEF W!LoopsInStep, W!QueueStates, W!Executing
<1>. QED  BY <1>2, <1>3, <1>4 DEF PoolFacts, W!QueueTypeOK

\* A step of run() in the renderer is one in the pool, and so is the end of a job.
LEMMA WorkerStepInPool ==
    ASSUME NEW w \in Worker, RunLoop(w) \/ PostRender(w)
    PROVE  W!WorkerStep(w)
<1>. USE DEF Pool!queueVars, W!queueVars, Pool!managerVars, W!managerVars,
             Pool!Goto, W!Goto
<1>1. Pool!TestAbort(w) \/ Pool!FindQueueEmpty(w) \/ Pool!FinishExecution(w) => W!WorkerStep(w)
  BY DEF W!WorkerStep, Pool!TestAbort, W!TestAbort, Pool!FindQueueEmpty, W!FindQueueEmpty,
         Pool!FinishExecution, W!FinishExecution
<1>2. Pool!AcquireJob(w) => W!WorkerStep(w)
  BY DEF W!WorkerStep, Pool!AcquireJob, W!AcquireJob,
         Pool!AcquireScheduledJob, W!AcquireScheduledJob
<1>3. Pool!RetireJob(w) => W!WorkerStep(w)
  BY DEF W!WorkerStep, Pool!RetireJob, W!RetireJob, Pool!EraseRunningJob, W!EraseRunningJob
<1>4. Pool!DeleteJob(w) => W!WorkerStep(w)
  BY DEF W!WorkerStep, Pool!DeleteJob, W!DeleteJob, Pool!DeleteRetiredJob, W!DeleteRetiredJob,
         Pool!DeleteOwned, W!DeleteOwned
<1>. QED  BY <1>1, <1>2, <1>3, <1>4 DEF RunLoop, PostRender

\* So is a step of JobManager::start() or stop(), and so are the calls of the master.
LEMMA OwnerStepInPool ==
    /\ PoolCallProgress => W!OwnerProgress
    /\ Pool!CallStart => W!OwnerCall
    /\ Pool!CallStop => W!OwnerCall
    /\ Pool!OwnerClear => W!OwnerCall
    /\ Pool!Destroy => W!OwnerCall
    /\ \A j \in TileJob : Pool!OwnerSchedule(j) => W!OwnerCall
<1>. USE DEF Pool!queueVars, W!queueVars, Pool!managerVars, W!managerVars,
             Pool!workerVars, W!workerVars, Pool!Goto, W!Goto, Pool!NextWorker, W!NextWorker
<1>1. PoolCallProgress => W!OwnerProgress
  <2>1. ASSUME NEW w \in Worker, Pool!StartWorker(w) PROVE W!StartWorker(w)
    BY <2>1 DEF Pool!StartWorker, W!StartWorker
  <2>2. ASSUME NEW w \in Worker, Pool!StopWorker(w) PROVE W!StopWorker(w)
    BY <2>2 DEF Pool!StopWorker, W!StopWorker
  <2>3. ASSUME NEW w \in Worker, Pool!JoinWorker(w) PROVE W!JoinWorker(w)
    BY <2>3 DEF Pool!JoinWorker, W!JoinWorker
  <2>. QED  BY <2>1, <2>2, <2>3 DEF PoolCallProgress, W!OwnerProgress, Worker, W!Worker
<1>2. Pool!CallStart \/ Pool!CallStop => W!OwnerCall
  BY DEF Pool!CallStart, W!CallStart, Pool!CallStop, W!CallStop, W!OwnerCall
<1>3. Pool!OwnerClear \/ Pool!Destroy => W!OwnerCall
  BY DEF Pool!OwnerClear, W!OwnerClear, Pool!Destroy, W!Destroy, W!OwnerCall,
         Pool!ClearScheduledJobs, W!ClearScheduledJobs, Pool!DeleteOwned, W!DeleteOwned,
         Pool!Range, W!Range
<1>4. ASSUME NEW j \in TileJob, Pool!OwnerSchedule(j) PROVE W!OwnerCall
  BY <1>4 DEF Pool!OwnerSchedule, W!OwnerSchedule, Pool!Schedule, W!Schedule, W!OwnerCall
<1>. QED  BY <1>1, <1>2, <1>3, <1>4

\* A canvas has at least one tile.
LEMMA SomeTile ==
    ASSUME NEW c \in Canvases
    PROVE  /\ c \in CanvasShapes
           /\ TileCount(c) \in Nat \ {0} /\ TileCount(c) = TileCountX(c) * TileCountY(c)
           /\ TileCountX(c) \in Nat \ {0} /\ TileCountY(c) \in Nat \ {0}
<1>1. c \in CanvasShapes
  BY GenericAssumption DEF CanvasShapes
<1>. QED  BY <1>1, TilePosition DEF TileCount

\* "assert(tiles.size() == tile_count)" (tilejobfactory.cpp:66): the Hilbert order of the tiles
\* of a canvas visits every tile once.
LEMMA HilbertOrderOfTiles ==
    ASSUME NEW c \in Canvases
    PROVE  LET n == TileCount(c)
               order == HilbertOrdering(TileCountX(c), TileCountY(c))
           IN  /\ order \in [1 .. n -> 0 .. n - 1]
               /\ \A t \in 0 .. n - 1 : \E i \in 1 .. n : order[i] = t
<1>. DEFINE X == TileCountX(c)
            Y == TileCountY(c)
<1>1. X \in Nat \ {0} /\ Y \in Nat \ {0} /\ TileCount(c) = X * Y
  BY SomeTile
<1>. HIDE DEF X, Y
<1>2. /\ HilbertOrdering(X, Y) \in [1 .. X * Y -> 0 .. X * Y - 1]
      /\ \A t \in 0 .. X * Y - 1 : \E i \in 1 .. X * Y : HilbertOrdering(X, Y)[i] = t
  BY <1>1, HilbertOrderingVisits
<1>. QED  BY <1>1, <1>2 DEF X, Y

\* Every order has one entry per tile.
LEMMA OrdersAreComplete ==
    ASSUME canvas \in Canvases, ordering \in Orderings, ordering # "spiral",
           NEW order \in TileOrders
    PROVE  Len(order) = TileCount(canvas)
<1>. DEFINE n == TileCount(canvas)
<1>1. n \in Nat
  BY SomeTile
<1>2. Len(LinearOrdering(n)) = n
  <2>. HIDE DEF n
  <2>. QED  BY <1>1 DEF LinearOrdering
<1>3. \A p \in RandomOrderings(n) : Len(p) = n
  <2>. HIDE DEF n
  <2>. QED  BY <1>1 DEF RandomOrderings
<1>4. ordering \in {"linear", "hilbert", "random"}
  BY GenericAssumption
<1>5. Len(HilbertOrdering(TileCountX(canvas), TileCountY(canvas))) = n
  <2>. DEFINE hilbert == HilbertOrdering(TileCountX(canvas), TileCountY(canvas))
  <2>1. hilbert \in [1 .. n -> 0 .. n - 1]
    BY SomeTile, HilbertOrderOfTiles
  <2>. HIDE DEF hilbert, n
  <2>2. Len(hilbert) = n
    BY <1>1, <2>1
  <2>. QED  BY <2>2 DEF hilbert, n
<1>. QED  BY <1>2, <1>3, <1>4, <1>5 DEF TileOrders

\* The job that start_rendering() schedules next is one of TileJob.
LEMMA TileJobBounded ==
    ASSUME GInv, PoolFacts, phase = "scheduling"
    PROVE  <<round, Len(scheduled) + 1>> \in TileJob
<1>1. round \in 1 .. Rounds
  BY GenericAssumption DEF GInv, MasterInStep
<1>2. TileCount(canvas) \in Nat \ {0}
  BY SomeTile DEF GInv
<1>3. Len(scheduled) \in Nat /\ Len(scheduled) < TileCount(canvas)
  BY DEF GInv, TilesInStep, PoolFacts
<1>4. Len(scheduled) + 1 \in 1 .. TileCount(canvas)
  BY <1>2, <1>3
<1>5. Len(scheduled) + 1 \in UNION {1 .. TileCount(c) : c \in Canvases}
  BY <1>4 DEF GInv
<1>. QED  BY <1>1, <1>5 DEF TileJob

\* Every step of the renderer is a step of the pool or leaves it alone, so the pool's
\* invariant holds in the renderer.
LEMMA PoolStep ==
    ASSUME GInv, W!IInv, [Next]_vars
    PROVE  W!IInv'
<1>. USE PoolConstants
<1>1. ASSUME UNCHANGED poolVars PROVE W!IInv'
  <2>1. UNCHANGED W!vars
    BY <1>1 DEF poolVars, W!vars, W!queueVars, W!managerVars, W!workerVars
  <2>. QED  BY <2>1, W!NextIInv
<1>2. ASSUME NEW w \in Worker, WorkerRuns(w) \/ ThrowInTile(w) PROVE W!IInv'
  <2>1. CASE RunLoop(w) \/ PostRender(w)
    <3>1. W!WorkerStep(w) /\ w \in W!Worker
      BY <2>1, WorkerStepInPool DEF Worker, W!Worker
    <3>. QED  BY <3>1, W!NextIInv DEF W!Next
  <2>2. CASE PreRender(w) \/ RenderPixel(w) \/ ThrowInTile(w)
    BY <2>2, <1>1 DEF PreRender, RenderPixel, ThrowInTile
  <2>. QED  BY <1>2, <2>1, <2>2 DEF WorkerRuns
<1>3. CASE MasterProgress
  <2>1. CASE ScheduleTile
    <3>1. /\ <<round, Len(scheduled) + 1>> \in TileJob
          /\ Pool!OwnerSchedule(<<round, Len(scheduled) + 1>>)
      BY <2>1, PoolFactsHold, TileJobBounded DEF ScheduleTile, MasterMoves
    <3>. QED  BY <3>1, OwnerStepInPool, W!NextIInv DEF W!Next
  <2>2. CASE StartPool \/ StopPool \/ ClearJobs \/ DestroyPool
    <3>1. Pool!CallStart \/ Pool!CallStop \/ Pool!OwnerClear \/ Pool!Destroy
      BY <2>2 DEF StartPool, StopPool, ClearJobs, DestroyPool
    <3>. QED  BY <3>1, OwnerStepInPool, W!NextIInv DEF W!Next
  <2>3. CASE PoolCallProgress
    BY <2>3, OwnerStepInPool, W!NextIInv DEF W!Next
  <2>4. CASE PoolStarted \/ RenderingEnds
    BY <2>4, <1>1 DEF PoolStarted, RenderingEnds
  <2>. QED  BY <1>3, <2>1, <2>2, <2>3, <2>4 DEF MasterProgress
<1>4. CASE MasterCall
  BY <1>4, <1>1 DEF MasterCall, StartRendering, StartThrows, StopRendering, BeginDestruction
<1>5. CASE UNCHANGED vars
  BY <1>5, <1>1 DEF vars
<1>. QED  BY <1>2, <1>3, <1>4, <1>5 DEF Next

-----------------------------------------------------------------------------
(* The invariant. *)

\* A step that the master thread cannot see, except that the last job may end.
MasterUntouched ==
    /\ UNCHANGED <<canvas, ordering, phase, round, tiles, owner, created>>
    /\ phase = "scheduling" => scheduled' = scheduled
    /\ ~Pool!HasScheduledOrRunningJobs => ~Pool!HasScheduledOrRunningJobs'

\* Such a step preserves the invariant.
LEMMA MasterUntouchedStep ==
    ASSUME GInv, MasterUntouched
    PROVE  GInv'
<1>. USE DEF GInv, MasterUntouched
<1>1. MasterInStep'
  BY DEF MasterInStep
<1>2. TilesInStep'
  BY DEF TilesInStep
<1>3. NoJobLeft'
  BY DEF NoJobLeft
<1>. QED  BY <1>1, <1>2, <1>3

\* The queue is not woken by run(), nor is anything acquired while the master thread still
\* schedules.
LEMMA RunLoopKeeps ==
    ASSUME GInv, PoolFacts, NEW w \in Worker, RunLoop(w)
    PROVE  MasterUntouched
<1>1. UNCHANGED <<canvas, ordering, phase, round, tiles, owner, created>>
  BY DEF RunLoop, masterVars, parameters, Pool!TestAbort, Pool!AcquireJob, Pool!FindQueueEmpty,
         Pool!RetireJob, Pool!DeleteJob, Pool!managerVars
<1>2. pc[w] # "none"
  BY DEF RunLoop, Pool!TestAbort, Pool!AcquireJob, Pool!FindQueueEmpty, Pool!RetireJob,
         Pool!DeleteJob, Pool!Goto
<1>3. phase # "scheduling"
  BY <1>2 DEF GInv, MasterInStep, PoolFacts
<1>4. ~Pool!HasScheduledOrRunningJobs => ~Pool!HasScheduledOrRunningJobs'
  BY DEF RunLoop, Pool!HasScheduledOrRunningJobs, Pool!TestAbort, Pool!AcquireJob,
         Pool!AcquireScheduledJob, Pool!FindQueueEmpty, Pool!RetireJob, Pool!EraseRunningJob,
         Pool!DeleteJob, Pool!DeleteRetiredJob, Pool!queueVars
<1>. QED  BY <1>1, <1>3, <1>4 DEF MasterUntouched

\* A tile job leaves the queue alone.
LEMMA TileJobKeeps ==
    ASSUME NEW w \in Worker,
           PreRender(w) \/ RenderPixel(w) \/ PostRender(w) \/ ThrowInTile(w)
    PROVE  MasterUntouched
<1>1. UNCHANGED <<canvas, ordering, phase, round, tiles, owner, created, scheduled, running>>
  BY DEF PreRender, RenderPixel, PostRender, ThrowInTile, masterVars, parameters, poolVars,
         Pool!FinishExecution, Pool!queueVars, Pool!managerVars
<1>. QED  BY <1>1 DEF MasterUntouched, Pool!HasScheduledOrRunningJobs

\* start_rendering() computes a complete order of the tiles, or throws.
LEMMA StartKeeps ==
    ASSUME GInv, PoolFacts, StartRendering \/ StartThrows
    PROVE  GInv'
<1>1. CASE StartRendering
  <2>1. /\ phase = "off" /\ phase' = "scheduling" /\ round < Rounds /\ round' = round + 1
        /\ ordering # "spiral" /\ tiles' \in TileOrders
        /\ UNCHANGED <<poolVars, parameters>>
    BY <1>1 DEF StartRendering, MasterMoves
  <2>2. UNCHANGED <<canvas, ordering, owner, created, scheduled, running>>
    BY <2>1 DEF poolVars, parameters
  <2>3. scheduled = <<>>
    BY <2>1 DEF GInv, NoJobLeft, Pool!HasScheduledOrRunningJobs
  <2>4. Len(tiles') = TileCount(canvas) /\ TileCount(canvas) \in Nat \ {0}
    BY <2>1, OrdersAreComplete, SomeTile DEF GInv
  <2>5. Len(scheduled') = 0
    BY <2>2, <2>3
  <2>6. TilesInStep'
    BY <2>2, <2>4, <2>5 DEF TilesInStep
  <2>7. round' \in 0 .. Rounds /\ round' > 0
    BY <2>1, GenericAssumption DEF GInv
  <2>8. MasterInStep'
    BY <2>1, <2>2, <2>7 DEF GInv, MasterInStep
  <2>. QED  BY <2>1, <2>2, <2>6, <2>7, <2>8 DEF GInv, NoJobLeft
<1>2. CASE StartThrows
  <2>1. MasterUntouched
    BY <1>2 DEF StartThrows, masterLeaves, parameters, poolVars, MasterUntouched,
                Pool!HasScheduledOrRunningJobs
  <2>. QED  BY <2>1, MasterUntouchedStep
<1>. QED  BY <1>1, <1>2

\* The loop over the tiles schedules one job for each.
LEMMA ScheduleKeeps ==
    ASSUME GInv, PoolFacts, ScheduleTile
    PROVE  GInv'
<1>. DEFINE i == Len(scheduled) + 1
<1>1. /\ phase = "scheduling"
      /\ phase' = IF i = Len(tiles) THEN "launching" ELSE "scheduling"
      /\ Pool!OwnerSchedule(<<round, i>>)
      /\ UNCHANGED <<round, tiles, canvas, ordering>>
  BY DEF ScheduleTile, MasterMoves, masterLeaves, parameters
<1>2. scheduled' = Append(scheduled, <<round, i>>) /\ UNCHANGED <<owner, created>>
  BY <1>1 DEF Pool!OwnerSchedule, Pool!Schedule, Pool!managerVars
<1>3. Len(scheduled) \in Nat /\ Len(scheduled') = Len(scheduled) + 1
  BY <1>2, TileJobBounded, <1>1 DEF PoolFacts
<1>4. Len(tiles) = TileCount(canvas) /\ Len(scheduled) < TileCount(canvas)
      /\ TileCount(canvas) \in Nat
  BY <1>1, SomeTile DEF GInv, TilesInStep
<1>5. TilesInStep'
  BY <1>1, <1>3, <1>4 DEF TilesInStep
<1>6. MasterInStep' /\ NoJobLeft'
  BY <1>1, <1>2 DEF GInv, MasterInStep, NoJobLeft
<1>. QED  BY <1>1, <1>5, <1>6 DEF GInv

\* The other steps of the master thread.
LEMMA MasterKeeps ==
    ASSUME GInv, PoolFacts,
           \/ StartPool \/ PoolStarted \/ RenderingEnds \/ StopRendering \/ StopPool \/ ClearJobs
           \/ BeginDestruction \/ DestroyPool
    PROVE  GInv'
<1>. USE DEF GInv, MasterMoves, masterLeaves, parameters
<1>1. UNCHANGED <<round, canvas, ordering, tiles, running>>
  BY DEF StartPool, PoolStarted, RenderingEnds, StopRendering, StopPool, ClearJobs,
         BeginDestruction, DestroyPool, Pool!CallStart, Pool!CallStop, Pool!OwnerClear,
         Pool!Destroy, Pool!ClearScheduledJobs, Pool!queueVars, poolVars
<1>2. TilesInStep' /\ phase' \in {"started", "rendering", "ended", "stopping", "clearing", "off",
                                  "released", "gone"}
  BY DEF StartPool, PoolStarted, RenderingEnds, StopRendering, StopPool, ClearJobs,
         BeginDestruction, DestroyPool, TilesInStep
<1>3. MasterInStep'
  <2>1. CASE StartPool \/ PoolStarted \/ RenderingEnds \/ StopRendering
    BY <2>1, <1>1 DEF StartPool, PoolStarted, RenderingEnds, StopRendering, MasterInStep,
                Pool!CallStart, poolVars
  <2>2. CASE StopPool \/ ClearJobs
    BY <2>2, <1>1 DEF StopPool, ClearJobs, MasterInStep, Pool!CallStop, Pool!OwnerClear,
                Pool!managerVars
  <2>3. CASE BeginDestruction \/ DestroyPool
    BY <2>3, <1>1 DEF BeginDestruction, DestroyPool, MasterInStep, Pool!CallStop, Pool!Destroy,
                poolVars
  <2>. QED  BY <2>1, <2>2, <2>3
<1>4. NoJobLeft'
  <2>1. CASE StartPool \/ PoolStarted \/ StopRendering \/ StopPool
    BY <2>1 DEF StartPool, PoolStarted, StopRendering, StopPool, NoJobLeft
  <2>2. CASE RenderingEnds \/ BeginDestruction
    BY <2>2 DEF RenderingEnds, BeginDestruction, NoJobLeft, Pool!HasScheduledOrRunningJobs,
                poolVars
  <2>3. CASE ClearJobs
    <3>1. ~created
      BY <2>3 DEF MasterInStep, ClearJobs, Pool!OwnerClear
    <3>2. running = {} /\ scheduled' = <<>>
      BY <2>3, <3>1 DEF PoolFacts, ClearJobs, Pool!OwnerClear, Pool!ClearScheduledJobs
    <3>. QED  BY <1>1, <3>2 DEF NoJobLeft, Pool!HasScheduledOrRunningJobs
  <2>4. CASE DestroyPool
    BY <2>4, <1>1 DEF DestroyPool, NoJobLeft, Pool!HasScheduledOrRunningJobs, Pool!CallStop,
                Pool!Destroy, Pool!ClearScheduledJobs, Pool!queueVars
  <2>. QED  BY <2>1, <2>2, <2>3, <2>4
<1>. QED  BY <1>1, <1>2, <1>3, <1>4

\* The loops of JobManager::start() and stop().
LEMMA PoolCallKeeps ==
    ASSUME GInv, PoolFacts, PoolCallProgress
    PROVE  GInv'
<1>1. UNCHANGED <<phase, round, tiles, canvas, ordering>>
  BY DEF PoolCallProgress, masterLeaves, parameters
<1>2. PICK w \in Worker : Pool!StartWorker(w) \/ Pool!StopWorker(w) \/ Pool!JoinWorker(w)
  BY DEF PoolCallProgress
<1>3. UNCHANGED <<scheduled, running>>
  BY <1>2 DEF Pool!StartWorker, Pool!StopWorker, Pool!JoinWorker, Pool!queueVars
<1>4. /\ owner \in {"starting", "stopping", "joining"}
      /\ owner = "starting" => owner' \in {"starting", "idle"} /\ created' = created
      /\ owner # "starting" => owner' \in {"stopping", "joining", "idle"}
      /\ owner # "starting" /\ owner' = "idle" => ~created'
  BY <1>2 DEF Pool!StartWorker, Pool!StopWorker, Pool!JoinWorker, Pool!NextWorker
<1>5. MasterInStep'
  BY <1>1, <1>4 DEF GInv, MasterInStep
<1>6. TilesInStep' /\ NoJobLeft'
  BY <1>1, <1>3 DEF GInv, TilesInStep, NoJobLeft, Pool!HasScheduledOrRunningJobs
<1>. QED  BY <1>1, <1>5, <1>6 DEF GInv

\* The renderer's invariant together with the pool's.
Inv == GInv /\ W!IInv

\* It holds when the renderer has been constructed.
LEMMA InitInv == Init => Inv
<1>. SUFFICES ASSUME Init PROVE Inv
  OBVIOUS
<1>1. W!IInv
  <2>1. W!Init
    BY DEF Init, Pool!Init, W!Init, Pool!QueueInit, W!QueueInit, Pool!Worker, W!Worker
  <2>. QED  BY <2>1, PoolConstants, W!InitIInv
<1>2. scheduled = <<>> /\ running = {} /\ ~created /\ owner = "idle"
  BY DEF Init, Pool!Init, Pool!QueueInit
<1>3. GInv
  BY <1>2, GenericAssumption DEF Init, GInv, MasterInStep, TilesInStep, NoJobLeft,
                                 Pool!HasScheduledOrRunningJobs
<1>. QED  BY <1>1, <1>3 DEF Inv

\* Every step preserves it.
LEMMA NextInv == Inv /\ [Next]_vars => Inv'
<1>. SUFFICES ASSUME Inv, [Next]_vars PROVE Inv'
  OBVIOUS
<1>1. GInv /\ W!IInv /\ W!IInv' /\ PoolFacts
  BY PoolStep, PoolFactsHold DEF Inv
<1>2. ASSUME NEW w \in Worker, WorkerRuns(w) \/ ThrowInTile(w) PROVE GInv'
  <2>1. MasterUntouched
    BY <1>1, <1>2, RunLoopKeeps, TileJobKeeps DEF WorkerRuns
  <2>. QED  BY <1>1, <2>1, MasterUntouchedStep
<1>3. CASE MasterProgress
  BY <1>1, <1>3, ScheduleKeeps, MasterKeeps, PoolCallKeeps DEF MasterProgress, Inv
<1>4. CASE MasterCall
  BY <1>1, <1>4, StartKeeps, MasterKeeps DEF MasterCall, Inv
<1>5. CASE UNCHANGED vars
  <2>1. MasterUntouched
    BY <1>5 DEF vars, masterVars, parameters, poolVars, MasterUntouched,
                Pool!HasScheduledOrRunningJobs
  <2>. QED  BY <1>1, <2>1, MasterUntouchedStep DEF Inv
<1>. QED  BY <1>1, <1>2, <1>3, <1>4, <1>5 DEF Inv, Next

\* It holds in every reachable state.
THEOREM Invariance == Spec => []Inv
BY InitInv, NextInv, PTL DEF Spec

\* No job uses a tile renderer or a tile callback that the destructor has released, although
\* the worker threads are only joined after it.
THEOREM ReleasedStayUnused == Spec => []ReleasedRenderersUnused
<1>1. Inv => ReleasedRenderersUnused
  <2>. SUFFICES ASSUME Inv, phase \in {"released", "gone"}, NEW w \in Worker
                PROVE  ~UsesRenderer(w)
    BY DEF ReleasedRenderersUnused
  <2>1. running = {}
    BY DEF Inv, GInv, NoJobLeft, Pool!HasScheduledOrRunningJobs
  <2>2. PoolFacts
    BY PoolFactsHold DEF Inv
  <2>. QED  BY <2>1, <2>2 DEF PoolFacts, UsesRenderer
<1>. QED  BY <1>1, Invariance, PTL

-----------------------------------------------------------------------------
(* GenericFrameRenderer implements FrameRenderer. *)

\* The refinement mapping of GenericFrameRenderer!Promised, by name.
ModeNow ==
    CASE phase = "off" -> IF round = 0 THEN "ready" ELSE "stopped"
      [] phase \in {"scheduling", "launching", "started"} -> "rendering"
      [] phase \in {"released", "gone"} -> "gone"
      [] OTHER -> IF Pool!HasScheduledOrRunningJobs THEN "rendering" ELSE "finished"

Beginning == {"scheduling", "launching", "started"}
Underway == {"rendering", "ended", "stopping", "clearing"}
Ending == {"released", "gone"}

\* What it says in each group of phases.
LEMMA ModeByPhase ==
    /\ phase = "off" => ModeNow = IF round = 0 THEN "ready" ELSE "stopped"
    /\ phase \in Beginning => ModeNow = "rendering"
    /\ phase \in Ending => ModeNow = "gone"
    /\ phase \in Underway =>
          ModeNow = IF Pool!HasScheduledOrRunningJobs THEN "rendering" ELSE "finished"
BY DEF ModeNow, Beginning, Underway, Ending

\* The same of the next state.
LEMMA ModeByPhaseNext ==
    /\ phase' = "off" => ModeNow' = IF round' = 0 THEN "ready" ELSE "stopped"
    /\ phase' \in Beginning => ModeNow' = "rendering"
    /\ phase' \in Ending => ModeNow' = "gone"
    /\ phase' \in Underway =>
          ModeNow' = IF Pool!HasScheduledOrRunningJobs' THEN "rendering" ELSE "finished"
BY DEF ModeNow, Beginning, Underway, Ending

\* A step of FrameRenderer or a stutter, in terms of the mode.
PromisedStep ==
    \/ ModeNow' = ModeNow /\ image' = image
    \/ ModeNow = "rendering" /\ ModeNow' = "rendering"
    \/ ModeNow = "rendering" /\ ModeNow' = "finished" /\ image' = image
    \/ ModeNow \in {"ready", "stopped"} /\ ModeNow' = "rendering" /\ image' = image
    \/ ModeNow \in {"rendering", "finished"} /\ ModeNow' = "stopped" /\ image' = image
    \/ ModeNow \in {"ready", "finished", "stopped"} /\ ModeNow' = "gone" /\ image' = image

LEMMA PromisedStepIs ==
    PromisedStep => [Promised!FrameRendererNext]_<<ModeNow, image>>
BY DEF PromisedStep, Promised!FrameRendererNext, Promised!Start, Promised!Draw, Promised!Finish,
       Promised!Stop, Promised!Release, ModeNow

\* A step that leaves the frame and the master thread alone and does not wake the queue is
\* a stutter, or the last job has ended.
LEMMA QuietRefines ==
    ASSUME GInv, UNCHANGED <<phase, round, image>>,
           Pool!HasScheduledOrRunningJobs' => Pool!HasScheduledOrRunningJobs
    PROVE  PromisedStep
<1>1. phase \in {"off"} \cup Beginning \cup Underway \cup Ending
  BY DEF GInv, Beginning, Underway, Ending
<1>. QED  BY <1>1, ModeByPhase, ModeByPhaseNext DEF PromisedStep

\* A job only runs while the mode is "rendering".
LEMMA JobMeansRendering ==
    ASSUME GInv, PoolFacts, NEW w \in Worker, pc[w] = "execute"
    PROVE  ModeNow = "rendering" /\ Pool!HasScheduledOrRunningJobs
<1>1. Pool!HasScheduledOrRunningJobs
  BY DEF PoolFacts, Pool!HasScheduledOrRunningJobs
<1>2. phase \in Beginning \cup Underway
  BY <1>1 DEF GInv, NoJobLeft, Beginning, Underway
<1>. QED  BY <1>1, <1>2, ModeByPhase

\* The steps of a worker: only a pixel changes the frame, and only retiring a job can end
\* the rendering.
LEMMA WorkerRefines ==
    ASSUME GInv, PoolFacts, NEW w \in Worker, WorkerRuns(w) \/ ThrowInTile(w)
    PROVE  PromisedStep
<1>1. CASE RunLoop(w)
  <2>1. MasterUntouched
    BY <1>1, RunLoopKeeps
  <2>. QED  BY <1>1, <2>1, QuietRefines DEF RunLoop, outputVars, MasterUntouched
<1>2. CASE RenderPixel(w)
  <2>1. ModeNow = "rendering"
    BY <1>2, JobMeansRendering DEF RenderPixel, At
  <2>2. ModeNow' = ModeNow
    BY <1>2 DEF RenderPixel, ModeNow, masterVars, poolVars, Pool!HasScheduledOrRunningJobs
  <2>. QED  BY <2>1, <2>2 DEF PromisedStep
<1>3. CASE PreRender(w) \/ PostRender(w) \/ ThrowInTile(w)
  <2>1. pc[w] = "execute" /\ UNCHANGED <<phase, round, image>>
    BY <1>3 DEF PreRender, PostRender, ThrowInTile, At, masterVars
  <2>. QED  BY <2>1, JobMeansRendering, QuietRefines
<1>. QED  BY <1>1, <1>2, <1>3 DEF WorkerRuns

\* The steps of the master thread: its methods begin and end the modes.
LEMMA MasterRefines ==
    ASSUME GInv, PoolFacts, MasterProgress \/ MasterCall
    PROVE  PromisedStep
<1>. USE ModeByPhase, ModeByPhaseNext
     DEF MasterMoves, Beginning, Underway, Ending, masterLeaves, outputVars
<1>1. CASE StartRendering
  BY <1>1 DEF StartRendering, PromisedStep
<1>2. CASE StartThrows
  <2>1. UNCHANGED <<phase, round, image, poolVars>>
    BY <1>2 DEF StartThrows
  <2>. QED  BY <2>1, QuietRefines DEF poolVars, Pool!HasScheduledOrRunningJobs
<1>3. CASE ScheduleTile \/ StartPool
  BY <1>3 DEF ScheduleTile, StartPool, PromisedStep
<1>4. CASE PoolStarted
  BY <1>4 DEF PoolStarted, PromisedStep
<1>5. CASE RenderingEnds \/ StopRendering
  BY <1>5 DEF RenderingEnds, StopRendering, poolVars, PromisedStep,
              Pool!HasScheduledOrRunningJobs
<1>6. CASE StopPool
  BY <1>6 DEF StopPool, PromisedStep, Pool!CallStop, Pool!queueVars,
              Pool!HasScheduledOrRunningJobs
<1>7. CASE ClearJobs
  <2>1. round > 0 /\ round \in Nat
    BY <1>7, GenericAssumption DEF GInv, MasterInStep, ClearJobs
  <2>. QED  BY <1>7, <2>1 DEF ClearJobs, PromisedStep
<1>8. CASE BeginDestruction
  <2>1. ~Pool!HasScheduledOrRunningJobs
    BY <1>8 DEF BeginDestruction, GInv, NoJobLeft
  <2>. QED  BY <1>8, <2>1 DEF BeginDestruction, PromisedStep
<1>9. CASE DestroyPool
  BY <1>9 DEF DestroyPool, PromisedStep
<1>10. CASE PoolCallProgress
  <2>1. UNCHANGED <<phase, round, image>>
    BY <1>10 DEF PoolCallProgress
  <2>2. Pool!HasScheduledOrRunningJobs' => Pool!HasScheduledOrRunningJobs
    BY <1>10 DEF PoolCallProgress, Pool!StartWorker, Pool!StopWorker, Pool!JoinWorker,
                 Pool!queueVars, Pool!HasScheduledOrRunningJobs
  <2>. QED  BY <2>1, <2>2, QuietRefines
<1>. QED  BY <1>1, <1>2, <1>3, <1>4, <1>5, <1>6, <1>7, <1>8, <1>9, <1>10
          DEF MasterProgress, MasterCall

\* Every step of the generic frame renderer is one that IFrameRenderer promises, or
\* changes nothing that its owner can see.
LEMMA StepRefines ==
    ASSUME Inv, [Next]_vars
    PROVE  [Promised!FrameRendererNext]_<<ModeNow, image>>
<1>1. GInv /\ PoolFacts
  BY PoolFactsHold DEF Inv
<1>2. ASSUME NEW w \in Worker, WorkerRuns(w) \/ ThrowInTile(w) PROVE PromisedStep
  BY <1>1, <1>2, WorkerRefines
<1>3. ASSUME UNCHANGED vars PROVE PromisedStep
  BY <1>1, <1>3, QuietRefines
     DEF vars, poolVars, masterVars, outputVars, Pool!HasScheduledOrRunningJobs
<1>4. ASSUME MasterProgress \/ MasterCall PROVE PromisedStep
  BY <1>1, <1>4, MasterRefines
<1>5. PromisedStep
  BY <1>2, <1>3, <1>4 DEF Next
<1>. QED  BY <1>5, PromisedStepIs

\* Tile jobs, failing or not, the threads and the stop and destroy sequences together
\* implement a frame renderer whose frame only changes while it is rendering.
THEOREM FrameRendererRefinement == Spec => ImplementsFrameRenderer
<1>1. Init => Promised!FrameRendererInit
  BY DEF Init, Promised!FrameRendererInit
<1>2. Inv /\ [Next]_vars => [Promised!FrameRendererNext]_<<ModeNow, image>>
  BY StepRefines
<1>. QED  BY <1>1, <1>2, Invariance, PTL
          DEF Spec, ImplementsFrameRenderer, Promised!FrameRendererSpec, ModeNow


-----------------------------------------------------------------------------
(* The invariant, in named parts. *)

\* The functions that steps change at a point have the domains they should have.
OutputDomains ==
    /\ image = [p \in FramePixels |-> image[p]]
    /\ display = [t \in TileIndex |-> display[t]]
    /\ step \in [Worker -> {"enter", "render", "blit"}]
    /\ pixel \in [Worker -> Nat]

\* The order of a rendering visits every tile.
TilesOrdered ==
    round > 0 =>
        /\ tiles \in [1 .. TileCount(canvas) -> TileIndex]
        /\ \A t \in TileIndex : \E i \in 1 .. TileCount(canvas) : tiles[i] = t

RoundJobs == {round} \X (1 .. TileCount(canvas))

\* No job of an earlier rendering is left when the next one starts.
JobsOfRound ==
    /\ \A k \in DOMAIN scheduled : scheduled[k] \in RoundJobs
    /\ running \subseteq RoundJobs

\* A worker begins a job at its beginning, and the loop stays within the tile.
WorkersInStep ==
    \A w \in Worker :
        /\ ~UsesRenderer(w) => step[w] = "enter"
        /\ UsesRenderer(w) /\ step[w] = "render" =>
              pixel[w] \in 1 .. Len(PixelsOf(Tile(w)))

Undisturbed == {"scheduling", "launching", "started", "rendering", "ended"}

\* The abort switch of the last rendering is cleared before there are jobs.
SwitchInStep == phase \in Undisturbed => abortSwitch = FALSE

\* The first n pixels of a tile were sampled in this rendering.
Sampled(t, n) == \A k \in 1 .. n : image[PixelsOf(t)[k]] = <<round, "sampled">>

TileDone(t) == t \in failed \/ Sampled(t, Len(PixelsOf(t)))

\* How far each job has come.
SampledSoFar ==
    phase \in Undisturbed =>
        \A w \in Worker : UsesRenderer(w) =>
            /\ step[w] = "render" => Sampled(Tile(w), pixel[w] - 1)
            /\ step[w] = "blit" => TileDone(Tile(w))

ScheduledInOrder ==
    phase = "scheduling" => \A i \in 1 .. Len(scheduled) : scheduled[i] = <<round, i>>

\* Every tile waits for its job, is being rendered, or is done.
NoTileForgotten ==
    phase \in Undisturbed \ {"scheduling"} =>
        \A i \in 1 .. TileCount(canvas) :
            \/ \E k \in DOMAIN scheduled : scheduled[k] = <<round, i>>
            \/ \E w \in Worker : UsesRenderer(w) /\ held[w] = <<round, i>>
            \/ TileDone(tiles[i])

\* The functions of the pool have the domains they should have.
PoolShape ==
    /\ pc = [w \in Worker |-> pc[w]]
    /\ held = [w \in Worker |-> held[w]]

FInv ==
    /\ OutputDomains
    /\ TilesOrdered
    /\ JobsOfRound
    /\ WorkersInStep
    /\ DisplayUpToDate
    /\ SwitchInStep
    /\ SampledSoFar
    /\ ScheduledInOrder
    /\ NoTileForgotten

-----------------------------------------------------------------------------
(* Facts about the parameters. *)

\* A random order of the tiles is a permutation: no tile twice means every tile once.
LEMMA RandomOrdersAreComplete ==
    ASSUME NEW n \in Nat \ {0}, NEW p \in RandomOrderings(n)
    PROVE  p \in [1 .. n -> 0 .. n - 1] /\ \A t \in 0 .. n - 1 : \E i \in 1 .. n : p[i] = t
<1>1. p \in [1 .. n -> 0 .. n - 1] /\ \A i, j \in 1 .. n : p[i] = p[j] => i = j
  BY DEF RandomOrderings
<1>2. p \in Injection(1 .. n, 0 .. n - 1)
  BY <1>1 DEF Injection, IsInjective
<1>3. IsFiniteSet(0 .. n - 1) /\ Cardinality(0 .. n - 1) = n
  BY FS_Interval
<1>4. Cardinality(1 .. n) = n
  BY FS_Interval
<1>5. p \in Surjection(1 .. n, 0 .. n - 1)
  BY <1>2, <1>3, <1>4, FS_Injection
<1>. QED  BY <1>1, <1>5 DEF Surjection

\* Whatever the parameter tile_ordering says, the order visits every tile.
LEMMA OrdersVisitTiles ==
    ASSUME canvas \in Canvases, ordering \in Orderings, ordering # "spiral",
           NEW order \in TileOrders
    PROVE  /\ order \in [1 .. TileCount(canvas) -> TileIndex]
           /\ \A t \in TileIndex : \E i \in 1 .. TileCount(canvas) : order[i] = t
<1>. DEFINE n == TileCount(canvas)
            Complete(p) == /\ p \in [1 .. n -> 0 .. n - 1]
                           /\ \A t \in 0 .. n - 1 : \E i \in 1 .. n : p[i] = t
<1>1. n \in Nat \ {0}
  BY SomeTile
<1>2. Complete(LinearOrdering(n))
  <2>. HIDE DEF n
  <2>1. LinearOrdering(n) \in [1 .. n -> 0 .. n - 1]
    BY <1>1 DEF LinearOrdering
  <2>2. ASSUME NEW t \in 0 .. n - 1 PROVE t + 1 \in 1 .. n /\ LinearOrdering(n)[t + 1] = t
    BY <1>1 DEF LinearOrdering
  <2>. QED  BY <2>1, <2>2
<1>3. \A p \in RandomOrderings(n) : Complete(p)
  BY <1>1, RandomOrdersAreComplete
<1>4. Complete(HilbertOrdering(TileCountX(canvas), TileCountY(canvas)))
  BY HilbertOrderOfTiles
<1>5. ordering \in {"linear", "hilbert", "random"}
  BY GenericAssumption
<1>6. Complete(order)
  <2>. HIDE DEF Complete
  <2>. QED  BY <1>2, <1>3, <1>4, <1>5 DEF TileOrders
<1>. QED  BY <1>6 DEF TileIndex

\* The tiles of the frame partition it.
LEMMA TilesOfFrame ==
    ASSUME canvas \in Canvases
    PROVE  /\ \A t \in TileIndex : PixelsOf(t) \in Seq(FramePixels) /\ Len(PixelsOf(t)) > 0
           /\ \A s, t \in TileIndex :
                 \A k \in 1 .. Len(PixelsOf(s)), l \in 1 .. Len(PixelsOf(t)) :
                    PixelsOf(s)[k] = PixelsOf(t)[l] => s = t /\ k = l
           /\ \A p \in FramePixels : \E t \in TileIndex :
                 \E k \in 1 .. Len(PixelsOf(t)) : PixelsOf(t)[k] = p
<1>1. \A t \in TileIndex : PixelsOf(t) = PixelsOfTile(canvas, t)
  BY DEF PixelsOf, PixelOrder, TileIndex
<1>2. canvas \in CanvasShapes
  BY SomeTile
<1>3. FramePixels = PixelsOfCanvas(canvas)
  BY DEF FramePixels, PixelsOfCanvas
<1>4. TileIndex = 0 .. TileCount(canvas) - 1
  BY DEF TileIndex
<1>5. \A t \in TileIndex : PixelsOf(t) \in Seq(FramePixels) /\ Len(PixelsOf(t)) > 0
  BY <1>1, <1>2, <1>3, <1>4, TilesPartitionCanvas
<1>6. \A s, t \in TileIndex :
         \A k \in 1 .. Len(PixelsOf(s)), l \in 1 .. Len(PixelsOf(t)) :
            PixelsOf(s)[k] = PixelsOf(t)[l] => s = t /\ k = l
  <2>. TAKE s \in TileIndex, t \in TileIndex
  <2>1. PixelsOf(s) = PixelsOfTile(canvas, s) /\ PixelsOf(t) = PixelsOfTile(canvas, t)
    BY <1>1
  <2>2. \A k \in 1 .. Len(PixelsOfTile(canvas, s)), l \in 1 .. Len(PixelsOfTile(canvas, t)) :
           PixelsOfTile(canvas, s)[k] = PixelsOfTile(canvas, t)[l] => s = t /\ k = l
    BY <1>2, <1>4, TilesPartitionCanvas
  <2>. QED  BY <2>1, <2>2
<1>7. \A p \in FramePixels : \E t \in TileIndex :
         \E k \in 1 .. Len(PixelsOf(t)) : PixelsOf(t)[k] = p
  <2>. TAKE p \in FramePixels
  <2>1. PICK t \in TileIndex :
           \E k \in 1 .. Len(PixelsOfTile(canvas, t)) : PixelsOfTile(canvas, t)[k] = p
    BY <1>2, <1>3, <1>4, TilesPartitionCanvas
  <2>. QED  BY <1>1, <2>1
<1>. QED  BY <1>5, <1>6, <1>7

\* A tile has a first pixel, and its pixels lie in the frame.
LEMMA TilePixels ==
    ASSUME canvas \in Canvases, NEW t \in TileIndex
    PROVE  /\ Len(PixelsOf(t)) \in Nat \ {0}
           /\ \A k \in 1 .. Len(PixelsOf(t)) : PixelsOf(t)[k] \in FramePixels
<1>1. PixelsOf(t) \in Seq(FramePixels) /\ Len(PixelsOf(t)) > 0
  BY TilesOfFrame
<1>. QED  BY <1>1

\* Tiles do not overlap.
LEMMA TilesAreDisjoint ==
    ASSUME canvas \in Canvases, NEW s \in TileIndex, NEW t \in TileIndex, s # t,
           NEW k \in 1 .. Len(PixelsOf(s)), NEW l \in 1 .. Len(PixelsOf(t))
    PROVE  PixelsOf(s)[k] # PixelsOf(t)[l]
BY TilesOfFrame

\* A job at work belongs to this rendering, which has not been stopped and joined, and
\* to a tile of the frame.
LEMMA WorkerAtTile ==
    ASSUME GInv, PoolFacts, TilesOrdered, JobsOfRound, NEW w \in Worker, UsesRenderer(w)
    PROVE  /\ held[w] \in running
           /\ held[w][1] = round /\ held[w][2] \in 1 .. TileCount(canvas)
           /\ held[w] = <<round, held[w][2]>>
           /\ Tile(w) \in TileIndex
           /\ phase \notin {"off", "scheduling", "launching", "released", "gone"}
<1>1. held[w] \in running
  BY DEF PoolFacts, UsesRenderer
<1>2. held[w] \in RoundJobs
  BY <1>1 DEF JobsOfRound
<1>3. held[w][1] = round /\ held[w][2] \in 1 .. TileCount(canvas)
      /\ held[w] = <<round, held[w][2]>>
  BY <1>2 DEF RoundJobs
<1>4. phase \notin {"off", "ended", "released", "gone"}
  BY <1>1 DEF GInv, NoJobLeft, Pool!HasScheduledOrRunningJobs
<1>5. phase \notin {"scheduling", "launching"}
  BY DEF GInv, MasterInStep, PoolFacts, UsesRenderer
<1>6. round \in Nat /\ round > 0
  BY <1>4, GenericAssumption DEF GInv, MasterInStep
<1>7. Tile(w) \in TileIndex
  BY <1>3, <1>6 DEF TilesOrdered, Tile
<1>. QED  BY <1>1, <1>3, <1>4, <1>5, <1>7

-----------------------------------------------------------------------------
(* Steps that no job notices. *)

\* No worker begins or ends a job.
SameJobs ==
    \A w \in Worker :
        /\ pc'[w] = "execute" <=> pc[w] = "execute"
        /\ pc[w] = "execute" => held'[w] = held[w]

\* What the workers do and have done stays as it is.
LEMMA SameFrame ==
    ASSUME FInv, UNCHANGED <<canvas, round, tiles, workVars, outputVars>>, SameJobs,
           phase' \in Undisturbed => phase \in Undisturbed /\ abortSwitch' = abortSwitch
    PROVE  /\ OutputDomains' /\ TilesOrdered' /\ WorkersInStep' /\ DisplayUpToDate'
           /\ SwitchInStep' /\ SampledSoFar'
<1>. USE DEF workVars, outputVars
<1>1. \A t : PixelsOf(t)' = PixelsOf(t) /\ TileContent(t)' = TileContent(t)
              /\ TileDone(t)' = TileDone(t)
  BY DEF PixelsOf, TileContent, TileDone, Sampled
<1>2. \A t, n : Sampled(t, n)' = Sampled(t, n)
  BY <1>1 DEF Sampled
<1>3. \A w \in Worker : /\ UsesRenderer(w)' <=> UsesRenderer(w)
                        /\ UsesRenderer(w) => Tile(w)' = Tile(w)
  BY DEF SameJobs, UsesRenderer, Tile
<1>4. TileIndex' = TileIndex /\ FramePixels' = FramePixels
  BY DEF TileIndex, FramePixels
<1>5. OutputDomains' /\ TilesOrdered'
  BY <1>4 DEF FInv, OutputDomains, TilesOrdered
<1>6. WorkersInStep'
  <2>. SUFFICES ASSUME NEW w \in Worker
                PROVE  /\ ~UsesRenderer(w)' => step[w] = "enter"
                       /\ UsesRenderer(w)' /\ step[w] = "render" =>
                             pixel[w] \in 1 .. Len(PixelsOf(Tile(w)))'
    BY DEF WorkersInStep
  <2>. QED  BY <1>1, <1>3 DEF FInv, WorkersInStep
<1>7. DisplayUpToDate'
  <2>. SUFFICES ASSUME NEW t \in TileIndex
                PROVE  \/ display[t] = TileContent(t)'
                       \/ \E w \in Worker : UsesRenderer(w)' /\ Tile(w)' = t
    BY <1>4 DEF DisplayUpToDate
  <2>. QED  BY <1>1, <1>3 DEF FInv, DisplayUpToDate
<1>8. SwitchInStep'
  BY DEF FInv, SwitchInStep
<1>9. SampledSoFar'
  <2>. SUFFICES ASSUME phase' \in Undisturbed, NEW w \in Worker, UsesRenderer(w)'
                PROVE  /\ step[w] = "render" => Sampled(Tile(w), pixel[w] - 1)'
                       /\ step[w] = "blit" => TileDone(Tile(w))'
    BY DEF SampledSoFar
  <2>1. Tile(w)' = Tile(w) /\ UsesRenderer(w)
    BY <1>3
  <2>2. \A t : TileDone(t)' = TileDone(t)
    BY <1>1
  <2>3. /\ step[w] = "render" => Sampled(Tile(w), pixel[w] - 1)
        /\ step[w] = "blit" => TileDone(Tile(w))
    BY <2>1 DEF FInv, SampledSoFar
  <2>. QED  BY <2>1, <2>3 DEF TileDone, Sampled, PixelsOf, Tile
<1>. QED  BY <1>5, <1>6, <1>7, <1>8, <1>9

\* If the queue does not grow or shrink either, the invariant is preserved.
LEMMA SameQueue ==
    ASSUME FInv, UNCHANGED <<canvas, round, tiles, workVars, outputVars>>, SameJobs,
           UNCHANGED scheduled, running' \subseteq running,
           phase' \in Undisturbed => phase \in Undisturbed /\ abortSwitch' = abortSwitch,
           phase' = "scheduling" <=> phase = "scheduling"
    PROVE  FInv'
<1>1. /\ OutputDomains' /\ TilesOrdered' /\ WorkersInStep' /\ DisplayUpToDate'
      /\ SwitchInStep' /\ SampledSoFar'
  BY SameFrame
<1>2. JobsOfRound' /\ ScheduledInOrder'
  BY DEF FInv, JobsOfRound, RoundJobs, ScheduledInOrder
<1>3. NoTileForgotten'
  <2>. SUFFICES ASSUME phase' \in Undisturbed \ {"scheduling"}, NEW i \in 1 .. TileCount(canvas)
                PROVE  \/ \E k \in DOMAIN scheduled : scheduled[k] = <<round, i>>
                       \/ \E w \in Worker : UsesRenderer(w)' /\ held'[w] = <<round, i>>
                       \/ TileDone(tiles[i])'
    BY DEF NoTileForgotten
  <2>1. \/ \E k \in DOMAIN scheduled : scheduled[k] = <<round, i>>
        \/ \E w \in Worker : UsesRenderer(w) /\ held[w] = <<round, i>>
        \/ TileDone(tiles[i])
    BY DEF FInv, NoTileForgotten
  <2>2. CASE \E w \in Worker : UsesRenderer(w) /\ held[w] = <<round, i>>
    BY <2>2 DEF SameJobs, UsesRenderer
  <2>3. CASE TileDone(tiles[i])
    BY <2>3 DEF TileDone, Sampled, PixelsOf, outputVars
  <2>. QED  BY <2>1, <2>2, <2>3
<1>. QED  BY <1>1, <1>2, <1>3 DEF FInv

-----------------------------------------------------------------------------
(* The steps of a worker. *)

\* The invariant together with what it rests on.
Ready == FInv /\ GInv /\ PoolFacts /\ PoolShape

\* A worker takes a job from the queue: the tile has not been forgotten.
LEMMA AcquireKeeps ==
    ASSUME Ready, NEW w \in Worker, Pool!AcquireJob(w),
           UNCHANGED <<masterVars, workVars, outputVars, parameters, abortSwitch>>
    PROVE  FInv'
<1>. USE DEF Ready, masterVars, workVars, outputVars, parameters
<1>1. /\ pc[w] = "acquire" /\ pc' = [pc EXCEPT ![w] = "execute"]
      /\ held' = [held EXCEPT ![w] = Head(scheduled)]
      /\ scheduled # <<>> /\ scheduled' = Tail(scheduled)
      /\ running' = running \cup {Head(scheduled)}
  BY DEF Pool!AcquireJob, Pool!Goto, Pool!AcquireScheduledJob
<1>2. /\ pc'[w] = "execute" /\ held'[w] = Head(scheduled) /\ pc[w] # "execute"
      /\ \A v \in Worker \ {w} : pc'[v] = pc[v] /\ held'[v] = held[v]
  BY <1>1 DEF PoolShape
<1>3. \A v \in Worker : UsesRenderer(v) => UsesRenderer(v)' /\ Tile(v)' = Tile(v) /\ held'[v] = held[v]
  BY <1>2 DEF UsesRenderer, Tile
<1>4. /\ Head(scheduled) = scheduled[1] /\ 1 \in DOMAIN scheduled
      /\ \A k \in DOMAIN scheduled \ {1} :
            k - 1 \in DOMAIN scheduled' /\ scheduled'[k - 1] = scheduled[k]
      /\ \A k \in DOMAIN scheduled' :
            k + 1 \in DOMAIN scheduled /\ scheduled'[k] = scheduled[k + 1]
  BY <1>1 DEF PoolFacts
<1>5. \A t : TileDone(t)' = TileDone(t) /\ TileContent(t)' = TileContent(t)
  BY DEF TileDone, Sampled, TileContent, PixelsOf
<1>6. OutputDomains' /\ TilesOrdered' /\ SwitchInStep'
  BY DEF FInv, OutputDomains, TilesOrdered, SwitchInStep, TileIndex, FramePixels
<1>7. JobsOfRound'
  BY <1>1, <1>4 DEF FInv, JobsOfRound, RoundJobs
<1>8. step[w] = "enter"
  BY <1>2 DEF FInv, WorkersInStep, UsesRenderer
<1>9. WorkersInStep'
  <2>. SUFFICES ASSUME NEW v \in Worker
                PROVE  /\ ~UsesRenderer(v)' => step[v] = "enter"
                       /\ UsesRenderer(v)' /\ step[v] = "render" =>
                             pixel[v] \in 1 .. Len(PixelsOf(Tile(v)))'
    BY DEF WorkersInStep
  <2>1. CASE v = w
    BY <1>8, <2>1
  <2>2. CASE v # w
    <3>1. UsesRenderer(v)' <=> UsesRenderer(v)
      BY <1>2, <2>2 DEF UsesRenderer
    <3>. QED  BY <1>2, <2>2, <3>1 DEF FInv, WorkersInStep, Tile, PixelsOf
  <2>. QED  BY <2>1, <2>2
<1>10. DisplayUpToDate'
  <2>. SUFFICES ASSUME NEW t \in TileIndex
                PROVE  \/ display[t] = TileContent(t)'
                       \/ \E v \in Worker : UsesRenderer(v)' /\ Tile(v)' = t
    BY DEF DisplayUpToDate, TileIndex
  <2>. QED  BY <1>3, <1>5 DEF FInv, DisplayUpToDate
<1>11. SampledSoFar'
  <2>. SUFFICES ASSUME phase \in Undisturbed, NEW v \in Worker, UsesRenderer(v)'
                PROVE  /\ step[v] = "render" => Sampled(Tile(v), pixel[v] - 1)'
                       /\ step[v] = "blit" => TileDone(Tile(v))'
    BY DEF SampledSoFar
  <2>1. CASE v = w
    BY <1>8, <2>1
  <2>2. CASE v # w
    <3>1. UsesRenderer(v) /\ Tile(v)' = Tile(v)
      BY <1>2, <2>2 DEF UsesRenderer, Tile
    <3>2. /\ step[v] = "render" => Sampled(Tile(v), pixel[v] - 1)
          /\ step[v] = "blit" => TileDone(Tile(v))
      BY <3>1 DEF FInv, SampledSoFar
    <3>. QED  BY <1>5, <3>1, <3>2 DEF Sampled, PixelsOf, TileDone
  <2>. QED  BY <2>1, <2>2
<1>12. ScheduledInOrder'
  BY DEF FInv, ScheduledInOrder, GInv, MasterInStep, PoolFacts, Pool!AcquireJob, Pool!Goto
<1>13. NoTileForgotten'
  <2>. SUFFICES ASSUME phase \in Undisturbed \ {"scheduling"}, NEW i \in 1 .. TileCount(canvas)
                PROVE  \/ \E k \in DOMAIN scheduled' : scheduled'[k] = <<round, i>>
                       \/ \E v \in Worker : UsesRenderer(v)' /\ held'[v] = <<round, i>>
                       \/ TileDone(tiles[i])'
    BY DEF NoTileForgotten
  <2>1. CASE \E k \in DOMAIN scheduled : scheduled[k] = <<round, i>>
    <3>1. PICK k \in DOMAIN scheduled : scheduled[k] = <<round, i>>
      BY <2>1
    <3>2. CASE k = 1
      BY <1>2, <1>4, <3>1, <3>2 DEF UsesRenderer
    <3>. QED  BY <1>4, <3>1, <3>2
  <2>2. CASE \E v \in Worker : UsesRenderer(v) /\ held[v] = <<round, i>>
    BY <1>3, <2>2
  <2>3. CASE TileDone(tiles[i])
    BY <1>5, <2>3
  <2>. QED  BY <2>1, <2>2, <2>3 DEF FInv, NoTileForgotten
<1>. QED  BY <1>6, <1>7, <1>9, <1>10, <1>11, <1>12, <1>13 DEF FInv

\* The other steps of run() begin and end no job.
LEMMA LoopKeeps ==
    ASSUME Ready, NEW w \in Worker, RunLoop(w)
    PROVE  FInv'
<1>1. UNCHANGED <<masterVars, workVars, outputVars, parameters, abortSwitch>>
  BY DEF RunLoop
<1>2. CASE Pool!AcquireJob(w)
  BY <1>1, <1>2, AcquireKeeps
<1>3. CASE Pool!TestAbort(w) \/ Pool!FindQueueEmpty(w) \/ Pool!RetireJob(w) \/ Pool!DeleteJob(w)
  <2>1. scheduled' = scheduled /\ running' \subseteq running
    BY <1>3 DEF Pool!TestAbort, Pool!FindQueueEmpty, Pool!RetireJob, Pool!DeleteJob,
                Pool!EraseRunningJob, Pool!DeleteRetiredJob, Pool!queueVars
  <2>2. /\ pc[w] \in {"test", "acquire", "retire", "delete"}
        /\ \E to \in {"exited", "acquire", "test", "delete"} : pc' = [pc EXCEPT ![w] = to]
        /\ \A v \in Worker \ {w} : held'[v] = held[v]
    BY <1>3 DEF Pool!TestAbort, Pool!FindQueueEmpty, Pool!RetireJob, Pool!DeleteJob, Pool!Goto,
                Ready, PoolShape
  <2>3. SameJobs
    BY <2>2 DEF SameJobs, Ready, PoolShape
  <2>. QED  BY <1>1, <2>1, <2>3, SameQueue DEF Ready, masterVars, parameters
<1>. QED  BY <1>2, <1>3 DEF RunLoop

\* What a job writes into the frame never undoes what was sampled, as long as the rendering
\* is not stopped.
LEMMA DoneStaysDone ==
    ASSUME UNCHANGED <<canvas, round>>, failed \subseteq failed',
           \A p \in FramePixels : image'[p] = image[p] \/ image'[p] = <<round, "sampled">>,
           canvas \in Canvases, NEW t \in TileIndex
    PROVE  /\ TileDone(t) => TileDone(t)'
           /\ \A n \in 0 .. Len(PixelsOf(t)) : Sampled(t, n) => Sampled(t, n)'
<1>1. PixelsOf(t)' = PixelsOf(t)
  BY DEF PixelsOf
<1>2. \A k \in 1 .. Len(PixelsOf(t)) : PixelsOf(t)[k] \in FramePixels
  BY TilePixels
<1>3. Len(PixelsOf(t)) \in Nat
  BY TilePixels
<1>4. ASSUME NEW n \in 0 .. Len(PixelsOf(t)), Sampled(t, n)
      PROVE  Sampled(t, n)'
  <2>. SUFFICES ASSUME NEW k \in 1 .. n
                PROVE  image'[PixelsOf(t)[k]] = <<round, "sampled">>
    BY <1>1 DEF Sampled
  <2>1. k \in 1 .. Len(PixelsOf(t))
    BY <1>3
  <2>2. image[PixelsOf(t)[k]] = <<round, "sampled">>
    BY <1>4 DEF Sampled
  <2>. QED  BY <1>2, <2>1, <2>2
<1>. QED  BY <1>1, <1>3, <1>4 DEF TileDone

\* The steps of a job move no other job and leave the queue alone.
JobStep(w) ==
    /\ UNCHANGED <<canvas, ordering, round, tiles, phase, abortSwitch>>
    /\ UNCHANGED <<scheduled, running, held>>
    /\ \A v \in Worker \ {w} :
          pc'[v] = pc[v] /\ step'[v] = step[v] /\ pixel'[v] = pixel[v]

LEMMA TileStepIsJobStep ==
    ASSUME Ready, NEW w \in Worker,
           PreRender(w) \/ RenderPixel(w) \/ ThrowInTile(w) \/ PostRender(w)
    PROVE  /\ pc[w] = "execute" /\ JobStep(w)
           /\ JobsOfRound' /\ TilesOrdered' /\ SwitchInStep' /\ ScheduledInOrder'
<1>. USE DEF Ready
<1>1. /\ pc[w] = "execute"
      /\ UNCHANGED <<canvas, ordering, round, tiles, phase, abortSwitch>>
      /\ UNCHANGED <<scheduled, running, held>>
  BY DEF PreRender, RenderPixel, ThrowInTile, PostRender, At, masterVars, parameters, poolVars,
         Pool!FinishExecution, Pool!queueVars
<1>2. /\ pc' = pc \/ pc' = [pc EXCEPT ![w] = "retire"]
      /\ step' = step \/ \E x \in {"enter", "render", "blit"} : step' = [step EXCEPT ![w] = x]
      /\ pixel' = pixel \/ pixel' = [pixel EXCEPT ![w] = 1]
            \/ pixel' = [pixel EXCEPT ![w] = @ + 1]
  <2>1. CASE PreRender(w)
    BY <2>1 DEF PreRender, poolVars
  <2>2. CASE RenderPixel(w)
    <3>1. step' = [step EXCEPT ![w] = IF pixel[w] = Len(PixelsOf(Tile(w))) THEN "blit" ELSE @]
      BY <2>2 DEF RenderPixel
    <3>2. step[w] = "render"
      BY <2>2 DEF RenderPixel, At
    <3>. QED  BY <2>2, <3>1, <3>2 DEF RenderPixel, poolVars
  <2>3. CASE ThrowInTile(w)
    BY <2>3 DEF ThrowInTile, poolVars
  <2>4. CASE PostRender(w)
    BY <2>4 DEF PostRender, Pool!FinishExecution, Pool!Goto
  <2>. QED  BY <2>1, <2>2, <2>3, <2>4
<1>3. \A v \in Worker \ {w} : pc'[v] = pc[v] /\ step'[v] = step[v] /\ pixel'[v] = pixel[v]
  BY <1>2 DEF FInv, OutputDomains, PoolShape
<1>4. JobsOfRound' /\ TilesOrdered' /\ SwitchInStep' /\ ScheduledInOrder'
  BY <1>1 DEF FInv, JobsOfRound, RoundJobs, TilesOrdered, TileIndex, SwitchInStep,
              ScheduledInOrder
<1>. QED  BY <1>1, <1>3, <1>4 DEF JobStep

\* Where the job is that takes a step.
LEMMA JobInStep ==
    ASSUME Ready, NEW w \in Worker, pc[w] = "execute"
    PROVE  /\ Tile(w) \in TileIndex
           /\ step[w] = "render" =>
                 /\ pixel[w] \in 1 .. Len(PixelsOf(Tile(w)))
                 /\ PixelsOf(Tile(w))[pixel[w]] \in FramePixels
           /\ canvas \in Canvases
<1>1. UsesRenderer(w)
  BY DEF UsesRenderer
<1>2. Tile(w) \in TileIndex
  BY <1>1, WorkerAtTile DEF Ready, FInv
<1>3. step[w] = "render" => pixel[w] \in 1 .. Len(PixelsOf(Tile(w)))
  BY <1>1 DEF Ready, FInv, WorkersInStep
<1>4. canvas \in Canvases
  BY DEF Ready, GInv
<1>. QED  BY <1>2, <1>3, <1>4, TilePixels

\* What the frame and the queue lose by a step of a job, if the job goes on.
LEMMA OthersKeep ==
    ASSUME Ready, NEW w \in Worker, JobStep(w), pc' = pc, failed \subseteq failed',
           phase \in Undisturbed =>
              \A p \in FramePixels : image'[p] = image[p] \/ image'[p] = <<round, "sampled">>
    PROVE  /\ NoTileForgotten'
           /\ phase \in Undisturbed =>
                 \A v \in Worker \ {w} : UsesRenderer(v) =>
                    /\ step'[v] = "render" => Sampled(Tile(v), pixel[v] - 1)'
                    /\ step'[v] = "blit" => TileDone(Tile(v))'
<1>. USE DEF Ready, JobStep
<1>1. canvas \in Canvases
  BY DEF GInv
<1>2. NoTileForgotten'
  <2>. SUFFICES ASSUME phase \in Undisturbed \ {"scheduling"}, NEW i \in 1 .. TileCount(canvas)
                PROVE  \/ \E k \in DOMAIN scheduled : scheduled[k] = <<round, i>>
                       \/ \E v \in Worker : UsesRenderer(v)' /\ held[v] = <<round, i>>
                       \/ TileDone(tiles[i])'
    BY DEF NoTileForgotten
  <2>1. CASE TileDone(tiles[i])
    <3>1. round > 0
      BY DEF GInv, MasterInStep, Undisturbed
    <3>2. tiles[i] \in TileIndex
      BY <3>1 DEF FInv, TilesOrdered
    <3>. QED  BY <1>1, <2>1, <3>2, DoneStaysDone
  <2>2. CASE \E v \in Worker : UsesRenderer(v) /\ held[v] = <<round, i>>
    BY <2>2 DEF UsesRenderer
  <2>. QED  BY <2>1, <2>2 DEF FInv, NoTileForgotten
<1>3. ASSUME phase \in Undisturbed, NEW v \in Worker \ {w}, UsesRenderer(v)
      PROVE  /\ step'[v] = "render" => Sampled(Tile(v), pixel[v] - 1)'
             /\ step'[v] = "blit" => TileDone(Tile(v))'
  <2>1. Tile(v)' = Tile(v) /\ Tile(v) \in TileIndex
    BY <1>3, JobInStep DEF Tile, UsesRenderer
  <2>2. /\ step[v] = "render" => Sampled(Tile(v), pixel[v] - 1)
        /\ step[v] = "blit" => TileDone(Tile(v))
    BY <1>3 DEF FInv, SampledSoFar
  <2>3. Len(PixelsOf(Tile(v))) \in Nat
    BY <1>1, <2>1, TilePixels
  <2>4. step[v] = "render" => pixel[v] - 1 \in 0 .. Len(PixelsOf(Tile(v)))
    BY <1>3, <2>3, JobInStep DEF UsesRenderer
  <2>5. /\ TileDone(Tile(v)) => TileDone(Tile(v))'
        /\ \A n \in 0 .. Len(PixelsOf(Tile(v))) : Sampled(Tile(v), n) => Sampled(Tile(v), n)'
    <3>. DEFINE t == Tile(v)
    <3>1. t' = t
      BY <2>1
    <3>. HIDE DEF t
    <3>2. t \in TileIndex
      BY <2>1 DEF t
    <3>3. /\ (t \in failed \/ Sampled(t, Len(PixelsOf(t)))) =>
                (t \in failed' \/ Sampled(t, Len(PixelsOf(t)))')
          /\ \A n \in 0 .. Len(PixelsOf(t)) : Sampled(t, n) => Sampled(t, n)'
      BY <1>1, <1>3, <3>1, <3>2, DoneStaysDone DEF TileDone
    <3>. QED  BY <3>1, <3>3 DEF t, TileDone
  <2>6. step'[v] = step[v] /\ pixel'[v] = pixel[v]
    OBVIOUS
  <2>. QED  BY <2>2, <2>4, <2>5, <2>6
<1>. QED  BY <1>2, <1>3

\* What is left to show of a job that goes on: the frame and the widget, and its own state.
LEMMA JobKeeps ==
    ASSUME Ready, NEW w \in Worker, pc[w] = "execute", JobStep(w), pc' = pc,
           failed \subseteq failed',
           phase \in Undisturbed =>
              \A p \in FramePixels : image'[p] = image[p] \/ image'[p] = <<round, "sampled">>,
           OutputDomains', DisplayUpToDate',
           JobsOfRound', TilesOrdered', SwitchInStep', ScheduledInOrder',
           step'[w] = "render" => pixel'[w] \in 1 .. Len(PixelsOf(Tile(w))),
           phase \in Undisturbed =>
              /\ step'[w] = "render" => Sampled(Tile(w), pixel[w] - 1)'
              /\ step'[w] = "blit" => TileDone(Tile(w))'
    PROVE  FInv'
<1>. USE DEF JobStep
<1>1. \A v \in Worker : (UsesRenderer(v)' <=> UsesRenderer(v)) /\ Tile(v)' = Tile(v)
  BY DEF UsesRenderer, Tile
<1>2. WorkersInStep'
  <2>. SUFFICES ASSUME NEW v \in Worker
                PROVE  /\ ~UsesRenderer(v) => step'[v] = "enter"
                       /\ UsesRenderer(v) /\ step'[v] = "render" =>
                             pixel'[v] \in 1 .. Len(PixelsOf(Tile(v)))
    BY <1>1 DEF WorkersInStep, PixelsOf
  <2>1. CASE v = w
    BY <2>1 DEF UsesRenderer
  <2>2. CASE v # w
    BY <2>2 DEF Ready, FInv, WorkersInStep
  <2>. QED  BY <2>1, <2>2
<1>3. NoTileForgotten'
  BY OthersKeep
<1>4. SampledSoFar'
  <2>. SUFFICES ASSUME phase \in Undisturbed, NEW v \in Worker, UsesRenderer(v)
                PROVE  /\ step'[v] = "render" => Sampled(Tile(v), pixel[v] - 1)'
                       /\ step'[v] = "blit" => TileDone(Tile(v))'
    BY <1>1 DEF SampledSoFar
  <2>1. CASE v = w
    BY <2>1
  <2>2. CASE v # w
    BY <2>2, OthersKeep
  <2>. QED  BY <2>1, <2>2
<1>. QED  BY <1>2, <1>3, <1>4 DEF FInv

\* The pre-render callback frames a tile whose job has just begun.
LEMMA PreRenderKeeps ==
    ASSUME Ready, NEW w \in Worker, PreRender(w)
    PROVE  FInv'
<1>1. /\ pc[w] = "execute" /\ JobStep(w)
      /\ JobsOfRound' /\ TilesOrdered' /\ SwitchInStep' /\ ScheduledInOrder'
  BY TileStepIsJobStep
<1>2. /\ pc' = pc /\ image' = image /\ failed' = failed
      /\ display' = [display EXCEPT ![Tile(w)] = Framed]
      /\ step' = [step EXCEPT ![w] = "render"]
      /\ pixel' = [pixel EXCEPT ![w] = 1]
  BY DEF PreRender, poolVars
<1>3. step'[w] = "render" /\ pixel'[w] = 1
  BY <1>2 DEF Ready, FInv, OutputDomains
<1>4. Tile(w) \in TileIndex /\ Len(PixelsOf(Tile(w))) \in Nat \ {0}
  BY <1>1, JobInStep, TilePixels
<1>5. OutputDomains'
  BY <1>1, <1>2 DEF JobStep, Ready, FInv, OutputDomains, TileIndex, FramePixels
<1>6. DisplayUpToDate'
  <2>. SUFFICES ASSUME NEW t \in TileIndex
                PROVE  \/ display'[t] = TileContent(t)'
                       \/ \E v \in Worker : UsesRenderer(v)' /\ Tile(v)' = t
    BY <1>1 DEF DisplayUpToDate, TileIndex, JobStep
  <2>1. \A v \in Worker : (UsesRenderer(v)' <=> UsesRenderer(v)) /\ Tile(v)' = Tile(v)
    BY <1>1, <1>2 DEF UsesRenderer, Tile, JobStep
  <2>2. CASE t = Tile(w)
    BY <1>1, <2>1, <2>2 DEF UsesRenderer
  <2>3. CASE t # Tile(w)
    <3>1. display'[t] = display[t]
      BY <1>2, <2>3 DEF Ready, FInv, OutputDomains
    <3>2. TileContent(t)' = TileContent(t)
      BY <1>1, <1>2 DEF TileContent, PixelsOf, JobStep
    <3>. QED  BY <2>1, <3>1, <3>2 DEF Ready, FInv, DisplayUpToDate
  <2>. QED  BY <2>2, <2>3
<1>7. Sampled(Tile(w), pixel[w] - 1)'
  BY <1>3 DEF Sampled
<1>. QED  BY <1>1, <1>2, <1>3, <1>4, <1>5, <1>6, <1>7, JobKeeps

\* Where an exception is thrown the tile counts as failed.
LEMMA ThrowKeeps ==
    ASSUME Ready, NEW w \in Worker, ThrowInTile(w)
    PROVE  FInv'
<1>1. /\ pc[w] = "execute" /\ JobStep(w)
      /\ JobsOfRound' /\ TilesOrdered' /\ SwitchInStep' /\ ScheduledInOrder'
  BY TileStepIsJobStep
<1>2. /\ pc' = pc /\ image' = image /\ display' = display /\ pixel' = pixel
      /\ failed' = failed \cup {Tile(w)}
      /\ step' = [step EXCEPT ![w] = "blit"]
  BY DEF ThrowInTile, poolVars
<1>3. step'[w] = "blit"
  BY <1>2 DEF Ready, FInv, OutputDomains
<1>4. OutputDomains'
  BY <1>1, <1>2 DEF JobStep, Ready, FInv, OutputDomains, TileIndex, FramePixels
<1>5. \A v \in Worker : (UsesRenderer(v)' <=> UsesRenderer(v)) /\ Tile(v)' = Tile(v)
  BY <1>1, <1>2 DEF UsesRenderer, Tile, JobStep
<1>6. DisplayUpToDate'
  <2>. SUFFICES ASSUME NEW t \in TileIndex
                PROVE  \/ display'[t] = TileContent(t)'
                       \/ \E v \in Worker : UsesRenderer(v)' /\ Tile(v)' = t
    BY <1>1 DEF DisplayUpToDate, TileIndex, JobStep
  <2>1. TileContent(t)' = TileContent(t)
    BY <1>1, <1>2 DEF TileContent, PixelsOf, JobStep
  <2>. QED  BY <1>2, <1>5, <2>1 DEF Ready, FInv, DisplayUpToDate
<1>7. TileDone(Tile(w))'
  BY <1>2, <1>5 DEF TileDone
<1>8. step'[w] # "render"
  BY <1>3
<1>. QED  BY <1>1, <1>2, <1>4, <1>6, <1>7, <1>8, JobKeeps

\* The loop of render_tile() samples one more pixel, of no other tile.
LEMMA PixelKeeps ==
    ASSUME Ready, NEW w \in Worker, RenderPixel(w)
    PROVE  FInv'
<1>. DEFINE t0 == Tile(w)
            p0 == PixelsOf(t0)[pixel[w]]
            new == <<round, IF abortSwitch THEN "black" ELSE "sampled">>
<1>1. /\ pc[w] = "execute" /\ JobStep(w)
      /\ JobsOfRound' /\ TilesOrdered' /\ SwitchInStep' /\ ScheduledInOrder'
  BY TileStepIsJobStep
<1>2. /\ pc' = pc /\ display' = display /\ failed' = failed
      /\ step[w] = "render"
      /\ image' = [image EXCEPT ![p0] = new]
      /\ pixel' = [pixel EXCEPT ![w] = @ + 1]
      /\ step' = [step EXCEPT ![w] = IF pixel[w] = Len(PixelsOf(t0)) THEN "blit" ELSE @]
  BY DEF RenderPixel, poolVars, At
<1>3. /\ pixel'[w] = pixel[w] + 1
      /\ step'[w] = IF pixel[w] = Len(PixelsOf(t0)) THEN "blit" ELSE "render"
  BY <1>2 DEF Ready, FInv, OutputDomains
<1>4. /\ t0 \in TileIndex /\ pixel[w] \in 1 .. Len(PixelsOf(t0)) /\ p0 \in FramePixels
      /\ canvas \in Canvases
  BY <1>1, <1>2, JobInStep
<1>5. \A v \in Worker : (UsesRenderer(v)' <=> UsesRenderer(v)) /\ Tile(v)' = Tile(v)
  BY <1>1, <1>2 DEF UsesRenderer, Tile, JobStep
<1>6. Len(PixelsOf(t0)) \in Nat
  BY <1>4, TilePixels
<1>. HIDE DEF t0, p0, new
<1>7. /\ image'[p0] = new
      /\ \A p \in FramePixels \ {p0} : image'[p] = image[p]
  BY <1>2, <1>4 DEF Ready, FInv, OutputDomains
<1>8. OutputDomains'
  <2>1. step' \in [Worker -> {"enter", "render", "blit"}] /\ pixel' \in [Worker -> Nat]
    BY <1>2, <1>3 DEF Ready, FInv, OutputDomains
  <2>. QED  BY <1>1, <1>2, <2>1 DEF JobStep, Ready, FInv, OutputDomains, TileIndex, FramePixels
<1>9. phase \in Undisturbed =>
         \A p \in FramePixels : image'[p] = image[p] \/ image'[p] = <<round, "sampled">>
  BY <1>7 DEF new, Ready, FInv, SwitchInStep
<1>10. DisplayUpToDate'
  <2>. SUFFICES ASSUME NEW t \in TileIndex
                PROVE  \/ display'[t] = TileContent(t)'
                       \/ \E v \in Worker : UsesRenderer(v)' /\ Tile(v)' = t
    BY <1>1 DEF DisplayUpToDate, TileIndex, JobStep
  <2>1. CASE t = t0
    BY <1>1, <1>5, <2>1 DEF UsesRenderer, t0
  <2>2. CASE t # t0
    <3>1. \A k \in 1 .. Len(PixelsOf(t)) : PixelsOf(t)[k] \in FramePixels \ {p0}
      BY <1>4, <2>2, TilePixels, TilesAreDisjoint DEF p0
    <3>2. PixelsOf(t)' = PixelsOf(t)
      BY <1>1 DEF PixelsOf, JobStep
    <3>3. TileContent(t)' = TileContent(t)
      BY <1>7, <3>1, <3>2 DEF TileContent
    <3>. QED  BY <1>2, <1>5, <3>3 DEF Ready, FInv, DisplayUpToDate
  <2>. QED  BY <2>1, <2>2
<1>11. ASSUME phase \in Undisturbed
       PROVE  \A k \in 1 .. pixel[w] : image'[PixelsOf(t0)[k]] = <<round, "sampled">>
  <2>1. new = <<round, "sampled">>
    BY <1>11 DEF new, Ready, FInv, SwitchInStep
  <2>2. Sampled(t0, pixel[w] - 1)
    BY <1>1, <1>2, <1>11 DEF Ready, FInv, SampledSoFar, UsesRenderer, t0
  <2>3. \A k \in 1 .. pixel[w] - 1 : image[PixelsOf(t0)[k]] = <<round, "sampled">>
    BY <2>2 DEF Sampled
  <2>. SUFFICES ASSUME NEW k \in 1 .. pixel[w]
                PROVE  image'[PixelsOf(t0)[k]] = <<round, "sampled">>
    OBVIOUS
  <2>4. CASE k = pixel[w]
    BY <1>7, <2>1, <2>4 DEF p0
  <2>5. CASE k # pixel[w]
    <3>1. k \in 1 .. pixel[w] - 1 /\ k \in 1 .. Len(PixelsOf(t0))
      BY <1>4, <1>6, <2>5
    <3>2. PixelsOf(t0)[k] \in FramePixels
      BY <1>4, <3>1, TilePixels
    <3>. QED  BY <1>9, <1>11, <2>3, <3>1, <3>2
  <2>. QED  BY <2>4, <2>5
<1>12. Tile(w)' = t0 /\ PixelsOf(t0)' = PixelsOf(t0) /\ t0' = t0 /\ round' = round
  BY <1>1, <1>5 DEF t0, PixelsOf, JobStep
<1>13. pixel[w] \in Nat /\ pixel'[w] - 1 = pixel[w]
  BY <1>3, <1>4
<1>14. phase \in Undisturbed => Sampled(Tile(w), pixel[w] - 1)'
  BY <1>11, <1>12, <1>13 DEF Sampled
<1>15. phase \in Undisturbed => (step'[w] = "blit" => TileDone(Tile(w))')
  BY <1>3, <1>11, <1>12 DEF TileDone, Sampled
<1>16. step'[w] = "render" => pixel'[w] \in 1 .. Len(PixelsOf(Tile(w)))
  BY <1>3, <1>4, <1>6 DEF t0
<1>17. failed \subseteq failed'
  BY <1>2
<1>. QED  BY <1>1, <1>2, <1>8, <1>9, <1>10, <1>14, <1>15, <1>16, <1>17, JobKeeps

\* The post-render callback blits the tile, whose job is over and done.
LEMMA PostRenderKeeps ==
    ASSUME Ready, NEW w \in Worker, PostRender(w)
    PROVE  FInv'
<1>1. /\ pc[w] = "execute" /\ JobStep(w)
      /\ JobsOfRound' /\ TilesOrdered' /\ SwitchInStep' /\ ScheduledInOrder'
  BY TileStepIsJobStep
<1>2. /\ pc' = [pc EXCEPT ![w] = "retire"]
      /\ UNCHANGED <<image, failed, pixel, held, tiles, round, scheduled, phase, canvas>>
      /\ step[w] = "blit"
      /\ display' = [display EXCEPT ![Tile(w)] = TileContent(Tile(w))]
      /\ step' = [step EXCEPT ![w] = "enter"]
  BY <1>1 DEF PostRender, Pool!FinishExecution, Pool!Goto, At, JobStep
<1>3. step'[w] = "enter" /\ pc'[w] = "retire"
  BY <1>2 DEF Ready, FInv, OutputDomains, PoolShape
<1>4. /\ ~UsesRenderer(w)' /\ UsesRenderer(w)
      /\ \A v \in Worker \ {w} : (UsesRenderer(v)' <=> UsesRenderer(v)) /\ Tile(v)' = Tile(v)
  BY <1>1, <1>2, <1>3 DEF UsesRenderer, Tile, JobStep
<1>5. /\ \A t : PixelsOf(t)' = PixelsOf(t) /\ TileContent(t)' = TileContent(t)
      /\ \A t : TileDone(t)' = TileDone(t)
  BY <1>2 DEF PixelsOf, TileContent, TileDone, Sampled
<1>6. OutputDomains'
  BY <1>2 DEF Ready, FInv, OutputDomains, TileIndex, FramePixels
<1>7. WorkersInStep'
  <2>. SUFFICES ASSUME NEW v \in Worker
                PROVE  /\ ~UsesRenderer(v)' => step'[v] = "enter"
                       /\ UsesRenderer(v)' /\ step'[v] = "render" =>
                             pixel'[v] \in 1 .. Len(PixelsOf(Tile(v)))'
    BY DEF WorkersInStep
  <2>1. CASE v = w
    BY <1>3, <1>4, <2>1
  <2>2. CASE v # w
    <3>1. step'[v] = step[v] /\ pixel'[v] = pixel[v]
      BY <1>1, <2>2 DEF JobStep
    <3>. QED  BY <1>4, <1>5, <2>2, <3>1 DEF Ready, FInv, WorkersInStep
  <2>. QED  BY <2>1, <2>2
<1>8. DisplayUpToDate'
  <2>. SUFFICES ASSUME NEW t \in TileIndex
                PROVE  \/ display'[t] = TileContent(t)'
                       \/ \E v \in Worker : UsesRenderer(v)' /\ Tile(v)' = t
    BY <1>2 DEF DisplayUpToDate, TileIndex
  <2>1. CASE t = Tile(w)
    BY <1>2, <1>5, <2>1 DEF Ready, FInv, OutputDomains
  <2>2. CASE t # Tile(w)
    <3>1. display'[t] = display[t]
      BY <1>2, <2>2 DEF Ready, FInv, OutputDomains
    <3>. QED  BY <1>4, <1>5, <2>2, <3>1 DEF Ready, FInv, DisplayUpToDate
  <2>. QED  BY <2>1, <2>2
<1>9. SampledSoFar'
  <2>. SUFFICES ASSUME phase \in Undisturbed, NEW v \in Worker, UsesRenderer(v)'
                PROVE  /\ step'[v] = "render" => Sampled(Tile(v), pixel[v] - 1)'
                       /\ step'[v] = "blit" => TileDone(Tile(v))'
    BY <1>2 DEF SampledSoFar
  <2>1. v # w /\ UsesRenderer(v) /\ Tile(v)' = Tile(v)
    BY <1>4
  <2>2. step'[v] = step[v]
    BY <1>1, <2>1 DEF JobStep
  <2>3. /\ step[v] = "render" => Sampled(Tile(v), pixel[v] - 1)
        /\ step[v] = "blit" => TileDone(Tile(v))
    BY <2>1 DEF Ready, FInv, SampledSoFar
  <2>. QED  BY <1>2, <2>1, <2>2, <2>3 DEF Sampled, TileDone, PixelsOf
<1>10. NoTileForgotten'
  <2>. SUFFICES ASSUME phase \in Undisturbed \ {"scheduling"}, NEW i \in 1 .. TileCount(canvas)
                PROVE  \/ \E k \in DOMAIN scheduled : scheduled[k] = <<round, i>>
                       \/ \E v \in Worker : UsesRenderer(v)' /\ held[v] = <<round, i>>
                       \/ TileDone(tiles[i])'
    BY <1>2 DEF NoTileForgotten
  <2>1. CASE \E k \in DOMAIN scheduled : scheduled[k] = <<round, i>>
    BY <2>1
  <2>2. CASE \E v \in Worker : UsesRenderer(v) /\ held[v] = <<round, i>>
    <3>1. PICK v \in Worker : UsesRenderer(v) /\ held[v] = <<round, i>>
      BY <2>2
    <3>2. CASE v = w
      <4>1. Tile(w) = tiles[i]
        BY <3>1, <3>2 DEF Tile
      <4>2. TileDone(Tile(w))
        BY <1>2, <1>4 DEF Ready, FInv, SampledSoFar
      <4>3. TileDone(tiles[i])
        BY <4>1, <4>2
      <4>. QED  BY <1>2, <4>3 DEF TileDone, Sampled, PixelsOf
    <3>. QED  BY <1>4, <3>1, <3>2
  <2>3. CASE TileDone(tiles[i])
    BY <1>2, <2>3 DEF TileDone, Sampled, PixelsOf
  <2>. QED  BY <2>1, <2>2, <2>3 DEF Ready, FInv, NoTileForgotten
<1>. QED  BY <1>1, <1>6, <1>7, <1>8, <1>9, <1>10 DEF FInv

-----------------------------------------------------------------------------
(* The steps of the master thread. *)

\* start_rendering() begins with no job, a cleared switch and an order of all the tiles.
LEMMA StartKeepsFrame ==
    ASSUME Ready, StartRendering
    PROVE  FInv'
<1>. USE DEF Ready
<1>1. /\ phase = "off" /\ phase' = "scheduling" /\ ordering # "spiral"
      /\ round' = round + 1 /\ abortSwitch' = FALSE /\ tiles' \in TileOrders
      /\ UNCHANGED <<poolVars, workVars, image, display, parameters>>
  BY DEF StartRendering, MasterMoves
<1>2. UNCHANGED <<canvas, ordering, scheduled, running, pc, held, step, pixel, image, display>>
  BY <1>1 DEF poolVars, workVars, parameters
<1>3. scheduled = <<>> /\ running = {}
  BY <1>1 DEF GInv, NoJobLeft, Pool!HasScheduledOrRunningJobs
<1>4. \A w \in Worker : ~UsesRenderer(w) /\ ~UsesRenderer(w)'
  BY <1>2, <1>3 DEF PoolFacts, UsesRenderer
<1>5. OutputDomains'
  BY <1>2 DEF FInv, OutputDomains, TileIndex, FramePixels
<1>6. TilesOrdered'
  <2>1. /\ tiles' \in [1 .. TileCount(canvas) -> TileIndex]
        /\ \A t \in TileIndex : \E i \in 1 .. TileCount(canvas) : tiles'[i] = t
    BY <1>1, OrdersVisitTiles DEF GInv
  <2>. QED  BY <1>2, <2>1 DEF TilesOrdered, TileIndex
<1>7. JobsOfRound' /\ ScheduledInOrder'
  BY <1>2, <1>3 DEF JobsOfRound, ScheduledInOrder
<1>8. WorkersInStep' /\ SampledSoFar'
  BY <1>2, <1>4 DEF FInv, WorkersInStep, SampledSoFar
<1>9. DisplayUpToDate'
  <2>1. \A t : TileContent(t)' = TileContent(t)
    BY <1>2 DEF TileContent, PixelsOf
  <2>. QED  BY <1>2, <1>4, <2>1 DEF FInv, DisplayUpToDate, TileIndex
<1>10. SwitchInStep' /\ NoTileForgotten'
  BY <1>1 DEF SwitchInStep, NoTileForgotten
<1>. QED  BY <1>5, <1>6, <1>7, <1>8, <1>9, <1>10 DEF FInv

\* Its loop leaves one job for each tile in the queue.
LEMMA ScheduleKeepsFrame ==
    ASSUME Ready, ScheduleTile
    PROVE  FInv'
<1>. USE DEF Ready
<1>. DEFINE n == Len(scheduled)
<1>1. /\ phase = "scheduling"
      /\ phase' = IF n + 1 = Len(tiles) THEN "launching" ELSE "scheduling"
      /\ Pool!OwnerSchedule(<<round, n + 1>>)
      /\ UNCHANGED <<round, tiles, workVars, outputVars, canvas, ordering, abortSwitch>>
  BY DEF ScheduleTile, MasterMoves, masterLeaves, parameters
<1>2. /\ scheduled' = Append(scheduled, <<round, n + 1>>)
      /\ UNCHANGED <<running, pc, held>>
  BY <1>1 DEF Pool!OwnerSchedule, Pool!Schedule, Pool!workerVars
<1>3. n \in Nat /\ n < TileCount(canvas) /\ Len(tiles) = TileCount(canvas)
      /\ TileCount(canvas) \in Nat
  BY <1>1, SomeTile DEF GInv, TilesInStep, PoolFacts
<1>4. /\ Len(scheduled') = n + 1
      /\ \A i \in 1 .. n + 1 : scheduled'[i] = IF i = n + 1 THEN <<round, n + 1>> ELSE scheduled[i]
  BY <1>2 DEF PoolFacts
<1>5. \A i \in 1 .. n + 1 : scheduled'[i] = <<round, i>>
  <2>1. \A i \in 1 .. n : scheduled[i] = <<round, i>>
    BY <1>1 DEF FInv, ScheduledInOrder
  <2>. QED  BY <1>3, <1>4, <2>1
<1>6. DOMAIN scheduled' = 1 .. n + 1
  BY <1>2 DEF PoolFacts
<1>7. /\ OutputDomains' /\ TilesOrdered' /\ WorkersInStep' /\ DisplayUpToDate'
      /\ SwitchInStep' /\ SampledSoFar'
  <2>1. SameJobs
    BY <1>2 DEF SameJobs
  <2>. QED  BY <1>1, <2>1, SameFrame DEF Undisturbed
<1>8. JobsOfRound'
  BY <1>1, <1>2, <1>3, <1>5, <1>6 DEF FInv, JobsOfRound, RoundJobs
<1>9. ScheduledInOrder'
  BY <1>1, <1>4, <1>5 DEF ScheduledInOrder
<1>10. NoTileForgotten'
  <2>. SUFFICES ASSUME phase' \in Undisturbed \ {"scheduling"}, NEW i \in 1 .. TileCount(canvas)
                PROVE  \E k \in DOMAIN scheduled' : scheduled'[k] = <<round, i>>
    BY <1>1 DEF NoTileForgotten
  <2>1. i \in 1 .. n + 1
    BY <1>1, <1>3
  <2>. QED  BY <1>5, <1>6, <2>1
<1>. QED  BY <1>7, <1>8, <1>9, <1>10 DEF FInv

\* The other steps of the master thread begin and end no job; the queue is only emptied
\* after a stop.
LEMMA MasterKeepsFrame ==
    ASSUME Ready,
           \/ StartThrows \/ StartPool \/ PoolStarted \/ RenderingEnds \/ StopRendering
           \/ StopPool \/ ClearJobs \/ BeginDestruction \/ DestroyPool \/ PoolCallProgress
    PROVE  FInv'
<1>. USE DEF MasterMoves, masterLeaves, parameters
<1>1. UNCHANGED <<canvas, round, tiles, workVars, outputVars, running>>
  BY DEF StartThrows, StartPool, PoolStarted, RenderingEnds, StopRendering, StopPool, ClearJobs,
         BeginDestruction, DestroyPool, PoolCallProgress, Pool!CallStart, Pool!CallStop,
         Pool!OwnerClear, Pool!Destroy, Pool!ClearScheduledJobs, Pool!StartWorker,
         Pool!StopWorker, Pool!JoinWorker, Pool!queueVars, poolVars
<1>2. SameJobs
  <2>1. CASE UNCHANGED <<pc, held>>
    BY <2>1 DEF SameJobs
  <2>2. CASE PoolCallProgress
    <3>1. PICK w \in Worker : Pool!StartWorker(w) \/ Pool!StopWorker(w) \/ Pool!JoinWorker(w)
      BY <2>2 DEF PoolCallProgress
    <3>2. /\ held' = held
          /\ \/ pc' = pc
             \/ pc[w] = "none" /\ pc' = [pc EXCEPT ![w] = "test"]
             \/ pc[w] = "exited" /\ pc' = [pc EXCEPT ![w] = "none"]
      BY <3>1 DEF Pool!StartWorker, Pool!StopWorker, Pool!JoinWorker, Pool!Goto
    <3>. QED  BY <3>2 DEF SameJobs, Ready, PoolShape
  <2>. QED  BY <2>1, <2>2
            DEF StartThrows, StartPool, PoolStarted, RenderingEnds, StopRendering, StopPool,
                ClearJobs, BeginDestruction, DestroyPool, Pool!CallStart, Pool!CallStop,
                Pool!OwnerClear, Pool!Destroy, Pool!workerVars, poolVars
<1>3. /\ phase' \in Undisturbed => phase \in Undisturbed /\ abortSwitch' = abortSwitch
      /\ phase' = "scheduling" <=> phase = "scheduling"
  BY DEF StartThrows, StartPool, PoolStarted, RenderingEnds, StopRendering, StopPool, ClearJobs,
         BeginDestruction, DestroyPool, PoolCallProgress, Undisturbed
<1>4. scheduled' = scheduled \/ (scheduled' = <<>> /\ phase' \notin Undisturbed)
  BY DEF StartThrows, StartPool, PoolStarted, RenderingEnds, StopRendering, StopPool, ClearJobs,
         BeginDestruction, DestroyPool, PoolCallProgress, Pool!CallStart, Pool!CallStop,
         Pool!OwnerClear, Pool!Destroy, Pool!ClearScheduledJobs, Pool!StartWorker,
         Pool!StopWorker, Pool!JoinWorker, Pool!queueVars, poolVars, Undisturbed
<1>5. CASE scheduled' = scheduled
  BY <1>1, <1>2, <1>3, <1>5, SameQueue DEF Ready
<1>6. CASE scheduled' = <<>> /\ phase' \notin Undisturbed
  <2>1. /\ OutputDomains' /\ TilesOrdered' /\ WorkersInStep' /\ DisplayUpToDate'
        /\ SwitchInStep' /\ SampledSoFar'
    BY <1>1, <1>2, <1>3, SameFrame DEF Ready
  <2>2. JobsOfRound' /\ ScheduledInOrder' /\ NoTileForgotten'
    BY <1>1, <1>6 DEF Ready, FInv, JobsOfRound, RoundJobs, ScheduledInOrder, NoTileForgotten,
                      Undisturbed
  <2>. QED  BY <2>1, <2>2 DEF FInv
<1>. QED  BY <1>4, <1>5, <1>6

-----------------------------------------------------------------------------
(* The theorems. *)

\* The functions of the pool keep their domains.
LEMMA PoolShapeHolds == W!IInv => PoolShape
BY DEF W!IInv, W!TypeOK, W!Worker, Worker, PoolShape

\* With no job yet, the widget shows the black frame.
LEMMA InitFrame == Init => FInv
<1>. SUFFICES ASSUME Init PROVE FInv
  OBVIOUS
<1>1. /\ phase = "off" /\ round = 0 /\ scheduled = <<>> /\ running = {}
      /\ \A w \in Worker : ~UsesRenderer(w)
  BY DEF Init, Pool!Init, Pool!QueueInit, Pool!Worker, Worker, UsesRenderer
<1>2. OutputDomains
  BY DEF Init, OutputDomains
<1>3. TilesOrdered /\ JobsOfRound /\ SwitchInStep /\ SampledSoFar /\ ScheduledInOrder
      /\ NoTileForgotten
  BY <1>1 DEF TilesOrdered, JobsOfRound, SwitchInStep, SampledSoFar, ScheduledInOrder,
              NoTileForgotten, Undisturbed
<1>4. WorkersInStep
  BY <1>1 DEF Init, WorkersInStep
<1>5. DisplayUpToDate
  BY DEF Init, DisplayUpToDate
<1>. QED  BY <1>2, <1>3, <1>4, <1>5 DEF FInv

\* Every step preserves the invariant.
LEMMA NextFrame == FInv /\ Inv /\ [Next]_vars => FInv'
<1>. SUFFICES ASSUME FInv, Inv, [Next]_vars PROVE FInv'
  OBVIOUS
<1>1. Ready
  BY PoolFactsHold, PoolShapeHolds DEF Ready, Inv
<1>2. ASSUME NEW w \in Worker, WorkerRuns(w) \/ ThrowInTile(w) PROVE FInv'
  BY <1>1, <1>2, LoopKeeps, PreRenderKeeps, PixelKeeps, ThrowKeeps, PostRenderKeeps
     DEF WorkerRuns
<1>3. CASE MasterProgress
  BY <1>1, <1>3, ScheduleKeepsFrame, MasterKeepsFrame DEF MasterProgress
<1>4. CASE MasterCall
  BY <1>1, <1>4, StartKeepsFrame, MasterKeepsFrame DEF MasterCall
<1>5. CASE UNCHANGED vars
  <2>1. UNCHANGED <<canvas, round, tiles, workVars, outputVars, scheduled, running, pc, held,
                    phase, abortSwitch>>
    BY <1>5 DEF vars, poolVars, masterVars, parameters
  <2>2. SameJobs
    BY <2>1 DEF SameJobs
  <2>. QED  BY <2>1, <2>2, SameQueue
<1>. QED  BY <1>2, <1>3, <1>4, <1>5 DEF Next

\* It holds in every reachable state.
THEOREM FrameInvariance == Spec => [](Inv /\ FInv)
BY InitFrame, NextFrame, Invariance, PTL DEF Spec

\* What is stored in a pixel and in the other variables that FInv leaves open.
Values ==
    /\ abortSwitch \in BOOLEAN
    /\ pixel \in [Worker -> Nat \ {0}]
    /\ image \in [FramePixels -> (0 .. Rounds) \X {"sampled", "black"}]
    /\ failed \subseteq TileIndex
    /\ round = 0 => tiles = <<>>

\* Every step preserves the types of these.
LEMMA ValuesKept ==
    ASSUME Values, FInv, Inv, [Next]_vars
    PROVE  Values'
<1>. USE DEF Values
<1>1. Ready
  BY PoolFactsHold, PoolShapeHolds DEF Ready, Inv
<1>2. ASSUME UNCHANGED <<canvas, round, tiles, pixel, image, failed>>, abortSwitch' \in BOOLEAN
      PROVE  Values'
  BY <1>2 DEF FramePixels, TileIndex
<1>3. ASSUME NEW w \in Worker, WorkerRuns(w) \/ ThrowInTile(w) PROVE Values'
  <2>1. CASE RunLoop(w) \/ PostRender(w)
    BY <1>2, <2>1 DEF RunLoop, PostRender, masterVars, workVars, outputVars, parameters
  <2>2. CASE PreRender(w)
    BY <2>2 DEF PreRender, masterVars, parameters, FramePixels, TileIndex
  <2>3. CASE RenderPixel(w)
    <3>1. round \in 0 .. Rounds
      BY <1>1 DEF Ready, GInv
    <3>2. \E v \in (0 .. Rounds) \X {"sampled", "black"} :
             image' = [image EXCEPT ![PixelsOf(Tile(w))[pixel[w]]] = v]
      BY <2>3, <3>1 DEF RenderPixel
    <3>3. image' \in [FramePixels -> (0 .. Rounds) \X {"sampled", "black"}]
      BY <3>2
    <3>4. pixel' = [pixel EXCEPT ![w] = @ + 1]
          /\ UNCHANGED <<canvas, round, tiles, failed, abortSwitch>>
      BY <2>3 DEF RenderPixel, masterVars, parameters
    <3>5. pixel' \in [Worker -> Nat \ {0}]
      BY <3>4
    <3>. QED  BY <3>3, <3>4, <3>5 DEF FramePixels, TileIndex
  <2>4. CASE ThrowInTile(w)
    <3>1. Tile(w) \in TileIndex
      BY <1>1, <2>4, JobInStep DEF ThrowInTile, At
    <3>. QED  BY <2>4, <3>1 DEF ThrowInTile, masterVars, parameters, FramePixels, TileIndex
  <2>. QED  BY <1>3, <2>1, <2>2, <2>3, <2>4 DEF WorkerRuns
<1>4. CASE MasterProgress
  BY <1>2, <1>4
     DEF MasterProgress, ScheduleTile, StartPool, PoolStarted, RenderingEnds, StopPool, ClearJobs,
         DestroyPool, PoolCallProgress, masterLeaves, workVars, outputVars, parameters
<1>5. CASE StartRendering
  <2>1. round' # 0 /\ round \in Nat
    BY <1>1, <1>5, GenericAssumption DEF StartRendering, Ready, GInv
  <2>. QED  BY <1>5, <2>1 DEF StartRendering, workVars, parameters, FramePixels, TileIndex
<1>6. CASE StartThrows \/ StopRendering \/ BeginDestruction
  BY <1>2, <1>6
     DEF StartThrows, StopRendering, BeginDestruction, masterLeaves, workVars, outputVars,
         parameters
<1>7. CASE UNCHANGED vars
  BY <1>2, <1>7 DEF vars, masterVars, workVars, outputVars, parameters
<1>. QED  BY <1>3, <1>4, <1>5, <1>6, <1>7 DEF Next, MasterCall

\* The variables keep their types: in particular no pixel outside of the frame is written
\* and no tile outside of it fails.
THEOREM TypeCorrect == Spec => []TypeOK
<1>1. Init => Values
  <2>. SUFFICES ASSUME Init PROVE Values
    OBVIOUS
  <2>1. Blank \in (0 .. Rounds) \X {"sampled", "black"}
    BY GenericAssumption DEF Blank
  <2>2. /\ abortSwitch = FALSE /\ tiles = <<>> /\ failed = {}
        /\ pixel = [w \in Worker |-> 1] /\ image = [p \in FramePixels |-> Blank]
    BY DEF Init
  <2>3. image \in [FramePixels -> (0 .. Rounds) \X {"sampled", "black"}]
    BY <2>1, <2>2
  <2>4. pixel \in [Worker -> Nat \ {0}]
    BY <2>2
  <2>. QED  BY <2>2, <2>3, <2>4 DEF Values
<1>2. Values /\ FInv /\ Inv /\ [Next]_vars => Values'
  BY ValuesKept
<1>3. Values /\ FInv /\ Inv => TypeOK
  <2>. SUFFICES ASSUME Values, FInv, Inv PROVE TypeOK
    OBVIOUS
  <2>1. W!TypeOK
    BY DEF Inv, W!IInv
  <2>2. Pool!TypeOK
    BY <2>1 DEF W!TypeOK, Pool!TypeOK, W!QueueTypeOK, Pool!QueueTypeOK, W!Worker, Pool!Worker,
                W!Located, Pool!Located, W!Holding, Pool!Holding, W!Lifetime, Pool!Lifetime
  <2>3. tiles \in Seq(TileIndex)
    <3>1. CASE round = 0
      BY <3>1 DEF Values
    <3>2. CASE round # 0
      <4>1. canvas \in Canvases /\ round \in Nat
        BY GenericAssumption DEF Inv, GInv
      <4>2. TileCount(canvas) \in Nat
        BY <4>1, SomeTile
      <4>3. tiles \in [1 .. TileCount(canvas) -> TileIndex]
        BY <3>2, <4>1 DEF FInv, TilesOrdered
      <4>. QED  BY <4>2, <4>3
    <3>. QED  BY <3>1, <3>2
  <2>4. /\ step \in [Worker -> {"enter", "render", "blit"}]
        /\ DOMAIN display = TileIndex
    <3>1. step \in [Worker -> {"enter", "render", "blit"}]
          /\ display = [t \in TileIndex |-> display[t]]
      BY DEF FInv, OutputDomains
    <3>2. DOMAIN [t \in TileIndex |-> display[t]] = TileIndex
      OBVIOUS
    <3>. QED  BY <3>1, <3>2
  <2>. QED  BY <2>2, <2>3, <2>4 DEF TypeOK, Values, Inv, GInv
<1>. QED  BY <1>1, <1>2, <1>3, FrameInvariance, PTL DEF Spec

\* Whatever the workers' interleaving, the order of the tiles and the exceptions, each pixel
\* of a frame that ended by itself was sampled in its rendering, except in failed tiles.
THEOREM FrameIsComplete == Spec => []FrameComplete
<1>1. Inv /\ FInv => FrameComplete
  <2>. SUFFICES ASSUME Inv, FInv, phase = "ended", NEW t \in TileIndex \ failed
                PROVE  \A k \in DOMAIN PixelsOf(t) : image[PixelsOf(t)[k]] = <<round, "sampled">>
    BY DEF FrameComplete
  <2>1. round > 0 /\ scheduled = <<>> /\ running = {} /\ PoolFacts /\ canvas \in Canvases
    BY PoolFactsHold DEF Inv, GInv, MasterInStep, NoJobLeft, Pool!HasScheduledOrRunningJobs
  <2>2. PICK i \in 1 .. TileCount(canvas) : tiles[i] = t
    BY <2>1 DEF FInv, TilesOrdered
  <2>3. \A w \in Worker : ~UsesRenderer(w)
    BY <2>1 DEF PoolFacts, UsesRenderer
  <2>4. TileDone(t)
    BY <2>1, <2>2, <2>3 DEF FInv, NoTileForgotten, Undisturbed
  <2>5. Sampled(t, Len(PixelsOf(t)))
    BY <2>4 DEF TileDone
  <2>6. DOMAIN PixelsOf(t) = 1 .. Len(PixelsOf(t))
    <3>1. PixelsOf(t) \in Seq(FramePixels)
      BY <2>1, TilesOfFrame
    <3>. QED  BY <3>1
  <2>. QED  BY <2>5, <2>6 DEF Sampled
<1>. QED  BY <1>1, FrameInvariance, PTL

\* A tile is shown as it is in the frame unless a job is at work on it, also after an
\* exception, a stop and a new rendering.
THEOREM DisplayFollowsFrame == Spec => []DisplayUpToDate
<1>1. Inv /\ FInv => DisplayUpToDate
  BY DEF FInv
<1>. QED  BY <1>1, FrameInvariance, PTL

\* No pixel of the frame is left out: a rendering that ended by itself, in which no job threw,
\* sampled them all, in frames of any size, cut into tiles in any way.
THEOREM EveryPixelSampled ==
    Spec => [](phase = "ended" /\ failed = {} =>
                  \A p \in FramePixels : image[p] = <<round, "sampled">>)
<1>1. Inv /\ FrameComplete =>
         (phase = "ended" /\ failed = {} =>
             \A p \in FramePixels : image[p] = <<round, "sampled">>)
  <2>. SUFFICES ASSUME Inv, FrameComplete, phase = "ended", failed = {}, NEW p \in FramePixels
                PROVE  image[p] = <<round, "sampled">>
    OBVIOUS
  <2>1. canvas \in Canvases
    BY DEF Inv, GInv
  <2>2. PICK t \in TileIndex : \E k \in 1 .. Len(PixelsOf(t)) : PixelsOf(t)[k] = p
    BY <2>1, TilesOfFrame
  <2>3. DOMAIN PixelsOf(t) = 1 .. Len(PixelsOf(t))
    <3>1. PixelsOf(t) \in Seq(FramePixels)
      BY <2>1, TilesOfFrame
    <3>. QED  BY <3>1
  <2>4. \A k \in DOMAIN PixelsOf(t) : image[PixelsOf(t)[k]] = <<round, "sampled">>
    BY DEF FrameComplete
  <2>. QED  BY <2>2, <2>3, <2>4
<1>. QED  BY <1>1, Invariance, FrameIsComplete, PTL

\* The Hilbert ordering visits every tile of a frame once, whatever its shape, and goes from
\* neighbour to neighbour in a square whose side is a power of two.
THEOREM HilbertIsComplete == Spec => []HilbertVisitsAll
<1>1. ASSUME NEW m \in 1 .. MaxSide, NEW n \in 1 .. MaxSide
      PROVE  LET tour == HilbertOrdering(m, n)
                 Distance(i, j) == Abs((i % m) - (j % m)) + Abs((i \div m) - (j \div m))
             IN  /\ Len(tour) = m * n
                 /\ {tour[i] : i \in DOMAIN tour} = 0 .. m * n - 1
                 /\ m = n /\ IsPowerOfTwo(m) =>
                       \A i \in 1 .. m * n - 1 : Distance(tour[i], tour[i + 1]) = 1
  <2>. DEFINE tour == HilbertOrdering(m, n)
              l == m * n
              Distance(i, j) == Abs((i % m) - (j % m)) + Abs((i \div m) - (j \div m))
  <2>1. m \in Nat \ {0} /\ n \in Nat \ {0}
    BY GenericAssumption
  <2>2. /\ tour \in [1 .. l -> 0 .. l - 1]
        /\ \A t \in 0 .. l - 1 : \E i \in 1 .. l : tour[i] = t
        /\ m = n /\ IsPowerOfTwo(m) =>
              \A i \in 1 .. l - 1 : Distance(tour[i], tour[i + 1]) = 1
    BY <2>1, HilbertOrderingVisits
  <2>3. l \in Nat
    BY <2>1
  <2>. HIDE DEF l, tour, Distance
  <2>4. Len(tour) = l /\ {tour[i] : i \in DOMAIN tour} = 0 .. l - 1
    BY <2>2, <2>3
  <2>. QED  BY <2>2, <2>4 DEF l, tour, Distance
<1>2. HilbertVisitsAll
  BY <1>1 DEF HilbertVisitsAll
<1>. QED  BY <1>2, PTL

=============================================================================
