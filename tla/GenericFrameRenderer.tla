------------------------ MODULE GenericFrameRenderer ------------------------
(***************************************************************************)
(* renderer/kernel/rendering/generic: one job per tile of the frame, run   *)
(* by worker threads that leave when the queue is empty.  Each worker has  *)
(* a tile renderer and a tile callback of its own; the studio's callbacks  *)
(* frame a tile in the render widget before it is rendered and blit it     *)
(* afterwards.  The master thread is the owner of the pool.                *)
(*                                                                         *)
(* A pixel holds the rendering that wrote it last and what it wrote: the   *)
(* color of its samples, or black once the abort switch was seen.  No crop *)
(* window.                                                                 *)
(***************************************************************************)
EXTENDS TileOrdering

CONSTANTS ThreadCount, NoJob,
          Canvases,   \* the dimensions of the frame and of its tiles
          Orderings,  \* values of the parameter tile_ordering
          MayThrow,   \* rendering a pixel may raise an exception
          Rounds,     \* bound: calls of start_rendering() that schedule jobs
          MaxSide     \* bound: sides of the frames whose Hilbert ordering is checked

ASSUME GenericAssumption ==
    /\ ThreadCount \in Nat \ {0} /\ {Rounds, MaxSide} \subseteq Nat
    /\ Canvases \subseteq [width : Nat \ {0}, height : Nat \ {0},
                           tileWidth : Nat \ {0}, tileHeight : Nat \ {0}]
    /\ Canvases # {}
    /\ Orderings \subseteq {"linear", "spiral", "hilbert", "random"}
    /\ MayThrow \in BOOLEAN

VARIABLES scheduled, running, object,
          created, owner, cursor,
          pc, aborted, held, executions,
          canvas, ordering,  \* the frame's dimensions and the renderer's parameter
          phase,             \* where the master thread is
          round,             \* how often jobs were scheduled
          tiles,             \* tile_jobs: the tile indices in their order
          abortSwitch,       \* m_abort_switch
          step,              \* where each worker is in TileJob::execute()
          pixel,             \* i of render_tile(), pixels outside of the tile left out
          image,             \* the frame
          display,           \* the render widget, tile by tile
          failed             \* history: tiles of this rendering whose job threw

Worker == 1 .. ThreadCount

\* A job is told apart by its rendering and its place in the order.
TileJob == (1 .. Rounds) \X UNION {1 .. TileCount(c) : c \in Canvases}

ASSUME NoJobAssumption == NoJob \notin TileJob

Pool == INSTANCE WorkerPool WITH
            Job <- TileJob, OwnedJob <- TileJob, KeepRunning <- FALSE

poolVars == <<scheduled, running, object, created, owner, cursor,
              pc, aborted, held, executions>>
masterVars == <<phase, round, tiles>>
workVars == <<step, pixel>>
outputVars == <<image, display, failed>>
parameters == <<canvas, ordering>>
vars == <<poolVars, masterVars, workVars, outputVars, parameters, abortSwitch>>

-----------------------------------------------------------------------------
(* Tiles and pixels. *)

TileIndex == 0 .. TileCount(canvas) - 1

\* The pixels of the tiles of each canvas.
PixelOrder == [c \in Canvases |-> [t \in 0 .. TileCount(c) - 1 |-> PixelsOfTile(c, t)]]

PixelsOf(t) == PixelOrder[canvas][t]

FramePixels == (0 .. canvas.width - 1) \X (0 .. canvas.height - 1)

\* What blit_tile() reads.
TileContent(t) == [k \in 1 .. Len(PixelsOf(t)) |-> image[PixelsOf(t)[k]]]

Blank == <<0, "black">>

\* A tile that is framed shows none of its pixels.
Framed == <<>>

Init ==
    /\ Pool!Init
    /\ canvas \in Canvases
    /\ ordering \in Orderings
    /\ phase = "off" /\ round = 0 /\ tiles = <<>>
    /\ abortSwitch = FALSE
    /\ step = [w \in Worker |-> "enter"]
    /\ pixel = [w \in Worker |-> 1]
    /\ image = [p \in FramePixels |-> Blank]
    /\ display = [t \in TileIndex |-> TileContent(t)]
    /\ failed = {}

-----------------------------------------------------------------------------
(* TileJob::execute(), run by worker w. *)

At(w, s) == pc[w] = "execute" /\ step[w] = s

Tile(w) == tiles[held[w][2]]

\* The pre-render callback: RenderWidget::highlight_region().
PreRender(w) ==
    /\ At(w, "enter")
    /\ display' = [display EXCEPT ![Tile(w)] = Framed]
    /\ step' = [step EXCEPT ![w] = "render"]
    /\ pixel' = [pixel EXCEPT ![w] = 1]
    /\ UNCHANGED <<poolVars, masterVars, image, failed, parameters, abortSwitch>>

\* One turn of the loop of render_tile(); a pixel is stored black after an abort.
RenderPixel(w) ==
    LET pixels == PixelsOf(Tile(w))
    IN  /\ At(w, "render")
        /\ image' = [image EXCEPT ![pixels[pixel[w]]] =
                        <<round, IF abortSwitch THEN "black" ELSE "sampled">>]
        /\ pixel' = [pixel EXCEPT ![w] = @ + 1]
        /\ step' = [step EXCEPT ![w] = IF pixel[w] = Len(pixels) THEN "blit" ELSE @]
        /\ UNCHANGED <<poolVars, masterVars, display, failed, parameters, abortSwitch>>

\* Mutant: the handler rethrows without calling the post-render callback.
ThrowPastCallback(w) ==
    /\ MayThrow
    /\ At(w, "render")
    /\ ~abortSwitch
    /\ failed' = failed \cup {Tile(w)}
    /\ step' = [step EXCEPT ![w] = "enter"]
    /\ Pool!FinishExecution(w)
    /\ UNCHANGED <<masterVars, pixel, image, display, parameters, abortSwitch>>

\* An exception in render_pixel(): the handler calls the post-render callback and
\* rethrows, which ends the job as returning does.
ThrowInTile(w) ==
    /\ MayThrow
    /\ At(w, "render")
    /\ ~abortSwitch
    /\ failed' = failed \cup {Tile(w)}
    /\ step' = [step EXCEPT ![w] = "blit"]
    /\ UNCHANGED <<poolVars, masterVars, pixel, image, display, parameters, abortSwitch>>

\* The post-render callback, RenderWidget::blit_tile(), and the end of the job.
PostRender(w) ==
    /\ At(w, "blit")
    /\ display' = [display EXCEPT ![Tile(w)] = TileContent(Tile(w))]
    /\ step' = [step EXCEPT ![w] = "enter"]
    /\ Pool!FinishExecution(w)
    /\ UNCHANGED <<masterVars, pixel, image, failed, parameters, abortSwitch>>

\* WorkerThread::run() around the job.
RunLoop(w) ==
    /\ \/ Pool!TestAbort(w) \/ Pool!AcquireJob(w) \/ Pool!FindQueueEmpty(w)
       \/ Pool!RetireJob(w) \/ Pool!DeleteJob(w)
    /\ UNCHANGED <<masterVars, workVars, outputVars, parameters, abortSwitch>>

WorkerRuns(w) ==
    RunLoop(w) \/ PreRender(w) \/ RenderPixel(w) \/ PostRender(w)

-----------------------------------------------------------------------------
(* The master thread: the methods of GenericFrameRenderer. *)

MasterMoves(from, to) == phase = from /\ phase' = to

masterLeaves == <<round, tiles, workVars, outputVars, parameters>>

\* TileJobFactory::generate_tile_ordering()
TileOrders ==
    CASE ordering = "linear"  -> {LinearOrdering(TileCount(canvas))}
      [] ordering = "hilbert" -> {HilbertOrdering(TileCountX(canvas), TileCountY(canvas))}
      [] ordering = "random"  -> RandomOrderings(TileCount(canvas))

\* Mutant: the abort switch is not cleared.
StartStillAborted ==
    /\ MasterMoves("off", "scheduling")
    /\ ordering # "spiral"
    /\ round < Rounds
    /\ round' = round + 1
    /\ tiles' \in TileOrders
    /\ failed' = {}
    /\ UNCHANGED <<poolVars, workVars, image, display, parameters, abortSwitch>>

\* start_rendering() up to its loop over the tile jobs.
StartRendering ==
    /\ MasterMoves("off", "scheduling")
    /\ ordering # "spiral"
    /\ round < Rounds
    /\ round' = round + 1
    /\ abortSwitch' = FALSE
    /\ tiles' \in TileOrders
    /\ failed' = {}
    /\ UNCHANGED <<poolVars, workVars, image, display, parameters>>

\* spiral_ordering() is not implemented: it throws before a job is created.
StartThrows ==
    /\ phase = "off"
    /\ ordering = "spiral"
    /\ abortSwitch' = FALSE
    /\ UNCHANGED <<poolVars, phase, masterLeaves>>

\* m_job_queue.schedule() of the next tile job.
ScheduleTile ==
    LET i == Len(scheduled) + 1
    IN  /\ MasterMoves("scheduling", IF i = Len(tiles) THEN "launching" ELSE "scheduling")
        /\ Pool!OwnerSchedule(<<round, i>>)
        /\ UNCHANGED <<masterLeaves, abortSwitch>>

StartPool ==
    /\ MasterMoves("launching", "started")
    /\ Pool!CallStart
    /\ UNCHANGED <<masterLeaves, abortSwitch>>

PoolStarted ==
    /\ MasterMoves("started", "rendering")
    /\ owner = "idle"
    /\ UNCHANGED <<poolVars, masterLeaves, abortSwitch>>

\* Mutant: only scheduled jobs count.
EndsWithEmptyQueue ==
    /\ MasterMoves("rendering", "ended")
    /\ scheduled = <<>>
    /\ UNCHANGED <<poolVars, masterLeaves, abortSwitch>>

\* is_rendering() returns false, or wait_until_completion() returns in render().
RenderingEnds ==
    /\ MasterMoves("rendering", "ended")
    /\ ~Pool!HasScheduledOrRunningJobs
    /\ UNCHANGED <<poolVars, masterLeaves, abortSwitch>>

\* stop_rendering() or terminate_rendering().
StopRendering ==
    /\ MasterMoves("rendering", "stopping")
    /\ abortSwitch' = TRUE
    /\ UNCHANGED <<poolVars, masterLeaves>>

StopPool ==
    /\ MasterMoves("stopping", "clearing")
    /\ Pool!CallStop
    /\ UNCHANGED <<masterLeaves, abortSwitch>>

\* JobManager::stop() has returned: the jobs left over are deleted.
ClearJobs ==
    /\ MasterMoves("clearing", "off")
    /\ Pool!OwnerClear
    /\ UNCHANGED <<masterLeaves, abortSwitch>>

\* The destructor releases the tile callbacks and the tile renderers first.
BeginDestruction ==
    /\ MasterMoves("ended", "released") \/ MasterMoves("off", "released")
    /\ UNCHANGED <<poolVars, masterLeaves, abortSwitch>>

\* ~JobManager joins the workers that have not been joined by a stop, then ~JobQueue.
DestroyPool ==
    /\ \/ MasterMoves("released", "released") /\ Pool!CallStop
       \/ MasterMoves("released", "gone") /\ Pool!Destroy
    /\ UNCHANGED <<masterLeaves, abortSwitch>>

\* The steps JobManager::start() and stop() go on with.
PoolCallProgress ==
    /\ \E w \in Worker : Pool!StartWorker(w) \/ Pool!StopWorker(w) \/ Pool!JoinWorker(w)
    /\ UNCHANGED <<phase, masterLeaves, abortSwitch>>

MasterProgress ==
    \/ ScheduleTile \/ StartPool \/ PoolStarted \/ RenderingEnds
    \/ StopPool \/ ClearJobs \/ DestroyPool \/ PoolCallProgress

MasterCall == StartRendering \/ StartThrows \/ StopRendering \/ BeginDestruction

Next ==
    \/ \E w \in Worker : WorkerRuns(w) \/ ThrowInTile(w)
    \/ MasterProgress
    \/ MasterCall

Spec == Init /\ [][Next]_vars

\* Every thread is scheduled, rendering a pixel takes finite time, and the master thread
\* goes on inside a method.  Starting, stopping and destroying is the caller's choice.
Fairness ==
    /\ \A w \in Worker : WF_vars(WorkerRuns(w))
    /\ WF_vars(MasterProgress)

FairSpec == Spec /\ Fairness

-----------------------------------------------------------------------------
(* Properties. *)

TypeOK ==
    /\ Pool!TypeOK
    /\ canvas \in Canvases /\ ordering \in Orderings
    /\ phase \in {"off", "scheduling", "launching", "started", "rendering", "ended",
                  "stopping", "clearing", "released", "gone"}
    /\ round \in 0 .. Rounds
    /\ tiles \in Seq(TileIndex)
    /\ abortSwitch \in BOOLEAN
    /\ step \in [Worker -> {"enter", "render", "blit"}]
    /\ pixel \in [Worker -> Nat \ {0}]
    /\ image \in [FramePixels -> (0 .. Rounds) \X {"sampled", "black"}]
    /\ DOMAIN display = TileIndex
    /\ failed \subseteq TileIndex

UsesRenderer(w) == pc[w] = "execute"

\* Whatever the shape of a frame, a Hilbert ordering visits each of its tiles once, as the
\* assertion in TileJobFactory::create() has it (tilejobfactory.cpp:66), and in a square
\* whose side is a power of two it only ever goes on to a neighbour.
HilbertVisitsAll ==
    phase = "off" /\ round = 0 =>
        \A m, n \in 1 .. MaxSide :
            LET tour == HilbertOrdering(m, n)
                Distance(i, j) == Abs((i % m) - (j % m)) + Abs((i \div m) - (j \div m))
            IN  /\ Len(tour) = m * n
                /\ {tour[i] : i \in DOMAIN tour} = 0 .. m * n - 1
                /\ m = n /\ IsPowerOfTwo(m) =>
                      \A i \in 1 .. m * n - 1 : Distance(tour[i], tour[i + 1]) = 1

\* The frame of a rendering that ended by itself is complete: each of its pixels was
\* sampled in this rendering, except in the tiles whose job threw.
FrameComplete ==
    phase = "ended" =>
        \A t \in TileIndex \ failed :
            \A k \in DOMAIN PixelsOf(t) : image[PixelsOf(t)[k]] = <<round, "sampled">>

\* Whatever happens to its job, a tile is shown as it is in the frame unless it is just
\* being rendered: no tile stays framed, and no blit misses the last pixels.
DisplayUpToDate ==
    \A t \in TileIndex :
        display[t] = TileContent(t) \/ \E w \in Worker : UsesRenderer(w) /\ Tile(w) = t

\* No worker uses a tile renderer or callback that the destructor has released, although
\* the workers of a rendering that ended by itself may still be running.
ReleasedRenderersUnused ==
    phase \in {"released", "gone"} => \A w \in Worker : ~UsesRenderer(w)

(* What ReleasedRenderersUnused and ImplementsFrameRenderer rest on. *)

\* Which calls of the job manager the master thread can be in.
MasterInStep ==
    /\ phase \notin {"off", "released", "gone"} => round > 0
    /\ phase \in {"off", "scheduling", "launching"} => owner = "idle" /\ ~created
    /\ phase \in {"rendering", "ended", "stopping"} => owner = "idle"
    /\ phase = "started" => owner \in {"starting", "idle"}
    /\ phase = "clearing" => owner \in {"stopping", "joining"} \/ (owner = "idle" /\ ~created)
    /\ phase = "released" => owner \in {"idle", "stopping", "joining"}

\* The queue has one job per tile when all of them are scheduled.
TilesInStep ==
    phase = "scheduling" =>
        Len(tiles) = TileCount(canvas) /\ Len(scheduled) < TileCount(canvas)

\* When there is no job, scheduled or running.
NoJobLeft ==
    phase \in {"off", "ended", "released", "gone"} => ~Pool!HasScheduledOrRunningJobs

GInv ==
    /\ canvas \in Canvases /\ ordering \in Orderings
    /\ phase \in {"off", "scheduling", "launching", "started", "rendering", "ended",
                  "stopping", "clearing", "released", "gone"}
    /\ round \in 0 .. Rounds
    /\ MasterInStep
    /\ TilesInStep
    /\ NoJobLeft

Promised == INSTANCE FrameRenderer WITH
    image <- image,
    mode  <- CASE phase = "off" -> IF round = 0 THEN "ready" ELSE "stopped"
               [] phase \in {"scheduling", "launching", "started"} -> "rendering"
               [] phase \in {"released", "gone"} -> "gone"
               [] OTHER -> IF Pool!HasScheduledOrRunningJobs THEN "rendering" ELSE "finished"

\* The generic frame renderer keeps the promises of IFrameRenderer: in particular the
\* frame does not change once is_rendering() is false.
ImplementsFrameRenderer == Promised!FrameRendererSpec

\* A frame is finished without being stopped, although a worker leaves when it finds the
\* queue empty: the workers that stay are enough for the tiles that are left.
RenderingTerminates == phase = "rendering" ~> phase # "rendering"

=============================================================================
