# A TLA+ model of appleseed

This directory is a verification project for the control of the appleseed
renderer: who may run when, what is handed from thread to thread, what happens
when something is stopped, restarted, fails or is destroyed. It holds TLA+
modules translated from the C++ source, TLC configurations that check them on
small instances, and proofs checked by TLAPS. The arithmetic of light transport
is outside of it. Paths below are relative to the repository root;
`PROJECT.json` lists, for every definition, the source lines it models.

## The system

appleseed is a library (`src/appleseed`) with a command line program
(`appleseed.cli`) and a graphical program (`appleseed.studio`). A rendering
involves these components.

| Component | State | Operations | Talks to |
|---|---|---|---|
| Job queue (`foundation/utility/job/jobqueue`) | lists of scheduled and running jobs, ownership of the jobs | schedule, acquire, retire, clear, wait | called by worker threads and renderers under a spinlock |
| Worker threads, job manager (`workerthread`, `jobmanager`) | threads, an abort switch per worker | start, stop, the loop of `run()` | run the jobs of the queue |
| Progressive frame renderer | abort switch, sample counter, framebuffer, generators, statistics thread | start, stop, terminate, is_rendering, destruction | owns a queue and a job manager; its jobs schedule their successors |
| Sample generators and jobs | sequence index and batch of each generator | generate samples, reserve, store, develop | shared framebuffer and counter, each under a spinlock |
| Generic frame renderer, tile jobs | tile order, abort switch, one tile renderer and one tile callback per worker | start, stop, is_rendering, destruction; render a tile | queue and job manager with `keep_running = false`; the render widget |
| Tile and pixel orders (`foundation/math/ordering`, `canvasproperties.h`) | - | linear, Hilbert, random orders | tile job factory, tile renderers |
| Render widget (studio) | the image that is shown | frame a tile, blit a tile | called by tile callbacks in the workers |
| Master renderer | the loops over renderings and frames | render | calls the frame renderer, the scene and the renderer controller |
| Renderer controller | one status word | callbacks, `on_progress()` | in the studio, Qt signals over blocking queued connections |
| Studio: rendering manager, camera controller, main window | camera transform, shading override, menus, a `QThread` | start, abort, restart, reinitialize, wait, slots | runs in the user interface thread beside the master renderer's thread |
| Dual-stage cache (`foundation/utility/cache.h`), texture cache, access caches | set associative stage 0, LRU stage 1, element memory | get, clear | one per thread; swappers load and unload tiles or lazy objects |
| Lazy objects (`foundation/utility/lazy.h`) | reference count, object, mutex | access, release | triangle trees |
| Assembly tree, triangle trees, intersectors | tree of assembly instances, a lazy triangle tree and a version per assembly | update, look up, destroy | scene, access caches of the workers |
| Project explorer (studio) | the scene, version IDs | edit objects, instances, assemblies and the camera, also while rendering | assembly tree at its next update; rendering threads and camera controller, which use the camera |
| Buffered file | `FILE`, buffer, mode, two positions | open, read, write, seek, tell, close | readers and writers of meshes and curves |
| Project, scene, entities, readers, writers | entity containers | build, read, write, on_frame_begin/end | everything |
| Shading, lighting, image, math | floating point values | numerical | - |

### What is hard

* Jobs move between two lists, and are deleted, while the renderer polls
  "is anything scheduled or running" to learn that a frame is done.
* A sample generator job schedules the next job of the same, unlocked generator
  while it still executes.
* Light tracing stores samples and counts paths in two critical sections.
* stop_rendering() races jobs that reschedule themselves and a statistics thread
  that reads what the next start clears.
* Both renderers release generators or tile renderers in their destructor before
  the job manager has joined the threads that use them.
* A worker of the generic renderer leaves as soon as the queue is empty, while
  others still render; a tile job that throws must leave the widget in order.
* The studio's requests go through one status word that is overwritten by later
  requests and reset whenever a frame begins.
* The project explorer stays enabled while rendering (`mainwindow.cpp:465`): editing
  the camera deletes the object that rays in flight and the camera controller use,
  and puts one in its place that was not prepared for the frame.
* Exceptions leave the master renderer's frame loop in the middle.
* Stage 0 of the cache keeps pointers into stage 1; a load that throws leaves a
  key behind; the memory limit is tested before the size of a tile is known.
* A triangle tree is built by the first of several threads that need it, may fail
  to build, is referred to from both stages of every thread's cache, and is
  replaced when its assembly has a new version; the user edits the scene meanwhile.
* A buffered file has two positions, its own and that of the `FILE`, which must
  agree whenever buffered and unbuffered calls are mixed or the disk fills up.

The full list, each entry at its line, is `hazards` in `PROJECT.json`.

### What makes each component correct

* Queue and pool: FIFO starts, at most one execution, no access to a deleted
  job, owned jobs deleted exactly once, stop and wait return, only the owner can
  wake an idle queue.
* Both frame renderers: the frame changes only while it is being rendered, and
  nothing survives a stop or the destructor; stop returns, a rendering ends.
* Progressive renderer: one job per generator at a time, disjoint sequences, the
  budget met, the frame shows what was stored.
* Generic renderer: a frame that ended by itself is complete, the widget shows it,
  every order visits every tile once.
* Master renderer and studio: frames begin and end around a quiet frame
  renderer, no slot and no start changes what the rendering threads read (only an edit
  in the project explorer does), no camera movement is lost, no request outlives its
  frame, aborts take effect.
* Caches: a get returns the element of its key, no stale entry in stage 0, the
  accounting is exact.
* Trees: references are counted exactly, no reference to a deleted tree, a tree is
  built once and from the version that it stands for, a lookup returns.
* Buffered file: it is a file, and it is complete when it was closed without an error.

## The modules

`JobQueue` holds the queue's operations, without a specification of its own:
one method is one step, because every method holds the spinlock for its whole
body; `retire_running_job()` deletes the job after unlocking and is two steps.
`object` gives every job object a lifetime, so that use after delete, double
delete and leaks are visible.

`WorkerPool` extends it with `WorkerThread::run()` (one action per access to
shared state) and with the owner of the job manager, who makes any sequence of
calls; the loops of `start()` and `stop()` go from worker to worker, and `stop()`
blocks in each `join()`.

`JobPool` is the abstract specification of the two: a FIFO of pending jobs, a set
of active ones, finished and discarded ones, and whether the pool is open.
`WorkerPool!ImplementsPool` is the refinement, with `pending` mapped to the
scheduled list, `active` to the running list and `open` to the existence of
worker threads.

`FrameRenderer` is the abstract specification of `IFrameRenderer`, as the master
renderer relies on it: a mode (ready, rendering, finished, stopped, gone) and a
frame that only changes while the mode is "rendering". Both frame renderers are
shown to implement it (`ImplementsFrameRenderer`): "rendering" is mapped to the
time from the start to the moment when `is_rendering()` becomes false.

`ProgressiveFrameRenderer` instantiates `WorkerPool` (every job owned,
`keep_running` true) and gives the jobs their body: reserve, generate batch by
batch, store, count, develop, look at the abort switch, schedule the next pass.
The master thread is the owner of the pool and goes through the bodies of
`start_rendering()`, `stop_rendering()` and the destructor; the statistics
thread is a third party. A sample is only a count; a job object is told apart by
the rendering it belongs to, its generator and its pass. What `StartRendering`
does in one step (clear the switch, the framebuffer, the counter, the
generators) is done by the code while no other thread of the renderer runs.

`TileOrdering` has the grid of tiles of a canvas, the orders in which tiles and
pixels are visited, and the pixels of each tile. The Hilbert curve is a recursive
function: the curve of a square consists of four curves of half its side, placed in
its quadrants; a grid of another shape picks its tiles from the curve of the next
power of two.
`GenericFrameRenderer` instantiates `WorkerPool` too (`keep_running` false) and
gives the jobs the body of `TileJob::execute()`: pre-render callback, the pixels
one by one, post-render callback, which is also called when a pixel throws. A
pixel is the rendering that wrote it and whether it was sampled or left black by
an abort. `display` is the render widget, tile by tile.

`MasterRenderer` is the thread of `MasterRenderer::render()`, its location in
`mpc`; it sees of the frame renderer what `IFrameRenderer` shows. Its callbacks
are operators for the controller's module to complete. `RenderingManager` is the
studio's: at a callback location the master thread waits for the user interface
thread to run the slot, which a blocking queued connection does. `on_progress()`
reads the status without waiting. `ContractKept` says that the master renderer uses
each frame renderer as `FrameRenderer` demands of an owner. The user starts, stops, drags the camera,
edits it in the project explorer, overrides the shading and closes the window at any
time the window accepts it; a modal question blocks everything but the slots, while
`wait_until_rendering_end()` processes all events, so that a second close event may ask
again below the first. The camera's transform and the shading override are version
numbers, so that "the scene shows what the user set" can be said.

An edit replaces the camera by a new object with the same transform
(`projectbuilder.h:278`); `cameraObject` counts the edits. The camera controller keeps
the object it was made for (`controlled`), and `prepared` is the one whose
`on_frame_begin()` was called last. What happens when the old one is used is undefined
behaviour and a choice: a write to it is lost, reaches the new camera or ends the process,
and a rendering thread that reads the old camera, or the new one that is not prepared,
may crash (`RenderingThreadCrashes`). `ui = "dead"` is the end of the process. It is
reached in this way, or because Qt does not survive the deletion of a running `QThread`:
a user who starts again before the thread has left `render()` gets there. The model then
stops.

`DualStageCache` is a cache of one thread; a call is a step. Elements are
represented by the key they were loaded for, which makes a wrong answer visible.
`Size` and `Limit` turn it into the texture cache (bytes) or an access cache
(elements).

`AssemblyTree` has three parties: the master thread in `AssemblyTree::update()`,
assembly by assembly; the workers in `AccessCacheMap::access()`, one step per
locked section of `Lazy` and `Access`, with the two stages of each worker's cache
as the places where references are kept; and the user of the project explorer,
who edits the content of an assembly in two steps, the content and the version ID,
and places or removes instances and removes whole assemblies in one. An update that
meets the ID of a deleted assembly, or a ray that meets that of a removed instance,
ends in "lost": the code's assertions forbid it. The trees of
an assembly are numbered, so that a reference to a replaced tree is visible.
Versions are counted from 1 (from 0 in the code) to leave 0 for "no entry".

`File` is the abstract specification of a file: contents, one position, and the
bytes of the last call. `BufferedFile` has the buffer and both positions, and a
step for each turn of the loops of `read()` and `write()`. `written` records what
the caller was told is written. The disk may be full at any `fwrite()`, and `fclose()` may
lose the end of what was written; an `fopen()` that fails changes nothing and is left out. `BufferedFile!ImplementsFile` is the refinement,
with the contents mapped to what is on disk once the buffer is flushed, and the
position to that of the call's beginning while a call is executed.

Each `MC...` module instantiates one of these for TLC. Operators whose comment
begins with `Mutant:` are wrong versions of the definition that follows them;
`PROJECT.json` says which property notices each of them.

## What is checked

| Run | Instance | Shows |
|---|---|---|
| `pool` | 3 workers that leave an empty queue, 3 jobs (one not owned), fair | the pool's invariants, the refinement of `JobPool`; a wait returns |
| `progressive_restart` | 2 workers, light paths of no or two samples, 2 renderings, budget 1, exceptions | nothing survives a stop, a restart or the destructor; statistics never go back; no development with a zero count; the frame final, also if jobs threw; the refinement of `FrameRenderer` |
| `progressive_local` | 2 workers, one rendering, budget 3, one sample per index, no exceptions, fair | generators exclusive, sequences disjoint, budget kept and spent; stop returns, a rendering ends |
| `tiles` | 2 workers, a frame of 3 by 1 pixels in tiles of 2 by 2, 2 renderings, exceptions, fair | frames complete, the widget up to date, released tile renderers unused, the refinement of `FrameRenderer`; a rendering ends; Hilbert orders of grids up to 8 by 8 |
| `studio` | 2 movements of the camera, 2 overrides, 2 edits of the camera, exceptions, fair | the studio's invariants; only edits change the scene during a frame; aborts end a rendering |
| `studio_shading` | 1 change | *violated*: an override is lost |
| `cache_texture` | 5 keys, one of which cannot be loaded, 2 lines of 2 ways, sizes 1 and 3, limit 4 | answers for the keys that exist, no stale entry, accounting |
| `cache_missing` | 5 keys, one missing, 3 lines of 1 way, limit 3 elements | *violated*: a missing key is answered, the second time, with what the entry held before: another key's element or one that was never loaded |
| `trees` | 2 workers, 2 assemblies that compete for one line, 1 edit, 1 failing build, fair | references counted, none dangles, trees up to date; lookups return |
| `trees_edit` | 1 worker, 1 edit while rendering | *violated*: a ray looks up an instance that was removed, alone or with its assembly |
| `file` | buffer of 2 bytes, files up to 4, calls up to 3, a disk that may be full, fair | the refinement of `File`, files complete when closed; calls return |
| `file_seek` | the same, seeks while writing | *violated*: a seek does not arrive where it was told |

Every violated run is a disagreement between the code and what a comment or an
assertion says of it; `findings` in `PROJECT.json` quotes both. Deadlock is
checked for the caches and the file. The other systems may really stop: the queue
destroyed, the renderer destroyed, the window closed, the tree destroyed.

Some formulas are stated in the modules and belong to no run. `StartOnlyAfterTheEnd`,
`ContractKept`, `ExecutedAtMostOnce`, `BuiltOnce` and the type invariants hold and are
proved; `RenderingManager!CamerasInUseExist` holds, and is proved, if the camera is edited
between renderings only. Three do not hold in general and TLC refutes them; they document what the code
does: `WorkerPool!StartLeavesWorkersRunning` (without `keep_running`, `start()` does not
start a worker that has finished because the queue was empty; with it, the formula is
proved), `RenderingManager!CloseReturns` (with
`Endless`, a renderer that does not end by itself, closing the window waits for
ever if the abort it requested is erased by a frame that begins) and
`BufferedFile!NothingWrittenIsLost` (a seek back within the buffer forgets the
bytes behind it). Two more follow from the modules without a formula: an exception
in a frame makes the scene begin a frame inside another one, and light paths that
yield several samples exceed `max_samples` (`progressive_restart` has such paths; the
theorems about the budget exclude them by name).

### Bounds

* Three workers give every pair of loop positions of `start()` and `stop()` plus
  one worker outside of it; three jobs give a list with two jobs while one runs.
* `SampleBatchSize` is 2 (67 in the code), passes are of 1, 2 and 3 samples
  (4096 growing to 131072): a batch ends inside, at and after the end of a
  reservation, and a budget of 3 is cut by the last reservation. `Rounds` bounds
  calls of `start_rendering()`; two are a restart. `BlankPaths` bounds light
  paths without samples.
* Two tiles, the second incomplete, of two and one pixels: a worker leaves the
  empty queue while the other renders, a stop comes before, between and after
  pixels. With two tiles the random orders include the linear and the Hilbert
  one; `MaxSide` bounds the grids on which the Hilbert orders are checked (they are
  proved for all grids).
* `MaxChanges` bounds what the user changes, not what is started or stopped.
  A lost request needs one change, a request that overwrites another needs two.
  In the studio `MaxEdits` bounds the edits of the camera: with two, the controller's,
  the prepared and the scene's camera may all be different objects.
* Five keys are more than the cache holds, and compete for two or three lines;
  a load of size 3 and one of size 1 fill the cache to its limit of 4, others
  exceed it.
* `Lines` is 1 (16 in the code), so that every lookup of another assembly evicts.
  `MaxEdits` bounds the edits of the scene: one is enough for a tree to be replaced
  while caches refer to it. `MaxThrows` bounds the builds that fail.
* A buffer of 2 bytes (32 KB in the code) is shorter than a call of `MaxCount` 3
  bytes and than a file of `MaxSize` 4: calls begin and end inside, at and across
  the ends of the buffer.

### Fairness

`WorkerPool`: weak fairness of every worker's own step (threads are scheduled,
jobs terminate) and of the owner inside a call. `wait_until_completion()` spins
with `try_lock()`; its fairness says that it does not lose the lock race for
ever. `ProgressiveFrameRenderer` and `GenericFrameRenderer`: every worker, the
statistics thread and the master thread inside a method; calling is the caller's
choice, and an exception in a job is never due. `RenderingManager`: the event loop
runs the slots and the master thread proceeds; `AbortEndsRendering` excepts a process that
ends, as it may when the camera is edited during a frame; nothing is assumed of the user, of
failures, or of the frame ending by itself. `AssemblyTree`: a worker goes on with
its lookup and a build terminates; a build never has to fail. `BufferedFile`: a
call once begun goes on.

## What is proved

All of it for every value of the constants that the named assumptions admit. Every safety
property of a passing run is proved; where a theorem has a hypothesis of its own, it is
named below. For each violated run, a theorem says under which condition the property
that it refutes does hold.

`WorkerPoolProofs` proves, for any number of workers, any set of jobs and both
values of `KeepRunning`, that `IInv` is inductive, and from it the type
invariant, `QueueStates`, `NoDanglingJob`, `ExecutedAtMostOnce`,
`StoppedMeansQuiet`, `OwnershipSettled`, the action property
`OnlyTheOwnerWakesTheQueue` and the refinement `ImplementsPool`. `StartsEveryWorker`
adds that with `KeepRunning` no `start()` meets a finished worker, since a thread then
ends only between being told to and being joined (`EndsWhenJoined`). The properties
alone are not inductive. They need: a worker holds a job exactly from acquiring
to deleting it (`HeldWhileHolding`), a held job is not scheduled again
(`HeldNotScheduled`), the history counts a job from its acquisition
(`ExecutedOnceAcquired`), an owned live job is in the list or held
(`NoLeakedJob`), and how far the loops of start and stop have come
(`LoopsInStep`: the workers before the cursor of a stop have no thread). Most
steps leave the queue alone: `QuietStep` reduces them to `TypeOK` and
`LoopsInStep`; the others have a lemma each. The assumptions are those of the
constants (`JobAssumption`, `PoolAssumption`).

`ProgressiveFrameRendererProofs` builds on it through the instance `W`: every step
of the renderer is a step of the pool (`PoolStep`), so that the pool's invariant is
given. On top of it `RInv` says which calls of the job manager each phase of the
master thread can be in (`MasterInStep`), that a generator has one job that is
scheduled or not done (`OneJobPerGenerator`), that its next
index lies in a batch of its own (`SequencesInterleave`, whose step is the
arithmetic lemma `NextInBatch`), and that what was stored is developed unless a
job is still to develop it (`BufferDeveloped`). From it follow `GeneratorExclusive`,
`SequencesInterleave`, `DevelopedCountIsPositive`, `StatisticsNeverGoBack`,
`StartsWithNoJob`, `ReleasedGeneratorsUnused`, `FrameIsFinal` and the refinement of
`FrameRenderer`, for any number of threads, budget, batch and pass sizes.

The budget needs an invariant of its own (`BudgetInv`): what is stored, plus what the
workers have reserved and still hold, is what the counter has given out. A sum over
workers would be induction over data, so the pending samples are the cardinality of a
set, which grows and shrinks by the lemmas of `FiniteSetTheorems`. `BudgetNeverExceeded`
assumes that an index yields at most one sample: a light path that yields more does
exceed `max_samples`. `BudgetIsSpent` assumes that every index yields exactly one, that
no job throws (its reservation would be lost), and local framebuffers, which count samples
and not light paths; these are the constants of the run `progressive_local`.

`GenericFrameRendererProofs` does the same for the generic renderer: `GInv`, the type
invariant, `ReleasedRenderersUnused` and the refinement of `FrameRenderer`. It goes on to
`FrameComplete` and `DisplayUpToDate`. The invariant `FInv` follows each tile: until the
rendering is stopped, it waits for its job, is being rendered by a worker that holds the
job, or is done (`NoTileForgotten`); a worker has sampled the pixels before its own
(`SampledSoFar`); and every order visits every tile (`TilesOrdered`). Together with the
next module they give `EveryPixelSampled`: a rendering that ends by itself, and in which
no job threw, has sampled every pixel of the frame.

`TileOrderingProofs` proves what this rests on, for canvases and tiles of all sizes.
`HilbertOrderingVisits`: the Hilbert ordering of any grid is a bijection from positions to
tiles, and in a square whose side is a power of two it goes from neighbour to neighbour.
`TilesPartitionCanvas`: tiles are not empty, do not overlap and cover the canvas.
`HilbertIsComplete` is the property `HilbertVisitsAll` of the run. The curve is defined by
recursion over the sides. The library's induction theorems take an operator and cannot be
instantiated, so induction goes by a least counterexample: `LeastOf`, from the
well-foundedness of the natural numbers, gives the smallest side that fails, and the
curve of half that side refutes it (`ToursJoined`, `PathsJoined`). `HilbertRecursion`
shows in the same way that the recursive definition has a solution.

`RenderingManagerProofs` proves, for any `MaxChanges` and `MaxEdits` and whatever may throw,
that `RenderingManager!IInv` is inductive, and from it the type invariant, `ContractKept`,
`FrameRendererQuiet` (the assertions of `render_frame_sequence()`),
`CameraChangeNotLost`, `StaleRequestIgnored`, `CameraControllerThere`,
`StartOnlyAfterTheEnd` and `OnlyEditsTouchTheScene`: while the frame renderer is at work,
the camera's transform, the parameters and the shading engine stay as they are, and the
only step that changes what the threads read is the edit of the camera. `CamerasExist`
adds the condition under which that race is absent: if the camera is edited only when
there is no camera controller (`EditsBetweenRenderings`), the controller refers to
the scene's camera, every frame is rendered with the camera it was begun with, and only a
start in the last moment of the previous rendering ends the process. The strengthening: a
camera that was replaced does not come back (`ReplacedForGood`), the camera controller lives as long as a rendering (`CameraControllerLives`), an end
that is still to be announced keeps the menus closed (`EndAnnounced`), the status passed
between the methods is a verdict (`VerdictReached`), and the state of the frame renderer
goes with the location (`RendererInStep`: a restart finds it stopped). `ContractIsKept`
joins the two sides: the frame renderers' proofs assume an owner that starts, stops and
destroys in turn, and the master renderer is one. `OverridesAreKept` is the positive side
of `studio_shading`: an override is lost only to a camera movement, whose request
overwrites its own, or when it is made between the reading of the parameters and the
beginning of the first frame (`OverridesDuringFrames` excludes both).

`AssemblyTreeProofs` proves, for any number of workers, assemblies, lines, edits and
failing builds, `CountsAccesses`, `NoDanglingAccess`, `TreesUpToDate` and
`BuiltOnce`. The invariant has two halves. One is about versions and disturbed by the
user and the master thread only; the other is about references and disturbed by the
workers, and by the master thread only when there are no intersectors. Counting is
done by lemmas on the cardinality of the set of places that refer to a tree, which
grows or shrinks by one with each access; `LookupInStep` says where a worker's lookup
is, `CachesCurrent` that caches refer to the tree of the current version. `ScenesFound`
is the positive side of `trees_edit`: if instances and assemblies are
placed and removed between renderings only, and no edit is half done when one begins
(`EditsBetweenRenderings`), no update misses an assembly, and no ray an instance or an
object that the trees refer to.

`DualStageCacheProofs` proves `Stage0WithinStage1`, `ExistingKeysAnswered` and
`MemoryAccounted` for all keys, hash functions, sizes and limits. A key is only entered in
its own line (`EntriesInLine`), so the eviction of stage 1 finds the copy in stage 0. The
memory of what is cached is the cardinality of a set of units (`Footprint`), so that a
load and an eviction change it by the size of one element. `AnswersWithoutThrow` is the
positive side of `cache_missing`: if no load throws, every key is answered with its own
element.

`BufferedFileProofs` proves `ClosedFileComplete` and the refinement `ImplementsFile`
for every buffer size and every sequence of calls, under the hypothesis that nobody
seeks while writing (`~WriteSeeks`): with such seeks they do not hold, see
`file_seek`. `ReadSeeksArrive`, under the same hypothesis, says that a seek while reading
arrives where it was told. `ReadInStep`, `WriteInStep` and `ClosedInStep` relate both
positions, the buffer and the disk in each mode.

Each inductive invariant was checked by TLC on the instance of its module before it was
proved. Only model-checked are:

* liveness (`WaitTerminates`, `StopReturns`, `RenderingTerminates`,
  `AbortEndsRendering`, `AccessReturns`, `CallsReturn`), which is out of the prover's
  reach, as is `ENABLED`;
* the violated runs, where TLC's counterexample is the result.

## What is not modelled

* Undefined behaviour of unsynchronised reads: the sample count that the
  statistics thread reads, the status word that `on_progress()` reads. They are
  words whose delay is covered by interleaving; torn values are not.
* `start_rendering()` failing in the middle (out of memory, no thread), and the
  destructor of a progressive renderer that was never started: an exception of
  `on_frame_begin()` (`masterrenderer.cpp:342`) leads to it, and it then joins a statistics
  thread that does not exist, through a null pointer. The runs destroy renderers that
  were started.
* Light paths without samples in the liveness properties: a generator none of whose
  paths yields a sample loops until it is aborted, by design. `StopReturns` and
  `RenderingTerminates` are checked where every index yields one sample, and
  `BlankPaths` bounds blank paths where only safety is checked.
* Crop windows; the samples of a pixel.
* The destruction of a dual-stage cache, whose stage 1 invalidates keys in a
  stage 0 that is already destroyed (`cache.h:677`).
* Cache lines of more than two ways, which use a timestamp; no cache of the
  program has them.
* Bounds on the memory of a cache. `is_full()` is asked before the size of the new
  element is known and one element makes room for it, so the limit is exceeded
  by design; and the LRU order of stage 1 does not see the hits of stage 0. The
  model shows both, but no property calls either wrong.
* The region trees of flushable assemblies; `update_child_trees()` failing between
  the deletion of a tree and the creation of its successor (`assemblytree.cpp:413`);
  how trees are built and traversed, which is floating point geometry.
* Text files, and errors of `fread()`; a flush that fails inside
  `seek()` while writing.
* The documents of the studio: opening, saving and closing a project
  (`can_close_project()` at `mainwindow.cpp:372` goes on after a save that failed or
  was cancelled; the camera controller stores its target without marking the
  project as changed, `cameracontroller.cpp:69`).
* Painting, the luminance and reference image statistics, timers, logs.
* Scene, entities and frame callbacks: their order is sequential, and
  `MasterRenderer` has their calls as steps. Project reader and writer: sequential
  input and output. Shading, lighting, sampling: floating point arithmetic. Command
  line renderer: a sequential call of `MasterRenderer`. Nearest neighbour search: a
  sequential search that only tests and benchmarks call.
* Vendored code under `src/` (HDF5, Xerces, OpenEXR, Alembic and others), which is most of its
  lines, and the numerical code of the renderer.

## Plan

Done: the pool with its contract; both frame renderers with theirs; the master
renderer and the studio; the cache; the assembly tree and its lazy objects; the
buffered file with its contract; the proofs above.

Left, in this order:

1. Failures inside `start_rendering()` of both renderers, and the destructor of a
   renderer that was never started.
2. The destruction of a dual-stage cache; flushable assemblies, whose region trees
   contain a second level of lazy trees.
3. The studio's documents: open, save, close and the dirty flag, beside a rendering.
