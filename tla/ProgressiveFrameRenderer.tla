---------------------- MODULE ProgressiveFrameRenderer ----------------------
(***************************************************************************)
(* renderer/kernel/rendering/progressive: sample generator jobs that keep  *)
(* rescheduling themselves until the sample budget is spent or the         *)
(* renderer is told to stop.  The job queue and the worker threads are     *)
(* those of WorkerPool: a job is run by whichever worker acquires it, and  *)
(* the master thread is the pool's owner.                                  *)
(*                                                                         *)
(* Samples are counted, their colors are not modelled.  The framebuffer is *)
(* either local (every stored sample counts) or global (light tracing: the *)
(* number of light paths is added to the count after the samples of these  *)
(* paths were stored, each under its own lock).                            *)
(***************************************************************************)
EXTENDS Integers, Sequences, FiniteSets

CONSTANTS ThreadCount,       \* m_thread_count: workers and sample generators
          NoJob,
          MaxSamples,        \* m_max_sample_count
          MinSampleCount, MaxSampleCount, MinSamplePassCount, SampleIncrement,
          SampleBatchSize,
          SamplesPerIndex,   \* what one sequence index may yield: {1}, or several or none
          GlobalFramebuffer, \* light tracing
          MayThrow,          \* generating samples may raise an exception
          Rounds,            \* bound: calls of start_rendering()
          BlankPaths         \* bound: paths of one job after which a path yields samples

ASSUME RendererAssumption ==
    /\ ThreadCount \in Nat \ {0}
    /\ {MaxSamples, MinSamplePassCount, SampleIncrement, Rounds, BlankPaths} \subseteq Nat
    /\ {MinSampleCount, MaxSampleCount, SampleBatchSize} \subseteq Nat \ {0}
    /\ SamplesPerIndex \subseteq Nat
    /\ SamplesPerIndex \ {0} # {}
    /\ 0 \in SamplesPerIndex => GlobalFramebuffer
    /\ {GlobalFramebuffer, MayThrow} \subseteq BOOLEAN

VARIABLES scheduled, running, object,
          created, owner, cursor,
          pc, aborted, held, executions,
          phase,        \* where the master thread is
          nextGen,      \* the loop variable of start_rendering()
          round,        \* how often start_rendering() was called
          abortSwitch,  \* m_abort_switch, shared with the jobs and the statistics thread
          reserved,     \* SampleCounter::m_sample_count
          step,         \* where each worker is in SampleGeneratorJob::execute()
          quota,        \* its sample_count
          stored,       \* stored_sample_count of generate_samples()
          paths,        \* m_light_sample_count
          seqIndex,     \* each generator's m_sequence_index
          batch,        \* each generator's m_current_batch_size
          buffer,       \* the framebuffer: samples in its tile, its m_sample_count
          frame,        \* the framebuffer as last developed to the frame
          stats         \* the statistics thread and its m_last_sample_count

Generator == 0 .. ThreadCount - 1
Worker == 1 .. ThreadCount

\* A job object is told apart by the rendering it belongs to, its generator and pass.
RenderJob == (1 .. Rounds) \X Generator \X (0 .. MaxSamples + 1)

ASSUME NoJobAssumption == NoJob \notin RenderJob

GeneratorOf(j) == j[2]
PassOf(j) == j[3]

Pool == INSTANCE WorkerPool WITH
            Job <- RenderJob, OwnedJob <- RenderJob, KeepRunning <- TRUE

poolVars == <<scheduled, running, object, created, owner, cursor,
              pc, aborted, held, executions>>
masterVars == <<phase, nextGen, round>>
jobVars == <<step, quota, stored, paths>>
generatorVars == <<seqIndex, batch>>
sampleVars == <<reserved, buffer, frame>>
vars == <<poolVars, masterVars, jobVars, generatorVars, sampleVars, abortSwitch, stats>>

EmptyBuffer == [samples |-> 0, count |-> 0]

Init ==
    /\ Pool!Init
    /\ phase = "off" /\ nextGen = 0 /\ round = 0
    /\ abortSwitch = FALSE
    /\ reserved = 0
    /\ step = [w \in Worker |-> "reserve"]
    /\ quota = [w \in Worker |-> 0]
    /\ stored = [w \in Worker |-> 0]
    /\ paths = [w \in Worker |-> 0]
    /\ seqIndex = [g \in Generator |-> g * SampleBatchSize]
    /\ batch = [g \in Generator |-> 0]
    /\ buffer = EmptyBuffer
    /\ frame = EmptyBuffer
    /\ stats = [thread |-> "none", last |-> 0]

-----------------------------------------------------------------------------
(* SampleGeneratorJob::execute(), run by worker w. *)

Minimum(a, b) == IF a <= b THEN a ELSE b

ComputeSampleCount(pass) ==
    IF pass < MinSamplePassCount
    THEN MinSampleCount
    ELSE Minimum(MinSampleCount + (pass - MinSamplePassCount + 1) * SampleIncrement,
                 MaxSampleCount)

At(w, s) == pc[w] = "execute" /\ step[w] = s

\* SampleCounter::reserve()
Reservation(pass) == Minimum(ComputeSampleCount(pass), MaxSamples - reserved)

\* Mutant: the job of the next pass is scheduled first.
RescheduleFirst(w) ==
    /\ At(w, "reserve")
    /\ Reservation(held[w][3]) > 0
    /\ Pool!ScheduleFromJob(w, <<held[w][1], held[w][2], held[w][3] + 1>>)
    /\ reserved' = reserved + Reservation(held[w][3])
    /\ quota' = [quota EXCEPT ![w] = Reservation(held[w][3])]
    /\ step' = [step EXCEPT ![w] = "generate"]
    /\ UNCHANGED <<masterVars, generatorVars, buffer, frame, stored, paths,
                   abortSwitch, stats>>

\* A job that gets no sample ends without a successor.
ReserveSamples(w) ==
    LET count == Reservation(held[w][3])
    IN  /\ At(w, "reserve")
        /\ reserved' = reserved + count
        /\ quota' = [quota EXCEPT ![w] = count]
        /\ step' = [step EXCEPT ![w] = IF count = 0 THEN "done" ELSE "generate"]
        /\ UNCHANGED <<poolVars, masterVars, generatorVars, buffer, frame, stored, paths,
                       abortSwitch, stats>>

BatchDone(g) == batch[g] + 1 = SampleBatchSize

\* Mutant: the stride is not added.
NextIndexWithoutStride(g) == seqIndex[g] + 1

\* m_sequence_index skips the batches of the other generators.
NextIndex(g) ==
    seqIndex[g] + 1 + IF BatchDone(g) THEN (ThreadCount - 1) * SampleBatchSize ELSE 0

\* Mutant: the loop ends with the batch, aborted or not.
LeavesAfterBatch(w, total) == total >= quota[w] \/ BatchDone(GeneratorOf(held[w]))

\* The abort switch is only looked at when a batch is complete.
LeavesLoop(w, total) ==
    \/ total >= quota[w]
    \/ BatchDone(GeneratorOf(held[w])) /\ abortSwitch

\* generate_samples() of one index, in light tracing a path that is counted as such.
PathsOfIndex == IF GlobalFramebuffer THEN 1 ELSE 0

\* One turn of the loop of SampleGeneratorBase::generate_samples().
GenerateSamples(w) ==
    LET g == GeneratorOf(held[w])
    IN  /\ At(w, "generate")
        /\ \E n \in SamplesPerIndex :
              /\ n > 0 \/ paths[w] < BlankPaths
              /\ stored' = [stored EXCEPT ![w] = @ + n]
              /\ step' = [step EXCEPT ![w] =
                             IF LeavesLoop(w, stored[w] + n) THEN "store" ELSE @]
        /\ paths' = [paths EXCEPT ![w] = @ + PathsOfIndex]
        /\ batch' = [batch EXCEPT ![g] = IF BatchDone(g) THEN 0 ELSE @ + 1]
        /\ seqIndex' = [seqIndex EXCEPT ![g] = NextIndex(g)]
        /\ UNCHANGED <<poolVars, masterVars, sampleVars, quota, abortSwitch, stats>>

\* An exception while generating: the samples are lost, the job ends.
ThrowInJob(w) ==
    /\ MayThrow
    /\ At(w, "generate")
    /\ step' = [step EXCEPT ![w] = "done"]
    /\ UNCHANGED <<poolVars, masterVars, generatorVars, sampleVars, quota, stored, paths,
                   abortSwitch, stats>>

\* LocalAccumulationFramebuffer::store_samples() counts what it adds to the pixels, that
\* of the global framebuffer does not.
StoredLocally(n) == [samples |-> buffer.samples + n, count |-> buffer.count + n]
StoredGlobally(n) == [buffer EXCEPT !.samples = @ + n]

\* framebuffer.store_samples(), under the framebuffer's lock.
StoreSamples(w) ==
    /\ At(w, "store")
    /\ buffer' = IF GlobalFramebuffer THEN StoredGlobally(stored[w])
                                      ELSE StoredLocally(stored[w])
    /\ step' = [step EXCEPT ![w] = IF GlobalFramebuffer THEN "count" ELSE "develop"]
    /\ UNCHANGED <<poolVars, masterVars, generatorVars, reserved, frame, quota, stored, paths,
                   abortSwitch, stats>>

\* Mutant: the samples are counted, not the paths.
CountSamplesAgain(w) ==
    /\ At(w, "count")
    /\ buffer' = [buffer EXCEPT !.count = @ + stored[w]]
    /\ step' = [step EXCEPT ![w] = "develop"]
    /\ UNCHANGED <<poolVars, masterVars, generatorVars, reserved, frame, quota, stored, paths,
                   abortSwitch, stats>>

\* GlobalAccumulationFramebuffer::increment_sample_count()
IncrementSampleCount(n) == buffer' = [buffer EXCEPT !.count = @ + n]

\* Light tracing counts its paths when generate_samples() has returned, under the lock
\* again.
CountPaths(w) ==
    /\ At(w, "count")
    /\ IncrementSampleCount(paths[w])
    /\ step' = [step EXCEPT ![w] = "develop"]
    /\ UNCHANGED <<poolVars, masterVars, generatorVars, reserved, frame, quota, stored, paths,
                   abortSwitch, stats>>

\* Mutant: RoundRobinRender is true.
RenderRoundRobin(w) ==
    /\ At(w, "develop")
    /\ frame' = IF held[w][3] % ThreadCount = GeneratorOf(held[w]) THEN buffer ELSE frame
    /\ step' = [step EXCEPT ![w] = "reschedule"]
    /\ UNCHANGED <<poolVars, masterVars, generatorVars, reserved, buffer, quota, stored, paths,
                   abortSwitch, stats>>

\* develop_to_frame(): the frame shows the samples, divided by the count (in the local
\* framebuffer, pixel by pixel).
DevelopToFrame == frame' = buffer

\* framebuffer.render_to_frame(), under the lock; RoundRobinRender is false.
RenderToFrame(w) ==
    /\ At(w, "develop")
    /\ DevelopToFrame
    /\ step' = [step EXCEPT ![w] = "reschedule"]
    /\ UNCHANGED <<poolVars, masterVars, generatorVars, reserved, buffer, quota, stored, paths,
                   abortSwitch, stats>>

\* if (!m_abort_switch.is_aborted())
TestSwitch(w) ==
    /\ At(w, "reschedule")
    /\ step' = [step EXCEPT ![w] = IF abortSwitch THEN "done" ELSE "schedule"]
    /\ UNCHANGED <<poolVars, masterVars, generatorVars, sampleVars, quota, stored, paths,
                   abortSwitch, stats>>

\* The job of the next pass is scheduled while this one is still running.
ScheduleNextPass(w) ==
    LET j == held[w]
    IN  /\ At(w, "schedule")
        /\ Pool!ScheduleFromJob(w, <<j[1], j[2], j[3] + 1>>)
        /\ step' = [step EXCEPT ![w] = "done"]
        /\ UNCHANGED <<masterVars, generatorVars, sampleVars, quota, stored, paths,
                       abortSwitch, stats>>

ReturnFromJob(w) ==
    /\ At(w, "done")
    /\ Pool!FinishExecution(w)
    /\ step' = [step EXCEPT ![w] = "reserve"]
    /\ quota' = [quota EXCEPT ![w] = 0]
    /\ stored' = [stored EXCEPT ![w] = 0]
    /\ paths' = [paths EXCEPT ![w] = 0]
    /\ UNCHANGED <<masterVars, generatorVars, sampleVars, abortSwitch, stats>>

JobStep(w) ==
    \/ ReserveSamples(w) \/ GenerateSamples(w) \/ StoreSamples(w) \/ CountPaths(w)
    \/ RenderToFrame(w) \/ TestSwitch(w) \/ ScheduleNextPass(w) \/ ReturnFromJob(w)

\* WorkerThread::run() around the job.
RunLoop(w) ==
    /\ \/ Pool!TestAbort(w) \/ Pool!AcquireJob(w) \/ Pool!FindQueueEmpty(w)
       \/ Pool!RetireJob(w) \/ Pool!DeleteJob(w)
    /\ UNCHANGED <<masterVars, jobVars, generatorVars, sampleVars, abortSwitch, stats>>

-----------------------------------------------------------------------------
(* The statistics thread. *)

StatisticsTestSwitch ==
    /\ stats.thread = "test"
    /\ stats' = [stats EXCEPT !.thread = IF abortSwitch THEN "exited" ELSE "read"]
    /\ UNCHANGED <<poolVars, masterVars, jobVars, generatorVars, sampleVars, abortSwitch>>

\* Once a second has passed it prints what was added since it last did.
StatisticsRead ==
    /\ stats.thread = "read"
    /\ \E last \in {stats.last, buffer.count} : stats' = [thread |-> "test", last |-> last]
    /\ UNCHANGED <<poolVars, masterVars, jobVars, generatorVars, sampleVars, abortSwitch>>

-----------------------------------------------------------------------------
(* The master thread: the methods of ProgressiveFrameRenderer. *)

MasterMoves(from, to) == phase = from /\ phase' = to

\* SampleGeneratorBase::reset() of every generator.
ResetGenerators ==
    /\ seqIndex' = [g \in Generator |-> g * SampleBatchSize]
    /\ batch' = [g \in Generator |-> 0]

\* start_rendering() up to its first loop over the generators.
StartRendering ==
    /\ MasterMoves("off", "scheduling")
    /\ round < Rounds
    /\ round' = round + 1
    /\ nextGen' = 0
    /\ abortSwitch' = FALSE
    /\ buffer' = EmptyBuffer
    /\ reserved' = 0
    /\ ResetGenerators
    /\ UNCHANGED <<poolVars, jobVars, frame, stats>>

ScheduleFirstPass ==
    /\ MasterMoves("scheduling", IF nextGen = ThreadCount - 1 THEN "launching" ELSE "scheduling")
    /\ Pool!OwnerSchedule(<<round, nextGen, 0>>)
    /\ nextGen' = nextGen + 1
    /\ UNCHANGED <<round, jobVars, generatorVars, sampleVars, abortSwitch, stats>>

StartPool ==
    /\ MasterMoves("launching", "started")
    /\ Pool!CallStart
    /\ UNCHANGED <<nextGen, round, jobVars, generatorVars, sampleVars,
                   abortSwitch, stats>>

\* JobManager::start() has returned.
StartStatistics ==
    /\ MasterMoves("started", "rendering")
    /\ owner = "idle"
    /\ stats' = [thread |-> "test", last |-> 0]
    /\ UNCHANGED <<poolVars, nextGen, round, jobVars, generatorVars, sampleVars,
                   abortSwitch>>

\* Mutant: jobs that are running are overlooked.
EndsWithEmptyQueue ==
    /\ MasterMoves("rendering", "ended")
    /\ scheduled = <<>>
    /\ UNCHANGED <<poolVars, nextGen, round, jobVars, generatorVars, sampleVars,
                   abortSwitch, stats>>

\* is_rendering() returns false, or wait_until_completion() returns in render().
RenderingEnds ==
    /\ MasterMoves("rendering", "ended")
    /\ ~Pool!HasScheduledOrRunningJobs
    /\ UNCHANGED <<poolVars, nextGen, round, jobVars, generatorVars, sampleVars,
                   abortSwitch, stats>>

\* stop_rendering() or terminate_rendering().
StopRendering ==
    /\ MasterMoves("rendering", "stopping")
    /\ abortSwitch' = TRUE
    /\ UNCHANGED <<poolVars, nextGen, round, jobVars, generatorVars, sampleVars, stats>>

StopPool ==
    /\ MasterMoves("stopping", "clearing")
    /\ Pool!CallStop
    /\ UNCHANGED <<nextGen, round, jobVars, generatorVars, sampleVars,
                   abortSwitch, stats>>

\* Mutant: the jobs left over stay in the queue.
ClearForgotten ==
    /\ MasterMoves("clearing", "joining")
    /\ owner = "idle"
    /\ UNCHANGED <<poolVars, nextGen, round, jobVars, generatorVars, sampleVars,
                   abortSwitch, stats>>

\* JobManager::stop() has returned: the jobs left over are deleted.
ClearJobs ==
    /\ MasterMoves("clearing", "joining")
    /\ Pool!OwnerClear
    /\ UNCHANGED <<nextGen, round, jobVars, generatorVars, sampleVars,
                   abortSwitch, stats>>

\* Mutant: the statistics thread is not joined.
JoinForgotten ==
    /\ MasterMoves("joining", "off")
    /\ UNCHANGED <<poolVars, nextGen, round, jobVars, generatorVars, sampleVars,
                   abortSwitch, stats>>

JoinStatistics ==
    /\ MasterMoves("joining", "off")
    /\ stats.thread = "exited"
    /\ stats' = [stats EXCEPT !.thread = "none"]
    /\ UNCHANGED <<poolVars, nextGen, round, jobVars, generatorVars, sampleVars,
                   abortSwitch>>

\* The destructor, called once rendering has ended or was stopped.
BeginDestruction ==
    /\ \/ MasterMoves("ended", "releasing")
       \/ round > 0 /\ MasterMoves("off", "releasing")
    /\ abortSwitch' = TRUE
    /\ UNCHANGED <<poolVars, nextGen, round, jobVars, generatorVars, sampleVars, stats>>

\* The statistics thread is joined and the sample generators are released.
ReleaseGenerators ==
    /\ MasterMoves("releasing", "released")
    /\ stats.thread \in {"exited", "none"}
    /\ stats' = [stats EXCEPT !.thread = "none"]
    /\ UNCHANGED <<poolVars, nextGen, round, jobVars, generatorVars, sampleVars, abortSwitch>>

\* ~JobManager stops the workers that a natural end has left running, then ~JobQueue.
DestroyPool ==
    /\ \/ MasterMoves("released", "released") /\ Pool!CallStop
       \/ MasterMoves("released", "gone") /\ Pool!Destroy
    /\ UNCHANGED <<nextGen, round, jobVars, generatorVars, sampleVars,
                   abortSwitch, stats>>

\* The steps JobManager::start() and stop() go on with.
PoolCallProgress ==
    /\ \E w \in Worker : Pool!StartWorker(w) \/ Pool!StopWorker(w) \/ Pool!JoinWorker(w)
    /\ UNCHANGED <<masterVars, jobVars, generatorVars, sampleVars, abortSwitch, stats>>

MasterProgress ==
    \/ ScheduleFirstPass \/ StartPool \/ StartStatistics \/ RenderingEnds
    \/ StopPool \/ ClearJobs \/ JoinStatistics
    \/ ReleaseGenerators \/ DestroyPool
    \/ PoolCallProgress

MasterCall == StartRendering \/ StopRendering \/ BeginDestruction

StatisticsStep == StatisticsTestSwitch \/ StatisticsRead

WorkerRuns(w) == RunLoop(w) \/ JobStep(w)

Next ==
    \/ \E w \in Worker : WorkerRuns(w) \/ ThrowInJob(w)
    \/ StatisticsStep
    \/ MasterProgress
    \/ MasterCall

Spec == Init /\ [][Next]_vars

\* Every thread is scheduled, and a master thread inside a method goes on.  When to
\* start, stop or destroy the renderer is the caller's choice.
Fairness ==
    /\ \A w \in Worker : WF_vars(WorkerRuns(w))
    /\ WF_vars(StatisticsStep)
    /\ WF_vars(MasterProgress)

FairSpec == Spec /\ Fairness

-----------------------------------------------------------------------------
(* Properties. *)

RendererTypeOK ==
    /\ phase \in {"off", "scheduling", "launching", "started", "rendering", "ended",
                  "stopping", "clearing", "joining", "releasing", "released", "gone"}
    /\ nextGen \in 0 .. ThreadCount /\ round \in 0 .. Rounds
    /\ abortSwitch \in BOOLEAN
    /\ reserved \in Nat
    /\ step \in [Worker -> {"reserve", "generate", "store", "count", "develop",
                            "reschedule", "schedule", "done"}]
    /\ {quota, stored, paths} \subseteq [Worker -> Nat]
    /\ {seqIndex, batch} \subseteq [Generator -> Nat]
    /\ {buffer, frame} \subseteq [samples : Nat, count : Nat]
    /\ stats \in [thread : {"none", "test", "read", "exited"}, last : Nat]

TypeOK == Pool!TypeOK /\ RendererTypeOK

UsesGenerator(w) == pc[w] = "execute" /\ step[w] \in {"generate", "store", "count"}

\* A sample generator has no lock of its own.  No two workers are ever inside the same
\* one, although its next job is queued while the previous job still executes.
GeneratorExclusive ==
    \A v, w \in Worker :
        UsesGenerator(v) /\ UsesGenerator(w) /\ v # w
            => GeneratorOf(held[v]) # GeneratorOf(held[w])

\* The generators share out one sample sequence in batches: the next index of a
\* generator always lies in a batch of its own, so no index is drawn twice.
SequencesInterleave ==
    \A g \in Generator :
        /\ (seqIndex[g] \div SampleBatchSize) % ThreadCount = g
        /\ seqIndex[g] % SampleBatchSize = batch[g]

\* "maximum total number of samples to store in the framebuffer"
\* (progressiveframerenderer.cpp:248): never more, and a rendering that ends by itself
\* has stored no less.  No reservation is cut wrongly or lost between SampleCounter, a
\* job and its successor.
BudgetSpent ==
    /\ buffer.samples <= MaxSamples
    /\ phase = "ended" => buffer.count = MaxSamples

\* develop_to_frame() divides by the sample count, also in a job cut short by an abort.
DevelopedCountIsPositive ==
    \A w \in Worker : At(w, "develop") => buffer.count > 0

\* Once no job is left, the frame shows everything that was stored, whichever worker
\* developed it last and whichever jobs failed.
FrameIsFinal ==
    phase \in {"ended", "clearing", "joining", "off"} /\ ~Pool!HasScheduledOrRunningJobs
        /\ owner = "idle" /\ buffer # EmptyBuffer
        => frame = buffer

\* "assert(!m_job_queue.has_scheduled_or_running_jobs())" (progressiveframerenderer.cpp:174):
\* no job survives stop_rendering(), which a restart follows.
StartsWithNoJob == phase = "off" => ~Pool!HasScheduledOrRunningJobs

\* No worker is in a generator that the destructor has released.
ReleasedGeneratorsUnused ==
    phase \in {"released", "gone"} => \A w \in Worker : ~UsesGenerator(w)

\* The statistics thread subtracts unsigned counts: the framebuffer is never cleared
\* under a thread that remembers a larger count.
StatisticsNeverGoBack ==
    stats.thread \in {"test", "read"} => stats.last <= buffer.count

(* What the properties above and ImplementsFrameRenderer rest on. *)

\* Which calls of the job manager the master thread can be in, and since when the worker
\* threads are there.
MasterInStep ==
    /\ phase # "off" => round > 0
    /\ phase = "scheduling" => nextGen < ThreadCount
    /\ phase \in {"off", "scheduling", "launching", "joining"} => owner = "idle" /\ ~created
    /\ phase \in {"rendering", "ended", "stopping", "releasing"} => owner = "idle"
    /\ phase = "started" => owner \in {"starting", "idle"}
    /\ phase = "clearing" => owner \in {"stopping", "joining"} \/ (owner = "idle" /\ ~created)
    /\ phase = "released" => owner \in {"idle", "stopping", "joining"}

\* When there is no job, scheduled or running.
NoJobLeft ==
    phase \in {"off", "joining", "ended", "releasing", "released", "gone"} =>
        ~Pool!HasScheduledOrRunningJobs

\* When there may be a statistics thread.
StatisticsInStep ==
    stats.thread # "none" =>
        phase \in {"rendering", "ended", "stopping", "clearing", "joining", "releasing"}

\* The worker runs a job that may still schedule its successor.
Active(w) == pc[w] = "execute" /\ step[w] # "done"

\* There is one job per generator, scheduled or active; the master thread has scheduled
\* those of the generators before nextGen.
OneJobPerGenerator ==
    /\ \A i, j \in DOMAIN scheduled :
          GeneratorOf(scheduled[i]) = GeneratorOf(scheduled[j]) => i = j
    /\ \A w \in Worker : Active(w) =>
          /\ \A i \in DOMAIN scheduled : GeneratorOf(scheduled[i]) # GeneratorOf(held[w])
          /\ \A v \in Worker : Active(v) /\ GeneratorOf(held[v]) = GeneratorOf(held[w]) => v = w
    /\ phase = "scheduling" =>
          \A i \in DOMAIN scheduled : GeneratorOf(scheduled[i]) < nextGen

\* Every pass before that of a job has reserved a sample, so passes are as bounded as the
\* budget.
PassesReserved ==
    /\ reserved <= MaxSamples
    /\ \A i \in DOMAIN scheduled : PassOf(scheduled[i]) <= reserved
    /\ \A w \in Worker : Active(w) =>
          /\ PassOf(held[w]) <= reserved
          /\ step[w] # "reserve" => PassOf(held[w]) < reserved

\* What a job has done so far.
JobInStep(w) ==
    /\ pc[w] # "execute" => step[w] = "reserve"
    /\ step[w] = "count" => GlobalFramebuffer
    /\ step[w] \in {"store", "count"} =>
          IF GlobalFramebuffer THEN paths[w] > 0 ELSE stored[w] > 0

JobsInStep == \A w \in Worker : JobInStep(w)

\* Whoever has stored or counted samples has still to develop them.
BufferDeveloped ==
    \/ frame = buffer
    \/ buffer = EmptyBuffer
    \/ \E w \in Worker : At(w, "count") \/ At(w, "develop")

RInv ==
    /\ RendererTypeOK
    /\ MasterInStep
    /\ NoJobLeft
    /\ StatisticsInStep
    /\ StatisticsNeverGoBack
    /\ OneJobPerGenerator
    /\ PassesReserved
    /\ JobsInStep
    /\ BufferDeveloped
    /\ DevelopedCountIsPositive
    /\ SequencesInterleave

(* What BudgetSpent rests on, when an index yields one sample at most. *)

\* The samples that a worker has reserved and may still store.
Unstored(w) == CASE At(w, "generate") -> quota[w]
                 [] At(w, "store") -> stored[w]
                 [] OTHER -> 0

\* These samples, one element for each.
PendingSamples == UNION {{w} \X (1 .. Unstored(w)) : w \in Worker}

\* How far the loop of generate_samples() is.
LoopInStep(w) ==
    /\ step[w] = "reserve" => stored[w] = 0
    /\ At(w, "generate") => stored[w] < quota[w]
    /\ At(w, "store") => stored[w] <= quota[w] /\ (abortSwitch \/ stored[w] = quota[w])

\* Whatever was stored was reserved, and what was reserved is stored or on its way,
\* unless jobs are aborted or fail.
SamplesReserved ==
    /\ buffer.samples + Cardinality(PendingSamples) <= reserved
    /\ ~abortSwitch /\ ~MayThrow =>
          buffer.samples + Cardinality(PendingSamples) = reserved
    /\ ~GlobalFramebuffer => buffer.count = buffer.samples

\* While some budget is left there is a job to reserve it.
BudgetPursued ==
    /\ phase \in {"scheduling", "launching", "started", "rendering", "ended"} => ~abortSwitch
    /\ ~MayThrow /\ reserved < MaxSamples =>
          /\ phase = "scheduling" /\ nextGen > 0 => scheduled # <<>>
          /\ phase \in {"launching", "started", "rendering"} =>
                scheduled # <<>> \/ \E w \in Worker : Active(w)
          /\ phase # "ended"

BudgetInv ==
    /\ \A w \in Worker : LoopInStep(w)
    /\ SamplesReserved
    /\ BudgetPursued

Promised == INSTANCE FrameRenderer WITH
    image <- frame,
    mode  <- CASE phase = "off" -> IF round = 0 THEN "ready" ELSE "stopped"
               [] phase \in {"scheduling", "launching", "started"} -> "rendering"
               [] phase \in {"releasing", "released", "gone"} -> "gone"
               [] OTHER -> IF Pool!HasScheduledOrRunningJobs THEN "rendering" ELSE "finished"

\* The progressive frame renderer keeps the promises of IFrameRenderer: no job develops
\* the frame once is_rendering() is false, and no job that reschedules itself makes it
\* true again.
ImplementsFrameRenderer == Promised!FrameRendererSpec

\* stop_rendering() returns, whatever the jobs and the statistics thread are doing.
StopReturns == phase \in {"stopping", "clearing", "joining"} ~> phase = "off"

\* Left alone, rendering ends when the budget is spent (every index yields a sample).
RenderingTerminates == phase = "rendering" ~> phase # "rendering"

=============================================================================
