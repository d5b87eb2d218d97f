-------------------- MODULE ProgressiveFrameRendererProofs --------------------
(***************************************************************************)
(* The inductive invariant of ProgressiveFrameRenderer, on top of that of  *)
(* the worker pool it instantiates, and what follows from it, for any      *)
(* number of workers, any budget, any sizes of passes and batches and both *)
(* kinds of framebuffer.                                                   *)
(***************************************************************************)
EXTENDS ProgressiveFrameRenderer, FiniteSetTheorems, TLAPS

W == INSTANCE WorkerPoolProofs WITH
         Job <- RenderJob, OwnedJob <- RenderJob, KeepRunning <- TRUE

-----------------------------------------------------------------------------
(* The renderer's steps are steps of the pool. *)

\* The constants of the renderer meet the assumptions of the pool.
LEMMA PoolConstants == W!JobAssumption /\ W!PoolAssumption
BY NoJobAssumption, RendererAssumption DEF W!JobAssumption, W!PoolAssumption

\* What the renderer needs to know of the pool.
PoolFacts ==
    /\ scheduled \in Seq(RenderJob)
    /\ created \in BOOLEAN
    /\ pc \in [Worker -> {"none", "test", "acquire", "exited", "execute", "retire", "delete"}]
    /\ held \in [Worker -> RenderJob \cup {NoJob}]
    /\ \A w \in Worker : pc[w] = "execute" => held[w] \in RenderJob /\ held[w] \in running
    /\ ~created => running = {} /\ \A w \in Worker : pc[w] = "none"

\* The invariant of the pool says so.
LEMMA PoolFactsHold == W!IInv => PoolFacts
<1>. SUFFICES ASSUME W!IInv PROVE PoolFacts
  OBVIOUS
<1>1. Worker = W!Worker
  BY DEF Worker, W!Worker
<1>2. W!TypeOK /\ W!QueueTypeOK /\ W!QueueStates /\ W!HeldWhileHolding /\ W!LoopsInStep
  BY DEF W!IInv, W!TypeOK
<1>3. /\ scheduled \in Seq(RenderJob) /\ created \in BOOLEAN
      /\ held \in [Worker -> RenderJob \cup {NoJob}]
      /\ pc \in [Worker -> {"none", "test", "acquire", "exited", "execute", "retire", "delete"}]
  BY <1>1, <1>2 DEF W!TypeOK, W!QueueTypeOK, W!Located, W!Holding
<1>4. ASSUME NEW w \in Worker, pc[w] = "execute"
      PROVE  held[w] \in RenderJob /\ held[w] \in running
  BY <1>1, <1>2, <1>3, <1>4 DEF W!HeldWhileHolding, W!Holding, W!QueueStates, W!Executing
<1>5. ASSUME ~created PROVE running = {} /\ \A w \in Worker : pc[w] = "none"
  BY <1>1, <1>2, <1>5 DEF W!LoopsInStep, W!QueueStates, W!Executing
<1>. QED  BY <1>3, <1>4, <1>5 DEF PoolFacts

\* A step of run() in the renderer is one in the pool.
LEMMA WorkerStepInPool ==
    ASSUME NEW w \in Worker, RunLoop(w) \/ ReturnFromJob(w)
    PROVE  W!WorkerStep(w)
<1>. USE DEF Pool!queueVars, W!queueVars, Pool!managerVars, W!managerVars,
             Pool!Goto, W!Goto
<1>1. Pool!TestAbort(w) \/ Pool!FindQueueEmpty(w) \/ Pool!FinishExecution(w) => W!WorkerStep(w)
  BY DEF W!WorkerStep, Pool!TestAbort, W!TestAbort, Pool!FindQueueEmpty, W!FindQueueEmpty,
         Pool!FinishExecution, W!FinishExecution
<1>2. Pool!AcquireJob(w) => W!WorkerStep(w)
  BY DEF W!WorkerStep, Pool!AcquireJob, W!AcquireJob,
         Pool!AcquireScheduledJob, W!AcquireScheduledJob
<1>3. Pool!RetireJob(w) => W!WorkerStep(w)
  BY DEF W!WorkerStep, Pool!RetireJob, W!RetireJob, Pool!EraseRunningJob, W!EraseRunningJob
<1>4. Pool!DeleteJob(w) => W!WorkerStep(w)
  BY DEF W!WorkerStep, Pool!DeleteJob, W!DeleteJob, Pool!DeleteRetiredJob, W!DeleteRetiredJob,
         Pool!DeleteOwned, W!DeleteOwned
<1>. QED  BY <1>1, <1>2, <1>3, <1>4 DEF RunLoop, ReturnFromJob

\* So is a step of JobManager::start() or stop(), and so are the calls of the master.
LEMMA OwnerStepInPool ==
    /\ PoolCallProgress => W!OwnerProgress
    /\ Pool!CallStart => W!OwnerCall
    /\ Pool!CallStop => W!OwnerCall
    /\ Pool!OwnerClear => W!OwnerCall
    /\ Pool!Destroy => W!OwnerCall
    /\ \A j \in RenderJob : Pool!OwnerSchedule(j) => W!OwnerCall
    /\ \A w \in Worker, j \in RenderJob : Pool!ScheduleFromJob(w, j) => W!ScheduleFromJob(w, j)
<1>. USE DEF Pool!queueVars, W!queueVars, Pool!managerVars, W!managerVars,
             Pool!workerVars, W!workerVars, Pool!Goto, W!Goto, Pool!NextWorker, W!NextWorker
<1>1. PoolCallProgress => W!OwnerProgress
  <2>1. ASSUME NEW w \in Worker, Pool!StartWorker(w) PROVE W!StartWorker(w)
    BY <2>1 DEF Pool!StartWorker, W!StartWorker
  <2>2. ASSUME NEW w \in Worker, Pool!StopWorker(w) PROVE W!StopWorker(w)
    BY <2>2 DEF Pool!StopWorker, W!StopWorker
  <2>3. ASSUME NEW w \in Worker, Pool!JoinWorker(w) PROVE W!JoinWorker(w)
    BY <2>3 DEF Pool!JoinWorker, W!JoinWorker
  <2>. QED  BY <2>1, <2>2, <2>3 DEF PoolCallProgress, W!OwnerProgress, Worker, W!Worker
<1>2. Pool!CallStart \/ Pool!CallStop => W!OwnerCall
  BY DEF Pool!CallStart, W!CallStart, Pool!CallStop, W!CallStop, W!OwnerCall
<1>3. Pool!OwnerClear \/ Pool!Destroy => W!OwnerCall
  BY DEF Pool!OwnerClear, W!OwnerClear, Pool!Destroy, W!Destroy, W!OwnerCall,
         Pool!ClearScheduledJobs, W!ClearScheduledJobs, Pool!DeleteOwned, W!DeleteOwned,
         Pool!Range, W!Range
<1>4. ASSUME NEW j \in RenderJob, Pool!OwnerSchedule(j) PROVE W!OwnerCall
  BY <1>4 DEF Pool!OwnerSchedule, W!OwnerSchedule, Pool!Schedule, W!Schedule, W!OwnerCall
<1>5. ASSUME NEW w \in Worker, NEW j \in RenderJob, Pool!ScheduleFromJob(w, j)
      PROVE  W!ScheduleFromJob(w, j)
  BY <1>5 DEF Pool!ScheduleFromJob, W!ScheduleFromJob, Pool!Schedule, W!Schedule
<1>. QED  BY <1>1, <1>2, <1>3, <1>4, <1>5

\* The job of the next pass is one of RenderJob: its pass is bounded by the budget.
LEMMA NextPassBounded ==
    ASSUME RInv, PoolFacts, NEW w \in Worker, At(w, "schedule")
    PROVE  <<held[w][1], held[w][2], held[w][3] + 1>> \in RenderJob
<1>1. held[w] \in RenderJob
  BY DEF PoolFacts, At
<1>2. PassOf(held[w]) < reserved /\ reserved <= MaxSamples /\ reserved \in Nat
  BY DEF RInv, PassesReserved, RendererTypeOK, Active, At
<1>3. held[w][1] \in 1 .. Rounds /\ held[w][2] \in Generator /\ held[w][3] \in 0 .. MaxSamples + 1
  BY <1>1 DEF RenderJob
<1>4. held[w][3] + 1 \in 0 .. MaxSamples + 1
  BY <1>2, <1>3, RendererAssumption DEF PassOf
<1>. QED  BY <1>3, <1>4 DEF RenderJob

\* The job that start_rendering() schedules next is one of RenderJob.
LEMMA FirstPassBounded ==
    ASSUME RInv, phase = "scheduling"
    PROVE  /\ <<round, nextGen, 0>> \in RenderJob
           /\ nextGen \in Generator
<1>1. round \in 1 .. Rounds
  BY RendererAssumption DEF RInv, RendererTypeOK, MasterInStep
<1>2. nextGen \in Generator
  BY RendererAssumption DEF RInv, RendererTypeOK, MasterInStep, Generator
<1>3. 0 \in 0 .. MaxSamples + 1
  BY RendererAssumption
<1>. QED  BY <1>1, <1>2, <1>3 DEF RenderJob

\* Every step of the renderer is a step of the pool or leaves it alone, so the pool's
\* invariant holds in the renderer.
LEMMA PoolStep ==
    ASSUME RInv, W!IInv, [Next]_vars
    PROVE  W!IInv'
<1>. USE PoolConstants
<1>0. PoolFacts
  BY PoolFactsHold
<1>1. ASSUME UNCHANGED poolVars PROVE W!IInv'
  <2>1. UNCHANGED W!vars
    BY <1>1 DEF poolVars, W!vars, W!queueVars, W!managerVars, W!workerVars
  <2>. QED  BY <2>1, W!NextIInv
<1>2. ASSUME NEW w \in Worker, WorkerRuns(w) \/ ThrowInJob(w) PROVE W!IInv'
  <2>1. CASE RunLoop(w) \/ ReturnFromJob(w)
    <3>1. W!WorkerStep(w) /\ w \in W!Worker
      BY <2>1, WorkerStepInPool DEF Worker, W!Worker
    <3>. QED  BY <3>1, W!NextIInv DEF W!Next
  <2>2. CASE ScheduleNextPass(w)
    <3>1. PICK j : j = <<held[w][1], held[w][2], held[w][3] + 1>>
      OBVIOUS
    <3>2. At(w, "schedule") /\ Pool!ScheduleFromJob(w, j)
      BY <2>2, <3>1 DEF ScheduleNextPass
    <3>3. j \in RenderJob
      BY <1>0, <3>1, <3>2, NextPassBounded
    <3>4. W!ScheduleFromJob(w, j) /\ w \in W!Worker
      BY <3>2, <3>3, OwnerStepInPool DEF Worker, W!Worker
    <3>. QED  BY <3>3, <3>4, W!NextIInv DEF W!Next
  <2>3. CASE ReserveSamples(w) \/ GenerateSamples(w) \/ StoreSamples(w) \/ CountPaths(w)
    BY <2>3, <1>1 DEF ReserveSamples, GenerateSamples, StoreSamples, CountPaths
  <2>4. CASE RenderToFrame(w) \/ TestSwitch(w) \/ ThrowInJob(w)
    BY <2>4, <1>1 DEF RenderToFrame, TestSwitch, ThrowInJob
  <2>. QED  BY <1>2, <2>1, <2>2, <2>3, <2>4 DEF WorkerRuns, JobStep
<1>3. CASE StatisticsStep
  BY <1>3, <1>1 DEF StatisticsStep, StatisticsTestSwitch, StatisticsRead
<1>4. CASE MasterProgress
  <2>1. CASE ScheduleFirstPass
    <3>1. <<round, nextGen, 0>> \in RenderJob /\ Pool!OwnerSchedule(<<round, nextGen, 0>>)
      BY <2>1, FirstPassBounded DEF ScheduleFirstPass, MasterMoves
    <3>. QED  BY <3>1, OwnerStepInPool, W!NextIInv DEF W!Next
  <2>2. CASE StartPool \/ StopPool \/ ClearJobs \/ DestroyPool
    <3>1. Pool!CallStart \/ Pool!CallStop \/ Pool!OwnerClear \/ Pool!Destroy
      BY <2>2 DEF StartPool, StopPool, ClearJobs, DestroyPool
    <3>. QED  BY <3>1, OwnerStepInPool, W!NextIInv DEF W!Next
  <2>3. CASE PoolCallProgress
    BY <2>3, OwnerStepInPool, W!NextIInv DEF W!Next
  <2>4. CASE StartStatistics \/ RenderingEnds \/ JoinStatistics \/ ReleaseGenerators
    BY <2>4, <1>1 DEF StartStatistics, RenderingEnds, JoinStatistics, ReleaseGenerators
  <2>. QED  BY <1>4, <2>1, <2>2, <2>3, <2>4 DEF MasterProgress
<1>5. CASE MasterCall
  BY <1>5, <1>1 DEF MasterCall, StartRendering, StopRendering, BeginDestruction
<1>6. CASE UNCHANGED vars
  BY <1>6, <1>1 DEF vars
<1>. QED  BY <1>2, <1>3, <1>4, <1>5, <1>6 DEF Next

-----------------------------------------------------------------------------
(* Steps that leave the jobs alone. *)

\* No job is scheduled, started, finished or continued; the scheduled jobs may be deleted.
JobsUntouched ==
    /\ UNCHANGED <<step, stored, paths, seqIndex, batch, reserved, buffer, frame>>
    /\ scheduled' = scheduled \/ scheduled' = <<>>
    /\ \A w \in Worker : /\ pc'[w] = "execute" <=> pc[w] = "execute"
                         /\ pc[w] = "execute" => held'[w] = held[w]

\* The parts of the invariant that are about jobs.
JobsInv ==
    /\ OneJobPerGenerator
    /\ PassesReserved
    /\ JobsInStep
    /\ BufferDeveloped
    /\ DevelopedCountIsPositive
    /\ SequencesInterleave

\* Such a step preserves them.
LEMMA JobsUntouchedStep ==
    ASSUME JobsInv, JobsUntouched,
           phase' = "scheduling" => phase = "scheduling" /\ nextGen' = nextGen
    PROVE  JobsInv'
<1>. USE DEF JobsInv, JobsUntouched
<1>1. \A w \in Worker : (Active(w))' = Active(w)
  BY DEF Active
<1>2. /\ DOMAIN scheduled' \subseteq DOMAIN scheduled
      /\ \A i \in DOMAIN scheduled' : scheduled'[i] = scheduled[i]
  OBVIOUS
<1>3. OneJobPerGenerator'
  BY <1>1, <1>2 DEF OneJobPerGenerator, Active
<1>4. PassesReserved'
  BY <1>1, <1>2 DEF PassesReserved, Active
<1>5. JobsInStep'
  BY DEF JobsInStep, JobInStep
<1>6. BufferDeveloped' /\ DevelopedCountIsPositive'
  BY DEF BufferDeveloped, DevelopedCountIsPositive, At
<1>7. SequencesInterleave'
  BY DEF SequencesInterleave
<1>. QED  BY <1>3, <1>4, <1>5, <1>6, <1>7

\* A step of the worker threads or of the statistics thread, as far as the master thread
\* can tell.
MasterUntouched ==
    /\ UNCHANGED <<phase, nextGen, round, owner, created>>
    /\ ~Pool!HasScheduledOrRunningJobs => ~Pool!HasScheduledOrRunningJobs'
    /\ stats'.thread = "none" <=> stats.thread = "none"

\* The parts of the invariant that are about the master thread.
MasterInv == MasterInStep /\ NoJobLeft /\ StatisticsInStep

\* Such a step preserves them.
LEMMA MasterUntouchedStep ==
    ASSUME MasterInv, MasterUntouched
    PROVE  MasterInv'
<1>. USE DEF MasterInv, MasterUntouched
<1>1. MasterInStep'
  BY DEF MasterInStep
<1>2. NoJobLeft'
  BY DEF NoJobLeft
<1>3. StatisticsInStep'
  BY DEF StatisticsInStep
<1>. QED  BY <1>1, <1>2, <1>3

\* The invariant in these two halves.
LEMMA Halves ==
    /\ RInv <=> RendererTypeOK /\ StatisticsNeverGoBack /\ MasterInv /\ JobsInv
    /\ RInv' <=> RendererTypeOK' /\ StatisticsNeverGoBack' /\ MasterInv' /\ JobsInv'
BY DEF RInv, MasterInv, JobsInv

-----------------------------------------------------------------------------
(* WorkerThread::run() around the job. *)

\* Acquiring a job moves it from the queue to the worker.
LEMMA AcquireKeeps ==
    ASSUME JobsInv, PoolFacts, PoolFacts', NEW w \in Worker, RunLoop(w), Pool!AcquireJob(w)
    PROVE  JobsInv'
<1>. USE DEF JobsInv, jobVars, generatorVars, sampleVars, masterVars
<1>. DEFINE j == Head(scheduled)
<1>1. /\ scheduled # <<>> /\ scheduled' = Tail(scheduled)
      /\ pc[w] = "acquire" /\ pc' = [pc EXCEPT ![w] = "execute"]
      /\ held' = [held EXCEPT ![w] = j]
      /\ UNCHANGED <<step, stored, paths, seqIndex, batch, reserved, buffer, frame, phase, nextGen>>
  BY DEF RunLoop, Pool!AcquireJob, Pool!Goto, Pool!AcquireScheduledJob
<1>2. /\ 1 \in DOMAIN scheduled /\ j = scheduled[1]
      /\ \A i \in DOMAIN scheduled' : /\ i + 1 \in DOMAIN scheduled /\ i + 1 # 1 /\ i \in Nat
                                      /\ scheduled'[i] = scheduled[i + 1]
  BY <1>1 DEF PoolFacts
<1>3. \A v \in Worker : /\ v # w => pc'[v] = pc[v] /\ held'[v] = held[v]
                        /\ pc'[w] = "execute" /\ held'[w] = j
  BY <1>1 DEF PoolFacts
<1>4. step[w] = "reserve"
  BY <1>1 DEF JobsInStep, JobInStep
<1>5. \A v \in Worker \ {w} : (Active(v))' = Active(v)
  BY <1>1, <1>3 DEF Active
<1>6. OneJobPerGenerator'
  <2>1. \A i, k \in DOMAIN scheduled' :
           GeneratorOf(scheduled'[i]) = GeneratorOf(scheduled'[k]) => i = k
    BY <1>2 DEF OneJobPerGenerator
  <2>2. \A i \in DOMAIN scheduled' : GeneratorOf(scheduled'[i]) # GeneratorOf(j)
    BY <1>2 DEF OneJobPerGenerator
  <2>3. \A v \in Worker \ {w} : Active(v) => GeneratorOf(held[v]) # GeneratorOf(j)
    BY <1>2 DEF OneJobPerGenerator
  <2>4. \A v \in Worker : (Active(v))' =>
           /\ \A i \in DOMAIN scheduled' : GeneratorOf(scheduled'[i]) # GeneratorOf(held'[v])
           /\ \A u \in Worker : (Active(u))' /\ GeneratorOf(held'[u]) = GeneratorOf(held'[v])
                 => u = v
    BY <1>2, <1>3, <1>5, <2>2, <2>3 DEF OneJobPerGenerator
  <2>5. phase' = "scheduling" => \A i \in DOMAIN scheduled' : GeneratorOf(scheduled'[i]) < nextGen'
    BY <1>1, <1>2 DEF OneJobPerGenerator
  <2>. QED  BY <2>1, <2>4, <2>5 DEF OneJobPerGenerator
<1>7. PassesReserved'
  <2>1. \A i \in DOMAIN scheduled' : PassOf(scheduled'[i]) <= reserved'
    BY <1>1, <1>2 DEF PassesReserved
  <2>2. \A v \in Worker : (Active(v))' =>
           /\ PassOf(held'[v]) <= reserved'
           /\ step'[v] # "reserve" => PassOf(held'[v]) < reserved'
    BY <1>1, <1>2, <1>3, <1>4, <1>5 DEF PassesReserved
  <2>. QED  BY <1>1, <2>1, <2>2 DEF PassesReserved
<1>8. JobsInStep'
  BY <1>1, <1>3, <1>4 DEF JobsInStep, JobInStep
<1>9. BufferDeveloped' /\ DevelopedCountIsPositive'
  BY <1>1, <1>3, <1>4 DEF BufferDeveloped, DevelopedCountIsPositive, At
<1>10. SequencesInterleave'
  BY <1>1 DEF SequencesInterleave
<1>. QED  BY <1>6, <1>7, <1>8, <1>9, <1>10

\* The rest of run() changes nothing that the invariant is about, except that a job may
\* leave the running list.
LEMMA RunLoopKeeps ==
    ASSUME RInv, PoolFacts, PoolFacts', NEW w \in Worker, RunLoop(w)
    PROVE  RInv'
<1>. USE Halves
<1>1. UNCHANGED <<phase, nextGen, round, owner, created, step, quota, stored, paths, seqIndex,
                  batch, reserved, buffer, frame, abortSwitch, stats>>
  BY DEF RunLoop, masterVars, jobVars, generatorVars, sampleVars, Pool!TestAbort,
         Pool!AcquireJob, Pool!FindQueueEmpty, Pool!RetireJob, Pool!DeleteJob, Pool!managerVars
<1>2. RendererTypeOK'
  BY <1>1 DEF RendererTypeOK
<1>3. StatisticsNeverGoBack'
  BY <1>1 DEF StatisticsNeverGoBack
<1>4. MasterInv'
  <2>1. ~Pool!HasScheduledOrRunningJobs => ~Pool!HasScheduledOrRunningJobs'
    BY DEF RunLoop, Pool!HasScheduledOrRunningJobs, Pool!TestAbort, Pool!AcquireJob,
           Pool!AcquireScheduledJob, Pool!FindQueueEmpty, Pool!RetireJob, Pool!EraseRunningJob,
           Pool!DeleteJob, Pool!DeleteRetiredJob, Pool!queueVars
  <2>. QED  BY <1>1, <2>1, MasterUntouchedStep DEF MasterUntouched
<1>5. JobsInv'
  <2>1. CASE Pool!AcquireJob(w)
    BY <2>1, AcquireKeeps
  <2>2. CASE Pool!TestAbort(w) \/ Pool!FindQueueEmpty(w)
    BY <2>2, <1>1, JobsUntouchedStep
       DEF JobsUntouched, Pool!TestAbort, Pool!FindQueueEmpty, Pool!Goto, Pool!queueVars, PoolFacts
  <2>3. CASE Pool!RetireJob(w)
    BY <2>3, <1>1, JobsUntouchedStep
       DEF JobsUntouched, Pool!RetireJob, Pool!EraseRunningJob, Pool!Goto, PoolFacts
  <2>4. CASE Pool!DeleteJob(w)
    BY <2>4, <1>1, JobsUntouchedStep
       DEF JobsUntouched, Pool!DeleteJob, Pool!DeleteRetiredJob, Pool!Goto, PoolFacts
  <2>. QED  BY <2>1, <2>2, <2>3, <2>4 DEF RunLoop
<1>. QED  BY <1>2, <1>3, <1>4, <1>5

-----------------------------------------------------------------------------
(* SampleGeneratorJob::execute(). *)

\* A step of a job that neither schedules a successor nor returns.
WithinJob(w) ==
    /\ pc[w] = "execute"
    /\ UNCHANGED <<poolVars, masterVars, abortSwitch, stats>>
    /\ \A v \in Worker \ {w} : /\ step'[v] = step[v]
                               /\ paths'[v] = paths[v]
                               /\ stored'[v] = stored[v]

\* It leaves the master's half of the invariant alone.
LEMMA WithinJobMaster ==
    ASSUME MasterInv, NEW w \in Worker, WithinJob(w)
    PROVE  MasterInv'
<1>1. MasterUntouched
  BY DEF WithinJob, MasterUntouched, poolVars, masterVars, Pool!HasScheduledOrRunningJobs
<1>. QED  BY <1>1, MasterUntouchedStep

\* As long as it makes no reservation and does not begin anew, it leaves the jobs where
\* they are.
LEMMA WithinJobQueue ==
    ASSUME OneJobPerGenerator, PassesReserved, NEW w \in Worker, WithinJob(w),
           UNCHANGED reserved, step[w] \notin {"reserve", "done"}
    PROVE  OneJobPerGenerator' /\ PassesReserved'
<1>1. \A v \in Worker : (Active(v))' => Active(v)
  BY DEF WithinJob, Active, poolVars
<1>2. UNCHANGED <<scheduled, held, phase, nextGen, pc>>
  BY DEF WithinJob, poolVars, masterVars
<1>3. OneJobPerGenerator'
  BY <1>1, <1>2 DEF OneJobPerGenerator
<1>4. \A v \in Worker : (Active(v))' /\ step'[v] # "reserve" => step[v] # "reserve"
  BY DEF WithinJob
<1>5. PassesReserved'
  BY <1>1, <1>2, <1>4 DEF PassesReserved
<1>. QED  BY <1>3, <1>5

\* A reservation is a number of samples that the budget still has, none only once it has
\* none.
LEMMA ReservationBounds ==
    ASSUME RendererTypeOK, reserved <= MaxSamples, NEW p \in Nat
    PROVE  /\ Reservation(p) \in 0 .. MaxSamples - reserved
           /\ reserved < MaxSamples => Reservation(p) > 0
<1>1. /\ {MaxSamples, MinSamplePassCount, SampleIncrement} \subseteq Nat
      /\ {MinSampleCount, MaxSampleCount} \subseteq Nat \ {0}
      /\ reserved \in Nat
  BY RendererAssumption DEF RendererTypeOK
<1>2. ComputeSampleCount(p) \in Nat \ {0}
  <2>1. CASE p < MinSamplePassCount
    BY <1>1, <2>1 DEF ComputeSampleCount
  <2>2. CASE ~(p < MinSamplePassCount)
    <3>. DEFINE more == (p - MinSamplePassCount + 1) * SampleIncrement
    <3>1. more \in Nat
      BY <1>1, <2>2
    <3>2. ComputeSampleCount(p) = Minimum(MinSampleCount + more, MaxSampleCount)
      BY <2>2 DEF ComputeSampleCount
    <3>. HIDE DEF more
    <3>. QED  BY <1>1, <3>1, <3>2 DEF Minimum
  <2>. QED  BY <2>1, <2>2
<1>. HIDE DEF ComputeSampleCount
<1>. QED  BY <1>1, <1>2 DEF Reservation, Minimum

\* A reservation keeps within the budget and counts the pass.
LEMMA ReserveKeeps ==
    ASSUME RInv, PoolFacts, NEW w \in Worker, ReserveSamples(w)
    PROVE  RInv'
<1>. USE Halves
<1>. DEFINE count == Reservation(held[w][3])
<1>1. /\ At(w, "reserve")
      /\ reserved' = reserved + count
      /\ quota' = [quota EXCEPT ![w] = count]
      /\ step' = [step EXCEPT ![w] = IF count = 0 THEN "done" ELSE "generate"]
      /\ UNCHANGED <<poolVars, masterVars, generatorVars, buffer, frame, stored, paths,
                     abortSwitch, stats>>
  BY DEF ReserveSamples
<1>2. held[w] \in RenderJob /\ held[w][3] \in Nat
  BY <1>1, RendererAssumption DEF PoolFacts, At, RenderJob
<1>3. reserved \in Nat /\ reserved <= MaxSamples /\ MaxSamples \in Nat
  BY RendererAssumption DEF JobsInv, PassesReserved, RendererTypeOK
<1>4. count \in 0 .. MaxSamples - reserved
  BY <1>2, <1>3, ReservationBounds
<1>. HIDE DEF count
<1>5. /\ reserved' \in Nat /\ reserved' <= MaxSamples /\ reserved <= reserved'
      /\ count # 0 => reserved < reserved'
  BY <1>1, <1>3, <1>4
<1>6. step' \in [Worker -> {"done", "generate", "reserve", "store", "count", "develop",
                            "reschedule", "schedule"}]
  BY <1>1 DEF RendererTypeOK
<1>7. RendererTypeOK'
  <2>1. quota' \in [Worker -> Nat]
    BY <1>1, <1>4 DEF RendererTypeOK
  <2>. QED  BY <1>1, <1>5, <1>6, <2>1 DEF RendererTypeOK, masterVars, generatorVars
<1>8. StatisticsNeverGoBack'
  BY <1>1 DEF StatisticsNeverGoBack
<1>9. WithinJob(w)
  BY <1>1 DEF WithinJob, At, RendererTypeOK
<1>10. MasterInv'
  BY <1>9, WithinJobMaster
<1>11. UNCHANGED <<scheduled, held, phase, nextGen, pc, stored, paths, seqIndex, batch,
                   buffer, frame>>
  BY <1>1 DEF poolVars, masterVars, generatorVars
<1>12. step[w] = "reserve" /\ step'[w] = (IF count = 0 THEN "done" ELSE "generate")
       /\ \A v \in Worker \ {w} : step'[v] = step[v]
  BY <1>1 DEF At, RendererTypeOK
<1>13. \A v \in Worker : (Active(v))' => Active(v)
  BY <1>11, <1>12 DEF Active
<1>14. OneJobPerGenerator'
  BY <1>11, <1>13 DEF JobsInv, OneJobPerGenerator
<1>15. PassesReserved'
  <2>1. \A v \in Worker : Active(v) => PassOf(held[v]) \in Nat
    BY RendererAssumption DEF PoolFacts, Active, RenderJob, PassOf
  <2>2. \A i \in DOMAIN scheduled : PassOf(scheduled[i]) \in Nat
    <3>1. \A i \in DOMAIN scheduled : scheduled[i] \in RenderJob
      BY DEF PoolFacts
    <3>. QED  BY <3>1, RendererAssumption DEF RenderJob, PassOf
  <2>3. \A i \in DOMAIN scheduled' : PassOf(scheduled'[i]) <= reserved'
    BY <1>3, <1>5, <1>11, <2>2 DEF JobsInv, PassesReserved
  <2>4. \A v \in Worker : (Active(v))' =>
           /\ PassOf(held'[v]) <= reserved'
           /\ step'[v] # "reserve" => PassOf(held'[v]) < reserved'
    <3>1. SUFFICES ASSUME NEW v \in Worker, (Active(v))'
                   PROVE  /\ PassOf(held'[v]) <= reserved'
                          /\ step'[v] # "reserve" => PassOf(held'[v]) < reserved'
      OBVIOUS
    <3>2. /\ Active(v) /\ PassOf(held[v]) <= reserved /\ PassOf(held[v]) \in Nat
          /\ held'[v] = held[v]
      BY <1>11, <1>13, <2>1, <3>1 DEF JobsInv, PassesReserved
    <3>3. CASE v = w
      BY <1>3, <1>5, <1>12, <3>1, <3>2, <3>3 DEF Active
    <3>4. CASE v # w
      BY <1>3, <1>5, <1>12, <3>2, <3>4 DEF JobsInv, PassesReserved
    <3>. QED  BY <3>3, <3>4
  <2>. QED  BY <1>5, <2>3, <2>4 DEF PassesReserved
<1>16. JobsInStep'
  BY <1>1, <1>11, <1>12 DEF JobsInv, JobsInStep, JobInStep, At
<1>17. BufferDeveloped' /\ DevelopedCountIsPositive'
  BY <1>11, <1>12 DEF JobsInv, BufferDeveloped, DevelopedCountIsPositive, At
<1>18. SequencesInterleave'
  BY <1>11 DEF JobsInv, SequencesInterleave
<1>19. JobsInv'
  BY <1>14, <1>15, <1>16, <1>17, <1>18 DEF JobsInv
<1>. QED  BY <1>7, <1>8, <1>10, <1>19

\* Quotient and remainder put a number together again.
LEMMA DivMod ==
    ASSUME NEW a \in Nat, NEW b \in Nat \ {0}
    PROVE  /\ a \div b \in Nat /\ a % b \in 0 .. b - 1
           /\ a = b * (a \div b) + (a % b)
OBVIOUS

\* The multiples of a number are that number apart.
LEMMA MultiplesApart ==
    ASSUME NEW b \in Nat \ {0}, NEW p \in Nat, NEW q \in Nat, p < q
    PROVE  b * q >= b * p + b
<1>1. PICK d \in Nat : q = p + 1 + d
  BY SMT
<1>2. b * q = b * p + b + b * d
  BY <1>1, SMT
<1>3. b * d \in Nat
  BY SMT
<1>. QED  BY <1>2, <1>3

\* A quotient and a remainder below the divisor that put a number together are its own.
LEMMA DivUnique ==
    ASSUME NEW b \in Nat \ {0}, NEW q \in Nat, NEW r \in 0 .. b - 1, NEW a \in Nat,
           a = b * q + r
    PROVE  a \div b = q /\ a % b = r
<1>. DEFINE p == a \div b
            s == a % b
<1>1. p \in Nat /\ s \in 0 .. b - 1 /\ a = b * p + s
  BY DivMod
<1>. HIDE DEF p, s
<1>2. b * p \in Nat /\ b * q \in Nat
  BY <1>1
<1>3. CASE p < q
  <2>1. b * q >= b * p + b
    BY <1>1, <1>3, MultiplesApart
  <2>. QED  BY <2>1, <1>1, <1>2
<1>4. CASE q < p
  <2>1. b * p >= b * q + b
    BY <1>1, <1>4, MultiplesApart
  <2>. QED  BY <2>1, <1>1, <1>2
<1>5. CASE p = q
  <2>1. r = s
    BY <1>5, <1>1, <1>2
  <2>. QED  BY <1>5, <2>1 DEF p, s
<1>. QED  BY <1>3, <1>4, <1>5, <1>1

\* Counting on inside a batch keeps its number; counting on from its last index over the
\* T - 1 batches that follow leads to the first index of a batch whose number is the same
\* modulo T.
LEMMA NextInBatch ==
    ASSUME NEW B \in Nat \ {0}, NEW T \in Nat \ {0}, NEW n \in Nat
    PROVE  /\ (n % B) + 1 # B => (n + 1) \div B = n \div B /\ (n + 1) % B = (n % B) + 1
           /\ (n % B) + 1 = B => LET m == n + 1 + (T - 1) * B
                                 IN  m \in Nat /\ (m \div B) % T = (n \div B) % T /\ m % B = 0
<1>. DEFINE q == n \div B
            r == n % B
            k == q \div T
            g == q % T
<1>1. q \in Nat /\ r \in 0 .. B - 1 /\ n = B * q + r
  BY DivMod
<1>2. k \in Nat /\ g \in 0 .. T - 1 /\ q = T * k + g
  BY <1>1, DivMod
<1>. HIDE DEF q, r, k, g
<1>3. ASSUME r + 1 # B PROVE (n + 1) \div B = q /\ (n + 1) % B = r + 1
  <2>1. n + 1 \in Nat /\ r + 1 \in 0 .. B - 1
    BY <1>1, <1>3
  <2>2. n + 1 = B * q + (r + 1)
    BY <1>1, <1>3
  <2>. QED  BY <1>1, <2>1, <2>2, DivUnique
<1>4. ASSUME r + 1 = B
      PROVE  LET m == n + 1 + (T - 1) * B
             IN  m \in Nat /\ (m \div B) % T = g /\ m % B = 0
  <2>. DEFINE m == n + 1 + (T - 1) * B
              p == q + T
  <2>1. p \in Nat /\ m \in Nat /\ 0 \in 0 .. B - 1 /\ k + 1 \in Nat
    BY <1>1, <1>2
  <2>2. m = B * q + B + (T - 1) * B
    BY <1>1, <1>4
  <2>3. B * q + B + (T - 1) * B = B * p
    BY <1>1, <1>2, SMT
  <2>4. m = B * p + 0
    BY <2>1, <2>2, <2>3
  <2>5. p = T * (k + 1) + g
    BY <1>1, <1>2, SMT
  <2>. HIDE DEF m, p
  <2>6. m \div B = p /\ m % B = 0
    BY <2>1, <2>4, DivUnique
  <2>7. p % T = g
    BY <2>1, <2>5, <1>2, DivUnique
  <2>. QED  BY <2>1, <2>6, <2>7 DEF m
<1>. QED  BY <1>3, <1>4 DEF r, q, g

\* An index in the batch of a generator is followed by one in the same batch or by the
\* first one of its next batch, the batches of the other generators left out.
LEMMA NextIndexInOwnBatch ==
    ASSUME SequencesInterleave, RendererTypeOK, NEW g \in Generator
    PROVE  LET next == IF BatchDone(g) THEN 0 ELSE batch[g] + 1
           IN  /\ NextIndex(g) \in Nat
               /\ next \in Nat
               /\ (NextIndex(g) \div SampleBatchSize) % ThreadCount = g
               /\ NextIndex(g) % SampleBatchSize = next
<1>1. /\ SampleBatchSize \in Nat \ {0} /\ ThreadCount \in Nat \ {0}
      /\ seqIndex[g] \in Nat /\ batch[g] \in Nat
  BY RendererAssumption DEF RendererTypeOK
<1>2. /\ (seqIndex[g] \div SampleBatchSize) % ThreadCount = g
      /\ seqIndex[g] % SampleBatchSize = batch[g]
  BY DEF SequencesInterleave
<1>3. CASE ~BatchDone(g)
  <2>1. NextIndex(g) = seqIndex[g] + 1 /\ NextIndex(g) \in Nat
    BY <1>1, <1>3 DEF NextIndex
  <2>2. /\ (seqIndex[g] + 1) \div SampleBatchSize = seqIndex[g] \div SampleBatchSize
        /\ (seqIndex[g] + 1) % SampleBatchSize = batch[g] + 1
    <3>1. (seqIndex[g] % SampleBatchSize) + 1 # SampleBatchSize
      BY <1>2, <1>3 DEF BatchDone
    <3>2. /\ (seqIndex[g] + 1) \div SampleBatchSize = seqIndex[g] \div SampleBatchSize
          /\ (seqIndex[g] + 1) % SampleBatchSize = (seqIndex[g] % SampleBatchSize) + 1
      BY <1>1, <3>1, NextInBatch
    <3>. QED  BY <1>2, <3>2
  <2>. QED  BY <1>1, <1>2, <1>3, <2>1, <2>2
<1>4. CASE BatchDone(g)
  <2>. DEFINE m == seqIndex[g] + 1 + (ThreadCount - 1) * SampleBatchSize
  <2>1. NextIndex(g) = m
    BY <1>4 DEF NextIndex
  <2>2. m \in Nat /\ (m \div SampleBatchSize) % ThreadCount = g /\ m % SampleBatchSize = 0
    BY ZenonT(60), <1>1, <1>2, <1>4, NextInBatch DEF BatchDone
  <2>. QED  BY <1>4, <2>1, <2>2
<1>. QED  BY <1>3, <1>4

\* Drawing one index keeps the generator in its own batches, and the job leaves the loop
\* with a sample, or in light tracing with a path.
LEMMA GenerateKeeps ==
    ASSUME RInv, PoolFacts, NEW w \in Worker, GenerateSamples(w)
    PROVE  RInv'
<1>. USE Halves
<1>. DEFINE g == GeneratorOf(held[w])
<1>1. /\ At(w, "generate")
      /\ paths' = [paths EXCEPT ![w] = @ + PathsOfIndex]
      /\ batch' = [batch EXCEPT ![g] = IF BatchDone(g) THEN 0 ELSE @ + 1]
      /\ seqIndex' = [seqIndex EXCEPT ![g] = NextIndex(g)]
      /\ UNCHANGED <<poolVars, masterVars, sampleVars, quota, abortSwitch, stats>>
  BY DEF GenerateSamples
<1>2. PICK n \in SamplesPerIndex :
          /\ stored' = [stored EXCEPT ![w] = @ + n]
          /\ step' = [step EXCEPT ![w] = IF LeavesLoop(w, stored[w] + n) THEN "store" ELSE @]
  BY DEF GenerateSamples
<1>3. n \in Nat /\ (n = 0 => GlobalFramebuffer)
  BY RendererAssumption
<1>4. g \in Generator
  BY <1>1 DEF PoolFacts, At, RenderJob, GeneratorOf
<1>. HIDE DEF g
<1>5. /\ stored \in [Worker -> Nat] /\ paths \in [Worker -> Nat]
      /\ batch \in [Generator -> Nat] /\ seqIndex \in [Generator -> Nat]
      /\ step[w] = "generate" /\ step'[w] \in {"store", "generate"}
      /\ pc[w] = "execute"
      /\ \A v \in Worker \ {w} : step'[v] = step[v] /\ stored'[v] = stored[v] /\ paths'[v] = paths[v]
      /\ stored'[w] = stored[w] + n /\ paths'[w] = paths[w] + PathsOfIndex
  BY <1>1, <1>2 DEF RendererTypeOK, At
<1>6. PathsOfIndex \in Nat /\ (GlobalFramebuffer => PathsOfIndex > 0)
  BY DEF PathsOfIndex
<1>7. /\ NextIndex(g) \in Nat
      /\ (IF BatchDone(g) THEN 0 ELSE batch[g] + 1) \in Nat
      /\ (NextIndex(g) \div SampleBatchSize) % ThreadCount = g
      /\ NextIndex(g) % SampleBatchSize = IF BatchDone(g) THEN 0 ELSE batch[g] + 1
  BY <1>4, NextIndexInOwnBatch DEF JobsInv
<1>8. RendererTypeOK'
  <2>1. stored' \in [Worker -> Nat] /\ paths' \in [Worker -> Nat]
    BY <1>1, <1>2, <1>3, <1>5, <1>6
  <2>2. seqIndex' \in [Generator -> Nat] /\ batch' \in [Generator -> Nat]
    BY <1>1, <1>5, <1>7
  <2>3. step' \in [Worker -> {"reserve", "generate", "store", "count", "develop",
                              "reschedule", "schedule", "done"}]
    BY <1>2 DEF RendererTypeOK
  <2>. QED  BY <1>1, <2>1, <2>2, <2>3 DEF RendererTypeOK, masterVars, sampleVars
<1>9. WithinJob(w)
  BY <1>1, <1>5 DEF WithinJob
<1>10. MasterInv'
  BY <1>9, WithinJobMaster
<1>11. StatisticsNeverGoBack'
  BY <1>1 DEF StatisticsNeverGoBack, sampleVars
<1>12. UNCHANGED <<reserved, buffer, frame, pc>>
  BY <1>1 DEF sampleVars, poolVars
<1>13. OneJobPerGenerator' /\ PassesReserved'
  BY <1>5, <1>9, <1>12, WithinJobQueue DEF JobsInv
<1>14. JobsInStep'
  <2>1. JobInStep(w)'
    <3>1. IF GlobalFramebuffer THEN paths'[w] > 0 ELSE stored'[w] > 0
      BY <1>3, <1>5, <1>6
    <3>. QED  BY <1>5, <1>12, <3>1 DEF JobInStep
  <2>2. \A v \in Worker \ {w} : JobInStep(v)'
    BY <1>5, <1>12 DEF JobsInv, JobsInStep, JobInStep
  <2>. QED  BY <2>1, <2>2 DEF JobsInStep
<1>15. BufferDeveloped' /\ DevelopedCountIsPositive'
  BY <1>5, <1>12 DEF JobsInv, BufferDeveloped, DevelopedCountIsPositive, At
<1>16. SequencesInterleave'
  <2>1. \A h \in Generator \ {g} : seqIndex'[h] = seqIndex[h] /\ batch'[h] = batch[h]
    BY <1>1, <1>4, <1>5
  <2>2. seqIndex'[g] = NextIndex(g) /\ batch'[g] = IF BatchDone(g) THEN 0 ELSE batch[g] + 1
    BY <1>1, <1>4, <1>5
  <2>. QED  BY <1>7, <2>1, <2>2 DEF JobsInv, SequencesInterleave
<1>17. JobsInv'
  BY <1>13, <1>14, <1>15, <1>16 DEF JobsInv
<1>. QED  BY <1>8, <1>10, <1>11, <1>17

\* Storing leaves something to develop and, if nothing has still to be counted, a
\* positive count.
LEMMA StoreKeeps ==
    ASSUME RInv, PoolFacts, NEW w \in Worker, StoreSamples(w)
    PROVE  RInv'
<1>. USE Halves
<1>1. /\ At(w, "store")
      /\ buffer' = IF GlobalFramebuffer THEN StoredGlobally(stored[w]) ELSE StoredLocally(stored[w])
      /\ step' = [step EXCEPT ![w] = IF GlobalFramebuffer THEN "count" ELSE "develop"]
      /\ UNCHANGED <<poolVars, masterVars, generatorVars, reserved, frame, quota, stored, paths,
                     abortSwitch, stats>>
  BY DEF StoreSamples
<1>2. /\ pc[w] = "execute" /\ step[w] = "store"
      /\ step'[w] = (IF GlobalFramebuffer THEN "count" ELSE "develop")
      /\ \A v \in Worker \ {w} : step'[v] = step[v]
  BY <1>1 DEF RendererTypeOK, At
<1>3. UNCHANGED <<pc, stored, paths, seqIndex, batch, reserved, frame>>
  BY <1>1 DEF poolVars, generatorVars
<1>4. /\ buffer.samples \in Nat /\ buffer.count \in Nat
      /\ buffer' \in [samples : Nat, count : Nat]
      /\ buffer'.count = IF GlobalFramebuffer THEN buffer.count ELSE buffer.count + stored[w]
      /\ stored[w] \in Nat /\ stats.last \in Nat
  BY <1>1 DEF RendererTypeOK, StoredGlobally, StoredLocally
<1>5. RendererTypeOK'
  BY <1>1, <1>4 DEF RendererTypeOK, masterVars, generatorVars
<1>6. StatisticsNeverGoBack'
  BY <1>1, <1>4 DEF StatisticsNeverGoBack
<1>7. WithinJob(w)
  BY <1>1, <1>2 DEF WithinJob
<1>8. MasterInv'
  BY <1>7, WithinJobMaster
<1>9. OneJobPerGenerator' /\ PassesReserved'
  BY <1>2, <1>3, <1>7, WithinJobQueue DEF JobsInv
<1>10. JobsInStep'
  BY <1>2, <1>3 DEF JobsInv, JobsInStep, JobInStep
<1>11. BufferDeveloped'
  BY <1>2, <1>3 DEF BufferDeveloped, At
<1>12. DevelopedCountIsPositive'
  <2>1. ~GlobalFramebuffer => stored[w] > 0
    BY <1>2 DEF JobsInv, JobsInStep, JobInStep
  <2>. QED  BY <1>2, <1>3, <1>4, <2>1 DEF JobsInv, DevelopedCountIsPositive, At
<1>13. SequencesInterleave'
  BY <1>3 DEF JobsInv, SequencesInterleave
<1>14. JobsInv'
  BY <1>9, <1>10, <1>11, <1>12, <1>13 DEF JobsInv
<1>. QED  BY <1>5, <1>6, <1>8, <1>14

\* Counting the paths of a job makes the count positive.
LEMMA CountKeeps ==
    ASSUME RInv, PoolFacts, NEW w \in Worker, CountPaths(w)
    PROVE  RInv'
<1>. USE Halves
<1>1. /\ At(w, "count")
      /\ buffer' = [buffer EXCEPT !.count = @ + paths[w]]
      /\ step' = [step EXCEPT ![w] = "develop"]
      /\ UNCHANGED <<poolVars, masterVars, generatorVars, reserved, frame, quota, stored, paths,
                     abortSwitch, stats>>
  BY DEF CountPaths, IncrementSampleCount
<1>2. /\ pc[w] = "execute" /\ step[w] = "count" /\ step'[w] = "develop"
      /\ \A v \in Worker \ {w} : step'[v] = step[v]
  BY <1>1 DEF RendererTypeOK, At
<1>3. UNCHANGED <<pc, stored, paths, seqIndex, batch, reserved, frame>>
  BY <1>1 DEF poolVars, generatorVars
<1>4. /\ buffer' \in [samples : Nat, count : Nat] /\ buffer.count \in Nat
      /\ buffer'.count = buffer.count + paths[w]
      /\ paths[w] \in Nat /\ paths[w] > 0 /\ stats.last \in Nat
  BY <1>1, <1>2 DEF RendererTypeOK, JobsInv, JobsInStep, JobInStep
<1>5. RendererTypeOK'
  BY <1>1, <1>4 DEF RendererTypeOK, masterVars, generatorVars
<1>6. StatisticsNeverGoBack'
  BY <1>1, <1>4 DEF StatisticsNeverGoBack
<1>7. WithinJob(w)
  BY <1>1, <1>2 DEF WithinJob
<1>8. MasterInv'
  BY <1>7, WithinJobMaster
<1>9. OneJobPerGenerator' /\ PassesReserved'
  BY <1>2, <1>3, <1>7, WithinJobQueue DEF JobsInv
<1>10. JobsInStep'
  BY <1>2, <1>3 DEF JobsInv, JobsInStep, JobInStep
<1>11. BufferDeveloped'
  BY <1>2, <1>3 DEF BufferDeveloped, At
<1>12. DevelopedCountIsPositive'
  BY <1>2, <1>3, <1>4 DEF JobsInv, DevelopedCountIsPositive, At
<1>13. SequencesInterleave'
  BY <1>3 DEF JobsInv, SequencesInterleave
<1>14. JobsInv'
  BY <1>9, <1>10, <1>11, <1>12, <1>13 DEF JobsInv
<1>. QED  BY <1>5, <1>6, <1>8, <1>14

\* Developing makes the frame show the framebuffer.
LEMMA DevelopKeeps ==
    ASSUME RInv, PoolFacts, NEW w \in Worker, RenderToFrame(w)
    PROVE  RInv'
<1>. USE Halves
<1>1. /\ At(w, "develop")
      /\ frame' = buffer
      /\ step' = [step EXCEPT ![w] = "reschedule"]
      /\ UNCHANGED <<poolVars, masterVars, generatorVars, reserved, buffer, quota, stored, paths,
                     abortSwitch, stats>>
  BY DEF RenderToFrame, DevelopToFrame
<1>2. /\ pc[w] = "execute" /\ step[w] = "develop" /\ step'[w] = "reschedule"
      /\ \A v \in Worker \ {w} : step'[v] = step[v]
  BY <1>1 DEF RendererTypeOK, At
<1>3. UNCHANGED <<pc, stored, paths, seqIndex, batch, reserved, buffer>>
  BY <1>1 DEF poolVars, generatorVars
<1>4. RendererTypeOK'
  BY <1>1 DEF RendererTypeOK, masterVars, generatorVars
<1>5. StatisticsNeverGoBack'
  BY <1>1 DEF StatisticsNeverGoBack
<1>6. WithinJob(w)
  BY <1>1, <1>2 DEF WithinJob
<1>7. MasterInv'
  BY <1>6, WithinJobMaster
<1>8. OneJobPerGenerator' /\ PassesReserved'
  BY <1>2, <1>3, <1>6, WithinJobQueue DEF JobsInv
<1>9. JobsInStep'
  BY <1>2, <1>3 DEF JobsInv, JobsInStep, JobInStep
<1>10. BufferDeveloped' /\ DevelopedCountIsPositive'
  BY <1>1, <1>2, <1>3 DEF JobsInv, BufferDeveloped, DevelopedCountIsPositive, At
<1>11. SequencesInterleave'
  BY <1>3 DEF JobsInv, SequencesInterleave
<1>12. JobsInv'
  BY <1>8, <1>9, <1>10, <1>11 DEF JobsInv
<1>. QED  BY <1>4, <1>5, <1>7, <1>12

\* Looking at the abort switch and throwing only move the job on.
LEMMA MoveOnKeeps ==
    ASSUME RInv, PoolFacts, NEW w \in Worker, TestSwitch(w) \/ ThrowInJob(w)
    PROVE  RInv'
<1>. USE Halves
<1>1. /\ pc[w] = "execute" /\ step[w] \in {"reschedule", "generate"}
      /\ step' = [step EXCEPT ![w] = IF step[w] = "reschedule" /\ ~abortSwitch
                                     THEN "schedule" ELSE "done"]
      /\ UNCHANGED <<poolVars, masterVars, generatorVars, sampleVars, quota, stored, paths,
                     abortSwitch, stats>>
  BY DEF TestSwitch, ThrowInJob, At
<1>2. /\ step'[w] \in {"schedule", "done"}
      /\ \A v \in Worker \ {w} : step'[v] = step[v]
  BY <1>1 DEF RendererTypeOK
<1>3. UNCHANGED <<pc, stored, paths, seqIndex, batch, reserved, buffer, frame>>
  BY <1>1 DEF poolVars, generatorVars, sampleVars
<1>4. RendererTypeOK'
  BY <1>1 DEF RendererTypeOK, masterVars, generatorVars, sampleVars
<1>5. StatisticsNeverGoBack'
  BY <1>1 DEF StatisticsNeverGoBack, sampleVars
<1>6. WithinJob(w)
  BY <1>1, <1>2 DEF WithinJob
<1>7. MasterInv'
  BY <1>6, WithinJobMaster
<1>8. OneJobPerGenerator' /\ PassesReserved'
  BY <1>1, <1>3, <1>6, WithinJobQueue DEF JobsInv
<1>9. JobsInStep'
  BY <1>1, <1>2, <1>3 DEF JobsInv, JobsInStep, JobInStep
<1>10. BufferDeveloped' /\ DevelopedCountIsPositive'
  BY <1>1, <1>2, <1>3 DEF JobsInv, BufferDeveloped, DevelopedCountIsPositive, At
<1>11. SequencesInterleave'
  BY <1>3 DEF JobsInv, SequencesInterleave
<1>12. JobsInv'
  BY <1>8, <1>9, <1>10, <1>11 DEF JobsInv
<1>. QED  BY <1>4, <1>5, <1>7, <1>12

\* What push_back() does to the list of jobs.
LEMMA Appended ==
    ASSUME NEW S, NEW s \in Seq(S), NEW e \in S
    PROVE  /\ DOMAIN Append(s, e) = DOMAIN s \cup {Len(s) + 1}
           /\ Len(s) + 1 \notin DOMAIN s
           /\ \A i \in DOMAIN s : Append(s, e)[i] = s[i]
           /\ Append(s, e)[Len(s) + 1] = e
OBVIOUS

\* The successor takes the place of the job that schedules it.
LEMMA ScheduleNextKeeps ==
    ASSUME RInv, PoolFacts, PoolFacts', NEW w \in Worker, ScheduleNextPass(w)
    PROVE  RInv'
<1>. USE Halves
<1>. DEFINE j == held[w]
            n == <<j[1], j[2], j[3] + 1>>
            last == Len(scheduled) + 1
<1>1. /\ At(w, "schedule")
      /\ Pool!ScheduleFromJob(w, n)
      /\ step' = [step EXCEPT ![w] = "done"]
      /\ UNCHANGED <<masterVars, generatorVars, sampleVars, quota, stored, paths, abortSwitch, stats>>
  BY DEF ScheduleNextPass
<1>2. /\ scheduled' = Append(scheduled, n)
      /\ UNCHANGED <<running, created, owner, pc, held>>
  BY <1>1 DEF Pool!ScheduleFromJob, Pool!Schedule, Pool!managerVars, Pool!workerVars
<1>3. n \in RenderJob /\ scheduled \in Seq(RenderJob) /\ j \in RenderJob /\ j \in running
  BY <1>1, NextPassBounded DEF PoolFacts, At
<1>4. /\ DOMAIN scheduled' = DOMAIN scheduled \cup {last}
      /\ last \notin DOMAIN scheduled
      /\ \A i \in DOMAIN scheduled : scheduled'[i] = scheduled[i]
      /\ scheduled'[last] = n
  BY <1>2, <1>3, Appended
<1>5. GeneratorOf(n) = GeneratorOf(j) /\ PassOf(n) = PassOf(j) + 1 /\ PassOf(j) \in Nat
  BY <1>3, RendererAssumption DEF GeneratorOf, PassOf, RenderJob
<1>. HIDE DEF j, n, last
<1>6. /\ pc[w] = "execute" /\ step[w] = "schedule" /\ step'[w] = "done"
      /\ \A v \in Worker \ {w} : step'[v] = step[v]
  BY <1>1 DEF RendererTypeOK, At
<1>7. UNCHANGED <<phase, nextGen, round, stored, paths, quota, seqIndex, batch, reserved, buffer,
                  frame, stats, abortSwitch>>
  BY <1>1 DEF masterVars, generatorVars, sampleVars
<1>8. RendererTypeOK'
  BY <1>1, <1>7 DEF RendererTypeOK
<1>9. StatisticsNeverGoBack'
  BY <1>7 DEF StatisticsNeverGoBack
<1>10. MasterInv'
  <2>1. MasterUntouched
    BY <1>2, <1>3, <1>7 DEF MasterUntouched, Pool!HasScheduledOrRunningJobs
  <2>. QED  BY <2>1, MasterUntouchedStep
<1>11. Active(w) /\ ~(Active(w))' /\ \A v \in Worker \ {w} : (Active(v))' = Active(v)
  BY <1>2, <1>6 DEF Active
<1>12. OneJobPerGenerator'
  <2>1. \A i \in DOMAIN scheduled : GeneratorOf(scheduled[i]) # GeneratorOf(n)
    BY <1>5, <1>11 DEF JobsInv, OneJobPerGenerator, j
  <2>2. \A i, k \in DOMAIN scheduled' :
           GeneratorOf(scheduled'[i]) = GeneratorOf(scheduled'[k]) => i = k
    BY <1>4, <2>1 DEF JobsInv, OneJobPerGenerator
  <2>3. \A v \in Worker \ {w} : Active(v) => GeneratorOf(held[v]) # GeneratorOf(n)
    BY <1>5, <1>11 DEF JobsInv, OneJobPerGenerator, j
  <2>4. \A v \in Worker : (Active(v))' =>
           /\ \A i \in DOMAIN scheduled' : GeneratorOf(scheduled'[i]) # GeneratorOf(held'[v])
           /\ \A u \in Worker : (Active(u))' /\ GeneratorOf(held'[u]) = GeneratorOf(held'[v])
                 => u = v
    BY <1>2, <1>4, <1>11, <2>3 DEF JobsInv, OneJobPerGenerator
  <2>5. phase # "scheduling"
    BY <1>6 DEF MasterInv, MasterInStep, PoolFacts
  <2>. QED  BY <1>7, <2>2, <2>4, <2>5 DEF OneJobPerGenerator
<1>13. PassesReserved'
  <2>1. PassOf(n) <= reserved
    BY <1>5, <1>6, <1>11, RendererAssumption DEF JobsInv, PassesReserved, RendererTypeOK, j
  <2>2. \A i \in DOMAIN scheduled' : PassOf(scheduled'[i]) <= reserved'
    BY <1>4, <1>7, <2>1 DEF JobsInv, PassesReserved
  <2>3. \A v \in Worker : (Active(v))' =>
           /\ PassOf(held'[v]) <= reserved'
           /\ step'[v] # "reserve" => PassOf(held'[v]) < reserved'
    BY <1>2, <1>6, <1>7, <1>11 DEF JobsInv, PassesReserved
  <2>. QED  BY <1>7, <2>2, <2>3 DEF JobsInv, PassesReserved
<1>14. JobsInStep'
  BY <1>2, <1>6, <1>7 DEF JobsInv, JobsInStep, JobInStep
<1>15. BufferDeveloped' /\ DevelopedCountIsPositive'
  BY <1>2, <1>6, <1>7 DEF JobsInv, BufferDeveloped, DevelopedCountIsPositive, At
<1>16. SequencesInterleave'
  BY <1>7 DEF JobsInv, SequencesInterleave
<1>17. JobsInv'
  BY <1>12, <1>13, <1>14, <1>15, <1>16 DEF JobsInv
<1>. QED  BY <1>8, <1>9, <1>10, <1>17

\* A job that returns has neither a successor to schedule nor samples to develop.
LEMMA ReturnKeeps ==
    ASSUME RInv, PoolFacts, PoolFacts', NEW w \in Worker, ReturnFromJob(w)
    PROVE  RInv'
<1>. USE Halves
<1>1. /\ pc[w] = "execute" /\ step[w] = "done"
      /\ pc' = [pc EXCEPT ![w] = "retire"]
      /\ step' = [step EXCEPT ![w] = "reserve"]
      /\ quota' = [quota EXCEPT ![w] = 0]
      /\ stored' = [stored EXCEPT ![w] = 0]
      /\ paths' = [paths EXCEPT ![w] = 0]
  BY DEF ReturnFromJob, At, Pool!FinishExecution, Pool!Goto
<1>2. UNCHANGED <<scheduled, running, created, owner, held, phase, nextGen, round, seqIndex, batch,
                  reserved, buffer, frame, abortSwitch, stats>>
  BY DEF ReturnFromJob, Pool!FinishExecution, Pool!queueVars, Pool!managerVars,
         masterVars, generatorVars, sampleVars
<1>3. /\ pc'[w] = "retire" /\ step'[w] = "reserve"
      /\ \A v \in Worker \ {w} : /\ pc'[v] = pc[v] /\ step'[v] = step[v]
                                 /\ stored'[v] = stored[v] /\ paths'[v] = paths[v]
  BY <1>1 DEF PoolFacts, RendererTypeOK
<1>4. RendererTypeOK'
  BY <1>1, <1>2 DEF RendererTypeOK
<1>5. StatisticsNeverGoBack'
  BY <1>2 DEF StatisticsNeverGoBack
<1>6. MasterInv'
  <2>1. MasterUntouched
    BY <1>2 DEF MasterUntouched, Pool!HasScheduledOrRunningJobs
  <2>. QED  BY <2>1, MasterUntouchedStep
<1>7. \A v \in Worker : (Active(v))' = Active(v)
  BY <1>1, <1>3 DEF Active
<1>8. OneJobPerGenerator'
  BY <1>2, <1>7 DEF JobsInv, OneJobPerGenerator
<1>9. PassesReserved'
  BY <1>2, <1>3, <1>7 DEF JobsInv, PassesReserved
<1>10. JobsInStep'
  BY <1>3 DEF JobsInv, JobsInStep, JobInStep
<1>11. BufferDeveloped' /\ DevelopedCountIsPositive'
  BY <1>1, <1>2, <1>3 DEF JobsInv, BufferDeveloped, DevelopedCountIsPositive, At
<1>12. SequencesInterleave'
  BY <1>2 DEF JobsInv, SequencesInterleave
<1>13. JobsInv'
  BY <1>8, <1>9, <1>10, <1>11, <1>12 DEF JobsInv
<1>. QED  BY <1>4, <1>5, <1>6, <1>13

-----------------------------------------------------------------------------
(* The statistics thread and the master thread. *)

\* The statistics thread only remembers counts that the framebuffer has had.
LEMMA StatisticsKeeps ==
    ASSUME RInv, PoolFacts, StatisticsStep
    PROVE  RInv'
<1>. USE Halves
<1>1. UNCHANGED <<poolVars, masterVars, jobVars, generatorVars, sampleVars, abortSwitch>>
  BY DEF StatisticsStep, StatisticsTestSwitch, StatisticsRead
<1>2. /\ stats.thread \in {"test", "read"}
      /\ stats'.thread \in {"test", "read", "exited"}
      /\ stats'.last \in {stats.last, buffer.count}
      /\ stats' \in [thread : {"none", "test", "read", "exited"}, last : Nat]
      /\ buffer.count \in Nat /\ stats.last \in Nat
  BY DEF StatisticsStep, StatisticsTestSwitch, StatisticsRead, RendererTypeOK
<1>3. RendererTypeOK'
  BY <1>1, <1>2 DEF RendererTypeOK, masterVars, jobVars, generatorVars, sampleVars
<1>4. StatisticsNeverGoBack'
  BY <1>1, <1>2 DEF StatisticsNeverGoBack, sampleVars
<1>5. MasterInv'
  <2>1. MasterUntouched
    BY <1>1, <1>2 DEF MasterUntouched, masterVars, poolVars, Pool!HasScheduledOrRunningJobs
  <2>. QED  BY <2>1, MasterUntouchedStep
<1>6. JobsInv'
  <2>1. JobsUntouched
    BY <1>1 DEF JobsUntouched, jobVars, generatorVars, sampleVars, poolVars
  <2>. QED  BY <1>1, <2>1, JobsUntouchedStep DEF masterVars
<1>. QED  BY <1>3, <1>4, <1>5, <1>6

\* SampleGeneratorBase::reset() puts every generator at the start of its first batch.
LEMMA FreshSequence ==
    ASSUME NEW g \in Generator
    PROVE  /\ g * SampleBatchSize \in Nat
           /\ ((g * SampleBatchSize) \div SampleBatchSize) % ThreadCount = g
           /\ (g * SampleBatchSize) % SampleBatchSize = 0
<1>1. SampleBatchSize \in Nat \ {0} /\ ThreadCount \in Nat \ {0} /\ g \in 0 .. ThreadCount - 1
  BY RendererAssumption DEF Generator
<1>. DEFINE n == g * SampleBatchSize
<1>2. n \in Nat /\ n = SampleBatchSize * g + 0 /\ 0 \in 0 .. SampleBatchSize - 1 /\ g \in Nat
  BY <1>1, SMT
<1>. HIDE DEF n
<1>3. n \div SampleBatchSize = g /\ n % SampleBatchSize = 0
  BY <1>1, <1>2, DivUnique
<1>4. g = ThreadCount * 0 + g
  BY <1>1
<1>5. g % ThreadCount = g
  BY <1>1
<1>. QED  BY <1>2, <1>3, <1>5 DEF n

\* Without worker threads and with an empty queue there is no job.
LEMMA NoJobs ==
    ASSUME PoolFacts, ~created, scheduled = <<>>
    PROVE  /\ DOMAIN scheduled = {}
           /\ \A w \in Worker : pc[w] # "execute"
BY DEF PoolFacts

\* start_rendering() clears everything while neither a job nor the statistics thread is
\* there to see it.
LEMMA StartKeeps ==
    ASSUME RInv, PoolFacts, StartRendering
    PROVE  RInv'
<1>. USE Halves
<1>1. /\ phase = "off" /\ phase' = "scheduling" /\ round < Rounds /\ round' = round + 1
      /\ nextGen' = 0 /\ abortSwitch' = FALSE /\ buffer' = EmptyBuffer /\ reserved' = 0
      /\ seqIndex' = [g \in Generator |-> g * SampleBatchSize]
      /\ batch' = [g \in Generator |-> 0]
      /\ UNCHANGED <<poolVars, jobVars, frame, stats>>
  BY DEF StartRendering, MasterMoves, ResetGenerators
<1>2. UNCHANGED <<scheduled, running, created, owner, pc, held, step, quota, stored, paths>>
  BY <1>1 DEF poolVars, jobVars
<1>3. /\ owner = "idle" /\ ~created /\ scheduled = <<>> /\ running = {} /\ stats.thread = "none"
  BY <1>1 DEF MasterInv, MasterInStep, NoJobLeft, StatisticsInStep, Pool!HasScheduledOrRunningJobs
<1>4. DOMAIN scheduled = {} /\ \A w \in Worker : pc[w] # "execute"
  BY <1>3, NoJobs
<1>5. RendererTypeOK'
  <2>1. round' \in 0 .. Rounds /\ nextGen' \in 0 .. ThreadCount
    BY <1>1, RendererAssumption DEF RendererTypeOK
  <2>2. seqIndex' \in [Generator -> Nat] /\ batch' \in [Generator -> Nat]
    BY <1>1, FreshSequence
  <2>3. buffer' \in [samples : Nat, count : Nat]
    BY <1>1 DEF EmptyBuffer
  <2>. QED  BY <1>1, <1>2, <2>1, <2>2, <2>3 DEF RendererTypeOK
<1>6. StatisticsNeverGoBack'
  BY <1>1, <1>3 DEF StatisticsNeverGoBack
<1>7. MasterInv'
  <2>1. round' > 0 /\ nextGen' < ThreadCount
    BY <1>1, RendererAssumption DEF RendererTypeOK
  <2>. QED  BY <1>1, <1>2, <1>3, <2>1 DEF MasterInv, MasterInStep, NoJobLeft, StatisticsInStep
<1>8. \A w \in Worker : ~(Active(w))'
  BY <1>2, <1>4 DEF Active
<1>9. OneJobPerGenerator' /\ PassesReserved'
  BY <1>1, <1>2, <1>4, <1>8, RendererAssumption DEF OneJobPerGenerator, PassesReserved
<1>10. JobsInStep'
  BY <1>2, <1>4 DEF JobsInv, JobsInStep, JobInStep
<1>11. BufferDeveloped' /\ DevelopedCountIsPositive'
  BY <1>1, <1>2, <1>4 DEF BufferDeveloped, DevelopedCountIsPositive, At, EmptyBuffer
<1>12. SequencesInterleave'
  BY <1>1, FreshSequence DEF SequencesInterleave
<1>13. JobsInv'
  BY <1>9, <1>10, <1>11, <1>12 DEF JobsInv
<1>. QED  BY <1>5, <1>6, <1>7, <1>13

\* The initial state, in which the renderer was only constructed.
LEMMA InitRInv == Init => RInv /\ W!IInv
<1>. SUFFICES ASSUME Init PROVE RInv /\ W!IInv
  OBVIOUS
<1>1. W!IInv
  <2>1. W!Init
    BY DEF Init, Pool!Init, W!Init, Pool!QueueInit, W!QueueInit, Pool!Worker, W!Worker
  <2>. QED  BY <2>1, PoolConstants, W!InitIInv
<1>2. PoolFacts
  BY <1>1, PoolFactsHold
<1>3. scheduled = <<>> /\ running = {} /\ ~created /\ owner = "idle"
  BY DEF Init, Pool!Init, Pool!QueueInit
<1>4. DOMAIN scheduled = {} /\ \A w \in Worker : pc[w] # "execute"
  BY <1>2, <1>3, NoJobs
<1>5. RendererTypeOK
  <2>1. round \in 0 .. Rounds /\ nextGen \in 0 .. ThreadCount
    BY RendererAssumption DEF Init
  <2>2. seqIndex \in [Generator -> Nat] /\ batch \in [Generator -> Nat]
    BY FreshSequence DEF Init
  <2>3. /\ buffer \in [samples : Nat, count : Nat] /\ frame \in [samples : Nat, count : Nat]
        /\ stats \in [thread : {"none", "test", "read", "exited"}, last : Nat]
    BY DEF Init, EmptyBuffer
  <2>4. /\ quota \in [Worker -> Nat] /\ stored \in [Worker -> Nat] /\ paths \in [Worker -> Nat]
        /\ step \in [Worker -> {"reserve", "generate", "store", "count", "develop",
                                "reschedule", "schedule", "done"}]
    BY DEF Init
  <2>. QED  BY <2>1, <2>2, <2>3, <2>4 DEF Init, RendererTypeOK
<1>6. MasterInv
  BY <1>3 DEF Init, MasterInv, MasterInStep, NoJobLeft, StatisticsInStep,
              Pool!HasScheduledOrRunningJobs
<1>7. JobsInv
  <2>1. OneJobPerGenerator /\ PassesReserved
    BY <1>4, RendererAssumption DEF Init, OneJobPerGenerator, PassesReserved, Active
  <2>2. JobsInStep
    BY DEF Init, JobsInStep, JobInStep
  <2>3. BufferDeveloped /\ DevelopedCountIsPositive
    BY DEF Init, BufferDeveloped, DevelopedCountIsPositive, At
  <2>4. SequencesInterleave
    BY FreshSequence DEF Init, SequencesInterleave
  <2>. QED  BY <2>1, <2>2, <2>3, <2>4 DEF JobsInv
<1>8. StatisticsNeverGoBack
  BY DEF Init, StatisticsNeverGoBack
<1>. QED  BY <1>1, <1>5, <1>6, <1>7, <1>8, Halves

\* The loop of start_rendering() adds the job of the next generator.
LEMMA ScheduleFirstKeeps ==
    ASSUME RInv, PoolFacts, ScheduleFirstPass
    PROVE  RInv'
<1>. USE Halves
<1>. DEFINE n == <<round, nextGen, 0>>
            last == Len(scheduled) + 1
<1>1. /\ phase = "scheduling"
      /\ phase' = IF nextGen = ThreadCount - 1 THEN "launching" ELSE "scheduling"
      /\ Pool!OwnerSchedule(n)
      /\ nextGen' = nextGen + 1
      /\ UNCHANGED <<round, jobVars, generatorVars, sampleVars, abortSwitch, stats>>
  BY DEF ScheduleFirstPass, MasterMoves
<1>2. /\ scheduled' = Append(scheduled, n)
      /\ UNCHANGED <<running, created, owner, pc, held>>
  BY <1>1 DEF Pool!OwnerSchedule, Pool!Schedule, Pool!managerVars, Pool!workerVars
<1>3. n \in RenderJob /\ nextGen \in Generator /\ scheduled \in Seq(RenderJob)
  BY <1>1, FirstPassBounded DEF PoolFacts
<1>4. /\ DOMAIN scheduled' = DOMAIN scheduled \cup {last}
      /\ last \notin DOMAIN scheduled
      /\ \A i \in DOMAIN scheduled : scheduled'[i] = scheduled[i]
      /\ scheduled'[last] = n
  BY <1>2, <1>3, Appended
<1>5. GeneratorOf(n) = nextGen /\ PassOf(n) = 0
  BY DEF GeneratorOf, PassOf
<1>. HIDE DEF n, last
<1>6. UNCHANGED <<step, quota, stored, paths, seqIndex, batch, reserved, buffer, frame>>
  BY <1>1 DEF jobVars, generatorVars, sampleVars
<1>7. /\ owner = "idle" /\ ~created /\ stats.thread = "none"
      /\ \A w \in Worker : pc[w] = "none"
  BY <1>1 DEF MasterInv, MasterInStep, StatisticsInStep, PoolFacts
<1>8. nextGen \in Nat /\ nextGen' <= ThreadCount /\ nextGen' \in 0 .. ThreadCount
      /\ (phase' = "scheduling" => nextGen' < ThreadCount)
  BY SMTT(30), <1>1, <1>3, RendererAssumption DEF Generator
<1>9. RendererTypeOK'
  BY <1>1, <1>6, <1>8 DEF RendererTypeOK
<1>10. StatisticsNeverGoBack'
  BY <1>1, <1>6 DEF StatisticsNeverGoBack
<1>11. MasterInv'
  BY <1>1, <1>2, <1>7, <1>8 DEF MasterInv, MasterInStep, NoJobLeft, StatisticsInStep
<1>12. \A w \in Worker : ~(Active(w))'
  BY <1>2, <1>7 DEF Active
<1>13. OneJobPerGenerator'
  <2>1. \A i \in DOMAIN scheduled : /\ GeneratorOf(scheduled[i]) < nextGen
                                    /\ GeneratorOf(scheduled[i]) \in Nat
    <3>1. \A i \in DOMAIN scheduled : scheduled[i] \in RenderJob
      BY <1>3
    <3>. QED  BY <1>1, <3>1 DEF JobsInv, OneJobPerGenerator, RenderJob, GeneratorOf, Generator
  <2>2. \A i, k \in DOMAIN scheduled' :
           GeneratorOf(scheduled'[i]) = GeneratorOf(scheduled'[k]) => i = k
    BY <1>4, <1>5, <1>8, <2>1 DEF JobsInv, OneJobPerGenerator
  <2>3. \A i \in DOMAIN scheduled' : GeneratorOf(scheduled'[i]) < nextGen'
    BY <1>1, <1>4, <1>5, <1>8, <2>1
  <2>. QED  BY <1>12, <2>2, <2>3 DEF OneJobPerGenerator
<1>14. PassesReserved'
  <2>1. 0 <= reserved /\ reserved <= MaxSamples
    BY DEF JobsInv, PassesReserved, RendererTypeOK
  <2>. QED  BY <1>4, <1>5, <1>6, <1>12, <2>1 DEF JobsInv, PassesReserved
<1>15. JobsInStep'
  BY <1>2, <1>6 DEF JobsInv, JobsInStep, JobInStep
<1>16. BufferDeveloped' /\ DevelopedCountIsPositive'
  BY <1>2, <1>6 DEF JobsInv, BufferDeveloped, DevelopedCountIsPositive, At
<1>17. SequencesInterleave'
  BY <1>6 DEF JobsInv, SequencesInterleave
<1>18. JobsInv'
  BY <1>13, <1>14, <1>15, <1>16, <1>17 DEF JobsInv
<1>. QED  BY <1>9, <1>10, <1>11, <1>18

\* A step of the master thread that leaves the jobs alone and the framebuffer as it is.
LEMMA MasterOnlyStep ==
    ASSUME RInv, MasterInv', StatisticsNeverGoBack', JobsUntouched,
           UNCHANGED <<quota, nextGen, round>>, abortSwitch' \in BOOLEAN,
           stats' \in [thread : {"none", "test", "read", "exited"}, last : Nat],
           phase' \in {"off", "launching", "started", "rendering", "ended", "stopping",
                       "clearing", "joining", "releasing", "released", "gone"}
    PROVE  RInv'
<1>. USE Halves
<1>1. RendererTypeOK'
  BY DEF RendererTypeOK, JobsUntouched
<1>2. JobsInv'
  BY JobsUntouchedStep
<1>. QED  BY <1>1, <1>2

\* Starting the worker threads and then the statistics thread, noticing the end of the
\* rendering, and asking the jobs to stop.
LEMMA LaunchKeeps ==
    ASSUME RInv, PoolFacts, StartPool \/ StartStatistics \/ RenderingEnds \/ StopRendering
    PROVE  RInv'
<1>. USE Halves
<1>1. UNCHANGED <<nextGen, round, jobVars, generatorVars, sampleVars, scheduled, running, pc, held>>
  BY DEF StartPool, StartStatistics, RenderingEnds, StopRendering, Pool!CallStart, Pool!queueVars,
         Pool!workerVars, poolVars
<1>2. JobsUntouched
  BY <1>1 DEF JobsUntouched, jobVars, generatorVars, sampleVars
<1>3. /\ stats' \in [thread : {"none", "test", "read", "exited"}, last : Nat]
      /\ abortSwitch' \in BOOLEAN
  <2>1. CASE StartStatistics
    BY <2>1 DEF StartStatistics, RendererTypeOK
  <2>2. CASE StartPool \/ RenderingEnds \/ StopRendering
    BY <2>2 DEF StartPool, RenderingEnds, StopRendering, RendererTypeOK
  <2>. QED  BY <2>1, <2>2
<1>4. StatisticsNeverGoBack'
  BY <1>1 DEF StatisticsNeverGoBack, StartPool, StartStatistics, RenderingEnds, StopRendering,
              RendererTypeOK, sampleVars
<1>5. MasterInStep'
  BY <1>1 DEF MasterInv, MasterInStep, StartPool, StartStatistics, RenderingEnds, StopRendering,
              MasterMoves, Pool!CallStart, poolVars
<1>6. NoJobLeft'
  BY <1>1 DEF MasterInv, NoJobLeft, StartPool, StartStatistics, RenderingEnds, StopRendering,
              MasterMoves, Pool!HasScheduledOrRunningJobs
<1>7. StatisticsInStep'
  BY DEF MasterInv, StatisticsInStep, StartPool, StartStatistics, RenderingEnds, StopRendering,
         MasterMoves
<1>8. MasterInv' /\ phase' \in {"started", "rendering", "ended", "stopping"}
  BY <1>5, <1>6, <1>7 DEF MasterInv, StartPool, StartStatistics, RenderingEnds, StopRendering,
                          MasterMoves
<1>9. UNCHANGED <<quota, nextGen, round>>
  BY <1>1 DEF jobVars
<1>. QED  BY <1>2, <1>3, <1>4, <1>8, <1>9, MasterOnlyStep

\* Stopping the worker threads, deleting the jobs that are left, joining the statistics
\* thread.
LEMMA StopKeeps ==
    ASSUME RInv, PoolFacts, StopPool \/ ClearJobs \/ JoinStatistics
    PROVE  RInv'
<1>. USE Halves
<1>1. UNCHANGED <<nextGen, round, jobVars, generatorVars, sampleVars, abortSwitch, running, pc,
                  held, created>>
  BY DEF StopPool, ClearJobs, JoinStatistics, Pool!CallStop, Pool!OwnerClear,
         Pool!ClearScheduledJobs, Pool!queueVars, Pool!managerVars, Pool!workerVars, poolVars
<1>2. scheduled' = scheduled \/ scheduled' = <<>>
  BY DEF StopPool, ClearJobs, JoinStatistics, Pool!CallStop, Pool!OwnerClear,
         Pool!ClearScheduledJobs, Pool!queueVars, poolVars
<1>3. JobsUntouched
  BY <1>1, <1>2 DEF JobsUntouched, jobVars, generatorVars, sampleVars
<1>4. stats' \in [thread : {"none", "test", "read", "exited"}, last : Nat]
      /\ abortSwitch' \in BOOLEAN
  BY <1>1 DEF StopPool, ClearJobs, JoinStatistics, RendererTypeOK
<1>5. StatisticsNeverGoBack'
  BY <1>1 DEF StatisticsNeverGoBack, StopPool, ClearJobs, JoinStatistics, RendererTypeOK, sampleVars
<1>6. MasterInStep'
  BY <1>1 DEF MasterInv, MasterInStep, StopPool, ClearJobs, JoinStatistics, MasterMoves,
              Pool!CallStop, Pool!OwnerClear, Pool!managerVars, poolVars
<1>7. NoJobLeft'
  <2>1. CASE StopPool
    BY <2>1 DEF NoJobLeft, StopPool, MasterMoves
  <2>2. CASE ClearJobs
    <3>1. ~created
      BY <2>2 DEF MasterInv, MasterInStep, ClearJobs, MasterMoves, Pool!OwnerClear
    <3>2. running = {} /\ scheduled' = <<>>
      BY <2>2, <3>1 DEF PoolFacts, ClearJobs, Pool!OwnerClear, Pool!ClearScheduledJobs
    <3>. QED  BY <1>1, <3>2 DEF NoJobLeft, Pool!HasScheduledOrRunningJobs
  <2>3. CASE JoinStatistics
    BY <1>1, <2>3 DEF MasterInv, NoJobLeft, JoinStatistics, MasterMoves,
                      Pool!HasScheduledOrRunningJobs, poolVars
  <2>. QED  BY <2>1, <2>2, <2>3
<1>8. StatisticsInStep'
  BY DEF MasterInv, StatisticsInStep, StopPool, ClearJobs, JoinStatistics, MasterMoves,
         RendererTypeOK
<1>9. MasterInv' /\ phase' \in {"clearing", "joining", "off"}
  BY <1>6, <1>7, <1>8 DEF MasterInv, StopPool, ClearJobs, JoinStatistics, MasterMoves
<1>10. UNCHANGED <<quota, nextGen, round>>
  BY <1>1 DEF jobVars
<1>. QED  BY <1>3, <1>4, <1>5, <1>9, <1>10, MasterOnlyStep

\* The destructor: the statistics thread is joined before the generators are released, the
\* worker threads only afterwards.
LEMMA DestroyKeeps ==
    ASSUME RInv, PoolFacts, BeginDestruction \/ ReleaseGenerators \/ DestroyPool
    PROVE  RInv'
<1>. USE Halves
<1>1. UNCHANGED <<nextGen, round, jobVars, generatorVars, sampleVars, running, pc, held, created>>
  BY DEF BeginDestruction, ReleaseGenerators, DestroyPool, Pool!CallStop, Pool!Destroy,
         Pool!ClearScheduledJobs, Pool!queueVars, Pool!managerVars, Pool!workerVars, poolVars
<1>2. scheduled' = scheduled \/ scheduled' = <<>>
  BY DEF BeginDestruction, ReleaseGenerators, DestroyPool, Pool!CallStop, Pool!Destroy,
         Pool!ClearScheduledJobs, Pool!queueVars, poolVars
<1>3. JobsUntouched
  BY <1>1, <1>2 DEF JobsUntouched, jobVars, generatorVars, sampleVars
<1>4. stats' \in [thread : {"none", "test", "read", "exited"}, last : Nat]
      /\ abortSwitch' \in BOOLEAN
  BY DEF BeginDestruction, ReleaseGenerators, DestroyPool, RendererTypeOK
<1>5. StatisticsNeverGoBack'
  BY <1>1 DEF StatisticsNeverGoBack, BeginDestruction, ReleaseGenerators, DestroyPool,
              RendererTypeOK, sampleVars
<1>6. MasterInStep'
  BY <1>1 DEF MasterInv, MasterInStep, BeginDestruction, ReleaseGenerators, DestroyPool,
              MasterMoves, Pool!CallStop, Pool!Destroy, poolVars
<1>7. NoJobLeft'
  BY <1>1, <1>2 DEF MasterInv, NoJobLeft, BeginDestruction, ReleaseGenerators, DestroyPool,
                    MasterMoves, Pool!HasScheduledOrRunningJobs
<1>8. StatisticsInStep'
  BY DEF MasterInv, StatisticsInStep, BeginDestruction, ReleaseGenerators, DestroyPool,
         MasterMoves, RendererTypeOK
<1>9. MasterInv' /\ phase' \in {"releasing", "released", "gone"}
  BY <1>6, <1>7, <1>8 DEF MasterInv, BeginDestruction, ReleaseGenerators, DestroyPool, MasterMoves
<1>10. UNCHANGED <<quota, nextGen, round>>
  BY <1>1 DEF jobVars
<1>. QED  BY <1>3, <1>4, <1>5, <1>9, <1>10, MasterOnlyStep

\* The loops of JobManager::start() and stop() take no worker into or out of a job.
LEMMA PoolCallKeeps ==
    ASSUME RInv, PoolFacts, PoolCallProgress
    PROVE  RInv'
<1>. USE Halves
<1>1. UNCHANGED <<masterVars, jobVars, generatorVars, sampleVars, abortSwitch, stats>>
  BY DEF PoolCallProgress
<1>2. PICK w \in Worker : Pool!StartWorker(w) \/ Pool!StopWorker(w) \/ Pool!JoinWorker(w)
  BY DEF PoolCallProgress
<1>3. /\ UNCHANGED <<scheduled, running, held>>
      /\ \A v \in Worker : pc'[v] = "execute" <=> pc[v] = "execute"
  BY <1>2 DEF PoolFacts, Pool!StartWorker, Pool!StopWorker, Pool!JoinWorker, Pool!Goto,
              Pool!queueVars
<1>4. /\ owner \in {"starting", "stopping", "joining"}
      /\ owner = "starting" => owner' \in {"starting", "idle"} /\ created' = created
      /\ owner # "starting" => owner' \in {"stopping", "joining", "idle"}
      /\ owner # "starting" /\ owner' = "idle" => ~created'
  BY <1>2 DEF Pool!StartWorker, Pool!StopWorker, Pool!JoinWorker, Pool!NextWorker
<1>5. JobsUntouched
  BY <1>1, <1>3 DEF JobsUntouched, jobVars, generatorVars, sampleVars
<1>6. MasterInStep'
  BY <1>1, <1>4 DEF MasterInv, MasterInStep, masterVars
<1>7. NoJobLeft' /\ StatisticsInStep'
  BY <1>1, <1>3 DEF MasterInv, NoJobLeft, StatisticsInStep, masterVars,
                    Pool!HasScheduledOrRunningJobs
<1>8. StatisticsNeverGoBack'
  BY <1>1 DEF StatisticsNeverGoBack, sampleVars
<1>9. RendererTypeOK'
  BY <1>1 DEF RendererTypeOK, masterVars, jobVars, generatorVars, sampleVars
<1>10. JobsInv'
  BY <1>1, <1>5, JobsUntouchedStep DEF masterVars
<1>11. MasterInv'
  BY <1>6, <1>7 DEF MasterInv
<1>. QED  BY <1>8, <1>9, <1>10, <1>11

\* A step in which nothing changes.
LEMMA StutterKeeps ==
    ASSUME RInv, UNCHANGED vars
    PROVE  RInv'
<1>. USE Halves
<1>1. UNCHANGED <<masterVars, jobVars, generatorVars, sampleVars, abortSwitch, stats, poolVars>>
  BY DEF vars
<1>2. RendererTypeOK' /\ StatisticsNeverGoBack'
  BY <1>1 DEF RendererTypeOK, StatisticsNeverGoBack, masterVars, jobVars, generatorVars, sampleVars
<1>3. MasterUntouched
  BY <1>1 DEF MasterUntouched, masterVars, poolVars, Pool!HasScheduledOrRunningJobs
<1>4. JobsUntouched
  BY <1>1 DEF JobsUntouched, jobVars, generatorVars, sampleVars, poolVars
<1>. QED  BY <1>1, <1>2, <1>3, <1>4, MasterUntouchedStep, JobsUntouchedStep DEF masterVars

-----------------------------------------------------------------------------
(* The theorems. *)

\* The renderer's invariant together with the pool's.
Inv == RInv /\ W!IInv

\* Every step of the workers, of the statistics thread and of the master thread preserves
\* it.
LEMMA NextInv == Inv /\ [Next]_vars => Inv'
<1>. SUFFICES ASSUME Inv, [Next]_vars PROVE Inv'
  OBVIOUS
<1>1. RInv /\ W!IInv /\ W!IInv'
  BY PoolStep DEF Inv
<1>2. PoolFacts /\ PoolFacts'
  <2>1. PoolFacts
    BY <1>1, PoolFactsHold
  <2>2. PoolFacts'
    BY <1>1, PoolFactsHold, PTL
  <2>. QED  BY <2>1, <2>2
<1>3. ASSUME NEW w \in Worker, WorkerRuns(w) \/ ThrowInJob(w) PROVE RInv'
  BY <1>1, <1>2, <1>3, RunLoopKeeps, ReserveKeeps, GenerateKeeps, StoreKeeps, CountKeeps,
     DevelopKeeps, MoveOnKeeps, ScheduleNextKeeps, ReturnKeeps DEF WorkerRuns, JobStep
<1>4. CASE StatisticsStep
  BY <1>1, <1>2, <1>4, StatisticsKeeps DEF Inv
<1>5. CASE MasterProgress
  BY <1>1, <1>2, <1>5, ScheduleFirstKeeps, LaunchKeeps, StopKeeps, DestroyKeeps, PoolCallKeeps
     DEF MasterProgress, Inv
<1>6. CASE MasterCall
  BY <1>1, <1>2, <1>6, StartKeeps, LaunchKeeps, DestroyKeeps DEF MasterCall, Inv
<1>7. CASE UNCHANGED vars
  BY <1>1, <1>7, StutterKeeps DEF Inv
<1>. QED  BY <1>1, <1>3, <1>4, <1>5, <1>6, <1>7 DEF Inv, Next

\* It holds in every reachable state.
THEOREM Invariance == Spec => []Inv
<1>1. Init => Inv
  BY InitRInv DEF Inv
<1>. QED  BY <1>1, NextInv, PTL DEF Spec

\* Every variable of the renderer and of its pool keeps its type.
THEOREM TypeCorrect == Spec => []TypeOK
<1>1. Inv => TypeOK
  <2>1. W!IInv => Pool!TypeOK
    BY DEF W!IInv, W!TypeOK, Pool!TypeOK, W!QueueTypeOK, Pool!QueueTypeOK, W!Lifetime,
           Pool!Lifetime, W!Located, Pool!Located, W!Holding, Pool!Holding, W!Worker, Pool!Worker
  <2>. QED  BY <2>1, Halves DEF Inv, TypeOK
<1>. QED  BY <1>1, Invariance, PTL

\* No two workers are inside the same sample generator, although the next job of a
\* generator is in the queue before the previous one has ended.
THEOREM GeneratorsAreExclusive == Spec => []GeneratorExclusive
<1>1. Inv => GeneratorExclusive
  <2>. SUFFICES ASSUME Inv, NEW v \in Worker, NEW w \in Worker,
                       UsesGenerator(v), UsesGenerator(w), v # w
                PROVE  GeneratorOf(held[v]) # GeneratorOf(held[w])
    BY DEF GeneratorExclusive
  <2>1. Active(v) /\ Active(w)
    BY DEF UsesGenerator, Active
  <2>. QED  BY <2>1 DEF Inv, RInv, OneJobPerGenerator
<1>. QED  BY <1>1, Invariance, PTL

\* The generators draw from disjoint parts of the sample sequence, whatever the size of
\* a batch, the number of generators, and where an abort, a failure or the budget cut a
\* job short.
THEOREM SequencesAreDisjoint == Spec => []SequencesInterleave
<1>1. Inv => SequencesInterleave
  BY DEF Inv, RInv
<1>. QED  BY <1>1, Invariance, PTL

\* No development divides by zero: light tracing stores its samples before it counts their
\* paths, but the worker that develops the frame has counted its own by then.
THEOREM DevelopedCounts == Spec => []DevelopedCountIsPositive
<1>1. Inv => DevelopedCountIsPositive
  BY DEF Inv, RInv
<1>. QED  BY <1>1, Invariance, PTL

\* The statistics thread never subtracts a larger count from a smaller one.
THEOREM StatisticsMonotone == Spec => []StatisticsNeverGoBack
<1>1. Inv => StatisticsNeverGoBack
  BY DEF Inv, RInv
<1>. QED  BY <1>1, Invariance, PTL

\* The assertion at the head of start_rendering() cannot fail: no job survives a stop.
THEOREM StopLeavesNoJob == Spec => []StartsWithNoJob
<1>1. Inv => StartsWithNoJob
  BY DEF Inv, RInv, NoJobLeft, StartsWithNoJob
<1>. QED  BY <1>1, Invariance, PTL

\* No job uses a sample generator that the destructor has released, although the worker
\* threads are only joined after it.
THEOREM ReleasedStayUnused == Spec => []ReleasedGeneratorsUnused
<1>1. Inv => ReleasedGeneratorsUnused
  <2>. SUFFICES ASSUME Inv, phase \in {"released", "gone"}, NEW w \in Worker
                PROVE  ~UsesGenerator(w)
    BY DEF ReleasedGeneratorsUnused
  <2>1. running = {}
    BY DEF Inv, RInv, NoJobLeft, Pool!HasScheduledOrRunningJobs
  <2>2. PoolFacts
    BY PoolFactsHold DEF Inv
  <2>. QED  BY <2>1, <2>2 DEF PoolFacts, UsesGenerator
<1>. QED  BY <1>1, Invariance, PTL

\* When no job is left, the frame shows everything that was stored, whichever jobs failed
\* or were cut short.
THEOREM FinalFrame == Spec => []FrameIsFinal
<1>1. Inv => FrameIsFinal
  <2>. SUFFICES ASSUME Inv, ~Pool!HasScheduledOrRunningJobs, buffer # EmptyBuffer
                PROVE  frame = buffer
    BY DEF FrameIsFinal
  <2>1. running = {} /\ PoolFacts
    BY PoolFactsHold DEF Inv, Pool!HasScheduledOrRunningJobs
  <2>2. \A w \in Worker : ~At(w, "count") /\ ~At(w, "develop")
    BY <2>1 DEF PoolFacts, At
  <2>. QED  BY <2>2 DEF Inv, RInv, BufferDeveloped
<1>. QED  BY <1>1, Invariance, PTL

-----------------------------------------------------------------------------
(* ProgressiveFrameRenderer implements FrameRenderer. *)

\* The refinement mapping of ProgressiveFrameRenderer!Promised, by name.
ModeNow ==
    CASE phase = "off" -> IF round = 0 THEN "ready" ELSE "stopped"
      [] phase \in {"scheduling", "launching", "started"} -> "rendering"
      [] phase \in {"releasing", "released", "gone"} -> "gone"
      [] OTHER -> IF Pool!HasScheduledOrRunningJobs THEN "rendering" ELSE "finished"

Beginning == {"scheduling", "launching", "started"}
Underway == {"rendering", "ended", "stopping", "clearing", "joining"}
Ending == {"releasing", "released", "gone"}

\* What it says in each group of phases.
LEMMA ModeByPhase ==
    /\ phase = "off" => ModeNow = IF round = 0 THEN "ready" ELSE "stopped"
    /\ phase \in Beginning => ModeNow = "rendering"
    /\ phase \in Ending => ModeNow = "gone"
    /\ phase \in Underway =>
          ModeNow = IF Pool!HasScheduledOrRunningJobs THEN "rendering" ELSE "finished"
BY DEF ModeNow, Beginning, Underway, Ending

\* The same of the next state.
LEMMA ModeByPhaseNext ==
    /\ phase' = "off" => ModeNow' = IF round' = 0 THEN "ready" ELSE "stopped"
    /\ phase' \in Beginning => ModeNow' = "rendering"
    /\ phase' \in Ending => ModeNow' = "gone"
    /\ phase' \in Underway =>
          ModeNow' = IF Pool!HasScheduledOrRunningJobs' THEN "rendering" ELSE "finished"
BY DEF ModeNow, Beginning, Underway, Ending

\* A step of FrameRenderer or a stutter, in terms of the mode.
PromisedStep ==
    \/ ModeNow' = ModeNow /\ frame' = frame
    \/ ModeNow = "rendering" /\ ModeNow' = "rendering"
    \/ ModeNow = "rendering" /\ ModeNow' = "finished" /\ frame' = frame
    \/ ModeNow \in {"ready", "stopped"} /\ ModeNow' = "rendering" /\ frame' = frame
    \/ ModeNow \in {"rendering", "finished"} /\ ModeNow' = "stopped" /\ frame' = frame
    \/ ModeNow \in {"ready", "finished", "stopped"} /\ ModeNow' = "gone" /\ frame' = frame

LEMMA PromisedStepIs ==
    PromisedStep => [Promised!FrameRendererNext]_<<ModeNow, frame>>
BY DEF PromisedStep, Promised!FrameRendererNext, Promised!Start, Promised!Draw, Promised!Finish,
       Promised!Stop, Promised!Release, ModeNow

\* A step that leaves the frame and the master thread alone and does not wake the queue is
\* a stutter, or the last job has ended.
LEMMA QuietRefines ==
    ASSUME RInv, UNCHANGED <<phase, round, frame>>,
           Pool!HasScheduledOrRunningJobs' => Pool!HasScheduledOrRunningJobs
    PROVE  PromisedStep
<1>1. phase \in {"off"} \cup Beginning \cup Underway \cup Ending
  BY DEF RInv, RendererTypeOK, Beginning, Underway, Ending
<1>. QED  BY <1>1, ModeByPhase, ModeByPhaseNext DEF PromisedStep

\* A job only runs while the mode is "rendering".
LEMMA JobMeansRendering ==
    ASSUME RInv, PoolFacts, NEW w \in Worker, pc[w] = "execute"
    PROVE  ModeNow = "rendering" /\ Pool!HasScheduledOrRunningJobs
<1>1. created /\ running # {}
  BY DEF PoolFacts
<1>2. Pool!HasScheduledOrRunningJobs
  BY <1>1 DEF Pool!HasScheduledOrRunningJobs
<1>3. phase \notin {"off", "releasing", "released", "gone"}
  BY <1>2 DEF RInv, NoJobLeft
<1>4. phase \in Beginning \cup Underway
  BY <1>3 DEF RInv, RendererTypeOK, Beginning, Underway
<1>. QED  BY <1>2, <1>4, ModeByPhase

\* The steps of a worker: only developing changes the frame, and only retiring a job can
\* end the rendering.
LEMMA WorkerRefines ==
    ASSUME RInv, PoolFacts, NEW w \in Worker, WorkerRuns(w) \/ ThrowInJob(w)
    PROVE  PromisedStep
<1>1. CASE RunLoop(w)
  <2>1. Pool!HasScheduledOrRunningJobs' => Pool!HasScheduledOrRunningJobs
    BY <1>1 DEF RunLoop, Pool!HasScheduledOrRunningJobs, Pool!TestAbort, Pool!AcquireJob,
           Pool!AcquireScheduledJob, Pool!FindQueueEmpty, Pool!RetireJob, Pool!EraseRunningJob,
           Pool!DeleteJob, Pool!DeleteRetiredJob, Pool!queueVars
  <2>. QED  BY <1>1, <2>1, QuietRefines DEF RunLoop, masterVars, sampleVars
<1>2. CASE RenderToFrame(w)
  <2>1. ModeNow = "rendering"
    BY <1>2, JobMeansRendering DEF RenderToFrame, At
  <2>2. ModeNow' = ModeNow
    BY <1>2 DEF RenderToFrame, ModeNow, masterVars, poolVars, Pool!HasScheduledOrRunningJobs
  <2>. QED  BY <2>1, <2>2 DEF PromisedStep
<1>3. CASE ~RunLoop(w) /\ ~RenderToFrame(w)
  <2>1. /\ pc[w] = "execute"
        /\ UNCHANGED <<phase, round, frame>>
    BY <1>3 DEF WorkerRuns, JobStep, At, ReserveSamples, GenerateSamples, StoreSamples,
                CountPaths, TestSwitch, ThrowInJob, ScheduleNextPass, ReturnFromJob,
                masterVars, sampleVars
  <2>. QED  BY <2>1, JobMeansRendering, QuietRefines
<1>. QED  BY <1>1, <1>2, <1>3

\* The steps of the master thread: its methods begin and end the modes.
LEMMA MasterRefines ==
    ASSUME RInv, PoolFacts, MasterProgress \/ MasterCall
    PROVE  PromisedStep
<1>. USE ModeByPhase, ModeByPhaseNext DEF MasterMoves, Beginning, Underway, Ending
<1>1. CASE StartRendering
  BY <1>1 DEF StartRendering, PromisedStep
<1>2. CASE ScheduleFirstPass \/ StartPool
  BY <1>2 DEF ScheduleFirstPass, StartPool, sampleVars, PromisedStep
<1>3. CASE StartStatistics
  BY <1>3 DEF StartStatistics, sampleVars, PromisedStep
<1>4. CASE RenderingEnds \/ StopRendering
  BY <1>4 DEF RenderingEnds, StopRendering, sampleVars, poolVars, PromisedStep,
              Pool!HasScheduledOrRunningJobs
<1>5. CASE StopPool
  BY <1>5 DEF StopPool, sampleVars, PromisedStep, Pool!CallStop, Pool!queueVars,
              Pool!HasScheduledOrRunningJobs
<1>6. CASE ClearJobs
  BY <1>6 DEF ClearJobs, sampleVars, PromisedStep, Pool!OwnerClear, Pool!ClearScheduledJobs,
              Pool!HasScheduledOrRunningJobs
<1>7. CASE JoinStatistics
  <2>1. ~Pool!HasScheduledOrRunningJobs /\ round > 0 /\ round \in Nat
    BY <1>7, RendererAssumption
       DEF JoinStatistics, RInv, NoJobLeft, MasterInStep, RendererTypeOK
  <2>. QED  BY <1>7, <2>1 DEF JoinStatistics, sampleVars, PromisedStep
<1>8. CASE BeginDestruction
  <2>1. ~Pool!HasScheduledOrRunningJobs
    BY <1>8 DEF BeginDestruction, RInv, NoJobLeft
  <2>. QED  BY <1>8, <2>1 DEF BeginDestruction, sampleVars, PromisedStep
<1>9. CASE ReleaseGenerators \/ DestroyPool
  BY <1>9 DEF ReleaseGenerators, DestroyPool, sampleVars, PromisedStep
<1>10. CASE PoolCallProgress
  <2>1. UNCHANGED <<phase, round, frame>>
    BY <1>10 DEF PoolCallProgress, masterVars, sampleVars
  <2>2. Pool!HasScheduledOrRunningJobs' => Pool!HasScheduledOrRunningJobs
    BY <1>10 DEF PoolCallProgress, Pool!StartWorker, Pool!StopWorker, Pool!JoinWorker,
                 Pool!queueVars, Pool!HasScheduledOrRunningJobs
  <2>. QED  BY <2>1, <2>2, QuietRefines
<1>. QED  BY <1>1, <1>2, <1>3, <1>4, <1>5, <1>6, <1>7, <1>8, <1>9, <1>10
          DEF MasterProgress, MasterCall

\* Every step of the progressive frame renderer is one that IFrameRenderer promises,
\* or changes nothing that its owner can see.
LEMMA StepRefines ==
    ASSUME Inv, [Next]_vars
    PROVE  [Promised!FrameRendererNext]_<<ModeNow, frame>>
<1>1. RInv /\ PoolFacts
  BY PoolFactsHold DEF Inv
<1>2. ASSUME NEW w \in Worker, WorkerRuns(w) \/ ThrowInJob(w) PROVE PromisedStep
  BY <1>1, <1>2, WorkerRefines
<1>3. ASSUME StatisticsStep \/ UNCHANGED vars PROVE PromisedStep
  <2>1. UNCHANGED <<poolVars, masterVars, sampleVars>>
    BY <1>3 DEF StatisticsStep, StatisticsTestSwitch, StatisticsRead, vars
  <2>. QED  BY <1>1, <2>1, QuietRefines
            DEF poolVars, masterVars, sampleVars, Pool!HasScheduledOrRunningJobs
<1>4. ASSUME MasterProgress \/ MasterCall PROVE PromisedStep
  BY <1>1, <1>4, MasterRefines
<1>5. PromisedStep
  BY <1>2, <1>3, <1>4 DEF Next
<1>. QED  BY <1>5, PromisedStepIs

\* The jobs that schedule each other, the threads and the stop and destroy sequences
\* together implement a frame renderer whose frame only changes while it is rendering,
\* and that only its owner starts.
THEOREM FrameRendererRefinement == Spec => ImplementsFrameRenderer
<1>1. Init => Promised!FrameRendererInit
  BY DEF Init, Promised!FrameRendererInit
<1>2. Inv /\ [Next]_vars => [Promised!FrameRendererNext]_<<ModeNow, frame>>
  BY StepRefines
<1>. QED  BY <1>1, <1>2, Invariance, PTL
          DEF Spec, ImplementsFrameRenderer, Promised!FrameRendererSpec, ModeNow

-----------------------------------------------------------------------------
(* The budget: what is reserved is stored or on its way to the framebuffer. *)

\* As many elements for each x in S as f[x] says.
Units(S, f) == UNION {{x} \X (1 .. f[x]) : x \in S}

\* There are finitely many.
LEMMA UnitsFinite ==
    ASSUME NEW S, IsFiniteSet(S), NEW f \in [S -> Nat]
    PROVE  IsFiniteSet(Units(S, f))
<1>. DEFINE part == [x \in S |-> {x} \X (1 .. f[x])]
            parts == {part[x] : x \in S}
<1>1. IsFiniteSet(parts)
  <2>1. parts = {part[x] : x \in S}
    OBVIOUS
  <2>2. part \in [S -> {part[x] : x \in S}]
    OBVIOUS
  <2>3. part \in Surjection(S, parts)
    BY <2>2 DEF Surjection
  <2>. HIDE DEF parts, part
  <2>. QED  BY <2>3, FS_Surjection
<1>2. \A T \in parts : IsFiniteSet(T)
  <2>1. SUFFICES ASSUME NEW x \in S PROVE IsFiniteSet({x} \X (1 .. f[x]))
    OBVIOUS
  <2>2. f[x] \in Int /\ 1 \in Int
    OBVIOUS
  <2>3. IsFiniteSet({x}) /\ IsFiniteSet(1 .. f[x])
    BY <2>2, FS_Singleton, FS_Interval
  <2>. QED  BY <2>3, FS_Product
<1>3. Units(S, f) = UNION parts
  BY DEF Units
<1>. HIDE DEF parts
<1>. QED  BY <1>1, <1>2, <1>3, FS_UNION

\* Those of one x and of the others.
LEMMA UnitsSplit ==
    ASSUME NEW S, IsFiniteSet(S), NEW f \in [S -> Nat], NEW x \in S
    PROVE  /\ Cardinality(Units(S, f)) = Cardinality(Units(S \ {x}, f)) + f[x]
           /\ Cardinality(Units(S \ {x}, f)) \in Nat
<1>. DEFINE R == S \ {x}
            own == {x} \X (1 .. f[x])
<1>1. IsFiniteSet(own) /\ Cardinality(own) = f[x]
  <2>1. /\ IsFiniteSet({x}) /\ Cardinality({x}) = 1
        /\ IsFiniteSet(1 .. f[x]) /\ Cardinality(1 .. f[x]) = f[x]
    <3>1. f[x] \in Nat /\ f[x] \in Int /\ 1 \in Int
      OBVIOUS
    <3>2. IsFiniteSet(1 .. f[x]) /\ Cardinality(1 .. f[x]) = IF 1 > f[x] THEN 0 ELSE f[x] - 1 + 1
      BY <3>1, FS_Interval
    <3>3. Cardinality(1 .. f[x]) = f[x]
      BY <3>1, <3>2
    <3>4. IsFiniteSet({x}) /\ Cardinality({x}) = 1
      BY FS_Singleton
    <3>. QED  BY <3>2, <3>3, <3>4
  <2>2. IsFiniteSet(own) /\ Cardinality(own) = Cardinality({x}) * Cardinality(1 .. f[x])
    BY <2>1, FS_Product
  <2>. QED  BY <2>1, <2>2
<1>2. IsFiniteSet(Units(R, f))
  <2>1. IsFiniteSet(R)
    BY FS_Subset
  <2>2. [y \in R |-> f[y]] \in [R -> Nat]
    OBVIOUS
  <2>3. IsFiniteSet(Units(R, [y \in R |-> f[y]]))
    BY <2>1, <2>2, UnitsFinite
  <2>4. Units(R, [y \in R |-> f[y]]) = Units(R, f)
    BY DEF Units
  <2>. QED  BY <2>3, <2>4
<1>3. Units(S, f) = Units(R, f) \cup own /\ Units(R, f) \cap own = {}
  BY DEF Units
<1>4. Cardinality(Units(R, f)) \in Nat
  BY <1>2, FS_CardinalityType
<1>5. Cardinality({}) = 0
  BY FS_EmptySet
<1>6. Units(R, f) = Units(S \ {x}, f)
  OBVIOUS
<1>. HIDE DEF own, R
<1>7. Cardinality(Units(R, f) \cup own)
        = Cardinality(Units(R, f)) + Cardinality(own) - Cardinality(Units(R, f) \cap own)
  BY <1>1, <1>2, FS_Union
<1>8. Cardinality(Units(S, f)) = Cardinality(Units(R, f)) + f[x]
  <2>1. f[x] \in Nat
    OBVIOUS
  <2>2. Cardinality(Units(R, f) \cap own) = 0
    BY <1>3, <1>5
  <2>3. Cardinality(Units(S, f)) = Cardinality(Units(R, f) \cup own)
    BY <1>3
  <2>. QED  BY <1>1, <1>4, <1>7, <2>1, <2>2, <2>3
<1>. QED  BY <1>4, <1>6, <1>8

\* Only the units of x change with f[x].
LEMMA UnitsChange ==
    ASSUME NEW S, IsFiniteSet(S), NEW f \in [S -> Nat], NEW g \in [S -> Nat], NEW x \in S,
           \A y \in S \ {x} : g[y] = f[y]
    PROVE  /\ Cardinality(Units(S, f)) \in Nat
           /\ Cardinality(Units(S, g)) = Cardinality(Units(S, f)) - f[x] + g[x]
<1>1. Units(S \ {x}, g) = Units(S \ {x}, f)
  BY DEF Units
<1>2. /\ Cardinality(Units(S, f)) = Cardinality(Units(S \ {x}, f)) + f[x]
      /\ Cardinality(Units(S, g)) = Cardinality(Units(S \ {x}, g)) + g[x]
      /\ Cardinality(Units(S \ {x}, f)) \in Nat
  BY UnitsSplit
<1>3. f[x] \in Nat /\ g[x] \in Nat
  OBVIOUS
<1>. QED  BY <1>1, <1>2, <1>3

\* The pending samples are the units of what each worker has not stored.
LEMMA PendingUnits ==
    ASSUME quota \in [Worker -> Nat], stored \in [Worker -> Nat]
    PROVE  /\ PendingSamples = Units(Worker, [w \in Worker |-> Unstored(w)])
           /\ \A w \in Worker : Unstored(w) \in Nat
           /\ Cardinality(PendingSamples) \in Nat
<1>1. PendingSamples = Units(Worker, [w \in Worker |-> Unstored(w)])
  BY DEF PendingSamples, Units
<1>2. \A w \in Worker : Unstored(w) \in Nat
  BY DEF Unstored
<1>3. IsFiniteSet(Worker)
  BY FS_Interval, RendererAssumption DEF Worker
<1>4. IsFiniteSet(Units(Worker, [w \in Worker |-> Unstored(w)]))
  BY <1>2, <1>3, UnitsFinite
<1>. QED  BY <1>1, <1>2, <1>4, FS_CardinalityType

\* A step of one worker changes their number by what it changes for that worker.
LEMMA PendingChange ==
    ASSUME RendererTypeOK, RendererTypeOK', NEW w \in Worker,
           \A v \in Worker \ {w} : Unstored(v)' = Unstored(v)
    PROVE  /\ Cardinality(PendingSamples) \in Nat
           /\ Cardinality(PendingSamples)' = Cardinality(PendingSamples) - Unstored(w) + Unstored(w)'
           /\ Unstored(w) \in Nat /\ Unstored(w)' \in Nat
<1>. DEFINE now == [v \in Worker |-> Unstored(v)]
            next == [v \in Worker |-> Unstored(v)']
<1>1. /\ PendingSamples = Units(Worker, now) /\ now \in [Worker -> Nat]
      /\ Cardinality(PendingSamples) \in Nat
  BY PendingUnits DEF RendererTypeOK
<1>2. PendingSamples' = Units(Worker, next) /\ next \in [Worker -> Nat]
  <2>1. PendingSamples' = Units(Worker, next)
    BY DEF PendingSamples, Units
  <2>2. \A v \in Worker : Unstored(v)' \in Nat
    BY DEF Unstored, RendererTypeOK
  <2>. QED  BY <2>1, <2>2
<1>3. now[w] = Unstored(w) /\ next[w] = Unstored(w)' /\ \A v \in Worker \ {w} : next[v] = now[v]
  OBVIOUS
<1>4. IsFiniteSet(Worker)
  BY FS_Interval, RendererAssumption DEF Worker
<1>. HIDE DEF now, next
<1>5. Cardinality(Units(Worker, next)) = Cardinality(Units(Worker, now)) - now[w] + next[w]
  BY <1>1, <1>2, <1>3, <1>4, UnitsChange
<1>. QED  BY <1>1, <1>2, <1>3, <1>5

\* The half of BudgetInv that is about numbers of samples.
SamplesInv == SamplesReserved /\ \A w \in Worker : LoopInStep(w)

\* A step that leaves the loops and the framebuffer alone preserves it, if it does not
\* take an abort back.
LEMMA SamplesUntouched ==
    ASSUME SamplesInv, UNCHANGED <<step, quota, stored, reserved, buffer>>,
           \A w \in Worker : pc'[w] = "execute" <=> pc[w] = "execute",
           abortSwitch => abortSwitch'
    PROVE  SamplesInv'
<1>1. \A w \in Worker : Unstored(w)' = Unstored(w)
  BY DEF Unstored, At
<1>2. PendingSamples' = PendingSamples
  BY <1>1 DEF PendingSamples
<1>3. SamplesReserved'
  BY <1>2 DEF SamplesInv, SamplesReserved
<1>4. \A w \in Worker : LoopInStep(w)'
  BY DEF SamplesInv, LoopInStep, At
<1>. QED  BY <1>3, <1>4 DEF SamplesInv

\* run() around the job: a worker that acquires a job has nothing reserved yet.
LEMMA RunLoopSamples ==
    ASSUME RInv, PoolFacts, SamplesInv, NEW w \in Worker, RunLoop(w)
    PROVE  SamplesInv'
<1>1. UNCHANGED <<step, quota, stored, reserved, buffer, abortSwitch>>
  BY DEF RunLoop, jobVars, sampleVars
<1>2. \A v \in Worker : pc'[v] # pc[v] => step[v] = "reserve"
  <2>1. \A v \in Worker \ {w} : pc'[v] = pc[v]
    BY DEF RunLoop, PoolFacts, Pool!TestAbort, Pool!AcquireJob, Pool!FindQueueEmpty,
           Pool!RetireJob, Pool!DeleteJob, Pool!Goto
  <2>2. pc[w] # "execute"
    BY DEF RunLoop, Pool!TestAbort, Pool!AcquireJob, Pool!FindQueueEmpty, Pool!RetireJob,
           Pool!DeleteJob, Pool!Goto
  <2>3. step[w] = "reserve"
    BY <2>2 DEF RInv, JobsInStep, JobInStep
  <2>. QED  BY <2>1, <2>3
<1>3. \A v \in Worker, s \in {"generate", "store"} : At(v, s)' = At(v, s)
  BY <1>1, <1>2 DEF At
<1>4. \A v \in Worker : Unstored(v)' = Unstored(v)
  BY <1>1, <1>3 DEF Unstored
<1>5. PendingSamples' = PendingSamples
  BY <1>4 DEF PendingSamples
<1>6. SamplesReserved'
  BY <1>1, <1>5 DEF SamplesInv, SamplesReserved
<1>7. \A v \in Worker : LoopInStep(v)'
  BY <1>1, <1>3 DEF SamplesInv, LoopInStep
<1>. QED  BY <1>6, <1>7 DEF SamplesInv

\* A reservation is added to what is pending.
LEMMA ReserveSamplesCounts ==
    ASSUME RInv, RInv', PoolFacts, SamplesInv, NEW w \in Worker, ReserveSamples(w)
    PROVE  SamplesInv'
<1>. DEFINE count == Reservation(held[w][3])
<1>1. /\ At(w, "reserve")
      /\ reserved' = reserved + count
      /\ quota' = [quota EXCEPT ![w] = count]
      /\ step' = [step EXCEPT ![w] = IF count = 0 THEN "done" ELSE "generate"]
      /\ UNCHANGED <<pc, buffer, stored, abortSwitch>>
  BY DEF ReserveSamples, poolVars
<1>2. RendererTypeOK /\ RendererTypeOK' /\ reserved <= MaxSamples
  BY DEF RInv, PassesReserved
<1>3. held[w][3] \in Nat
  <2>1. held[w] \in RenderJob
    BY <1>1 DEF PoolFacts, At
  <2>. QED  BY <2>1, RendererAssumption DEF RenderJob
<1>4. count \in Nat
  <2>1. reserved \in Nat /\ MaxSamples \in Nat
    BY <1>2, RendererAssumption DEF RendererTypeOK
  <2>2. count \in 0 .. MaxSamples - reserved
    BY <1>2, <1>3, ReservationBounds
  <2>. HIDE DEF count
  <2>. QED  BY <2>1, <2>2
<1>. HIDE DEF count
<1>5. /\ \A v \in Worker \ {w} : step'[v] = step[v] /\ quota'[v] = quota[v]
      /\ quota'[w] = count /\ step'[w] = (IF count = 0 THEN "done" ELSE "generate")
  BY <1>1, <1>2 DEF RendererTypeOK
<1>6. \A v \in Worker \ {w} : Unstored(v)' = Unstored(v)
  BY <1>1, <1>5 DEF Unstored, At
<1>7. Unstored(w) = 0 /\ Unstored(w)' = count
  BY <1>1, <1>5 DEF Unstored, At
<1>8. Cardinality(PendingSamples)' = Cardinality(PendingSamples) + count
      /\ Cardinality(PendingSamples) \in Nat
  BY <1>2, <1>4, <1>6, <1>7, PendingChange
<1>9. SamplesReserved'
  <2>1. reserved \in Nat /\ buffer.samples \in Nat
    BY <1>2 DEF RendererTypeOK
  <2>. QED  BY <1>1, <1>4, <1>8, <2>1 DEF SamplesInv, SamplesReserved
<1>10. \A v \in Worker : LoopInStep(v)'
  <2>1. LoopInStep(w)'
    BY <1>1, <1>4, <1>5 DEF SamplesInv, LoopInStep, At
  <2>2. \A v \in Worker \ {w} : LoopInStep(v)'
    BY <1>1, <1>5 DEF SamplesInv, LoopInStep, At
  <2>. QED  BY <2>1, <2>2
<1>. QED  BY <1>9, <1>10 DEF SamplesInv

\* With at most one sample for each index, the loop stores no more than was reserved, and
\* unless it is aborted no less.
LEMMA GenerateSamplesCounts ==
    ASSUME SamplesPerIndex \subseteq {0, 1},
           RInv, RInv', SamplesInv, NEW w \in Worker, GenerateSamples(w)
    PROVE  SamplesInv'
<1>1. PICK n \in SamplesPerIndex :
         /\ stored' = [stored EXCEPT ![w] = @ + n]
         /\ step' = [step EXCEPT ![w] = IF LeavesLoop(w, stored[w] + n) THEN "store" ELSE @]
  BY DEF GenerateSamples
<1>2. At(w, "generate") /\ UNCHANGED <<pc, quota, reserved, buffer, abortSwitch>>
  BY DEF GenerateSamples, poolVars, sampleVars
<1>3. RendererTypeOK /\ RendererTypeOK'
  BY DEF RInv
<1>4. /\ \A v \in Worker \ {w} : step'[v] = step[v] /\ stored'[v] = stored[v]
      /\ stored'[w] = stored[w] + n
      /\ step'[w] = IF LeavesLoop(w, stored[w] + n) THEN "store" ELSE "generate"
  BY <1>1, <1>2, <1>3 DEF RendererTypeOK, At
<1>5. /\ stored[w] \in Nat /\ quota[w] \in Nat /\ stored[w] < quota[w]
      /\ reserved \in Nat /\ buffer.samples \in Nat
  BY <1>2, <1>3 DEF RendererTypeOK, SamplesInv, LoopInStep
<1>6. n \in {0, 1}
  BY <1>1
<1>7. stored'[w] <= quota[w]
  BY <1>4, <1>5, <1>6
<1>8. CASE step'[w] = "store"
  <2>1. abortSwitch \/ stored'[w] = quota[w]
    BY <1>4, <1>5, <1>7, <1>8 DEF LeavesLoop
  <2>2. \A v \in Worker \ {w} : Unstored(v)' = Unstored(v)
    BY <1>2, <1>4 DEF Unstored, At
  <2>3. Unstored(w) = quota[w] /\ Unstored(w)' = stored'[w]
    BY <1>2, <1>8 DEF Unstored, At
  <2>4. /\ Cardinality(PendingSamples) \in Nat
        /\ Cardinality(PendingSamples)' = Cardinality(PendingSamples) - quota[w] + stored'[w]
        /\ stored'[w] \in Nat
    BY <1>3, <2>2, <2>3, PendingChange
  <2>5. SamplesReserved'
    BY <1>2, <1>5, <1>7, <2>1, <2>4 DEF SamplesInv, SamplesReserved
  <2>6. LoopInStep(w)'
    BY <1>2, <1>7, <1>8, <2>1 DEF LoopInStep, At
  <2>7. \A v \in Worker \ {w} : LoopInStep(v)'
    BY <1>2, <1>4 DEF SamplesInv, LoopInStep, At
  <2>. QED  BY <2>5, <2>6, <2>7 DEF SamplesInv
<1>9. CASE step'[w] = "generate"
  <2>1. \A v \in Worker : Unstored(v)' = Unstored(v)
    BY <1>2, <1>4, <1>9 DEF Unstored, At
  <2>2. PendingSamples' = PendingSamples
    BY <2>1 DEF PendingSamples
  <2>3. SamplesReserved'
    BY <1>2, <2>2 DEF SamplesInv, SamplesReserved
  <2>4. ~(stored[w] + n >= quota[w])
    BY <1>4, <1>9 DEF LeavesLoop
  <2>5. LoopInStep(w)'
    BY <1>2, <1>4, <1>5, <1>6, <1>9, <2>4 DEF LoopInStep, At
  <2>6. \A v \in Worker \ {w} : LoopInStep(v)'
    BY <1>2, <1>4 DEF SamplesInv, LoopInStep, At
  <2>. QED  BY <2>3, <2>5, <2>6 DEF SamplesInv
<1>. QED  BY <1>4, <1>8, <1>9

\* What a failing job has reserved is lost.
LEMMA ThrowSamples ==
    ASSUME RInv, RInv', SamplesInv, NEW w \in Worker, ThrowInJob(w)
    PROVE  SamplesInv'
<1>1. /\ MayThrow /\ At(w, "generate") /\ step' = [step EXCEPT ![w] = "done"]
      /\ UNCHANGED <<pc, quota, stored, reserved, buffer, abortSwitch>>
  BY DEF ThrowInJob, poolVars, sampleVars
<1>2. RendererTypeOK /\ RendererTypeOK'
  BY DEF RInv
<1>3. step'[w] = "done" /\ \A v \in Worker \ {w} : step'[v] = step[v]
  BY <1>1, <1>2 DEF RendererTypeOK
<1>4. \A v \in Worker \ {w} : Unstored(v)' = Unstored(v)
  BY <1>1, <1>3 DEF Unstored, At
<1>5. Unstored(w)' = 0
  BY <1>3 DEF Unstored, At
<1>6. /\ Cardinality(PendingSamples) \in Nat /\ Unstored(w) \in Nat
      /\ Cardinality(PendingSamples)' = Cardinality(PendingSamples) - Unstored(w) + 0
  BY <1>2, <1>4, <1>5, PendingChange
<1>7. SamplesReserved'
  <2>1. reserved \in Nat /\ buffer.samples \in Nat
    BY <1>2 DEF RendererTypeOK
  <2>. QED  BY <1>1, <1>6, <2>1 DEF SamplesInv, SamplesReserved
<1>8. \A v \in Worker : LoopInStep(v)'
  BY <1>1, <1>3 DEF SamplesInv, LoopInStep, At
<1>. QED  BY <1>7, <1>8 DEF SamplesInv

\* Storing moves samples from the worker to the framebuffer.
LEMMA StoreSamplesCounts ==
    ASSUME RInv, RInv', SamplesInv, NEW w \in Worker, StoreSamples(w)
    PROVE  SamplesInv'
<1>1. /\ At(w, "store")
      /\ buffer' = IF GlobalFramebuffer THEN StoredGlobally(stored[w])
                                        ELSE StoredLocally(stored[w])
      /\ step' = [step EXCEPT ![w] = IF GlobalFramebuffer THEN "count" ELSE "develop"]
      /\ UNCHANGED <<pc, quota, stored, reserved, abortSwitch>>
  BY DEF StoreSamples, poolVars
<1>2. RendererTypeOK /\ RendererTypeOK'
  BY DEF RInv
<1>3. /\ step'[w] \in {"count", "develop"} /\ \A v \in Worker \ {w} : step'[v] = step[v]
      /\ stored[w] \in Nat /\ reserved \in Nat /\ buffer.samples \in Nat /\ buffer.count \in Nat
  BY <1>1, <1>2 DEF RendererTypeOK
<1>4. \A v \in Worker \ {w} : Unstored(v)' = Unstored(v)
  BY <1>1, <1>3 DEF Unstored, At
<1>5. Unstored(w) = stored[w] /\ Unstored(w)' = 0
  BY <1>1, <1>3 DEF Unstored, At
<1>6. /\ Cardinality(PendingSamples) \in Nat
      /\ Cardinality(PendingSamples)' = Cardinality(PendingSamples) - stored[w] + 0
  BY <1>2, <1>4, <1>5, PendingChange
<1>7. /\ buffer'.samples = buffer.samples + stored[w]
      /\ ~GlobalFramebuffer => buffer'.count = buffer.count + stored[w]
  BY <1>1, <1>2 DEF RendererTypeOK, StoredGlobally, StoredLocally
<1>8. SamplesReserved'
  BY <1>1, <1>3, <1>6, <1>7 DEF SamplesInv, SamplesReserved
<1>9. \A v \in Worker : LoopInStep(v)'
  BY <1>1, <1>3 DEF SamplesInv, LoopInStep, At
<1>. QED  BY <1>8, <1>9 DEF SamplesInv

\* The rest of the job stores nothing.
LEMMA MoveOnSamples ==
    ASSUME RInv, PoolFacts, SamplesInv, NEW w \in Worker,
           \/ CountPaths(w) \/ RenderToFrame(w) \/ TestSwitch(w)
           \/ ScheduleNextPass(w) \/ ReturnFromJob(w)
    PROVE  SamplesInv'
<1>1. RendererTypeOK
  BY DEF RInv
<1>2. /\ pc[w] = "execute" /\ step[w] \in {"count", "develop", "reschedule", "schedule", "done"}
      /\ UNCHANGED <<reserved, abortSwitch>>
      /\ buffer'.samples = buffer.samples
      /\ ~GlobalFramebuffer => buffer'.count = buffer.count
  <2>1. CASE CountPaths(w)
    <3>1. GlobalFramebuffer
      BY <2>1 DEF CountPaths, RInv, JobsInStep, JobInStep, At
    <3>. QED  BY <1>1, <2>1, <3>1 DEF CountPaths, IncrementSampleCount, At, RendererTypeOK
  <2>2. CASE RenderToFrame(w)
    BY <2>2 DEF RenderToFrame, At
  <2>3. CASE TestSwitch(w) \/ ScheduleNextPass(w) \/ ReturnFromJob(w)
    BY <2>3 DEF TestSwitch, ScheduleNextPass, ReturnFromJob, At, sampleVars
  <2>. QED  BY <2>1, <2>2, <2>3
<1>3. /\ \/ step'[w] \in {"develop", "reschedule", "schedule", "done"}
         \/ step'[w] = "reserve" /\ stored'[w] = 0
      /\ \A v \in Worker \ {w} : /\ step'[v] = step[v] /\ quota'[v] = quota[v]
                                 /\ stored'[v] = stored[v] /\ pc'[v] = pc[v]
  <2>1. CASE CountPaths(w) \/ RenderToFrame(w) \/ TestSwitch(w)
    <3>1. /\ UNCHANGED <<pc, quota, stored>>
          /\ \E to \in {"develop", "reschedule", "schedule", "done"} :
                step' = [step EXCEPT ![w] = to]
      BY <2>1 DEF CountPaths, RenderToFrame, TestSwitch, poolVars
    <3>2. PICK to \in {"develop", "reschedule", "schedule", "done"} :
             step' = [step EXCEPT ![w] = to]
      BY <3>1
    <3>3. step'[w] = to /\ \A v \in Worker \ {w} : step'[v] = step[v]
      BY <1>1, <3>2 DEF RendererTypeOK
    <3>. QED  BY <3>1, <3>3
  <2>2. CASE ScheduleNextPass(w)
    <3>1. UNCHANGED <<pc, quota, stored>> /\ step' = [step EXCEPT ![w] = "done"]
      BY <2>2 DEF ScheduleNextPass, Pool!ScheduleFromJob, Pool!workerVars
    <3>2. step'[w] = "done" /\ \A v \in Worker \ {w} : step'[v] = step[v]
      BY <1>1, <3>1 DEF RendererTypeOK
    <3>. QED  BY <3>1, <3>2
  <2>3. CASE ReturnFromJob(w)
    BY <1>1, <2>3 DEF ReturnFromJob, RendererTypeOK, Pool!FinishExecution, Pool!Goto, PoolFacts
  <2>. QED  BY <2>1, <2>2, <2>3
<1>4. \A v \in Worker : Unstored(v)' = Unstored(v)
  BY <1>2, <1>3 DEF Unstored, At
<1>5. PendingSamples' = PendingSamples
  BY <1>4 DEF PendingSamples
<1>6. SamplesReserved'
  BY <1>2, <1>5 DEF SamplesInv, SamplesReserved
<1>7. \A v \in Worker : LoopInStep(v)'
  <2>1. LoopInStep(w)'
    BY <1>3 DEF LoopInStep, At
  <2>2. \A v \in Worker \ {w} : LoopInStep(v)'
    BY <1>2, <1>3 DEF SamplesInv, LoopInStep, At
  <2>. QED  BY <2>1, <2>2
<1>. QED  BY <1>6, <1>7 DEF SamplesInv

\* A restart finds nothing pending.
LEMMA StartSamples ==
    ASSUME RInv, RInv', PoolFacts, SamplesInv, StartRendering
    PROVE  SamplesInv'
<1>1. /\ phase = "off" /\ reserved' = 0 /\ buffer' = EmptyBuffer
      /\ UNCHANGED <<pc, step, quota, stored>>
  BY DEF StartRendering, MasterMoves, poolVars, jobVars
<1>2. \A w \in Worker : pc[w] = "none"
  BY <1>1 DEF RInv, MasterInStep, PoolFacts
<1>3. \A w \in Worker : Unstored(w)' = 0
  BY <1>1, <1>2 DEF Unstored, At
<1>4. PendingSamples' = {}
  BY <1>3 DEF PendingSamples
<1>5. Cardinality(PendingSamples)' = 0
  BY <1>4, FS_EmptySet
<1>6. SamplesReserved'
  BY <1>1, <1>5 DEF SamplesReserved, EmptyBuffer
<1>7. \A w \in Worker : LoopInStep(w)'
  BY <1>1, <1>2 DEF SamplesInv, LoopInStep, At
<1>. QED  BY <1>6, <1>7 DEF SamplesInv

\* The other steps of the master thread and those of the statistics thread reserve and
\* store nothing.
LEMMA MasterSamples ==
    ASSUME PoolFacts, SamplesInv,
           StatisticsStep \/ MasterProgress \/ StopRendering \/ BeginDestruction
    PROVE  SamplesInv'
<1>1. UNCHANGED <<step, quota, stored, reserved, buffer>> /\ (abortSwitch => abortSwitch')
  BY DEF StatisticsStep, StatisticsTestSwitch, StatisticsRead, MasterProgress,
         ScheduleFirstPass, StartPool, StartStatistics, RenderingEnds, StopPool, ClearJobs,
         JoinStatistics, ReleaseGenerators, DestroyPool, PoolCallProgress, StopRendering,
         BeginDestruction, jobVars, sampleVars
<1>2. \A w \in Worker : pc'[w] = "execute" <=> pc[w] = "execute"
  <2>1. CASE PoolCallProgress
    BY <2>1 DEF PoolCallProgress, Pool!StartWorker, Pool!StopWorker, Pool!JoinWorker, Pool!Goto,
                PoolFacts
  <2>2. CASE ~PoolCallProgress
    <3>1. pc' = pc
      BY <2>2 DEF StatisticsStep, StatisticsTestSwitch, StatisticsRead, MasterProgress,
         ScheduleFirstPass, StartPool, StartStatistics, RenderingEnds, StopPool, ClearJobs,
         JoinStatistics, ReleaseGenerators, DestroyPool, StopRendering, BeginDestruction,
         poolVars, Pool!workerVars, Pool!OwnerSchedule, Pool!CallStart, Pool!CallStop,
         Pool!OwnerClear, Pool!Destroy
    <3>. QED  BY <3>1
  <2>. QED  BY <2>1, <2>2
<1>. QED  BY <1>1, <1>2, SamplesUntouched

\* While a job is being acquired, run and succeeded, there is always one left to go on
\* reserving.
LEMMA WorkerPursues ==
    ASSUME RInv, PoolFacts, PoolFacts', BudgetPursued,
           NEW w \in Worker, WorkerRuns(w) \/ ThrowInJob(w)
    PROVE  BudgetPursued'
<1>1. UNCHANGED <<phase, nextGen, abortSwitch, created>>
  BY DEF WorkerRuns, RunLoop, JobStep, ReserveSamples, GenerateSamples, StoreSamples, CountPaths,
         RenderToFrame, TestSwitch, ScheduleNextPass, ReturnFromJob, ThrowInJob, masterVars,
         poolVars, Pool!TestAbort, Pool!AcquireJob, Pool!FindQueueEmpty, Pool!RetireJob,
         Pool!DeleteJob, Pool!ScheduleFromJob, Pool!FinishExecution, Pool!managerVars
<1>2. pc[w] # "none"
  BY DEF WorkerRuns, RunLoop, JobStep, ReserveSamples, GenerateSamples, StoreSamples, CountPaths,
         RenderToFrame, TestSwitch, ScheduleNextPass, ReturnFromJob, ThrowInJob, At,
         Pool!TestAbort, Pool!AcquireJob, Pool!FindQueueEmpty, Pool!RetireJob, Pool!DeleteJob,
         Pool!Goto
<1>3. phase \notin {"off", "scheduling", "launching"}
  BY <1>2 DEF PoolFacts, RInv, MasterInStep
<1>4. RendererTypeOK /\ RendererTypeOK' /\ reserved <= MaxSamples /\ MaxSamples \in Nat
      /\ reserved \in Nat
  <2>1. RendererTypeOK'
    BY RunLoopKeeps, ReserveKeeps, GenerateKeeps, StoreKeeps, CountKeeps, DevelopKeeps,
       MoveOnKeeps, ScheduleNextKeeps, ReturnKeeps DEF WorkerRuns, JobStep, RInv
  <2>. QED  BY <2>1, RendererAssumption DEF RInv, PassesReserved, RendererTypeOK
<1>5. SUFFICES ASSUME ~MayThrow, reserved' < MaxSamples
               PROVE  /\ phase \in {"started", "rendering"} =>
                            scheduled' # <<>> \/ \E v \in Worker : Active(v)'
                      /\ phase # "ended"
  BY <1>1, <1>3 DEF BudgetPursued
<1>6. CASE ReserveSamples(w)
  <2>. DEFINE count == Reservation(held[w][3])
  <2>1. /\ At(w, "reserve") /\ reserved' = reserved + count
        /\ step' = [step EXCEPT ![w] = IF count = 0 THEN "done" ELSE "generate"]
        /\ UNCHANGED pc
    BY <1>6 DEF ReserveSamples, poolVars
  <2>2. held[w][3] \in Nat
    <3>1. held[w] \in RenderJob
      BY <2>1 DEF PoolFacts, At
    <3>. QED  BY <3>1, RendererAssumption DEF RenderJob
  <2>3. count \in 0 .. MaxSamples - reserved /\ (reserved < MaxSamples => count > 0)
    BY <1>4, <2>2, ReservationBounds
  <2>. HIDE DEF count
  <2>4. reserved < MaxSamples /\ count # 0
    BY <1>4, <1>5, <2>1, <2>3
  <2>5. Active(w)'
    BY <1>4, <2>1, <2>4 DEF RendererTypeOK, Active, At
  <2>. QED  BY <1>4, <2>4, <2>5, <1>5 DEF BudgetPursued
<1>7. CASE ~ReserveSamples(w)
  <2>1. UNCHANGED reserved
    BY <1>7 DEF WorkerRuns, RunLoop, JobStep, GenerateSamples, StoreSamples, CountPaths,
       RenderToFrame, TestSwitch, ScheduleNextPass, ReturnFromJob, ThrowInJob, sampleVars
  <2>2. /\ phase \in {"started", "rendering"} => scheduled # <<>> \/ \E v \in Worker : Active(v)
        /\ phase # "ended"
    BY <1>5, <2>1 DEF BudgetPursued
  <2>3. CASE Pool!AcquireJob(w) /\ RunLoop(w)
    <3>1. /\ pc[w] = "acquire" /\ pc' = [pc EXCEPT ![w] = "execute"] /\ UNCHANGED step
      BY <2>3 DEF RunLoop, Pool!AcquireJob, Pool!Goto, jobVars
    <3>2. step[w] = "reserve" /\ pc'[w] = "execute"
      BY <3>1 DEF RInv, JobsInStep, JobInStep, PoolFacts
    <3>3. Active(w)'
      BY <3>1, <3>2 DEF Active
    <3>. QED  BY <2>2, <3>3
  <2>4. CASE RunLoop(w) /\ ~Pool!AcquireJob(w)
    <3>1. UNCHANGED <<step, scheduled>>
      BY <2>4 DEF RunLoop, jobVars, Pool!TestAbort, Pool!FindQueueEmpty, Pool!RetireJob,
                  Pool!DeleteJob, Pool!EraseRunningJob, Pool!DeleteRetiredJob, Pool!queueVars
    <3>2. \A v \in Worker : pc'[v] = "execute" <=> pc[v] = "execute"
      BY <2>4 DEF RunLoop, PoolFacts, Pool!TestAbort, Pool!FindQueueEmpty, Pool!RetireJob,
                  Pool!DeleteJob, Pool!Goto
    <3>3. \A v \in Worker : Active(v)' = Active(v)
      BY <3>1, <3>2 DEF Active
    <3>. QED  BY <2>2, <3>1, <3>3
  <2>5. CASE ScheduleNextPass(w)
    <3>1. scheduled' = Append(scheduled, <<held[w][1], held[w][2], held[w][3] + 1>>)
      BY <2>5 DEF ScheduleNextPass, Pool!ScheduleFromJob, Pool!Schedule
    <3>2. scheduled' # <<>>
      BY <3>1 DEF PoolFacts
    <3>. QED  BY <2>2, <3>2
  <2>6. CASE ReturnFromJob(w)
    <3>1. /\ UNCHANGED scheduled /\ step[w] = "done"
          /\ step' = [step EXCEPT ![w] = "reserve"] /\ pc' = [pc EXCEPT ![w] = "retire"]
      BY <2>6 DEF ReturnFromJob, At, Pool!FinishExecution, Pool!Goto, Pool!queueVars
    <3>2. \A v \in Worker : Active(v) => v # w /\ step'[v] = step[v] /\ pc'[v] = pc[v]
      BY <1>4, <3>1 DEF RendererTypeOK, PoolFacts, Active
    <3>3. \A v \in Worker : Active(v) => Active(v)'
      BY <3>2 DEF Active
    <3>. QED  BY <2>2, <3>1, <3>3
  <2>7. CASE GenerateSamples(w) \/ StoreSamples(w) \/ CountPaths(w) \/ RenderToFrame(w)
    <3>1. /\ UNCHANGED <<scheduled, pc>> /\ pc[w] = "execute"
          /\ \E to \in {"generate", "store", "count", "develop", "reschedule"} :
                step' = [step EXCEPT ![w] = to]
      <4>1. CASE GenerateSamples(w)
        <5>1. /\ At(w, "generate") /\ UNCHANGED <<scheduled, pc>>
              /\ \E n \in SamplesPerIndex :
                    step' = [step EXCEPT ![w] =
                                IF LeavesLoop(w, stored[w] + n) THEN "store" ELSE @]
          BY <4>1 DEF GenerateSamples, poolVars
        <5>. HIDE DEF LeavesLoop
        <5>. QED  BY <5>1 DEF At
      <4>2. CASE StoreSamples(w) \/ CountPaths(w) \/ RenderToFrame(w)
        BY <4>2 DEF StoreSamples, CountPaths, RenderToFrame, poolVars, At
      <4>. QED  BY <2>7, <4>1, <4>2
    <3>2. PICK to \in {"generate", "store", "count", "develop", "reschedule"} :
             step' = [step EXCEPT ![w] = to]
      BY <3>1
    <3>3. Active(w)'
      BY <1>4, <3>1, <3>2 DEF Active, RendererTypeOK
    <3>. QED  BY <2>2, <3>3
  <2>8. CASE TestSwitch(w)
    <3>1. /\ UNCHANGED <<scheduled, pc>> /\ pc[w] = "execute"
          /\ step' = [step EXCEPT ![w] = IF abortSwitch THEN "done" ELSE "schedule"]
      BY <2>8 DEF TestSwitch, poolVars, At
    <3>2. phase \in {"started", "rendering"} => ~abortSwitch
      BY DEF BudgetPursued
    <3>3. ~abortSwitch => Active(w)'
      BY <1>4, <3>1 DEF Active, RendererTypeOK
    <3>. QED  BY <2>2, <3>2, <3>3
  <2>. QED  BY <1>5, <1>7, <2>3, <2>4, <2>5, <2>6, <2>7, <2>8 DEF WorkerRuns, JobStep, ThrowInJob
<1>. QED  BY <1>6, <1>7

\* start_rendering() begins with a job for each generator, and rendering ends by itself
\* only when there is none.
LEMMA MasterPursues ==
    ASSUME RInv, RInv', PoolFacts, BudgetPursued, StatisticsStep \/ MasterProgress \/ MasterCall
    PROVE  BudgetPursued'
<1>. USE DEF BudgetPursued, MasterMoves
<1>1. CASE StartRendering
  BY <1>1, RendererAssumption DEF StartRendering
<1>2. CASE ScheduleFirstPass
  <2>1. /\ UNCHANGED <<reserved, abortSwitch>> /\ phase = "scheduling"
        /\ phase' \in {"scheduling", "launching"}
        /\ scheduled' = Append(scheduled, <<round, nextGen, 0>>)
    BY <1>2 DEF ScheduleFirstPass, Pool!OwnerSchedule, Pool!Schedule, sampleVars
  <2>2. scheduled' # <<>>
    BY <2>1 DEF PoolFacts
  <2>. QED  BY <2>1, <2>2
<1>3. CASE StartPool \/ StartStatistics
  <2>1. UNCHANGED <<reserved, abortSwitch, scheduled, pc, step>>
        /\ \/ phase = "launching" /\ phase' = "started"
           \/ phase = "started" /\ phase' = "rendering"
    BY <1>3 DEF StartPool, StartStatistics, sampleVars, poolVars, jobVars, Pool!CallStart,
                Pool!queueVars, Pool!workerVars
  <2>. QED  BY <2>1 DEF Active
<1>4. CASE RenderingEnds
  <2>1. /\ UNCHANGED <<reserved, abortSwitch>> /\ phase = "rendering" /\ phase' = "ended"
        /\ scheduled = <<>> /\ running = {}
    BY <1>4 DEF RenderingEnds, sampleVars, Pool!HasScheduledOrRunningJobs
  <2>2. \A w \in Worker : ~Active(w)
    BY <2>1 DEF Active, PoolFacts
  <2>. QED  BY <2>1, <2>2
<1>5. CASE StopRendering \/ StopPool \/ ClearJobs \/ JoinStatistics \/ BeginDestruction
           \/ ReleaseGenerators \/ DestroyPool
  BY <1>5 DEF StopRendering, StopPool, ClearJobs, JoinStatistics, BeginDestruction,
              ReleaseGenerators, DestroyPool
<1>6. CASE PoolCallProgress
  <2>1. UNCHANGED <<phase, nextGen, reserved, abortSwitch, scheduled, step>>
    BY <1>6 DEF PoolCallProgress, masterVars, sampleVars, jobVars, Pool!StartWorker,
                Pool!StopWorker, Pool!JoinWorker, Pool!queueVars
  <2>2. \A w \in Worker : pc'[w] = "execute" <=> pc[w] = "execute"
    BY <1>6 DEF PoolCallProgress, Pool!StartWorker, Pool!StopWorker, Pool!JoinWorker, Pool!Goto,
                PoolFacts
  <2>3. \A w \in Worker : Active(w)' = Active(w)
    BY <2>1, <2>2 DEF Active
  <2>. QED  BY <2>1, <2>3
<1>7. CASE StatisticsStep
  <2>1. UNCHANGED <<phase, nextGen, reserved, abortSwitch, scheduled, step, pc>>
    BY <1>7 DEF StatisticsStep, StatisticsTestSwitch, StatisticsRead, poolVars, masterVars,
                sampleVars, jobVars
  <2>. QED  BY <2>1 DEF Active
<1>. QED  BY <1>1, <1>2, <1>3, <1>4, <1>5, <1>6, <1>7 DEF MasterProgress, MasterCall

\* The initial state has reserved nothing and stored nothing.
LEMMA InitBudget == Init => BudgetInv
<1>. SUFFICES ASSUME Init PROVE BudgetInv
  OBVIOUS
<1>1. \A w \in Worker : step[w] = "reserve" /\ stored[w] = 0
  BY DEF Init
<1>2. PendingSamples = {}
  BY <1>1 DEF PendingSamples, Unstored, At
<1>3. Cardinality(PendingSamples) = 0
  BY <1>2, FS_EmptySet
<1>. QED  BY <1>1, <1>3
          DEF Init, BudgetInv, LoopInStep, SamplesReserved, BudgetPursued, EmptyBuffer, At

\* Every step preserves BudgetInv, as long as an index yields one sample at most.
LEMMA NextBudget ==
    ASSUME SamplesPerIndex \subseteq {0, 1}, Inv, BudgetInv, [Next]_vars
    PROVE  BudgetInv'
<1>1. RInv /\ PoolFacts /\ PoolFacts' /\ RInv'
  <2>1. Inv'
    BY NextInv
  <2>2. PoolFacts
    BY PoolFactsHold DEF Inv
  <2>3. PoolFacts'
    BY <2>1, PoolFactsHold, PTL DEF Inv
  <2>. QED  BY <2>1, <2>2, <2>3 DEF Inv
<1>2. SamplesInv /\ BudgetPursued
  BY DEF BudgetInv, SamplesInv
<1>3. ASSUME NEW w \in Worker, WorkerRuns(w) \/ ThrowInJob(w) PROVE SamplesInv' /\ BudgetPursued'
  BY <1>1, <1>2, <1>3, WorkerPursues, RunLoopSamples, ReserveSamplesCounts, GenerateSamplesCounts,
     StoreSamplesCounts, MoveOnSamples, ThrowSamples DEF WorkerRuns, JobStep
<1>4. ASSUME StatisticsStep \/ MasterProgress \/ MasterCall PROVE SamplesInv' /\ BudgetPursued'
  BY <1>1, <1>2, <1>4, MasterPursues, StartSamples, MasterSamples DEF MasterCall
<1>5. ASSUME UNCHANGED vars PROVE SamplesInv' /\ BudgetPursued'
  <2>1. SamplesInv'
    BY <1>2, <1>5, SamplesUntouched DEF vars, jobVars, sampleVars, poolVars
  <2>2. UNCHANGED <<phase, nextGen, reserved, abortSwitch, scheduled, step, pc>>
    BY <1>5 DEF vars, poolVars, masterVars, sampleVars, jobVars
  <2>3. BudgetPursued'
    BY <1>2, <2>2 DEF BudgetPursued, Active
  <2>. QED  BY <2>1, <2>3
<1>6. SamplesInv' /\ BudgetPursued'
  BY <1>3, <1>4, <1>5 DEF Next
<1>. QED  BY <1>6 DEF SamplesInv, BudgetInv

\* So it holds in every reachable state.
LEMMA BudgetInvariance ==
    ASSUME SamplesPerIndex \subseteq {0, 1}
    PROVE  Spec => []BudgetInv
<1>1. Inv /\ BudgetInv /\ [Next]_vars => BudgetInv'
  BY NextBudget
<1>. QED  BY <1>1, InitBudget, Invariance, PTL DEF Spec

\* No interleaving, abort, restart or failure puts more samples into the framebuffer than
\* the maximum that the renderer was given, whichever framebuffer it is.
THEOREM BudgetNeverExceeded ==
    ASSUME SamplesPerIndex \subseteq {0, 1}
    PROVE  Spec => [](buffer.samples <= MaxSamples)
<1>1. Inv /\ BudgetInv => buffer.samples <= MaxSamples
  <2>. SUFFICES ASSUME Inv, BudgetInv PROVE buffer.samples <= MaxSamples
    OBVIOUS
  <2>1. /\ RendererTypeOK /\ reserved <= MaxSamples
        /\ buffer.samples + Cardinality(PendingSamples) <= reserved
    BY DEF Inv, RInv, PassesReserved, BudgetInv, SamplesReserved
  <2>2. Cardinality(PendingSamples) \in Nat /\ buffer.samples \in Nat /\ reserved \in Nat
    BY <2>1, PendingUnits DEF RendererTypeOK
  <2>. QED  BY <2>1, <2>2, RendererAssumption
<1>. QED  BY <1>1, Invariance, BudgetInvariance, PTL

\* When every index yields a sample and no job fails, a rendering that ends by itself has
\* stored the maximum exactly: nothing that a job reserved is lost between the sample
\* counter, the job and its successor.
THEOREM BudgetIsSpent ==
    ASSUME SamplesPerIndex = {1}, ~MayThrow, ~GlobalFramebuffer
    PROVE  Spec => []BudgetSpent
<1>1. Inv /\ BudgetInv => (phase = "ended" => buffer.count = MaxSamples)
  <2>. SUFFICES ASSUME Inv, BudgetInv, phase = "ended" PROVE buffer.count = MaxSamples
    OBVIOUS
  <2>1. RInv /\ PoolFacts
    BY PoolFactsHold DEF Inv
  <2>2. running = {}
    BY <2>1 DEF RInv, NoJobLeft, Pool!HasScheduledOrRunningJobs
  <2>3. \A w \in Worker : Unstored(w) = 0
    BY <2>1, <2>2 DEF PoolFacts, Unstored, At
  <2>4. PendingSamples = {}
    BY <2>3 DEF PendingSamples
  <2>5. Cardinality(PendingSamples) = 0
    BY <2>4, FS_EmptySet
  <2>6. buffer.samples + 0 = reserved /\ buffer.count = buffer.samples
    BY <2>5 DEF BudgetInv, SamplesReserved, BudgetPursued
  <2>7. reserved \in Nat /\ buffer.samples \in Nat /\ reserved <= MaxSamples /\ MaxSamples \in Nat
    BY <2>1, RendererAssumption DEF RInv, RendererTypeOK, PassesReserved
  <2>8. ~(reserved < MaxSamples)
    BY DEF BudgetInv, BudgetPursued
  <2>. QED  BY <2>6, <2>7, <2>8
<1>2. SamplesPerIndex \subseteq {0, 1}
  OBVIOUS
<1>3. Spec => [](buffer.samples <= MaxSamples)
  BY <1>2, BudgetNeverExceeded
<1>4. Spec => []BudgetInv
  BY <1>2, BudgetInvariance
<1>. QED  BY <1>1, <1>3, <1>4, Invariance, PTL DEF BudgetSpent

=============================================================================
