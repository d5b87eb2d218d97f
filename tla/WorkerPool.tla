----------------------------- MODULE WorkerPool -----------------------------
(***************************************************************************)
(* foundation/utility/job/workerthread.cpp and jobmanager.cpp: the worker  *)
(* threads that drain a JobQueue, and the JobManager that starts and joins *)
(* them one after the other.                                               *)
(*                                                                         *)
(* `owner' is the single thread that owns the JobManager ("none of its     *)
(* methods are thread-safe", jobmanager.h:67); here it makes any sequence  *)
(* of calls.  A job may schedule further jobs while it executes, as        *)
(* SampleGeneratorJob does.  A job that throws ends like one that returns: *)
(* execute_job() catches everything and run() retires the job either way.  *)
(***************************************************************************)
EXTENDS JobQueue

CONSTANTS ThreadCount,  \* m_thread_count
          KeepRunning   \* m_keep_running

ASSUME PoolAssumption == ThreadCount \in Nat \ {0} /\ KeepRunning \in BOOLEAN

VARIABLES created,     \* m_worker_threads is not empty
          pc,          \* where each worker is in run(); "none" iff its m_thread is null
          aborted,     \* each worker's own m_abort_switch
          held,        \* the job each worker acquired and has not disposed of
          owner,       \* the call the owner is in
          cursor,      \* the iterator of the loops of JobManager::start() and stop()
          executions   \* history: how often each job was executed

managerVars == <<created, owner, cursor>>
workerVars == <<pc, aborted, held, executions>>
vars == <<queueVars, managerVars, workerVars>>

Worker == 1 .. ThreadCount

Holding == {"execute", "retire", "delete"}
Located == {"none", "test", "acquire", "exited"} \cup Holding

TypeOK ==
    /\ QueueTypeOK
    /\ created \in BOOLEAN
    /\ pc \in [Worker -> Located]
    /\ aborted \in [Worker -> BOOLEAN]
    /\ held \in [Worker -> Job \cup {NoJob}]
    /\ owner \in {"idle", "starting", "stopping", "joining", "waiting", "destroyed"}
    /\ cursor \in 1 .. ThreadCount + 1
    /\ executions \in [Job -> Nat]

Init ==
    /\ QueueInit
    /\ created = FALSE
    /\ pc = [w \in Worker |-> "none"]
    /\ aborted = [w \in Worker |-> FALSE]
    /\ held = [w \in Worker |-> NoJob]
    /\ owner = "idle"
    /\ cursor = 1
    /\ executions = [j \in Job |-> 0]

-----------------------------------------------------------------------------
(* WorkerThread::run(), one action per access to shared state. *)

Goto(w, from, to) ==
    /\ pc[w] = from
    /\ pc' = [pc EXCEPT ![w] = to]

\* Mutant: the worker's abort switch is not tested.
LoopForever(w) ==
    /\ Goto(w, "test", "acquire")
    /\ UNCHANGED <<queueVars, managerVars, aborted, held, executions>>

\* while (!m_abort_switch.is_aborted())
TestAbort(w) ==
    /\ Goto(w, "test", IF aborted[w] THEN "exited" ELSE "acquire")
    /\ UNCHANGED <<queueVars, managerVars, aborted, held, executions>>

\* acquire_scheduled_job() returned a job: execute_job() begins.
AcquireJob(w) ==
    /\ Goto(w, "acquire", "execute")
    /\ AcquireScheduledJob
    /\ held' = [held EXCEPT ![w] = Head(scheduled)]
    /\ executions' = [executions EXCEPT ![Head(scheduled)] = @ + 1]
    /\ UNCHANGED <<managerVars, aborted>>

\* acquire_scheduled_job() returned the null job: yield or terminate.
FindQueueEmpty(w) ==
    /\ scheduled = <<>>
    /\ Goto(w, "acquire", IF KeepRunning THEN "test" ELSE "exited")
    /\ UNCHANGED <<queueVars, managerVars, aborted, held, executions>>

\* The job being executed schedules another one.
ScheduleFromJob(w, j) ==
    /\ pc[w] = "execute"
    /\ Schedule(j)
    /\ UNCHANGED <<managerVars, workerVars>>

\* execute() returns or throws.
FinishExecution(w) ==
    /\ Goto(w, "execute", "retire")
    /\ UNCHANGED <<queueVars, managerVars, aborted, held, executions>>

RetireJob(w) ==
    /\ Goto(w, "retire", "delete")
    /\ EraseRunningJob(held[w])
    /\ UNCHANGED <<managerVars, aborted, held, executions>>

\* Mutant: the thread leaves after one job.
DeleteJobAndLeave(w) ==
    /\ Goto(w, "delete", "exited")
    /\ DeleteRetiredJob(held[w])
    /\ held' = [held EXCEPT ![w] = NoJob]
    /\ UNCHANGED <<managerVars, aborted, executions>>

DeleteJob(w) ==
    /\ Goto(w, "delete", "test")
    /\ DeleteRetiredJob(held[w])
    /\ held' = [held EXCEPT ![w] = NoJob]
    /\ UNCHANGED <<managerVars, aborted, executions>>

WorkerStep(w) ==
    \/ TestAbort(w) \/ AcquireJob(w) \/ FindQueueEmpty(w)
    \/ FinishExecution(w) \/ RetireJob(w) \/ DeleteJob(w)

-----------------------------------------------------------------------------
(* The owner: JobQueue's public methods, JobManager::start() and stop(). *)

OwnerSchedule(j) ==
    /\ owner = "idle"
    /\ Schedule(j)
    /\ UNCHANGED <<managerVars, workerVars>>

OwnerClear ==
    /\ owner = "idle"
    /\ ClearScheduledJobs
    /\ UNCHANGED <<managerVars, workerVars>>

\* JobManager::start(): the WorkerThread objects exist from here on.
CallStart ==
    /\ owner = "idle"
    /\ created' = TRUE
    /\ owner' = "starting"
    /\ cursor' = 1
    /\ UNCHANGED <<queueVars, workerVars>>

NextWorker(loop) ==
    /\ cursor' = cursor + 1
    /\ owner' = IF cursor = ThreadCount THEN "idle" ELSE loop

\* WorkerThread::start(): nothing if m_thread is set, else a new thread.
StartWorker(w) ==
    /\ owner = "starting" /\ cursor = w
    /\ IF pc[w] = "none"
       THEN /\ aborted' = [aborted EXCEPT ![w] = FALSE]
            /\ pc' = [pc EXCEPT ![w] = "test"]
       ELSE UNCHANGED <<aborted, pc>>
    /\ NextWorker("starting")
    /\ UNCHANGED <<queueVars, created, held, executions>>

\* JobManager::stop() with worker threads; without, it changes nothing.
CallStop ==
    /\ owner = "idle"
    /\ created
    /\ owner' = "stopping"
    /\ cursor' = 1
    /\ UNCHANGED <<queueVars, created, workerVars>>

\* The first half of WorkerThread::stop(): abort, then block in join().
StopWorker(w) ==
    /\ owner = "stopping" /\ cursor = w
    /\ aborted' = [aborted EXCEPT ![w] = TRUE]
    /\ owner' = "joining"
    /\ UNCHANGED <<queueVars, created, cursor, pc, held, executions>>

\* Mutant: the thread is not joined.
ForgetWorker(w) ==
    /\ owner = "joining" /\ cursor = w
    /\ created' = (cursor # ThreadCount)
    /\ NextWorker("stopping")
    /\ UNCHANGED <<queueVars, pc, aborted, held, executions>>

\* join() returns, the thread is deleted; after the last one the list is cleared.
JoinWorker(w) ==
    /\ owner = "joining" /\ cursor = w
    /\ Goto(w, "exited", "none")
    /\ created' = (cursor # ThreadCount)
    /\ NextWorker("stopping")
    /\ UNCHANGED <<queueVars, aborted, held, executions>>

CallWait ==
    /\ owner = "idle"
    /\ owner' = "waiting"
    /\ UNCHANGED <<queueVars, created, cursor, workerVars>>

\* wait_until_completion() got the lock and found both lists empty.
WaitReturns ==
    /\ owner = "waiting"
    /\ ~HasScheduledOrRunningJobs
    /\ owner' = "idle"
    /\ UNCHANGED <<queueVars, created, cursor, workerVars>>

\* ~JobManager (whose stop() has returned), then ~JobQueue.
Destroy ==
    /\ owner = "idle"
    /\ ~created
    /\ ClearScheduledJobs
    /\ owner' = "destroyed"
    /\ UNCHANGED <<created, cursor, workerVars>>

\* What the owner goes on with by itself once it is inside a call.
OwnerProgress ==
    \/ \E w \in Worker : StartWorker(w) \/ StopWorker(w) \/ JoinWorker(w)
    \/ WaitReturns

OwnerCall ==
    \/ \E j \in Job : OwnerSchedule(j)
    \/ OwnerClear \/ CallStart \/ CallStop \/ CallWait \/ Destroy

Next ==
    \/ \E w \in Worker : WorkerStep(w)
    \/ \E w \in Worker, j \in Job : ScheduleFromJob(w, j)
    \/ OwnerProgress
    \/ OwnerCall

Spec == Init /\ [][Next]_vars

\* Threads are scheduled, jobs terminate, and a call once begun goes on.
Fairness ==
    /\ \A w \in Worker : WF_vars(WorkerStep(w))
    /\ WF_vars(OwnerProgress)

FairSpec == Spec /\ Fairness

-----------------------------------------------------------------------------
(* Safety. *)

Executing == {w \in Worker : pc[w] \in {"execute", "retire"}}

\* "Jobs in a job queue always are in either one of these states" (jobqueue.h:78):
\* no job is listed twice, no job is both scheduled and running, and the running
\* list is exactly what the workers are executing, one job per worker.
QueueStates ==
    /\ IsInjective(scheduled)
    /\ Range(scheduled) \cap running = {}
    /\ running = {held[w] : w \in Executing}
    /\ \A v, w \in Worker : held[v] = held[w] /\ held[v] # NoJob => v = w

\* Neither the queue nor a worker refers to a deleted job: acquiring, executing and
\* retiring never touch freed memory, and no job is deleted twice.
NoDanglingJob ==
    \A j \in Range(scheduled) \cup running \cup {held[w] : w \in Worker} :
        j # NoJob => object[j] = "alive"

\* No interleaving of the workers, of restarts and of clears executes a job twice.
ExecutedAtMostOnce == \A j \in Job : executions[j] <= 1

\* "Returns once currently running jobs are completed" (jobmanager.h:90): with the
\* pool stopped no job runs and no worker holds one, as ~JobQueue asserts (line 79).
StoppedMeansQuiet ==
    ~created => running = {} /\ \A w \in Worker : pc[w] = "none" /\ held[w] = NoJob

\* Once the queue is destroyed, it has deleted every job it owned and no other.
OwnershipSettled ==
    owner = "destroyed" =>
        \A j \in Job : object[j] # "unborn" =>
            (object[j] = "deleted" <=> j \in OwnedJob)

\* The renderers poll has_scheduled_or_running_jobs() to learn that a frame is done:
\* once it is false only the owner can make it true again.  A job is never in
\* neither list while it moves, and one that schedules another is still running.
OnlyTheOwnerWakesTheQueue ==
    [][~HasScheduledOrRunningJobs /\ HasScheduledOrRunningJobs' => owner = "idle"]_vars

\* The pool implements JobPool: FIFO starts, nothing begun once stopped.
Pool == INSTANCE JobPool WITH
    pending   <- scheduled,
    active    <- running,
    finished  <- {j \in Job : executions[j] > 0} \ running,
    discarded <- {j \in Job : /\ object[j] # "unborn"
                              /\ executions[j] = 0
                              /\ j \notin Range(scheduled)},
    open      <- created

ImplementsPool == Pool!PoolSpec

(* The inductive invariant behind the properties above, in named parts. *)

\* A worker holds a job exactly between acquiring it and deleting it.
HeldWhileHolding == \A w \in Worker : held[w] # NoJob <=> pc[w] \in Holding

\* A job that a worker still has to delete has not been scheduled again.
HeldNotScheduled == \A w \in Worker : held[w] \notin Range(scheduled)

\* The history counts a job from the moment it is acquired.
ExecutedOnceAcquired ==
    /\ \A j \in Job :
          object[j] = "unborn" \/ j \in Range(scheduled) => executions[j] = 0
    /\ \A w \in Worker : held[w] # NoJob => executions[held[w]] = 1

\* Only owned jobs are deleted, and an owned live job is still referred to.
NoLeakedJob ==
    \A j \in Job :
        /\ object[j] = "deleted" => j \in OwnedJob
        /\ object[j] = "alive" /\ j \in OwnedJob =>
               j \in Range(scheduled) \/ \E w \in Worker : held[w] = j

\* How far the loops of start() and stop() have come.
LoopsInStep ==
    /\ ~created => /\ owner \in {"idle", "waiting", "destroyed"}
                   /\ \A w \in Worker : pc[w] = "none"
    /\ owner \in {"starting", "stopping", "joining"} => cursor \in Worker
    /\ owner \in {"stopping", "joining"} =>
           \A w \in Worker : w < cursor => pc[w] = "none"
    /\ owner = "destroyed" => ~created /\ scheduled = <<>>

IInv ==
    /\ TypeOK
    /\ QueueStates
    /\ NoDanglingJob
    /\ ExecutedAtMostOnce
    /\ HeldWhileHolding
    /\ HeldNotScheduled
    /\ ExecutedOnceAcquired
    /\ NoLeakedJob
    /\ LoopsInStep

\* With keep_running, a thread ends only when it is told to, and only the one that stop()
\* is about to join has been told.
EndsWhenJoined ==
    \A w \in Worker :
        /\ KeepRunning /\ pc[w] = "exited" => aborted[w]
        /\ aborted[w] /\ pc[w] # "none" => owner = "joining" /\ cursor = w

-----------------------------------------------------------------------------
(* Liveness. *)

Live(w) == pc[w] \notin {"none", "exited"}

\* wait_until_completion() returns if one worker was alive when it was called, even
\* with keep_running = false: a worker never leaves run() past a scheduled job.
WaitTerminates ==
    owner = "waiting" /\ (\E w \in Worker : Live(w)) ~> owner = "idle"

\* "Don't do anything if the worker thread is already running" (workerthread.cpp:75),
\* so start() leaves every worker running.  So it does with keep_running, by
\* EndsWhenJoined.  Without, it does not: the m_thread of a thread that has finished
\* because the queue ran empty is still set, and start() ignores it.
StartLeavesWorkersRunning ==
    [][\A w \in Worker : StartWorker(w) => pc'[w] # "exited"]_vars

=============================================================================
