------------------------------ MODULE JobQueue ------------------------------
(***************************************************************************)
(* foundation/utility/job/jobqueue.{h,cpp}: the queue through which the    *)
(* renderer hands jobs to its worker threads.                              *)
(*                                                                         *)
(* Every method takes m_spinlock for its whole body, so one method is one  *)
(* step here.  The exception is retire_running_job, which deletes the job  *)
(* after it has released the lock: it is two steps, EraseRunningJob and    *)
(* DeleteRetiredJob.  The module has no next-state relation of its own:    *)
(* WorkerPool and the renderers call these operations.                     *)
(***************************************************************************)
EXTENDS Naturals, Sequences, Functions

CONSTANTS Job,        \* job objects (IJob instances), each constructed once
          OwnedJob,   \* those scheduled with transfer_ownership = true
          NoJob       \* the null job of JobInfo(0, false)

ASSUME JobAssumption == OwnedJob \subseteq Job /\ NoJob \notin Job

VARIABLES scheduled,  \* m_scheduled_jobs, front first
          running,    \* m_running_jobs: erased by iterator, its order is never read
          object      \* the lifetime of every job object

queueVars == <<scheduled, running, object>>

Lifetime == {"unborn", "alive", "deleted"}

QueueTypeOK ==
    /\ scheduled \in Seq(Job)
    /\ running \subseteq Job
    /\ object \in [Job -> Lifetime]

QueueInit ==
    /\ scheduled = <<>>
    /\ running = {}
    /\ object = [j \in Job |-> "unborn"]

-----------------------------------------------------------------------------

HasScheduledOrRunningJobs == scheduled # <<>> \/ running # {}

\* Mutant: m_owned is not looked at.
DeleteOwnedOrNot(jobs) ==
    object' = [j \in Job |-> IF j \in jobs THEN "deleted" ELSE object[j]]

\* `if (i->m_owned) delete i->m_job' over a list of jobs.
DeleteOwned(jobs) ==
    object' = [j \in Job |-> IF j \in jobs \cap OwnedJob THEN "deleted" ELSE object[j]]

\* Mutant: push_front().
ScheduleInFront(j) ==
    /\ object[j] = "unborn"
    /\ object' = [object EXCEPT ![j] = "alive"]
    /\ scheduled' = <<j>> \o scheduled
    /\ UNCHANGED running

\* The caller constructs a job and schedules it.
Schedule(j) ==
    /\ object[j] = "unborn"
    /\ object' = [object EXCEPT ![j] = "alive"]
    /\ scheduled' = Append(scheduled, j)
    /\ UNCHANGED running

\* Mutant: the front job is read but not popped.
AcquireWithoutPop ==
    /\ scheduled # <<>>
    /\ running' = running \cup {Head(scheduled)}
    /\ UNCHANGED <<scheduled, object>>

\* Mutant: the job is popped but not listed as running.
AcquireUnlisted ==
    /\ scheduled # <<>>
    /\ scheduled' = Tail(scheduled)
    /\ UNCHANGED <<running, object>>

\* acquire_scheduled_job() when a job is scheduled; it returns the front one.
AcquireScheduledJob ==
    /\ scheduled # <<>>
    /\ scheduled' = Tail(scheduled)
    /\ running' = running \cup {Head(scheduled)}
    /\ UNCHANGED object

\* Mutant: the job stays in the running list.
EraseForgotten(j) == UNCHANGED <<scheduled, running, object>>

\* The locked half of retire_running_job().
EraseRunningJob(j) ==
    /\ running' = running \ {j}
    /\ UNCHANGED <<scheduled, object>>

\* The unlocked half of retire_running_job().
DeleteRetiredJob(j) ==
    /\ DeleteOwned({j})
    /\ UNCHANGED <<scheduled, running>>

\* Mutant: the jobs are deleted, the list is not cleared.
DeleteWithoutClear ==
    /\ DeleteOwned(Range(scheduled))
    /\ UNCHANGED <<scheduled, running>>

\* clear_scheduled_jobs(): delete_jobs() under the lock.  The destructor does
\* the same without the lock, after asserting that no job is running.
ClearScheduledJobs ==
    /\ DeleteOwned(Range(scheduled))
    /\ scheduled' = <<>>
    /\ UNCHANGED running

=============================================================================
