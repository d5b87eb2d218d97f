-------------------------- MODULE WorkerPoolProofs --------------------------
(***************************************************************************)
(* The inductive invariant of WorkerPool and the safety properties it      *)
(* gives, for any number of workers, any set of jobs and both values of    *)
(* KeepRunning.                                                            *)
(***************************************************************************)
EXTENDS WorkerPool, SequenceTheorems, TLAPS

-----------------------------------------------------------------------------
(* Lemmas about the job list. *)

\* push_back() of a job that is not in the list keeps the list free of duplicates.
LEMMA AppendKeepsInjective ==
    ASSUME NEW S, NEW s \in Seq(S), NEW e \in S, IsInjective(s), e \notin Range(s)
    PROVE  /\ Append(s, e) \in Seq(S)
           /\ IsInjective(Append(s, e))
           /\ Range(Append(s, e)) = Range(s) \cup {e}
<1>1. /\ Append(s, e) \in Seq(S)
      /\ Len(Append(s, e)) = Len(s) + 1
      /\ \A i \in 1 .. Len(s) : Append(s, e)[i] = s[i]
      /\ Append(s, e)[Len(s) + 1] = e
  BY AppendProperties
<1>2. /\ DOMAIN s = 1 .. Len(s)
      /\ DOMAIN Append(s, e) = 1 .. Len(s) + 1
      /\ Len(s) \in Nat
  BY <1>1, LenProperties
<1>3. IsInjective(Append(s, e))
  BY <1>1, <1>2 DEF IsInjective, Range
<1>4. Range(Append(s, e)) = Range(s) \cup {e}
  BY <1>1, <1>2 DEF Range
<1>. QED  BY <1>1, <1>3, <1>4

\* pop_front() removes exactly the front job from a list free of duplicates.
LEMMA TailKeepsInjective ==
    ASSUME NEW S, NEW s \in Seq(S), s # <<>>, IsInjective(s)
    PROVE  /\ Tail(s) \in Seq(S)
           /\ Head(s) \in S
           /\ Head(s) \in Range(s)
           /\ IsInjective(Tail(s))
           /\ Range(Tail(s)) = Range(s) \ {Head(s)}
<1>1. /\ Head(s) \in S
      /\ Tail(s) \in Seq(S)
      /\ Len(Tail(s)) = Len(s) - 1
      /\ \A i \in 1 .. Len(Tail(s)) : Tail(s)[i] = s[i + 1]
  BY HeadTailProperties
<1>2. /\ DOMAIN s = 1 .. Len(s)
      /\ DOMAIN Tail(s) = 1 .. Len(s) - 1
      /\ Len(s) \in Nat \ {0}
      /\ Head(s) = s[1]
  BY <1>1, LenProperties, EmptySeq
<1>3. IsInjective(Tail(s))
  BY <1>1, <1>2 DEF IsInjective
<1>4. \A i \in 2 .. Len(s) : i - 1 \in DOMAIN Tail(s) /\ s[i] = Tail(s)[i - 1]
  BY <1>1, <1>2
<1>5. Range(s) \ {Head(s)} \subseteq Range(Tail(s))
  <2>. SUFFICES ASSUME NEW i \in DOMAIN s, s[i] # Head(s)
                PROVE  s[i] \in Range(Tail(s))
    BY DEF Range
  <2>1. i \in 2 .. Len(s)
    BY <1>2
  <2>. QED  BY <2>1, <1>4 DEF Range
<1>6. Range(Tail(s)) \subseteq Range(s) \ {Head(s)}
  <2>. SUFFICES ASSUME NEW i \in DOMAIN Tail(s)
                PROVE  Tail(s)[i] \in Range(s) /\ Tail(s)[i] # Head(s)
    BY DEF Range
  <2>1. i + 1 \in DOMAIN s /\ 1 \in DOMAIN s /\ i + 1 # 1 /\ Tail(s)[i] = s[i + 1]
    BY <1>1, <1>2
  <2>. QED  BY <2>1, <1>2 DEF Range, IsInjective
<1>7. Head(s) \in Range(s)
  BY <1>2 DEF Range
<1>. QED  BY <1>1, <1>3, <1>5, <1>6, <1>7

\* A cleared list has no element.
LEMMA EmptyList ==
    ASSUME NEW S
    PROVE  <<>> \in Seq(S) /\ IsInjective(<<>>) /\ Range(<<>>) = {}
BY EmptySeq DEF IsInjective, Range

-----------------------------------------------------------------------------
(* One lemma per action of WorkerPool: it preserves the invariant. *)

\* The worker does not move, or moves between two places where it has no job.
KeepsItsJob(v) ==
    \/ pc'[v] = pc[v]
    \/ pc[v] \notin Holding /\ pc'[v] \notin Holding

\* A step that touches neither the queue nor what the workers hold, and takes no
\* worker into or out of a job, can only disturb the types and the owner's loops.
LEMMA QuietStep ==
    ASSUME IInv, TypeOK', LoopsInStep',
           UNCHANGED <<scheduled, running, object, held, executions>>,
           \A v \in Worker : KeepsItsJob(v)
    PROVE  IInv'
<1>1. Executing' = Executing
  BY DEF Executing, Holding, KeepsItsJob
<1>2. QueueStates'
  BY <1>1 DEF IInv, QueueStates
<1>3. NoDanglingJob' /\ ExecutedAtMostOnce' /\ ExecutedOnceAcquired' /\ NoLeakedJob'
  BY DEF IInv, NoDanglingJob, ExecutedAtMostOnce, ExecutedOnceAcquired, NoLeakedJob
<1>4. HeldWhileHolding' /\ HeldNotScheduled'
  BY DEF IInv, HeldWhileHolding, HeldNotScheduled, KeepsItsJob
<1>. QED  BY <1>2, <1>3, <1>4 DEF IInv

\* Testing the worker's abort switch at the head of run() preserves the invariant.
LEMMA TestAbortStep ==
    ASSUME IInv, NEW w \in Worker, TestAbort(w)
    PROVE  IInv'
<1>. USE DEF TestAbort, Goto, queueVars, managerVars
<1>1. TypeOK'
  BY DEF IInv, TypeOK, QueueTypeOK, Located, Holding
<1>2. LoopsInStep'
  BY DEF IInv, TypeOK, LoopsInStep
<1>3. UNCHANGED <<scheduled, running, object, held, executions>>
  OBVIOUS
<1>4. \A v \in Worker : KeepsItsJob(v)
  BY DEF IInv, TypeOK, Holding, KeepsItsJob
<1>. QED  BY <1>1, <1>2, <1>3, <1>4, QuietStep

\* So does finding the queue empty.
LEMMA FindQueueEmptyStep ==
    ASSUME IInv, NEW w \in Worker, FindQueueEmpty(w)
    PROVE  IInv'
<1>. USE DEF FindQueueEmpty, Goto, queueVars, managerVars
<1>1. TypeOK'
  BY DEF IInv, TypeOK, QueueTypeOK, Located, Holding
<1>2. LoopsInStep'
  BY DEF IInv, TypeOK, LoopsInStep
<1>3. UNCHANGED <<scheduled, running, object, held, executions>>
  OBVIOUS
<1>4. \A v \in Worker : KeepsItsJob(v)
  BY DEF IInv, TypeOK, Holding, KeepsItsJob
<1>. QED  BY <1>1, <1>2, <1>3, <1>4, QuietStep

\* So does one turn of the loop of JobManager::start().
LEMMA StartWorkerStep ==
    ASSUME IInv, NEW w \in Worker, StartWorker(w)
    PROVE  IInv'
<1>. USE DEF StartWorker, NextWorker, queueVars
<1>1. TypeOK'
  <2>1. cursor' \in 1 .. ThreadCount + 1 /\ owner' \in {"idle", "starting"}
    BY PoolAssumption DEF Worker
  <2>2. aborted' \in [Worker -> BOOLEAN] /\ pc' \in [Worker -> Located]
    BY DEF IInv, TypeOK, Located
  <2>. QED  BY <2>1, <2>2 DEF IInv, TypeOK, QueueTypeOK
<1>2. LoopsInStep'
  BY PoolAssumption DEF IInv, TypeOK, LoopsInStep, Worker
<1>3. UNCHANGED <<scheduled, running, object, held, executions>>
  OBVIOUS
<1>4. \A v \in Worker : KeepsItsJob(v)
  BY DEF IInv, TypeOK, Holding, KeepsItsJob
<1>. QED  BY <1>1, <1>2, <1>3, <1>4, QuietStep

\* So does telling a worker to abort in JobManager::stop().
LEMMA StopWorkerStep ==
    ASSUME IInv, NEW w \in Worker, StopWorker(w)
    PROVE  IInv'
<1>. USE DEF StopWorker, queueVars
<1>1. TypeOK'
  BY DEF IInv, TypeOK, QueueTypeOK
<1>2. LoopsInStep'
  BY DEF IInv, LoopsInStep
<1>3. UNCHANGED <<scheduled, running, object, held, executions>>
  OBVIOUS
<1>4. \A v \in Worker : KeepsItsJob(v)
  BY DEF KeepsItsJob
<1>. QED  BY <1>1, <1>2, <1>3, <1>4, QuietStep

\* So does joining it.
LEMMA JoinWorkerStep ==
    ASSUME IInv, NEW w \in Worker, JoinWorker(w)
    PROVE  IInv'
<1>. USE DEF JoinWorker, NextWorker, Goto, queueVars
<1>1. TypeOK'
  <2>1. cursor' \in 1 .. ThreadCount + 1 /\ owner' \in {"idle", "stopping"}
    BY PoolAssumption DEF Worker
  <2>2. created' \in BOOLEAN
    OBVIOUS
  <2>3. pc' \in [Worker -> Located]
    BY DEF IInv, TypeOK, Located
  <2>. QED  BY <2>1, <2>2, <2>3 DEF IInv, TypeOK, QueueTypeOK
<1>2. \A v \in Worker : v <= w => pc'[v] = "none"
  BY DEF IInv, TypeOK, LoopsInStep, Worker
<1>3. LoopsInStep'
  <2>1. CASE cursor = ThreadCount
    BY <1>2, <2>1, PoolAssumption DEF LoopsInStep, Worker
  <2>2. CASE cursor # ThreadCount
    <3>1. created' /\ owner' = "stopping" /\ cursor' = cursor + 1
      BY <2>2
    <3>2. cursor + 1 \in Worker
      BY <2>2, PoolAssumption DEF Worker
    <3>3. \A v \in Worker : v < cursor + 1 => pc'[v] = "none"
      BY <1>2 DEF Worker
    <3>. QED  BY <3>1, <3>2, <3>3 DEF LoopsInStep
  <2>. QED  BY <2>1, <2>2
<1>4. UNCHANGED <<scheduled, running, object, held, executions>>
  OBVIOUS
<1>5. \A v \in Worker : KeepsItsJob(v)
  BY DEF IInv, TypeOK, Holding, KeepsItsJob
<1>. QED  BY <1>1, <1>3, <1>4, <1>5, QuietStep

\* So do the calls of the owner that leave the queue alone.
LEMMA OwnerCallStep ==
    ASSUME IInv, CallStart \/ CallStop \/ CallWait \/ WaitReturns
    PROVE  IInv'
<1>. USE DEF CallStart, CallStop, CallWait, WaitReturns, queueVars, workerVars
<1>1. UNCHANGED <<scheduled, running, object, held, executions>>
  OBVIOUS
<1>2. UNCHANGED <<pc, aborted>>
  OBVIOUS
<1>3. TypeOK'
  <2>1. cursor' \in 1 .. ThreadCount + 1
    BY PoolAssumption DEF IInv, TypeOK
  <2>2. owner' \in {"idle", "starting", "stopping", "waiting"}
    OBVIOUS
  <2>3. created' \in BOOLEAN
    BY DEF IInv, TypeOK
  <2>. QED  BY <1>1, <1>2, <2>1, <2>2, <2>3 DEF IInv, TypeOK, QueueTypeOK
<1>4. LoopsInStep'
  BY <1>2, PoolAssumption DEF IInv, LoopsInStep, Worker
<1>5. \A v \in Worker : KeepsItsJob(v)
  BY <1>2 DEF KeepsItsJob
<1>. QED  BY <1>1, <1>3, <1>4, <1>5, QuietStep

\* Scheduling a new job, by the owner or from a running job.
LEMMA ScheduleStep ==
    ASSUME IInv, NEW j \in Job, Schedule(j), UNCHANGED <<managerVars, workerVars>>,
           owner # "destroyed"
    PROVE  IInv'
<1>. USE DEF Schedule, managerVars, workerVars
<1>1. /\ UNCHANGED <<created, owner, cursor>>
      /\ UNCHANGED <<pc, aborted, held, executions>>
  OBVIOUS
<1>2. /\ scheduled \in Seq(Job)
      /\ IsInjective(scheduled)
      /\ j \notin Range(scheduled) \cup running \cup {held[w] : w \in Worker}
  BY JobAssumption DEF IInv, TypeOK, QueueTypeOK, QueueStates, NoDanglingJob
<1>3. /\ scheduled' \in Seq(Job)
      /\ IsInjective(scheduled')
      /\ Range(scheduled') = Range(scheduled) \cup {j}
  BY <1>2, AppendKeepsInjective
<1>4. TypeOK'
  BY <1>1, <1>3 DEF IInv, TypeOK, QueueTypeOK, Lifetime
<1>5. QueueStates'
  BY <1>1, <1>2, <1>3 DEF IInv, QueueStates, Executing
<1>6. NoDanglingJob'
  BY <1>1, <1>2, <1>3 DEF IInv, NoDanglingJob, TypeOK, QueueTypeOK
<1>7. ExecutedAtMostOnce' /\ HeldWhileHolding' /\ HeldNotScheduled'
  BY <1>1, <1>2, <1>3 DEF IInv, ExecutedAtMostOnce, HeldWhileHolding, HeldNotScheduled
<1>8. ExecutedOnceAcquired'
  BY <1>1, <1>3 DEF IInv, ExecutedOnceAcquired, TypeOK, QueueTypeOK
<1>9. NoLeakedJob'
  BY <1>1, <1>3 DEF IInv, NoLeakedJob, TypeOK, QueueTypeOK
<1>10. LoopsInStep'
  BY <1>1 DEF IInv, LoopsInStep
<1>. QED  BY <1>4, <1>5, <1>6, <1>7, <1>8, <1>9, <1>10 DEF IInv

\* So does acquire_scheduled_job(): the job moves from one list to the other.
LEMMA AcquireJobStep ==
    ASSUME IInv, NEW w \in Worker, AcquireJob(w)
    PROVE  IInv'
<1>. DEFINE j == Head(scheduled)
<1>. USE DEF AcquireJob, AcquireScheduledJob, Goto, managerVars
<1>1. /\ UNCHANGED <<created, owner, cursor>>
      /\ UNCHANGED <<object, aborted>>
      /\ running' = running \cup {j}
      /\ pc[w] = "acquire"
  OBVIOUS
<1>2. /\ scheduled' \in Seq(Job)
      /\ j \in Job
      /\ j \in Range(scheduled)
      /\ IsInjective(scheduled')
      /\ Range(scheduled') = Range(scheduled) \ {j}
  BY TailKeepsInjective DEF IInv, TypeOK, QueueTypeOK, QueueStates
<1>3. /\ object[j] = "alive"
      /\ j \notin running
      /\ executions[j] = 0
      /\ j # NoJob
  BY <1>2, JobAssumption DEF IInv, QueueStates, NoDanglingJob, ExecutedOnceAcquired
<1>4. \A v \in Worker : /\ held'[v] = IF v = w THEN j ELSE held[v]
                        /\ pc'[v] = IF v = w THEN "execute" ELSE pc[v]
  BY DEF IInv, TypeOK
<1>5. \A i \in Job : executions'[i] = IF i = j THEN 1 ELSE executions[i]
  BY <1>2, <1>3 DEF IInv, TypeOK
<1>6. \A v \in Worker : held[v] # j
  <2>. SUFFICES ASSUME NEW v \in Worker, held[v] = j
                PROVE  FALSE
    OBVIOUS
  <2>1. CASE v \in Executing
    BY <2>1, <1>3 DEF IInv, QueueStates
  <2>2. CASE pc[v] = "delete"
    BY <2>2, <1>2 DEF IInv, HeldNotScheduled
  <2>. QED  BY <2>1, <2>2, <1>3 DEF IInv, HeldWhileHolding, Holding, Executing
<1>7. TypeOK'
  <2>1. pc' \in [Worker -> Located] /\ held' \in [Worker -> Job \cup {NoJob}]
    BY <1>2 DEF IInv, TypeOK, Located, Holding
  <2>2. executions' \in [Job -> Nat]
    BY <1>2 DEF IInv, TypeOK
  <2>. QED  BY <2>1, <2>2, <1>1, <1>2 DEF IInv, TypeOK, QueueTypeOK
<1>8. QueueStates'
  <2>1. Executing' = Executing \cup {w} /\ w \notin Executing
    BY <1>1, <1>4 DEF Executing
  <2>2. running' = {held'[v] : v \in Executing'}
    BY <2>1, <1>1, <1>4 DEF IInv, QueueStates, Executing
  <2>3. Range(scheduled') \cap running' = {}
    BY <1>1, <1>2 DEF IInv, QueueStates
  <2>4. \A u, v \in Worker : held'[u] = held'[v] /\ held'[u] # NoJob => u = v
    BY <1>4, <1>6 DEF IInv, QueueStates
  <2>. QED  BY <1>2, <2>2, <2>3, <2>4 DEF QueueStates
<1>9. NoDanglingJob'
  BY <1>1, <1>2, <1>3, <1>4 DEF IInv, NoDanglingJob
<1>10. ExecutedAtMostOnce'
  BY <1>5 DEF IInv, ExecutedAtMostOnce
<1>11. HeldWhileHolding' /\ HeldNotScheduled'
  BY <1>1, <1>2, <1>3, <1>4 DEF IInv, HeldWhileHolding, HeldNotScheduled, Holding
<1>12. ExecutedOnceAcquired'
  BY <1>1, <1>2, <1>3, <1>5 DEF IInv, ExecutedOnceAcquired
<1>13. NoLeakedJob'
  <2>1. held[w] \notin Job
    BY <1>1, JobAssumption DEF IInv, HeldWhileHolding, Holding
  <2>2. SUFFICES ASSUME NEW k \in Job, object[k] = "alive", k \in OwnedJob
                 PROVE  k \in Range(scheduled') \/ \E v \in Worker : held'[v] = k
    BY <1>1 DEF IInv, NoLeakedJob
  <2>3. CASE k = j
    BY <2>3, <1>4
  <2>4. CASE k \in Range(scheduled) \ {j}
    BY <2>4, <1>2
  <2>5. ASSUME NEW v \in Worker, held[v] = k
        PROVE  held'[v] = k
    BY <2>1, <2>5, <1>4
  <2>. QED  BY <2>2, <2>3, <2>4, <2>5 DEF IInv, NoLeakedJob
<1>14. LoopsInStep'
  BY <1>1, <1>2, <1>4 DEF IInv, LoopsInStep
<1>. QED  BY <1>7, <1>8, <1>9, <1>10, <1>11, <1>12, <1>13, <1>14 DEF IInv

\* So does the return of IJob::execute(): the job is still running.
LEMMA FinishExecutionStep ==
    ASSUME IInv, NEW w \in Worker, FinishExecution(w)
    PROVE  IInv'
<1>. USE DEF FinishExecution, Goto, queueVars, managerVars
<1>1. /\ UNCHANGED <<scheduled, running, object>>
      /\ UNCHANGED <<created, owner, cursor, aborted, held, executions>>
      /\ pc[w] = "execute"
  OBVIOUS
<1>2. \A v \in Worker : pc'[v] = IF v = w THEN "retire" ELSE pc[v]
  BY DEF IInv, TypeOK
<1>3. TypeOK'
  BY <1>1 DEF IInv, TypeOK, QueueTypeOK, Located, Holding
<1>4. Executing' = Executing
  BY <1>1, <1>2 DEF Executing
<1>5. QueueStates' /\ NoDanglingJob' /\ NoLeakedJob' /\ HeldNotScheduled'
  BY <1>1, <1>4 DEF IInv, QueueStates, NoDanglingJob, NoLeakedJob, HeldNotScheduled
<1>6. ExecutedAtMostOnce' /\ ExecutedOnceAcquired'
  BY <1>1 DEF IInv, ExecutedAtMostOnce, ExecutedOnceAcquired
<1>7. HeldWhileHolding'
  BY <1>1, <1>2 DEF IInv, HeldWhileHolding, Holding
<1>8. LoopsInStep'
  BY <1>1, <1>2 DEF IInv, LoopsInStep
<1>. QED  BY <1>3, <1>5, <1>6, <1>7, <1>8 DEF IInv

\* So does the locked half of retire_running_job().
LEMMA RetireJobStep ==
    ASSUME IInv, NEW w \in Worker, RetireJob(w)
    PROVE  IInv'
<1>. USE DEF RetireJob, EraseRunningJob, Goto, managerVars
<1>1. /\ UNCHANGED <<scheduled, object>>
      /\ UNCHANGED <<created, owner, cursor, aborted, held, executions>>
      /\ running' = running \ {held[w]}
      /\ pc[w] = "retire"
  OBVIOUS
<1>2. \A v \in Worker : pc'[v] = IF v = w THEN "delete" ELSE pc[v]
  BY DEF IInv, TypeOK
<1>3. TypeOK'
  BY <1>1 DEF IInv, TypeOK, QueueTypeOK, Located, Holding
<1>4. QueueStates'
  <2>1. Executing' = Executing \ {w}
    BY <1>1, <1>2 DEF Executing
  <2>2. held[w] # NoJob
    BY <1>1 DEF IInv, HeldWhileHolding, Holding
  <2>3. \A v \in Executing' : held[v] # held[w]
    BY <2>1, <2>2 DEF IInv, QueueStates, Executing
  <2>4. running' = {held[v] : v \in Executing'}
    BY <2>1, <2>3, <1>1 DEF IInv, QueueStates
  <2>. QED  BY <2>4, <1>1 DEF IInv, QueueStates
<1>5. NoDanglingJob' /\ NoLeakedJob' /\ HeldNotScheduled'
  BY <1>1 DEF IInv, NoDanglingJob, NoLeakedJob, HeldNotScheduled
<1>6. ExecutedAtMostOnce' /\ ExecutedOnceAcquired'
  BY <1>1 DEF IInv, ExecutedAtMostOnce, ExecutedOnceAcquired
<1>7. HeldWhileHolding'
  BY <1>1, <1>2 DEF IInv, HeldWhileHolding, Holding
<1>8. LoopsInStep'
  BY <1>1, <1>2 DEF IInv, LoopsInStep
<1>. QED  BY <1>3, <1>4, <1>5, <1>6, <1>7, <1>8 DEF IInv

\* So does its unlocked half: nobody else refers to the job that is deleted.
LEMMA DeleteJobStep ==
    ASSUME IInv, NEW w \in Worker, DeleteJob(w)
    PROVE  IInv'
<1>. USE DEF DeleteJob, DeleteRetiredJob, DeleteOwned, Goto, managerVars
<1>1. /\ UNCHANGED <<scheduled, running>>
      /\ UNCHANGED <<created, owner, cursor, aborted, executions>>
      /\ pc[w] = "delete"
  OBVIOUS
<1>2. \A v \in Worker : /\ pc'[v] = IF v = w THEN "test" ELSE pc[v]
                        /\ held'[v] = IF v = w THEN NoJob ELSE held[v]
  BY DEF IInv, TypeOK
<1>3. \A i \in Job : object'[i] = IF i = held[w] /\ i \in OwnedJob THEN "deleted" ELSE object[i]
  OBVIOUS
<1>4. TypeOK'
  <2>1. object' \in [Job -> Lifetime]
    BY DEF IInv, TypeOK, QueueTypeOK, Lifetime
  <2>2. pc' \in [Worker -> Located] /\ held' \in [Worker -> Job \cup {NoJob}]
    BY DEF IInv, TypeOK, Located
  <2>. QED  BY <2>1, <2>2, <1>1 DEF IInv, TypeOK, QueueTypeOK
<1>5. held[w] # NoJob /\ held[w] \notin running \cup Range(scheduled)
  <2>1. held[w] # NoJob
    BY <1>1 DEF IInv, HeldWhileHolding, Holding
  <2>. QED  BY <2>1, <1>1 DEF IInv, QueueStates, HeldNotScheduled, Executing
<1>6. \A v \in Worker \ {w} : held[v] # held[w]
  BY <1>5 DEF IInv, QueueStates
<1>7. QueueStates'
  <2>1. Executing' = Executing /\ w \notin Executing
    BY <1>1, <1>2 DEF Executing
  <2>2. {held'[v] : v \in Executing'} = {held[v] : v \in Executing}
    BY <2>1, <1>2 DEF Executing
  <2>. QED  BY <2>2, <1>1, <1>2 DEF IInv, QueueStates
<1>8. NoDanglingJob'
  <2>. SUFFICES ASSUME NEW i \in Range(scheduled) \cup running \cup {held'[v] : v \in Worker},
                       i # NoJob
                PROVE  object'[i] = "alive"
    BY <1>1 DEF NoDanglingJob
  <2>1. i # held[w] /\ object[i] = "alive"
    BY <1>2, <1>5, <1>6 DEF IInv, NoDanglingJob
  <2>2. i \in Job
    BY <1>2, RangeOfSeq DEF IInv, TypeOK, QueueTypeOK
  <2>. QED  BY <2>1, <2>2, <1>3
<1>9. NoLeakedJob'
  BY <1>1, <1>2, <1>3 DEF IInv, NoLeakedJob
<1>10. ExecutedAtMostOnce' /\ ExecutedOnceAcquired'
  BY <1>1, <1>3 DEF IInv, ExecutedAtMostOnce, ExecutedOnceAcquired
<1>11. HeldNotScheduled'
  BY <1>1, <1>2, JobAssumption, RangeOfSeq DEF IInv, HeldNotScheduled, TypeOK, QueueTypeOK
<1>12. HeldWhileHolding'
  BY <1>1, <1>2 DEF IInv, HeldWhileHolding, Holding
<1>13. LoopsInStep'
  BY <1>1, <1>2 DEF IInv, LoopsInStep
<1>. QED
  BY <1>4, <1>7, <1>8, <1>9, <1>10, <1>11, <1>12, <1>13 DEF IInv

\* Clearing the scheduled jobs, also when the queue is destroyed.
LEMMA ClearStep ==
    ASSUME IInv, ClearScheduledJobs, UNCHANGED <<created, cursor, workerVars>>,
           owner = "idle",
           owner' = "idle" \/ (owner' = "destroyed" /\ ~created)
    PROVE  IInv'
<1>. USE DEF ClearScheduledJobs, DeleteOwned, workerVars
<1>1. /\ UNCHANGED <<running, created, cursor>>
      /\ UNCHANGED <<pc, aborted, held, executions>>
      /\ scheduled' = <<>>
  OBVIOUS
<1>2. /\ scheduled' \in Seq(Job)
      /\ IsInjective(scheduled')
      /\ Range(scheduled') = {}
  BY <1>1, EmptyList
<1>3. \A i \in Job :
        object'[i] = IF i \in Range(scheduled) /\ i \in OwnedJob THEN "deleted" ELSE object[i]
  OBVIOUS
<1>4. TypeOK'
  <2>1. object' \in [Job -> Lifetime]
    BY DEF IInv, TypeOK, QueueTypeOK, Lifetime
  <2>. QED  BY <2>1, <1>1, <1>2 DEF IInv, TypeOK, QueueTypeOK
<1>5. QueueStates'
  BY <1>1, <1>2 DEF IInv, QueueStates, Executing
<1>6. NoDanglingJob'
  <2>. SUFFICES ASSUME NEW i \in running \cup {held[w] : w \in Worker}, i # NoJob
                PROVE  object'[i] = "alive"
    BY <1>1, <1>2 DEF NoDanglingJob
  <2>1. i \notin Range(scheduled) /\ object[i] = "alive" /\ i \in Job
    BY DEF IInv, QueueStates, HeldNotScheduled, NoDanglingJob, TypeOK, QueueTypeOK
  <2>. QED  BY <2>1, <1>3
<1>7. ExecutedAtMostOnce' /\ HeldWhileHolding' /\ HeldNotScheduled'
  BY <1>1, <1>2 DEF IInv, ExecutedAtMostOnce, HeldWhileHolding, HeldNotScheduled
<1>8. ExecutedOnceAcquired'
  BY <1>1, <1>2, <1>3 DEF IInv, ExecutedOnceAcquired
<1>9. NoLeakedJob'
  BY <1>1, <1>3 DEF IInv, NoLeakedJob
<1>10. LoopsInStep'
  BY <1>1 DEF IInv, LoopsInStep
<1>. QED  BY <1>4, <1>5, <1>6, <1>7, <1>8, <1>9, <1>10 DEF IInv

\* Nothing happens in a stuttering step.
LEMMA StutterStep ==
    ASSUME IInv, UNCHANGED vars
    PROVE  IInv'
BY DEF IInv, vars, queueVars, managerVars, workerVars, TypeOK, QueueTypeOK, QueueStates,
   Executing, NoDanglingJob, ExecutedAtMostOnce, HeldWhileHolding, HeldNotScheduled,
   ExecutedOnceAcquired, NoLeakedJob, LoopsInStep

-----------------------------------------------------------------------------
(* The invariant. *)

\* The invariant holds when the JobManager has been constructed.
LEMMA InitIInv == Init => IInv
<1>. SUFFICES ASSUME Init PROVE IInv
  OBVIOUS
<1>. USE DEF Init, QueueInit
<1>1. /\ scheduled \in Seq(Job)
      /\ IsInjective(scheduled)
      /\ Range(scheduled) = {}
  BY EmptyList
<1>2. TypeOK
  <2>1. cursor \in 1 .. ThreadCount + 1
    BY PoolAssumption
  <2>. QED  BY <1>1, <2>1 DEF TypeOK, QueueTypeOK, Lifetime, Located
<1>3. QueueStates
  BY <1>1 DEF QueueStates, Executing
<1>4. NoDanglingJob /\ ExecutedAtMostOnce /\ HeldNotScheduled
  BY <1>1 DEF NoDanglingJob, ExecutedAtMostOnce, HeldNotScheduled
<1>5. HeldWhileHolding /\ ExecutedOnceAcquired /\ NoLeakedJob /\ LoopsInStep
  BY <1>1 DEF HeldWhileHolding, Holding, ExecutedOnceAcquired, NoLeakedJob, LoopsInStep
<1>. QED  BY <1>2, <1>3, <1>4, <1>5 DEF IInv

\* Every step of the workers and of the owner preserves it.
LEMMA NextIInv == IInv /\ [Next]_vars => IInv'
<1>. SUFFICES ASSUME IInv, [Next]_vars PROVE IInv'
  OBVIOUS
<1>1. ASSUME NEW w \in Worker, WorkerStep(w) PROVE IInv'
  BY <1>1, TestAbortStep, AcquireJobStep, FindQueueEmptyStep, FinishExecutionStep,
     RetireJobStep, DeleteJobStep DEF WorkerStep
<1>2. ASSUME NEW w \in Worker, NEW j \in Job, ScheduleFromJob(w, j) PROVE IInv'
  <2>1. owner # "destroyed"
    BY <1>2 DEF ScheduleFromJob, IInv, LoopsInStep
  <2>. QED  BY <2>1, <1>2, ScheduleStep DEF ScheduleFromJob
<1>3. CASE OwnerProgress
  BY <1>3, StartWorkerStep, StopWorkerStep, JoinWorkerStep, OwnerCallStep DEF OwnerProgress
<1>4. CASE OwnerCall
  <2>1. ASSUME NEW j \in Job, OwnerSchedule(j) PROVE IInv'
    BY <2>1, ScheduleStep DEF OwnerSchedule
  <2>2. CASE OwnerClear
    BY <2>2, ClearStep DEF OwnerClear, managerVars
  <2>3. CASE Destroy
    BY <2>3, ClearStep DEF Destroy
  <2>. QED  BY <1>4, <2>1, <2>2, <2>3, OwnerCallStep DEF OwnerCall
<1>5. CASE UNCHANGED vars
  BY <1>5, StutterStep
<1>. QED  BY <1>1, <1>2, <1>3, <1>4, <1>5 DEF Next

\* The invariant holds in every reachable state of the worker pool.
THEOREM Invariance == Spec => []IInv
BY InitIInv, NextIInv, PTL DEF Spec

\* Every variable keeps its type: a job list, a worker or a loop of the owner is
\* never in a state that the code has no name for.
THEOREM TypeCorrect == Spec => []TypeOK
<1>1. IInv => TypeOK
  BY DEF IInv
<1>. QED  BY <1>1, Invariance, PTL

\* Every job is in at most one list and with at most one worker.
THEOREM QueueStatesHold == Spec => []QueueStates
<1>1. IInv => QueueStates
  BY DEF IInv
<1>. QED  BY <1>1, Invariance, PTL

\* No job is used after it was deleted, nor deleted twice.
THEOREM NoUseAfterDelete == Spec => []NoDanglingJob
<1>1. IInv => NoDanglingJob
  BY DEF IInv
<1>. QED  BY <1>1, Invariance, PTL

\* No job is executed twice.
THEOREM AtMostOnce == Spec => []ExecutedAtMostOnce
<1>1. IInv => ExecutedAtMostOnce
  BY DEF IInv
<1>. QED  BY <1>1, Invariance, PTL

\* When JobManager::stop() has returned, no job runs and no worker holds one: the
\* assertion of ~JobQueue cannot fail.
THEOREM StopIsQuiet == Spec => []StoppedMeansQuiet
<1>1. IInv => StoppedMeansQuiet
  BY DEF IInv, StoppedMeansQuiet, LoopsInStep, HeldWhileHolding, Holding, QueueStates, Executing
<1>. QED  BY <1>1, Invariance, PTL

\* A destroyed queue has deleted the jobs it owned and no other.
THEOREM OwnershipIsSettled == Spec => []OwnershipSettled
<1>1. ASSUME IInv PROVE OwnershipSettled
  <2>. SUFFICES ASSUME owner = "destroyed", NEW j \in Job, object[j] # "unborn"
                PROVE  object[j] = "deleted" <=> j \in OwnedJob
    BY DEF OwnershipSettled
  <2>1. Range(scheduled) = {}
    BY <1>1, EmptyList DEF IInv, LoopsInStep
  <2>2. \A w \in Worker : held[w] # j
    BY <1>1, JobAssumption DEF IInv, LoopsInStep, HeldWhileHolding, Holding
  <2>3. object[j] \in {"alive", "deleted"}
    BY <1>1 DEF IInv, TypeOK, QueueTypeOK, Lifetime
  <2>. QED  BY <1>1, <2>1, <2>2, <2>3 DEF IInv, NoLeakedJob
<1>. QED  BY <1>1, Invariance, PTL

\* An idle queue is only woken by the owner: polling has_scheduled_or_running_jobs()
\* never sees a frame end that is not one.
THEOREM OwnerWakes == Spec => OnlyTheOwnerWakesTheQueue
<1>1. ASSUME IInv, [Next]_vars
      PROVE  [~HasScheduledOrRunningJobs /\ HasScheduledOrRunningJobs' => owner = "idle"]_vars
  <2>. SUFFICES ASSUME ~HasScheduledOrRunningJobs, HasScheduledOrRunningJobs', Next
                PROVE  owner = "idle"
    BY <1>1 DEF HasScheduledOrRunningJobs, vars, queueVars
  <2>1. scheduled = <<>> /\ running = {} /\ Executing = {}
    BY <1>1 DEF HasScheduledOrRunningJobs, IInv, QueueStates
  <2>2. ASSUME NEW w \in Worker, WorkerStep(w) PROVE FALSE
    BY <2>1, <2>2 DEF WorkerStep, TestAbort, AcquireJob, AcquireScheduledJob, FindQueueEmpty,
       FinishExecution, RetireJob, EraseRunningJob, DeleteJob, DeleteRetiredJob,
       queueVars, HasScheduledOrRunningJobs
  <2>3. ASSUME NEW w \in Worker, NEW j \in Job, ScheduleFromJob(w, j) PROVE FALSE
    BY <2>1, <2>3 DEF ScheduleFromJob, Executing
  <2>4. ASSUME OwnerProgress PROVE FALSE
    BY <2>1, <2>4 DEF OwnerProgress, StartWorker, StopWorker, JoinWorker, WaitReturns,
       queueVars, HasScheduledOrRunningJobs
  <2>5. CASE OwnerCall
    BY <2>5 DEF OwnerCall, OwnerSchedule, OwnerClear, CallStart, CallStop, CallWait, Destroy
  <2>. QED  BY <2>2, <2>3, <2>4, <2>5 DEF Next
<1>. QED  BY <1>1, Invariance, PTL DEF Spec, OnlyTheOwnerWakesTheQueue

\* A step of a worker or of the owner keeps what EndsWhenJoined says of the threads.
LEMMA EndsWhenJoinedStep ==
    ASSUME IInv, EndsWhenJoined, [Next]_vars
    PROVE  EndsWhenJoined'
<1>. USE DEF EndsWhenJoined, Goto
<1>1. pc \in [Worker -> Located] /\ aborted \in [Worker -> BOOLEAN]
  BY DEF IInv, TypeOK
<1>2. CASE \E w \in Worker : WorkerStep(w)
  <2>. SUFFICES ASSUME NEW w \in Worker, WorkerStep(w) PROVE EndsWhenJoined'
    BY <1>2
  <2>1. /\ UNCHANGED <<aborted, owner, cursor>>
        /\ pc[w] # "none"
        /\ \E l \in Located : pc' = [pc EXCEPT ![w] = l]
        /\ KeepRunning /\ pc'[w] = "exited" => aborted[w]
    BY <1>1, PoolAssumption
       DEF WorkerStep, TestAbort, AcquireJob, FindQueueEmpty, FinishExecution, RetireJob, DeleteJob,
           managerVars, Located, Holding
  <2>. QED  BY <1>1, <2>1
<1>3. CASE \E w \in Worker, j \in Job : ScheduleFromJob(w, j)
  BY <1>3 DEF ScheduleFromJob, managerVars, workerVars
<1>4. CASE OwnerProgress
  <2>1. ASSUME NEW w \in Worker, StartWorker(w) PROVE EndsWhenJoined'
    <3>1. \A v \in Worker : aborted[v] => pc[v] = "none"
      BY <2>1 DEF StartWorker
    <3>2. CASE pc[w] = "none"
      BY <1>1, <2>1, <3>1, <3>2 DEF StartWorker
    <3>3. CASE pc[w] # "none"
      BY <2>1, <3>1, <3>3 DEF StartWorker
    <3>. QED  BY <3>2, <3>3
  <2>2. ASSUME NEW w \in Worker, StopWorker(w) PROVE EndsWhenJoined'
    BY <1>1, <2>2 DEF StopWorker
  <2>3. ASSUME NEW w \in Worker, JoinWorker(w) PROVE EndsWhenJoined'
    BY <1>1, <2>3 DEF JoinWorker
  <2>4. CASE WaitReturns
    BY <2>4 DEF WaitReturns, workerVars
  <2>. QED  BY <1>4, <2>1, <2>2, <2>3, <2>4 DEF OwnerProgress
<1>5. CASE OwnerCall
  BY <1>5
     DEF OwnerCall, OwnerSchedule, OwnerClear, CallStart, CallStop, CallWait, Destroy, managerVars,
         workerVars
<1>6. CASE UNCHANGED vars
  BY <1>6 DEF vars, managerVars, workerVars
<1>. QED  BY <1>2, <1>3, <1>4, <1>5, <1>6 DEF Next

\* JobManager::start() leaves every worker running when keep_running is set, as it is for
\* the progressive renderer: a thread whose m_thread is set has not finished.  (Without
\* keep_running this is false.)
THEOREM StartsEveryWorker == ASSUME KeepRunning PROVE Spec => StartLeavesWorkersRunning
<1>1. Init => EndsWhenJoined
  BY DEF Init, EndsWhenJoined
<1>2. IInv /\ EndsWhenJoined /\ [Next]_vars => EndsWhenJoined'
  BY EndsWhenJoinedStep
<1>3. ASSUME IInv, EndsWhenJoined, [Next]_vars
      PROVE  [\A w \in Worker : StartWorker(w) => pc'[w] # "exited"]_vars
  <2>. SUFFICES ASSUME NEW w \in Worker, StartWorker(w) PROVE pc'[w] # "exited"
    OBVIOUS
  <2>1. pc \in [Worker -> Located]
    BY <1>3 DEF IInv, TypeOK
  <2>2. owner = "starting"
    BY DEF StartWorker
  <2>3. pc[w] # "exited"
    BY <1>3, <2>2 DEF EndsWhenJoined
  <2>. QED  BY <2>1, <2>3 DEF StartWorker
<1>. QED  BY <1>1, <1>2, <1>3, Invariance, PTL DEF Spec, StartLeavesWorkersRunning

-----------------------------------------------------------------------------
(* WorkerPool implements JobPool: each step is a step of the pool or stutters. *)

\* The refinement mapping of WorkerPool!Pool, by name.
Finished == {j \in Job : executions[j] > 0} \ running
Discarded == {j \in Job : /\ object[j] # "unborn"
                          /\ executions[j] = 0
                          /\ j \notin Range(scheduled)}

\* A step that leaves the lists, the history and `created' alone and only deletes
\* a job that was executed, or none, is invisible in the pool.
LEMMA InvisibleStep ==
    ASSUME IInv, UNCHANGED <<scheduled, running, created, executions>>,
           \A j \in Job : object'[j] = "unborn" <=> object[j] = "unborn"
    PROVE  UNCHANGED Pool!poolVars
<1>1. Finished' = Finished /\ Discarded' = Discarded
  BY DEF Finished, Discarded
<1>. QED  BY <1>1 DEF Pool!poolVars, Finished, Discarded

\* schedule() submits a job to JobPool.
LEMMA SubmitRefines ==
    ASSUME IInv, NEW j \in Job, Schedule(j), UNCHANGED <<created, executions>>
    PROVE  Pool!Submit(j)
<1>. USE DEF Schedule
<1>1. /\ object[j] = "unborn"
      /\ executions[j] = 0
      /\ j \notin Range(scheduled)
      /\ j \notin running
  BY JobAssumption DEF IInv, ExecutedOnceAcquired, NoDanglingJob
<1>2. Range(scheduled') = Range(scheduled) \cup {j}
  BY <1>1, AppendKeepsInjective DEF IInv, QueueStates, TypeOK, QueueTypeOK
<1>3. \A i \in Job : object'[i] = IF i = j THEN "alive" ELSE object[i]
  BY DEF IInv, TypeOK, QueueTypeOK
<1>4. Finished' = Finished
  BY DEF Finished
<1>5. Discarded' = Discarded
  BY <1>1, <1>2, <1>3 DEF Discarded
<1>6. j \notin Pool!Known
  BY <1>1 DEF Pool!Known, Pool!Range, Range
<1>7. scheduled' = Append(scheduled, j) /\ UNCHANGED <<running, created>>
  OBVIOUS
<1>. HIDE DEF Schedule
<1>. QED  BY <1>4, <1>5, <1>6, <1>7 DEF Pool!Submit, Finished, Discarded

\* acquire_scheduled_job() begins the job that JobPool would begin.
LEMMA BeginRefines ==
    ASSUME IInv, NEW w \in Worker, AcquireJob(w)
    PROVE  Pool!Begin
<1>. DEFINE j == Head(scheduled)
<1>. USE DEF AcquireJob, AcquireScheduledJob, Goto, managerVars
<1>1. created
  BY DEF IInv, LoopsInStep
<1>2. /\ j \in Job
      /\ j \in Range(scheduled)
      /\ Range(scheduled') = Range(scheduled) \ {j}
  BY TailKeepsInjective DEF IInv, TypeOK, QueueTypeOK, QueueStates
<1>3. \A i \in Job : executions'[i] = IF i = j THEN executions[j] + 1 ELSE executions[i]
  BY <1>2 DEF IInv, TypeOK
<1>4. executions[j] = 0
  BY <1>2 DEF IInv, ExecutedOnceAcquired
<1>5. Finished' = Finished
  BY <1>2, <1>3, <1>4 DEF Finished
<1>6. Discarded' = Discarded
  BY <1>2, <1>3, <1>4 DEF Discarded
<1>. QED  BY <1>1, <1>5, <1>6 DEF Pool!Begin, Finished, Discarded

\* The locked half of retire_running_job() finishes a job of JobPool.
LEMMA FinishRefines ==
    ASSUME IInv, NEW w \in Worker, RetireJob(w), NEW j, j = held[w]
    PROVE  j \in Job /\ Pool!Finish(j)
<1>. USE DEF RetireJob, EraseRunningJob, Goto, managerVars
<1>1. held[w] # NoJob /\ w \in Executing
  BY DEF IInv, HeldWhileHolding, Holding, Executing
<1>2. /\ j \in running
      /\ executions[j] = 1
      /\ j \in Job
  BY <1>1 DEF IInv, QueueStates, ExecutedOnceAcquired, TypeOK
<1>3. Finished' = Finished \cup {j}
  BY <1>2 DEF Finished
<1>4. Discarded' = Discarded
  BY DEF Discarded
<1>. QED  BY <1>2, <1>3, <1>4 DEF Pool!Finish, Finished, Discarded

\* clear_scheduled_jobs() discards what is pending in JobPool.
LEMMA DiscardRefines ==
    ASSUME IInv, ClearScheduledJobs, UNCHANGED <<created, executions>>
    PROVE  Pool!Discard
<1>. USE DEF ClearScheduledJobs, DeleteOwned
<1>1. Range(scheduled') = {}
  BY EmptyList
<1>2. Range(scheduled) \subseteq Job
  BY RangeOfSeq DEF IInv, TypeOK, QueueTypeOK
<1>3. \A j \in Range(scheduled) : object[j] = "alive" /\ executions[j] = 0
  BY <1>2, JobAssumption DEF IInv, NoDanglingJob, ExecutedOnceAcquired
<1>4. \A j \in Job : object'[j] = "unborn" <=> object[j] = "unborn"
  BY <1>3
<1>5. Discarded' = Discarded \cup Range(scheduled)
  BY <1>1, <1>2, <1>3, <1>4 DEF Discarded
<1>6. Finished' = Finished
  BY DEF Finished
<1>7. scheduled' = <<>> /\ UNCHANGED <<running, created>>
  OBVIOUS
<1>. HIDE DEF ClearScheduledJobs, DeleteOwned
<1>. QED  BY <1>5, <1>6, <1>7 DEF Pool!Discard, Pool!Range, Range, Finished, Discarded

\* Every step of the pool is a step of JobPool or a stutter.
LEMMA StepRefines ==
    ASSUME IInv, IInv', [Next]_vars
    PROVE  [Pool!PoolNext]_(Pool!poolVars)
<1>. USE DEF queueVars, managerVars, workerVars
<1>1. ASSUME NEW w \in Worker, WorkerStep(w)
      PROVE  Pool!PoolNext \/ UNCHANGED Pool!poolVars
  <2>1. CASE AcquireJob(w)
    BY <2>1, BeginRefines DEF Pool!PoolNext
  <2>2. CASE RetireJob(w)
    <3>1. PICK j : j = held[w]
      OBVIOUS
    <3>2. j \in Job /\ Pool!Finish(j)
      BY <2>2, <3>1, FinishRefines
    <3>. QED  BY <3>2 DEF Pool!PoolNext
  <2>3. CASE DeleteJob(w)
    <3>1. UNCHANGED <<scheduled, running, created, executions>>
      BY <2>3 DEF DeleteJob, DeleteRetiredJob
    <3>2. held[w] # NoJob
      BY <2>3 DEF DeleteJob, Goto, IInv, HeldWhileHolding, Holding
    <3>3. object[held[w]] = "alive"
      BY <3>2 DEF IInv, NoDanglingJob
    <3>4. \A j \in Job : object'[j] = "unborn" <=> object[j] = "unborn"
      BY <2>3, <3>3 DEF DeleteJob, DeleteRetiredJob, DeleteOwned
    <3>. QED  BY <3>1, <3>4, InvisibleStep
  <2>4. CASE TestAbort(w) \/ FindQueueEmpty(w) \/ FinishExecution(w)
    BY <2>4, InvisibleStep DEF TestAbort, FindQueueEmpty, FinishExecution
  <2>. QED  BY <1>1, <2>1, <2>2, <2>3, <2>4 DEF WorkerStep
<1>2. ASSUME NEW w \in Worker, NEW j \in Job, ScheduleFromJob(w, j)
      PROVE  Pool!PoolNext
  BY <1>2, SubmitRefines DEF ScheduleFromJob, Pool!PoolNext
<1>3. CASE OwnerProgress
  <2>1. ASSUME NEW w \in Worker, JoinWorker(w)
        PROVE  Pool!PoolNext \/ UNCHANGED Pool!poolVars
    <3>1. UNCHANGED <<scheduled, running, object, executions>>
      BY <2>1 DEF JoinWorker
    <3>2. created
      BY <2>1 DEF JoinWorker, IInv, LoopsInStep
    <3>3. CASE created'
      BY <3>1, <3>2, <3>3, InvisibleStep, <2>1 DEF JoinWorker
    <3>4. CASE ~created'
      <4>1. created' = FALSE
        BY <2>1, <3>4 DEF JoinWorker
      <4>2. running' = {}
        BY <3>4 DEF IInv, LoopsInStep, QueueStates, Executing
      <4>3. Finished' = Finished /\ Discarded' = Discarded
        BY <3>1 DEF Finished, Discarded
      <4>. QED  BY <3>1, <4>1, <4>2, <4>3 DEF Pool!PoolNext, Pool!Close, Finished, Discarded
    <3>. QED  BY <3>3, <3>4
  <2>2. ASSUME NEW w \in Worker, StartWorker(w) \/ StopWorker(w)
        PROVE  UNCHANGED Pool!poolVars
    BY <2>2, InvisibleStep DEF StartWorker, StopWorker
  <2>3. CASE WaitReturns
    BY <2>3, InvisibleStep DEF WaitReturns
  <2>. QED  BY <1>3, <2>1, <2>2, <2>3 DEF OwnerProgress
<1>4. CASE OwnerCall
  <2>1. ASSUME NEW j \in Job, OwnerSchedule(j) PROVE Pool!PoolNext
    BY <2>1, SubmitRefines DEF OwnerSchedule, Pool!PoolNext
  <2>2. CASE OwnerClear \/ Destroy
    BY <2>2, DiscardRefines DEF OwnerClear, Destroy, Pool!PoolNext
  <2>3. CASE CallStart
    <3>1. Finished' = Finished /\ Discarded' = Discarded
      BY <2>3 DEF CallStart, Finished, Discarded
    <3>. QED  BY <2>3, <3>1 DEF CallStart, Pool!PoolNext, Pool!Open, Finished, Discarded
  <2>4. CASE CallStop \/ CallWait
    BY <2>4, InvisibleStep DEF CallStop, CallWait
  <2>. QED  BY <1>4, <2>1, <2>2, <2>3, <2>4 DEF OwnerCall
<1>5. CASE UNCHANGED vars
  BY <1>5, InvisibleStep DEF vars
<1>. QED  BY <1>1, <1>2, <1>3, <1>4, <1>5 DEF Next

\* The pool starts where JobPool starts.
LEMMA InitRefines == Init => Pool!PoolInit
<1>. SUFFICES ASSUME Init PROVE Pool!PoolInit
  OBVIOUS
<1>1. Finished = {} /\ Discarded = {}
  BY DEF Init, QueueInit, Finished, Discarded
<1>. QED  BY <1>1 DEF Init, QueueInit, Pool!PoolInit, Finished, Discarded

\* The threads, the locks and the object lifetimes of the worker pool implement the
\* plain first-in first-out pool.
THEOREM PoolRefinement == Spec => ImplementsPool
BY InitRefines, StepRefines, Invariance, PTL DEF Spec, ImplementsPool, Pool!PoolSpec

=============================================================================
