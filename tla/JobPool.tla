------------------------------- MODULE JobPool -------------------------------
(***************************************************************************)
(* What a JobManager and its JobQueue promise together, with neither       *)
(* threads nor object lifetimes: jobs begin in the order they were         *)
(* submitted, each at most once and only while the pool is open; the pool  *)
(* closes only when no job is active; a pending job is either begun or     *)
(* discarded.  WorkerPool is shown to implement this specification.        *)
(***************************************************************************)
EXTENDS Sequences, Functions

CONSTANT Job

VARIABLES pending,    \* submitted jobs in submission order
          active,     \* jobs being executed
          finished,   \* jobs executed, successfully or not
          discarded,  \* jobs dropped before they could begin
          open        \* jobs may begin

poolVars == <<pending, active, finished, discarded, open>>

Known == Range(pending) \cup active \cup finished \cup discarded

PoolInit ==
    /\ pending = <<>>
    /\ active = {} /\ finished = {} /\ discarded = {}
    /\ open = FALSE

Submit(j) ==
    /\ j \notin Known
    /\ pending' = Append(pending, j)
    /\ UNCHANGED <<active, finished, discarded, open>>

Begin ==
    /\ open
    /\ pending # <<>>
    /\ pending' = Tail(pending)
    /\ active' = active \cup {Head(pending)}
    /\ UNCHANGED <<finished, discarded, open>>

Finish(j) ==
    /\ j \in active
    /\ active' = active \ {j}
    /\ finished' = finished \cup {j}
    /\ UNCHANGED <<pending, discarded, open>>

Discard ==
    /\ discarded' = discarded \cup Range(pending)
    /\ pending' = <<>>
    /\ UNCHANGED <<active, finished, open>>

Open ==
    /\ open' = TRUE
    /\ UNCHANGED <<pending, active, finished, discarded>>

Close ==
    /\ active = {}
    /\ open' = FALSE
    /\ UNCHANGED <<pending, active, finished, discarded>>

PoolNext ==
    \/ \E j \in Job : Submit(j) \/ Finish(j)
    \/ Begin \/ Discard \/ Open \/ Close

PoolSpec == PoolInit /\ [][PoolNext]_poolVars

=============================================================================
