---------------------------- MODULE MCWorkerPool ----------------------------
(***************************************************************************)
(* Instances of WorkerPool for TLC: up to three workers and three jobs,    *)
(* one of which the queue does not own.  Every job can be scheduled by the *)
(* owner or by another job.                                                *)
(***************************************************************************)
EXTENDS WorkerPool

CONSTANTS j1, j2, j3

Jobs == {j1, j2, j3}
Owned == {j1, j2}
=============================================================================
