-------------------------- MODULE MCSchedulerLock --------------------------
(* Model values and symmetry for the runs of SchedulerLock.                *)
EXTENDS SchedulerLock, TLC

\* Calls are interchangeable, and so are instances.
Symmetry == Permutations(Run) \cup Permutations(Instance)
============================================================================
