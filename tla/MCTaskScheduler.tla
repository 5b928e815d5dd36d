-------------------------- MODULE MCTaskScheduler --------------------------
(* Instances of TaskScheduler for TLC.                                      *)
EXTENDS TaskScheduler, TLC

(* Tasks are interchangeable; runs are taken in order.  Sound only where no *)
(* liveness property is checked.                                            *)
Symmetry == Permutations(Tasks)
=============================================================================
