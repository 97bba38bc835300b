-------------------------- MODULE MCTaskPipeline --------------------------
(* Instances of TaskPipeline for TLC. *)
EXTENDS TaskPipeline, TLC

TaskSymmetry == Permutations(Task)
===========================================================================
