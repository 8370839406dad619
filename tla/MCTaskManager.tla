--------------------------- MODULE MCTaskManager ---------------------------
(***************************************************************************)
(* Instances of TaskManager for TLC.  Requests and task ids are            *)
(* interchangeable: the specification compares them only for equality.     *)
(* (EnqueueEvents and the like quantify over Requests without choosing.)   *)
(***************************************************************************)
EXTENDS TaskManager, TLC

Symmetry == Permutations(Requests) \cup Permutations(TaskIds)
=============================================================================
