--------------------------- MODULE MCTaskManager ---------------------------
(* Two tasks, the executor of t1 launching a source gym and the adapter of *)
(* t2 going to 0G Storage.                                                 *)
EXTENDS TaskManager
=============================================================================
