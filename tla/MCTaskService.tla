--------------------------- MODULE MCTaskService ---------------------------
(* Two tasks, so that every pair of modes shares the table. *)
EXTENDS TaskService
=============================================================================
