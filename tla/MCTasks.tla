------------------------------ MODULE MCTasks -------------------------------
(* Main and three tasks; a pmap takes at most two elements. *)
EXTENDS Tasks
=============================================================================
