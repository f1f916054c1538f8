-------------------------- MODULE MCSharedBindings --------------------------
(* Two tasks that each run `x = x + 1` once on a global x. *)
EXTENDS SharedBindings
=============================================================================
