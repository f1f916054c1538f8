--------------------------- MODULE SharedBindings ---------------------------
(***************************************************************************)
(* Tasks that update a variable of a scope they share: `x = x + 1`, run by *)
(* each worker in a call frame whose outer scope is the global one.        *)
(*                                                                         *)
(* Every Environment frame has a lock of its own, held while one frame is  *)
(* read or written; Get and AssignStrict walk outward frame by frame and   *)
(* release one lock before they take the next.  The evaluator holds no     *)
(* lock from the read of x to the assignment, and workers are goroutines.  *)
(***************************************************************************)
EXTENDS Naturals, FiniteSets

CONSTANTS
  Workers,   \* tasks that run the statement once
  Global,    \* the global frame
  Unbound    \* no binding of x in a frame

Frames == Workers \cup {Global}

VARIABLES
  store,   \* the binding of x in each frame
  pc,      \* where a worker is in the statement
  seen     \* the value of x + 1 it has computed

vars == <<store, pc, seen>>

Init ==
  /\ store = [f \in Frames |-> IF f = Global THEN 0 ELSE Unbound]
  /\ pc = [w \in Workers |-> "get_own"]
  /\ seen = [w \in Workers |-> Unbound]

Goto(w, step) == pc' = [pc EXCEPT ![w] = step]

(* Eval of the right-hand side: Environment.Get, frame by frame. *)
GetAt(w, f, here, next) ==
  /\ pc[w] = here
  /\ IF store[f] # Unbound
     THEN seen' = [seen EXCEPT ![w] = store[f] + 1] /\ Goto(w, "assign_own")
     ELSE Goto(w, next) /\ UNCHANGED seen
  /\ UNCHANGED store

(* AssignStrict: the frame that binds x is updated under its lock. *)
AssignAt(w, f, here, next) ==
  /\ pc[w] = here
  /\ IF store[f] # Unbound
     THEN store' = [store EXCEPT ![f] = seen[w]] /\ Goto(w, "done")
     ELSE Goto(w, next) /\ UNCHANGED store
  /\ UNCHANGED seen

(* No frame binds x: an implicit let in the current one. *)
ImplicitLet(w) ==
  /\ pc[w] = "let"
  /\ store' = [store EXCEPT ![w] = seen[w]]
  /\ Goto(w, "done")
  /\ UNCHANGED seen

Statement(w) ==
  \/ GetAt(w, w, "get_own", "get_global")
  \/ GetAt(w, Global, "get_global", "undefined")
  \/ AssignAt(w, w, "assign_own", "assign_global")
  \/ AssignAt(w, Global, "assign_global", "let")
  \/ ImplicitLet(w)

Next == \E w \in Workers : Statement(w)

Spec == Init /\ [][Next]_vars /\ \A w \in Workers : WF_vars(Statement(w))

-----------------------------------------------------------------------------
(* "User code can never observe a switch anywhere else" than at a yield    *)
(* point.  The statement has none, so the workers' updates of x follow one *)
(* another and none is lost.                                               *)
SwitchesOnlyAtYields ==
  (\A w \in Workers : pc[w] = "done") => store[Global] = Cardinality(Workers)

=============================================================================
