------------------------------ MODULE Futures ------------------------------
(***************************************************************************)
(* What the task runtime promises a program, without saying how: a task is *)
(* started once, runs beside the others, and ends once, with a result that *)
(* stays; a join answers that result; a pmap starts a task for each of its *)
(* elements and answers for all of them, in their order; and between the   *)
(* return of a drain and the next request nothing runs at all.             *)
(* Tasks.tla is shown to implement this specification.                     *)
(***************************************************************************)
EXTENDS Naturals, Sequences

CONSTANTS
  Callers,    \* who can start tasks and wait for them
  TaskIds,
  Outcomes,   \* how a task may end
  MaxMap      \* bound: elements of a pmap's array

VARIABLES
  state,      \* a task is "unborn", then "running", then "ended"
  result,     \* what an ended task ended with
  mapping,    \* the callers inside a pmap
  left,       \* elements their pmaps have no task for yet
  waiting,    \* tasks they have started and not yet heard of, in order
  answer,     \* how the last join or pmap of each caller ended
  quiet       \* a drain has returned, and no request has come since

vars == <<state, result, mapping, left, waiting, answer, quiet>>
mapVars == <<mapping, left, waiting>>

Init ==
  /\ state = [t \in TaskIds |-> "unborn"] /\ result = [t \in TaskIds |-> "nil"]
  /\ mapping = {} /\ left = [p \in Callers |-> 0] /\ waiting = [p \in Callers |-> <<>>]
  /\ answer = [p \in Callers |-> "none"]
  /\ quiet = FALSE

(* A pmap's caller starts the tasks of its elements before anything else. *)
Start(p, t) ==
  /\ ~quiet /\ state[t] = "unborn"
  /\ state' = [state EXCEPT ![t] = "running"]
  /\ IF p \in mapping
     THEN /\ left[p] > 0 /\ left' = [left EXCEPT ![p] = @ - 1]
          /\ waiting' = [waiting EXCEPT ![p] = Append(@, t)]
     ELSE UNCHANGED <<left, waiting>>
  /\ UNCHANGED <<result, mapping, answer, quiet>>

End(t, outcome) ==
  /\ ~quiet /\ state[t] = "running"
  /\ state' = [state EXCEPT ![t] = "ended"]
  /\ result' = [result EXCEPT ![t] = outcome]
  /\ UNCHANGED <<mapVars, answer, quiet>>

Joined(p, t) ==
  /\ ~quiet /\ p \notin mapping /\ state[t] = "ended"
  /\ answer' = [answer EXCEPT ![p] = result[t]]
  /\ UNCHANGED <<state, result, mapVars, quiet>>

Map(p, n) ==
  /\ ~quiet /\ p \notin mapping
  /\ mapping' = mapping \cup {p} /\ left' = [left EXCEPT ![p] = n]
  /\ UNCHANGED <<state, result, waiting, answer, quiet>>

(* The next task in the order of the elements has ended with a value ... *)
Collected(p) ==
  /\ ~quiet /\ p \in mapping /\ left[p] = 0 /\ waiting[p] # <<>>
  /\ result[Head(waiting[p])] = "value"
  /\ waiting' = [waiting EXCEPT ![p] = Tail(@)]
  /\ UNCHANGED <<state, result, mapping, left, answer, quiet>>

(* ... or with an error, which is the pmap's. *)
MapFailed(p) ==
  /\ ~quiet /\ p \in mapping /\ left[p] = 0 /\ waiting[p] # <<>>
  /\ result[Head(waiting[p])] = "error"
  /\ mapping' = mapping \ {p} /\ waiting' = [waiting EXCEPT ![p] = <<>>]
  /\ answer' = [answer EXCEPT ![p] = "error"]
  /\ UNCHANGED <<state, result, left, quiet>>

Mapped(p) ==
  /\ ~quiet /\ p \in mapping /\ left[p] = 0 /\ waiting[p] = <<>>
  /\ mapping' = mapping \ {p}
  /\ answer' = [answer EXCEPT ![p] = "value"]
  /\ UNCHANGED <<state, result, left, waiting, quiet>>

Drained ==
  /\ ~quiet /\ quiet' = TRUE
  /\ \A t \in TaskIds : state[t] # "running"
  /\ UNCHANGED <<state, result, mapVars, answer>>

NextRequest == quiet /\ quiet' = FALSE /\ UNCHANGED <<state, result, mapVars, answer>>

Next ==
  \/ \E p \in Callers :
       \/ \E t \in TaskIds : Start(p, t) \/ Joined(p, t)
       \/ \E n \in 1..MaxMap : Map(p, n)
       \/ Collected(p) \/ MapFailed(p) \/ Mapped(p)
  \/ \E t \in TaskIds, outcome \in Outcomes : End(t, outcome)
  \/ Drained \/ NextRequest

Spec == Init /\ [][Next]_vars

=============================================================================
