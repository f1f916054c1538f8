------------------------------- MODULE Tasks --------------------------------
(***************************************************************************)
(* The task runtime: spawn, join and pmap, the registry of spawned tasks,  *)
(* object.Task's result hand-off, and DrainSpawnedTasks, which `nvs run`,  *)
(* the profiler and the bridge call to wait for every task before they     *)
(* answer.                                                                 *)
(*                                                                         *)
(* A process is a goroutine that evaluates NvS code: Main, or a spawned    *)
(* task, known by its id.  What its program does next (spawn, join, pmap,  *)
(* return, panic) is its own choice.  A step is a stretch of code between  *)
(* two points where another goroutine can see or change what it uses.      *)
(***************************************************************************)
EXTENDS Naturals, Sequences

CONSTANTS
  MaxTasks,   \* bound: tasks spawned in a run
  MaxMap      \* bound: elements of a pmap's array

ASSUME TasksAssumption == MaxTasks \in Nat /\ MaxMap \in Nat

Main == 0
TaskIds == 1..MaxTasks
Procs == {Main} \cup TaskIds

VARIABLES
  counter,    \* taskIDCounter
  registry,   \* the keys of spawnedTasks
  locked,     \* spawnedMu is held across steps (by the drain)
  pc,         \* where a process is
  child,      \* the task a process is spawning
  target,     \* the task a process is waiting for in join
  res,        \* Task.res: "nil" before Finish
  batch,      \* the tasks a process's pmap has spawned, in element order
  left,       \* elements its pmap has still to spawn a task for
  reply,      \* how its last join or pmap ended
  todo,       \* drain: registry entries the scan has not visited yet
  pending,    \* drain: tasks the scan found unfinished
  quota       \* bound: spawns the programs may still ask for

vars == <<counter, registry, locked, pc, child, target, res, batch, left, reply,
          todo, pending, quota>>

Steps == {"unborn", "run", "spawn", "registered", "join", "pmap", "finish", "done",
          "drain", "scan", "wait", "drained"}
Outcomes == {"value", "error"}

IsDone(t) == pc[t] = "done"

(* A task whose goroutine exists and has not closed its done channel. *)
Alive(t) == pc[t] \notin {"unborn", "done"}

Init ==
  /\ counter = 0 /\ registry = {} /\ locked = FALSE
  /\ pc = [p \in Procs |-> IF p = Main THEN "run" ELSE "unborn"]
  /\ child = [p \in Procs |-> Main]
  /\ target = [p \in Procs |-> Main]
  /\ res = [t \in TaskIds |-> "nil"]
  /\ batch = [p \in Procs |-> <<>>]
  /\ left = [p \in Procs |-> 0]
  /\ reply = [p \in Procs |-> "none"]
  /\ todo = {} /\ pending = {}
  /\ quota = MaxTasks

drainVars == <<locked, todo, pending>>
callVars == <<target, res, reply>>

-----------------------------------------------------------------------------
(* Faulty variant: ids are handed out without the atomic increment. *)
SpawnIdRacy(p) ==
  /\ \/ pc[p] = "run" /\ quota > 0 /\ quota' = quota - 1
     \/ pc[p] = "pmap" /\ left[p] > 0 /\ UNCHANGED quota
  /\ counter < MaxTasks
  /\ counter' \in {counter, counter + 1}
  /\ child' = [child EXCEPT ![p] = counter + 1]
  /\ pc' = [pc EXCEPT ![p] = "spawn"]
  /\ UNCHANGED <<registry, batch, left, callVars, drainVars>>

(* spawnTask: the id comes from an atomic counter, the task enters the     *)
(* registry under spawnedMu, and only then does its goroutine start.       *)
SpawnId(p) ==
  /\ \/ pc[p] = "run" /\ quota > 0 /\ quota' = quota - 1
     \/ pc[p] = "pmap" /\ left[p] > 0 /\ UNCHANGED quota
  /\ counter < MaxTasks
  /\ counter' = counter + 1
  /\ child' = [child EXCEPT ![p] = counter + 1]
  /\ pc' = [pc EXCEPT ![p] = "spawn"]
  /\ UNCHANGED <<registry, batch, left, callVars, drainVars>>

SpawnRegister(p) ==
  /\ pc[p] = "spawn"
  /\ ~locked
  /\ registry' = registry \cup {child[p]}
  /\ pc' = [pc EXCEPT ![p] = "registered"]
  /\ UNCHANGED <<counter, child, batch, left, callVars, drainVars, quota>>

(* The go statement; inside pmap the handle goes to the next slot. *)
SpawnGo(p) ==
  /\ pc[p] = "registered"
  /\ child' = [child EXCEPT ![p] = Main]
  /\ IF left[p] > 0
     THEN /\ pc' = [pc EXCEPT ![child[p]] = "run", ![p] = "pmap"]
          /\ batch' = [batch EXCEPT ![p] = Append(@, child[p])]
          /\ left' = [left EXCEPT ![p] = @ - 1]
     ELSE /\ pc' = [pc EXCEPT ![child[p]] = "run", ![p] = "run"]
          /\ UNCHANGED <<batch, left>>
  /\ UNCHANGED <<counter, registry, callVars, drainVars, quota>>

-----------------------------------------------------------------------------
(* Faulty variant: the deferred recovery finishes a finished task again. *)
CloseDoneAndRefinish(p) ==
  /\ pc[p] = "finish"
  /\ res' = [res EXCEPT ![p] = "error"]
  /\ pc' = [pc EXCEPT ![p] = "done"]
  /\ UNCHANGED <<counter, registry, child, target, batch, left, reply, drainVars, quota>>

(* The task's function returns a value, raises an error, or panics and is  *)
(* recovered: Finish stores the result, then closes the done channel.      *)
Finish(p, outcome) ==
  /\ pc[p] = "run" /\ p # Main
  /\ res' = [res EXCEPT ![p] = outcome]
  /\ pc' = [pc EXCEPT ![p] = "finish"]
  /\ UNCHANGED <<counter, registry, child, target, batch, left, reply, drainVars, quota>>

CloseDone(p) ==
  /\ pc[p] = "finish"
  /\ pc' = [pc EXCEPT ![p] = "done"]
  /\ UNCHANGED <<counter, registry, child, batch, left, callVars, drainVars, quota>>

(* join(task): any task whose handle has been handed out may be joined, by *)
(* anyone, itself included; join then blocks in Wait.                      *)
Join(p, t) ==
  /\ pc[p] = "run"
  /\ pc[t] # "unborn"
  /\ target' = [target EXCEPT ![p] = t]
  /\ pc' = [pc EXCEPT ![p] = "join"]
  /\ UNCHANGED <<counter, registry, child, res, batch, left, reply, drainVars, quota>>

JoinReturn(p) ==
  /\ pc[p] = "join"
  /\ IsDone(target[p])
  /\ reply' = [reply EXCEPT ![p] = res[target[p]]]
  /\ target' = [target EXCEPT ![p] = Main]
  /\ pc' = [pc EXCEPT ![p] = "run"]
  /\ UNCHANGED <<counter, registry, child, res, batch, left, drainVars, quota>>

-----------------------------------------------------------------------------
(* pmap(fn, array): one task per element, spawned one after the other,     *)
(* then joined in element order; the first error found that way is         *)
(* returned at once, whatever the tasks after it are doing.  (An empty     *)
(* array gives [] at once, without a step anyone could see: n >= 1 here.)  *)
Pmap(p, n) ==
  /\ pc[p] = "run"
  /\ n <= quota /\ quota' = quota - n
  /\ left' = [left EXCEPT ![p] = n]
  /\ batch' = [batch EXCEPT ![p] = <<>>]
  /\ pc' = [pc EXCEPT ![p] = "pmap"]
  /\ UNCHANGED <<counter, registry, child, callVars, drainVars>>

(* Faulty variant: the results of a pmap's tasks are not looked at. *)
PmapCollectUnchecked(p) ==
  /\ pc[p] = "pmap" /\ left[p] = 0
  /\ batch[p] # <<>>
  /\ IsDone(Head(batch[p]))
  /\ batch' = [batch EXCEPT ![p] = Tail(@)]
  /\ UNCHANGED <<counter, registry, pc, child, target, res, reply, left, drainVars, quota>>

PmapCollect(p) ==
  /\ pc[p] = "pmap" /\ left[p] = 0
  /\ batch[p] # <<>>
  /\ LET t == Head(batch[p])
     IN /\ IsDone(t)
        /\ IF res[t] = "error"
           THEN /\ reply' = [reply EXCEPT ![p] = "error"]
                /\ pc' = [pc EXCEPT ![p] = "run"]
                /\ batch' = [batch EXCEPT ![p] = <<>>]
           ELSE /\ batch' = [batch EXCEPT ![p] = Tail(@)]
                /\ UNCHANGED <<reply, pc>>
  /\ UNCHANGED <<counter, registry, child, target, res, left, drainVars, quota>>

PmapReturn(p) ==
  /\ pc[p] = "pmap" /\ left[p] = 0
  /\ batch[p] = <<>>
  /\ reply' = [reply EXCEPT ![p] = "value"]
  /\ pc' = [pc EXCEPT ![p] = "run"]
  /\ UNCHANGED <<counter, registry, child, target, res, batch, left, drainVars, quota>>

-----------------------------------------------------------------------------
(* DrainSpawnedTasks, called by Main when its program is over. *)
DrainCall ==
  /\ pc[Main] = "run"
  /\ pc' = [pc EXCEPT ![Main] = "drain"]
  /\ UNCHANGED <<counter, registry, child, batch, left, callVars, drainVars, quota>>

DrainLock ==
  /\ pc[Main] = "drain"
  /\ ~locked
  /\ locked' = TRUE
  /\ todo' = registry /\ pending' = {}
  /\ pc' = [pc EXCEPT ![Main] = "scan"]
  /\ UNCHANGED <<counter, registry, child, batch, left, callVars, quota>>

(* The range over the map, in any order, while tasks go on finishing. *)
DrainVisit(t) ==
  /\ pc[Main] = "scan"
  /\ t \in todo
  /\ todo' = todo \ {t}
  /\ pending' = IF IsDone(t) THEN pending ELSE pending \cup {t}
  /\ UNCHANGED <<counter, registry, locked, pc, child, batch, left, callVars, quota>>

DrainReset ==
  /\ pc[Main] = "scan" /\ todo = {} /\ pending = {}
  /\ registry' = {}
  /\ locked' = FALSE
  /\ pc' = [pc EXCEPT ![Main] = "drained"]
  /\ UNCHANGED <<counter, child, batch, left, callVars, todo, pending, quota>>

(* Faulty variant: the drain waits with spawnedMu held. *)
DrainKeepsLock ==
  /\ pc[Main] = "scan" /\ todo = {} /\ pending # {}
  /\ pc' = [pc EXCEPT ![Main] = "wait"]
  /\ UNCHANGED <<counter, registry, child, batch, left, callVars, drainVars, quota>>

DrainUnlock ==
  /\ pc[Main] = "scan" /\ todo = {} /\ pending # {}
  /\ locked' = FALSE
  /\ pc' = [pc EXCEPT ![Main] = "wait"]
  /\ UNCHANGED <<counter, registry, child, batch, left, callVars, todo, pending, quota>>

(* Faulty variant: one pass, no second look at the registry. *)
DrainWaitOnce ==
  /\ pc[Main] = "wait"
  /\ \A t \in pending : IsDone(t)
  /\ pc' = [pc EXCEPT ![Main] = "drained"]
  /\ UNCHANGED <<counter, registry, child, batch, left, callVars, drainVars, quota>>

(* The loop of Waits over the pending slice is over when all are done. *)
DrainWait ==
  /\ pc[Main] = "wait"
  /\ \A t \in pending : IsDone(t)
  /\ pc' = [pc EXCEPT ![Main] = "drain"]
  /\ UNCHANGED <<counter, registry, child, batch, left, callVars, drainVars, quota>>

(* The bridge takes the next request; `nvs run` exits instead. *)
NextRequest ==
  /\ pc[Main] = "drained"
  /\ pc' = [pc EXCEPT ![Main] = "run"]
  /\ UNCHANGED <<counter, registry, child, batch, left, callVars, drainVars, quota>>

-----------------------------------------------------------------------------
Drain ==
  \/ DrainLock \/ DrainReset \/ DrainUnlock \/ DrainWait
  \/ \E t \in TaskIds : DrainVisit(t)

(* What the runtime does by itself once a process has called it. *)
Runtime(p) ==
  \/ SpawnRegister(p) \/ SpawnGo(p) \/ CloseDone(p) \/ JoinReturn(p)
  \/ PmapCollect(p) \/ PmapReturn(p)

Program(p) ==
  \/ SpawnId(p)
  \/ \E o \in Outcomes : Finish(p, o)
  \/ \E t \in TaskIds : Join(p, t)
  \/ \E n \in 1..MaxMap : Pmap(p, n)

Next ==
  \/ \E p \in Procs : Runtime(p) \/ Program(p)
  \/ DrainCall \/ Drain \/ NextRequest

(* Goroutines that can run do run; a task's own program terminates: one    *)
(* that keeps coming back to its code finally returns, and a pmap goes on  *)
(* to its next element.                                                    *)
Fairness ==
  /\ WF_vars(Drain)
  /\ \A p \in Procs : WF_vars(Runtime(p)) /\ WF_vars(pc[p] = "pmap" /\ SpawnId(p))
  /\ \A t \in TaskIds : SF_vars(\E o \in Outcomes : Finish(t, o))

Spec == Init /\ [][Next]_vars /\ Fairness

-----------------------------------------------------------------------------
(* Every variable holds a value the program can give it. *)
TypeOK ==
  /\ counter \in 0..MaxTasks
  /\ registry \subseteq TaskIds
  /\ locked \in BOOLEAN
  /\ pc \in [Procs -> Steps]
  /\ child \in [Procs -> Procs]
  /\ target \in [Procs -> Procs]
  /\ res \in [TaskIds -> Outcomes \cup {"nil"}]
  /\ batch \in [Procs -> Seq(TaskIds)]
  /\ left \in [Procs -> 0..MaxMap]
  /\ reply \in [Procs -> Outcomes \cup {"nil", "none"}]
  /\ todo \subseteq TaskIds /\ pending \subseteq TaskIds
  /\ quota \in 0..MaxTasks

(* When DrainSpawnedTasks has returned, no task is left: not one that      *)
(* another task spawned during the wait, nor one registered between the    *)
(* scan and the reset of the registry.                                     *)
DrainComplete == pc[Main] = "drained" => \A t \in TaskIds : ~Alive(t)

(* No two spawns in flight work on the same task, and none on a task that  *)
(* already runs: the ids are unique although spawns overlap.               *)
InSpawn(p) == pc[p] \in {"spawn", "registered"}

UniqueTasks ==
  \A p \in Procs : InSpawn(p) =>
    /\ pc[child[p]] = "unborn"
    /\ \A q \in Procs : InSpawn(q) /\ child[q] = child[p] => q = p

(* A join or a pmap never returns without a result: done is closed only    *)
(* once res is set.                                                        *)
RepliesHaveResults == \A p \in Procs : reply[p] # "nil"

(* A task's result is written once and a finished task stays finished.     *)
ResultsAreFinal ==
  [][\A t \in TaskIds : /\ res[t] # "nil" => res'[t] = res[t]
                        /\ pc[t] = "done" => pc'[t] = "done"]_vars

(* The tasks as Futures knows them: they run from the go statement until   *)
(* the done channel is closed, when their results can be seen.             *)
State == [t \in TaskIds |-> IF Alive(t) THEN "running"
                            ELSE IF IsDone(t) THEN "ended" ELSE "unborn"]
Result == [t \in TaskIds |-> IF IsDone(t) THEN res[t] ELSE "nil"]
Mapping == {p \in Procs : pc[p] = "pmap" \/ (InSpawn(p) /\ left[p] > 0)}

Promise == INSTANCE Futures
  WITH Callers <- Procs, state <- State, result <- Result, mapping <- Mapping,
       waiting <- batch, answer <- reply, quiet <- pc[Main] = "drained"

(* Whatever tasks, pmaps and drains do between their locks, counters and   *)
(* channels, a program sees futures: every join answers the one result of  *)
(* its task, every pmap those of all its elements in order, and after a    *)
(* drain nothing stirs before the next request.                            *)
ImplementsFutures == Promise!Spec

(* Process p can take a step: the guards of what it may do next. *)
Ready(p) ==
  \/ pc[p] \in {"run", "registered", "finish", "scan"}
  \/ pc[p] \in {"spawn", "drain"} /\ ~locked
  \/ pc[p] = "join" /\ IsDone(target[p])
  \/ pc[p] = "pmap" /\ left[p] > 0 /\ counter < MaxTasks
  \/ pc[p] = "pmap" /\ left[p] = 0 /\ (batch[p] = <<>> \/ IsDone(Head(batch[p])))
  \/ pc[p] = "wait" /\ \A t \in pending : IsDone(t)

(* No process joins a task at least as old as itself, so no joins form a   *)
(* cycle.                                                                  *)
OrderlyJoins == \A p \in Procs : pc[p] = "join" => p < target[p]

Underway(p) == pc[p] \notin {"unborn", "done", "drained"}

(* Only joins can deadlock: as long as they are orderly, a process that    *)
(* has not ended can go on, or waits for a younger one that can, or for    *)
(* spawnedMu while the drain that holds it can go on.  Neither the mutex   *)
(* nor the done channels nor a task registered but not started ever close  *)
(* a circle of waiting.                                                    *)
NeverStuck ==
  OrderlyJoins => \A p \in Procs : Underway(p) =>
    \/ \E q \in Procs : q >= p /\ Ready(q)
    \/ locked /\ Ready(Main)

(* As long as joins are orderly, a drain that was called returns. *)
DrainReturns == []OrderlyJoins => (pc[Main] = "drain" ~> pc[Main] = "drained")

=============================================================================
