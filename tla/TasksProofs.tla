---------------------------- MODULE TasksProofs -----------------------------
(***************************************************************************)
(* Theorems about the task runtime, for every number of tasks and of       *)
(* elements of a pmap: a drain that has returned leaves no task behind,    *)
(* only joins can deadlock, and counters, mutexes, channels and the two    *)
(* halves of Finish cannot be told from tasks that start, end and answer   *)
(* at once.                                                                *)
(***************************************************************************)
EXTENDS Tasks, FiniteSetTheorems, WellFoundedInduction, TLAPS

(* Main runs the drain and is never a task; a task never drains.  A task   *)
(* that is being joined exists.                                            *)
Places ==
  /\ pc[Main] \notin {"unborn", "finish", "done"}
  /\ \A t \in TaskIds : pc[t] \notin {"drain", "scan", "wait", "drained"}
  /\ \A p \in Procs : pc[p] = "join" => target[p] \in TaskIds

(* A task being spawned has an id already drawn from the counter, no other *)
(* spawn works on it, and it does not run yet.                             *)
Spawning ==
  /\ \A t \in TaskIds : t > counter => pc[t] = "unborn"
  /\ \A p \in Procs : InSpawn(p) => child[p] \in TaskIds /\ child[p] <= counter
  /\ UniqueTasks

(* The registry holds every task that is alive and every task about to be. *)
Registered ==
  /\ \A t \in TaskIds : Alive(t) => t \in registry
  /\ \A p \in Procs : pc[p] = "registered" => child[p] \in registry

(* While the drain scans, it holds the mutex, and a registered task it has *)
(* visited is pending or done.                                             *)
Scanning ==
  /\ locked <=> pc[Main] = "scan"
  /\ pc[Main] = "scan" => \A t \in registry : t \in todo \/ t \in pending \/ IsDone(t)

(* Task.res is set by Finish, before the done channel is closed. *)
Results == \A t \in TaskIds : res[t] = "nil" <=> pc[t] \notin {"finish", "done"}

(* What ResultsAreFinal says of a step. *)
Frozen ==
  \A t \in TaskIds : /\ res[t] # "nil" => res'[t] = res[t]
                     /\ pc[t] = "done" => pc'[t] = "done"

(* The inductive invariant: what the steps preserve together. *)
IInv ==
  /\ TypeOK /\ Places /\ Spawning /\ Registered /\ Scanning
  /\ Results /\ RepliesHaveResults /\ DrainComplete

-----------------------------------------------------------------------------
(* Main is not a task. *)
LEMMA MainIsNoTask == Main \in Procs /\ Main \notin TaskIds /\ TaskIds \subseteq Procs
BY TasksAssumption DEF Main, Procs, TaskIds

(* The initial state satisfies the invariant. *)
LEMMA Initialization == Init => IInv
<1> SUFFICES ASSUME Init PROVE IInv
  OBVIOUS
<1> USE TasksAssumption, MainIsNoTask
<1>1. TypeOK
  <2>1. Main \in Procs /\ <<>> \in Seq(TaskIds) /\ 0 \in 0..MaxMap
    OBVIOUS
  <2>2. /\ counter \in 0..MaxTasks /\ quota \in 0..MaxTasks
        /\ registry \subseteq TaskIds /\ todo \subseteq TaskIds /\ pending \subseteq TaskIds
    BY TasksAssumption DEF Init
  <2>3. pc \in [Procs -> Steps] /\ reply \in [Procs -> Outcomes \cup {"nil", "none"}]
    BY DEF Init, Steps
  <2>4. child \in [Procs -> Procs] /\ target \in [Procs -> Procs]
    BY <2>1 DEF Init
  <2>5. batch \in [Procs -> Seq(TaskIds)] /\ left \in [Procs -> 0..MaxMap]
    BY <2>1 DEF Init
  <2>6. res \in [TaskIds -> Outcomes \cup {"nil"}]
    BY DEF Init
  <2>7. locked \in BOOLEAN
    BY Zenon DEF Init
  <2>8. QED
    BY <2>2, <2>3, <2>4, <2>5, <2>6, <2>7 DEF TypeOK
<1>2. \A t \in TaskIds : pc[t] = "unborn" /\ res[t] = "nil"
  BY DEF Init
<1>3. \A p \in Procs : pc[p] \in {"run", "unborn"} /\ reply[p] = "none"
  BY DEF Init
<1>4. pc[Main] = "run" /\ locked = FALSE
  BY DEF Init
<1>5. Places /\ Spawning /\ Registered
  BY <1>2, <1>3, <1>4 DEF Places, Spawning, UniqueTasks, InSpawn, Registered, Alive
<1>6. Scanning /\ Results /\ RepliesHaveResults /\ DrainComplete
  BY <1>2, <1>3, <1>4 DEF Scanning, Results, RepliesHaveResults, DrainComplete
<1>7. QED
  BY <1>1, <1>5, <1>6 DEF IInv

-----------------------------------------------------------------------------
(* What the go statement changes: the task just registered starts to run,  *)
(* and its spawner goes on.                                                *)
SpawnGoChange(p) ==
  /\ child[p] \in TaskIds /\ child[p] # p /\ child[p] \in registry
  /\ child[p] <= counter
  /\ pc[p] = "registered" /\ pc[child[p]] = "unborn"
  /\ pc' \in [Procs -> Steps]
  /\ pc'[child[p]] = "run" /\ pc'[p] \in {"run", "pmap"}
  /\ \A q \in Procs : q # p /\ q # child[p] => pc'[q] = pc[q]
  /\ child' = [child EXCEPT ![p] = Main]
  /\ batch' \in [Procs -> Seq(TaskIds)] /\ left' \in [Procs -> 0..MaxMap]
  /\ UNCHANGED <<counter, registry, locked, target, res, reply, todo, pending, quota>>

(* What the go statement of a spawn does to a well-typed state. *)
LEMMA SpawnGoEffect ==
  ASSUME IInv, NEW p \in Procs, SpawnGo(p)
  PROVE  SpawnGoChange(p)
<1>1. /\ child[p] \in TaskIds /\ child[p] <= counter
      /\ pc[p] = "registered" /\ pc[child[p]] = "unborn"
  BY DEF SpawnGo, IInv, Spawning, UniqueTasks, InSpawn
<1>2. child[p] \in registry
  BY <1>1 DEF IInv, Registered
<1>3. PICK s \in {"run", "pmap"} : pc' = [pc EXCEPT ![child[p]] = "run", ![p] = s]
  BY DEF SpawnGo
<1>4. pc \in [Procs -> Steps] /\ child[p] \in Procs /\ child[p] # p
  BY <1>1, MainIsNoTask DEF IInv, TypeOK
<1>5. /\ pc' \in [Procs -> Steps]
      /\ pc'[child[p]] = "run" /\ pc'[p] \in {"run", "pmap"}
      /\ \A q \in Procs : q # p /\ q # child[p] => pc'[q] = pc[q]
  BY <1>3, <1>4 DEF Steps
<1>6. batch' \in [Procs -> Seq(TaskIds)] /\ left' \in [Procs -> 0..MaxMap]
  <2>1. batch \in [Procs -> Seq(TaskIds)] /\ left \in [Procs -> 0..MaxMap]
    BY DEF IInv, TypeOK
  <2>2. CASE left[p] > 0
    <3>1. Append(batch[p], child[p]) \in Seq(TaskIds)
      BY <1>1, <2>1
    <3>2. left[p] - 1 \in 0..MaxMap
      BY <2>1, <2>2, TasksAssumption
    <3>3. /\ batch' = [batch EXCEPT ![p] = Append(batch[p], child[p])]
          /\ left' = [left EXCEPT ![p] = left[p] - 1]
      BY <2>2 DEF SpawnGo
    <3>4. QED
      BY <2>1, <3>1, <3>2, <3>3
  <2>3. CASE ~(left[p] > 0)
    BY <2>1, <2>3 DEF SpawnGo
  <2>4. QED
    BY <2>2, <2>3
<1>7. QED
  BY <1>1, <1>2, <1>4, <1>5, <1>6 DEF SpawnGo, SpawnGoChange, callVars, drainVars

(* What collecting a result changes: pmap goes on or returns its error. *)
PmapCollectChange(p) ==
  /\ pc[p] = "pmap"
  /\ pc' = pc \/ pc' = [pc EXCEPT ![p] = "run"]
  /\ reply' = reply \/ reply' = [reply EXCEPT ![p] = "error"]
  /\ batch' \in [Procs -> Seq(TaskIds)]
  /\ UNCHANGED <<counter, registry, locked, child, target, res, left, todo, pending, quota>>

(* What a join inside pmap does to a well-typed state. *)
LEMMA PmapCollectEffect ==
  ASSUME IInv, NEW p \in Procs, PmapCollect(p)
  PROVE  PmapCollectChange(p)
<1>1. batch \in [Procs -> Seq(TaskIds)] /\ batch[p] # <<>>
  BY DEF IInv, TypeOK, PmapCollect
<1>2. Tail(batch[p]) \in Seq(TaskIds)
  BY <1>1
<1>3. CASE res[Head(batch[p])] = "error"
  <2>1. <<>> \in Seq(TaskIds) /\ batch' = [batch EXCEPT ![p] = <<>>]
    BY <1>3 DEF PmapCollect
  <2>2. QED
    BY <1>1, <1>3, <2>1 DEF PmapCollect, PmapCollectChange, drainVars
<1>4. CASE res[Head(batch[p])] # "error"
  <2>1. batch' = [batch EXCEPT ![p] = Tail(batch[p])]
    BY <1>4 DEF PmapCollect
  <2>2. QED
    BY <1>1, <1>2, <1>4, <2>1 DEF PmapCollect, PmapCollectChange, drainVars
<1>5. QED
  BY <1>3, <1>4

-----------------------------------------------------------------------------
(* Every step keeps every variable within its type. *)
LEMMA TypeStep == IInv /\ [Next]_vars => TypeOK'
<1> SUFFICES ASSUME IInv, [Next]_vars PROVE TypeOK'
  OBVIOUS
<1>a. /\ TypeOK
      /\ Places
      /\ Spawning
  BY DEF IInv, TypeOK
<1>1. ASSUME NEW p \in Procs, SpawnId(p) PROVE TypeOK'
  BY <1>a, <1>1, MainIsNoTask, TasksAssumption DEF SpawnId, callVars,
     drainVars, TypeOK, Steps, Outcomes, TaskIds, Procs
<1>2. ASSUME NEW p \in Procs, SpawnRegister(p) PROVE TypeOK'
  BY <1>a, <1>2, MainIsNoTask DEF SpawnRegister, callVars, drainVars, TypeOK,
     Steps, Outcomes, Spawning, InSpawn
<1>3. ASSUME NEW p \in Procs, SpawnGo(p) PROVE TypeOK'
  <2>1. SpawnGoChange(p)
    BY <1>3, SpawnGoEffect
  <2>2. QED
    BY <1>a, <1>3, <2>1, MainIsNoTask, TasksAssumption DEF SpawnGoChange,
       TypeOK, Steps, Outcomes
<1>4. ASSUME NEW p \in Procs, CloseDone(p) PROVE TypeOK'
  BY <1>a, <1>4, MainIsNoTask DEF CloseDone, callVars, drainVars, TypeOK,
     Steps, Outcomes
<1>5. ASSUME NEW p \in Procs, JoinReturn(p) PROVE TypeOK'
  BY <1>a, <1>5, MainIsNoTask DEF JoinReturn, callVars, drainVars, TypeOK,
     Steps, Outcomes, Places
<1>6. ASSUME NEW p \in Procs, PmapCollect(p) PROVE TypeOK'
  <2>1. PmapCollectChange(p)
    BY <1>6, PmapCollectEffect
  <2>a. pc \in [Procs -> Steps] /\ "run" \in Steps
    BY <1>a DEF TypeOK, Steps
  <2>2. pc' \in [Procs -> Steps]
    <3>1. CASE pc' = pc
      BY <2>a, <3>1
    <3>2. CASE pc' = [pc EXCEPT ![p] = "run"]
      BY <2>a, <3>2
    <3>3. QED
      BY <2>1, <3>1, <3>2 DEF PmapCollectChange
  <2>3. reply' \in [Procs -> Outcomes \cup {"nil", "none"}]
    BY <1>a, <2>1 DEF PmapCollectChange, TypeOK, Outcomes
  <2>4. QED
    BY <1>a, <2>1, <2>2, <2>3 DEF PmapCollectChange, TypeOK
<1>7. ASSUME NEW p \in Procs, PmapReturn(p) PROVE TypeOK'
  BY <1>a, <1>7, MainIsNoTask DEF PmapReturn, callVars, drainVars, TypeOK,
     Steps, Outcomes
<1>8. ASSUME NEW p \in Procs, NEW o \in Outcomes, Finish(p, o) PROVE TypeOK'
  BY <1>a, <1>8, MainIsNoTask DEF Finish, callVars, drainVars, TypeOK, Steps,
     Outcomes, Procs
<1>9. ASSUME NEW p \in Procs, NEW t \in TaskIds, Join(p, t) PROVE TypeOK'
  BY <1>a, <1>9, MainIsNoTask DEF Join, callVars, drainVars, TypeOK, Steps,
     Outcomes
<1>10. ASSUME NEW p \in Procs, NEW n \in 1..MaxMap, Pmap(p, n) PROVE TypeOK'
  BY <1>a, <1>10, MainIsNoTask, TasksAssumption DEF Pmap, callVars, drainVars,
     TypeOK, Steps, Outcomes
<1>11. CASE DrainCall
  BY <1>a, <1>11, MainIsNoTask DEF DrainCall, callVars, drainVars, TypeOK,
     Steps, Outcomes
<1>12. CASE DrainLock
  BY <1>a, <1>12, MainIsNoTask DEF DrainLock, callVars, drainVars, TypeOK,
     Steps, Outcomes
<1>13. ASSUME NEW t \in TaskIds, DrainVisit(t) PROVE TypeOK'
  BY <1>a, <1>13, MainIsNoTask DEF DrainVisit, callVars, drainVars, TypeOK,
     Steps, Outcomes
<1>14. CASE DrainReset
  BY <1>a, <1>14, MainIsNoTask DEF DrainReset, callVars, drainVars, TypeOK,
     Steps, Outcomes
<1>15. CASE DrainUnlock
  BY <1>a, <1>15, MainIsNoTask DEF DrainUnlock, callVars, drainVars, TypeOK,
     Steps, Outcomes
<1>16. CASE DrainWait
  BY <1>a, <1>16, MainIsNoTask DEF DrainWait, callVars, drainVars, TypeOK,
     Steps, Outcomes
<1>17. CASE NextRequest
  BY <1>a, <1>17, MainIsNoTask DEF NextRequest, callVars, drainVars, TypeOK,
     Steps, Outcomes
<1>18. CASE UNCHANGED vars
  BY <1>a, <1>18 DEF vars, TypeOK, Steps, Outcomes
<1>19. QED
  BY <1>1, <1>2, <1>3, <1>4, <1>5, <1>6, <1>7, <1>8, <1>9, <1>10, <1>11,
     <1>12, <1>13, <1>14, <1>15, <1>16, <1>17, <1>18 DEF Next, Runtime,
     Program, Drain

(* Main keeps its places and the tasks keep theirs. *)
LEMMA PlacesStep == IInv /\ [Next]_vars => Places'
<1> SUFFICES ASSUME IInv, [Next]_vars PROVE Places'
  OBVIOUS
<1>a. /\ pc \in [Procs -> Steps]
      /\ target \in [Procs -> Procs]
      /\ Places
  BY DEF IInv, TypeOK
<1>1. ASSUME NEW p \in Procs, SpawnId(p) PROVE Places'
  BY <1>a, <1>1, MainIsNoTask DEF SpawnId, callVars, drainVars, Places, Steps
<1>2. ASSUME NEW p \in Procs, SpawnRegister(p) PROVE Places'
  BY <1>a, <1>2, MainIsNoTask DEF SpawnRegister, callVars, drainVars, Places,
     Steps
<1>3. ASSUME NEW p \in Procs, SpawnGo(p) PROVE Places'
  <2>1. SpawnGoChange(p)
    BY <1>3, SpawnGoEffect
  <2>2. QED
    BY <1>a, <2>1, MainIsNoTask DEF SpawnGoChange, Places, Steps
<1>4. ASSUME NEW p \in Procs, CloseDone(p) PROVE Places'
  BY <1>a, <1>4, MainIsNoTask DEF CloseDone, callVars, drainVars, Places,
     Steps
<1>5. ASSUME NEW p \in Procs, JoinReturn(p) PROVE Places'
  BY <1>a, <1>5, MainIsNoTask DEF JoinReturn, callVars, drainVars, Places,
     Steps
<1>6. ASSUME NEW p \in Procs, PmapCollect(p) PROVE Places'
  <2>1. PmapCollectChange(p)
    BY <1>6, PmapCollectEffect
  <2>2. QED
    BY <1>a, <2>1, MainIsNoTask DEF PmapCollectChange, Places, Steps
<1>7. ASSUME NEW p \in Procs, PmapReturn(p) PROVE Places'
  BY <1>a, <1>7, MainIsNoTask DEF PmapReturn, callVars, drainVars, Places,
     Steps
<1>8. ASSUME NEW p \in Procs, NEW o \in Outcomes, Finish(p, o) PROVE Places'
  BY <1>a, <1>8, MainIsNoTask DEF Finish, callVars, drainVars, Places, Steps
<1>9. ASSUME NEW p \in Procs, NEW t \in TaskIds, Join(p, t) PROVE Places'
  BY <1>a, <1>9, MainIsNoTask DEF Join, callVars, drainVars, Places, Steps
<1>10. ASSUME NEW p \in Procs, NEW n \in 1..MaxMap, Pmap(p, n) PROVE Places'
  BY <1>a, <1>10, MainIsNoTask DEF Pmap, callVars, drainVars, Places, Steps
<1>11. CASE DrainCall
  BY <1>a, <1>11, MainIsNoTask DEF DrainCall, callVars, drainVars, Places,
     Steps
<1>12. CASE DrainLock
  BY <1>a, <1>12, MainIsNoTask DEF DrainLock, callVars, drainVars, Places,
     Steps
<1>13. ASSUME NEW t \in TaskIds, DrainVisit(t) PROVE Places'
  BY <1>a, <1>13, MainIsNoTask DEF DrainVisit, callVars, drainVars, Places,
     Steps
<1>14. CASE DrainReset
  BY <1>a, <1>14, MainIsNoTask DEF DrainReset, callVars, drainVars, Places,
     Steps
<1>15. CASE DrainUnlock
  BY <1>a, <1>15, MainIsNoTask DEF DrainUnlock, callVars, drainVars, Places,
     Steps
<1>16. CASE DrainWait
  BY <1>a, <1>16, MainIsNoTask DEF DrainWait, callVars, drainVars, Places,
     Steps
<1>17. CASE NextRequest
  BY <1>a, <1>17, MainIsNoTask DEF NextRequest, callVars, drainVars, Places,
     Steps
<1>18. CASE UNCHANGED vars
  BY <1>a, <1>18 DEF vars, Places, Steps
<1>19. QED
  BY <1>1, <1>2, <1>3, <1>4, <1>5, <1>6, <1>7, <1>8, <1>9, <1>10, <1>11,
     <1>12, <1>13, <1>14, <1>15, <1>16, <1>17, <1>18 DEF Next, Runtime,
     Program, Drain

(* Overlapping spawns stay apart. *)
LEMMA SpawningStep == IInv /\ [Next]_vars => Spawning'
<1> SUFFICES ASSUME IInv, [Next]_vars PROVE Spawning'
  OBVIOUS
<1>a. /\ pc \in [Procs -> Steps]
      /\ child \in [Procs -> Procs]
      /\ registry \subseteq TaskIds
      /\ counter \in 0..MaxTasks
      /\ Places
      /\ Spawning
  BY DEF IInv, TypeOK
<1>1. ASSUME NEW p \in Procs, SpawnId(p) PROVE Spawning'
  BY <1>a, <1>1, MainIsNoTask, TasksAssumption DEF SpawnId, callVars,
     drainVars, Places, Spawning, UniqueTasks, InSpawn, Steps, TaskIds, Procs
<1>2. ASSUME NEW p \in Procs, SpawnRegister(p) PROVE Spawning'
  BY <1>a, <1>2, MainIsNoTask DEF SpawnRegister, callVars, drainVars, Places,
     Spawning, UniqueTasks, InSpawn, Steps
<1>3. ASSUME NEW p \in Procs, SpawnGo(p) PROVE Spawning'
  <2>1. SpawnGoChange(p)
    BY <1>3, SpawnGoEffect
  <2>2. \A q \in Procs : pc'[q] \in {"spawn", "registered"} =>
           /\ q # p /\ pc[q] = pc'[q] /\ child'[q] = child[q]
           /\ child[q] # child[p] /\ child[q] # p
    BY <1>a, <2>1 DEF SpawnGoChange, Spawning, UniqueTasks, InSpawn
  <2>3. \A t \in TaskIds : t > counter' => pc'[t] = "unborn"
    <3>1. TAKE t \in TaskIds
    <3>2. HAVE t > counter'
    <3>3. t # child[p] /\ t # p /\ pc[t] = "unborn"
      BY <1>a, <2>1, <3>2 DEF SpawnGoChange, Spawning, TaskIds
    <3>4. QED
      BY <2>1, <3>3, MainIsNoTask DEF SpawnGoChange
  <2>4. \A q \in Procs : InSpawn(q)' =>
          /\ child'[q] \in TaskIds /\ child'[q] <= counter'
          /\ pc'[child'[q]] = "unborn"
    BY <1>a, <2>1, <2>2, MainIsNoTask DEF SpawnGoChange, Spawning, UniqueTasks, InSpawn
  <2>5. \A q, r \in Procs : InSpawn(q)' /\ InSpawn(r)' /\ child'[r] = child'[q] => r = q
    BY <1>a, <2>2 DEF Spawning, UniqueTasks, InSpawn
  <2>6. QED
    BY <2>3, <2>4, <2>5 DEF Spawning, UniqueTasks
<1>4. ASSUME NEW p \in Procs, CloseDone(p) PROVE Spawning'
  BY <1>a, <1>4, MainIsNoTask DEF CloseDone, callVars, drainVars, Places,
     Spawning, UniqueTasks, InSpawn, Steps
<1>5. ASSUME NEW p \in Procs, JoinReturn(p) PROVE Spawning'
  BY <1>a, <1>5, MainIsNoTask DEF JoinReturn, callVars, drainVars, Places,
     Spawning, UniqueTasks, InSpawn, Steps
<1>6. ASSUME NEW p \in Procs, PmapCollect(p) PROVE Spawning'
  <2>1. PmapCollectChange(p)
    BY <1>6, PmapCollectEffect
  <2>2. \A q \in Procs : pc'[q] = pc[q] \/ (pc[q] = "pmap" /\ pc'[q] = "run")
    BY <1>a, <2>1 DEF PmapCollectChange
  <2>3. counter' = counter /\ child' = child
    BY <2>1 DEF PmapCollectChange
  <2>4. QED
    BY <1>a, <2>2, <2>3, MainIsNoTask DEF Spawning, UniqueTasks, InSpawn
<1>7. ASSUME NEW p \in Procs, PmapReturn(p) PROVE Spawning'
  BY <1>a, <1>7, MainIsNoTask DEF PmapReturn, callVars, drainVars, Places,
     Spawning, UniqueTasks, InSpawn, Steps
<1>8. ASSUME NEW p \in Procs, NEW o \in Outcomes, Finish(p, o) PROVE Spawning'
  BY <1>a, <1>8, MainIsNoTask DEF Finish, callVars, drainVars, Places,
     Spawning, UniqueTasks, InSpawn, Steps
<1>9. ASSUME NEW p \in Procs, NEW t \in TaskIds, Join(p, t) PROVE Spawning'
  BY <1>a, <1>9, MainIsNoTask DEF Join, callVars, drainVars, Places, Spawning,
     UniqueTasks, InSpawn, Steps
<1>10. ASSUME NEW p \in Procs, NEW n \in 1..MaxMap, Pmap(p, n) PROVE Spawning'
  BY <1>a, <1>10, MainIsNoTask DEF Pmap, callVars, drainVars, Places,
     Spawning, UniqueTasks, InSpawn, Steps
<1>11. CASE DrainCall
  BY <1>a, <1>11, MainIsNoTask DEF DrainCall, callVars, drainVars, Places,
     Spawning, UniqueTasks, InSpawn, Steps
<1>12. CASE DrainLock
  BY <1>a, <1>12, MainIsNoTask DEF DrainLock, callVars, drainVars, Places,
     Spawning, UniqueTasks, InSpawn, Steps
<1>13. ASSUME NEW t \in TaskIds, DrainVisit(t) PROVE Spawning'
  BY <1>a, <1>13, MainIsNoTask DEF DrainVisit, callVars, drainVars, Places,
     Spawning, UniqueTasks, InSpawn, Steps
<1>14. CASE DrainReset
  BY <1>a, <1>14, MainIsNoTask DEF DrainReset, callVars, drainVars, Places,
     Spawning, UniqueTasks, InSpawn, Steps
<1>15. CASE DrainUnlock
  BY <1>a, <1>15, MainIsNoTask DEF DrainUnlock, callVars, drainVars, Places,
     Spawning, UniqueTasks, InSpawn, Steps
<1>16. CASE DrainWait
  BY <1>a, <1>16, MainIsNoTask DEF DrainWait, callVars, drainVars, Places,
     Spawning, UniqueTasks, InSpawn, Steps
<1>17. CASE NextRequest
  BY <1>a, <1>17, MainIsNoTask DEF NextRequest, callVars, drainVars, Places,
     Spawning, UniqueTasks, InSpawn, Steps
<1>18. CASE UNCHANGED vars
  BY <1>a, <1>18 DEF vars, Places, Spawning, UniqueTasks, InSpawn, Steps
<1>19. QED
  BY <1>1, <1>2, <1>3, <1>4, <1>5, <1>6, <1>7, <1>8, <1>9, <1>10, <1>11,
     <1>12, <1>13, <1>14, <1>15, <1>16, <1>17, <1>18 DEF Next, Runtime,
     Program, Drain

(* No task leaves the registry before it is done. *)
LEMMA RegisteredStep == IInv /\ [Next]_vars => Registered'
<1> SUFFICES ASSUME IInv, [Next]_vars PROVE Registered'
  OBVIOUS
<1>a. /\ pc \in [Procs -> Steps]
      /\ child \in [Procs -> Procs]
      /\ registry \subseteq TaskIds
      /\ counter \in 0..MaxTasks
      /\ Places
      /\ Spawning
      /\ Registered
      /\ Scanning
  BY DEF IInv, TypeOK
<1>1. ASSUME NEW p \in Procs, SpawnId(p) PROVE Registered'
  BY <1>a, <1>1, MainIsNoTask DEF SpawnId, callVars, drainVars, Places,
     Registered, Alive, Steps, Spawning, InSpawn
<1>2. ASSUME NEW p \in Procs, SpawnRegister(p) PROVE Registered'
  BY <1>a, <1>2, MainIsNoTask DEF SpawnRegister, callVars, drainVars, Places,
     Registered, Alive, Steps
<1>3. ASSUME NEW p \in Procs, SpawnGo(p) PROVE Registered'
  <2>1. SpawnGoChange(p)
    BY <1>3, SpawnGoEffect
  <2>2. /\ UNCHANGED registry
        /\ \A t \in TaskIds : Alive(t)' => Alive(t) \/ t = child[p]
        /\ \A q \in Procs : pc'[q] = "registered" => pc[q] = "registered" /\ child'[q] = child[q]
    BY <1>a, <2>1, MainIsNoTask DEF SpawnGoChange, Alive, Steps
  <2>3. child[p] \in registry
    BY <1>a, <1>3 DEF SpawnGo, Registered
  <2>4. QED
    BY <1>a, <2>2, <2>3 DEF Registered
<1>4. ASSUME NEW p \in Procs, CloseDone(p) PROVE Registered'
  BY <1>a, <1>4, MainIsNoTask DEF CloseDone, callVars, drainVars, Places,
     Registered, Alive, Steps
<1>5. ASSUME NEW p \in Procs, JoinReturn(p) PROVE Registered'
  BY <1>a, <1>5, MainIsNoTask DEF JoinReturn, callVars, drainVars, Places,
     Registered, Alive, Steps
<1>6. ASSUME NEW p \in Procs, PmapCollect(p) PROVE Registered'
  <2>1. PmapCollectChange(p)
    BY <1>6, PmapCollectEffect
  <2>2. \A q \in Procs : pc'[q] = pc[q] \/ (pc[q] = "pmap" /\ pc'[q] = "run")
    BY <1>a, <2>1 DEF PmapCollectChange
  <2>3. registry' = registry /\ child' = child
    BY <2>1 DEF PmapCollectChange
  <2>4. QED
    BY <1>a, <2>2, <2>3, MainIsNoTask DEF Registered, Alive
<1>7. ASSUME NEW p \in Procs, PmapReturn(p) PROVE Registered'
  BY <1>a, <1>7, MainIsNoTask DEF PmapReturn, callVars, drainVars, Places,
     Registered, Alive, Steps
<1>8. ASSUME NEW p \in Procs, NEW o \in Outcomes, Finish(p, o) PROVE Registered'
  BY <1>a, <1>8, MainIsNoTask DEF Finish, callVars, drainVars, Places,
     Registered, Alive, Steps
<1>9. ASSUME NEW p \in Procs, NEW t \in TaskIds, Join(p, t) PROVE Registered'
  BY <1>a, <1>9, MainIsNoTask DEF Join, callVars, drainVars, Places,
     Registered, Alive, Steps
<1>10. ASSUME NEW p \in Procs, NEW n \in 1..MaxMap, Pmap(p, n) PROVE Registered'
  BY <1>a, <1>10, MainIsNoTask DEF Pmap, callVars, drainVars, Places,
     Registered, Alive, Steps
<1>11. CASE DrainCall
  BY <1>a, <1>11, MainIsNoTask DEF DrainCall, callVars, drainVars, Places,
     Registered, Alive, Steps
<1>12. CASE DrainLock
  BY <1>a, <1>12, MainIsNoTask DEF DrainLock, callVars, drainVars, Places,
     Registered, Alive, Steps
<1>13. ASSUME NEW t \in TaskIds, DrainVisit(t) PROVE Registered'
  BY <1>a, <1>13, MainIsNoTask DEF DrainVisit, callVars, drainVars, Places,
     Registered, Alive, Steps
<1>14. CASE DrainReset
  <2>1. pc[Main] = "scan" /\ \A t \in registry : pc[t] = "done"
    BY <1>a, <1>14 DEF DrainReset, Scanning, IsDone
  <2>2. \A t \in TaskIds : ~Alive(t)
    BY <1>a, <2>1 DEF Registered, Alive
  <2>3. \A p \in Procs : pc[p] # "registered"
    BY <2>1, <2>2 DEF Procs, Alive
  <2>4. pc' = [pc EXCEPT ![Main] = "drained"]
    BY <1>14 DEF DrainReset
  <2>5. QED
    BY <1>a, <2>2, <2>3, <2>4, MainIsNoTask DEF Registered, Alive
<1>15. CASE DrainUnlock
  BY <1>a, <1>15, MainIsNoTask DEF DrainUnlock, callVars, drainVars, Places,
     Registered, Alive, Steps
<1>16. CASE DrainWait
  BY <1>a, <1>16, MainIsNoTask DEF DrainWait, callVars, drainVars, Places,
     Registered, Alive, Steps
<1>17. CASE NextRequest
  BY <1>a, <1>17, MainIsNoTask DEF NextRequest, callVars, drainVars, Places,
     Registered, Alive, Steps
<1>18. CASE UNCHANGED vars
  BY <1>a, <1>18 DEF vars, Places, Registered, Alive, Steps
<1>19. QED
  BY <1>1, <1>2, <1>3, <1>4, <1>5, <1>6, <1>7, <1>8, <1>9, <1>10, <1>11,
     <1>12, <1>13, <1>14, <1>15, <1>16, <1>17, <1>18 DEF Next, Runtime,
     Program, Drain

(* The scan misses no task. *)
LEMMA ScanningStep == IInv /\ [Next]_vars => Scanning'
<1> SUFFICES ASSUME IInv, [Next]_vars PROVE Scanning'
  OBVIOUS
<1>a. /\ pc \in [Procs -> Steps]
      /\ child \in [Procs -> Procs]
      /\ registry \subseteq TaskIds
      /\ counter \in 0..MaxTasks
      /\ Places
      /\ Scanning
  BY DEF IInv, TypeOK
<1>1. ASSUME NEW p \in Procs, SpawnId(p) PROVE Scanning'
  BY <1>a, <1>1, MainIsNoTask DEF SpawnId, callVars, drainVars, Places,
     Scanning, IsDone, Steps
<1>2. ASSUME NEW p \in Procs, SpawnRegister(p) PROVE Scanning'
  BY <1>a, <1>2, MainIsNoTask DEF SpawnRegister, callVars, drainVars, Places,
     Scanning, IsDone, Steps
<1>3. ASSUME NEW p \in Procs, SpawnGo(p) PROVE Scanning'
  <2>1. SpawnGoChange(p)
    BY <1>3, SpawnGoEffect
  <2>2. QED
    BY <1>a, <2>1, MainIsNoTask DEF SpawnGoChange, Places, Scanning, IsDone,
       Steps
<1>4. ASSUME NEW p \in Procs, CloseDone(p) PROVE Scanning'
  BY <1>a, <1>4, MainIsNoTask DEF CloseDone, callVars, drainVars, Places,
     Scanning, IsDone, Steps
<1>5. ASSUME NEW p \in Procs, JoinReturn(p) PROVE Scanning'
  BY <1>a, <1>5, MainIsNoTask DEF JoinReturn, callVars, drainVars, Places,
     Scanning, IsDone, Steps
<1>6. ASSUME NEW p \in Procs, PmapCollect(p) PROVE Scanning'
  <2>1. PmapCollectChange(p)
    BY <1>6, PmapCollectEffect
  <2>2. QED
    BY <1>a, <2>1, MainIsNoTask DEF PmapCollectChange, Places, Scanning,
       IsDone, Steps
<1>7. ASSUME NEW p \in Procs, PmapReturn(p) PROVE Scanning'
  BY <1>a, <1>7, MainIsNoTask DEF PmapReturn, callVars, drainVars, Places,
     Scanning, IsDone, Steps
<1>8. ASSUME NEW p \in Procs, NEW o \in Outcomes, Finish(p, o) PROVE Scanning'
  BY <1>a, <1>8, MainIsNoTask DEF Finish, callVars, drainVars, Places,
     Scanning, IsDone, Steps
<1>9. ASSUME NEW p \in Procs, NEW t \in TaskIds, Join(p, t) PROVE Scanning'
  BY <1>a, <1>9, MainIsNoTask DEF Join, callVars, drainVars, Places, Scanning,
     IsDone, Steps
<1>10. ASSUME NEW p \in Procs, NEW n \in 1..MaxMap, Pmap(p, n) PROVE Scanning'
  BY <1>a, <1>10, MainIsNoTask DEF Pmap, callVars, drainVars, Places,
     Scanning, IsDone, Steps
<1>11. CASE DrainCall
  BY <1>a, <1>11, MainIsNoTask DEF DrainCall, callVars, drainVars, Places,
     Scanning, IsDone, Steps
<1>12. CASE DrainLock
  BY <1>a, <1>12, MainIsNoTask DEF DrainLock, callVars, drainVars, Places,
     Scanning, IsDone, Steps
<1>13. ASSUME NEW t \in TaskIds, DrainVisit(t) PROVE Scanning'
  BY <1>a, <1>13, MainIsNoTask DEF DrainVisit, callVars, drainVars, Places,
     Scanning, IsDone, Steps
<1>14. CASE DrainReset
  BY <1>a, <1>14, MainIsNoTask DEF DrainReset, callVars, drainVars, Places,
     Scanning, IsDone, Steps
<1>15. CASE DrainUnlock
  BY <1>a, <1>15, MainIsNoTask DEF DrainUnlock, callVars, drainVars, Places,
     Scanning, IsDone, Steps
<1>16. CASE DrainWait
  BY <1>a, <1>16, MainIsNoTask DEF DrainWait, callVars, drainVars, Places,
     Scanning, IsDone, Steps
<1>17. CASE NextRequest
  BY <1>a, <1>17, MainIsNoTask DEF NextRequest, callVars, drainVars, Places,
     Scanning, IsDone, Steps
<1>18. CASE UNCHANGED vars
  BY <1>a, <1>18 DEF vars, Places, Scanning, IsDone, Steps
<1>19. QED
  BY <1>1, <1>2, <1>3, <1>4, <1>5, <1>6, <1>7, <1>8, <1>9, <1>10, <1>11,
     <1>12, <1>13, <1>14, <1>15, <1>16, <1>17, <1>18 DEF Next, Runtime,
     Program, Drain

(* A result is stored before anyone can ask for it. *)
LEMMA ResultsStep == IInv /\ [Next]_vars => Results'
<1> SUFFICES ASSUME IInv, [Next]_vars PROVE Results'
  OBVIOUS
<1>a. /\ pc \in [Procs -> Steps]
      /\ res \in [TaskIds -> Outcomes \cup {"nil"}]
      /\ Places
      /\ Results
  BY DEF IInv, TypeOK
<1>1. ASSUME NEW p \in Procs, SpawnId(p) PROVE Results'
  BY <1>a, <1>1, MainIsNoTask DEF SpawnId, callVars, drainVars, Places,
     Results, Outcomes, Steps
<1>2. ASSUME NEW p \in Procs, SpawnRegister(p) PROVE Results'
  BY <1>a, <1>2, MainIsNoTask DEF SpawnRegister, callVars, drainVars, Places,
     Results, Outcomes, Steps
<1>3. ASSUME NEW p \in Procs, SpawnGo(p) PROVE Results'
  <2>1. SpawnGoChange(p)
    BY <1>3, SpawnGoEffect
  <2>2. QED
    BY <1>a, <2>1, MainIsNoTask DEF SpawnGoChange, Places, Results, Outcomes,
       Steps
<1>4. ASSUME NEW p \in Procs, CloseDone(p) PROVE Results'
  BY <1>a, <1>4, MainIsNoTask DEF CloseDone, callVars, drainVars, Places,
     Results, Outcomes, Steps
<1>5. ASSUME NEW p \in Procs, JoinReturn(p) PROVE Results'
  BY <1>a, <1>5, MainIsNoTask DEF JoinReturn, callVars, drainVars, Places,
     Results, Outcomes, Steps
<1>6. ASSUME NEW p \in Procs, PmapCollect(p) PROVE Results'
  <2>1. PmapCollectChange(p)
    BY <1>6, PmapCollectEffect
  <2>2. QED
    BY <1>a, <2>1, MainIsNoTask DEF PmapCollectChange, Places, Results,
       Outcomes, Steps
<1>7. ASSUME NEW p \in Procs, PmapReturn(p) PROVE Results'
  BY <1>a, <1>7, MainIsNoTask DEF PmapReturn, callVars, drainVars, Places,
     Results, Outcomes, Steps
<1>8. ASSUME NEW p \in Procs, NEW o \in Outcomes, Finish(p, o) PROVE Results'
  BY <1>a, <1>8, MainIsNoTask DEF Finish, callVars, drainVars, Places,
     Results, Outcomes, Steps
<1>9. ASSUME NEW p \in Procs, NEW t \in TaskIds, Join(p, t) PROVE Results'
  BY <1>a, <1>9, MainIsNoTask DEF Join, callVars, drainVars, Places, Results,
     Outcomes, Steps
<1>10. ASSUME NEW p \in Procs, NEW n \in 1..MaxMap, Pmap(p, n) PROVE Results'
  BY <1>a, <1>10, MainIsNoTask DEF Pmap, callVars, drainVars, Places, Results,
     Outcomes, Steps
<1>11. CASE DrainCall
  BY <1>a, <1>11, MainIsNoTask DEF DrainCall, callVars, drainVars, Places,
     Results, Outcomes, Steps
<1>12. CASE DrainLock
  BY <1>a, <1>12, MainIsNoTask DEF DrainLock, callVars, drainVars, Places,
     Results, Outcomes, Steps
<1>13. ASSUME NEW t \in TaskIds, DrainVisit(t) PROVE Results'
  BY <1>a, <1>13, MainIsNoTask DEF DrainVisit, callVars, drainVars, Places,
     Results, Outcomes, Steps
<1>14. CASE DrainReset
  BY <1>a, <1>14, MainIsNoTask DEF DrainReset, callVars, drainVars, Places,
     Results, Outcomes, Steps
<1>15. CASE DrainUnlock
  BY <1>a, <1>15, MainIsNoTask DEF DrainUnlock, callVars, drainVars, Places,
     Results, Outcomes, Steps
<1>16. CASE DrainWait
  BY <1>a, <1>16, MainIsNoTask DEF DrainWait, callVars, drainVars, Places,
     Results, Outcomes, Steps
<1>17. CASE NextRequest
  BY <1>a, <1>17, MainIsNoTask DEF NextRequest, callVars, drainVars, Places,
     Results, Outcomes, Steps
<1>18. CASE UNCHANGED vars
  BY <1>a, <1>18 DEF vars, Places, Results, Outcomes, Steps
<1>19. QED
  BY <1>1, <1>2, <1>3, <1>4, <1>5, <1>6, <1>7, <1>8, <1>9, <1>10, <1>11,
     <1>12, <1>13, <1>14, <1>15, <1>16, <1>17, <1>18 DEF Next, Runtime,
     Program, Drain

(* Whoever asks is given a result. *)
LEMMA RepliesStep == IInv /\ [Next]_vars => RepliesHaveResults'
<1> SUFFICES ASSUME IInv, [Next]_vars PROVE RepliesHaveResults'
  OBVIOUS
<1>a. /\ pc \in [Procs -> Steps]
      /\ reply \in [Procs -> Outcomes \cup {"nil", "none"}]
      /\ Places
      /\ Results
      /\ RepliesHaveResults
  BY DEF IInv, TypeOK
<1>1. ASSUME NEW p \in Procs, SpawnId(p) PROVE RepliesHaveResults'
  BY <1>a, <1>1, MainIsNoTask DEF SpawnId, callVars, drainVars, Places,
     Results, RepliesHaveResults, IsDone
<1>2. ASSUME NEW p \in Procs, SpawnRegister(p) PROVE RepliesHaveResults'
  BY <1>a, <1>2, MainIsNoTask DEF SpawnRegister, callVars, drainVars, Places,
     Results, RepliesHaveResults, IsDone
<1>3. ASSUME NEW p \in Procs, SpawnGo(p) PROVE RepliesHaveResults'
  <2>1. SpawnGoChange(p)
    BY <1>3, SpawnGoEffect
  <2>2. QED
    BY <1>a, <2>1, MainIsNoTask DEF SpawnGoChange, Places, Results,
       RepliesHaveResults, IsDone
<1>4. ASSUME NEW p \in Procs, CloseDone(p) PROVE RepliesHaveResults'
  BY <1>a, <1>4, MainIsNoTask DEF CloseDone, callVars, drainVars, Places,
     Results, RepliesHaveResults, IsDone
<1>5. ASSUME NEW p \in Procs, JoinReturn(p) PROVE RepliesHaveResults'
  BY <1>a, <1>5, MainIsNoTask DEF JoinReturn, callVars, drainVars, Places,
     Results, RepliesHaveResults, IsDone
<1>6. ASSUME NEW p \in Procs, PmapCollect(p) PROVE RepliesHaveResults'
  <2>1. PmapCollectChange(p)
    BY <1>6, PmapCollectEffect
  <2>2. QED
    BY <1>a, <2>1, MainIsNoTask DEF PmapCollectChange, Places, Results,
       RepliesHaveResults, IsDone
<1>7. ASSUME NEW p \in Procs, PmapReturn(p) PROVE RepliesHaveResults'
  BY <1>a, <1>7, MainIsNoTask DEF PmapReturn, callVars, drainVars, Places,
     Results, RepliesHaveResults, IsDone
<1>8. ASSUME NEW p \in Procs, NEW o \in Outcomes, Finish(p, o) PROVE RepliesHaveResults'
  BY <1>a, <1>8, MainIsNoTask DEF Finish, callVars, drainVars, Places,
     Results, RepliesHaveResults, IsDone
<1>9. ASSUME NEW p \in Procs, NEW t \in TaskIds, Join(p, t) PROVE RepliesHaveResults'
  BY <1>a, <1>9, MainIsNoTask DEF Join, callVars, drainVars, Places, Results,
     RepliesHaveResults, IsDone
<1>10. ASSUME NEW p \in Procs, NEW n \in 1..MaxMap, Pmap(p, n) PROVE RepliesHaveResults'
  BY <1>a, <1>10, MainIsNoTask DEF Pmap, callVars, drainVars, Places, Results,
     RepliesHaveResults, IsDone
<1>11. CASE DrainCall
  BY <1>a, <1>11, MainIsNoTask DEF DrainCall, callVars, drainVars, Places,
     Results, RepliesHaveResults, IsDone
<1>12. CASE DrainLock
  BY <1>a, <1>12, MainIsNoTask DEF DrainLock, callVars, drainVars, Places,
     Results, RepliesHaveResults, IsDone
<1>13. ASSUME NEW t \in TaskIds, DrainVisit(t) PROVE RepliesHaveResults'
  BY <1>a, <1>13, MainIsNoTask DEF DrainVisit, callVars, drainVars, Places,
     Results, RepliesHaveResults, IsDone
<1>14. CASE DrainReset
  BY <1>a, <1>14, MainIsNoTask DEF DrainReset, callVars, drainVars, Places,
     Results, RepliesHaveResults, IsDone
<1>15. CASE DrainUnlock
  BY <1>a, <1>15, MainIsNoTask DEF DrainUnlock, callVars, drainVars, Places,
     Results, RepliesHaveResults, IsDone
<1>16. CASE DrainWait
  BY <1>a, <1>16, MainIsNoTask DEF DrainWait, callVars, drainVars, Places,
     Results, RepliesHaveResults, IsDone
<1>17. CASE NextRequest
  BY <1>a, <1>17, MainIsNoTask DEF NextRequest, callVars, drainVars, Places,
     Results, RepliesHaveResults, IsDone
<1>18. CASE UNCHANGED vars
  BY <1>a, <1>18 DEF vars, Places, Results, RepliesHaveResults, IsDone
<1>19. QED
  BY <1>1, <1>2, <1>3, <1>4, <1>5, <1>6, <1>7, <1>8, <1>9, <1>10, <1>11,
     <1>12, <1>13, <1>14, <1>15, <1>16, <1>17, <1>18 DEF Next, Runtime,
     Program, Drain

(* The drain returns only when every task is done. *)
LEMMA DrainStep == IInv /\ [Next]_vars => DrainComplete'
<1> SUFFICES ASSUME IInv, [Next]_vars PROVE DrainComplete'
  OBVIOUS
<1>a. /\ pc \in [Procs -> Steps]
      /\ child \in [Procs -> Procs]
      /\ registry \subseteq TaskIds
      /\ counter \in 0..MaxTasks
      /\ Places
      /\ Spawning
      /\ Registered
      /\ Scanning
      /\ DrainComplete
  BY DEF IInv, TypeOK
<1>1. ASSUME NEW p \in Procs, SpawnId(p) PROVE DrainComplete'
  BY <1>a, <1>1, MainIsNoTask DEF SpawnId, callVars, drainVars, Places,
     DrainComplete, Alive, Steps
<1>2. ASSUME NEW p \in Procs, SpawnRegister(p) PROVE DrainComplete'
  BY <1>a, <1>2, MainIsNoTask DEF SpawnRegister, callVars, drainVars, Places,
     DrainComplete, Alive, Steps
<1>3. ASSUME NEW p \in Procs, SpawnGo(p) PROVE DrainComplete'
  <2>1. SpawnGoChange(p)
    BY <1>3, SpawnGoEffect
  <2>2. pc'[Main] # "drained"
    <3>1. CASE p = Main
      BY <2>1, <3>1 DEF SpawnGoChange
    <3>2. CASE p # Main
      <4>1. p \in TaskIds /\ Alive(p)
        BY <2>1, <3>2 DEF SpawnGoChange, Procs, Alive
      <4>2. pc[Main] # "drained"
        BY <1>a, <4>1 DEF DrainComplete
      <4>3. QED
        BY <2>1, <3>2, <4>2, MainIsNoTask DEF SpawnGoChange
    <3>3. QED
      BY <3>1, <3>2
  <2>3. QED
    BY <2>2 DEF DrainComplete
<1>4. ASSUME NEW p \in Procs, CloseDone(p) PROVE DrainComplete'
  BY <1>a, <1>4, MainIsNoTask DEF CloseDone, callVars, drainVars, Places,
     DrainComplete, Alive, Steps
<1>5. ASSUME NEW p \in Procs, JoinReturn(p) PROVE DrainComplete'
  BY <1>a, <1>5, MainIsNoTask DEF JoinReturn, callVars, drainVars, Places,
     DrainComplete, Alive, Steps
<1>6. ASSUME NEW p \in Procs, PmapCollect(p) PROVE DrainComplete'
  <2>1. PmapCollectChange(p)
    BY <1>6, PmapCollectEffect
  <2>2. QED
    BY <1>a, <2>1, MainIsNoTask DEF PmapCollectChange, Places, DrainComplete,
       Alive, Steps
<1>7. ASSUME NEW p \in Procs, PmapReturn(p) PROVE DrainComplete'
  BY <1>a, <1>7, MainIsNoTask DEF PmapReturn, callVars, drainVars, Places,
     DrainComplete, Alive, Steps
<1>8. ASSUME NEW p \in Procs, NEW o \in Outcomes, Finish(p, o) PROVE DrainComplete'
  BY <1>a, <1>8, MainIsNoTask DEF Finish, callVars, drainVars, Places,
     DrainComplete, Alive, Steps
<1>9. ASSUME NEW p \in Procs, NEW t \in TaskIds, Join(p, t) PROVE DrainComplete'
  BY <1>a, <1>9, MainIsNoTask DEF Join, callVars, drainVars, Places,
     DrainComplete, Alive, Steps
<1>10. ASSUME NEW p \in Procs, NEW n \in 1..MaxMap, Pmap(p, n) PROVE DrainComplete'
  BY <1>a, <1>10, MainIsNoTask DEF Pmap, callVars, drainVars, Places,
     DrainComplete, Alive, Steps
<1>11. CASE DrainCall
  BY <1>a, <1>11, MainIsNoTask DEF DrainCall, callVars, drainVars, Places,
     DrainComplete, Alive, Steps
<1>12. CASE DrainLock
  BY <1>a, <1>12, MainIsNoTask DEF DrainLock, callVars, drainVars, Places,
     DrainComplete, Alive, Steps
<1>13. ASSUME NEW t \in TaskIds, DrainVisit(t) PROVE DrainComplete'
  BY <1>a, <1>13, MainIsNoTask DEF DrainVisit, callVars, drainVars, Places,
     DrainComplete, Alive, Steps
<1>14. CASE DrainReset
  BY <1>a, <1>14, MainIsNoTask DEF DrainReset, callVars, drainVars, Places,
     DrainComplete, Alive, Steps, Registered, Scanning, IsDone
<1>15. CASE DrainUnlock
  BY <1>a, <1>15, MainIsNoTask DEF DrainUnlock, callVars, drainVars, Places,
     DrainComplete, Alive, Steps
<1>16. CASE DrainWait
  BY <1>a, <1>16, MainIsNoTask DEF DrainWait, callVars, drainVars, Places,
     DrainComplete, Alive, Steps
<1>17. CASE NextRequest
  BY <1>a, <1>17, MainIsNoTask DEF NextRequest, callVars, drainVars, Places,
     DrainComplete, Alive, Steps
<1>18. CASE UNCHANGED vars
  BY <1>a, <1>18 DEF vars, Places, DrainComplete, Alive, Steps
<1>19. QED
  BY <1>1, <1>2, <1>3, <1>4, <1>5, <1>6, <1>7, <1>8, <1>9, <1>10, <1>11,
     <1>12, <1>13, <1>14, <1>15, <1>16, <1>17, <1>18 DEF Next, Runtime,
     Program, Drain

(* No step changes a stored result or revives a finished task. *)
LEMMA FrozenStep == IInv /\ [Next]_vars => Frozen
<1> SUFFICES ASSUME IInv, [Next]_vars PROVE Frozen
  OBVIOUS
<1>a. /\ pc \in [Procs -> Steps]
      /\ res \in [TaskIds -> Outcomes \cup {"nil"}]
      /\ Places
      /\ Results
  BY DEF IInv, TypeOK
<1>1. ASSUME NEW p \in Procs, SpawnId(p) PROVE Frozen
  BY <1>a, <1>1, MainIsNoTask DEF SpawnId, callVars, drainVars, Places,
     Results, Frozen
<1>2. ASSUME NEW p \in Procs, SpawnRegister(p) PROVE Frozen
  BY <1>a, <1>2, MainIsNoTask DEF SpawnRegister, callVars, drainVars, Places,
     Results, Frozen
<1>3. ASSUME NEW p \in Procs, SpawnGo(p) PROVE Frozen
  <2>1. SpawnGoChange(p)
    BY <1>3, SpawnGoEffect
  <2>2. \A t \in TaskIds : pc[t] = "done" => t # p /\ t # child[p]
    BY <2>1 DEF SpawnGoChange
  <2>3. QED
    BY <2>1, <2>2, MainIsNoTask DEF SpawnGoChange, Frozen
<1>4. ASSUME NEW p \in Procs, CloseDone(p) PROVE Frozen
  BY <1>a, <1>4, MainIsNoTask DEF CloseDone, callVars, drainVars, Places,
     Results, Frozen
<1>5. ASSUME NEW p \in Procs, JoinReturn(p) PROVE Frozen
  BY <1>a, <1>5, MainIsNoTask DEF JoinReturn, callVars, drainVars, Places,
     Results, Frozen
<1>6. ASSUME NEW p \in Procs, PmapCollect(p) PROVE Frozen
  <2>1. PmapCollectChange(p)
    BY <1>6, PmapCollectEffect
  <2>2. QED
    BY <1>a, <2>1, MainIsNoTask DEF PmapCollectChange, Places, Results, Frozen
<1>7. ASSUME NEW p \in Procs, PmapReturn(p) PROVE Frozen
  BY <1>a, <1>7, MainIsNoTask DEF PmapReturn, callVars, drainVars, Places,
     Results, Frozen
<1>8. ASSUME NEW p \in Procs, NEW o \in Outcomes, Finish(p, o) PROVE Frozen
  BY <1>a, <1>8, MainIsNoTask DEF Finish, callVars, drainVars, Places,
     Results, Frozen
<1>9. ASSUME NEW p \in Procs, NEW t \in TaskIds, Join(p, t) PROVE Frozen
  BY <1>a, <1>9, MainIsNoTask DEF Join, callVars, drainVars, Places, Results,
     Frozen
<1>10. ASSUME NEW p \in Procs, NEW n \in 1..MaxMap, Pmap(p, n) PROVE Frozen
  BY <1>a, <1>10, MainIsNoTask DEF Pmap, callVars, drainVars, Places, Results,
     Frozen
<1>11. CASE DrainCall
  BY <1>a, <1>11, MainIsNoTask DEF DrainCall, callVars, drainVars, Places,
     Results, Frozen
<1>12. CASE DrainLock
  BY <1>a, <1>12, MainIsNoTask DEF DrainLock, callVars, drainVars, Places,
     Results, Frozen
<1>13. ASSUME NEW t \in TaskIds, DrainVisit(t) PROVE Frozen
  BY <1>a, <1>13, MainIsNoTask DEF DrainVisit, callVars, drainVars, Places,
     Results, Frozen
<1>14. CASE DrainReset
  BY <1>a, <1>14, MainIsNoTask DEF DrainReset, callVars, drainVars, Places,
     Results, Frozen
<1>15. CASE DrainUnlock
  BY <1>a, <1>15, MainIsNoTask DEF DrainUnlock, callVars, drainVars, Places,
     Results, Frozen
<1>16. CASE DrainWait
  BY <1>a, <1>16, MainIsNoTask DEF DrainWait, callVars, drainVars, Places,
     Results, Frozen
<1>17. CASE NextRequest
  BY <1>a, <1>17, MainIsNoTask DEF NextRequest, callVars, drainVars, Places,
     Results, Frozen
<1>18. CASE UNCHANGED vars
  BY <1>a, <1>18 DEF vars, Places, Results, Frozen
<1>19. QED
  BY <1>1, <1>2, <1>3, <1>4, <1>5, <1>6, <1>7, <1>8, <1>9, <1>10, <1>11,
     <1>12, <1>13, <1>14, <1>15, <1>16, <1>17, <1>18 DEF Next, Runtime,
     Program, Drain

-----------------------------------------------------------------------------
(* The invariant holds in every state of every run. *)
LEMMA Invariance == Spec => []IInv
<1>1. IInv /\ [Next]_vars => IInv'
  BY TypeStep, PlacesStep, SpawningStep, RegisteredStep, ScanningStep, ResultsStep,
     RepliesStep, DrainStep DEF IInv
<1>2. QED
  BY Initialization, <1>1, PTL DEF Spec

(* Type correctness of the task runtime. *)
THEOREM TypeCorrect == Spec => []TypeOK
BY Invariance, PTL DEF IInv

(* A drain that has returned leaves no task behind. *)
THEOREM DrainIsComplete == Spec => []DrainComplete
BY Invariance, PTL DEF IInv

(* Spawns that overlap never work on the same task. *)
THEOREM TasksAreUnique == Spec => []UniqueTasks
BY Invariance, PTL DEF IInv, Spawning

(* A join or a pmap never returns without a result. *)
THEOREM JoinsHaveResults == Spec => []RepliesHaveResults
BY Invariance, PTL DEF IInv

(* Results are final: Finish takes effect once for every task. *)
THEOREM ResultsFinal == Spec => ResultsAreFinal
<1>1. IInv /\ [Next]_vars => [Frozen]_vars
  BY FrozenStep
<1>2. QED
  BY Invariance, <1>1, PTL DEF Spec, ResultsAreFinal, Frozen

-----------------------------------------------------------------------------
(* The task runtime implements Futures. *)

(* Only a pmap has elements left to start and tasks to wait for: a plain   *)
(* spawn, a join or a drain finds none of an earlier one.                  *)
Maps ==
  \A p \in Procs :
    /\ pc[p] \notin {"pmap", "spawn", "registered"} => left[p] = 0
    /\ pc[p] # "pmap" /\ left[p] = 0 => batch[p] = <<>>

-----------------------------------------------------------------------------
(* Initially no pmap runs. *)
LEMMA MapsInit == Init => Maps
BY DEF Init, Maps

(* The steps of a pmap leave nothing of it behind. *)
LEMMA MapsStep == IInv /\ Maps /\ [Next]_vars => Maps'
<1> SUFFICES ASSUME IInv, Maps, [Next]_vars PROVE Maps'
  OBVIOUS
<1>a. /\ pc \in [Procs -> Steps] /\ left \in [Procs -> 0..MaxMap]
      /\ batch \in [Procs -> Seq(TaskIds)] /\ MaxMap \in Nat
      /\ \A p \in Procs : left[p] \in Nat
  BY TasksAssumption DEF IInv, TypeOK
<1>1. ASSUME NEW p \in Procs, SpawnId(p) PROVE Maps'
  BY <1>a, <1>1 DEF SpawnId, Maps, Steps
<1>2. ASSUME NEW p \in Procs, SpawnRegister(p) PROVE Maps'
  BY <1>a, <1>2 DEF SpawnRegister, Maps, Steps
<1>3. ASSUME NEW p \in Procs, SpawnGo(p) PROVE Maps'
  <2>1. SpawnGoChange(p)
    BY <1>3, SpawnGoEffect
  <2>2. child[p] \in Procs /\ left[child[p]] = 0 /\ batch[child[p]] = <<>>
    BY <1>a, <2>1, MainIsNoTask DEF SpawnGoChange, Maps
  <2>3. CASE left[p] > 0
    <3>1. /\ pc'[p] = "pmap" /\ left' = [left EXCEPT ![p] = @ - 1]
          /\ batch' = [batch EXCEPT ![p] = Append(@, child[p])]
      BY <1>3, <1>a, <2>1, <2>2, <2>3 DEF SpawnGo, SpawnGoChange
    <3> QED
      BY <1>a, <2>1, <2>2, <3>1 DEF SpawnGoChange, Maps
  <2>4. CASE ~(left[p] > 0)
    <3>1. left[p] = 0 /\ batch[p] = <<>>
      BY <1>a, <2>1, <2>4 DEF SpawnGoChange, Maps
    <3>2. UNCHANGED <<left, batch>>
      BY <1>3, <2>4 DEF SpawnGo
    <3> QED
      BY <1>a, <2>1, <2>2, <3>1, <3>2 DEF SpawnGoChange, Maps
  <2> QED
    BY <2>3, <2>4
<1>4. ASSUME NEW p \in Procs, CloseDone(p) \/ JoinReturn(p) PROVE Maps'
  BY <1>a, <1>4 DEF CloseDone, JoinReturn, Maps, Steps
<1>5. ASSUME NEW p \in Procs, PmapCollect(p) PROVE Maps'
  BY <1>a, <1>5 DEF PmapCollect, Maps, Steps
<1>6. ASSUME NEW p \in Procs, PmapReturn(p) PROVE Maps'
  BY <1>a, <1>6 DEF PmapReturn, Maps, Steps
<1>7. ASSUME NEW p \in Procs, NEW o \in Outcomes, Finish(p, o) PROVE Maps'
  BY <1>a, <1>7 DEF Finish, Maps, Steps
<1>8. ASSUME NEW p \in Procs, NEW t \in TaskIds, Join(p, t) PROVE Maps'
  BY <1>a, <1>8 DEF Join, Maps, Steps
<1>9. ASSUME NEW p \in Procs, NEW n \in 1..MaxMap, Pmap(p, n) PROVE Maps'
  BY <1>a, <1>9 DEF Pmap, Maps, Steps
<1>10. CASE DrainCall \/ DrainLock \/ DrainReset \/ DrainUnlock \/ DrainWait \/ NextRequest
  BY <1>a, <1>10, MainIsNoTask
     DEF DrainCall, DrainLock, DrainReset, DrainUnlock, DrainWait, NextRequest, Maps, Steps
<1>11. CASE (\E t \in TaskIds : DrainVisit(t)) \/ UNCHANGED vars
  BY <1>11 DEF DrainVisit, vars, Maps
<1> QED
  BY <1>1, <1>2, <1>3, <1>4, <1>5, <1>6, <1>7, <1>8, <1>9, <1>10, <1>11
     DEF Next, Runtime, Program, Drain

-----------------------------------------------------------------------------
(* After a drain nothing can take a step: whoever is at work is not Main,  *)
(* and would be alive.                                                     *)
LEMMA NobodyStirs ==
  ASSUME IInv, NEW p \in Procs, pc[p] \notin {"unborn", "done", "drained"}
  PROVE  pc[Main] # "drained"
BY MainIsNoTask DEF IInv, DrainComplete, Alive, Procs, TaskIds

(* A step that starts no task, ends none and answers nobody is not seen.   *)
LEMMA Unseen ==
  ASSUME \A t \in TaskIds : /\ Alive(t)' <=> Alive(t)
                            /\ IsDone(t)' <=> IsDone(t)
                            /\ IsDone(t) => res'[t] = res[t],
         Mapping' = Mapping,
         pc'[Main] = "drained" <=> pc[Main] = "drained",
         UNCHANGED <<left, batch, reply>>
  PROVE  UNCHANGED Promise!vars
<1>1. State' = State
  BY DEF State
<1>2. Result' = Result
  BY DEF Result
<1>3. (pc[Main] = "drained")' = (pc[Main] = "drained")
  BY Zenon
<1> QED
  BY <1>1, <1>2, <1>3 DEF Promise!vars

(* One process goes from one place to another, being alive in both.        *)
LEMMA MoveUnseen ==
  ASSUME IInv, NEW p \in Procs, NEW place \in Steps,
         pc[p] \notin {"unborn", "done", "drained"},
         place \notin {"unborn", "done", "drained"},
         pc' = [pc EXCEPT ![p] = place],
         \A t \in TaskIds : IsDone(t) => res'[t] = res[t],
         p \in Mapping' <=> p \in Mapping,
         UNCHANGED <<left, batch, reply>>
  PROVE  UNCHANGED Promise!vars
<1>1. pc \in [Procs -> Steps] /\ pc'[p] = place
      /\ \A q \in Procs : q # p => pc'[q] = pc[q]
  BY DEF IInv, TypeOK
<1>2. \A t \in TaskIds : (Alive(t)' <=> Alive(t)) /\ (IsDone(t)' <=> IsDone(t))
  BY <1>1, MainIsNoTask DEF Alive, IsDone
<1>3. Mapping' = Mapping
  <2>1. \A q \in Procs : q \in Mapping' <=> q \in Mapping
    BY <1>1 DEF Mapping, InSpawn
  <2> QED
    BY <2>1 DEF Mapping
<1>4. pc'[Main] = "drained" <=> pc[Main] = "drained"
  BY <1>1, MainIsNoTask
<1> QED
  BY <1>2, <1>3, <1>4, Unseen

-----------------------------------------------------------------------------
(* The go statement starts a task. *)
LEMMA GoStarts ==
  ASSUME IInv, Maps, NEW p \in Procs, SpawnGo(p)
  PROVE  Promise!Next
<1> DEFINE t == child[p]
<1>1. SpawnGoChange(p)
  BY SpawnGoEffect
<1>2. pc \in [Procs -> Steps] /\ left \in [Procs -> 0..MaxMap] /\ TaskIds \subseteq Procs
      /\ batch \in [Procs -> Seq(TaskIds)] /\ MaxMap \in Nat
  BY MainIsNoTask, TasksAssumption DEF IInv, TypeOK
<1>3. t \in TaskIds /\ t # p /\ pc[t] = "unborn" /\ pc'[t] = "run"
  BY <1>1 DEF SpawnGoChange
<1>4. State[t] = "unborn" /\ State' = [State EXCEPT ![t] = "running"]
  <2>1. \A u \in TaskIds \ {t} : State'[u] = State[u]
    BY <1>1, <1>2 DEF SpawnGoChange, State, Alive, IsDone
  <2>2. State[t] = "unborn" /\ State'[t] = "running"
    BY <1>3 DEF State, Alive, IsDone
  <2>3. State' = [u \in TaskIds |-> State'[u]] /\ State = [u \in TaskIds |-> State[u]]
    BY DEF State
  <2> HIDE DEF t
  <2> QED
    BY <1>3, <2>1, <2>2, <2>3
<1>5. Result' = Result
  <2>1. \A u \in TaskIds : IsDone(u)' <=> IsDone(u)
    BY <1>1, <1>2 DEF SpawnGoChange, IsDone
  <2> QED
    BY <1>1, <2>1 DEF SpawnGoChange, Result
<1>6. Mapping' = Mapping /\ (p \in Mapping <=> left[p] > 0)
  <2>1. CASE left[p] > 0
    <3>1. pc'[p] = "pmap" /\ \A q \in Procs : q # p => left'[q] = left[q]
      BY <1>2, <1>3, <2>1 DEF SpawnGo
    <3> QED
      BY <1>1, <1>2, <1>3, <2>1, <3>1 DEF SpawnGoChange, Mapping, InSpawn, Maps
  <2>2. CASE ~(left[p] > 0)
    <3>1. pc'[p] = "run" /\ left' = left
      BY <1>2, <1>3, <2>2 DEF SpawnGo
    <3> QED
      BY <1>1, <1>2, <1>3, <2>2, <3>1 DEF SpawnGoChange, Mapping, InSpawn, Maps
  <2> QED
    BY <2>1, <2>2
<1>7. pc[Main] # "drained" /\ pc'[Main] # "drained"
  <2>1. pc[Main] # "drained"
    BY <1>1, NobodyStirs DEF SpawnGoChange
  <2> QED
    BY <1>1, <1>3, <2>1, MainIsNoTask DEF SpawnGoChange
<1>8. /\ left[p] > 0 => /\ left' = [left EXCEPT ![p] = @ - 1]
                        /\ batch' = [batch EXCEPT ![p] = Append(@, t)]
      /\ ~(left[p] > 0) => UNCHANGED <<left, batch>>
      /\ UNCHANGED reply
  BY DEF SpawnGo, callVars
<1>9. Promise!Start(p, t)
  <2> HIDE DEF t
  <2> QED
    BY <1>4, <1>5, <1>6, <1>7, <1>8 DEF Promise!Start
<1> QED
  BY <1>3, <1>9 DEF Promise!Next

(* Closing the done channel ends a task. *)
LEMMA CloseEnds ==
  ASSUME IInv, Maps, NEW p \in Procs, CloseDone(p)
  PROVE  Promise!Next
<1>1. p \in TaskIds
  BY MainIsNoTask DEF CloseDone, IInv, Places, Procs
<1>2. pc \in [Procs -> Steps] /\ pc[p] = "finish" /\ pc' = [pc EXCEPT ![p] = "done"]
      /\ UNCHANGED <<left, batch, reply, res>>
  BY DEF CloseDone, callVars, IInv, TypeOK
<1>3. res[p] \in Outcomes
  BY <1>1, <1>2 DEF IInv, TypeOK, Results, Outcomes
<1>4. State[p] = "running" /\ State' = [State EXCEPT ![p] = "ended"]
  <2>1. \A u \in TaskIds : State'[u] = IF u = p THEN "ended" ELSE State[u]
    BY <1>1, <1>2, MainIsNoTask DEF State, Alive, IsDone
  <2>2. State[p] = "running"
    BY <1>1, <1>2 DEF State, Alive
  <2>3. State' = [u \in TaskIds |-> State'[u]] /\ State = [u \in TaskIds |-> State[u]]
    BY DEF State
  <2> QED
    BY <1>1, <2>1, <2>2, <2>3
<1>5. Result' = [Result EXCEPT ![p] = res[p]]
  <2>1. \A u \in TaskIds : Result'[u] = IF u = p THEN res[p] ELSE Result[u]
    BY <1>1, <1>2, MainIsNoTask DEF Result, IsDone
  <2>2. Result' = [u \in TaskIds |-> Result'[u]] /\ Result = [u \in TaskIds |-> Result[u]]
    BY DEF Result
  <2> QED
    BY <1>1, <2>1, <2>2
<1>6. Mapping' = Mapping
  BY <1>2 DEF Mapping, InSpawn
<1>7. pc[Main] # "drained" /\ pc'[Main] # "drained"
  BY <1>1, <1>2, NobodyStirs, MainIsNoTask
<1>8. Promise!End(p, res[p])
  BY <1>2, <1>4, <1>5, <1>6, <1>7 DEF Promise!End, Promise!mapVars
<1> QED
  BY <1>1, <1>3, <1>8 DEF Promise!Next

(* What a living process that changes its place leaves alone: the states   *)
(* and results of the tasks, and that the system is not quiet.             *)
LEMMA TasksLetBe ==
  ASSUME IInv, NEW p \in Procs, NEW place \in Steps,
         pc[p] \notin {"unborn", "done", "drained"},
         place \notin {"unborn", "done", "drained"},
         pc' = [pc EXCEPT ![p] = place], UNCHANGED res
  PROVE  /\ State' = State /\ Result' = Result
         /\ pc[Main] # "drained" /\ pc'[Main] # "drained"
<1>1. pc \in [Procs -> Steps] /\ pc'[p] = place
      /\ \A q \in Procs : q # p => pc'[q] = pc[q]
  BY DEF IInv, TypeOK
<1>2. \A t \in TaskIds : (Alive(t)' <=> Alive(t)) /\ (IsDone(t)' <=> IsDone(t))
  BY <1>1, MainIsNoTask DEF Alive, IsDone
<1>3. State' = State /\ Result' = Result
  BY <1>2 DEF State, Result
<1>4. pc[Main] # "drained" /\ pc'[Main] # "drained"
  BY <1>1, NobodyStirs, MainIsNoTask
<1> QED
  BY <1>3, <1>4

(* A join that returns answers the result of a task that has ended. *)
LEMMA JoinAnswers ==
  ASSUME IInv, Maps, NEW p \in Procs, JoinReturn(p)
  PROVE  Promise!Next
<1> DEFINE t == target[p]
<1>1. t \in TaskIds /\ pc[t] = "done" /\ pc[p] = "join"
  BY DEF JoinReturn, IsDone, IInv, Places
<1>2. State[t] = "ended" /\ Result[t] = res[t]
  BY <1>1 DEF State, Result, Alive, IsDone
<1>3. pc' = [pc EXCEPT ![p] = "run"] /\ UNCHANGED <<left, batch, res>>
      /\ reply' = [reply EXCEPT ![p] = res[t]]
  BY DEF JoinReturn
<1>4. /\ State' = State /\ Result' = Result
      /\ pc[Main] # "drained" /\ pc'[Main] # "drained"
  BY <1>1, <1>3, TasksLetBe DEF Steps
<1>5. p \notin Mapping /\ Mapping' = Mapping
  BY <1>1, <1>3 DEF Mapping, InSpawn, IInv, TypeOK
<1>6. Promise!Joined(p, t)
  <2> HIDE DEF t
  <2> QED
    BY <1>2, <1>3, <1>4, <1>5 DEF Promise!Joined, Promise!mapVars
<1> QED
  BY <1>1, <1>6 DEF Promise!Next

(* A pmap begins with nothing left over from an earlier one. *)
LEMMA PmapMaps ==
  ASSUME IInv, Maps, NEW p \in Procs, NEW n \in 1..MaxMap, Pmap(p, n)
  PROVE  Promise!Next
<1>1. /\ pc[p] = "run" /\ pc' = [pc EXCEPT ![p] = "pmap"]
      /\ left' = [left EXCEPT ![p] = n] /\ UNCHANGED <<res, reply>>
  BY DEF Pmap, callVars
<1>2. batch' = batch
  BY <1>1 DEF Pmap, Maps, IInv, TypeOK
<1>3. /\ State' = State /\ Result' = Result
      /\ pc[Main] # "drained" /\ pc'[Main] # "drained"
  BY <1>1, TasksLetBe DEF Steps
<1>4. p \notin Mapping /\ Mapping' = Mapping \cup {p}
  <2>1. pc \in [Procs -> Steps] /\ left \in [Procs -> 0..MaxMap]
    BY DEF IInv, TypeOK
  <2> QED
    BY <1>1, <2>1 DEF Mapping, InSpawn
<1>5. Promise!Map(p, n)
  BY <1>1, <1>2, <1>3, <1>4 DEF Promise!Map
<1> QED
  BY <1>5 DEF Promise!Next

(* A pmap looks at the result of its next task, in element order. *)
LEMMA CollectAnswers ==
  ASSUME IInv, Maps, NEW p \in Procs, PmapCollect(p)
  PROVE  Promise!Next
<1> DEFINE t == Head(batch[p])
<1>1. /\ pc[p] = "pmap" /\ left[p] = 0 /\ batch[p] # <<>> /\ IsDone(t)
      /\ UNCHANGED <<left, res>>
  BY DEF PmapCollect
<1>2. t \in TaskIds
  <2>1. batch[p] \in Seq(TaskIds)
    BY DEF IInv, TypeOK
  <2> QED
    BY <1>1, <2>1
<1>3. Result[t] = res[t] /\ res[t] \in Outcomes
  BY <1>1, <1>2 DEF Result, IsDone, IInv, TypeOK, Results, Outcomes
<1>4. p \in Mapping /\ pc[Main] # "drained"
  BY <1>1, NobodyStirs DEF Mapping
<1>5. CASE res[t] = "error"
  <2>1. /\ pc' = [pc EXCEPT ![p] = "run"] /\ reply' = [reply EXCEPT ![p] = "error"]
        /\ batch' = [batch EXCEPT ![p] = <<>>]
    BY <1>5 DEF PmapCollect
  <2>2. State' = State /\ Result' = Result /\ pc'[Main] # "drained"
    BY <1>1, <2>1, TasksLetBe DEF Steps
  <2>3. Mapping' = Mapping \ {p}
    BY <1>1, <2>1 DEF Mapping, InSpawn, IInv, TypeOK
  <2>4. Promise!MapFailed(p)
    BY <1>1, <1>3, <1>4, <1>5, <2>1, <2>2, <2>3 DEF Promise!MapFailed
  <2> QED
    BY <2>4 DEF Promise!Next
<1>6. CASE res[t] # "error"
  <2>1. batch' = [batch EXCEPT ![p] = Tail(@)] /\ UNCHANGED <<pc, reply>>
    BY <1>6 DEF PmapCollect
  <2>2. State' = State /\ Result' = Result /\ Mapping' = Mapping
    BY <1>1, <2>1 DEF State, Result, Mapping, Alive, IsDone, InSpawn
  <2>3. Result[t] = "value"
    BY <1>3, <1>6 DEF Outcomes
  <2>4. Promise!Collected(p)
    BY <1>1, <1>4, <2>1, <2>2, <2>3 DEF Promise!Collected
  <2> QED
    BY <2>4 DEF Promise!Next
<1> QED
  BY <1>5, <1>6

(* A pmap with nothing to wait for has all its values. *)
LEMMA ReturnAnswers ==
  ASSUME IInv, Maps, NEW p \in Procs, PmapReturn(p)
  PROVE  Promise!Next
<1>1. /\ pc[p] = "pmap" /\ left[p] = 0 /\ batch[p] = <<>>
      /\ pc' = [pc EXCEPT ![p] = "run"] /\ reply' = [reply EXCEPT ![p] = "value"]
      /\ UNCHANGED <<left, batch, res>>
  BY DEF PmapReturn
<1>2. /\ State' = State /\ Result' = Result
      /\ pc[Main] # "drained" /\ pc'[Main] # "drained"
  BY <1>1, TasksLetBe DEF Steps
<1>3. p \in Mapping /\ Mapping' = Mapping \ {p}
  BY <1>1 DEF Mapping, InSpawn, IInv, TypeOK
<1>4. Promise!Mapped(p)
  BY <1>1, <1>2, <1>3 DEF Promise!Mapped
<1> QED
  BY <1>4 DEF Promise!Next

(* The drain resets the registry when its scan has found every task done,  *)
(* and whoever is alive is registered: nothing runs.                       *)
LEMMA ResetDrains ==
  ASSUME IInv, Maps, DrainReset
  PROVE  Promise!Next
<1>1. /\ pc[Main] = "scan" /\ todo = {} /\ pending = {}
      /\ pc' = [pc EXCEPT ![Main] = "drained"] /\ UNCHANGED <<left, batch, reply, res>>
  BY DEF DrainReset, callVars
<1>2. \A t \in TaskIds : State[t] # "running"
  BY <1>1 DEF IInv, Scanning, Registered, State, Alive, IsDone
<1>3. pc \in [Procs -> Steps] /\ pc'[Main] = "drained"
      /\ \A q \in Procs : q # Main => pc'[q] = pc[q]
  BY <1>1, MainIsNoTask DEF IInv, TypeOK
<1>4. \A t \in TaskIds : (Alive(t)' <=> Alive(t)) /\ (IsDone(t)' <=> IsDone(t))
  BY <1>3, MainIsNoTask DEF Alive, IsDone
<1>5. State' = State /\ Result' = Result
  BY <1>1, <1>4 DEF State, Result
<1>6. Mapping' = Mapping
  BY <1>1, <1>3 DEF Mapping, InSpawn
<1>7. Promise!Drained
  BY <1>1, <1>2, <1>3, <1>5, <1>6 DEF Promise!Drained, Promise!mapVars
<1> QED
  BY <1>7 DEF Promise!Next

(* The bridge takes its next request. *)
LEMMA RequestComes ==
  ASSUME IInv, Maps, NextRequest
  PROVE  Promise!Next
<1>1. /\ pc[Main] = "drained" /\ pc' = [pc EXCEPT ![Main] = "run"]
      /\ UNCHANGED <<left, batch, reply, res>>
  BY DEF NextRequest, callVars
<1>2. pc \in [Procs -> Steps] /\ pc'[Main] = "run"
      /\ \A q \in Procs : q # Main => pc'[q] = pc[q]
  BY <1>1, MainIsNoTask DEF IInv, TypeOK
<1>3. \A t \in TaskIds : (Alive(t)' <=> Alive(t)) /\ (IsDone(t)' <=> IsDone(t))
  BY <1>2, MainIsNoTask DEF Alive, IsDone
<1>4. State' = State /\ Result' = Result
  BY <1>1, <1>3 DEF State, Result
<1>5. Mapping' = Mapping
  BY <1>1, <1>2 DEF Mapping, InSpawn
<1>6. Promise!NextRequest
  BY <1>1, <1>2, <1>4, <1>5 DEF Promise!NextRequest, Promise!mapVars
<1> QED
  BY <1>6 DEF Promise!Next

-----------------------------------------------------------------------------
(* Every step of the runtime is one of Futures, or is not seen. *)
LEMMA StepRefines == IInv /\ Maps /\ [Next]_vars => [Promise!Next]_(Promise!vars)
<1> SUFFICES ASSUME IInv, Maps, [Next]_vars
             PROVE  Promise!Next \/ UNCHANGED Promise!vars
  OBVIOUS
<1> USE DEF Steps
<1>a. pc \in [Procs -> Steps] /\ left \in [Procs -> 0..MaxMap] /\ Main \in Procs
  BY MainIsNoTask DEF IInv, TypeOK
<1>1. ASSUME NEW p \in Procs, SpawnId(p) PROVE UNCHANGED Promise!vars
  <2>1. /\ pc[p] \in {"run", "pmap"}
        /\ pc[p] = "pmap" => left[p] > 0
        /\ pc' = [pc EXCEPT ![p] = "spawn"] /\ UNCHANGED <<left, batch, reply, res>>
    BY <1>1 DEF SpawnId, callVars
  <2>2. p \in Mapping' <=> p \in Mapping
    BY <1>a, <2>1 DEF Mapping, InSpawn, Maps
  <2> QED
    BY <2>1, <2>2, MoveUnseen
<1>2. ASSUME NEW p \in Procs, SpawnRegister(p) PROVE UNCHANGED Promise!vars
  <2>1. /\ pc[p] = "spawn" /\ pc' = [pc EXCEPT ![p] = "registered"]
        /\ UNCHANGED <<left, batch, reply, res>>
    BY <1>2 DEF SpawnRegister, callVars
  <2>2. p \in Mapping' <=> p \in Mapping
    BY <1>a, <2>1 DEF Mapping, InSpawn
  <2> QED
    BY <2>1, <2>2, MoveUnseen
<1>3. ASSUME NEW p \in Procs, NEW o \in Outcomes, Finish(p, o) PROVE UNCHANGED Promise!vars
  <2>1. /\ pc[p] = "run" /\ pc' = [pc EXCEPT ![p] = "finish"]
        /\ res' = [res EXCEPT ![p] = o] /\ UNCHANGED <<left, batch, reply>>
    BY <1>3 DEF Finish
  <2>2. p \in Mapping' <=> p \in Mapping
    BY <1>a, <2>1 DEF Mapping, InSpawn
  <2>3. \A t \in TaskIds : IsDone(t) => res'[t] = res[t]
    BY <2>1 DEF IsDone, IInv, TypeOK
  <2> QED
    BY <2>1, <2>2, <2>3, MoveUnseen
<1>4. ASSUME NEW p \in Procs, NEW t \in TaskIds, Join(p, t) PROVE UNCHANGED Promise!vars
  <2>1. /\ pc[p] = "run" /\ pc' = [pc EXCEPT ![p] = "join"]
        /\ UNCHANGED <<left, batch, reply, res>>
    BY <1>4 DEF Join
  <2>2. p \in Mapping' <=> p \in Mapping
    BY <1>a, <2>1 DEF Mapping, InSpawn
  <2> QED
    BY <2>1, <2>2, MoveUnseen
<1>5. CASE DrainCall \/ DrainLock \/ DrainUnlock \/ DrainWait
  <2>1. PICK place \in {"drain", "scan", "wait"} : pc' = [pc EXCEPT ![Main] = place]
    BY <1>5 DEF DrainCall, DrainLock, DrainUnlock, DrainWait
  <2>2. pc[Main] \in {"run", "drain", "scan", "wait"} /\ UNCHANGED <<left, batch, reply, res>>
    BY <1>5 DEF DrainCall, DrainLock, DrainUnlock, DrainWait, callVars
  <2>3. Main \in Mapping' <=> Main \in Mapping
    BY <1>a, <2>1, <2>2 DEF Mapping, InSpawn
  <2> QED
    BY <1>a, <2>1, <2>2, <2>3, MoveUnseen
<1>6. CASE (\E t \in TaskIds : DrainVisit(t)) \/ UNCHANGED vars
  <2>1. UNCHANGED <<pc, left, batch, reply, res>>
    BY <1>6 DEF DrainVisit, callVars, vars
  <2> QED
    BY <2>1, Unseen DEF Alive, IsDone, Mapping, InSpawn
<1> QED
  BY <1>1, <1>2, <1>3, <1>4, <1>5, <1>6, GoStarts, CloseEnds, JoinAnswers, PmapMaps,
     CollectAnswers, ReturnAnswers, ResetDrains, RequestComes
     DEF Next, Runtime, Program, Drain

(* At first no task exists, nobody maps, and nothing was answered. *)
LEMMA InitRefines == Init => Promise!Init
<1> SUFFICES ASSUME Init PROVE Promise!Init
  OBVIOUS
<1>1. \A t \in TaskIds : pc[t] = "unborn"
  BY MainIsNoTask DEF Init
<1>2. State = [t \in TaskIds |-> "unborn"] /\ Result = [t \in TaskIds |-> "nil"]
  BY <1>1 DEF State, Result, Alive, IsDone
<1>3. Mapping = {} /\ pc[Main] # "drained"
  BY MainIsNoTask DEF Init, Mapping, InSpawn
<1> QED
  BY <1>2, <1>3 DEF Init, Promise!Init

(* A program that spawns, joins, maps and drains sees futures.             *)
THEOREM TasksImplementFutures == Spec => ImplementsFutures
<1>1. Spec => [](IInv /\ Maps)
  BY Invariance, MapsInit, MapsStep, PTL DEF Spec
<1> QED
  BY <1>1, InitRefines, StepRefines, PTL DEF Spec, ImplementsFutures, Promise!Spec

-----------------------------------------------------------------------------
(* Only joins can deadlock. *)

(* A spawn and a pmap work on tasks younger than their process, and only   *)
(* tasks that were started are waited for.                                 *)
Younger ==
  /\ \A p \in Procs : InSpawn(p) => p < child[p]
  /\ \A p \in Procs : \A i \in 1..Len(batch[p]) :
       p < batch[p][i] /\ pc[batch[p][i]] # "unborn"
  /\ \A p \in Procs : pc[p] = "join" => pc[target[p]] # "unborn"

(* A registered task runs, or its go statement is the next step of the     *)
(* process that spawns it.  The drain waits for registered tasks only.     *)
Started ==
  /\ pending \subseteq registry
  /\ pc[Main] = "scan" => todo \subseteq registry
  /\ \A t \in registry :
       pc[t] = "unborn" => \E q \in Procs : pc[q] = "registered" /\ child[q] = t

(* The elements a pmap has still to draw an id for. *)
Due(p) == IF InSpawn(p) /\ left[p] > 0 THEN left[p] - 1 ELSE left[p]
Reserved == {e \in Procs \X (1..MaxMap) : e[2] <= Due(e[1])}

(* The bound on the tasks of a run is met when a program asks for spawns:  *)
(* a pmap that has begun always finds an id.                               *)
Budget == counter + quota + Cardinality(Reserved) = MaxTasks

PInv == Maps /\ Younger /\ Started /\ Budget

-----------------------------------------------------------------------------
(* A task that was started is never unborn again. *)
LEMMA StaysBorn ==
  ASSUME IInv, [Next]_vars, NEW p \in Procs, pc[p] # "unborn"
  PROVE  pc'[p] # "unborn"
<1>a. pc \in [Procs -> Steps] /\ Main \in Procs
  BY MainIsNoTask DEF IInv, TypeOK
<1>1. ASSUME NEW q \in Procs, SpawnGo(q) PROVE pc'[p] # "unborn"
  BY <1>1, <1>a, SpawnGoEffect DEF SpawnGoChange
<1>2. ASSUME NEW q \in Procs, PmapCollect(q) PROVE pc'[p] # "unborn"
  BY <1>2, <1>a DEF PmapCollect
<1>3. ASSUME NEW q \in Procs,
             SpawnId(q) \/ SpawnRegister(q) \/ CloseDone(q) \/ JoinReturn(q) \/ PmapReturn(q)
      PROVE  pc'[p] # "unborn"
  BY <1>3, <1>a DEF SpawnId, SpawnRegister, CloseDone, JoinReturn, PmapReturn
<1>4. ASSUME NEW q \in Procs,
             (\E o \in Outcomes : Finish(q, o)) \/ (\E t \in TaskIds : Join(q, t))
               \/ (\E n \in 1..MaxMap : Pmap(q, n))
      PROVE  pc'[p] # "unborn"
  BY <1>4, <1>a DEF Finish, Join, Pmap
<1>5. CASE DrainCall \/ DrainLock \/ DrainReset \/ DrainUnlock \/ DrainWait \/ NextRequest
  BY <1>5, <1>a DEF DrainCall, DrainLock, DrainReset, DrainUnlock, DrainWait, NextRequest
<1>6. CASE (\E t \in TaskIds : DrainVisit(t)) \/ UNCHANGED vars
  BY <1>6 DEF DrainVisit, vars
<1> QED
  BY <1>1, <1>2, <1>3, <1>4, <1>5, <1>6 DEF Next, Runtime, Program, Drain

(* A process that spawns or waits for nobody new leaves Younger alone. *)
LEMMA YoungerKept ==
  ASSUME IInv, Younger, [Next]_vars,
         \A p \in Procs : InSpawn(p)' => InSpawn(p) /\ child'[p] = child[p],
         \A p \in Procs : batch'[p] = batch[p] \/ batch'[p] = <<>>
                          \/ (batch[p] # <<>> /\ batch'[p] = Tail(batch[p])),
         \A p \in Procs : pc'[p] = "join" => pc[p] = "join" /\ target'[p] = target[p]
  PROVE  Younger'
<1>a. batch \in [Procs -> Seq(TaskIds)] /\ TaskIds \subseteq Procs
  BY MainIsNoTask DEF IInv, TypeOK
<1>1. ASSUME NEW p \in Procs, NEW i \in 1..Len(batch'[p])
      PROVE  p < batch'[p][i] /\ pc'[batch'[p][i]] # "unborn"
  <2>1. PICK j \in 1..Len(batch[p]) : batch'[p][i] = batch[p][j]
    <3>1. CASE batch'[p] = batch[p]
      BY <3>1
    <3>2. CASE batch[p] # <<>> /\ batch'[p] = Tail(batch[p])
      <4>1. batch[p] \in Seq(TaskIds)
        BY <1>a
      <4>2. i + 1 \in 1..Len(batch[p]) /\ batch'[p][i] = batch[p][i + 1]
        BY <3>2, <4>1
      <4> QED
        BY <4>2
    <3>3. CASE batch'[p] = <<>>
      BY <3>3
    <3> QED
      BY <3>1, <3>2, <3>3
  <2>2. batch[p][j] \in Procs
    BY <1>a
  <2> QED
    BY <2>1, <2>2, StaysBorn DEF Younger
<1>2. ASSUME NEW p \in Procs, pc'[p] = "join" PROVE pc'[target'[p]] # "unborn"
  <2>1. pc[p] = "join" /\ target'[p] = target[p] /\ target[p] \in Procs
    BY <1>2 DEF IInv, TypeOK
  <2> QED
    BY <2>1, StaysBorn DEF Younger
<1>3. ASSUME NEW p \in Procs, InSpawn(p)' PROVE p < child'[p]
  BY <1>3 DEF Younger
<1> QED
  BY <1>1, <1>2, <1>3 DEF Younger

(* Ids grow, so whoever a process spawns is younger than itself. *)
LEMMA YoungerStep == IInv /\ Maps /\ Younger /\ [Next]_vars => Younger'
<1> SUFFICES ASSUME IInv, Maps, Younger, [Next]_vars PROVE Younger'
  OBVIOUS
<1>a. /\ pc \in [Procs -> Steps] /\ child \in [Procs -> Procs]
      /\ target \in [Procs -> Procs] /\ batch \in [Procs -> Seq(TaskIds)]
      /\ counter \in Nat /\ Main \in Procs /\ TaskIds \subseteq Procs
      /\ \A p \in Procs : p \in Nat
  BY MainIsNoTask, TasksAssumption DEF IInv, TypeOK, Procs, TaskIds, Main
<1>1. ASSUME NEW p \in Procs, SpawnId(p) PROVE Younger'
  <2>1. /\ child' = [child EXCEPT ![p] = counter + 1] /\ pc' = [pc EXCEPT ![p] = "spawn"]
        /\ pc[p] \in {"run", "pmap"} /\ UNCHANGED <<batch, target>>
    BY <1>1 DEF SpawnId, callVars
  <2>2. p <= counter
    BY <1>a, <2>1, TasksAssumption DEF IInv, Spawning, Procs, Main, TaskIds
  <2>3. \A q \in Procs : InSpawn(q)' => q < child'[q]
    BY <1>a, <2>1, <2>2 DEF Younger, InSpawn
  <2>4. \A q \in Procs : \A i \in 1..Len(batch[q]) :
           q < batch[q][i] /\ pc'[batch[q][i]] # "unborn"
    BY <1>a, StaysBorn DEF Younger
  <2>5. \A q \in Procs : pc'[q] = "join" => pc'[target[q]] # "unborn"
    BY <1>a, <2>1, StaysBorn DEF Younger
  <2> QED
    BY <2>1, <2>3, <2>4, <2>5 DEF Younger
<1>2. ASSUME NEW p \in Procs, SpawnRegister(p) PROVE Younger'
  BY <1>2, <1>a, YoungerKept DEF SpawnRegister, callVars, InSpawn
<1>3. ASSUME NEW p \in Procs, SpawnGo(p) PROVE Younger'
  <2>1. SpawnGoChange(p)
    BY <1>3, SpawnGoEffect
  <2>2. \A q \in Procs : InSpawn(q)' => InSpawn(q) /\ child'[q] = child[q]
    BY <1>a, <2>1 DEF SpawnGoChange, InSpawn
  <2>3. \A q \in Procs : pc'[q] = "join" => pc[q] = "join" /\ target'[q] = target[q]
    BY <1>a, <2>1 DEF SpawnGoChange
  <2>4. CASE UNCHANGED batch
    BY <2>2, <2>3, <2>4, YoungerKept
  <2>5. CASE batch' = [batch EXCEPT ![p] = Append(batch[p], child[p])]
    <3>1. child[p] \in TaskIds /\ p < child[p] /\ pc'[child[p]] = "run"
      BY <2>1 DEF SpawnGoChange, Younger, InSpawn
    <3>2. ASSUME NEW q \in Procs, NEW i \in 1..Len(batch'[q])
          PROVE  q < batch'[q][i] /\ pc'[batch'[q][i]] # "unborn"
      <4>1. batch[q] \in Seq(TaskIds)
        BY <1>a
      <4>2. CASE q = p /\ i = Len(batch[p]) + 1
        <5>1. batch'[q][i] = child[p]
          BY <1>a, <2>5, <3>1, <4>1, <4>2
        <5> QED
          BY <3>1, <4>2, <5>1
      <4>3. CASE ~(q = p /\ i = Len(batch[p]) + 1)
        <5>1. i \in 1..Len(batch[q]) /\ batch'[q][i] = batch[q][i]
          BY <1>a, <2>5, <3>1, <3>2, <4>1, <4>3
        <5>2. batch[q][i] \in Procs
          BY <1>a, <4>1, <5>1
        <5> QED
          BY <5>1, <5>2, StaysBorn DEF Younger
      <4> QED
        BY <4>2, <4>3
    <3>3. \A q \in Procs : pc'[q] = "join" => pc'[target'[q]] # "unborn"
      BY <1>a, <2>3, StaysBorn DEF Younger
    <3>4. \A q \in Procs : InSpawn(q)' => q < child'[q]
      BY <2>2 DEF Younger
    <3> QED
      BY <3>2, <3>3, <3>4 DEF Younger
  <2> QED
    BY <1>3, <2>4, <2>5 DEF SpawnGo
<1>4. ASSUME NEW p \in Procs, CloseDone(p) \/ JoinReturn(p) \/ PmapReturn(p) PROVE Younger'
  BY <1>4, <1>a, YoungerKept DEF CloseDone, JoinReturn, PmapReturn, callVars, InSpawn
<1>5. ASSUME NEW p \in Procs, PmapCollect(p) PROVE Younger'
  <2>1. /\ pc' = pc \/ pc' = [pc EXCEPT ![p] = "run"]
        /\ batch[p] # <<>> /\ UNCHANGED <<child, target>>
        /\ batch' = [batch EXCEPT ![p] = <<>>] \/ batch' = [batch EXCEPT ![p] = Tail(batch[p])]
    BY <1>5 DEF PmapCollect
  <2> QED
    BY <1>a, <2>1, YoungerKept DEF InSpawn
<1>6. ASSUME NEW p \in Procs, NEW o \in Outcomes, Finish(p, o) PROVE Younger'
  BY <1>6, <1>a, YoungerKept DEF Finish, InSpawn
<1>7. ASSUME NEW p \in Procs, NEW t \in TaskIds, Join(p, t) PROVE Younger'
  <2>1. /\ pc' = [pc EXCEPT ![p] = "join"] /\ target' = [target EXCEPT ![p] = t]
        /\ pc[t] # "unborn" /\ UNCHANGED <<child, batch>>
    BY <1>7 DEF Join
  <2>2. \A q \in Procs : pc'[q] = "join" => pc'[target'[q]] # "unborn"
    BY <1>a, <2>1, StaysBorn DEF Younger
  <2>3. \A q \in Procs : \A i \in 1..Len(batch[q]) :
           q < batch[q][i] /\ pc'[batch[q][i]] # "unborn"
    BY <1>a, StaysBorn DEF Younger
  <2>4. \A q \in Procs : InSpawn(q)' => q < child'[q]
    BY <1>a, <2>1 DEF Younger, InSpawn
  <2> QED
    BY <2>1, <2>2, <2>3, <2>4 DEF Younger
<1>8. ASSUME NEW p \in Procs, NEW n \in 1..MaxMap, Pmap(p, n) PROVE Younger'
  BY <1>8, <1>a, YoungerKept DEF Pmap, callVars, InSpawn
<1>9. CASE DrainCall \/ DrainLock \/ DrainReset \/ DrainUnlock \/ DrainWait \/ NextRequest
  <2>1. PICK s \in Steps \ {"spawn", "registered", "join"} : pc' = [pc EXCEPT ![Main] = s]
    BY <1>9 DEF DrainCall, DrainLock, DrainReset, DrainUnlock, DrainWait, NextRequest, Steps
  <2>2. UNCHANGED <<child, target, batch>>
    BY <1>9 DEF DrainCall, DrainLock, DrainReset, DrainUnlock, DrainWait, NextRequest, callVars
  <2> QED
    BY <1>a, <2>1, <2>2, YoungerKept DEF InSpawn
<1>10. CASE (\E t \in TaskIds : DrainVisit(t)) \/ UNCHANGED vars
  BY <1>10, YoungerKept DEF DrainVisit, vars, callVars, InSpawn
<1> QED
  BY <1>1, <1>2, <1>3, <1>4, <1>5, <1>6, <1>7, <1>8, <1>9, <1>10
     DEF Next, Runtime, Program, Drain

(* Whoever is about to start a task goes on to do so. *)
LEMMA StartedStep == IInv /\ Started /\ [Next]_vars => Started'
<1> SUFFICES ASSUME IInv, Started, [Next]_vars PROVE Started'
  OBVIOUS
<1>a. /\ pc \in [Procs -> Steps] /\ child \in [Procs -> Procs]
      /\ registry \subseteq TaskIds /\ Main \in Procs /\ TaskIds \subseteq Procs
  BY MainIsNoTask DEF IInv, TypeOK
<1>b. ASSUME registry' = registry, pending' \subseteq registry,
             pc'[Main] = "scan" => todo' \subseteq registry,
             \A q \in Procs : pc[q] = "registered" => pc'[q] = "registered" /\ child'[q] = child[q]
      PROVE  Started'
  BY <1>b, <1>a, StaysBorn DEF Started
<1>1. ASSUME NEW p \in Procs, SpawnId(p) PROVE Started'
  BY <1>1, <1>a, <1>b DEF SpawnId, Started, drainVars
<1>2. ASSUME NEW p \in Procs, SpawnRegister(p) PROVE Started'
  <2>1. /\ pc[p] = "spawn" /\ registry' = registry \cup {child[p]}
        /\ pc' = [pc EXCEPT ![p] = "registered"] /\ UNCHANGED <<child, todo, pending>>
    BY <1>2 DEF SpawnRegister, drainVars
  <2>2. ASSUME NEW t \in registry', pc'[t] = "unborn"
        PROVE  \E q \in Procs : pc'[q] = "registered" /\ child'[q] = t
    <3>1. CASE t = child[p]
      BY <1>a, <2>1, <3>1
    <3>2. CASE t # child[p]
      <4>1. t \in registry /\ pc[t] = "unborn"
        BY <1>a, <2>1, <2>2, <3>2, StaysBorn
      <4>2. PICK q \in Procs : pc[q] = "registered" /\ child[q] = t
        BY <4>1 DEF Started
      <4> QED
        BY <1>a, <2>1, <4>2
    <3> QED
      BY <3>1, <3>2
  <2>3. pc'[Main] = "scan" => pc[Main] = "scan"
    BY <1>a, <2>1
  <2> QED
    BY <2>1, <2>2, <2>3 DEF Started
<1>3. ASSUME NEW p \in Procs, SpawnGo(p) PROVE Started'
  <2>1. SpawnGoChange(p)
    BY <1>3, SpawnGoEffect
  <2>2. ASSUME NEW t \in registry', pc'[t] = "unborn"
        PROVE  \E q \in Procs : pc'[q] = "registered" /\ child'[q] = t
    <3>1. t \in registry /\ pc[t] = "unborn" /\ t # child[p]
      BY <1>a, <2>1, <2>2, StaysBorn DEF SpawnGoChange
    <3>2. PICK q \in Procs : pc[q] = "registered" /\ child[q] = t
      BY <3>1 DEF Started
    <3>3. q # p /\ q # child[p]
      BY <2>1, <3>1, <3>2 DEF SpawnGoChange
    <3> QED
      BY <1>a, <2>1, <3>2, <3>3 DEF SpawnGoChange
  <2>3. pc'[Main] = "scan" => pc[Main] = "scan"
    BY <1>a, <2>1 DEF SpawnGoChange
  <2> QED
    BY <2>1, <2>2, <2>3 DEF Started, SpawnGoChange
<1>4. ASSUME NEW p \in Procs, CloseDone(p) \/ JoinReturn(p) \/ PmapReturn(p) PROVE Started'
  BY <1>4, <1>a, <1>b DEF CloseDone, JoinReturn, PmapReturn, Started, drainVars
<1>5. ASSUME NEW p \in Procs, PmapCollect(p) PROVE Started'
  <2>1. PmapCollectChange(p)
    BY <1>5, PmapCollectEffect
  <2> QED
    BY <2>1, <1>a, <1>b DEF PmapCollectChange, Started
<1>6. ASSUME NEW p \in Procs, NEW o \in Outcomes, Finish(p, o) PROVE Started'
  BY <1>6, <1>a, <1>b DEF Finish, Started, drainVars
<1>7. ASSUME NEW p \in Procs, NEW t \in TaskIds, Join(p, t) PROVE Started'
  BY <1>7, <1>a, <1>b DEF Join, Started, drainVars
<1>8. ASSUME NEW p \in Procs, NEW n \in 1..MaxMap, Pmap(p, n) PROVE Started'
  BY <1>8, <1>a, <1>b DEF Pmap, Started, drainVars
<1>9. CASE DrainCall \/ DrainUnlock \/ DrainWait \/ NextRequest
  BY <1>9, <1>a, <1>b DEF DrainCall, DrainUnlock, DrainWait, NextRequest, Started, drainVars
<1>10. CASE DrainLock
  BY <1>10, <1>a, <1>b DEF DrainLock, Started
<1>11. CASE DrainReset
  BY <1>11, <1>a DEF DrainReset, Started
<1>12. ASSUME NEW t \in TaskIds, DrainVisit(t) PROVE Started'
  BY <1>12, <1>a, <1>b DEF DrainVisit, Started
<1>13. CASE UNCHANGED vars
  BY <1>13, <1>a, <1>b DEF vars, Started
<1> QED
  BY <1>1, <1>2, <1>3, <1>4, <1>5, <1>6, <1>7, <1>8, <1>9, <1>10, <1>11, <1>12, <1>13
     DEF Next, Runtime, Program, Drain

-----------------------------------------------------------------------------
(* Finitely many elements are reserved. *)
LEMMA ReservedFinite ==
  IsFiniteSet(Reserved) /\ Cardinality(Reserved) \in Nat
<1>1. IsFiniteSet(TaskIds) /\ IsFiniteSet(1..MaxMap)
  BY FS_Interval, TasksAssumption DEF TaskIds
<1>2. IsFiniteSet(Procs)
  BY <1>1, FS_AddElement DEF Procs
<1> QED
  BY <1>1, <1>2, FS_Product, FS_Subset, FS_CardinalityType DEF Reserved

(* A step that spawns and maps nothing keeps the budget. *)
LEMMA BudgetKept ==
  ASSUME Budget, UNCHANGED <<counter, quota>>, \A p \in Procs : Due(p)' = Due(p)
  PROVE  Budget'
<1>1. Reserved' = Reserved
  BY DEF Reserved
<1> QED
  BY <1>1 DEF Budget

(* An id is drawn from the quota of a spawn, or from the reserve of a pmap. *)
LEMMA SpawnBudget ==
  ASSUME IInv, Maps, Budget, NEW p \in Procs, SpawnId(p)
  PROVE  Budget'
<1>a. /\ pc \in [Procs -> Steps] /\ left \in [Procs -> 0..MaxMap] /\ MaxMap \in Nat
      /\ counter \in Nat /\ quota \in Nat
  BY TasksAssumption DEF IInv, TypeOK
<1>b. pc' = [pc EXCEPT ![p] = "spawn"] /\ counter' = counter + 1 /\ UNCHANGED left
  BY DEF SpawnId
<1>c. \A q \in Procs : q # p => Due(q)' = Due(q)
  BY <1>a, <1>b DEF Due, InSpawn
<1>1. CASE pc[p] = "run"
  <2>1. left[p] = 0 /\ quota > 0 /\ quota' = quota - 1
    BY <1>1 DEF SpawnId, Maps
  <2>2. Due(p)' = Due(p)
    BY <1>a, <1>b, <2>1 DEF Due, InSpawn
  <2>3. Reserved' = Reserved
    BY <1>c, <2>2 DEF Reserved
  <2> QED
    BY <1>a, <1>b, <2>1, <2>3, ReservedFinite DEF Budget
<1>2. CASE pc[p] = "pmap"
  <2>1. left[p] > 0 /\ UNCHANGED quota
    BY <1>2 DEF SpawnId
  <2>2. Due(p) = left[p] /\ Due(p)' = left[p] - 1 /\ left[p] \in 1..MaxMap
    BY <1>a, <1>b, <1>2, <2>1 DEF Due, InSpawn
  <2>3. Reserved' = Reserved \ {<<p, left[p]>>} /\ <<p, left[p]>> \in Reserved
    BY <1>a, <1>c, <2>2 DEF Reserved
  <2>4. Cardinality(Reserved') = Cardinality(Reserved) - 1
    BY <2>3, ReservedFinite, FS_RemoveElement
  <2> QED
    BY <1>a, <1>b, <2>1, <2>4, ReservedFinite DEF Budget
<1> QED
  BY <1>1, <1>2 DEF SpawnId

(* A pmap reserves one id for each of its elements. *)
LEMMA PmapBudget ==
  ASSUME IInv, Maps, Budget, NEW p \in Procs, NEW n \in 1..MaxMap, Pmap(p, n)
  PROVE  Budget'
<1>a. /\ pc \in [Procs -> Steps] /\ left \in [Procs -> 0..MaxMap] /\ MaxMap \in Nat
      /\ counter \in Nat /\ quota \in Nat /\ n \in Nat
  BY TasksAssumption DEF IInv, TypeOK
<1>b. /\ pc[p] = "run" /\ pc' = [pc EXCEPT ![p] = "pmap"] /\ left' = [left EXCEPT ![p] = n]
      /\ quota' = quota - n /\ UNCHANGED counter
  BY DEF Pmap
<1>1. \A q \in Procs : q # p => Due(q)' = Due(q)
  BY <1>a, <1>b DEF Due, InSpawn
<1>2. Due(p) = 0 /\ Due(p)' = n
  BY <1>a, <1>b DEF Due, InSpawn, Maps
<1> DEFINE mine == {p} \X (1..n)
<1>3. Reserved' = Reserved \cup mine /\ Reserved \cap mine = {}
  BY <1>a, <1>1, <1>2 DEF Reserved
<1>4. IsFiniteSet(mine) /\ Cardinality(mine) = n
  <2>1. IsFiniteSet({p}) /\ Cardinality({p}) = 1
    BY FS_Singleton
  <2>2. IsFiniteSet(1..n) /\ Cardinality(1..n) = n
    BY <1>a, FS_Interval
  <2>3. IsFiniteSet(mine) /\ Cardinality(mine) = 1 * n
    BY <2>1, <2>2, FS_Product
  <2> QED
    BY <1>a, <2>3
<1>5. Cardinality(Reserved') = Cardinality(Reserved) + n
  <2>1. Cardinality({}) = 0
    BY FS_EmptySet
  <2> HIDE DEF mine
  <2>2. Cardinality(Reserved \cup mine)
          = Cardinality(Reserved) + Cardinality(mine) - Cardinality(Reserved \cap mine)
    BY <1>4, ReservedFinite, FS_Union
  <2>3. Cardinality(Reserved') = Cardinality(Reserved) + n - 0
    BY <1>3, <1>4, <2>1, <2>2
  <2> QED
    BY <1>a, <2>3, ReservedFinite
<1> QED
  BY <1>a, <1>b, <1>5, ReservedFinite DEF Budget

(* No other step spends or returns anything. *)
LEMMA BudgetStep == IInv /\ Maps /\ Budget /\ [Next]_vars => Budget'
<1> SUFFICES ASSUME IInv, Maps, Budget, [Next]_vars PROVE Budget'
  OBVIOUS
<1>a. /\ pc \in [Procs -> Steps] /\ left \in [Procs -> 0..MaxMap] /\ MaxMap \in Nat
      /\ Main \in Procs
  BY MainIsNoTask, TasksAssumption DEF IInv, TypeOK
<1>1. ASSUME NEW p \in Procs, SpawnRegister(p) PROVE Budget'
  BY <1>1, <1>a, BudgetKept DEF SpawnRegister, Due, InSpawn
<1>2. ASSUME NEW p \in Procs, SpawnGo(p) PROVE Budget'
  <2>1. SpawnGoChange(p)
    BY <1>2, SpawnGoEffect
  <2>2. /\ pc[child[p]] = "unborn" /\ pc'[child[p]] = "run" /\ child[p] # p
        /\ left' = left \/ (left[p] > 0 /\ left' = [left EXCEPT ![p] = left[p] - 1])
        /\ left[p] > 0 => pc'[p] = "pmap" /\ left' # left
        /\ ~(left[p] > 0) => left' = left
    BY <1>2, <1>a, <2>1 DEF SpawnGo, SpawnGoChange
  <2>3. \A q \in Procs : Due(q)' = Due(q)
    BY <1>a, <2>1, <2>2 DEF SpawnGoChange, Due, InSpawn
  <2> QED
    BY <2>1, <2>3, BudgetKept DEF SpawnGoChange
<1>3. ASSUME NEW p \in Procs, CloseDone(p) \/ JoinReturn(p) \/ PmapReturn(p) PROVE Budget'
  BY <1>3, <1>a, BudgetKept DEF CloseDone, JoinReturn, PmapReturn, Due, InSpawn
<1>4. ASSUME NEW p \in Procs, PmapCollect(p) PROVE Budget'
  <2>1. PmapCollectChange(p)
    BY <1>4, PmapCollectEffect
  <2> QED
    BY <1>a, <2>1, BudgetKept DEF PmapCollectChange, Due, InSpawn
<1>5. ASSUME NEW p \in Procs, NEW o \in Outcomes, Finish(p, o) PROVE Budget'
  BY <1>5, <1>a, BudgetKept DEF Finish, Due, InSpawn
<1>6. ASSUME NEW p \in Procs, NEW t \in TaskIds, Join(p, t) PROVE Budget'
  BY <1>6, <1>a, BudgetKept DEF Join, Due, InSpawn
<1>7. CASE DrainCall \/ DrainLock \/ DrainReset \/ DrainUnlock \/ DrainWait \/ NextRequest
  BY <1>7, <1>a, BudgetKept
     DEF DrainCall, DrainLock, DrainReset, DrainUnlock, DrainWait, NextRequest, Due, InSpawn
<1>8. CASE (\E t \in TaskIds : DrainVisit(t)) \/ UNCHANGED vars
  BY <1>8, BudgetKept DEF DrainVisit, vars, Due, InSpawn
<1> QED
  BY <1>1, <1>2, <1>3, <1>4, <1>5, <1>6, <1>7, <1>8, SpawnBudget, PmapBudget
     DEF Next, Runtime, Program, Drain

-----------------------------------------------------------------------------
(* At first there is nobody to wait for. *)
LEMMA ProgressInit == Init => PInv
<1> SUFFICES ASSUME Init PROVE PInv
  OBVIOUS
<1>1. Younger
  BY DEF Init, Younger, InSpawn
<1>2. Started
  BY MainIsNoTask DEF Init, Started
<1>3. Reserved = {}
  BY DEF Init, Reserved, Due, InSpawn
<1>4. Budget
  BY <1>3, FS_EmptySet, TasksAssumption DEF Init, Budget
<1> QED
  BY <1>1, <1>2, <1>4, MapsInit DEF PInv

(* Every reachable state satisfies the invariants together. *)
LEMMA ProgressInvariance == Spec => [](IInv /\ PInv)
<1>1. IInv /\ PInv /\ [Next]_vars => PInv'
  BY MapsStep, YoungerStep, StartedStep, BudgetStep DEF PInv
<1> QED
  BY Invariance, ProgressInit, <1>1, PTL DEF Spec

(* The youngest of some processes. *)
LEMMA Youngest ==
  ASSUME NEW S \in SUBSET Procs, S # {}
  PROVE  \E p \in S : \A q \in S : q <= p
<1> DEFINE R == OpToRel(<, Nat)
           U == {u \in Nat : \E p \in S : u = MaxTasks - p}
<1>1. \A p \in Procs : p \in Nat /\ MaxTasks - p \in Nat
  BY TasksAssumption DEF Procs, TaskIds, Main
<1>2. U # {}
  BY <1>1
<1>3. PICK m \in U : \A y \in U : ~ (<<y, m>> \in R)
  <2> HIDE DEF R
  <2>1. IsWellFoundedOn(R, Nat)
    BY NatLessThanWellFounded DEF R
  <2>2. U \subseteq Nat
    OBVIOUS
  <2> HIDE DEF U
  <2> QED
    BY <1>2, <2>1, <2>2, WFMin
<1>4. PICK p \in S : m = MaxTasks - p
  OBVIOUS
<1>5. ASSUME NEW q \in S, q > p PROVE FALSE
  <2>1. MaxTasks - q \in U /\ MaxTasks - q < m
    BY <1>1, <1>4, <1>5, TasksAssumption
  <2>2. <<MaxTasks - q, m>> \in R
    BY <2>1 DEF OpToRel
  <2> QED
    BY <1>3, <2>1, <2>2
<1> QED
  BY <1>1, <1>4, <1>5

(* Whoever waits, waits for someone younger, or for the scanning drain. *)
LEMMA WaitsForYounger ==
  ASSUME IInv, PInv, OrderlyJoins, NEW p \in Procs, Underway(p),
         ~Ready(p), ~(locked /\ Ready(Main))
  PROVE  \E q \in Procs : q > p /\ Underway(q)
<1>a. /\ pc \in [Procs -> Steps] /\ left \in [Procs -> 0..MaxMap] /\ MaxMap \in Nat
      /\ batch \in [Procs -> Seq(TaskIds)] /\ Main \in Procs /\ TaskIds \subseteq Procs
      /\ registry \subseteq TaskIds /\ counter \in Nat /\ quota \in Nat
  BY MainIsNoTask, TasksAssumption DEF IInv, TypeOK
<1>b. p \in TaskIds => pc[p] \notin {"drain", "scan", "wait", "drained"}
  BY DEF IInv, Places
<1>c. ASSUME NEW t \in TaskIds, pc[t] # "unborn", ~IsDone(t) PROVE Underway(t)
  BY <1>c DEF IInv, Places, IsDone, Underway
<1>d. p = Main \/ p \in TaskIds
  BY DEF Procs
<1>1. CASE pc[p] \in {"spawn", "drain"}
  <2>1. locked /\ pc[Main] = "scan"
    BY <1>1 DEF Ready, IInv, Scanning
  <2> QED
    BY <2>1 DEF Ready
<1>2. CASE pc[p] = "join"
  <2>1. target[p] \in TaskIds /\ pc[target[p]] # "unborn" /\ ~IsDone(target[p])
    BY <1>2 DEF Ready, IInv, Places, PInv, Younger
  <2>2. target[p] > p
    BY <1>2, <1>a, <2>1, TasksAssumption DEF OrderlyJoins, Procs, TaskIds, Main
  <2> QED
    BY <1>a, <1>c, <2>1, <2>2
<1>3. CASE pc[p] = "pmap" /\ left[p] > 0
  <2>1. <<p, left[p]>> \in Reserved
    BY <1>3, <1>a DEF Reserved, Due, InSpawn
  <2>2. Cardinality(Reserved) # 0
    BY <2>1, ReservedFinite, FS_EmptySet
  <2>3. counter < MaxTasks
    BY <1>a, <2>2, ReservedFinite, TasksAssumption DEF PInv, Budget
  <2> QED
    BY <1>3, <2>3 DEF Ready
<1>4. CASE pc[p] = "pmap" /\ ~(left[p] > 0)
  <2> DEFINE t == Head(batch[p])
  <2>1. left[p] = 0 /\ batch[p] # <<>> /\ ~IsDone(t) /\ batch[p] \in Seq(TaskIds)
    BY <1>4, <1>a DEF Ready
  <2>2. 1 \in 1..Len(batch[p]) /\ t = batch[p][1] /\ t \in TaskIds
    BY <2>1
  <2>3. p < t /\ pc[t] # "unborn"
    BY <2>2 DEF PInv, Younger
  <2> HIDE DEF t
  <2>4. t > p /\ Underway(t)
    BY <1>c, <2>1, <2>2, <2>3, TasksAssumption DEF Procs, TaskIds, Main
  <2> QED
    BY <1>a, <2>2, <2>4
<1>5. CASE pc[p] = "wait"
  <2>1. p = Main
    BY <1>5, <1>b, <1>d
  <2>2. PICK t \in pending : ~IsDone(t)
    BY <1>5 DEF Ready
  <2>3. t \in registry /\ t \in TaskIds
    BY <1>a DEF PInv, Started
  <2>4. \A q \in Procs : q # Main => q > Main
    BY TasksAssumption DEF Procs, TaskIds, Main
  <2>5. CASE pc[t] # "unborn"
    BY <1>a, <1>c, <2>1, <2>2, <2>3, <2>4, <2>5, MainIsNoTask
  <2>6. CASE pc[t] = "unborn"
    <3>1. PICK q \in Procs : pc[q] = "registered"
      BY <2>3, <2>6 DEF PInv, Started
    <3>2. q # Main /\ Underway(q)
      BY <1>5, <2>1, <3>1 DEF Underway
    <3> QED
      BY <2>1, <2>4, <3>2
  <2> QED
    BY <2>5, <2>6
<1> QED
  BY <1>a, <1>1, <1>2, <1>3, <1>4, <1>5 DEF Ready, Underway, Steps

(* As long as joins are orderly, whoever has not ended can go on, or waits *)
(* for a younger process that can, or for the drain that scans: by         *)
(* induction from the youngest process downward.                           *)
THEOREM OnlyJoinsDeadlock == Spec => []NeverStuck
<1>1. ASSUME IInv, PInv PROVE NeverStuck
  <2> SUFFICES ASSUME OrderlyJoins, ~(locked /\ Ready(Main)),
                      NEW p \in Procs, Underway(p)
               PROVE  \E q \in Procs : q >= p /\ Ready(q)
    BY DEF NeverStuck
  <2> DEFINE S == {q \in Procs : q >= p /\ Underway(q)}
  <2>1. \A q \in Procs : q \in Nat
    BY TasksAssumption DEF Procs, TaskIds, Main
  <2>2. p \in S /\ S \in SUBSET Procs
    BY <2>1
  <2> HIDE DEF S
  <2>3. PICK q \in S : \A r \in S : r <= q
    BY <2>2, Youngest
  <2> USE DEF S
  <2>4. CASE Ready(q)
    BY <2>4
  <2>5. CASE ~Ready(q)
    <3>1. PICK r \in Procs : r > q /\ Underway(r)
      BY <1>1, <2>5, WaitsForYounger
    <3>2. r \in S /\ ~(r <= q)
      BY <2>1, <3>1
    <3> QED
      BY <2>3, <3>2
  <2> QED
    BY <2>4, <2>5
<1> QED
  BY <1>1, ProgressInvariance, PTL

=============================================================================
