----------------------------- MODULE DapProofs ------------------------------
(***************************************************************************)
(* Theorems about a debugging session, for every program, every number of  *)
(* steps and of requests, and every depth of calls.                        *)
(***************************************************************************)
EXTENDS DapSession, FiniteSetTheorems, SequenceTheorems, TLAPS

(* What is left of the two bounds covers what the session still can do: a  *)
(* statement or a call costs a step, and a pause not yet reported is one   *)
(* that a statement has paid for.                                          *)
Budgets ==
  /\ depth + steps <= MaxSteps
  /\ stops + steps + (IF ev \in {"apply", "flag", "report"} THEN 1 ELSE 0) <= MaxSteps
  /\ resumes + requests <= MaxRequests

(* The flags say where the two goroutines are. *)
Flags ==
  /\ paused <=> ev \in {"report", "parked", "resumed"}
  /\ suppress <=> loop = "evaluate"
  /\ ~started => ev = "unborn"

(* What is sent on resumeCh is a command, or terminate. *)
Sent ==
  /\ loop = "send" => sending # "none"
  /\ ev = "resumed" => action # "none"

(* At most one reported stop is unanswered, and then the evaluator is on   *)
(* its way to the receive and no handler is sending.  A handler that sends *)
(* before the evaluator receives has answered a stop not yet reported.     *)
Answering ==
  /\ stops <= resumes + 1
  /\ SeesStop => ev = "parked" /\ loop # "send"
  /\ loop = "send" /\ ev # "parked" => stops < resumes

(* A client that keeps to the stops it has seen makes the loop evaluate or *)
(* send only while the evaluator waits at the receive.                     *)
PatientMeets == ~hasty /\ loop \in {"evaluate", "send"} => ev = "parked"

(* The one armed mode is the last command's, with the depth of that time;  *)
(* a pause has consumed it, and nothing else has.                          *)
ModesAsked ==
  /\ modes \subseteq {asked.command}
  /\ ev \in InPause \cup {"unborn", "resumed"} => modes = {}
  /\ asked.command \in {"next", "out"} => modeDepth = asked.depth
  /\ ev = "unborn" => asked.command = "none"
  /\ ev = "run" => modes = {asked.command} \ {"none", "continue"}

(* No requested breakpoint is lost: it is armed, or pending; and while a   *)
(* handler is about to arm it, it is still pending.                        *)
NoneLost ==
  /\ wanted \subseteq breakpoints \cup pending
  /\ loop = "apply" => req = wanted /\ pending = wanted

(* Those that are due are armed, or a handler is arming them while the     *)
(* evaluator is parked.                                                    *)
DueArmed ==
  due /\ ev \notin {"unborn", "done"} =>
    \/ wanted \subseteq breakpoints
    \/ loop = "apply" /\ SeesStop

(* The inductive invariant: what the steps preserve together. *)
IInv ==
  /\ TypeOK /\ Budgets /\ Flags /\ Sent /\ Answering /\ PatientMeets
  /\ ModesAsked /\ StopMatchesCommand /\ DepthIsReal /\ NoneLost /\ DueArmed

-----------------------------------------------------------------------------
(* A sequence of calls has finitely many places that count.                *)
LEMMA TrackedFinite ==
  ASSUME NEW calls \in Seq(BOOLEAN)
  PROVE  IsFiniteSet(Tracked(calls)) /\ Cardinality(Tracked(calls)) \in Nat
<1>1. Tracked(calls) \in SUBSET (1..Len(calls)) /\ Len(calls) \in Nat
  BY DEF Tracked
<1>2. IsFiniteSet(1..Len(calls))
  BY <1>1, FS_Interval
<1>3. IsFiniteSet(Tracked(calls))
  BY <1>1, <1>2, FS_Subset
<1> QED
  BY <1>3, FS_CardinalityType

(* EnterCall: a tracked call adds one place, another none.                 *)
LEMMA TrackedAppend ==
  ASSUME NEW calls \in Seq(BOOLEAN), NEW tracked \in BOOLEAN
  PROVE  Cardinality(Tracked(Append(calls, tracked))) =
           IF tracked THEN Cardinality(Tracked(calls)) + 1 ELSE Cardinality(Tracked(calls))
<1> DEFINE last == Len(calls) + 1
<1>1. last \notin Tracked(calls)
  BY DEF Tracked
<1>2. Tracked(Append(calls, tracked)) =
        IF tracked THEN Tracked(calls) \cup {last} ELSE Tracked(calls)
  BY DEF Tracked
<1> QED
  BY <1>1, <1>2, TrackedFinite, FS_AddElement

(* A prefix of a sequence of calls: its type, its length, its elements.    *)
LEMMA PrefixOfCalls ==
  ASSUME NEW calls \in Seq(BOOLEAN), NEW n \in Nat, n <= Len(calls)
  PROVE  /\ SubSeq(calls, 1, n) \in Seq(BOOLEAN) /\ Len(SubSeq(calls, 1, n)) = n
         /\ \A i \in 1..n : SubSeq(calls, 1, n)[i] = calls[i]
<1>1. SubSeq(calls, 1, n) \in Seq(BOOLEAN)
  OBVIOUS
<1>2. Len(SubSeq(calls, 1, n)) = n
  OBVIOUS
<1>3. \A i \in 1..n : SubSeq(calls, 1, n)[i] = calls[i]
  OBVIOUS
<1> QED
  BY <1>1, <1>2, <1>3

(* LeaveCall: the last call takes its place with it, and a tracked one was *)
(* counted, so that the guard `depth > 0` never holds the count back.      *)
LEMMA TrackedFront ==
  ASSUME NEW calls \in Seq(BOOLEAN), calls # <<>>
  PROVE  Cardinality(Tracked(SubSeq(calls, 1, Len(calls) - 1))) =
           IF calls[Len(calls)] /\ Cardinality(Tracked(calls)) > 0
           THEN Cardinality(Tracked(calls)) - 1 ELSE Cardinality(Tracked(calls))
<1> DEFINE last == Len(calls)
           rest == SubSeq(calls, 1, last - 1)
<1>1. last \in Nat \ {0} /\ last - 1 \in Nat
  OBVIOUS
<1>2. /\ rest \in Seq(BOOLEAN) /\ Len(rest) = last - 1
      /\ \A i \in 1..(last - 1) : rest[i] = calls[i]
  <2>1. last - 1 <= Len(calls)
    OBVIOUS
  <2> QED
    BY <1>1, <2>1, PrefixOfCalls, Zenon
<1>3. Tracked(rest) = Tracked(calls) \ {last}
  BY <1>1, <1>2 DEF Tracked
<1>4. last \in Tracked(calls) <=> calls[last]
  BY <1>1 DEF Tracked
<1>5. last \in Tracked(calls) => Cardinality(Tracked(calls)) > 0
  BY TrackedFinite, FS_EmptySet
<1> QED
  BY <1>3, <1>4, <1>5, TrackedFinite, FS_RemoveElement

-----------------------------------------------------------------------------
(* The initial state satisfies the invariant: nothing runs, nothing is     *)
(* asked for, and both budgets are whole.                                  *)
LEMMA Initialization == Init => IInv
<1> SUFFICES ASSUME Init PROVE IInv
  OBVIOUS
<1> USE ControllerAssumption, DapAssumption DEF Init, ControllerInit
<1>1. TypeOK
  <2>1. 0 \in 0..MaxSteps /\ 0 \in 0..MaxDepth /\ 0 \in 0..MaxRequests
    OBVIOUS
  <2>2. frames \in Seq(BOOLEAN) /\ Len(frames) <= MaxDepth /\ at \in Statements
    BY DEF Statements
  <2>3. asked \in [command : Commands \cup {"none", "terminate"},
                  depth : 0..MaxSteps, calls : 0..MaxDepth]
    BY <2>1
  <2>4. /\ breakpoints \subseteq Lines /\ pending \subseteq Lines /\ req \subseteq Lines
        /\ wanted \subseteq Lines /\ modes \subseteq {"step", "next", "out"}
        /\ steps \in 0..MaxSteps /\ requests \in 0..MaxRequests
    OBVIOUS
  <2> QED
    BY <2>1, <2>2, <2>3, <2>4 DEF TypeOK, Commands, InPause
<1>2. DepthIsReal
  <2>1. Tracked(frames) = {}
    BY DEF Tracked
  <2> QED
    BY <2>1, FS_EmptySet DEF DepthIsReal
<1>3. Budgets /\ Flags /\ Sent /\ Answering /\ PatientMeets
  BY DEF Budgets, Flags, Sent, Answering, PatientMeets, SeesStop
<1>4. ModesAsked /\ StopMatchesCommand /\ NoneLost /\ DueArmed
  BY DEF ModesAsked, StopMatchesCommand, NoneLost, DueArmed, InPause
<1> QED
  BY <1>1, <1>2, <1>3, <1>4 DEF IInv

(* runProgram that cannot read or parse the file goes from unborn to done. *)
LEMMA StartFailsStep ==
  ASSUME IInv, StartFails
  PROVE  IInv'
<1> USE ControllerAssumption, DapAssumption
    DEF ctlVars, evVars, loopVars, clientVars, Statements, Commands, InPause, SeesStop,
        Commanded, Request
<1>1. TypeOK' /\ Budgets'
  BY DEF IInv, StartFails, TypeOK, Budgets
<1>2. Flags' /\ Sent' /\ Answering' /\ PatientMeets'
  BY DEF IInv, StartFails, Flags, Sent, TypeOK, Answering, PatientMeets
<1>3. ModesAsked' /\ StopMatchesCommand'
  BY DEF IInv, StartFails, TypeOK, ModesAsked, Sent, StopMatchesCommand
<1>4. DepthIsReal'
  BY DEF IInv, StartFails, DepthIsReal
<1>5. NoneLost' /\ DueArmed'
  BY DEF IInv, StartFails, NoneLost, DueArmed, Answering, TypeOK, Flags
<1> QED
  BY <1>1, <1>2, <1>3, <1>4, <1>5 DEF IInv

(* preRun: the pending lines are armed before the first statement, so what *)
(* was due is in force when the program runs.                              *)
LEMMA PreRunStep ==
  ASSUME IInv, PreRun
  PROVE  IInv'
<1> USE ControllerAssumption, DapAssumption
    DEF ctlVars, evVars, loopVars, clientVars, Statements, Commands, InPause, SeesStop,
        Commanded, Request
<1>1. TypeOK' /\ Budgets'
  BY DEF IInv, PreRun, TypeOK, Budgets
<1>2. Flags' /\ Sent' /\ Answering' /\ PatientMeets'
  BY DEF IInv, PreRun, Flags, Sent, TypeOK, Answering, PatientMeets
<1>3. ModesAsked' /\ StopMatchesCommand'
  BY DEF IInv, PreRun, TypeOK, ModesAsked, Sent, StopMatchesCommand
<1>4. DepthIsReal'
  BY DEF IInv, PreRun, DepthIsReal
<1>5. NoneLost' /\ DueArmed'
  BY DEF IInv, PreRun, NoneLost, DueArmed, Answering, TypeOK, Flags
<1> QED
  BY <1>1, <1>2, <1>3, <1>4, <1>5 DEF IInv

(* BeforeStmt that pauses.  Without a breakpoint a mode was armed, the one *)
(* of the last command, and the depth meets that command's condition; the  *)
(* step it costs pays for the stop it will report.                         *)
LEMMA PausingStep ==
  ASSUME IInv, NEW s \in Statements, Statement(s), Pause(s), ev' = "apply"
  PROVE  IInv'
<1> USE ControllerAssumption, DapAssumption
    DEF ctlVars, evVars, loopVars, clientVars, Statements, Commands, InPause, SeesStop,
        Commanded, Request
<1>1. TypeOK' /\ Budgets'
  BY DEF IInv, Statement, Pause, ShouldPause, Hits, TypeOK, Budgets
<1>2. Flags' /\ Sent' /\ Answering' /\ PatientMeets'
  BY DEF IInv, Statement, Pause, ShouldPause, Hits, Flags, Sent, TypeOK, Answering,
         PatientMeets
<1>3. ModesAsked' /\ StopMatchesCommand'
  BY DEF IInv, Statement, Pause, ShouldPause, Hits, TypeOK, ModesAsked, Sent,
         StopMatchesCommand
<1>4. DepthIsReal'
  BY DEF IInv, Statement, Pause, ShouldPause, Hits, DepthIsReal
<1>5. NoneLost' /\ DueArmed'
  BY DEF IInv, Statement, Pause, ShouldPause, Hits, NoneLost, DueArmed, Answering,
         TypeOK, Flags
<1> QED
  BY <1>1, <1>2, <1>3, <1>4, <1>5 DEF IInv

(* BeforeStmt that does not pause costs a step. *)
LEMMA PassingStep ==
  ASSUME IInv, NEW s \in Statements, Statement(s), Pass(s), UNCHANGED ev
  PROVE  IInv'
<1> USE ControllerAssumption, DapAssumption
    DEF ctlVars, evVars, loopVars, clientVars, Statements, Commands, InPause, SeesStop,
        Commanded, Request
<1>1. TypeOK' /\ Budgets'
  BY DEF IInv, Statement, Pass, TypeOK, Budgets
<1>2. Flags' /\ Sent' /\ Answering' /\ PatientMeets'
  BY DEF IInv, Statement, Pass, Flags, Sent, TypeOK, Answering, PatientMeets
<1>3. ModesAsked' /\ StopMatchesCommand'
  BY DEF IInv, Statement, Pass, TypeOK, ModesAsked, Sent, StopMatchesCommand
<1>4. DepthIsReal'
  BY DEF IInv, Statement, Pass, DepthIsReal
<1>5. NoneLost' /\ DueArmed'
  BY DEF IInv, Statement, Pass, NoneLost, DueArmed, Answering, TypeOK, Flags
<1> QED
  BY <1>1, <1>2, <1>3, <1>4, <1>5 DEF IInv

(* EnterCall: the depth counts the call if it is tracked; for a client     *)
(* that keeps to its stops nothing is being evaluated, so nothing is       *)
(* suppressed.                                                             *)
LEMMA CallStep ==
  ASSUME IInv, NEW tracked \in BOOLEAN, Call(tracked)
  PROVE  IInv'
<1> USE ControllerAssumption, DapAssumption
    DEF ctlVars, evVars, loopVars, clientVars, Statements, Commands, InPause, SeesStop,
        Commanded, Request
<1>1. TypeOK' /\ Budgets'
  BY DEF IInv, Call, Enter, TypeOK, Budgets
<1>2. Flags' /\ Sent' /\ Answering' /\ PatientMeets'
  BY DEF IInv, Call, Enter, Flags, Sent, TypeOK, Answering, PatientMeets
<1>3. ModesAsked' /\ StopMatchesCommand'
  BY DEF IInv, Call, Enter, TypeOK, ModesAsked, Sent, StopMatchesCommand
<1>4. DepthIsReal'
  <2>1. CASE hasty
    BY <2>1 DEF Call, DepthIsReal
  <2>2. CASE ~hasty
    <3>1. frames \in Seq(BOOLEAN) /\ depth = Cardinality(Tracked(frames)) /\ ~suppress
      BY <2>2 DEF IInv, Call, TypeOK, DepthIsReal, PatientMeets, Flags
    <3>2. depth' = IF tracked THEN depth + 1 ELSE depth
      BY <3>1 DEF Call, Enter
    <3> QED
      BY <3>1, <3>2, TrackedAppend DEF Call, Enter, DepthIsReal
  <2> QED
    BY <2>1, <2>2
<1>5. NoneLost' /\ DueArmed'
  BY DEF IInv, Call, Enter, NoneLost, DueArmed, Answering, TypeOK, Flags
<1> QED
  BY <1>1, <1>2, <1>3, <1>4, <1>5 DEF IInv

(* LeaveCall: the depth falls exactly when a tracked call ends. *)
LEMMA ReturnStep ==
  ASSUME IInv, Return
  PROVE  IInv'
<1> USE ControllerAssumption, DapAssumption
    DEF ctlVars, evVars, loopVars, clientVars, Statements, Commands, InPause, SeesStop,
        Commanded, Request
<1>1. TypeOK' /\ Budgets'
  BY DEF IInv, Return, Leave, TypeOK, Budgets
<1>2. Flags' /\ Sent' /\ Answering' /\ PatientMeets'
  BY DEF IInv, Return, Leave, Flags, Sent, TypeOK, Answering, PatientMeets
<1>3. ModesAsked' /\ StopMatchesCommand'
  BY DEF IInv, Return, Leave, TypeOK, ModesAsked, Sent, StopMatchesCommand
<1>4. DepthIsReal'
  <2>1. CASE hasty
    BY <2>1 DEF Return, DepthIsReal
  <2>2. CASE ~hasty
    <3>1. frames \in Seq(BOOLEAN) /\ frames # <<>>
          /\ depth = Cardinality(Tracked(frames)) /\ ~suppress
      BY <2>2 DEF IInv, Return, Leave, TypeOK, DepthIsReal, PatientMeets, Flags
    <3>2. depth' = IF frames[Len(frames)] /\ depth > 0 THEN depth - 1 ELSE depth
      BY <3>1 DEF Return, Leave
    <3>3. /\ frames' = SubSeq(frames, 1, Len(frames) - 1)
          /\ depth' = Cardinality(Tracked(frames'))
      BY <3>1, <3>2, TrackedFront DEF Return, Leave
    <3> QED
      BY <3>3 DEF DepthIsReal
  <2> QED
    BY <2>1, <2>2
<1>5. NoneLost' /\ DueArmed'
  BY DEF IInv, Return, Leave, NoneLost, DueArmed, Answering, TypeOK, Flags
<1> QED
  BY <1>1, <1>2, <1>3, <1>4, <1>5 DEF IInv

(* The end of the program. *)
LEMMA FinishStep ==
  ASSUME IInv, Finish
  PROVE  IInv'
<1> USE ControllerAssumption, DapAssumption
    DEF ctlVars, evVars, loopVars, clientVars, Statements, Commands, InPause, SeesStop,
        Commanded, Request
<1>1. TypeOK' /\ Budgets'
  BY DEF IInv, Finish, TypeOK, Budgets
<1>2. Flags' /\ Sent' /\ Answering' /\ PatientMeets'
  BY DEF IInv, Finish, Flags, Sent, TypeOK, Answering, PatientMeets
<1>3. ModesAsked' /\ StopMatchesCommand'
  BY DEF IInv, Finish, TypeOK, ModesAsked, Sent, StopMatchesCommand
<1>4. DepthIsReal'
  BY DEF IInv, Finish, DepthIsReal
<1>5. NoneLost' /\ DueArmed'
  BY DEF IInv, Finish, NoneLost, DueArmed, Answering, TypeOK, Flags
<1> QED
  BY <1>1, <1>2, <1>3, <1>4, <1>5 DEF IInv

(* onPause arms what is pending.  No handler is in the middle of arming:   *)
(* both hold bpMu.                                                         *)
LEMMA ApplyPendingStep ==
  ASSUME IInv, ApplyPending
  PROVE  IInv'
<1> USE ControllerAssumption, DapAssumption
    DEF ctlVars, evVars, loopVars, clientVars, Statements, Commands, InPause, SeesStop,
        Commanded, Request
<1>1. TypeOK' /\ Budgets'
  <2>1. breakpoints' \subseteq Lines /\ pending' \subseteq Lines /\ due' \in BOOLEAN
    BY DEF IInv, ApplyPending, TypeOK
  <2> QED
    BY <2>1 DEF IInv, ApplyPending, TypeOK, Budgets
<1>2. Flags' /\ Sent' /\ Answering' /\ PatientMeets'
  BY DEF IInv, ApplyPending, Flags, Sent, TypeOK, Answering, PatientMeets
<1>3. ModesAsked' /\ StopMatchesCommand'
  BY DEF IInv, ApplyPending, TypeOK, ModesAsked, Sent, StopMatchesCommand
<1>4. DepthIsReal'
  BY DEF IInv, ApplyPending, DepthIsReal
<1>5. NoneLost' /\ DueArmed'
  BY DEF IInv, ApplyPending, NoneLost, DueArmed, Answering, TypeOK, Flags
<1> QED
  BY <1>1, <1>2, <1>3, <1>4, <1>5 DEF IInv

(* onPause sets the flag. *)
LEMMA RaiseFlagStep ==
  ASSUME IInv, RaiseFlag
  PROVE  IInv'
<1> USE ControllerAssumption, DapAssumption
    DEF ctlVars, evVars, loopVars, clientVars, Statements, Commands, InPause, SeesStop,
        Commanded, Request
<1>1. TypeOK' /\ Budgets'
  BY DEF IInv, RaiseFlag, TypeOK, Budgets
<1>2. Flags' /\ Sent' /\ Answering' /\ PatientMeets'
  BY DEF IInv, RaiseFlag, Flags, Sent, TypeOK, Answering, PatientMeets
<1>3. ModesAsked' /\ StopMatchesCommand'
  BY DEF IInv, RaiseFlag, TypeOK, ModesAsked, Sent, StopMatchesCommand
<1>4. DepthIsReal'
  BY DEF IInv, RaiseFlag, DepthIsReal
<1>5. NoneLost' /\ DueArmed'
  BY DEF IInv, RaiseFlag, NoneLost, DueArmed, Answering, TypeOK, Flags
<1> QED
  BY <1>1, <1>2, <1>3, <1>4, <1>5 DEF IInv

(* onPause reports the stop: it was not parked, so every earlier stop has  *)
(* been answered, and this one is the only one the client sees.            *)
LEMMA ReportStep ==
  ASSUME IInv, Report
  PROVE  IInv'
<1> USE ControllerAssumption, DapAssumption
    DEF ctlVars, evVars, loopVars, clientVars, Statements, Commands, InPause, SeesStop,
        Commanded, Request
<1>1. TypeOK' /\ Budgets'
  BY DEF IInv, Report, TypeOK, Budgets
<1>2. Flags' /\ Sent' /\ Answering' /\ PatientMeets'
  <2>1. stops \in Nat /\ resumes \in Nat /\ stops' = stops + 1 /\ resumes' = resumes
    BY DEF IInv, Report, TypeOK
  <2>2. stops <= resumes /\ (loop = "send" => stops < resumes)
    BY <2>1 DEF IInv, Report, Answering
  <2>3. Answering'
    BY <2>1, <2>2 DEF Report, Answering
  <2> QED
    BY <2>3 DEF IInv, Report, Flags, Sent, PatientMeets
<1>3. ModesAsked' /\ StopMatchesCommand'
  BY DEF IInv, Report, TypeOK, ModesAsked, Sent, StopMatchesCommand
<1>4. DepthIsReal'
  BY DEF IInv, Report, DepthIsReal
<1>5. NoneLost' /\ DueArmed'
  BY DEF IInv, Report, NoneLost, DueArmed, Answering, TypeOK, Flags
<1> QED
  BY <1>1, <1>2, <1>3, <1>4, <1>5 DEF IInv

(* The rendezvous on resumeCh takes the handler out of its send. *)
LEMMA TakeResumeStep ==
  ASSUME IInv, TakeResume
  PROVE  IInv'
<1> USE ControllerAssumption, DapAssumption
    DEF ctlVars, evVars, loopVars, clientVars, Statements, Commands, InPause, SeesStop,
        Commanded, Request
<1>1. TypeOK' /\ Budgets'
  BY DEF IInv, TakeResume, TypeOK, Budgets
<1>2. Flags' /\ Sent' /\ Answering' /\ PatientMeets'
  BY DEF IInv, TakeResume, Flags, Sent, TypeOK, Answering, PatientMeets
<1>3. ModesAsked' /\ StopMatchesCommand'
  BY DEF IInv, TakeResume, TypeOK, ModesAsked, Sent, StopMatchesCommand
<1>4. DepthIsReal'
  BY DEF IInv, TakeResume, DepthIsReal
<1>5. NoneLost' /\ DueArmed'
  BY DEF IInv, TakeResume, NoneLost, DueArmed, Answering, TypeOK, Flags
<1> QED
  BY <1>1, <1>2, <1>3, <1>4, <1>5 DEF IInv

(* onPause returns: the pause had consumed every mode, so the command's is *)
(* the only one armed, and its depth is the one recorded.                  *)
LEMMA ResumeStep ==
  ASSUME IInv, Resume
  PROVE  IInv'
<1> USE ControllerAssumption, DapAssumption
    DEF ctlVars, evVars, loopVars, clientVars, Statements, Commands, InPause, SeesStop,
        Commanded, Request
<1>1. TypeOK' /\ Budgets'
  <2>1. /\ modes' \subseteq {"step", "next", "out"} /\ modeDepth' \in 0..MaxSteps
        /\ UNCHANGED <<breakpoints, depth, suppress, pauseReason, at, frames>>
    BY DEF IInv, Resume, Arm, TypeOK, Sent
  <2>2. asked' \in [command : Commands \cup {"none", "terminate"},
                   depth : 0..MaxSteps, calls : 0..MaxDepth]
    BY DEF IInv, Resume, TypeOK
  <2>3. /\ UNCHANGED <<loopVars, clientVars, action, steps, pending>>
        /\ ev = "resumed" /\ ev' \in {"run", "done"} /\ paused' = FALSE
    BY DEF Resume
  <2>4. Budgets'
    BY <2>1, <2>3 DEF IInv, TypeOK, Budgets
  <2>5. /\ breakpoints' \subseteq Lines /\ depth' \in 0..MaxSteps /\ suppress' \in BOOLEAN
        /\ pauseReason' \in {"none", "breakpoint", "step"} /\ at' \in Statements
        /\ frames' \in Seq(BOOLEAN) /\ Len(frames') <= MaxDepth
    BY <2>1 DEF IInv, TypeOK
  <2>6. /\ pending' \subseteq Lines /\ req' \subseteq Lines /\ wanted' \subseteq Lines
        /\ paused' \in BOOLEAN /\ started' \in BOOLEAN
        /\ hasty' \in BOOLEAN /\ due' \in BOOLEAN
    BY <2>3 DEF IInv, TypeOK
  <2>7. /\ loop' \in {"read", "apply", "evaluate", "send", "await", "ended"}
        /\ action' \in Commands \cup {"none", "terminate"}
        /\ sending' \in Commands \cup {"none", "terminate"}
    BY <2>3 DEF IInv, TypeOK
  <2>8. /\ stops' \in 0..MaxSteps /\ resumes' \in 0..MaxRequests
        /\ steps' \in 0..MaxSteps /\ requests' \in 0..MaxRequests
        /\ ev' \in {"unborn", "run", "resumed", "done"} \cup InPause
    BY <2>3 DEF IInv, TypeOK
  <2> QED
    BY <2>1, <2>2, <2>4, <2>5, <2>6, <2>7, <2>8 DEF TypeOK
<1>2. Flags' /\ Sent' /\ Answering' /\ PatientMeets'
  BY DEF IInv, Resume, Arm, Flags, Sent, TypeOK, Answering, PatientMeets
<1>3. ModesAsked' /\ StopMatchesCommand'
  <2>1. ev' \notin InPause
    BY DEF Resume
  <2>2. CASE action = "terminate"
    BY <2>1, <2>2 DEF IInv, Resume, ModesAsked, StopMatchesCommand
  <2>3. CASE action # "terminate"
    <3>1. modes = {} /\ asked'.command = action /\ asked'.depth = depth /\ ev' = "run"
      BY <2>3 DEF IInv, Resume, ModesAsked
    <3>2. /\ modes' = {action} \ {"none", "continue"}
          /\ action \in {"next", "out"} => modeDepth' = depth
      <4>1. action \in {"continue", "step", "next", "out"}
        BY <2>3 DEF IInv, Resume, TypeOK, Sent
      <4> QED
        BY <2>3, <3>1, <4>1 DEF Resume, Arm
    <3> QED
      BY <2>1, <3>1, <3>2 DEF ModesAsked, StopMatchesCommand
  <2> QED
    BY <2>2, <2>3
<1>4. DepthIsReal'
  BY DEF IInv, Resume, Arm, DepthIsReal
<1>5. NoneLost' /\ DueArmed'
  BY DEF IInv, Resume, Arm, NoneLost, DueArmed, Answering, TypeOK, Flags
<1> QED
  BY <1>1, <1>2, <1>3, <1>4, <1>5 DEF IInv

(* setBreakpoints: the lines become pending; those due at a stop the       *)
(* client sees are about to be armed, for the flag was set before the stop *)
(* was reported.                                                           *)
LEMMA SetBreakpointsStep ==
  ASSUME IInv, NEW ls \in SUBSET Lines, SetBreakpoints(ls)
  PROVE  IInv'
<1> USE ControllerAssumption, DapAssumption
    DEF ctlVars, evVars, loopVars, clientVars, Statements, Commands, InPause, SeesStop,
        Commanded, Request
<1>1. TypeOK' /\ Budgets'
  BY DEF IInv, SetBreakpoints, TypeOK, Budgets
<1>2. Flags' /\ Sent' /\ Answering' /\ PatientMeets'
  BY DEF IInv, SetBreakpoints, Flags, Sent, TypeOK, Answering, PatientMeets
<1>3. ModesAsked' /\ StopMatchesCommand'
  BY DEF IInv, SetBreakpoints, TypeOK, ModesAsked, Sent, StopMatchesCommand
<1>4. DepthIsReal'
  BY DEF IInv, SetBreakpoints, DepthIsReal
<1>5. NoneLost' /\ DueArmed'
  BY DEF IInv, SetBreakpoints, NoneLost, DueArmed, Answering, TypeOK, Flags
<1> QED
  BY <1>1, <1>2, <1>3, <1>4, <1>5 DEF IInv

(* setBreakpoints arms its lines itself. *)
LEMMA ApplyDirectlyStep ==
  ASSUME IInv, ApplyDirectly
  PROVE  IInv'
<1> USE ControllerAssumption, DapAssumption
    DEF ctlVars, evVars, loopVars, clientVars, Statements, Commands, InPause, SeesStop,
        Commanded, Request
<1>1. TypeOK' /\ Budgets'
  BY DEF IInv, ApplyDirectly, TypeOK, Budgets
<1>2. Flags' /\ Sent' /\ Answering' /\ PatientMeets'
  BY DEF IInv, ApplyDirectly, Flags, Sent, TypeOK, Answering, PatientMeets
<1>3. ModesAsked' /\ StopMatchesCommand'
  BY DEF IInv, ApplyDirectly, TypeOK, ModesAsked, Sent, StopMatchesCommand
<1>4. DepthIsReal'
  BY DEF IInv, ApplyDirectly, DepthIsReal
<1>5. NoneLost' /\ DueArmed'
  BY DEF IInv, ApplyDirectly, NoneLost, DueArmed, Answering, TypeOK, Flags
<1> QED
  BY <1>1, <1>2, <1>3, <1>4, <1>5 DEF IInv

(* The fault on the map ends the loop. *)
LEMMA MapFaultStep ==
  ASSUME IInv, MapFault
  PROVE  IInv'
<1> USE ControllerAssumption, DapAssumption
    DEF ctlVars, evVars, loopVars, clientVars, Statements, Commands, InPause, SeesStop,
        Commanded, Request
<1>1. TypeOK' /\ Budgets'
  BY DEF IInv, MapFault, TypeOK, Budgets
<1>2. Flags' /\ Sent' /\ Answering' /\ PatientMeets'
  BY DEF IInv, MapFault, Flags, Sent, TypeOK, Answering, PatientMeets
<1>3. ModesAsked' /\ StopMatchesCommand'
  BY DEF IInv, MapFault, TypeOK, ModesAsked, Sent, StopMatchesCommand
<1>4. DepthIsReal'
  BY DEF IInv, MapFault, DepthIsReal
<1>5. NoneLost' /\ DueArmed'
  BY DEF IInv, MapFault, NoneLost, DueArmed, Answering, TypeOK, Flags
<1> QED
  BY <1>1, <1>2, <1>3, <1>4, <1>5 DEF IInv

(* configurationDone lets the program start. *)
LEMMA ConfigurationDoneStep ==
  ASSUME IInv, ConfigurationDone
  PROVE  IInv'
<1> USE ControllerAssumption, DapAssumption
    DEF ctlVars, evVars, loopVars, clientVars, Statements, Commands, InPause, SeesStop,
        Commanded, Request
<1>1. TypeOK' /\ Budgets'
  BY DEF IInv, ConfigurationDone, TypeOK, Budgets
<1>2. Flags' /\ Sent' /\ Answering' /\ PatientMeets'
  BY DEF IInv, ConfigurationDone, Flags, Sent, TypeOK, Answering, PatientMeets
<1>3. ModesAsked' /\ StopMatchesCommand'
  BY DEF IInv, ConfigurationDone, TypeOK, ModesAsked, Sent, StopMatchesCommand
<1>4. DepthIsReal'
  BY DEF IInv, ConfigurationDone, DepthIsReal
<1>5. NoneLost' /\ DueArmed'
  BY DEF IInv, ConfigurationDone, NoneLost, DueArmed, Answering, TypeOK, Flags
<1> QED
  BY <1>1, <1>2, <1>3, <1>4, <1>5 DEF IInv

(* A resume request answers the stop that is seen, or hastily one that is  *)
(* not yet reported.                                                       *)
LEMMA ResumeRequestStep ==
  ASSUME IInv, NEW command \in Commands, ResumeRequest(command)
  PROVE  IInv'
<1> USE ControllerAssumption, DapAssumption
    DEF ctlVars, evVars, loopVars, clientVars, Statements, Commands, InPause, SeesStop,
        Commanded, Request
<1>1. TypeOK' /\ Budgets'
  BY DEF IInv, ResumeRequest, TypeOK, Budgets
<1>2. Flags' /\ Sent' /\ Answering' /\ PatientMeets'
  BY DEF IInv, ResumeRequest, Flags, Sent, TypeOK, Answering, PatientMeets
<1>3. ModesAsked' /\ StopMatchesCommand'
  BY DEF IInv, ResumeRequest, TypeOK, ModesAsked, Sent, StopMatchesCommand
<1>4. DepthIsReal'
  BY DEF IInv, ResumeRequest, DepthIsReal
<1>5. NoneLost' /\ DueArmed'
  BY DEF IInv, ResumeRequest, NoneLost, DueArmed, Answering, TypeOK, Flags
<1> QED
  BY <1>1, <1>2, <1>3, <1>4, <1>5 DEF IInv

(* evaluate suppresses the hooks, at a stop that is seen or hastily. *)
LEMMA EvaluateStep ==
  ASSUME IInv, Evaluate
  PROVE  IInv'
<1> USE ControllerAssumption, DapAssumption
    DEF ctlVars, evVars, loopVars, clientVars, Statements, Commands, InPause, SeesStop,
        Commanded, Request
<1>1. TypeOK' /\ Budgets'
  BY DEF IInv, Evaluate, TypeOK, Budgets
<1>2. Flags' /\ Sent' /\ Answering' /\ PatientMeets'
  BY DEF IInv, Evaluate, Flags, Sent, TypeOK, Answering, PatientMeets
<1>3. ModesAsked' /\ StopMatchesCommand'
  BY DEF IInv, Evaluate, TypeOK, ModesAsked, Sent, StopMatchesCommand
<1>4. DepthIsReal'
  BY DEF IInv, Evaluate, DepthIsReal
<1>5. NoneLost' /\ DueArmed'
  BY DEF IInv, Evaluate, NoneLost, DueArmed, Answering, TypeOK, Flags
<1> QED
  BY <1>1, <1>2, <1>3, <1>4, <1>5 DEF IInv

(* The end of evaluate lifts the suppression. *)
LEMMA EvaluatedStep ==
  ASSUME IInv, Evaluated
  PROVE  IInv'
<1> USE ControllerAssumption, DapAssumption
    DEF ctlVars, evVars, loopVars, clientVars, Statements, Commands, InPause, SeesStop,
        Commanded, Request
<1>1. TypeOK' /\ Budgets'
  <2>1. suppress' \in BOOLEAN /\ loop' = "read"
    BY DEF Evaluated
  <2> QED
    BY <2>1 DEF IInv, Evaluated, TypeOK, Budgets
<1>2. Flags' /\ Sent' /\ Answering' /\ PatientMeets'
  BY DEF IInv, Evaluated, Flags, Sent, TypeOK, Answering, PatientMeets
<1>3. ModesAsked' /\ StopMatchesCommand'
  BY DEF IInv, Evaluated, TypeOK, ModesAsked, Sent, StopMatchesCommand
<1>4. DepthIsReal'
  BY DEF IInv, Evaluated, DepthIsReal
<1>5. NoneLost' /\ DueArmed'
  BY DEF IInv, Evaluated, NoneLost, DueArmed, Answering, TypeOK, Flags
<1> QED
  BY <1>1, <1>2, <1>3, <1>4, <1>5 DEF IInv

(* disconnect sends terminate if the program is paused. *)
LEMMA DisconnectStep ==
  ASSUME IInv, Disconnect
  PROVE  IInv'
<1> USE ControllerAssumption, DapAssumption
    DEF ctlVars, evVars, loopVars, clientVars, Statements, Commands, InPause, SeesStop,
        Commanded, Request
<1>1. TypeOK' /\ Budgets'
  BY DEF IInv, Disconnect, TypeOK, Budgets
<1>2. Flags' /\ Sent' /\ Answering' /\ PatientMeets'
  BY DEF IInv, Disconnect, Flags, Sent, TypeOK, Answering, PatientMeets
<1>3. ModesAsked' /\ StopMatchesCommand'
  BY DEF IInv, Disconnect, TypeOK, ModesAsked, Sent, StopMatchesCommand
<1>4. DepthIsReal'
  BY DEF IInv, Disconnect, DepthIsReal
<1>5. NoneLost' /\ DueArmed'
  BY DEF IInv, Disconnect, NoneLost, DueArmed, Answering, TypeOK, Flags
<1> QED
  BY <1>1, <1>2, <1>3, <1>4, <1>5 DEF IInv

(* The handler of disconnect has seen progDone closed. *)
LEMMA ProgramDoneStep ==
  ASSUME IInv, ProgramDone
  PROVE  IInv'
<1> USE ControllerAssumption, DapAssumption
    DEF ctlVars, evVars, loopVars, clientVars, Statements, Commands, InPause, SeesStop,
        Commanded, Request
<1>1. TypeOK' /\ Budgets'
  BY DEF IInv, ProgramDone, TypeOK, Budgets
<1>2. Flags' /\ Sent' /\ Answering' /\ PatientMeets'
  BY DEF IInv, ProgramDone, Flags, Sent, TypeOK, Answering, PatientMeets
<1>3. ModesAsked' /\ StopMatchesCommand'
  BY DEF IInv, ProgramDone, TypeOK, ModesAsked, Sent, StopMatchesCommand
<1>4. DepthIsReal'
  BY DEF IInv, ProgramDone, DepthIsReal
<1>5. NoneLost' /\ DueArmed'
  BY DEF IInv, ProgramDone, NoneLost, DueArmed, Answering, TypeOK, Flags
<1> QED
  BY <1>1, <1>2, <1>3, <1>4, <1>5 DEF IInv

(* A stuttering step. *)
LEMMA StutterStep ==
  ASSUME IInv, UNCHANGED vars
  PROVE  IInv'
<1> USE ControllerAssumption, DapAssumption
    DEF ctlVars, evVars, loopVars, clientVars, Statements, Commands, InPause, SeesStop,
        Commanded, Request
<1>1. TypeOK' /\ Budgets'
  BY DEF IInv, vars, TypeOK, Budgets
<1>2. Flags' /\ Sent' /\ Answering' /\ PatientMeets'
  BY DEF IInv, vars, Flags, Sent, TypeOK, Answering, PatientMeets
<1>3. ModesAsked' /\ StopMatchesCommand'
  BY DEF IInv, vars, TypeOK, ModesAsked, Sent, StopMatchesCommand
<1>4. DepthIsReal'
  BY DEF IInv, vars, DepthIsReal
<1>5. NoneLost' /\ DueArmed'
  BY DEF IInv, vars, NoneLost, DueArmed, Answering, TypeOK, Flags
<1> QED
  BY <1>1, <1>2, <1>3, <1>4, <1>5 DEF IInv

-----------------------------------------------------------------------------
(* Every step of either goroutine, of the client, and the fault preserves  *)
(* the invariant.                                                          *)
LEMMA Step == IInv /\ [Next]_vars => IInv'
<1> SUFFICES ASSUME IInv, [Next]_vars PROVE IInv'
  OBVIOUS
<1>1. CASE Evaluator
  <2>1. CASE StartFails \/ PreRun \/ Return \/ Finish
    BY <2>1, StartFailsStep, PreRunStep, ReturnStep, FinishStep
  <2>2. ASSUME NEW s \in Statements, Statement(s)
        PROVE  IInv'
    <3>1. CASE Pause(s) /\ ev' = "apply"
      BY <2>2, <3>1, PausingStep
    <3>2. CASE Pass(s) /\ UNCHANGED ev
      BY <2>2, <3>2, PassingStep
    <3> QED
      BY <2>2, <3>1, <3>2 DEF Statement
  <2>3. ASSUME NEW tracked \in BOOLEAN, Call(tracked)
        PROVE  IInv'
    BY <2>3, CallStep
  <2>4. CASE ApplyPending \/ RaiseFlag \/ Report \/ TakeResume \/ Resume
    BY <2>4, ApplyPendingStep, RaiseFlagStep, ReportStep, TakeResumeStep, ResumeStep
  <2> QED
    BY <1>1, <2>1, <2>2, <2>3, <2>4 DEF Evaluator
<1>2. CASE Handler \/ MapFault
  BY <1>2, ApplyDirectlyStep, EvaluatedStep, ProgramDoneStep, MapFaultStep DEF Handler
<1>3. CASE Client
  BY <1>3, SetBreakpointsStep, ResumeRequestStep, ConfigurationDoneStep, EvaluateStep,
     DisconnectStep DEF Client
<1>4. CASE UNCHANGED vars
  BY <1>4, StutterStep
<1> QED
  BY <1>1, <1>2, <1>3, <1>4 DEF Next

(* Every state of a session satisfies the invariant. *)
LEMMA Invariance == Spec => []IInv
BY Initialization, Step, PTL DEF Spec

(* Every variable of a session always holds a value of its type: the depth *)
(* stays within the steps taken, and no event is counted twice.            *)
THEOREM TypeCorrect == Spec => []TypeOK
<1>1. IInv => TypeOK
  BY DEF IInv
<1> QED
  BY <1>1, Invariance, PTL

(* shouldPause and the consumption of the modes in BeforeStmt: a pause     *)
(* without a breakpoint is one the last resume command asked for, at a     *)
(* depth that meets its condition.                                         *)
THEOREM StopsMatchCommands == Spec => []StopMatchesCommand
<1>1. IInv => StopMatchesCommand
  BY DEF IInv
<1> QED
  BY <1>1, Invariance, PTL

(* onPause sets `paused` before it sends "stopped": while the client has   *)
(* an unanswered stop the evaluator is at the receive, and the handler of  *)
(* its next resume request finds the flag set.                             *)
THEOREM StopsAreAnswerable == Spec => []StopIsAnswerable
<1>1. IInv => StopIsAnswerable
  BY DEF IInv, Answering, Flags, StopIsAnswerable
<1> QED
  BY <1>1, Invariance, PTL

(* handleEvaluate and the send of a resume action: a client that keeps to  *)
(* the stops it has seen makes the handler evaluate or send only while the *)
(* evaluator is parked, so that no expression runs beside the program and  *)
(* no send blocks.                                                         *)
THEOREM HandlersMeetParked == Spec => []PatientMeets
<1>1. IInv => PatientMeets
  BY DEF IInv
<1> QED
  BY <1>1, Invariance, PTL

(* After a terminate was received the evaluator unwinds and the program    *)
(* ends: nothing else is between the handler's wait and progDone.          *)
Unwinding == loop = "await" => ev = "done" \/ (ev = "resumed" /\ action = "terminate")

(* disconnect: once the terminate has been received, the wait for progDone *)
(* is over after at most one step of the evaluator.                        *)
THEOREM DisconnectUnwinds == Spec => []Unwinding
<1>1. Init => Unwinding
  BY DEF Init, Unwinding
<1>2. IInv /\ Unwinding /\ [Next]_vars => Unwinding'
  <2> SUFFICES ASSUME IInv, Unwinding, [Next]_vars, loop' = "await"
               PROVE  ev' = "done" \/ (ev' = "resumed" /\ action' = "terminate")
    BY DEF Unwinding
  <2> USE DEF Unwinding, evVars, loopVars
  <2>1. CASE loop # "await"
    <3>1. TakeResume
      BY <2>1 DEF Next, Evaluator, Handler, Client, StartFails, PreRun, Return, Finish,
         Statement, Call, ApplyPending, RaiseFlag, Report, Resume, ApplyDirectly, Evaluated,
         ProgramDone, MapFault, SetBreakpoints, ResumeRequest, ConfigurationDone, Evaluate,
         Disconnect, vars
    <3> QED
      BY <2>1, <3>1 DEF TakeResume
  <2>2. CASE loop = "await"
    <3>1. CASE Evaluator
      BY <2>2, <3>1 DEF Evaluator, StartFails, PreRun, Return, Finish, Statement, Call,
         ApplyPending, RaiseFlag, Report, TakeResume, Resume
    <3>2. CASE Handler \/ MapFault \/ UNCHANGED vars
      BY <2>2, <3>2 DEF Handler, ApplyDirectly, Evaluated, ProgramDone, MapFault, vars
    <3>3. CASE Client
      BY <2>2, <3>3 DEF Client, Request, SetBreakpoints, ResumeRequest, ConfigurationDone,
         Evaluate, Disconnect
    <3> QED
      BY <3>1, <3>2, <3>3 DEF Next
  <2> QED
    BY <2>1, <2>2
<1> QED
  BY Invariance, <1>1, <1>2, PTL DEF Spec

-----------------------------------------------------------------------------
(* A client that sets breakpoints only before the program starts and at    *)
(* stops it has seen.                                                      *)
SetsInTime == \A ls \in SUBSET Lines : SetBreakpoints(ls) => ~started \/ SeesStop

(* setBreakpoints then arms the lines while the evaluator waits.           *)
ArmsAtStops == loop = "apply" => ev = "parked"

(* With such a client, what the comment in handleSetBreakpoints takes for  *)
(* granted is true: the handler arms breakpoints while the evaluator is    *)
(* parked, and the map is never read and written at once.  The race needs  *)
(* a request between a resume and the next stop.                           *)
THEOREM TimelyBreakpointsDoNotRace == Spec /\ [][SetsInTime]_vars => []EvaluatorIsParked
<1>1. Init => ArmsAtStops
  BY DEF Init, ArmsAtStops
<1>2. IInv /\ ArmsAtStops /\ [Next]_vars /\ [SetsInTime]_vars => ArmsAtStops'
  <2> SUFFICES ASSUME IInv, ArmsAtStops, [Next]_vars, [SetsInTime]_vars, loop' = "apply"
               PROVE  ev' = "parked"
    BY DEF ArmsAtStops
  <2> USE DEF ArmsAtStops, evVars, loopVars
  <2>1. CASE loop # "apply"
    <3>1. PICK ls \in SUBSET Lines : SetBreakpoints(ls)
      BY <2>1 DEF Next, Evaluator, Handler, Client, StartFails, PreRun, Return, Finish,
         Statement, Call, ApplyPending, RaiseFlag, Report, TakeResume, Resume,
         ApplyDirectly, Evaluated, ProgramDone, MapFault, ResumeRequest,
         ConfigurationDone, Evaluate, Disconnect, vars
    <3>2. loop' # loop
      BY <2>1
    <3>3. ~started \/ SeesStop
      BY <3>1, <3>2 DEF SetsInTime, vars
    <3>4. started
      BY <2>1, <3>1 DEF SetBreakpoints
    <3>5. ev = "parked"
      BY <3>3, <3>4 DEF IInv, Answering
    <3> QED
      BY <3>1, <3>5 DEF SetBreakpoints
  <2>2. CASE loop = "apply"
    <3>1. ev = "parked"
      BY <2>2
    <3>2. CASE Evaluator
      BY <2>2, <3>1, <3>2 DEF Evaluator, StartFails, PreRun, Return, Finish, Statement,
         Call, ApplyPending, RaiseFlag, Report, TakeResume, Resume
    <3>3. CASE Handler \/ MapFault \/ UNCHANGED vars
      BY <2>2, <3>1, <3>3 DEF Handler, ApplyDirectly, Evaluated, ProgramDone, MapFault, vars
    <3>4. CASE Client
      BY <2>2, <3>1, <3>4 DEF Client, Request, SetBreakpoints, ResumeRequest,
         ConfigurationDone, Evaluate, Disconnect
    <3> QED
      BY <3>2, <3>3, <3>4 DEF Next
  <2> QED
    BY <2>1, <2>2
<1>3. ArmsAtStops => EvaluatorIsParked
  BY DEF ArmsAtStops, EvaluatorIsParked
<1> QED
  BY Invariance, <1>1, <1>2, <1>3, PTL DEF Spec

-----------------------------------------------------------------------------
(* A program whose calls all go through applyFunction: it has no methods   *)
(* and no calls with named arguments.                                      *)
CallsAreTracked == ~Call(FALSE)

(* All calls in progress count, and the depth of the last command was the  *)
(* number of calls at that time.                                           *)
AllCounted ==
  /\ \A i \in DOMAIN frames : frames[i]
  /\ ~hasty => asked.calls = asked.depth

(* A step over stops in no deeper call, a step out in an outer one.        *)
StepsAreReal ==
  ev \in InPause /\ pauseReason = "step" /\ ~hasty =>
    /\ asked.command = "next" => Len(frames) <= asked.calls
    /\ asked.command = "out" => Len(frames) < asked.calls

(* If all calls count, their places are all there are. *)
LEMMA AllTracked ==
  ASSUME NEW calls \in Seq(BOOLEAN), \A i \in DOMAIN calls : calls[i]
  PROVE  Cardinality(Tracked(calls)) = Len(calls)
<1>1. Tracked(calls) = 1..Len(calls) /\ Len(calls) \in Nat
  BY DEF Tracked
<1> QED
  BY <1>1, FS_Interval

(* ShouldPause with Arm, EnterCall and LeaveCall: next and stepOut are     *)
(* right about every program whose calls are all tracked, for a client     *)
(* that keeps to the stops it has seen.  What makes next stop inside a     *)
(* callee is a call the controller is not told of, and nothing else.       *)
THEOREM TrackedCallsAreSteppedOver == Spec /\ [][CallsAreTracked]_vars => []StepsAreReal
<1> USE DEF evVars, loopVars, clientVars, ctlVars
<1>1. Init => AllCounted
  BY DEF Init, ControllerInit, AllCounted
<1>2. IInv /\ AllCounted => (~hasty => depth = Len(frames))
  BY AllTracked DEF IInv, TypeOK, DepthIsReal, AllCounted
<1>3. IInv /\ AllCounted /\ [Next]_vars /\ [CallsAreTracked]_vars => AllCounted'
  <2> SUFFICES ASSUME IInv, AllCounted, [Next]_vars, [CallsAreTracked]_vars
               PROVE  AllCounted'
    OBVIOUS
  <2>a. frames \in Seq(BOOLEAN)
    BY DEF IInv, TypeOK
  <2>1. ASSUME NEW tracked \in BOOLEAN, Call(tracked) PROVE AllCounted'
    <3>1. frames' = Append(frames, tracked) /\ UNCHANGED <<asked, hasty>>
      BY <2>1 DEF Call, Enter
    <3>2. frames' # frames
      BY <2>a, <3>1
    <3>3. tracked
      BY <2>1, <3>2 DEF CallsAreTracked, vars
    <3> QED
      BY <2>a, <3>1, <3>3 DEF AllCounted
  <2>2. CASE Return
    <3>1. /\ frames # <<>> /\ frames' = SubSeq(frames, 1, Len(frames) - 1)
          /\ UNCHANGED <<asked, hasty>>
      BY <2>2 DEF Return, Leave
    <3>2. Len(frames) - 1 \in Nat /\ Len(frames) - 1 <= Len(frames)
      BY <2>a, <3>1
    <3> DEFINE n == Len(frames) - 1
    <3>3. frames' \in Seq(BOOLEAN) /\ Len(frames') = n /\ \A i \in 1..n : frames'[i] = frames[i]
      BY <2>a, <3>1, <3>2, PrefixOfCalls, Zenon
    <3>4. DOMAIN frames' = 1..n /\ 1..n \subseteq DOMAIN frames
      BY <2>a, <3>2, <3>3
    <3> QED
      BY <3>1, <3>3, <3>4 DEF AllCounted
  <2>3. CASE Resume
    <3>1. frames' = frames /\ hasty' = hasty
      BY <2>3 DEF Resume, Arm
    <3>2. asked' = asked \/ (asked'.depth = depth /\ asked'.calls = Len(frames))
      BY <2>3 DEF Resume
    <3> QED
      BY <1>2, <3>1, <3>2 DEF AllCounted
  <2>4. CASE \/ StartFails \/ PreRun \/ Finish \/ ApplyPending \/ RaiseFlag \/ Report
             \/ TakeResume \/ (\E s \in Statements : Statement(s))
    BY <2>4 DEF StartFails, PreRun, Finish, ApplyPending, RaiseFlag, Report, TakeResume,
       Statement, Pause, Pass, AllCounted
  <2>5. CASE Handler \/ MapFault \/ UNCHANGED vars
    BY <2>5 DEF Handler, ApplyDirectly, Evaluated, ProgramDone, MapFault, vars, AllCounted
  <2>6. CASE Client
    <3>1. UNCHANGED <<frames, asked>> /\ (hasty => hasty')
      BY <2>6 DEF IInv, TypeOK, Client, Request, SetBreakpoints, ResumeRequest,
         ConfigurationDone, Evaluate, Disconnect
    <3> QED
      BY <3>1 DEF AllCounted
  <2> QED
    BY <2>1, <2>2, <2>3, <2>4, <2>5, <2>6 DEF Next, Evaluator
<1>4. IInv /\ AllCounted => StepsAreReal
  <2> SUFFICES ASSUME IInv, AllCounted, ev \in InPause, pauseReason = "step", ~hasty
               PROVE  /\ asked.command = "next" => Len(frames) <= asked.calls
                      /\ asked.command = "out" => Len(frames) < asked.calls
    BY DEF StepsAreReal
  <2>1. Commanded
    BY DEF IInv, StopMatchesCommand
  <2>2. depth = Len(frames) /\ asked.calls = asked.depth
    BY <1>2 DEF AllCounted
  <2> QED
    BY <2>1, <2>2 DEF Commanded
<1> QED
  BY Invariance, <1>1, <1>3, <1>4, PTL DEF Spec

-----------------------------------------------------------------------------
(* EnterCall and LeaveCall: for such a client the controller's depth is    *)
(* the number of calls it was told of, whatever was evaluated at a stop.   *)
THEOREM DepthsAreReal == Spec => []DepthIsReal
<1>1. IInv => DepthIsReal
  BY DEF IInv
<1> QED
  BY <1>1, Invariance, PTL

(* preRun, applyPending and setBreakpoints: breakpoints reported as        *)
(* verified before the start or at a stop, or picked up by a pause, are    *)
(* armed whenever the program runs.                                        *)
THEOREM BreakpointsStayInForce == Spec => []BreakpointsInForce
<1>1. IInv => BreakpointsInForce
  BY DEF IInv, DueArmed, Answering, BreakpointsInForce
<1> QED
  BY <1>1, Invariance, PTL

(* shouldPause, for a client that keeps to the stops it has seen: a        *)
(* statement with a breakpoint in force, or that the last resume command   *)
(* asks to stop at, pauses; no evaluation, breakpoint or earlier stop has  *)
(* left the hooks suppressed or the command's mode disarmed.               *)
THEOREM StopsAreNotMissed == Spec => NoStopIsMissed
<1> DEFINE Asked(s) == Commanded \/ (due /\ s \in wanted)
<1>1. ASSUME IInv, NEW s \in Statements, Statement(s), ~hasty, Asked(s)
      PROVE  ev' = "apply"
  <2>1. ev = "run" /\ ~suppress
    BY <1>1 DEF IInv, Statement, Flags, PatientMeets
  <2>2. due /\ s \in wanted => Hits(s)
    BY <1>1, <2>1 DEF IInv, DueArmed, SeesStop, Answering, Hits
  <2>3. Commanded =>
          \/ "step" \in modes
          \/ "next" \in modes /\ depth <= modeDepth
          \/ "out" \in modes /\ depth < modeDepth
    BY <1>1, <2>1 DEF IInv, ModesAsked, Commanded
  <2>4. ShouldPause(s)
    BY <1>1, <2>1, <2>2, <2>3 DEF ShouldPause
  <2> QED
    BY <1>1, <2>4 DEF Statement, Pass
<1>2. IInv /\ [Next]_vars =>
        [\A s \in Statements : Statement(s) /\ ~hasty /\ Asked(s) => ev' = "apply"]_vars
  BY <1>1
<1> QED
  BY <1>2, Invariance, PTL DEF Spec, NoStopIsMissed

=============================================================================
