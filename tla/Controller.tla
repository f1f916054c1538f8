----------------------------- MODULE Controller -----------------------------
(***************************************************************************)
(* The stepping engine (debug.Controller) behind the terminal debugger and *)
(* the DAP adapter: breakpoints, the three one-shot pause modes, the call  *)
(* depth.  The evaluator calls its hooks: BeforeStmt before a statement,   *)
(* EnterCall and LeaveCall around a call.                                  *)
(*                                                                         *)
(* Only applyFunction calls EnterCall and LeaveCall.  A method call        *)
(* (applyMethodBody) and a call with named arguments (applyFunctionNamed)  *)
(* enter a function of the program without telling the controller.         *)
(***************************************************************************)
EXTENDS Integers, Sequences, FiniteSets

CONSTANTS
  Lines,     \* the lines of the launched program
  Foreign,   \* any statement of an imported file
  MaxDepth   \* bound: nested calls

ASSUME ControllerAssumption == Foreign \notin Lines /\ MaxDepth \in Nat

VARIABLES
  breakpoints,  \* Controller.breakpoints: lines of the launched program
  modes,        \* those of stepMode, nextMode, outMode that are set
  modeDepth,    \* nextDepth or outDepth, whichever mode was set last
  depth,        \* Controller.depth, the length of Controller.stack
  suppress,     \* a paused expression is being evaluated
  pauseReason,  \* why the last pause happened
  at,           \* pausedLine and pausedFile: the statement of the last pause
  frames        \* the program's real calls; TRUE: entered by applyFunction

ctlVars == <<breakpoints, modes, modeDepth, depth, suppress, pauseReason, at, frames>>

Statements == Lines \cup {Foreign}

ControllerInit ==
  /\ breakpoints = {} /\ modes = {} /\ modeDepth = 0 /\ depth = 0
  /\ suppress = FALSE /\ pauseReason = "none" /\ at = Foreign /\ frames = <<>>

-----------------------------------------------------------------------------
Hits(s) == s \in breakpoints

ShouldPause(s) ==
  /\ ~suppress
  /\ \/ Hits(s)
     \/ "step" \in modes
     \/ "next" \in modes /\ depth <= modeDepth
     \/ "out" \in modes /\ depth < modeDepth

(* Faulty variant: only the mode that fired is consumed, so that one that  *)
(* a breakpoint overtook stays armed.                                      *)
PauseKeepsModes(s) ==
  /\ ShouldPause(s)
  /\ pauseReason' = IF Hits(s) THEN "breakpoint" ELSE "step"
  /\ modes' = IF Hits(s) THEN modes ELSE {}
  /\ at' = s
  /\ UNCHANGED <<breakpoints, modeDepth, depth, suppress, frames>>

(* BeforeStmt, when it pauses: every mode is consumed by the pause. *)
Pause(s) ==
  /\ ShouldPause(s)
  /\ pauseReason' = IF Hits(s) THEN "breakpoint" ELSE "step"
  /\ modes' = {}
  /\ at' = s
  /\ UNCHANGED <<breakpoints, modeDepth, depth, suppress, frames>>

(* ... and when it does not. *)
Pass(s) == ~ShouldPause(s) /\ UNCHANGED ctlVars

(* Continue, Step, Next and StepOut. *)
Arm(command) ==
  /\ modes' = IF command = "continue" THEN modes ELSE modes \cup {command}
  /\ modeDepth' = IF command \in {"next", "out"} THEN depth ELSE modeDepth
  /\ UNCHANGED <<breakpoints, depth, suppress, pauseReason, at, frames>>

Enter(tracked) ==
  /\ Len(frames) < MaxDepth
  /\ frames' = Append(frames, tracked)
  /\ depth' = IF tracked /\ ~suppress THEN depth + 1 ELSE depth
  /\ UNCHANGED <<breakpoints, modes, modeDepth, suppress, pauseReason, at>>

Leave ==
  /\ frames # <<>>
  /\ frames' = SubSeq(frames, 1, Len(frames) - 1)
  /\ depth' = IF frames[Len(frames)] /\ ~suppress /\ depth > 0 THEN depth - 1 ELSE depth
  /\ UNCHANGED <<breakpoints, modes, modeDepth, suppress, pauseReason, at>>

(* The places of the calls the controller should know of. *)
Tracked(calls) == {i \in DOMAIN calls : calls[i]}

=============================================================================
