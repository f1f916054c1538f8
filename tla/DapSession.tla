----------------------------- MODULE DapSession -----------------------------
(***************************************************************************)
(* One session of `nvs dap`: the protocol loop (Serve, handle) on one      *)
(* goroutine, the debuggee with the controller's hooks on another, and a   *)
(* client that may send any request at any time.                           *)
(*                                                                         *)
(* The two meet in onPause: the evaluator sets `paused`, reports the stop, *)
(* and blocks on the unbuffered resumeCh; a handler that has found         *)
(* `paused` set answers its request and only then sends on resumeCh.       *)
(* The launch request has been answered: programPath is set.               *)
(***************************************************************************)
EXTENDS Controller

CONSTANTS
  MaxSteps,     \* bound: statements and calls the program executes
  MaxRequests   \* bound: requests the client sends

ASSUME DapAssumption == MaxSteps \in Nat /\ MaxRequests \in Nat

VARIABLES
  ev,        \* the evaluating goroutine: runProgram, Run, BeforeStmt, onPause
  action,    \* the resume action onPause has received
  paused,    \* Adapter.paused
  started,   \* Adapter.started
  pending,   \* Adapter.pending[programPath]
  loop,      \* the protocol loop
  sending,   \* what a handler sends on resumeCh
  req,       \* the lines of the setBreakpoints request being handled
  asked,     \* history: the command of the last resume, the depths at that time
  stops,     \* history: "stopped" events sent
  resumes,   \* history: stops answered: resume requests, and disconnect, that
             \* found the program paused
  hasty,     \* history: the client resumed, evaluated or disconnected
             \* although it had seen no stop that it had not answered
  wanted,    \* history: the lines of the last setBreakpoints
  due,       \* history: ... which by now ought to be in force
  steps, requests   \* what is left of the two bounds

evVars == <<ev, action, asked, steps>>
loopVars == <<loop, sending, req, started, requests>>
clientVars == <<stops, resumes, hasty, wanted, due>>
vars == <<ctlVars, evVars, loopVars, clientVars, paused, pending>>

Commands == {"continue", "step", "next", "out"}
InPause == {"apply", "flag", "report", "parked"}

(* The client has been told of a stop and has not yet resumed from it. *)
SeesStop == stops > resumes

Init ==
  /\ ControllerInit
  /\ ev = "unborn" /\ action = "none" /\ steps = MaxSteps
  /\ asked = [command |-> "none", depth |-> 0, calls |-> 0]
  /\ paused = FALSE /\ started = FALSE /\ pending = {}
  /\ loop = "read" /\ sending = "none" /\ req = {} /\ requests = MaxRequests
  /\ stops = 0 /\ resumes = 0 /\ hasty = FALSE /\ wanted = {} /\ due = FALSE

-----------------------------------------------------------------------------
(* runProgram: the file cannot be read or parsed ... *)
StartFails ==
  /\ ev = "unborn" /\ started
  /\ ev' = "done"
  /\ UNCHANGED <<ctlVars, loopVars, clientVars, action, asked, steps, paused, pending>>

(* ... or preRun arms the breakpoints requested so far, under bpMu (which  *)
(* a setBreakpoints handler holds while it applies its own).               *)
PreRun ==
  /\ ev = "unborn" /\ started /\ loop # "apply"
  /\ ev' = "run"
  /\ breakpoints' = breakpoints \cup pending
  /\ pending' = {}
  /\ UNCHANGED <<modes, modeDepth, depth, suppress, pauseReason, at, frames,
                 loopVars, clientVars, action, asked, steps, paused>>

Statement(s) ==
  /\ ev = "run" /\ steps > 0
  /\ steps' = steps - 1
  /\ \/ Pause(s) /\ ev' = "apply"
     \/ Pass(s) /\ UNCHANGED ev
  /\ UNCHANGED <<loopVars, clientVars, action, asked, paused, pending>>

Call(tracked) ==
  /\ ev = "run" /\ steps > 0
  /\ steps' = steps - 1
  /\ Enter(tracked)
  /\ UNCHANGED <<loopVars, clientVars, ev, action, asked, paused, pending>>

Return ==
  /\ ev = "run"
  /\ Leave
  /\ UNCHANGED <<loopVars, clientVars, evVars, paused, pending>>

(* The program is over: "terminated" is sent and progDone closed. *)
Finish ==
  /\ ev = "run" /\ frames = <<>>
  /\ ev' = "done"
  /\ UNCHANGED <<ctlVars, loopVars, clientVars, action, asked, steps, paused, pending>>

-----------------------------------------------------------------------------
(* onPause: what was requested while the program ran is armed, if the      *)
(* pause is in the launched file ...                                       *)
ApplyPending ==
  /\ ev = "apply" /\ loop # "apply"
  /\ ev' = "flag"
  /\ IF at = Foreign
     THEN UNCHANGED <<breakpoints, pending, due>>
     ELSE /\ breakpoints' = breakpoints \cup pending
          /\ pending' = {}
          /\ due' = TRUE
  /\ UNCHANGED <<modes, modeDepth, depth, suppress, pauseReason, at, frames, loopVars,
                 stops, resumes, hasty, wanted, action, asked, steps, paused>>

(* Faulty variant: the stop is reported before the flag is set. *)
RaiseFlagLate ==
  /\ ev = "flag"
  /\ ev' = "report"
  /\ stops' = stops + 1
  /\ UNCHANGED <<ctlVars, loopVars, resumes, hasty, wanted, due, action, asked, steps,
                 paused, pending>>

(* ... then the flag is set ... *)
RaiseFlag ==
  /\ ev = "flag"
  /\ ev' = "report"
  /\ paused' = TRUE
  /\ UNCHANGED <<ctlVars, loopVars, clientVars, action, asked, steps, pending>>

(* ... and the stop is reported. *)
Report ==
  /\ ev = "report"
  /\ ev' = "parked"
  /\ stops' = stops + 1
  /\ UNCHANGED <<ctlVars, loopVars, resumes, hasty, wanted, due, action, asked, steps,
                 paused, pending>>

(* The rendezvous on resumeCh.  After a terminate the handler goes on to   *)
(* wait for progDone.                                                      *)
TakeResume ==
  /\ ev = "parked" /\ loop = "send"
  /\ ev' = "resumed"
  /\ action' = sending
  /\ loop' = IF sending = "terminate" THEN "await" ELSE "read"
  /\ UNCHANGED <<ctlVars, clientVars, sending, req, started, requests, asked, steps,
                 paused, pending>>

(* Faulty variant: onPause's switch has no case for terminate. *)
ResumeIgnoresTerminate ==
  /\ ev = "resumed"
  /\ paused' = FALSE
  /\ Arm(IF action = "terminate" THEN "step" ELSE action)
  /\ asked' = [command |-> action, depth |-> depth, calls |-> Len(frames)]
  /\ ev' = "run"
  /\ UNCHANGED <<loopVars, clientVars, action, steps, pending>>

(* The flag is cleared and the mode armed; Terminate unwinds the program.  *)
Resume ==
  /\ ev = "resumed"
  /\ paused' = FALSE
  /\ IF action = "terminate"
     THEN /\ ev' = "done"
          /\ UNCHANGED <<ctlVars, asked>>
     ELSE /\ ev' = "run"
          /\ Arm(action)
          /\ asked' = [command |-> action, depth |-> depth, calls |-> Len(frames)]
  /\ UNCHANGED <<loopVars, clientVars, action, steps, pending>>

-----------------------------------------------------------------------------
(* A request the loop takes up; a handler that refuses it ("not paused")   *)
(* changes nothing and is not modelled.                                    *)
Request ==
  /\ loop = "read" /\ requests > 0
  /\ requests' = requests - 1

(* Faulty variant: always left for the next pause. *)
SetBreakpointsLater(ls) ==
  /\ Request
  /\ wanted' = ls
  /\ due' = (~started \/ SeesStop)
  /\ pending' = ls
  /\ UNCHANGED <<ctlVars, evVars, stops, resumes, hasty, paused, started, sending, loop, req>>

(* setBreakpoints of the launched file: the lines become pending, and are  *)
(* armed at once if `paused` says that the evaluator is parked.  Lines set *)
(* before the program starts, or while the client sees it stopped, are due *)
(* at once; others when a pause has picked them up.                        *)
SetBreakpoints(ls) ==
  /\ Request
  /\ wanted' = ls
  /\ due' = (~started \/ SeesStop)
  /\ pending' = ls
  /\ IF started /\ paused
     THEN loop' = "apply" /\ req' = ls
     ELSE UNCHANGED <<loop, req>>
  /\ UNCHANGED <<ctlVars, evVars, stops, resumes, hasty, paused, started, sending>>

ApplyDirectly ==
  /\ loop = "apply"
  /\ loop' = "read"
  /\ breakpoints' = breakpoints \cup req
  /\ pending' = {}
  /\ UNCHANGED <<modes, modeDepth, depth, suppress, pauseReason, at, frames, evVars,
                 clientVars, sending, req, started, requests, paused>>

(* Controller.breakpoints is a Go map: BeforeStmt reading it while the     *)
(* handler writes may end the process.                                     *)
MapFault ==
  /\ loop = "apply" /\ ev = "run"
  /\ loop' = "ended"
  /\ UNCHANGED <<ctlVars, evVars, clientVars, sending, req, started, requests, paused, pending>>

ConfigurationDone ==
  /\ Request
  /\ ~started /\ started' = TRUE
  /\ UNCHANGED <<ctlVars, evVars, clientVars, loop, sending, req, paused, pending>>

(* continue, next, stepIn, stepOut: answered, then sent. *)
ResumeRequest(command) ==
  /\ Request
  /\ paused
  /\ resumes' = resumes + 1
  /\ hasty' = (hasty \/ ~SeesStop)
  /\ loop' = "send" /\ sending' = command
  /\ UNCHANGED <<ctlVars, evVars, stops, wanted, due, req, started, paused, pending>>

(* evaluate: the loop's goroutine runs the expression, hooks suppressed. *)
Evaluate ==
  /\ Request
  /\ paused
  /\ hasty' = (hasty \/ ~SeesStop)
  /\ loop' = "evaluate" /\ suppress' = TRUE
  /\ UNCHANGED <<breakpoints, modes, modeDepth, depth, pauseReason, at, frames, evVars,
                 stops, resumes, wanted, due, sending, req, started, paused, pending>>

(* Faulty variant: the flag is reset only if the expression succeeds. *)
EvaluateFails ==
  /\ loop = "evaluate"
  /\ loop' = "read"
  /\ UNCHANGED <<ctlVars, evVars, clientVars, sending, req, started, requests, paused, pending>>

Evaluated ==
  /\ loop = "evaluate"
  /\ loop' = "read" /\ suppress' = FALSE
  /\ UNCHANGED <<breakpoints, modes, modeDepth, depth, pauseReason, at, frames, evVars,
                 clientVars, sending, req, started, requests, paused, pending>>

(* disconnect: a program the adapter takes to be paused is unwound first. *)
Disconnect ==
  /\ Request
  /\ IF paused
     THEN /\ loop' = "send" /\ sending' = "terminate"
          /\ resumes' = resumes + 1
          /\ hasty' = (hasty \/ ~SeesStop)
     ELSE loop' = "ended" /\ UNCHANGED <<sending, resumes, hasty>>
  /\ UNCHANGED <<ctlVars, evVars, stops, wanted, due, req, started, paused, pending>>

ProgramDone ==
  /\ loop = "await" /\ ev = "done"
  /\ loop' = "ended"
  /\ UNCHANGED <<ctlVars, evVars, clientVars, sending, req, started, requests, paused, pending>>

-----------------------------------------------------------------------------
(* The process, and the evaluator with it, ends when Serve returns. *)
Evaluator ==
  /\ loop # "ended"
  /\ \/ StartFails \/ PreRun \/ Return \/ Finish
     \/ \E s \in Statements : Statement(s)
     \/ \E tracked \in BOOLEAN : Call(tracked)
     \/ ApplyPending \/ RaiseFlag \/ Report \/ TakeResume \/ Resume

Handler == ApplyDirectly \/ Evaluated \/ ProgramDone

Client ==
  \/ \E ls \in SUBSET Lines : SetBreakpoints(ls)
  \/ \E command \in Commands : ResumeRequest(command)
  \/ ConfigurationDone \/ Evaluate \/ Disconnect

Next == Evaluator \/ Handler \/ MapFault \/ Client

(* Both goroutines run; the client need not send anything. *)
Fairness == WF_vars(Evaluator) /\ WF_vars(Handler)

Spec == Init /\ [][Next]_vars /\ Fairness

-----------------------------------------------------------------------------
(* Every variable holds a value the program can give it. *)
TypeOK ==
  /\ breakpoints \subseteq Lines /\ pending \subseteq Lines /\ req \subseteq Lines
  /\ modes \subseteq {"step", "next", "out"}
  /\ depth \in 0..MaxSteps /\ modeDepth \in 0..MaxSteps
  /\ suppress \in BOOLEAN /\ paused \in BOOLEAN /\ started \in BOOLEAN
  /\ pauseReason \in {"none", "breakpoint", "step"} /\ at \in Statements
  /\ frames \in Seq(BOOLEAN) /\ Len(frames) <= MaxDepth
  /\ ev \in {"unborn", "run", "resumed", "done"} \cup InPause
  /\ loop \in {"read", "apply", "evaluate", "send", "await", "ended"}
  /\ action \in Commands \cup {"none", "terminate"}
  /\ sending \in Commands \cup {"none", "terminate"}
  /\ asked \in [command : Commands \cup {"none", "terminate"},
                depth : 0..MaxSteps, calls : 0..MaxDepth]
  /\ stops \in 0..MaxSteps /\ resumes \in 0..MaxRequests
  /\ steps \in 0..MaxSteps /\ requests \in 0..MaxRequests
  /\ hasty \in BOOLEAN /\ wanted \subseteq Lines /\ due \in BOOLEAN

(* The last resume command asks for a stop at the current depth of calls.  *)
Commanded ==
  \/ asked.command = "step"
  \/ asked.command = "next" /\ depth <= asked.depth
  \/ asked.command = "out" /\ depth < asked.depth

(* A pause that no breakpoint caused is one the last command asked for: no *)
(* mode armed earlier is left over when the client continues.              *)
StopMatchesCommand == ev \in InPause /\ pauseReason = "step" => Commanded

(* Conversely, for a client that resumes, evaluates and disconnects only   *)
(* at stops it has seen, no stop is missed: a statement that has a         *)
(* breakpoint in force, or that the last command asks to stop at, pauses.  *)
(* What was evaluated at earlier stops has left nothing suppressed, and no *)
(* command has lost its mode.                                              *)
NoStopIsMissed ==
  [][\A s \in Statements :
       Statement(s) /\ ~hasty /\ (Commanded \/ (due /\ s \in wanted)) => ev' = "apply"]_vars

(* While the client sees a stop, the evaluator is parked and a resume      *)
(* request is accepted: the flag is never behind the event.                *)
StopIsAnswerable == SeesStop => paused /\ ev = "parked"

(* For a client that resumes, evaluates and disconnects only at stops it   *)
(* has seen, the controller's depth is that of the program, whatever was   *)
(* evaluated in between.                                                   *)
DepthIsReal == ~hasty => depth = Cardinality(Tracked(frames))

(* Breakpoints the client was told of as verified, before the start or at  *)
(* a stop it saw, or that a pause has picked up, are armed while the       *)
(* program runs.                                                           *)
BreakpointsInForce == due /\ ev = "run" => wanted \subseteq breakpoints

(* For such a client the loop always comes back to read its next request,  *)
(* or the session ends.                                                    *)
Responsive ==
  (loop \in {"apply", "evaluate", "send", "await"} /\ ~hasty)
    ~> loop \in {"read", "ended"}

-----------------------------------------------------------------------------
(* setBreakpoints, about the breakpoints it arms itself: "we are already   *)
(* paused, so apply directly - the evaluator is parked and cannot race us".*)
EvaluatorIsParked == loop = "apply" => ev # "run"

(* The package's scope: "disconnect while the program is running ends the  *)
(* adapter process".                                                       *)
DisconnectEnds == (loop = "send" /\ sending = "terminate") ~> loop = "ended"

(* Next "pauses at the next statement at the current call depth or above   *)
(* (steps over calls)": the statement it stops at is in no deeper call.    *)
NextStepsOver ==
  ev \in InPause /\ pauseReason = "step" /\ asked.command = "next" =>
    Len(frames) <= asked.calls

=============================================================================
