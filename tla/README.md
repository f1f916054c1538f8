# NvS: a TLA+ verification project

This directory holds TLA+ modules for the NvS language implementation, the TLC
configurations that check them on small instances, and proofs that TLAPS checks
for every value of the constants. Paths below are those of the repository
without its leading directory (`internal/eval/eval.go`, ...). `PROJECT.json`
lists the runs, the mutants, the lines each definition stands for, the hazards
and the findings.

    tlc -workers 2 -config MCChannel.cfg MCChannel    # a run: 2 workers, one cfg
    tlapm ChannelProofs.tla                           # the proofs of a module

## 1. The system

NvS is a scripting language. The implementation that works is the Go program:
`cmd/nvs` (the command line), `internal/lexer`, `parser`, `ast`, `object`
(values, environments, channels, task handles), `eval` (a tree-walking
evaluator and its builtins), `bridge` (one long-lived interpreter session for
other programs), `debug` and `dap` (two debuggers over one stepping engine),
`pkg` (the package manager), `bytecode` (a second back end), and tools around
them. The Rust sources, `std/*.ns` and `nasi-core` are an earlier attempt and
not part of the pipeline.

The program is concurrent where one does not expect it of an interpreter: a
spawned task is a goroutine of its own, not a coroutine, and it evaluates NvS
code at the same time as its parent, over the same environments.

| Component | State | Operations | Meets others through | What is hard |
|---|---|---|---|---|
| Channels (`object.Channel`, builtins in `eval/concurrency.go`) | capacity, closed flag, mutex, a Go channel | send, try_send, recv, try_recv, close | tasks call them; the Go channel parks and wakes them | check of the flag and use of the Go channel are two steps; close wakes parked senders with a panic |
| Tasks (`eval/concurrency.go`, `object.Task`) | id counter, registry under `spawnedMu`, result and done channel of each task | spawn, join, pmap, drain | `nvs run`, the profiler and the bridge drain before they answer | tasks spawn tasks while the drain waits; errors abandon half a pmap |
| Environments (`object.Environment`) | values, constants, declared types, yield sink and a lock per scope | Get, Set, AssignStrict, SetConst, DeclareType | closures share them between tasks | a statement reads, computes and assigns in separate steps |
| Stepping engine (`debug/controller.go`) | breakpoints, one-shot modes, depth, suppression | BeforeStmt, EnterCall, LeaveCall, Continue/Step/Next/StepOut, evaluation while paused | hooks called by the evaluator; commands from a debugger | modes that a breakpoint overtakes; calls it is not told of |
| Debug adapter (`dap/dap.go`) | paused, started, pending breakpoints, resumeCh, progDone | requests; onPause | two goroutines and a client | the flag is cleared by one goroutine and trusted by the other |
| Terminal debugger (`debug/debug.go`) | current source | commands | the same engine, inside OnPause | little: it is sequential |
| Evaluator (`eval/eval.go`, `eval/wave5_types.go`) | environments, defer lists, yield sinks, the set of loaded modules, frozen flags, shared slices | statements, calls, patterns, try/catch/finally, defer, generators, imports, annotations, builtins | everything | lists and sinks looked up through scopes, errors that are values, aliases, modules marked loaded before they are |
| Bridge (`bridge/bridge.go`, `cbridge`, `polyglot/jsonconv.go`) | one session, its mutex | eval, exec, call | hosts in other languages, JSON both ways; drains tasks | the mutex is held across evaluation and drain, and not while the answer is rendered |
| Package manager (`pkg`) | cache directories, `nvs.lock` | install, install from lock, remove, resolve | the evaluator's imports | recursion, failures and kills between cache and lock; several versions |
| Bytecode compiler and VM (`bytecode`) | constants, globals, loops with jumps to patch; stack, instruction pointer | compile, run | `nvs bc`, in the place of the evaluator | jump patching, 16-bit operands, the same answers as the evaluator |
| Corrections (`polyglot/corrections.go`) | a JSON file and its copy in memory | add, apply, load, save | processes share the file | load-change-save |
| Observables (`reactive/observable.go`) | value, observers | Set, Subscribe, Computed | goroutines per notification | order of notifications |
| Lexer and parser (`lexer`, `parser`, `ast`) | the position, two tokens, errors, pending `>` | parse a text | every tool | precedences, lookahead that gives up, recovery that leaves nil nodes |
| Static checker (`checker/checker.go`) | scopes, classes, interfaces, functions, the results wanted | check a tree | the language server, `nvs check` | its idea of assignability against the run's |
| Language server (`lsp`) | documents | open, change, publish | the parser and the checker | a panic between storing a text and publishing its diagnostics |
| Transpilers, formatter, tools, libraries | none that outlives a call | text in, text out | - | inputs, not states |

What makes each part correct, in the order in which it matters:

- Channels: no message is lost, delivered twice, overtaken by a later one of
  its sender, or both reported as refused and delivered; nobody stays parked
  beside something to take, a free slot or a closed channel; the end of the
  channel is the end.
- Tasks: when a drain has returned, nothing runs; a join returns the one result
  of its task; ids are unique; a drain returns, and nothing deadlocks, when the joins form
  no cycle.
- Stepping engine and adapter: a stop is one the user asked for; a stop the
  client was told of can be answered; breakpoints that were confirmed are in
  force; the loop always comes back to the client.
- Package manager: what a completed install locked can be imported, the lock
  has an entry for every dependency, no failure of another command changes
  that, and cyclic dependencies end in an error.
- Environments: an update is not lost, a constant keeps its value, a typed
  name keeps its type, whoever assigns from whatever scope.
- Evaluator: what was deferred runs once, last in first out; `finally` runs on
  every way out; a module is evaluated once and wholly, or its import failed;
  what is frozen stays; no error is kept as a value; yields and pattern names
  stay where they belong.
- Bridge: an argument handed back is the JSON that came in.
- Lexer, parser, checker, language server: a program that is written down reads
  back as the same tree; a broken one is reported; one without diagnostics has
  no type error when it runs.
- Bytecode: a program ends as the evaluator ends it, and its code never makes the
  machine panic, whatever its values are.

The 40 hazards in `PROJECT.json` are these behaviours at the lines where they
bite, with the property that covers each one, or the reason why none does.

## 2. The modules

    MessageLog    <== Channel       <- ChannelProofs                        MCChannel
    Futures       <== Tasks         <- TasksProofs                          MCTasks
                      SharedBindings <- BindingsProofs                      MCSharedBindings
    Controller    <-  DapSession    <- DapProofs                            MCDapSession
    PackageStore  <== Packages      <- PackagesProofs                       MCPackages
    Store                           <- StoreProofs
    Store, Ast    <-  Environments  <- EnvironmentProofs (and StoreProofs)
    Environments  <-  Objects       <- Evaluator <- Session, JsonValues     MCSession
    Opcode, Store <-  Machine       <- MachineProofs
    Ast <- Lexer <- Parser          <-
           Checker, Bytecode        <- Toolchain (and Evaluator, Machine)   MCToolchain
    Programs (programs to run and requests to make), Written (trees as text)

`A <- B`: B extends A. `A <== B`: B implements the abstract specification A.

A definition called a *faulty variant* or a *slip* in its comment is not part
of any specification: it is the mutated form with which a property is shown to
be able to fail.

### Channel, MessageLog

One channel and any number of clients. A Go channel is not code of the
repository: it is modelled from its use, as a buffer and two queues of parked
goroutines (`buf`, `sendq`, `recvq`, `goClosed`); `closed` and `mu` are fields
of `object.Channel`. A step ends where another goroutine can get in:
`CheckOpen` is the `IsClosed` check of send and try_send; `Attempt` is what
follows, one action for each way a Go send or its select ends (on a closed
channel the panic that the builtin recovers, a waiting receiver, the buffer,
parking, the default branch); `Receive` are the ways recv and try_recv end;
`CloseFlag` and `CloseGo` are the two halves of Close, the mutex held between
them. What a message carries is left out, and with it `deepCopyMessage`, which
copies arrays, hashes, tuples and records and shares functions, instances and handles:
a message is known by its sender and the number of its offer. A parked send is its
message in `sendq`, and its client is woken when the message is taken. How the Go
runtime keeps its queues is taken as given; the mutants are slips of this
repository's code (a Close that only sets the flag, a send that leaves its message
to a goroutine, a TrySend without a default branch).
`accepted`, `received` and `refused` are histories.

`MessageLog` is the promise without the mechanism: a log of accepted messages
with a received prefix, refused messages, a seal. `ImplementsLog` says that
every step of Channel is one of its steps or none.

### Tasks

`Main` and the tasks, each with a program counter; what a program does next is
its own choice. spawn is three steps (`SpawnId`, the atomic counter;
`SpawnRegister`, under the mutex; `SpawnGo`), because the drain, or another
spawn, may run between any two. `Finish` and `CloseDone` are the two halves of
`Task.Finish`. pmap spawns element by element through the same steps, then
collects in element order and returns at the first error. The drain is a loop:
`DrainLock`, `DrainVisit` in any order of the map, then `DrainReset` if all
were done, or `DrainUnlock` and `DrainWait` and round again. `NextRequest` is
the bridge, which goes on after a drain.

Left out: task_status (a read), task_yield (a hint to the scheduler), pmap of
an empty array (no step), and the exit of `nvs run` on a program error, which
happens before the drain and abandons every task.

`Futures` is the runtime as a program sees it, in atomic steps: a task starts,
ends once with a result, and a join answers that result; a pmap starts its
tasks, and is answered for them in the order of the elements; between a drain's
return and the next request nothing starts or ends. `ImplementsFutures` maps a
task to "running" from the go statement to the closing of its done channel, and
an unfinished result to none.

### SharedBindings

The statement `x = x + 1` in two tasks: Get and AssignStrict walk the scopes
frame by frame, each under its own lock. This is the module of a finding.
Constants and declared types are in `Environments`, for sequential programs.

### Controller, DapSession

`Controller` is the engine: `Pause` and `Pass` are BeforeStmt, `Enter` and
`Leave` the call hooks, `Arm` the four commands. `frames` is the program's real
call stack with a flag for the calls that go through `applyFunction`, the only
ones the engine is told of.

`DapSession` extends it with the adapter. The evaluating goroutine runs
`Evaluator`; inside onPause it goes through `ApplyPending`, `RaiseFlag`,
`Report`, `TakeResume` and `Resume`, the stretches between which the protocol
loop can run. The loop takes one request at a time (`Client`), and a handler
that does not answer at once is finished by `Handler` or by the rendezvous
`TakeResume`. `MapFault` is Go's reaction to a map that is read and written at
once. `stops`, `resumes`, `hasty`, `wanted`, `due` and `asked` are histories:
what a client has seen, and what it was told.

Left out: launch and initialize (taken as answered), the requests that only
read, refusals ("not paused"), framing and the seq numbers on the wire, and
several evaluating goroutines under one controller.

### Packages

The cache (`cache`, a directory or none for every name@version-commit), the
lock file, and one command at a time. install is the recursion of installOne
and installTree with an explicit `stack`: `Fetch` (clone or stat, manifest, tag,
cycle check, is the directory there), `Copy`, `Record`, one `Dependency` at a
time in any order, `Return`, and at the very end `Merge`. `Replay`,
`NextEntry` and `Replayed` are InstallFromLock; `Remove`, `RemoveDirs` and
`Unlock` are remove. Any command may fail where the code returns an error, or be
killed: a directory in the middle of a copy or a delete keeps any part of its
files, a lock being written is left truncated. The cache may be emptied, the
lock deleted, and new revisions appear upstream at any time. `Resolve` is the
set of directories `import` may choose (commits of one version are ordered by
hash, so any order). `torn` and `vouched` are histories: which names a killed
command was at work on, and which entries a completed command installed.

Tags are revision numbers; a tag that names no revision, or one whose version
differs, is one of the failures. Left out: init, publish and list, the metadata
file that only list reads, two projects over one cache, two commands at once
(`docs/PACKAGES.md` excludes it), and packages vendored inside another one's
tree. A source's name is the same in all its revisions.

`PackageStore` is what a project relies on: a lock, the names that can be
imported as locked, and those a killed command was at work on. An install is one
step, whose entries are closed under dependencies; a failed command is none. The
only steps that take a name away are its removal, a kill while its directories
are being filled or deleted, and the loss of the files. `ImplementsStore` maps
the names for which `Importable` holds (through the model of the resolver) to
the abstract ones.

### Ast, Store, Environments, Objects, Evaluator

The interpreter as a pure function: `Eval(n, e, s)` evaluates node `n` in scope
`e` of the store `s` and answers a value and the store it leaves. There is one
operator per Go function, under its name, so the two can be read side by side;
`Ast` has the node types. Every recursion goes through `Eval` (a call is a node,
`InvokeNode`), which keeps TLC's expansion finite.

`Store` has what writes to arrays and hashes: the heap, the assignments to
elements and members, slicing, and the builtins that change what they are given.
`Environments` has the scopes: what looks a name, a declared type or a yield sink
up through them, and what binds and assigns. Both are free of RECURSIVE
operators, so that their promises can be proved: the walk from scope to scope
(`Outwards`, one recursive function for Get, Assign, LookupDeclaredType and
NearestYieldSink) ends at the nearest scope in a set.

The store is what Go's heap is to the interpreter: `frames` (scopes with values,
constants, declared types, a sink, a captured outer scope), `heap` and `mem`
(arrays are slices of backing arrays with an offset, a length and spare
capacity, so that aliases and `append` in place are real), `sinks`, `out` (the
lines printed), `loaded`, `rev` (the order in which Go ranges over its maps this
time) and `null` (whether the build gives each `&object.Null{}` one address,
which Go leaves open for zero-size objects). `defers`, `ran` and `failed` are
histories. `MaxDepth` bounds the calls that fit on the stack; one more is a
`Panic`, as is every dereference of nil and every unchecked type assertion.

What the code does and a reader may not expect, all of it in the model: there
are no block scopes at run time; a `let` in the same scope replaces a constant;
assertions in `slice`, `take`, `drop`, `chunk` and `clamp` are unchecked and
panic; an empty block answers Go's nil, which `print` cannot print; methods
neither run deferred calls nor collect yields; deferred calls at the top level
never run; a generator whose body throws after a yield forgets the error; `let x
= if (c) { return 1 }` stores a wrapper of the return; a break that is a
function's last result reaches the caller's loop; `push` onto a slice overwrites
its parent's elements, `take` and `drop` of a frozen array are not frozen, and
`freeze` leaves earlier slices of the same storage writable; a deep copy of a
frozen hash has arrays that are not frozen; an import inside a function binds
its names there only, and a module that failed half way stays marked.

Left out: the prelude, floats, bit operators, generics (erased at run time), the
builtins that are pure functions of strings and numbers, string indexing and
ordering, sort_by, set_to_array, invert and map_fn, `==` on functions and sort
of anything but integers, and tasks and channels (modules of their own). Classes
and records have an identity of their own, since a declaration that is evaluated
again makes another one; functions have none, and no request compares two.

### Session, JsonValues

A persistent session: hosts (`Ask`) send source to evaluate or execute, or the
name of a function with JSON arguments; the session's mutex makes the evaluation
one step; the answer is rendered in a step of its own (`Answer`), because
`nvs_eval` and `nvs_call` release the mutex before they build the envelope. A
panic ends the process (`alive`). JSON is converted both ways as in
`jsonconv.go`, fresh booleans and nulls included, which is why a JSON `false` is
true in an `if` (the evaluator compares addresses). `Programs` has the requests,
in topics: a session draws from one.

### Lexer, Parser, Written

`Lexer` reads glyphs: characters, the newline among them, and marks of two or
three characters where the lexer would join them. `Parser` has one operator per
Go function; a parser is a record (tokens, position, errors, pending `>`s, a
panic), and each operator answers a node and the parser it leaves. Errors,
recovery, lookahead probes (bounded as in the code) and the nil and typed-nil
nodes are those of the code. `Written` is not code of the repository: it writes
a tree down, with parentheses only where needed, so that texts can be made and
read back.

Left out: columns, hexadecimal and binary numerals, tabs, letters glued behind a
numeral, the `String` methods of nodes. In the model and worth knowing: a
labelled statement that fails to parse makes the parser panic on a nil pointer
inside an interface; pending `>`s survive into the next statement after `let x:
A<B>> = 1`; the empty post clause of a `for` is always an error; unterminated
strings and comments and a missing `}` at the end of the text are accepted;
`if (c) {} (x)` is a call; `-1..3` is `-(1..3)`.

### Checker

Both passes of the checker over `Ast`. An error is the place it is about. `apart`
is a history of where the checker sees less than the run, so that `CheckerAgrees`
speaks of the rest: places of type any or number (`int / int` is number), `let`s
and methods whose types it forgets, field and parameter defaults, catch and
pattern variables, enum names in annotations (accepted, unknown at run time),
types used before they are declared, redeclared classes (their methods merge),
blocks (scopes for the checker, none at run time). Cyclic `extends` makes
`instanceOf` loop for ever; no program here has one. Left out: generics,
function type annotations, parameter types of interfaces, warnings, the cache of
resolved calls.

### Opcode, Bytecode, Machine, Toolchain

`Opcode` has the instructions as bytes. `Compile` is the compiler: jumps are
emitted with a hole and patched, operands are cut to 16 bits. `Run` is one
instruction of the machine. `Machine` is free of RECURSIVE operators, so that it
can be proved about: how values are printed is a parameter, and so, since a value
with the representation of another is equal to it, is a part of `==`; `Toolchain`
instantiates it with its own state. The second half of `Machine` is no code of the
repository but a bytecode verifier: a set of pairs of an address and a depth is
`Verified` if each of them is an instruction whose operands are there, and the
pairs that can follow it are in the set again. `apart` is a history of where the machine is documented or known to answer
differently: 0 and `""` are false, constants can be assigned again, an unset
global reads as nil, null and arrays print in Go's way, `1 == "1"`, `if` as a
value (which underflows the stack), and a `for` without condition. At floats
and at the order of strings the model stops following the machine (`left`).

`Toolchain` is one document: a user types lines and may lose glyphs; the language
server parses and checks every change (`DidChange`; a parser panic is recovered
from and leaves `shown` as it was); `nvs run` walks the tree (`Walk`); `nvs bc`
compiles it (`RunBytecode`) and the machine steps (`VMStep`).

## 3. What the runs show

| Run | States | Question | Bounds |
|---|---|---|---|
| `channel` | 82,996 | Does the channel keep MessageLog's promises, answer truthfully, wake everyone it must? | 3 clients (one offers two messages, one one, one none), capacity 0, 1, 2; any number of receives and closes |
| `tasks` | 148,876 | Does the drain leave nothing behind, are joins and results right, does the drain return, what can deadlock? | 3 tasks and Main; pmap of 1 or 2 elements |
| `dap_session` | 273,056 | Are stops justified and answerable, breakpoints in force, the depth right, the loop responsive? | 2 lines and an imported file, calls 2 deep, 4 steps, 4 requests |
| `packages` | 126,077 | Does a completed install stay importable, is the lock closed, do commands end? | 3 sources of 2 packages, 2 revisions each; 3 commands, 1 kill |
| `session` | 90,964 | Do types, constants, frozen values, deferred calls, imports, generators, finally, patterns, errors and JSON keep their promises across requests? | 10 topics, 4 requests of one topic in any order, 2 hosts (at once in two topics), 6 nested calls |
| `toolchain` | 10,226 | Do texts read back as they were written, is what is broken reported, does the code pass a verifier, do the checker and the machine agree with the evaluator? | 4 pools: each of the programs' statements alone, and with a glyph or a tail lost; 12 statements for the machine, 2 lines; 12 lines of types, 3 lines |
| `defer_reentry` | - | finding | 1 topic, 3 requests |
| `shared_bindings` | - | finding | 2 tasks |
| `dap_parked`, `dap_disconnect`, `dap_step_over` | - | findings | 1 line, 3 steps, 4 requests |
| `pkg_lock_pin` | - | finding | as `packages`, no kill |

Why the bounds are enough for the cases that matter. `channel`: two parked
senders behind a full buffer, with a receiver or a closer beside them, need
three clients; overtaking needs one sender with two messages; capacity 0 has no
buffer, 1 is full after one message, 2 has the half-full state. `tasks`: a task
that spawns a task while the drain waits, and a pmap that fails at its first
element with the second still running, need two or three. `dap_session`: a
stop, a resume that races another request, and a second stop fit in four
requests; two breakpoints tell "some" from "all"; depth two tells "one call too
many" from "none". `packages`: lib's second revision depends on app, so the
cycle is indirect; dev is a local build of lib's first version, so two
directories compete for one version; an install, the loss of the cache and a
replay, or a kill and two installs over what it left, are three commands.
`session`: a topic has six to a dozen requests that build on each other (a
declaration, a closure over it, an attempt to break it, a look at it), so a
promise is given, attacked and observed in three or four; the topics share
nothing, and the two in which answers alias structures have two hosts at once.
Recursion deeper than six calls does nothing new. `toolchain`: precedence and
recovery are about single statements; a jump that is patched wrongly shows in a
loop after a statement that sets its variable; the checker needs a declaration,
a second one and a use.
(The same properties of `packages` also hold with four commands and two kills, 1,358,391
states, which takes too long for a routine run.)

### Properties

*channel.* `NoLostWakeup`: a client is parked exactly when its builtin must
block, and nobody is once a close has returned. `HonestReplies`: a message reported as sent is in the channel or was
received; a message reported as refused never will be; the race of close with a
send past its check is where these could part. `EndMeansDrained`: recv's null
is said only when everything accepted was received, for good. `SenderOrder`:
one sender's messages arrive in the order they were sent, since a send that finds
the buffer full keeps its task from sending the next. `ImplementsLog`, above. `CloseReleases`:
whoever is inside a builtin when the flag is set gets an answer.

*tasks.* `DrainComplete`, `UniqueTasks`, `ResultsAreFinal`,
`ImplementsFutures`, above. `NeverStuck`: as long as no process joins a task at
least as old as itself (`OrderlyJoins`), one that has not ended can go on, or
waits for a younger one that can, or for the mutex while the drain that holds it
can go on. `DrainReturns`: under the same condition, a drain returns. Self-joins
and join cycles do hang it, as in the code.

*dap_session.* `StopMatchesCommand`: no mode is left armed by a pause that
overtook it. `StopIsAnswerable`: the flag is never behind the stopped event.
`DepthIsReal`: the depth is the number of calls in progress that the engine was
told of, evaluations at a stop or not. `BreakpointsInForce`: lines confirmed before
the start or at a stop the client saw, or picked up by a pause, are armed while the
program runs; lines that arrive after onPause has looked at `pending` wait for the
next pause, as those sent to a running program do; the client cannot tell, and the
property does not call them due before.
`NoStopIsMissed`, an
action property, is the converse of the first: no statement with a breakpoint in
force, or at which the last command asks to stop, is run past. `Responsive`.
`DepthIsReal`, `NoStopIsMissed` and `Responsive` are for clients that resume,
evaluate and disconnect only at stops they have seen: the findings are what
happens to the others.

*packages.* `LockedImports`: for every name a completed install or replay has
put in the lock, the directory is there with its commit and all its files, and
import finds a whole directory of that version, whatever failed or was killed
at work on other names since. `LockIsClosed`: an install that writes the lock
leaves an entry for each dependency of what it added. `NestingBounded`: the
calls of installTree in progress are at most as many as there are names.
`ImplementsStore`, above. `CommandsEnd`.

The type invariants of these four systems, and `RepliesHaveResults` of the
tasks, are not part of the runs: they are theorems (section 4), for every
instance.

*session.* `TypeOK`: the store is well formed between requests, no sink is left
open, slices lie within their storage. `DeclaredTypesHold`: whichever closure or
request assigns, a name declared with a type holds a value of it, until a class,
record or interface that the type names is declared again: a request that is
repeated makes a new class (`defs` numbers them, where Go compares addresses), and
what was made of the old one is not of the new one. `ConstKept`: the same for
constants, of every frame. `FrozenKept`: contents of a
frozen array or hash change in no step, unless an array that is not frozen
shares its storage. `NoErrorIsBound`: no error object in any name, container or
generator. `DeferredRunOnce`: after each request, each deferred call has run
exactly once and those of one call in reverse order. `ModulesSettled`,
`ModuleRunsOnce`: a loaded module's statements ran once and its names are there,
or an import of it reported an error. `YieldsStayHome`, `FinallyRuns`,
`PatternNamesStayLocal`: as their names say, over the whole session.
`EchoFaithful`: the two JSON conversions are inverse; it says nothing of a
rendering that meets a request half done, since requests are single steps here.

*toolchain.* `CodeIsVerified`: the code of a program, walked from its start
with the depth of the stack at each address, is `Verified` and comes to its ends
empty (`if` as a value is the known exception, in `apart`); this is about every
way the code could be run, not only the one its values take. No program of the run
is long enough for a target to be cut at 16 bits (compiler.go:335 and 342), and the
compiler does not check: what such code does is not looked at. `RoundTrip`: parsing what `Written` wrote gives the tree
back, without errors. `BrokenIsReported`: the tree of a text published without
parse errors has no hole. `CheckerAgrees`: no diagnostic, no type error at run
time. `MachineAgrees`: a running machine ends, with the output and the kind of
ending of `nvs run`.

### Findings

1. `shared_bindings`: `internal/eval/concurrency.go` says that tasks switch at
   yield points only and that a switch is visible nowhere else; two tasks lose
   an update in `x = x + 1`.
2. `dap_parked`: setBreakpoints after a continue finds the stale `paused` and
   writes the breakpoint map while the evaluator reads it.
3. `dap_disconnect`: a disconnect that finds the stale flag blocks on resumeCh
   for ever if the program does not pause again.
4. `dap_step_over`: next stops inside a method or a call with named arguments.
5. `pkg_lock_pin`: with a local build of the same version in the cache, import
   loads that build and not the commit the lock pins.
   Local builds are the only way to get past the lock
   (`OnlyLocalBuildsBeatTheLock`), as 2 needs a setBreakpoints between a resume and
   the next stop (`TimelyBreakpointsDoNotRace`) and 4 an untracked call
   (`TrackedCallsAreSteppedOver`).
6. `defer_reentry`: a deferred call of a closure made in the same function finds
   the list it is being run from, through its scope, and runs it again, without
   end.

### Fairness

*Channel:* weak fairness of `Attempt` and `CloseGo` for each client: Go runs a
goroutine that is not parked. Whether a program calls another builtin is its
own business, and no fairness is put on that. *Tasks:* weak fairness of the
drain and of what the runtime does once called; strong fairness of `Finish`,
that is, a task's program terminates (a program that loops makes the drain hang,
rightly). *DapSession:* weak fairness of the evaluator and of handlers; none of
the client. *Packages:* weak fairness of the steps a command takes by itself;
failures and kills need not happen. *Toolchain:* weak fairness of `VMStep`, the
loop of `VM.Run`; nobody has to type. *Session* claims no liveness. Deadlock
checking is off everywhere: every one of these systems may stop, by running out
of its bounds, because its clients stop asking, or because clients of a channel
all wait.

## 4. What is proved

For all values of the constants that satisfy the assumptions of the modules, each
of them evaluated by TLC in the runs:

| Assumption | It says |
|---|---|
| `ChannelAssumption` | capacities and numbers of messages are natural numbers; the two "none" values are no client and no message |
| `TasksAssumption` | both bounds are natural numbers |
| `ControllerAssumption` | calls nest to some finite depth; the line of an imported file is no line of the program |
| `DapAssumption` | both bounds are natural numbers |
| `PackagesAssumption` | local sources are sources; there is a revision; the bounds are natural numbers; a dependency names a package; None is none of the values it stands beside |

The stack depth, the steps of a program, the requests, commands and kills are
bounded in the models, so the theorems are about sessions of every finite length,
and not about one of the lengths a run can afford.

### ChannelProofs

`TypeCorrect`, `WakeupsAreNotLost`, `RepliesAreHonest`, `EndIsDrained`,
`SendersStayInOrder`, `ChannelImplementsLog`.

The inductive invariant `IInv` is TypeOK and seven parts. `Queues`: whoever is
queued is parked and queued once, a sender with the message it is offering; without
it a wake-up could leave a second entry, or wake a client for an older message. `ParkedForAReason`: senders park only behind a full buffer, receivers
before an empty one, never both, and nobody once a close has returned. `Closing`:
the Go channel is closed after the flag and, while only the flag is set, somebody
holds the mutex to do it. `Ledger`: `accepted` is `received` followed by
the buffer; this is what makes the log's receive the buffer's, and the end the
end. `Fates`: an offer still under way is in no log, and no message is accepted
and refused; it needs the bound of offers by their numbers. `Ordered`: offers
are accepted in order, which `Ledger` carries over to receipts. `Truthful`: what
the answers given so far say, which must survive later steps.

The lemma `StepCases` reduces a step to one of a dozen cases, each described by
what it does to the queues and logs (a message handed directly, buffered,
refilled, ...), so that each part of the invariant is proved once per case and
not once per builtin. `ChannelImplementsLog` maps the same cases to Accept,
Receive, HandOver, Refuse, Seal or a stutter.

### TasksProofs

`TypeCorrect`, `DrainIsComplete`, `TasksAreUnique`, `JoinsHaveResults`,
`ResultsFinal`, `OnlyJoinsDeadlock`, `TasksImplementFutures`.

`DrainComplete` is not inductive: a drain returns because its scan found
nothing pending, so `Scanning` says what the scan has seen so far (a registered
task it has passed is pending or done, and it holds the mutex, so nothing
registers meanwhile), and `Registered` that every task alive, and every one
about to be, is in the registry. That in turn needs `Spawning` (a task being
spawned does not run and is nobody else's) and `Places` (Main is no task and
only Main drains). `Results` ties a result to the two halves of Finish.

`TasksImplementFutures`: every step of Tasks is a step of Futures or none. One
more part is needed beside `IInv`: `Maps` says that a pmap leaves nothing of it
behind, so that the tasks a spawn, a join or a later pmap finds waiting are
never those of an earlier one. `NobodyStirs` is the argument for the drained
state: whoever could take a step is a task that is alive, and `DrainComplete`
excludes it. The steps that a program cannot see (taking an id, the mutex,
registering, storing the result, the drain's scan) leave the mapped state alone
(`Unseen`); spawn is seen at the go statement, a task's end when its done channel
is closed, not when the result is stored. That order is what a swapped Finish
breaks.

`OnlyJoinsDeadlock` is the safety core of `DrainReturns`, for processes that are
at anything, not only during a drain. `WaitsForYounger` is the argument: a process
that cannot go on waits for a process younger than itself, which has not ended; so
the youngest of those that have not ended, from any process on, can go on
(`Youngest`). For a join the condition says it. For a pmap it is `Younger`: ids
grow, so what a process spawns is younger than itself. For the drain it is
`Started`: a task it waits for runs, or is registered and its spawner is at the go
statement. For a spawn that waits for the mutex, the drain is scanning, and a scan
can always go on. `Budget` (an account of ids drawn, ids reserved by pmaps under
way and ids left) shows that the bound on tasks, which is the model's and not the
code's, never stops a pmap half way. `Ready` is the disjunction of the guards of
what a process may do next; it stands for ENABLED, which the prover does not know.

### DapProofs

`TypeCorrect`, `StopsMatchCommands`, `StopsAreAnswerable`, `StopsAreNotMissed`,
`DepthsAreReal`, `BreakpointsStayInForce`, `HandlersMeetParked`,
`DisconnectUnwinds`, `TimelyBreakpointsDoNotRace`, `TrackedCallsAreSteppedOver`.

`IInv` has the following parts beside the properties themselves. `Flags` ties
`paused`, `suppress` and `started` to the places of the two goroutines: they are
the only things one goroutine knows of the other. `Budgets` is there for the
types: a bound on stops and requests follows from what is left to spend.
`Answering` counts stops against resumes: at most one reported stop is
unanswered, and then the evaluator is at the receive and nobody sends. Its third
conjunct, that a handler which sends to an evaluator that is not there has
answered a stop not yet reported, was found by a failed proof: without it a
second send could be possible while a stop is seen. `PatientMeets`: for a client
that keeps to the stops it has seen, a handler evaluates or sends only at a parked
evaluator; the depth and the suppression of hooks depend on it. `ModesAsked`:
the one armed mode is the last command's, with the depth it was given at, until a
pause consumes it; the equality while the program runs is what
`StopsAreNotMissed` needs, a subset was enough for `StopsMatchCommands`.
`NoneLost` and `DueArmed`: a requested breakpoint is armed or pending, and one
that is due is armed, unless a handler is arming it under a parked evaluator.

`DepthsAreReal` rests on lemmas about `Tracked`: a call adds one place to those
that count, a return takes one, so the code's guard `depth > 0` never drops a
call.

`HandlersMeetParked` (for a patient client) and `DisconnectUnwinds` (for every
client) are the safety core of `Responsive`: a sending handler has a receiver,
and a waiting disconnect has a program that ends. What is left of `Responsive`
is fairness.

`TimelyBreakpointsDoNotRace` bounds the finding of `dap_parked`: if no
setBreakpoints is made between a resume and the next stop, breakpoints are only
ever armed by a parked evaluator's side, as the comment in the code assumes.
`TrackedCallsAreSteppedOver` does the same for `dap_step_over`: if every call is
one the engine is told of (`CallsAreTracked`), the calls counted are all calls
(`AllCounted`), the depth is the real one, and next never stops deeper than it was
asked, nor a step out in the call it was to leave.

### PackagesProofs

`TypeCorrect`, `LockedCanBeImported`, `LocksAreClosed`, `NestingIsBounded`,
`NestingCutsNothing`, `CommandsRunDown`, `OnlyLocalBuildsBeatTheLock`,
`PackagesImplementStore`.

`IInv` has the types in three parts (the disk, the running command, the rest), so
that a step that touches one leaves the others to a lemma, and: `Phases`, which
command can be where, and what is empty there; `Named`, an entry is filed under
its source's own name; `Whole`, only a killed command leaves a directory that is
not whole; `Vouched`, the entries that the property is about; `Cached`, the
directory of a call past its copy, and of a recorded entry, is there.

`LocksAreClosed` is the deep one. A recorded commit's dependencies are recorded
too, or `Coming`: a call in progress still has the dependency before it or has
called for its name (`Closed`); a call that has come to its dependencies has its
entry, one that has not still has all of them (`Recorded`). Two commits of one
name may be installed in one command, and the later replaces the entry of the
earlier; the invariant is about the revision that the entry has. For
`LockedCanBeImported` the replay needs its own part, `Replaying`: it has the
directories of the entries it is past, except the one it is at work on.

`NestingIsBounded` follows from `Distinct`, the names on the stack differ; it
assumes that the set of names is finite, as any project's is. By the same count a
package that is not on the stack has room on it (`NestingCutsNothing`): with
`MaxDepth` no less than the number of names the bound of the model refuses nothing.

`CommandsRunDown` is the safety half of `CommandsEnd`. What a command has still to
do is a list of pairs, `Work(i)`: the lock entries left to replay, then for each
level of the recursion whether its call is to come, at work (with how many
dependencies before it) or over. Every step of a running command, a failure and a
kill included, ends it or lowers the list lexicographically (`Nearer`), and the
list has one pair more than there are names. It assumes that the names are finitely
many and each manifest is finite. That a running command always has a step left is
the other half, and with the fairness it stays with TLC.

`OnlyLocalBuildsBeatTheLock` bounds the finding of `pkg_lock_pin`: for what a
completed command has locked, import loads the commit in the lock, or a local
build of that version that is in the cache (`LocalOrLocked`), and nothing else.

In `PackagesImplementStore`, `Importable` speaks of every directory the resolver may
choose; `Intact` says the same of the directories alone (`GoodIsIntact`), so
that a step can be judged by the directories it touches: a name keeps what can
be imported of it while its entry and directories are let be (`LetBe`). The
install is one step at the merge; everything before it changes nothing the store
sees, or restores a directory. The abstract removal is two steps because the
code's is: directories first, then the entry.

### StoreProofs

`SlicesAnswerTheirElements`, `TakeAndDropSplit`, `MutatorsStayInTheirStorage`,
`IndexAssignmentStaysInItsStorage`, `MemberAssignmentStaysInItsStorage`,
`PushTakesTheSlotAfter`, `ArraysLieInTheirStorage`, `FrozenStaysFrozen`.

The interpreter itself is recursive and stays with TLC, but everything it does to
an array or a hash goes through the operators of `Store`, and these are proved
about for heaps of any size, without any constant or assumption. Every operation
is shown to be one of three kinds of step. It allocates: no object and no storage
there was changes. Or it writes through one pointer: no other object changes, the
object written is not frozen, and no storage is touched but the one it has
afterwards (append writes in place, or moves and then leaves the old storage
alone). Or it sets frozen flags. Each kind keeps `WellFormed`, the part of
Session's `TypeOK` about the heap, and `KeepsFrozen`, the relation of Session's
`FrozenKept`; so does the machine `Spec` at the end of the module, which performs
any operations in any order. It is given what evalBuiltin and Eval have
established before they call: pointers that lead to objects of their types (which
`TypeOK` checks of everything stored), integers that are integers. What an object
holds is not restricted.

`FrozenStaysFrozen` has the exception that `KeepsFrozen` states, an unfrozen array
over the same storage, and it is needed: `take` and `drop` answer unfrozen views of
a frozen array (internal/eval/eval.go:5510-5547), through which its elements can be
written, although LANGUAGE.md:82 and STATUS.md:57 say that mutating a frozen
value is an error; so does a slice taken before the freeze.
`PushTakesTheSlotAfter` says exactly what an alias can lose by a `push`: the one
element in the slot behind the array that was pushed to, and nothing if the storage
ends there.

The relation is about one operation. It is not transitive: an alias may write and
then be moved or frozen, so that a whole request can change a frozen array with no
unfrozen alias left to show for it. That no request of the runs does is what
`FrozenKept` adds.

Not proved: that sort permutes, only that it stays in its storage.

### EnvironmentProofs

`AssignmentIsShared`, `CheckedAgainstItsType`, `CallersKeepTheirSinks`,
`TypedNamesKeepTheirTypes`, `ConstantsKeepTheirValues`.

These are about any number of scopes, nested in any way. The one assumption on
the scopes is that the one around another is older (`WellScoped`), and it is
proved of every operation. A walk through the scopes is a recursive function, and
all that is known of it comes by induction over the scopes. The induction
theorems of the library take an operator, which the provers cannot instantiate;
`SetInduction` proves, from the well-foundedness of `<` alone, induction for a
set instead (the numbers of which something is true are a set that has 0 and, with
each number, the next). `ScopeInduction` is that for scopes, `WalkExists` and
`OutwardsStep` show that the recursive definition means what it says, and three
lemmas say where walks end: in the set or nowhere (`OutwardsEnds`), unaffected by
scopes they do not pass (`OutwardsKept`), and of two sets, one in the other, in the
same place if the walk to the larger ends in the smaller (`OutwardsNested`).

`CheckedAgainstItsType` is the one that is not obvious. An assignment walks
twice: LookupDeclaredType for a type to check against, AssignStrict for the scope
to write to. They could end in different scopes, and do when a scope binds the name
without declaring a type for it: the type of the outer variable is then asked of
the inner one. The theorem is the half that matters, that no assignment to a
typed variable escapes its check; by `OutwardsNested`, since a scope has types only
for names it binds (`DeclaredAreBound`). With it, the machine `EnvSpec`, which
creates scopes, declares, assigns, increments and sets sinks in any order, keeps
`TypesHold`, for types made of built-in names what Session's `DeclaredTypesHold` says
between requests, and `ConstantsKept`, what `ConstKept` says.

Its two limits are the code's. A declaration looks neither for a constant nor for
a type that its scope already has for the name (`Anew`): a `let`, a pattern, a
parameter or a loop variable of the same scope replaces the value of both, so the
theorems are about programs that do not declare such a name again. And `Allowed`
gives the types made of built-in names, which hold of a value for its Go type; a
variable of an interface type may stop fitting it when the hash it holds loses a
member, with no assignment at all. An increment looks up no declared type, and
need not: an integer stays an integer.

### MachineProofs

`VerifiedCodeIsSafe`, `FetchesAreInstructions`, `HaltsEmpty`.

The compiler is recursive over trees and stays with TLC, the machine is not. The
two meet in `Verified`: TLC checks that the code of each program of the runs is
(`CodeIsVerified`), and for all code that is, whatever it computes, the theorems
say that the machine never indexes its stack below 0 or above 1024 (a Go panic),
fetches whole instructions only, refers to constants and globals that are there,
and halts with an empty stack. The invariant `Safe` is that the current address and
the depth of the stack are among the verified pairs, the code is the one loaded,
and all stored values are values. `ExecuteFacts` is the lemma about one
instruction: from enough operands, it leads to one of its `Successors` with the
stack at `DepthAfter`, or ends the run; it is proved per instruction, for the
binary operators by what they do to the stack (`BinaryFacts`). `Pop` of an empty
stack is let pass, as in the code.

The hypothesis `Compiled` says what kinds of things code, constants and names are.
Nothing is assumed of how a value is printed.

### BindingsProofs

`UpdateStaysWithItsBinding`, `LostUpdatesAreBounded`, `UndividedUpdatesAreKept`.

These bound the finding of `shared_bindings`, for any finite number of workers
(`Distinct`: the global frame is nobody's own, and no number means unbound). Every
update ends at the binding its read has found: no error, and no implicit let that
leaves a stray name in a worker's frame. When all are done, at least one update is
left and none is counted that was not made: a worker's stale value counts no more
updates than have been made since (`InRange`). And if no two workers are inside the
statement at once, all are left: `SwitchesOnlyAtYields`, the property that the run
refutes, is then a theorem, so the switches inside the statement are the only
cause.

### Only model-checked

- Liveness: `CloseReleases`, `DrainReturns`, `Responsive`, `CommandsEnd`,
  `MachineAgrees`; the prover does not reason about fairness and ENABLED here.
  What could be proved of them is said above (`CommandsRunDown`,
  `OnlyJoinsDeadlock`).
- The runs that expect a violation: a counterexample is all they are for. How far
  the findings reach is proved where it says so above.
- `session` and `toolchain`: an interpreter, a parser and a compiler over trees
  are RECURSIVE operators, which are out of the prover's reach. What the
  interpreter does to its heap and its scopes is proved (StoreProofs,
  EnvironmentProofs), and so is what the machine does to its stack (MachineProofs).
  That all code the compiler makes is `Verified` is checked for the programs of
  the run only: it would be an induction over trees.

## 5. The plan

1. Channel and its abstract log; proofs. Done.
2. Tasks, the drain and their abstract runtime; proofs. Done.
3. The stepping engine and the debug adapter; proofs. Done.
4. The package manager and its abstract store; proofs. Done.
5. The evaluator and the session. Done (`Store`, `Environments`, `Objects`,
   `Evaluator`, `Session`); proofs about the heap and the scopes. Done.
6. Lexer, parser, checker, bytecode, language server. Done (`Toolchain`); proofs
   about the machine. Done.
7. `Debuggees`: two evaluating goroutines under one controller and one adapter.
8. `Runtime`: tasks, channels and the session's mutex together; a request whose
   tasks wait for a message only the next request would send.
9. `Observables`: notifications by goroutine, Computed's read-then-subscribe.
10. `Corrections`: two processes over one file.
11. Constants and typed names under concurrent tasks, on top of SharedBindings.

## 6. Not modelled

- Concurrent tasks inside the evaluator: `Session` evaluates a request in one
  step. Interleaving tasks between the frames of a recursive interpreter is out
  of TLC's reach; `Tasks`, `Channel` and `SharedBindings` have the interleavings
  where state is shared.
- The terminal debugger: a sequential command loop over the same engine, inside
  OnPause.
- Floats, bit operators, string and number builtins, quantum, sqlite, tensor and
  other libraries: functions of their arguments, without state.
- Generics: erased at run time, and inference over them in the checker.
- The formatter, linter, documentation and transpilers: text to text. The
  formatter's output would be one more reading of `Written`'s trees.
- hover, completion and the other requests of the language server that read.
- The Rust sources, `std/*.ns` and `nasi-core`: not part of the pipeline.
