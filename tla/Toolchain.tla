----------------------------- MODULE Toolchain -----------------------------
(***************************************************************************)
(* One document and the tools that read it.  A user types lines, the       *)
(* language server (src/internal/lsp/lsp.go) parses and checks the text at *)
(* every change and publishes diagnostics; `nvs run` walks the tree, and   *)
(* `nvs bc` (src/cmd/nvs/main.go) compiles it for the virtual machine,     *)
(* which takes one step per instruction.                                   *)
(*                                                                         *)
(* Texts are sequences of glyphs.  The user types whole lines of a pool    *)
(* and may erase a glyph, or all from a glyph on, of the last one.         *)
(***************************************************************************)
EXTENDS Evaluator, Bytecode
LOCAL INSTANCE SequencesExt

P == INSTANCE Parser WITH MaxProbe <- 64
K == INSTANCE Checker

CONSTANTS
    Lines,      \* per pool: a set of [text, stmts]; one document draws from one
    MaxLines,   \* per pool: a bound on the lines of a document
    Mistyped,   \* the pools whose documents lose glyphs
    Executed    \* the pools whose documents are run

VARIABLES
    pool,
    typed,    \* the lines typed, as statements
    intact,   \* no glyph was erased
    doc,      \* the text, as the server and the file have it
    parsed,   \* what parsing it gives: a tree, the number of errors, a panic
    shown,    \* the diagnostics last published, or that there are none yet
    told,     \* what `nvs run` printed, and the error it ended in, if any
    vm        \* the machine of `nvs bc`

Spaced(words) == IF words = <<>> THEN ""
                 ELSE FoldLeft(LAMBDA x, w : x \o " " \o w, Head(words), Tail(words))
\* fmt.Sprint
RECURSIVE Sprint(_)
Sprint(v) == CASE v.t = "INTEGER" -> ToString(v.int)
               [] v.t = "STRING" -> v.str
               [] v.t = "BOOLEAN" -> IF v.bool THEN "true" ELSE "false"
               [] v.t = "NULL" -> "<nil>"
               [] v.t = "SLICE" ->
                    "[" \o Spaced([i \in DOMAIN v.elems |-> Sprint(v.elems[i])]) \o "]"
M == INSTANCE Machine WITH machine <- vm
\* No machine has been made.
NoVM == [M!NewVM(NewCompiler) EXCEPT !.state = "none"]

vars == <<pool, typed, intact, doc, parsed, shown, told, vm>>

Untold == [done |-> FALSE]
Unshown == [of |-> <<>>, parseErrors |-> 0, typeErrors |-> <<>>, blind |-> {}]

\* CheckSource: with parse errors the program is not checked.  blind: where
\* the checker sees less than the run.
Diagnostics(text, r) ==
    IF r.p.errs > 0
    THEN [of |-> text, parseErrors |-> r.p.errs, typeErrors |-> <<>>, blind |-> {}]
    ELSE LET c == K!CheckProgram(r.node.stmts)
         IN  [of |-> text, parseErrors |-> 0, typeErrors |-> c.errs, blind |-> c.apart]

Init ==
    /\ pool \in DOMAIN MaxLines
    /\ typed = <<>>
    /\ intact = TRUE
    /\ doc = <<>>
    /\ parsed = [node |-> Program(<<>>), errs |-> 0, panic |-> FALSE]
    /\ shown = Unshown
    /\ told = Untold
    /\ vm = NoVM

\* textDocument/didOpen, didChange: the whole text is sent.  A panic of the
\* parser is recovered from and nothing is published.
DidChange(lines, ok, text) ==
    /\ typed' = lines
    /\ intact' = ok
    /\ doc' = text
    /\ \E r \in {P!ParseText(text)} :
          /\ parsed' = [node |-> r.node, errs |-> r.p.errs, panic |-> r.p.panic]
          /\ shown' = IF r.p.panic THEN shown ELSE Diagnostics(text, r)
    /\ told' = Untold
    /\ vm' = NoVM
    /\ UNCHANGED pool

TypeLine ==
    /\ intact
    /\ vm.state # "running"
    /\ Len(typed) < MaxLines[pool]
    /\ \E line \in Lines[pool] :
          DidChange(Append(typed, line.stmts), TRUE,
                    IF doc = <<>> THEN line.text ELSE doc \o <<"\n">> \o line.text)

Erase ==
    /\ intact
    /\ pool \in Mistyped
    /\ \E i \in DOMAIN doc : \E j \in {i, Len(doc)} :
          DidChange(typed, FALSE, SubSeq(doc, 1, i - 1) \o SubSeq(doc, j + 1, Len(doc)))

\* The tools refuse a text with parse errors; a panic ends them.
Accepted == pool \in Executed /\ parsed.errs = 0 /\ ~parsed.panic

\* nvs run
Walk ==
    /\ Accepted
    /\ ~told.done
    /\ \E r \in {Eval(parsed.node, 1, NewEnclosed(0, EmptyStore(TRUE)))} :
          told' = [done |-> TRUE, out |-> r.st.out, error |-> isError(r.val),
                   why |-> IF isError(r.val) THEN r.val.msg ELSE ""]
    /\ UNCHANGED <<pool, typed, intact, doc, parsed, shown, vm>>

\* nvs bc
RunBytecode ==
    /\ Accepted
    /\ told.done
    /\ vm = NoVM
    /\ \E c \in {Compile(parsed.node, NewCompiler)} :
          /\ ~c.error
          /\ vm' = M!NewVM(BytecodeOf(c))
    /\ UNCHANGED <<pool, typed, intact, doc, parsed, shown, told>>

VMStep ==
    /\ M!Cycle
    /\ UNCHANGED <<pool, typed, intact, doc, parsed, shown, told>>

Next == TypeLine \/ Erase \/ Walk \/ RunBytecode \/ VMStep

\* The machine's loop goes on by itself.
Spec == Init /\ [][Next]_vars /\ WF_vars(VMStep)

-----------------------------------------------------------------------------
(* Properties *)

\* Walked from its first instruction, with any outcome of every test, compiled
\* code finds on the stack the values its instructions take, jumps to where
\* instructions begin, refers to constants and globals that are there, and
\* leaves no value behind, which would fill the stack in a loop.  (An
\* if-expression is compiled as a statement also where its value is used.)
RECURSIVE Walked(_, _, _)
Walked(code, pairs, fresh) ==
    IF fresh = {} THEN pairs
    ELSE LET all == pairs \cup fresh
             next == UNION {M!Following(code, p[1], p[2]) :
                              p \in {q \in fresh : /\ M!Placed(code, q[1])
                                                  /\ q[2] \in 0..Len(code.ins)}}
         IN  Walked(code, all, next \ all)
CodeIsVerified ==
    vm.state = "running" /\ vm.ip = 0 /\ "value" \notin vm.apart =>
        /\ vm.ins \in Seq(0..255)
        /\ \E pairs \in {Walked(vm, {}, {<<0, 0>>})} :
            M!Verified(vm, pairs) /\ M!EndsEmpty(vm, pairs)

\* A program that is written down and read back is the same tree.
RoundTrip ==
    intact /\ typed # <<>> =>
        /\ parsed.errs = 0
        /\ parsed.node = Program(FlattenSeq(typed))

\* The nodes the interpreters and the checker look at without asking.
Opt(n) == IF n = None THEN <<>> ELSE <<n>>
Defaults(ps) == SelectSeq([i \in DOMAIN ps |-> ps[i].default], LAMBDA d : d # None)
Children(n) ==
    CASE n.k \in {"Program", "BlockStatement"} -> n.stmts
      [] n.k \in {"ExpressionStatement", "LetStatement", "ConstStatement",
                  "TypedLetStatement", "DestructureLetStatement", "ReturnStatement",
                  "PrintStatement", "ThrowStatement",
                  "AssignExpression", "SpreadExpression", "NamedArgument"} -> <<n.value>>
      [] n.k = "PrefixExpression" -> <<n.right>>
      [] n.k = "InfixExpression" -> <<n.left, n.right>>
      [] n.k = "PostfixExpression" -> <<n.operand>>
      [] n.k = "IfExpression" -> <<n.cond, n.then>> \o Opt(n.else)
      [] n.k = "TernaryExpression" -> <<n.cond, n.then, n.else>>
      [] n.k \in {"ArrayLiteral", "TupleLiteral"} -> n.elems
      [] n.k = "HashLiteral" -> n.spreads \o FlattenSeq(n.pairs)
      [] n.k = "RangeExpression" -> <<n.start, n.end>>
      [] n.k = "InterpolatedString" -> n.parts
      [] n.k = "IndexExpression" -> <<n.left, n.index>> \o Opt(n.end)
      [] n.k = "IndexAssignExpression" -> <<n.left, n.index, n.value>>
      [] n.k = "MemberExpression" -> <<n.object>>
      [] n.k = "MemberAssignExpression" -> <<n.object, n.value>>
      [] n.k = "CallExpression" -> <<n.fn>> \o n.args
      [] n.k = "NewExpression" -> n.args
      [] n.k = "FunctionLiteral" -> <<n.body>> \o Defaults(n.params)
      [] n.k = "MatchExpression" ->
           <<n.value>> \o Opt(n.default) \o
           FlattenSeq([i \in DOMAIN n.arms |->
              <<n.arms[i].pattern, n.arms[i].body>> \o Opt(n.arms[i].guard)])
      [] n.k = "OptionalChainExpression" ->
           <<n.base>> \o FlattenSeq([i \in DOMAIN n.links |->
              CASE n.links[i].kind = "index" -> <<n.links[i].index>>
                [] n.links[i].kind = "call" -> n.links[i].args
                [] OTHER -> <<>>])
      [] n.k = "WhileStatement" -> <<n.cond, n.body>> \o Opt(n.orElse)
      [] n.k = "ForStatement" ->
           <<n.body>> \o Opt(n.init) \o Opt(n.cond) \o Opt(n.post) \o Opt(n.orElse)
      [] n.k = "ForInStatement" -> <<n.iterable, n.body>> \o Opt(n.orElse)
      [] n.k = "TryStatement" -> <<n.body>> \o Opt(n.catch) \o Opt(n.finally)
      [] n.k = "YieldStatement" -> Opt(n.value)
      [] n.k = "DeferStatement" -> <<n.call>>
      [] n.k = "ClassStatement" ->
           Defaults(n.fields) \o SetToSeq({n.methods[x] : x \in DOMAIN n.methods})
      [] n.k = "DecoratorStatement" -> <<n.function>>
      [] OTHER -> <<>>

RECURSIVE Complete(_)
Complete(n) ==
    /\ n.k \notin {"None", "TypedNil"}
    /\ \A i \in DOMAIN Children(n) : Complete(Children(n)[i])

\* A text that is published without a parse error has a whole tree.
BrokenIsReported ==
    shown.of = doc /\ shown.parseErrors = 0 => Complete(parsed.node)

\* A program without a diagnostic, in which every type is known, never ends
\* in a type error.
CheckerAgrees ==
    (/\ shown.of = doc
     /\ shown.parseErrors = 0
     /\ shown.typeErrors = <<>>
     /\ shown.blind = {}
     /\ told.done) => told.why # "type error"

\* What the machine runs, it ends as the tree-walking interpreter ended it,
\* but for where they part on purpose.
Agrees ==
    /\ vm.state \in {"halted", "error"}
    /\ vm.out = told.out
    /\ (vm.state = "error") = told.error
MachineAgrees ==
    (vm.state = "running") ~> (vm.state = "left" \/ vm.apart # {} \/ Agrees)
=============================================================================
