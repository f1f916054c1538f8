------------------------------ MODULE Bytecode ------------------------------
(***************************************************************************)
(* The experimental compiler of `nvs bc`                                   *)
(* (src/internal/bytecode/compiler.go), for the machine of Machine.        *)
(*                                                                         *)
(* apart records where compiler and machine part with the tree-walking     *)
(* interpreter on purpose or not: it is what their outputs may differ by.  *)
(***************************************************************************)
EXTENDS Objects, Opcode
LOCAL INSTANCE SequencesExt

\* loops: per enclosing loop, the jumps to patch for break and continue, and
\* the target of continue, -1 until it is known.  starts: where instructions begin.
NewCompiler == [ins |-> <<>>, constants |-> <<>>, names |-> <<>>, loops |-> <<>>,
                error |-> FALSE, starts |-> {}, consts |-> {}, apart |-> {}]
Unsupported(c) == [c EXCEPT !.error = TRUE]
\* if err := ...; err != nil { return err }
After(c, Rest(_)) == IF c.error THEN c ELSE Rest(c)

Here(c) == Len(c.ins)
DepartsAt(what, cond, c) == IF cond THEN [c EXCEPT !.apart = @ \cup {what}] ELSE c

emit(op, c) == [c EXCEPT !.ins = Append(@, Code(op)), !.starts = @ \cup {Here(c)}]
emitWith(op, n, c) == [emit(op, c) EXCEPT !.ins = @ \o Bytes(n)]
\* The operand behind the opcode at pos.
patch(pos, target, c) ==
    [c EXCEPT !.ins[pos + 2] = Bytes(target)[1], !.ins[pos + 3] = Bytes(target)[2]]
patchAll(sites, target, c) ==
    [c EXCEPT !.ins = [i \in DOMAIN @ |->
        CASE i - 2 \in sites -> Bytes(target)[1]
          [] i - 3 \in sites -> Bytes(target)[2]
          [] OTHER -> @[i]]]

emitConst(v, c) ==
    emitWith("Constant", Len(c.constants), [c EXCEPT !.constants = Append(@, v)])
\* The index of a global, which is a new one at the first mention.
Named(x, c) == IF x \in ToSet(c.names) THEN c ELSE [c EXCEPT !.names = Append(@, x)]
globalIndex(x, c) == (CHOOSE i \in DOMAIN c.names : c.names[i] = x) - 1
emitGlobal(op, x, c) == LET d == Named(x, c) IN emitWith(op, globalIndex(x, d), d)
\* Nothing keeps a constant from being assigned.
setGlobal(x, isConst, c) ==
    emitGlobal("SetGlobal", x,
               [DepartsAt("const", x \in c.consts, c) EXCEPT
                  !.consts = IF isConst THEN @ \cup {x} ELSE @])

InfixOps == [x \in {"+", "-", "*", "/", "%", "**", "==", "!=", ">", "<", ">=",
                    "<="} |->
              CASE x = "+" -> "Add" [] x = "-" -> "Sub" [] x = "*" -> "Mul"
                [] x = "/" -> "Div" [] x = "%" -> "Mod" [] x = "**" -> "Pow"
                [] x = "==" -> "Equal" [] x = "!=" -> "NotEqual"
                [] x = ">" -> "Greater" [] x = "<" -> "Less"
                [] x = ">=" -> "GreaterEq" [] x = "<=" -> "LessEq"]

RECURSIVE Compile(_, _), CompileAll(_, _)

CompileAll(ns, c) ==
    IF ns = <<>> THEN c
    ELSE After(Compile(Head(ns), c), LAMBDA d : CompileAll(Tail(ns), d))

\* The branches are blocks, which leave nothing on the stack; a missing
\* alternative leaves null.
compileIf(n, c) ==
    After(Compile(n.cond, c), LAMBDA c1 :
      After(Compile(n.then, emitWith("JumpNotTruthy", 0, c1)), LAMBDA c2 :
        LET c3 == patch(Here(c1), Here(c2) + 3, emitWith("Jump", 0, c2))
        IN  After(IF n.else = None THEN emit("Null", c3) ELSE Compile(n.else, c3),
                  LAMBDA c4 : patch(Here(c2), Here(c4), c4))))

Loop(to) == [breaks |-> {}, continues |-> {}, to |-> to]
Enter(to, c) == [c EXCEPT !.loops = Append(@, Loop(to))]
\* The jump back, and what jumps to the end of the loop.
endLoop(start, jnt, c) ==
    LET d == emitWith("Jump", start, c)
    IN  [patchAll({jnt} \cup Last(c.loops).breaks, Here(d), d) EXCEPT
           !.loops = Front(@)]

compileWhile(n, c) ==
    IF n.orElse # None \/ n.label # "" THEN Unsupported(c)
    ELSE After(Compile(n.cond, c), LAMBDA c1 :
           After(Compile(n.body, Enter(Here(c), emitWith("JumpNotTruthy", 0, c1))),
                 LAMBDA c2 : endLoop(Here(c), Here(c1), c2)))

\* A slip: continue skips the post step.
compilePostLast(n, start, jnt, c) ==
    LET d == patchAll(Last(c.loops).continues, start, c)
    IN  After(IF n.post = None THEN d ELSE After(Compile(n.post, d),
                                                 LAMBDA e : emit("Pop", e)),
              LAMBDA e : endLoop(start, jnt, e))

\* A slip: the value of the post step stays on the stack.
compilePostUnpopped(n, start, jnt, c) ==
    LET d == patchAll(Last(c.loops).continues, Here(c), c)
    IN  After(IF n.post = None THEN d ELSE Compile(n.post, d),
              LAMBDA e : endLoop(start, jnt, e))

\* continue goes to the post step.
compilePost(n, start, jnt, c) ==
    LET d == patchAll(Last(c.loops).continues, Here(c), c)
    IN  After(IF n.post = None THEN d ELSE After(Compile(n.post, d),
                                                 LAMBDA e : emit("Pop", e)),
              LAMBDA e : endLoop(start, jnt, e))

\* No node for a missing first clause.
compileFor(n, c) ==
    IF n.orElse # None \/ n.label # "" \/ n.init = None THEN Unsupported(c)
    ELSE After(Compile(n.init, c), LAMBDA c1 :
      After(IF n.cond = None THEN emit("True", c1) ELSE Compile(n.cond, c1),
            LAMBDA c2 :
        After(Compile(n.body, Enter(-1, emitWith("JumpNotTruthy", 0,
                                           DepartsAt("endless", n.cond = None, c2)))),
              LAMBDA c3 : compilePost(n, Here(c1), Here(c2), c3))))

compileBreak(n, c) ==
    IF n.label # "" \/ c.loops = <<>> THEN Unsupported(c)
    ELSE [emitWith("Jump", 0, c) EXCEPT !.loops[Len(c.loops)].breaks = @ \cup {Here(c)}]
compileContinue(n, c) ==
    CASE n.label # "" \/ c.loops = <<>> -> Unsupported(c)
      [] Last(c.loops).to >= 0 -> emitWith("Jump", Last(c.loops).to, c)
      [] OTHER -> [emitWith("Jump", 0, c) EXCEPT
                     !.loops[Len(c.loops)].continues = @ \cup {Here(c)}]

\* print and len are the only callees.
compileCall(n, c) ==
    CASE n.fn = Identifier("print") ->
           After(CompileAll(n.args, c), LAMBDA d :
             emit("Null", emitWith("Print", Len(n.args), d)))
      [] n.fn = Identifier("len") /\ Len(n.args) = 1 ->
           After(Compile(n.args[1], c), LAMBDA d : emit("Len", d))
      [] OTHER -> Unsupported(c)

Compile(n, c) ==
    CASE n.k \in {"Program", "BlockStatement"} -> CompileAll(n.stmts, c)
      [] n.k = "ExpressionStatement" ->
           After(IF n.value.k = "IfExpression" THEN compileIf(n.value, c)
                 ELSE Compile(n.value, c), LAMBDA d : emit("Pop", d))
      [] n.k = "IntegerLiteral" -> emitConst(Integer(n.int), c)
      [] n.k = "StringLiteral" -> emitConst(Str(n.str), c)
      [] n.k = "Boolean" -> emit(IF n.bool THEN "True" ELSE "False", c)
      [] n.k = "NullLiteral" -> emit("Null", c)
      [] n.k = "PrefixExpression" ->
           After(Compile(n.right, c), LAMBDA d :
             emit(IF n.op = "-" THEN "Minus" ELSE "Bang", d))
      [] n.k = "InfixExpression" ->
           After(CompileAll(<<n.left, n.right>>, c), LAMBDA d :
             IF n.op \in DOMAIN InfixOps THEN emit(InfixOps[n.op], d)
             ELSE Unsupported(d))
      [] n.k \in {"LetStatement", "ConstStatement"} ->
           After(Compile(n.value, c), LAMBDA d :
             setGlobal(n.name, n.k = "ConstStatement", d))
      [] n.k = "Identifier" -> emitGlobal("GetGlobal", n.name, c)
      [] n.k = "PrintStatement" ->
           After(Compile(n.value, c), LAMBDA d : emitWith("Print", 1, d))
      [] n.k = "AssignExpression" ->
           After(Compile(n.value, c), LAMBDA d :
             emitGlobal("GetGlobal", n.name, setGlobal(n.name, FALSE, d)))
      [] n.k = "IfExpression" -> compileIf(n, DepartsAt("value", TRUE, c))
      [] n.k = "CallExpression" -> compileCall(n, c)
      [] n.k = "ArrayLiteral" ->
           After(CompileAll(n.elems, c), LAMBDA d :
             emitWith("Array", Len(n.elems), d))
      [] n.k = "WhileStatement" -> compileWhile(n, c)
      [] n.k = "ForStatement" -> compileFor(n, c)
      [] n.k = "BreakStatement" -> compileBreak(n, c)
      [] n.k = "ContinueStatement" -> compileContinue(n, c)
      [] OTHER -> Unsupported(c)

\* No halt behind a last byte that looks like one.
BytecodeOf(c) == IF c.ins # <<>> /\ Last(c.ins) = Code("Halt") THEN c
                 ELSE emit("Halt", c)
=============================================================================
