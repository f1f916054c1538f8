---------------------------- MODULE MCToolchain ----------------------------
(***************************************************************************)
(* Documents to check: every statement of Programs on its own, statements  *)
(* that lose glyphs, programs for the virtual machine, and programs full   *)
(* of types.                                                               *)
(***************************************************************************)
EXTENDS Toolchain, Programs
W == INSTANCE Written

Line(stmts) == [text |-> W!Text(stmts), stmts |-> stmts]
StatementsOf(topic) ==
    UNION {{r.stmts[i] : i \in DOMAIN r.stmts} : r \in {q \in topic : q.kind \in {"eval", "exec"}}}
LinesOf(stmts) == {Line(<<st>>) : st \in stmts}

\* Loops with break and continue, branches, arrays, and what the machine
\* does its own way.
Op(op, a, b) == InfixExpression(op, a, b)
Inc(x) == AssignExpression(x, Op("+", V(x), I(1)))
Show(e) == PrintStatement(e)
IfElse(c, a, b) == Do(IfExpression(c, Block(a), Block(b)))
Compiled == {
  LetStatement("i", I(0)),
  ConstStatement("k", S("s")),
  Assigned("k", Op("+", V("i"), V("k"))),
  WhileStatement("", Op("<", V("i"), I(4)),
    Block(<<Do(Inc("i")), If(Eq(V("i"), I(2)), <<ContinueStatement("")>>),
            IfElse(Op(">", V("i"), I(2)), <<BreakStatement("")>>,
                   <<Show(V("i"))>>)>>), None),
  ForStatement("", LetStatement("j", I(0)), Op("<", V("j"), I(4)), Inc("j"),
    Block(<<IfElse(Eq(Op("%", V("j"), I(2)), I(0)),
                   <<ContinueStatement("")>>, <<Show(V("j"))>>)>>), None),
  ForStatement("", LetStatement("j", I(0)), None, Inc("j"),
    Block(<<If(Op(">=", V("j"), I(1)), <<BreakStatement("")>>)>>), None),
  Show(Op("-", Op("*", V("i"), Op("**", I(2), V("i"))), I(2))),
  IfElse(V("i"), <<Show(S("yes"))>>, <<Show(S("no"))>>),
  Assigned("a", Arr(<<V("i"), PrefixExpression("-", I(3)), NullLiteral>>)),
  Show(Op("!=", Call("len", <<V("a")>>), I(3))),
  Show(Op("/", I(7), V("i"))),
  Show(IfExpression(Boolean(TRUE), Block(<<Do(I(1))>>), Block(<<Do(I(2))>>)))
}

\* Values that reach annotated places: through classes and interfaces, the
\* functions of a hash, unions, results, arguments and assignments.
Let(x, type, e) == TypedLetStatement(x, type, e)
Either(a, b) == TypeAnnotation(<<a, b>>, FALSE)
TypedFn(p, type, body, returns) ==
    FunctionLiteral(<<Param(p, None, type)>>, Block(body), returns)
MethodOf(xs, type) == FunctionLiteral(Params(xs), Block(<<Return(I(1))>>), type)
New(class) == NewExpression(class, <<>>)
Typed == {
  <<InterfaceDecl("J", <<[name |-> "m", arity |-> 1]>>),
    ClassStatement("A", "", <<>>, [m |-> MethodOf(<<"x">>, Type("int"))]),
    ClassStatement("B", "A", <<>>, [n |-> MethodOf(<<>>, Type("int"))])>>,
  <<ClassStatement("B", "", <<>>, [m |-> MethodOf(<<>>, Type("int"))])>>,
  <<Let("j", Type("J"), New("B")), Do(CallM(V("j"), "m", <<I(1)>>))>>,
  <<Let("b", Either("B", "null"), New("B")), Let("a", Type("A"), V("b"))>>,
  <<Let("b", Type("B"), New("A"))>>,
  <<Let("j", Type("J"), HashLiteral(<<>>, <<<<S("m"), Fn(<<"x">>, <<>>)>>>>))>>,
  <<Let("j", Type("J"), HashLiteral(<<>>, <<<<S("m"), Fn(<<>>, <<>>)>>>>))>>,
  <<LetStatement("f", TypedFn("x", Either("int", "null"),
       <<Return(IfExpression(Eq(V("x"), NullLiteral), Block(<<Do(S("s"))>>),
                             Block(<<Do(Op("+", I(2), I(1)))>>)))>>,
       Either("int", "string")))>>,
  <<Let("u", Either("int", "string"), Call("f", <<Call("len", <<S("s")>>)>>))>>,
  <<Let("u", Type("int"), TernaryExpression(Boolean(TRUE), I(1), NullLiteral))>>,
  <<Do(Call("f", <<S("s")>>))>>,
  <<Assigned("u", Call("f", <<NullLiteral>>))>>
}

MCLines ==
  [read |-> LinesOf(UNION {StatementsOf(t) : t \in {Types, Consts, Frozen, Defers,
                       Imports, Generators, Tries, Matches, Json, Errors}}),
   compiled |-> LinesOf(Compiled),
   mistyped |-> LinesOf(UNION {StatementsOf(t) : t \in {Types, Consts, Frozen, Defers,
                       Imports, Generators, Tries, Matches, Json, Errors}}),
   typed |-> {Line(stmts) : stmts \in Typed}]
MCMaxLines == [read |-> 1, compiled |-> 2, mistyped |-> 1, typed |-> 3]
MCModules == [m |-> [file |-> "missing", stmts |-> <<>>]]
MCPaths == [x \in {"k.0"} |-> <<[name |-> "k", index |-> -1],
                               [name |-> "0", index |-> 0]>>]
=============================================================================
