------------------------------ MODULE Programs ------------------------------
(***************************************************************************)
(* NvS programs to check, by topic: each a small set of requests whose     *)
(* order, repetition and interplay TLC explores (MCSession), and whose     *)
(* statements are written down, typed in and read back (MCToolchain).      *)
(***************************************************************************)
EXTENDS Ast, JsonValues

I(n) == IntegerLiteral(n)
S(x) == StringLiteral(x)
V(x) == Identifier(x)
Do(e) == ExpressionStatement(e)
Assigned(x, e) == Do(AssignExpression(x, e))
Eq(a, b) == InfixExpression("==", a, b)
Call(x, args) == CallExpression(V(x), args)
CallM(o, x, args) == CallExpression(MemberExpression(o, x), args)
Block(stmts) == BlockStatement(stmts)
If(c, stmts) == Do(IfExpression(c, Block(stmts), None))
Return(e) == ReturnStatement(e)
Say(x) == PrintStatement(S(x))
Params(xs) == [i \in DOMAIN xs |-> Param(xs[i], None, None)]
Fn(xs, body) == FunctionLiteral(Params(xs), Block(body), None)
Def(x, xs, body) == LetStatement(x, Fn(xs, body))
Arr(es) == ArrayLiteral(es)
At(a, i) == IndexExpression(a, i, None)
Cut(a, i, j) == IndexExpression(a, i, j)
PutAt(a, i, e) == Do(IndexAssignExpression(a, i, e))
Type(x) == TypeAnnotation(<<x>>, FALSE)
Src(stmts) == [kind |-> "eval", stmts |-> stmts]
Load(stmts) == [kind |-> "exec", stmts |-> stmts]
Req(x, args) == [kind |-> "call", name |-> x, args |-> args]
Nothing == [x \in {} |-> None]

\* Typed variables, assigned from functions, and types that are classes.
Types == {
  Src(<<TypedLetStatement("x", Type("int"), I(1))>>),
  Src(<<TypedLetStatement("x", TypeAnnotation(<<"A", "int">>, FALSE),
                          NewExpression("B", <<>>))>>),
  Load(<<ClassStatement("A", "", <<[name |-> "f", default |-> I(1)]>>, Nothing),
         ClassStatement("B", "A", <<[name |-> "g", default |-> None]>>,
          [init |-> Fn(<<>>, <<Do(MemberAssignExpression(ThisExpression, "g",
                                                         I(2)))>>)]),
         InterfaceDecl("J", <<[name |-> "init", arity |-> 0]>>),
         Do(Call("assert_implements", <<NewExpression("B", <<>>), V("J")>>))>>),
  Src(<<Def("set", <<"v">>, <<Assigned("x", V("v")), Return(V("x"))>>)>>),
  Src(<<Assigned("x", NewExpression("A", <<>>))>>),
  Src(<<Def("typed", <<>>,
            <<TypedLetStatement("x", Type("string"),
                                Call("type_of", <<V("set")>>)),
              If(Call("is_string", <<V("x")>>),
                 <<Assigned("x", Call("set", <<I(3)>>))>>), Return(V("x"))>>)>>),
  Req("set", <<JStr("c")>>), Req("set", <<JNum(2)>>), Req("typed", <<>>)
}

\* Constants, destructured ones too, assigned and incremented from anywhere.
Consts == {
  Src(<<ConstStatement("k", I(1))>>),
  Src(<<DestructureLetStatement(ArrayPattern(<<"m">>, ""),
                                Arr(<<I(4), I(5)>>), TRUE),
        Do(PostfixExpression("++", V("m")))>>),
  Src(<<DestructureLetStatement(HashPattern(<<[key |-> "a", value |-> "c"]>>),
          HashLiteral(<<>>, <<<<S("a"), I(1)>>>>), TRUE),
        Assigned("c", I(2))>>),
  Src(<<Def("inc", <<>>, <<Do(PostfixExpression("++", V("k"))),
                           Return(V("k"))>>)>>),
  Src(<<Def("shade", <<"k">>, <<Assigned("k", I(9)), Return(V("k"))>>)>>),
  Src(<<TryStatement(Block(<<Assigned("k", I(3))>>), "e", Block(<<>>), None)>>),
  Src(<<ForInStatement("", "i", Arr(<<I(7), I(8)>>),
                       Block(<<Assigned("k", V("i"))>>), None)>>),
  Req("inc", <<>>), Req("shade", <<JNum(3)>>)
}

\* Frozen arrays and hashes, slices of them, and all that writes.
Frozen == {
  Src(<<Assigned("a", Arr(<<I(3), I(1), I(2)>>))>>),
  Src(<<Assigned("h", HashLiteral(<<>>, <<<<S("k"), V("a")>>>>))>>),
  Src(<<Do(Call("freeze", <<V("a")>>))>>),
  Src(<<Do(Call("freeze", <<V("h")>>))>>),
  Src(<<Assigned("b", Cut(V("a"), I(0), I(9))), PutAt(V("b"), I(0), I(9))>>),
  Src(<<TryStatement(Block(<<Do(Call("push", <<V("a"), I(8)>>))>>), "",
                     Block(<<>>), None),
        Do(Call("sort", <<V("a")>>))>>),
  Src(<<Do(Call("deep_set", <<V("h"), S("k.0"), I(5)>>)),
        Do(Call("delete", <<V("h"), S("k")>>))>>),
  Src(<<Do(MemberAssignExpression(V("h"), "k", I(6))),
        Do(Call("pop", <<V("a")>>))>>),
  Src(<<Assigned("a", Call("thaw", <<V("a")>>)),
        Assigned("h", Call("copy", <<V("h")>>))>>)
}

\* Deferred calls of functions that return, throw, loop and call each other.
Defer(x) == DeferStatement(Call("print", <<S(x)>>))
Defers == {
  Src(<<Def("f", <<"n">>,
      <<Defer("a"), Defer("b"),
        If(Eq(V("n"), I(0)), <<Return(I(0))>>),
        If(Eq(V("n"), I(1)), <<ThrowStatement(S("x"))>>),
        Do(Call("g", <<V("n")>>)), Defer("c")>>)>>),
  Src(<<Def("g", <<"n">>,
      <<ForInStatement("", "i", RangeExpression(I(0), V("n"), FALSE),
                       Block(<<Defer("g"), If(Eq(V("i"), I(1)),
                                              <<BreakStatement("")>>)>>), None),
        Return(Call("f", <<InfixExpression("-", V("n"), I(2))>>))>>)>>),
  Src(<<TryStatement(Block(<<Do(Call("f", <<I(3)>>))>>), "e", Block(<<>>),
                     Block(<<Do(Call("f", <<I(0)>>))>>))>>),
  Req("f", <<JNum(0)>>), Req("f", <<JNum(1)>>), Req("f", <<JNum(2)>>),
  Req("g", <<JNum(1)>>)
}

\* Imports at the top and in a function, of the modules of MCSession.
Imports == {
  Src(<<ImportStatement("m")>>), Src(<<ImportStatement("bad")>>),
  Src(<<ImportStatement("one")>>), Src(<<ImportStatement("two")>>),
  Src(<<ImportStatement("garbled")>>), Src(<<ImportStatement("none")>>),
  Src(<<TryStatement(Block(<<ImportStatement("bad")>>), "", Block(<<>>), None),
        Do(V("by"))>>),
  Src(<<Def("load", <<>>, <<ImportStatement("m"), ImportStatement("two"),
                            Return(V("mx"))>>)>>),
  Req("load", <<>>)
}

\* Generators that call generators, in loops, handlers and callbacks; the
\* tens of a yielded number name the function it is written in.
Yield(n) == YieldStatement(I(n))
Generators == {
  Src(<<Def("g", <<>>, <<Yield(11),
            ForStatement("", LetStatement("i", I(0)),
                         InfixExpression("<", V("i"), I(2)),
                         PostfixExpression("++", V("i")),
                         Block(<<Yield(12)>>), None)>>)>>),
  Src(<<Def("h", <<"n">>,
      <<Yield(21),
        ForInStatement("", "x", Call("g", <<>>), Block(<<Yield(22)>>), None),
        TryStatement(Block(<<Yield(23), If(Eq(V("n"), I(0)),
                                           <<ThrowStatement(S("e"))>>)>>),
                     "e", Block(<<Yield(24)>>), None),
        Do(Call("map", <<Arr(<<I(1)>>), Fn(<<"v">>, <<Yield(31)>>)>>)),
        If(Eq(V("n"), I(1)), <<Do(Call("h", <<I(2)>>))>>),
        Do(CallM(NewExpression("K", <<>>), "m", <<>>))>>)>>),
  Load(<<ClassStatement("K", "", <<>>, [m |-> Fn(<<>>, <<Yield(41)>>)])>>),
  Src(<<Assigned("it", Call("h", <<I(1)>>))>>),
  Src(<<Do(Call("next", <<V("it")>>))>>),
  Src(<<Assigned("it", Call("g", <<>>)),
        ForInStatement("", "x", V("it"), Block(<<BreakStatement("")>>), None)>>),
  Req("h", <<JNum(0)>>)
}

\* try in functions and loops, left by return, throw, break and continue.
Tries == {
  Src(<<Def("t", <<"n">>,
      <<Say("try"),
        TryStatement(
          Block(<<If(Eq(V("n"), I(0)), <<Return(I(1))>>),
                  If(Eq(V("n"), I(1)), <<ThrowStatement(S("e"))>>),
                  If(Eq(V("n"), I(2)), <<Do(V("nosuch"))>>)>>), "e",
          Block(<<If(Eq(V("n"), I(2)), <<ThrowStatement(V("e"))>>),
                  Return(V("e"))>>),
          Block(<<Say("fin")>>))>>)>>),
  Src(<<Def("u", <<"n">>,
      <<WhileStatement("l", Boolean(TRUE),
          Block(<<Say("try"),
            TryStatement(Block(<<
                Assigned("n", InfixExpression("-", V("n"), I(1))),
                If(InfixExpression(">", V("n"), I(0)),
                   <<ContinueStatement("l")>>),
                If(Eq(V("n"), I(0)), <<Do(Call("t", <<I(2)>>))>>),
                BreakStatement("")>>), "", None,
              Block(<<Say("fin")>>))>>), None)>>)>>),
  Src(<<Say("try"),
        TryStatement(Block(<<Do(Call("u", <<I(1)>>))>>), "e",
                     Block(<<Do(Call("t", <<I(1)>>))>>),
                     Block(<<Say("fin")>>))>>),
  Req("t", <<JNum(0)>>), Req("t", <<JNum(2)>>), Req("t", <<JNum(3)>>),
  Req("u", <<JNum(2)>>), Req("u", <<JNum(0)>>)
}

\* Patterns that bind p, q and r before they fail, by a part or a guard.
Arm(p, g, stmts) == MatchArm(p, g, Block(stmts))
MatchV(arms) == Src(<<Do(MatchExpression(V("v"), arms, Block(<<Do(I(0))>>)))>>)
Rest == SpreadExpression(V("r"))
Matches == {
  Load(<<RecordStatement("P", <<"x", "y">>)>>),
  Src(<<Assigned("v", Arr(<<I(1), I(2), I(3)>>))>>),
  Src(<<Assigned("v", Call("P", <<I(1), NamedArgument("y", I(2))>>))>>),
  Src(<<Assigned("v", HashLiteral(<<>>, <<<<S("x"), V("v")>>,
                                          <<S("y"), I(2)>>>>))>>),
  MatchV(<<Arm(Arr(<<V("p"), I(9)>>), None, <<>>),
           Arm(Arr(<<V("p"), I(2), Rest>>), Eq(V("p"), I(7)), <<>>),
           Arm(TupleLiteral(<<V("q"), Rest>>), None,
               <<Assigned("v", V("r"))>>)>>),
  MatchV(<<Arm(Call("P", <<V("p")>>), None, <<>>),
           Arm(Call("P", <<V("p"), I(3)>>), None, <<>>),
           Arm(Call("P", <<V("p"), NamedArgument("x", V("q"))>>), None, <<>>),
           Arm(Call("P", <<V("p"), V("q")>>), Boolean(FALSE), <<>>)>>),
  MatchV(<<Arm(HashPattern(<<[key |-> "x", value |-> "p"],
                             [key |-> "z", value |-> "q"]>>), None, <<>>),
           Arm(HashLiteral(<<>>, <<<<S("x"), V("p")>>, <<S("y"), I(3)>>>>),
               None, <<>>),
           Arm(HashLiteral(<<>>, <<<<S("x"), Arr(<<V("q"), Rest>>)>>>>), None,
               <<Assigned("v", V("q"))>>)>>)
}

\* JSON in and out, through a function that hands it on and one that keeps
\* it for another host to change.
Obj(x, v) == [y \in {x} |-> v]
Json == {
  Src(<<Def("echo", <<"x">>, <<Return(V("x"))>>)>>),
  Src(<<Def("keep", <<"x">>, <<Assigned("k", V("x")), Return(V("k"))>>)>>),
  Src(<<Do(Call("push", <<V("k"), I(1)>>))>>),
  Src(<<Do(HashLiteral(<<>>, <<<<S("1"), I(1)>>, <<I(1), V("k")>>>>))>>),
  Req("echo", <<JBool(FALSE)>>), Req("echo", <<JNull>>),
  Req("echo", <<JArr(<<JNum(1), JArr(<<JStr("a")>>), JBool(TRUE)>>)>>),
  Req("echo", <<JObj(Obj("1", JArr(<<JNull>>)))>>),
  Req("keep", <<JArr(<<JNum(7)>>)>>), Req("nosuch", <<>>),
  [kind |-> "garbage"]
}

\* Every place that receives a value receives an error, and would keep it.
Boom == V("nosuch")
Tried(x, e) == TryStatement(Block(<<LetStatement(x, e)>>), "", Block(<<>>), None)
Callbacks == <<"map", "filter", "reduce", "find", "any", "all", "group_by">>
Class == ClassStatement("C", "", <<[name |-> "f", default |-> Boom]>>, Nothing)
Errors == {
  Load(<<Def("bad", <<"v">>, <<Return(Boom)>>), Class>>),
  Src(<<Assigned("e", Arr(<<I(1), SpreadExpression(Arr(<<Boom>>))>>))>>),
  Src(<<Assigned("e", HashLiteral(<<>>, <<<<S("a"), I(1)>>,
                                          <<S("b"), Boom>>>>))>>),
  Src(<<Assigned("e", TupleLiteral(<<I(1), Boom>>))>>),
  Src([i \in DOMAIN Callbacks |->
         Tried("e", Call(Callbacks[i], <<Arr(<<I(1), I(2)>>), V("bad")>>))]),
  Src(<<Tried("e", CallExpression(Call("compose", <<V("len"), V("bad")>>),
                                  <<I(1)>>)),
        Tried("e", CallExpression(Call("curry", <<V("bad")>>), <<I(1)>>))>>),
  Src(<<ConstStatement("e", NewExpression("C", <<>>))>>),
  Src(<<Do(Call("push", <<V("a"), Call("bad", <<I(1)>>)>>))>>),
  Src(<<LetStatement("a", Arr(<<I(1)>>)), PutAt(V("a"), I(0), Boom)>>),
  Src(<<Def("d", <<"x">>, <<Return(V("x"))>>),
        LetStatement("e", Call("d", <<NamedArgument("x", Boom)>>))>>),
  Src(<<LetStatement("e", OptionalChainExpression(V("a"),
          <<[kind |-> "index", index |-> Boom]>>))>>),
  Src(<<TryStatement(Block(<<ThrowStatement(Boom)>>), "e",
                     Block(<<LetStatement("f", V("e"))>>),
                     Block(<<LetStatement("g", Boom)>>))>>)
}
=============================================================================
