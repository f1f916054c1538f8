------------------------------ MODULE Written ------------------------------
(***************************************************************************)
(* How a syntax tree is written down: the concrete syntax of NvS, given    *)
(* the other way round than the parser reads it, with parentheses only     *)
(* where the levels of the operators ask for them.                         *)
(***************************************************************************)
EXTENDS Ast
LOCAL INSTANCE TLC
LOCAL INSTANCE SequencesExt

\* Levels: an operand of a lower level than its place asks for is put in
\* parentheses.
Atomic == 20
Access == 11   \* calls, members, indices, x++
OperatorLevel(op) ==
    CASE op = "??" -> 2
      [] op \in {"&&", "||"} -> 3
      [] op \in {"==", "!=", "in"} -> 5
      [] op \in {"<", ">", "<=", ">="} -> 7
      [] op \in {"+", "-"} -> 8
      [] op = "**" -> 10
      [] OTHER -> 9
Level(e) ==
    CASE e.k = "InfixExpression" -> OperatorLevel(e.op)
      [] e.k = "PrefixExpression" -> 10
      [] e.k = "RangeExpression" -> 6
      [] e.k \in {"TernaryExpression", "AssignExpression",
                  "IndexAssignExpression", "MemberAssignExpression",
                  "SpreadExpression"} -> 1
      [] e.k \in {"CallExpression", "MemberExpression", "IndexExpression",
                  "PostfixExpression", "OptionalChainExpression"} -> Access
      [] OTHER -> Atomic

-----------------------------------------------------------------------------
(* Text: a sequence of tokens, each a sequence of glyphs.                  *)

\* One after the other; by halves, as texts are long.
RECURSIVE Joined(_)
Joined(lists) ==
    LET half == Len(lists) \div 2
    IN  CASE lists = <<>> -> <<>>
          [] Len(lists) = 1 -> lists[1]
          [] OTHER -> Joined(SubSeq(lists, 1, half))
                      \o Joined(SubSeq(lists, half + 1, Len(lists)))

RECURSIVE Numeral(_)
Numeral(n) == IF n < 10 THEN <<ToString(n)>>
              ELSE Numeral(n \div 10) \o <<ToString(n % 10)>>

Marks == {"=", "+", "-", "!", "*", "/", "%", "<", ">", "&", "|", "^", ",",
          ";", ":", "?", "(", ")", "{", "}", "[", "]", ".", "@", "\""}
\* Marks that are tokens whatever stands next to them.
Loners == {",", ";", "(", ")", "{", "}", "[", "]", "@", "\""}
\* Whether two tokens would be read as one, or as others, without a blank.
Glue(a, b) ==
    \/ a \notin Marks /\ b \notin Marks
    \/ a \in Marks \ Loners /\ b \in Marks \ Loners

\* The glyphs of tokens, with blanks only where they are needed.
Spaced(tokens) ==
    Joined([i \in DOMAIN tokens |->
              IF i > 1 /\ Glue(Last(tokens[i - 1]), tokens[i][1])
              THEN <<" ">> \o tokens[i] ELSE tokens[i]])

W1(x) == <<<<x>>>>
\* The characters of an operator.
Op(op) == CASE op \in {"==", "<<", ">>", "**", "&&", "||", "++", "--", "??"} ->
                 LET c == CASE op = "==" -> "=" [] op = "<<" -> "<"
                            [] op = ">>" -> ">" [] op = "**" -> "*"
                            [] op = "&&" -> "&" [] op = "||" -> "|"
                            [] op = "++" -> "+" [] op = "--" -> "-"
                            [] op = "??" -> "?"
                 IN  <<<<c, c>>>>
            [] op = "!=" -> <<<<"!", "=">>>>
            [] op = "<=" -> <<<<"<", "=">>>>
            [] op = ">=" -> <<<<">", "=">>>>
            [] OTHER -> W1(op)
Commas(lists) ==
    FoldLeft(LAMBDA done, l : IF done = <<>> THEN l ELSE done \o W1(",") \o l,
             <<>>, lists)
Parens(ts) == W1("(") \o ts \o W1(")")
Curly(ts) == W1("{") \o ts \o W1("}")
Quoted(x) == <<<<"\"">> \o (IF x = "" THEN <<>> ELSE <<x>>) \o <<"\"">>>>

Names(xs) == Commas([i \in DOMAIN xs |-> W1(xs[i])])
Annotation(ann) ==
    LET names == FoldLeft(LAMBDA done, x : IF done = <<>> THEN W1(x)
                                           ELSE done \o W1("|") \o W1(x),
                          <<>>, ann.names)
    IN  CASE ~ann.array -> names
          [] Len(ann.names) = 1 -> names \o W1("[") \o W1("]")
          [] OTHER -> W1("[") \o names \o W1("]")
Annotated(ann) == IF ann = None THEN <<>> ELSE W1(":") \o Annotation(ann)
Pattern(p) ==
    IF p.k = "ArrayPattern"
    THEN LET names == [i \in DOMAIN p.names |-> W1(p.names[i])]
             rest == IF p.rest = "" THEN <<>> ELSE <<<<<<".", ".", ".">>, <<p.rest>>>>>>
         IN  W1("[") \o Commas(names \o rest) \o W1("]")
    ELSE Curly(Commas([i \in DOMAIN p.entries |->
           LET x == p.entries[i]
           IN  IF x.key = x.value THEN W1(x.key)
               ELSE W1(x.key) \o W1(":") \o W1(x.value)]))

-----------------------------------------------------------------------------

\* Every recursion goes through Tokens: of an expression at a level, of a
\* statement, of a sequence of either.
RECURSIVE Tokens(_, _)

E(e, level) == Tokens(e, level)
Es(es) == Commas([i \in DOMAIN es |-> E(es[i], 1)])
Blk(b) == Curly(Joined([i \in DOMAIN b.stmts |-> Tokens(b.stmts[i], 0)]))
OptElse(b) == IF b = None THEN <<>> ELSE W1("else") \o Blk(b)
Labelled(l) == IF l = "" THEN <<>> ELSE W1(l) \o W1(":")
Labels(l) == IF l = "" THEN <<>> ELSE W1(l)

Parameters(ps) ==
    Parens(Commas([i \in DOMAIN ps |->
      W1(ps[i].name) \o Annotated(ps[i].type)
      \o (IF ps[i].default = None THEN <<>>
          ELSE W1("=") \o E(ps[i].default, 1))]))
Callable(fn) == Parameters(fn.params) \o Annotated(fn.returns) \o Blk(fn.body)

Arm(a) == W1("case") \o (IF a.pattern.k = "HashPattern" THEN Pattern(a.pattern)
                         ELSE E(a.pattern, 1))
          \o (IF a.guard = None THEN <<>> ELSE W1("if") \o E(a.guard, 1))
          \o W1(":") \o Blk(a.body)
Link(l) == CASE l.kind = "member" -> W1(l.name)
             [] l.kind = "index" -> W1("[") \o E(l.index, 1) \o W1("]")
             [] l.kind = "call" -> Parens(Es(l.args))
\* A call or an index follows a link as it stands, a member needs its dot.
Links(ls) == Joined([i \in DOMAIN ls |->
                       (CASE i = 1 -> <<<<"?", ".">>>>
                          [] ls[i].kind = "member" -> W1(".")
                          [] OTHER -> <<>>) \o Link(ls[i])])
\* else if, rather than an if in the block of an else.
Else(b) ==
    CASE b = None -> <<>>
      [] Len(b.stmts) = 1 /\ b.stmts[1].k = "ExpressionStatement"
                          /\ b.stmts[1].value.k = "IfExpression" ->
           W1("else") \o E(b.stmts[1].value, 1)
      [] OTHER -> W1("else") \o Blk(b)

Slice(e) ==
    E(e.left, Access) \o W1("[")
    \o (IF e.end # None /\ e.index = IntegerLiteral(0) THEN <<>>
        ELSE E(e.index, 1))
    \o (CASE e.end = None -> <<>>
          [] e.end = IntegerLiteral(-1) -> W1(":")
          [] OTHER -> W1(":") \o E(e.end, 1))
    \o W1("]")

\* An interpolated string is one token.
Interpolated(parts) ==
    <<<<"\"">> \o Joined([i \in DOMAIN parts |->
        IF parts[i].k = "StringLiteral" THEN <<parts[i].str>>
        ELSE <<"$", "{">> \o Spaced(E(parts[i], 1)) \o <<"}">>]) \o <<"\"">>>>

Expression(e) ==
    CASE e.k = "IntegerLiteral" -> <<Numeral(e.int)>>
      [] e.k = "FloatLiteral" -> <<e.digits>>
      [] e.k = "StringLiteral" -> Quoted(e.str)
      [] e.k = "Boolean" -> W1(IF e.bool THEN "true" ELSE "false")
      [] e.k = "NullLiteral" -> W1("null")
      [] e.k = "Identifier" -> W1(e.name)
      [] e.k = "ThisExpression" -> W1("this")
      [] e.k = "PrefixExpression" -> W1(e.op) \o E(e.right, Access)
      [] e.k = "PostfixExpression" -> E(e.operand, Access) \o Op(e.op)
      [] e.k = "InfixExpression" ->
           E(e.left, OperatorLevel(e.op)) \o Op(e.op)
           \o E(e.right, OperatorLevel(e.op) + 1)
      [] e.k = "RangeExpression" ->
           IF e.inclusive
           THEN E(e.start, Access) \o <<<<".", ".">>>> \o E(e.end, 7)
           ELSE E(e.start, 6) \o <<<<".", ".", ".">>>> \o E(e.end, 7)
      [] e.k = "TernaryExpression" ->
           E(e.cond, 2) \o W1("?") \o E(e.then, 1) \o W1(":") \o E(e.else, 1)
      [] e.k = "AssignExpression" -> W1(e.name) \o W1("=") \o E(e.value, 1)
      [] e.k = "IndexAssignExpression" ->
           E(e.left, Access) \o W1("[") \o E(e.index, 1) \o W1("]")
           \o W1("=") \o E(e.value, 1)
      [] e.k = "MemberAssignExpression" ->
           E(e.object, Access) \o W1(".") \o W1(e.name) \o W1("=") \o E(e.value, 1)
      [] e.k = "MemberExpression" -> E(e.object, Access) \o W1(".") \o W1(e.name)
      [] e.k = "IndexExpression" -> Slice(e)
      [] e.k = "CallExpression" -> E(e.fn, Access) \o Parens(Es(e.args))
      [] e.k = "NamedArgument" -> W1(e.name) \o W1(":") \o E(e.value, 1)
      [] e.k = "NewExpression" -> W1("new") \o W1(e.class) \o Parens(Es(e.args))
      [] e.k = "SpreadExpression" -> <<<<".", ".", ".">>>> \o E(e.value, 1)
      [] e.k = "ArrayLiteral" -> W1("[") \o Es(e.elems) \o W1("]")
      [] e.k = "TupleLiteral" ->
           Parens(Es(e.elems) \o (IF Len(e.elems) = 1 THEN W1(",") ELSE <<>>))
      [] e.k = "HashLiteral" ->
           Curly(Commas([i \in DOMAIN e.spreads |-> E(e.spreads[i], 1)]
                        \o [i \in DOMAIN e.pairs |->
                              E(e.pairs[i][1], 1) \o W1(":") \o E(e.pairs[i][2], 1)]))
      [] e.k = "InterpolatedString" -> Interpolated(e.parts)
      [] e.k = "IfExpression" ->
           W1("if") \o Parens(E(e.cond, 1)) \o Blk(e.then) \o Else(e.else)
      [] e.k = "FunctionLiteral" -> W1("fn") \o Callable(e)
      [] e.k = "MatchExpression" ->
           W1("match") \o Parens(E(e.value, 1))
           \o Curly(Joined([i \in DOMAIN e.arms |-> Arm(e.arms[i])])
                    \o (IF e.default = None THEN <<>>
                        ELSE W1("default") \o W1(":") \o Blk(e.default)))
      [] e.k = "OptionalChainExpression" -> E(e.base, Access) \o Links(e.links)

-----------------------------------------------------------------------------

Class(c) ==
    W1("class") \o W1(c.name)
    \o (IF c.parent = "" THEN <<>> ELSE W1("extends") \o W1(c.parent))
    \o Curly(Joined([i \in DOMAIN c.fields |->
                       W1("let") \o W1(c.fields[i].name)
                       \o (IF c.fields[i].default = None THEN <<>>
                           ELSE W1("=") \o E(c.fields[i].default, 1)) \o W1(";")])
             \o LET ms == SetToSeq(DOMAIN c.methods)
                IN  Joined([i \in DOMAIN ms |->
                      (IF c.methods[ms[i]].static THEN W1("static") ELSE <<>>)
                      \o W1(ms[i]) \o Callable(c.methods[ms[i]])]))
Signature(m) ==
    W1(m.name) \o Parens(Commas([i \in 1..m.arity |-> W1("x")])) \o W1(";")
Clause(e) == IF e = None THEN <<>> ELSE E(e, 1)
\* The first clause of a for, with its semicolon.
Init(st) == IF st = None THEN W1(";") ELSE Tokens(st, 0)
End == W1(";")

Statement(st) ==
    CASE st.k = "ExpressionStatement" -> E(st.value, 1) \o End
      [] st.k = "LetStatement" /\ st.value.k = "FunctionLiteral" ->
           W1("fn") \o W1(st.name) \o Callable(st.value)
      [] st.k = "LetStatement" ->
           W1("let") \o W1(st.name) \o W1("=") \o E(st.value, 1) \o End
      [] st.k = "TypedLetStatement" ->
           W1("let") \o W1(st.name) \o Annotated(st.type) \o W1("=")
           \o E(st.value, 1) \o End
      [] st.k = "ConstStatement" ->
           W1("const") \o W1(st.name) \o W1("=") \o E(st.value, 1) \o End
      [] st.k = "DestructureLetStatement" ->
           W1(IF st.const THEN "const" ELSE "let") \o Pattern(st.pattern)
           \o W1("=") \o E(st.value, 1) \o End
      [] st.k = "ReturnStatement" -> W1("return") \o E(st.value, 1) \o End
      [] st.k = "PrintStatement" -> W1("print") \o E(st.value, 1) \o End
      [] st.k = "ThrowStatement" -> W1("throw") \o E(st.value, 1) \o End
      [] st.k = "YieldStatement" -> W1("yield") \o Clause(st.value) \o End
      [] st.k = "DeferStatement" -> W1("defer") \o
           (IF st.call.fn = Identifier("print")
            THEN W1("print") \o E(st.call.args[1], 1)
            ELSE E(st.call, 1)) \o End
      [] st.k = "BreakStatement" -> W1("break") \o Labels(st.label) \o End
      [] st.k = "ContinueStatement" -> W1("continue") \o Labels(st.label) \o End
      [] st.k = "WhileStatement" ->
           Labelled(st.label) \o W1("while") \o Parens(E(st.cond, 1))
           \o Blk(st.body) \o OptElse(st.orElse)
      [] st.k = "ForStatement" ->
           Labelled(st.label) \o W1("for")
           \o Parens(Init(st.init) \o Clause(st.cond) \o End \o Clause(st.post))
           \o Blk(st.body) \o OptElse(st.orElse)
      [] st.k = "ForInStatement" ->
           Labelled(st.label) \o W1("for")
           \o Parens(W1(st.name) \o W1("in") \o E(st.iterable, 1))
           \o Blk(st.body) \o OptElse(st.orElse)
      [] st.k = "TryStatement" ->
           W1("try") \o Blk(st.body)
           \o (IF st.catch = None THEN <<>>
               ELSE W1("catch") \o (IF st.catchId = "" THEN <<>>
                                    ELSE Parens(W1(st.catchId))) \o Blk(st.catch))
           \o (IF st.finally = None THEN <<>> ELSE W1("finally") \o Blk(st.finally))
      [] st.k = "ImportStatement" -> W1("import") \o Quoted(st.path) \o End
      [] st.k = "ImportModuleStatement" -> W1("import") \o W1(st.path) \o End
      [] st.k = "ModuleStatement" -> W1("module") \o W1(st.path) \o End
      [] st.k = "EnumStatement" -> W1("enum") \o W1(st.name) \o Curly(Names(st.members))
      [] st.k = "RecordStatement" ->
           W1("record") \o W1(st.name) \o Parens(Names(st.fields)) \o End
      [] st.k = "ClassStatement" -> Class(st)
      [] st.k = "InterfaceDecl" ->
           W1("interface") \o W1(st.name)
           \o Curly(Joined([i \in DOMAIN st.methods |-> Signature(st.methods[i])]))
      [] st.k = "DecoratorStatement" ->
           W1("@") \o W1(st.decorator) \o Tokens(st.function, 0)

Tokens(n, level) ==
    CASE level = 0 -> Statement(n)
      [] Level(n) < level -> Parens(Expression(n))
      [] OTHER -> Expression(n)

\* The text of some statements.
Text(stmts) == Spaced(Joined([i \in DOMAIN stmts |-> Tokens(stmts[i], 0)]))
=============================================================================
