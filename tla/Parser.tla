------------------------------- MODULE Parser -------------------------------
(***************************************************************************)
(* The parser (src/internal/parser/parser.go): recursive descent over the  *)
(* tokens of Lexer, Pratt style for expressions, building the trees of     *)
(* Ast.  One operator per Go function, under its name.                     *)
(*                                                                         *)
(* A parser state p has the tokens, the place of curToken, the number of   *)
(* errors, pendingCloses, and whether a nil pointer was dereferenced.  A   *)
(* function answers a node, None for Go's nil, with the state it leaves.   *)
(* Left out: the text of errors, `pub`, documentation, type parameters and *)
(* arguments once they are parsed.                                         *)
(***************************************************************************)
EXTENDS Lexer, Ast
LOCAL INSTANCE SequencesExt

CONSTANT MaxProbe  \* how many tokens probeTypeArgsCall looks at (64)

Start(toks) == [toks |-> toks, i |-> 1, errs |-> 0, closes |-> 0,
                panic |-> FALSE]
R(node, p) == [node |-> node, p |-> p]

\* A nil pointer of a concrete type: as a statement it is not nil.
TypedNil(k) == [k |-> "TypedNil", of |-> k]
Typed(r, k) == IF r.node = None THEN R(TypedNil(k), r.p) ELSE r

Tok(p, i) == p.toks[IF i <= Len(p.toks) THEN i ELSE Len(p.toks)]
Cur(p) == Tok(p, p.i)
Peek(p) == Tok(p, p.i + 1)
curTokenIs(p, type) == Cur(p).type = type
peekTokenIs(p, type) == Peek(p).type = type
nextToken(p) == [p EXCEPT !.i = @ + 1]
Skip2(p) == nextToken(nextToken(p))
Optionally(p, type) == IF peekTokenIs(p, type) THEN nextToken(p) ELSE p
Fail(p) == [p EXCEPT !.errs = @ + 1]
Failed(p) == R(None, Fail(p))
\* A panic ends the parse.
Panicked(p) == [p EXCEPT !.panic = TRUE, !.i = Len(p.toks)]

\* if !p.expectPeek(type) { return nil }
Expect(p, type, Rest(_)) ==
    IF peekTokenIs(p, type) THEN Rest(nextToken(p)) ELSE Failed(p)
\* if node == nil { return nil }
Need(r, Rest(_, _)) == IF r.node = None THEN r ELSE Rest(r.node, r.p)
\* r's node built into another, nil or not.
Map(r, Build(_)) == R(Build(r.node), r.p)
Terminated(r) == R(r.node, Optionally(r.p, ";"))

LOWEST == 1
ASSIGN_PREC == 2
ANDOR == 3
PIPELINE == 4
EQUALS == 5
RANGE == 6
LESSGREATER == 7
SUM == 8
PRODUCT == 9
PREFIX == 10
CALL == 11
INDEX == 12
POSTFIX == 13
\* A slip: power binds as loosely as the products.
POWERFlat == PRODUCT
POWER == PRODUCT + 1

\* precedences, of the tokens that have an infix function.
precedence(type) ==
    CASE type \in {"=", "+=", "-=", "*=", "/=", "?", "??"} -> ASSIGN_PREC
      [] type \in {"&&", "||"} -> ANDOR
      [] type = "|>" -> PIPELINE
      [] type \in {"in", "==", "!="} -> EQUALS
      [] type = "..." -> RANGE
      [] type \in {"<", ">", "<=", ">="} -> LESSGREATER
      [] type \in {"+", "-"} -> SUM
      [] type \in {"/", "*", "%", "&", "|", "^", "<<", ">>"} -> PRODUCT
      [] type = "**" -> POWER
      [] type = "(" -> CALL
      [] type \in {"[", ".", "::", "?."} -> INDEX
      [] type \in {"++", "--"} -> POSTFIX
      [] OTHER -> LOWEST

-----------------------------------------------------------------------------
(* Every recursion of the parser goes through Parse, by the rule's name.   *)

RECURSIVE Parse(_, _, _), Commas(_, _, _, _), Statements(_, _),
          typeList(_, _, _), parseUnion(_, _), parseFields(_, _),
          parseNamePattern(_, _), parseEntryPattern(_, _), probe(_, _, _),
          parseArguments(_, _), parseTupleRest(_, _), programFrom(_, _)

Expression(p) == Parse("expression", LOWEST, p)
\* The expression behind the next token.
NextExpression(p) == Expression(nextToken(p))
Statement(p) == Parse("statement", None, p)
Block(p) == Parse("block", None, p)
Body(p) == Parse("body", None, p)
\* `{` and the block behind it.
Braced(p, Rest(_, _)) ==
    Expect(p, "{", LAMBDA q : Need(Block(q), Rest))
TypeHere(p) == Parse("type", None, p)

\* Items between commas, up to the first token that is none, from the first
\* token of the first item on.  A strict list ends at an item that is nil.
Commas(rule, strict, done, p) ==
    LET r == Parse(rule, IF rule = "expression" THEN LOWEST ELSE None, p)
        items == Append(done, r.node)
    IN  IF peekTokenIs(r.p, ",") /\ ~(strict /\ r.node = None)
        THEN Commas(rule, strict, items, Skip2(r.p))
        ELSE R(items, r.p)

Whole(items) == \A i \in DOMAIN items : items[i] # None
Names(items) == [i \in DOMAIN items |-> items[i].name]

-----------------------------------------------------------------------------
(* Types.  Arguments and signatures are checked for syntax and erased.     *)

Ann(name) == TypeAnnotation(<<name>>, FALSE)
\* The names a member contributes to a union.
memberNames(ann) == IF ann.array THEN <<"array">> ELSE ann.names
withNull(r) ==
    IF peekTokenIs(r.p, "?")
    THEN R(TypeAnnotation(memberNames(r.node) \o <<"null">>, FALSE),
           nextToken(r.p))
    ELSE r

\* <A, B<C>, D>, or <T, U: Bound>: `>>` closes this list and the one around
\* it.  curToken is the `<` or the comma.
typeList(params, n, p) ==
    LET q == nextToken(p)
        bounded == peekTokenIs(q, ":")
        r == IF ~params THEN TypeHere(q)
             ELSE IF ~curTokenIs(q, "IDENT") THEN Failed(q)
             ELSE IF bounded THEN TypeHere(Skip2(q))
             ELSE R(Ann(Cur(q).lit), q)
        eaten == r.p.closes > 0 /\ (bounded \/ ~params)
    IN  Need(r, LAMBDA ann, at :
          CASE eaten -> R([k |-> "TypeList", n |-> n + 1],
                          [at EXCEPT !.closes = @ - 1])
            [] peekTokenIs(at, ",") -> typeList(params, n + 1, nextToken(at))
            [] peekTokenIs(at, ">") -> R([k |-> "TypeList", n |-> n + 1],
                                         nextToken(at))
            [] peekTokenIs(at, ">>") -> R([k |-> "TypeList", n |-> n + 1],
                                          [nextToken(at) EXCEPT !.closes = @ + 1])
            [] OTHER -> Failed(at))

parseTypeArgList(p) == typeList(FALSE, 0, nextToken(p))
parseTypeParamList(p) == typeList(TRUE, 0, nextToken(p))

\* The type parameters if there are any, then the rest.
Generic(p, Rest(_)) ==
    IF peekTokenIs(p, "<")
    THEN Need(Parse("typeParams", None, p), LAMBDA n, q : Rest(q))
    ELSE Rest(p)

parseParamAnnotation(p) ==
    IF peekTokenIs(p, ":") THEN TypeHere(Skip2(p)) ELSE R(None, p)
parseReturnAnnotation(p) ==
    IF peekTokenIs(p, ":") \/ peekTokenIs(p, "->") THEN TypeHere(Skip2(p))
    ELSE R(None, p)

parseFnTypeAnnotation(p) ==
    Expect(p, "(", LAMBDA q :
      LET ps == IF peekTokenIs(q, ")") THEN R(<<>>, q)
                ELSE Commas("type", TRUE, <<>>, nextToken(q))
      IN  IF ~Whole(ps.node) THEN R(None, ps.p)
          ELSE Expect(ps.p, ")", LAMBDA at :
                 Map(parseReturnAnnotation(at), LAMBDA ret : Ann("function"))))

parseSingleTypeAnnotation(p) ==
    CASE curTokenIs(p, "fn") -> parseFnTypeAnnotation(p)
      [] curTokenIs(p, "[") ->
           Need(TypeHere(nextToken(p)), LAMBDA elem, q :
             Expect(q, "]", LAMBDA at : R([elem EXCEPT !.array = TRUE], at)))
      [] Cur(p).type \in {"IDENT", "null"} ->
           LET args == IF peekTokenIs(p, "<") THEN parseTypeArgList(p)
                       ELSE R(Ann(""), p)
           IN  Need(args, LAMBDA n, q :
                 IF peekTokenIs(q, "[")
                 THEN Expect(nextToken(q), "]", LAMBDA at :
                        R(TypeAnnotation(<<Cur(p).lit>>, TRUE), at))
                 ELSE R(Ann(Cur(p).lit), q))
      [] OTHER -> Failed(p)

parseUnion(ann, p) ==
    IF ~peekTokenIs(p, "|") THEN R(ann, p)
    ELSE Need(Parse("singleType", None, Skip2(p)), LAMBDA m, q :
           LET r == withNull(R(m, q))
           IN  parseUnion(TypeAnnotation(memberNames(ann) \o memberNames(r.node),
                                         FALSE), r.p))

parseTypeAnnotation(p) ==
    CASE curTokenIs(p, "fn") -> parseFnTypeAnnotation(p)
      [] Cur(p).type \in {"IDENT", "null", "["} ->
           Need(parseSingleTypeAnnotation(p), LAMBDA m, q :
             LET first == withNull(R(m, q)) IN parseUnion(first.node, first.p))
      [] OTHER -> Failed(p)

-----------------------------------------------------------------------------
(* Functions                                                               *)

\* Any token will do as a parameter's name.
parseParameter(p) ==
    LET ann == parseParamAnnotation(p)
        init == IF peekTokenIs(ann.p, "=") THEN Expression(Skip2(ann.p))
                ELSE R(None, ann.p)
    IN  R(Param(Cur(p).lit, init.node, ann.node), init.p)

\* From `(` to `)`; no parameters at all when the list is broken.
parseFunctionParameters(p) ==
    IF peekTokenIs(p, ")") THEN R(<<>>, nextToken(p))
    ELSE LET ps == Commas("parameter", FALSE, <<>>, nextToken(p))
         IN  IF peekTokenIs(ps.p, ")") THEN R(ps.node, nextToken(ps.p))
             ELSE R(<<>>, Fail(ps.p))

\* Type parameters, parameters, return annotation and body.
Signature(p, Build(_, _, _)) ==
    Generic(p, LAMBDA at : Expect(at, "(", LAMBDA q :
      LET ps == parseFunctionParameters(q)
          ret == parseReturnAnnotation(ps.p)
      IN  Braced(ret.p, LAMBDA body, rest :
            R(Build(ps.node, body, ret.node), rest))))

parseFunctionLiteral(p) == Signature(p, FunctionLiteral)

parseFunctionStatement(p) ==
    Expect(p, "IDENT", LAMBDA q :
      Need(parseFunctionLiteral(q), LAMBDA fn, rest :
        Terminated(R(LetStatement(Cur(q).lit, fn), rest))))

\* { .. } or a single statement.
parseBodyBlock(p) ==
    IF peekTokenIs(p, "{") THEN Block(nextToken(p))
    ELSE Need(Statement(nextToken(p)), LAMBDA stmt, q :
           R(BlockStatement(<<stmt>>), q))

\* Up to `}`, or to the end of the text: that is no error.
Statements(done, p) ==
    IF Cur(p).type \in {"}", "EOF"} THEN R(BlockStatement(done), p)
    ELSE LET r == Statement(p)
         IN  Statements(IF r.node = None THEN done ELSE Append(done, r.node),
                        nextToken(r.p))
parseBlockStatement(p) == Statements(<<>>, nextToken(p))

\* An else behind a loop, or none; a broken one is none.
parseLoopElse(p) ==
    IF ~peekTokenIs(p, "else") THEN R(None, p)
    ELSE Braced(nextToken(p), R)

-----------------------------------------------------------------------------
(* Classes, interfaces, enums, records                                     *)

isModifier(p) ==
    \/ curTokenIs(p, "pub")
    \/ /\ curTokenIs(p, "IDENT") /\ Cur(p).lit = "static"
       /\ Peek(p).type \in {"fn", "pub", "IDENT"}

Methods(ms) == [name \in {ms[i].name : i \in DOMAIN ms} |->
                  ms[CHOOSE i \in DOMAIN ms :
                       /\ ms[i].name = name
                       /\ \A j \in DOMAIN ms : ms[j].name = name => j <= i].fn]

parseClassField(p) ==
    Expect(p, "IDENT", LAMBDA q :
      LET ann == parseParamAnnotation(q)
      IN  IF peekTokenIs(q, ":") /\ ann.node = None THEN ann
          ELSE LET init == IF peekTokenIs(ann.p, "=") THEN Expression(Skip2(ann.p))
                           ELSE R(None, ann.p)
               IN  Terminated(R([k |-> "Field", name |-> Cur(q).lit,
                                 default |-> init.node], init.p)))

\* name(params): type { .. }; defaults of parameters are dropped.
parseMethod(static, p) ==
    Signature(p, LAMBDA ps, body, ret :
      [k |-> "Method", name |-> Cur(p).lit,
       fn |-> [FunctionLiteral([i \in DOMAIN ps |-> [ps[i] EXCEPT !.default = None]],
                               body, ret) EXCEPT !.static = static]])

\* The members of a class body, [fields, methods]; other tokens are skipped.
parseMembers(c, p) ==
    LET Mods[i \in p.i..Len(p.toks)] ==
            IF isModifier([p EXCEPT !.i = i]) THEN Mods[i + 1] ELSE i
        at == [p EXCEPT !.i = Mods[p.i]]
        static == \E i \in p.i..(at.i - 1) : p.toks[i].type = "IDENT"
        named == IF curTokenIs(at, "fn") THEN nextToken(at) ELSE at
    IN  CASE Cur(p).type \in {"}", "EOF"} -> R(c, p)
          [] Cur(at).type \in {"let", "const"} ->
               IF static THEN Failed(at)
               ELSE Need(parseClassField(at), LAMBDA f, q :
                      Parse("members", [c EXCEPT !.fields = Append(@, f)],
                            nextToken(q)))
          [] ~curTokenIs(named, "IDENT") -> Parse("members", c, nextToken(named))
          [] OTHER ->
               Need(parseMethod(static, named), LAMBDA m, q :
                 Parse("members", [c EXCEPT !.methods = Append(@, m)],
                       nextToken(q)))

parseClassStatement(p) ==
    Expect(p, "IDENT", LAMBDA q : Generic(q, LAMBDA g :
      LET extends == peekTokenIs(g, "extends")
          up == IF extends THEN Expect(nextToken(g), "IDENT",
                                       LAMBDA at : R(Ann(Cur(at).lit), at))
                ELSE R(Ann(""), g)
      IN  Need(up, LAMBDA parent, at : Expect(at, "{", LAMBDA open :
            Need(Parse("members", [k |-> "Class", fields |-> <<>>,
                                   methods |-> <<>>], nextToken(open)),
                 LAMBDA c, rest :
                   R(ClassStatement(Cur(q).lit, parent.names[1],
                       [i \in DOMAIN c.fields |->
                          [name |-> c.fields[i].name,
                           default |-> c.fields[i].default]],
                       Methods(c.methods)), rest))))))

\* The parameters of a signature, by their number.
parseSignatureParams(p) ==
    IF peekTokenIs(p, ")") THEN R(<<>>, p)
    ELSE Commas("signatureParam", TRUE, <<>>, nextToken(p))
parseSignatureParam(p) ==
    IF curTokenIs(p, "IDENT") THEN R(Ann(""), parseParamAnnotation(p).p)
    ELSE Failed(p)

\* name(params): type, after an optional `fn`; type parameters are an error,
\* and skipped.
parseSignature(p) ==
    LET q == IF peekTokenIs(p, "<") THEN Parse("typeParams", None, Fail(p)).p
             ELSE p
    IN  Expect(q, "(", LAMBDA open :
          LET ps == parseSignatureParams(open)
          IN  IF ~Whole(ps.node) THEN R(None, ps.p)
              ELSE Expect(ps.p, ")", LAMBDA at :
                     Terminated(R([k |-> "Signature", name |-> Cur(p).lit,
                                   arity |-> Len(ps.node)],
                                  parseReturnAnnotation(at).p))))

parseSignatures(ms, p) ==
    LET named == IF curTokenIs(p, "fn") THEN nextToken(p) ELSE p
    IN  CASE Cur(p).type \in {"}", "EOF"} -> R([k |-> "Signatures", elems |-> ms], p)
          [] curTokenIs(p, ";") -> Parse("signatures", ms, nextToken(p))
          [] ~curTokenIs(named, "IDENT") -> Failed(named)
          [] OTHER -> Need(parseSignature(named), LAMBDA m, q :
                        Parse("signatures", Append(ms, m), nextToken(q)))

parseInterfaceStatement(p) ==
    Expect(p, "IDENT", LAMBDA q : Expect(q, "{", LAMBDA open :
      Need(Parse("signatures", <<>>, nextToken(open)), LAMBDA ms, rest :
        Terminated(R(InterfaceDecl(Cur(q).lit,
                       [i \in DOMAIN ms.elems |->
                          [name |-> ms.elems[i].name,
                           arity |-> ms.elems[i].arity]]), rest)))))

\* Members that are no names are skipped.
parseEnumStatement(p) ==
    Expect(p, "IDENT", LAMBDA q : Expect(q, "{", LAMBDA open :
      LET ms == IF peekTokenIs(open, "}") THEN R(<<>>, open)
                ELSE Commas("name", FALSE, <<>>, nextToken(open))
          named == SelectSeq(ms.node, LAMBDA m : m # None)
      IN  Expect(ms.p, "}", LAMBDA rest :
            R(EnumStatement(Cur(q).lit, Names(named)), rest))))

parseFields(names, p) ==
    CASE ~curTokenIs(p, "IDENT") \/ Cur(p).lit \in ToSet(names) -> Failed(p)
      [] peekTokenIs(p, ",") -> parseFields(Append(names, Cur(p).lit), Skip2(p))
      [] OTHER -> R([k |-> "Fields", names |-> Append(names, Cur(p).lit)], p)

parseRecordStatement(p) ==
    Expect(p, "IDENT", LAMBDA q : Expect(q, "(", LAMBDA open :
      Need(IF peekTokenIs(open, ")") THEN R([k |-> "Fields", names |-> <<>>], open)
           ELSE parseFields(<<>>, nextToken(open)), LAMBDA fs, at :
        Expect(at, ")", LAMBDA rest :
          Terminated(R(RecordStatement(Cur(q).lit, fs.names), rest))))))

nameHere(p) == IF curTokenIs(p, "IDENT") THEN R(Identifier(Cur(p).lit), p)
               ELSE R(None, p)

-----------------------------------------------------------------------------
(* Statements                                                              *)

\* [a, b, ...rest], from the first name on.
parseNamePattern(names, p) ==
    CASE curTokenIs(p, "...") ->
           Expect(p, "IDENT", LAMBDA q :
             IF peekTokenIs(q, "]")
             THEN R(ArrayPattern(names, Cur(q).lit), nextToken(q))
             ELSE Failed(q))
      [] Cur(p).type \notin {"IDENT", "]", "EOF"} -> Failed(p)
      [] curTokenIs(p, "IDENT") /\ peekTokenIs(p, ",") ->
           parseNamePattern(Append(names, Cur(p).lit), Skip2(p))
      [] OTHER ->
           Expect(p, "]", LAMBDA q :
             R(ArrayPattern(IF curTokenIs(p, "IDENT")
                            THEN Append(names, Cur(p).lit) ELSE names, ""), q))
parseArrayPattern(p) ==
    IF peekTokenIs(p, "]") THEN R(ArrayPattern(<<>>, ""), nextToken(p))
    ELSE parseNamePattern(<<>>, nextToken(p))

\* {x, k: y}, from the first key on.
parseEntryPattern(entries, p) ==
    LET at == IF peekTokenIs(p, ":")
              THEN Expect(nextToken(p), "IDENT", LAMBDA q : nameHere(q))
              ELSE nameHere(p)
        all == Append(entries, [key |-> Cur(p).lit, value |-> at.node.name])
    IN  CASE Cur(p).type \in {"}", "EOF"} ->
               Expect(p, "}", LAMBDA q : R(HashPattern(entries), q))
          [] ~curTokenIs(p, "IDENT") -> Failed(p)
          [] at.node = None -> at
          [] peekTokenIs(at.p, ",") -> parseEntryPattern(all, Skip2(at.p))
          [] OTHER -> Expect(at.p, "}", LAMBDA q : R(HashPattern(all), q))
parseHashPattern(p) ==
    IF peekTokenIs(p, "}") THEN R(HashPattern(<<>>), nextToken(p))
    ELSE parseEntryPattern(<<>>, nextToken(p))

\* `= value`, then what Build makes of the value.
Bind(p, Build(_)) ==
    Expect(p, "=", LAMBDA q : Terminated(Map(NextExpression(q), Build)))

parseDestructureLet(isConst, p) ==
    LET q == nextToken(p)
    IN  Need(IF curTokenIs(q, "[") THEN parseArrayPattern(q)
             ELSE parseHashPattern(q), LAMBDA pattern, at :
          Bind(at, LAMBDA e : DestructureLetStatement(pattern, e, isConst)))

parseLetStatement(p) ==
    IF Peek(p).type \in {"[", "{"} THEN parseDestructureLet(FALSE, p)
    ELSE Expect(p, "IDENT", LAMBDA q :
           LET x == Cur(q).lit
           IN  IF peekTokenIs(q, ":")
               THEN Need(parseParamAnnotation(q), LAMBDA ann, at :
                      Bind(at, LAMBDA e : TypedLetStatement(x, ann, e)))
               ELSE Bind(q, LAMBDA e : LetStatement(x, e)))

parseConstStatement(p) ==
    IF Peek(p).type \in {"[", "{"} THEN parseDestructureLet(TRUE, p)
    ELSE Expect(p, "IDENT", LAMBDA q :
           Bind(q, LAMBDA e : ConstStatement(Cur(q).lit, e)))

parseExpressionStatement(p) == Terminated(Map(Expression(p), ExpressionStatement))
parseReturnStatement(p) == Terminated(Map(NextExpression(p), ReturnStatement))
parsePrintStatement(p) == Terminated(Map(NextExpression(p), PrintStatement))
parseThrowStatement(p) == Terminated(Map(NextExpression(p), ThrowStatement))

parseYieldStatement(p) ==
    Terminated(Map(IF Peek(p).type \in {";", "}", "EOF"} THEN R(None, p)
                   ELSE NextExpression(p), YieldStatement))

\* `defer print e` is a call of print.
parseDeferStatement(p) ==
    IF peekTokenIs(p, "print")
    THEN Terminated(Map(Expression(Skip2(p)), LAMBDA e :
           DeferStatement(CallExpression(Identifier("print"), <<e>>))))
    ELSE Terminated(Map(NextExpression(p), DeferStatement))

\* The label of a break stands on its line.
parseJump(p, Build(_)) ==
    LET labelled == peekTokenIs(p, "IDENT") /\ Peek(p).line = Cur(p).line
    IN  Terminated(IF labelled THEN R(Build(Peek(p).lit), nextToken(p))
                   ELSE R(Build(""), p))
parseBreakStatement(p) == parseJump(p, BreakStatement)
parseContinueStatement(p) == parseJump(p, ContinueStatement)

\* (condition), and what follows.
Condition(p, Rest(_, _)) ==
    Expect(p, "(", LAMBDA q :
      LET c == NextExpression(q)
      IN  Expect(c.p, ")", LAMBDA at : Rest(c.node, at)))

\* A body, an else, and what Build makes of them.
Loop(p, Build(_, _)) ==
    Need(Body(p), LAMBDA body, q :
      Map(parseLoopElse(q), LAMBDA orElse : Build(body, orElse)))

parseWhileStatement(p) ==
    Condition(p, LAMBDA c, q :
      Loop(q, LAMBDA body, orElse : WhileStatement("", c, body, orElse)))

\* The three clauses of a for, from the first token of the first one on.
forInit(p) ==
    LET r == CASE curTokenIs(p, ";") -> R(None, p)
               [] curTokenIs(p, "let") -> parseLetStatement(p)
               [] OTHER -> parseExpressionStatement(p)
    IN  R([init |-> r.node], nextToken(IF curTokenIs(r.p, ";") THEN r.p
                                       ELSE Optionally(r.p, ";")))
forCondition(c) ==
    LET r == IF curTokenIs(c.p, ";") THEN R(None, c.p) ELSE Expression(c.p)
    IN  R(c.node @@ [cond |-> r.node], nextToken(Optionally(r.p, ";")))
forPost(c) ==
    LET r == IF curTokenIs(c.p, ")") THEN R(None, c.p) ELSE Expression(c.p)
    IN  R(c.node @@ [post |-> r.node], r.p)
\* The closing parenthesis is expected behind curToken, which an empty last
\* clause has made the parenthesis itself: that is an error.
parseForBody(clauses) ==
    Expect(clauses.p, ")", LAMBDA q : Loop(q, LAMBDA body, orElse :
      ForStatement("", clauses.node.init, clauses.node.cond, clauses.node.post,
                   body, orElse)))
parseCStyleFor(p) == parseForBody(forPost(forCondition(forInit(p))))

parseForStatement(p) ==
    Expect(p, "(", LAMBDA q :
      IF peekTokenIs(q, "IDENT") /\ peekTokenIs(nextToken(q), "in")
      THEN LET it == Expression(nextToken(Skip2(q)))
           IN  Expect(it.p, ")", LAMBDA at :
                 Loop(at, LAMBDA body, orElse :
                   ForInStatement("", Peek(q).lit, it.node, body, orElse)))
      ELSE Typed(parseCStyleFor(nextToken(q)), "ForStatement"))

parseTryStatement(p) ==
    Braced(p, LAMBDA body, q :
      LET named == peekTokenIs(q, "catch") /\ peekTokenIs(nextToken(q), "(")
          id == IF named
                THEN Expect(Skip2(q), "IDENT", LAMBDA at :
                       Expect(at, ")", LAMBDA rest : R(Identifier(Cur(at).lit), rest)))
                ELSE R(Identifier(""), nextToken(q))
          catch == IF ~peekTokenIs(q, "catch") THEN R(BlockStatement(<<>>), q)
                   ELSE Need(id, LAMBDA x, at : Braced(at, R))
      IN  Need(catch, LAMBDA block, at :
            LET finally == IF peekTokenIs(at, "finally") THEN Braced(nextToken(at), R)
                           ELSE R(BlockStatement(<<>>), at)
            IN  Need(finally, LAMBDA last, rest :
                  R(TryStatement(body, IF named THEN id.node.name ELSE "",
                      IF peekTokenIs(q, "catch") THEN block ELSE None,
                      IF peekTokenIs(at, "finally") THEN last ELSE None), rest))))

\* a.b.c behind curToken.
parseDottedPath(p) ==
    Expect(p, "IDENT", LAMBDA q :
      LET Dots[i \in q.i..Len(p.toks)] ==  \* the last token of the path
              IF Tok(p, i + 1).type = "." /\ Tok(p, i + 2).type = "IDENT"
              THEN Dots[i + 2] ELSE i
          last == [q EXCEPT !.i = Dots[q.i]]
          words == [j \in 1..(last.i - p.i) |-> p.toks[p.i + j].lit]
      IN  IF peekTokenIs(last, ".") THEN Failed(nextToken(last))
          ELSE R(Identifier(Glued(words)), last))

parseModuleStatement(p) ==
    Need(parseDottedPath(p), LAMBDA path, q :
      Terminated(R(ModuleStatement(path.name), q)))

parseImportStatement(p) ==
    IF peekTokenIs(p, "STRING")
    THEN Terminated(R(ImportStatement(Peek(p).lit), nextToken(p)))
    ELSE Need(parseDottedPath(p), LAMBDA path, q :
           Terminated(R(ImportModuleStatement(path.name), q)))

parseDecoratorStatement(p) ==
    Expect(p, "IDENT", LAMBDA q :
      LET fn == Parse("function", None, nextToken(q))
      IN  IF ~peekTokenIs(q, "fn") THEN Failed(nextToken(q))
          ELSE R(DecoratorStatement(Cur(q).lit, fn.node), fn.p))

\* `pub` in front of a declaration.
parsePubStatement(p) ==
    LET q == nextToken(p)
        r == Statement(q)
        kinds == {"LetStatement", "TypedLetStatement", "ConstStatement",
                  "ClassStatement", "InterfaceDecl", "EnumStatement",
                  "RecordStatement"}
    IN  CASE Cur(q).type \notin {"fn", "class", "let", "const", "interface",
                                 "enum", "record"} -> Failed(q)
          [] r.node = None \/ r.node.k = "TypedNil" -> R(None, r.p)
          [] r.node.k \notin kinds -> Failed(r.p)
          [] OTHER -> r

\* `label:` in front of a loop.  A loop that is a typed nil is dereferenced.
parseLabeledStatement(p) ==
    Need(Statement(Skip2(p)), LAMBDA stmt, q :
      LET kind == IF stmt.k = "TypedNil" THEN stmt.of ELSE stmt.k
      IN  CASE kind \notin {"ForStatement", "ForInStatement", "WhileStatement"} ->
                 Failed(q)
            [] stmt.k = "TypedNil" -> R(None, Panicked(q))
            [] OTHER -> R([stmt EXCEPT !.label = Cur(p).lit], q))

parseStatement(p) ==
    LET type == Cur(p).type
    IN  CASE type = "let" -> parseLetStatement(p)
          [] type = "return" -> parseReturnStatement(p)
          [] type = "print" -> parsePrintStatement(p)
          [] type = "while" -> Typed(parseWhileStatement(p), "WhileStatement")
          [] type = "fn" -> parseFunctionStatement(p)
          [] type = "for" -> parseForStatement(p)
          [] type = "break" -> parseBreakStatement(p)
          [] type = "continue" -> parseContinueStatement(p)
          [] type = "import" -> Typed(parseImportStatement(p), "ImportStatement")
          [] type = "class" -> Typed(parseClassStatement(p), "ClassStatement")
          [] type = "const" -> parseConstStatement(p)
          [] type = "yield" -> parseYieldStatement(p)
          [] type = "@" -> parseDecoratorStatement(p)
          [] type = "enum" -> Typed(parseEnumStatement(p), "EnumStatement")
          [] type = "record" -> parseRecordStatement(p)
          [] type = "interface" -> Typed(parseInterfaceStatement(p), "InterfaceDecl")
          [] type = "pub" -> parsePubStatement(p)
          [] type = "module" -> parseModuleStatement(p)
          [] type = "defer" -> parseDeferStatement(p)
          [] type = "throw" -> parseThrowStatement(p)
          [] type = "try" -> Typed(parseTryStatement(p), "TryStatement")
          [] type = "IDENT" /\ peekTokenIs(p, ":") -> parseLabeledStatement(p)
          [] OTHER -> parseExpressionStatement(p)

programFrom(done, p) ==
    IF curTokenIs(p, "EOF") THEN R(Program(done), p)
    ELSE LET r == Statement(p)
         IN  programFrom(IF r.node = None THEN done ELSE Append(done, r.node),
                         nextToken(r.p))
ParseProgram(p) == programFrom(<<>>, p)

-----------------------------------------------------------------------------
(* Expressions                                                             *)

\* The scan for `< types > (`: does it close, with a parenthesis behind it?
probe(p, depth, n) ==
    LET q == nextToken(p)
        type == Cur(q).type
        left == CASE type = ">" -> depth - 1 [] type = ">>" -> depth - 2
                  [] type = "<" -> depth + 1 [] OTHER -> depth
    IN  CASE n = 0 -> FALSE
          [] type \in {">", ">>"} /\ left = 0 -> peekTokenIs(q, "(")
          [] type = ">>" /\ left < 0 -> FALSE
          [] type \in {"<", ">", ">>", "IDENT", "null", ",", "|", "?", "[", "]",
                       "fn", "(", ")", ":", "->"} -> probe(q, left, n - 1)
          [] OTHER -> FALSE
probeTypeArgsCall(p) == peekTokenIs(p, "<") /\ probe(p, 0, MaxProbe)

\* Arguments up to `)`, from the first one on; positional ones come first.
\* Go's nil for a broken list is an empty one.
parseArguments(args, p) ==
    LET first == Expression(p)
        named == first.node.k = "Identifier" /\ peekTokenIs(first.p, ":")
        value == Expression(Skip2(first.p))
        r == CASE first.node = None -> first
               [] named -> Need(value, LAMBDA e, q :
                             R(NamedArgument(first.node.name, e), q))
               [] OTHER -> first
        all == Append(args, r.node)
    IN  CASE r.node = None -> R(<<>>, r.p)
          [] ~named /\ args # <<>> /\ Last(args).k = "NamedArgument" ->
               R(<<>>, Fail(r.p))
          [] peekTokenIs(r.p, ",") -> parseArguments(all, Skip2(r.p))
          [] peekTokenIs(r.p, ")") -> R(all, nextToken(r.p))
          [] OTHER -> R(<<>>, Fail(r.p))
parseCallArguments(p) ==
    IF peekTokenIs(p, ")") THEN R(<<>>, nextToken(p))
    ELSE parseArguments(<<>>, nextToken(p))

\* From the opening token to the closing one, nil elements included.
parseExpressionList(end, p) ==
    IF peekTokenIs(p, end) THEN R(<<>>, nextToken(p))
    ELSE LET r == Commas("expression", FALSE, <<>>, nextToken(p))
         IN  IF peekTokenIs(r.p, end) THEN R(r.node, nextToken(r.p))
             ELSE R(<<>>, Fail(r.p))

\* (), (e), (e,) and (a, b): elements of a tuple from the second one on.
parseTupleRest(elems, p) ==
    IF ~peekTokenIs(p, ",") \/ peekTokenIs(nextToken(p), ")")
    THEN Expect(Optionally(p, ","), ")", LAMBDA q : R(TupleLiteral(elems), q))
    ELSE Need(Expression(Skip2(p)), LAMBDA e, q :
           parseTupleRest(Append(elems, e), q))
parseGroupedExpression(p) ==
    IF peekTokenIs(p, ")") THEN R(TupleLiteral(<<>>), nextToken(p))
    ELSE Need(NextExpression(p), LAMBDA e, q :
           IF peekTokenIs(q, ",") THEN parseTupleRest(<<e>>, q)
           ELSE Expect(q, ")", LAMBDA at : R(e, at)))

\* `else if` is an else with an if in it.
parseIfExpression(p) ==
    Condition(p, LAMBDA c, q :
      Need(Body(q), LAMBDA then, at :
        CASE ~peekTokenIs(at, "else") -> R(IfExpression(c, then, None), at)
          [] peekTokenIs(nextToken(at), "if") ->
               Map(Parse("if", None, Skip2(at)), LAMBDA e :
                 IfExpression(c, then, BlockStatement(<<ExpressionStatement(e)>>)))
          [] OTHER -> Need(Body(nextToken(at)), LAMBDA else, rest :
                        R(IfExpression(c, then, else), rest))))

\* {...m, k: v}, behind what has been read of it.
parseHashEntries(h, p) ==
    LET more(g, q) == IF peekTokenIs(q, "}") THEN Parse("entries", g, q)
                      ELSE Expect(q, ",", LAMBDA at : Parse("entries", g, at))
        spread == Expression(Skip2(p))
        key == NextExpression(p)
    IN  CASE peekTokenIs(p, "}") -> R(h, nextToken(p))
          [] peekTokenIs(p, "...") ->
               more([h EXCEPT !.spreads = Append(@, SpreadExpression(spread.node))],
                    spread.p)
          [] OTHER -> Expect(key.p, ":", LAMBDA q :
               LET e == NextExpression(q)
               IN  more([h EXCEPT !.pairs = Append(@, <<key.node, e.node>>)], e.p))

parseNewExpression(p) ==
    Expect(p, "IDENT", LAMBDA q :
      Need(IF probeTypeArgsCall(q) THEN parseTypeArgList(q) ELSE R(Ann(""), q),
           LAMBDA n, at : Expect(at, "(", LAMBDA open :
             Map(parseCallArguments(open), LAMBDA args :
               NewExpression(Cur(q).lit, args)))))

\* {x, k: y} that is not empty is a pattern of its own; any other pattern is
\* an expression, after the tokens and the errors are rewound.
parseMatchPattern(p) ==
    LET r == parseHashPattern(p)
    IN  IF curTokenIs(p, "{") /\ r.node # None /\ r.node.entries # <<>> THEN r
        ELSE Expression(p)

\* What an arm does, behind the token p is at.
parseArmBody(p) ==
    LET q == Optionally(p, ":")
    IN  IF peekTokenIs(q, "{") THEN Block(nextToken(q))
        ELSE Map(Statement(nextToken(q)), LAMBDA stmt : BlockStatement(<<stmt>>))

\* The arms of a match; other tokens between them are skipped.
parseArms(m, p) ==
    CASE Cur(p).type \in {"}", "EOF"} -> R(m, p)
      [] curTokenIs(p, "case") ->
           Need(parseMatchPattern(nextToken(p)), LAMBDA pattern, q :
             LET guarded == peekTokenIs(q, "if")
             IN  Need(IF guarded THEN Expression(Skip2(q)) ELSE R(NullLiteral, q),
                      LAMBDA guard, at :
                   LET body == parseArmBody(at)
                       arm == MatchArm(pattern, IF guarded THEN guard ELSE None,
                                       body.node)
                   IN  Parse("arms", [m EXCEPT !.arms = Append(@, arm)],
                             nextToken(body.p))))
      [] curTokenIs(p, "default") ->
           LET body == parseArmBody(p)
           IN  Parse("arms", [m EXCEPT !.default = body.node], nextToken(body.p))
      [] OTHER -> Parse("arms", m, nextToken(p))

parseMatchExpression(p) ==
    LET parens == peekTokenIs(p, "(")
        value == IF parens THEN Expression(Skip2(p)) ELSE NextExpression(p)
        open(q) == Expect(q, "{", LAMBDA at :
                     Parse("arms", MatchExpression(value.node, <<>>, None),
                           nextToken(at)))
    IN  IF parens THEN Expect(value.p, ")", LAMBDA q : open(q))
        ELSE Need(value, LAMBDA e, q : open(q))

\* Links of an optional chain, folded into one node; curToken begins one.
parseLinks(c, p) ==
    LET index == NextExpression(p)
        r == CASE curTokenIs(p, "IDENT") ->
                    R([kind |-> "member", name |-> Cur(p).lit], p)
               [] curTokenIs(p, "[") ->
                    Expect(index.p, "]", LAMBDA q :
                      R([kind |-> "index", index |-> index.node], q))
               [] curTokenIs(p, "(") ->
                    Map(parseCallArguments(p), LAMBDA args :
                      [kind |-> "call", args |-> args])
               [] OTHER -> Failed(p)
    IN  Need(r, LAMBDA link, q :
          LET all == [c EXCEPT !.links = Append(@, link)]
          IN  CASE Peek(q).type \in {".", "?."} -> Parse("links", all, Skip2(q))
                [] Peek(q).type \in {"[", "("} -> Parse("links", all, nextToken(q))
                [] OTHER -> R(all, q))

\* Assignments take what is on the right as far as it goes.
parseAssignExpression(left, p) ==
    CASE left.k = "Identifier" ->
           Map(NextExpression(p), LAMBDA e : AssignExpression(left.name, e))
      [] left.k = "IndexExpression" ->
           Map(NextExpression(p), LAMBDA e :
             IndexAssignExpression(left.left, left.index, e))
      [] left.k = "MemberExpression" ->
           Map(NextExpression(p), LAMBDA e :
             MemberAssignExpression(left.object, left.name, e))
      [] OTHER -> Failed(p)
parseCompoundAssign(left, p) ==
    IF left.k # "Identifier" THEN Failed(p)
    ELSE Map(NextExpression(p), LAMBDA e :
           AssignExpression(left.name,
             InfixExpression(Cur(p).glyphs[1], left, e)))

parseInfixExpression(left, p) ==
    Map(Parse("expression", precedence(Cur(p).type), nextToken(p)),
        LAMBDA right : InfixExpression(Cur(p).type, left, right))

parseTernaryExpression(left, p) ==
    LET then == NextExpression(p)
    IN  Expect(then.p, ":", LAMBDA q :
          Map(NextExpression(q), LAMBDA else :
            TernaryExpression(left, then.node, else)))

\* [i], [i:j], [i:], [:j] and [:]; an open end is -1.
parseIndexExpression(left, p) ==
    LET from == IF peekTokenIs(p, ":") THEN R(IntegerLiteral(0), p)
                ELSE NextExpression(p)
        colon == nextToken(from.p)
        end == NextExpression(colon)
    IN  CASE ~peekTokenIs(from.p, ":") ->
               Expect(from.p, "]", LAMBDA q :
                 R(IndexExpression(left, from.node, None), q))
          [] peekTokenIs(colon, "]") ->
               R(IndexExpression(left, from.node, IntegerLiteral(-1)),
                 nextToken(colon))
          [] OTHER -> Expect(end.p, "]", LAMBDA q :
               R(IndexExpression(left, from.node, end.node), q))

\* x |> f(a) calls f(x, a), x |> f calls f(x).
parsePipelineExpression(left, p) ==
    Need(Parse("expression", PIPELINE, nextToken(p)), LAMBDA fn, q :
      R(IF fn.k = "CallExpression"
        THEN CallExpression(fn.fn, <<left>> \o fn.args)
        ELSE CallExpression(fn, <<left>>), q))

parseMemberExpression(left, p) ==
    Expect(p, "IDENT", LAMBDA q : R(MemberExpression(left, Cur(q).lit), q))
parseRange(left, inclusive, p) ==
    Map(Parse("expression", RANGE, nextToken(p)),
        LAMBDA end : RangeExpression(left, end, inclusive))
parseDotInfix(left, p) ==
    IF peekTokenIs(p, ".") THEN parseRange(left, TRUE, nextToken(p))
    ELSE parseMemberExpression(left, p)

\* `::` before `<` gives a call its type arguments.
parseTurbofish(left, p) ==
    Need(parseTypeArgList(p), LAMBDA n, q :
      IF peekTokenIs(q, "(")
      THEN Map(parseCallArguments(nextToken(q)), LAMBDA args :
             CallExpression(left, args))
      ELSE R(None, Fail(Fail(q))))
parseDColonInfix(left, p) ==
    IF peekTokenIs(p, "<") THEN parseTurbofish(left, p)
    ELSE parseMemberExpression(left, p)

infix(left, p) ==
    LET type == Cur(p).type
    IN  CASE type = "(" -> Map(parseCallArguments(p), LAMBDA args :
                                 CallExpression(left, args))
          [] type = "[" -> parseIndexExpression(left, p)
          [] type = "=" -> parseAssignExpression(left, p)
          [] type \in {"+=", "-=", "*=", "/="} -> parseCompoundAssign(left, p)
          [] type = "?" -> parseTernaryExpression(left, p)
          [] type = "." -> parseDotInfix(left, p)
          [] type = "::" -> parseDColonInfix(left, p)
          [] type \in {"++", "--"} -> R(PostfixExpression(type, left), p)
          [] type = "?." -> Parse("links", OptionalChainExpression(left, <<>>),
                                  nextToken(p))
          [] type = "|>" -> parsePipelineExpression(left, p)
          [] type = "..." -> parseRange(left, FALSE, p)
          [] OTHER -> parseInfixExpression(left, p)

\* The operators behind left that bind tighter than prec.  `f<T>(x)` is a
\* call; the same on a method is an error.
infixes(left, prec, p) ==
    LET typed == peekTokenIs(p, "<")
                 /\ left.k \in {"Identifier", "MemberExpression"}
                 /\ probeTypeArgsCall(p)
        r == infix(left, nextToken(p))
    IN  CASE peekTokenIs(p, ";") \/ prec >= precedence(Peek(p).type) -> R(left, p)
          [] typed /\ left.k = "MemberExpression" -> Failed(p)
          [] typed -> Need(parseTurbofish(left, p), LAMBDA e, q :
                        Parse("infixes", [left |-> e, prec |-> prec], q))
          [] OTHER -> Parse("infixes", [left |-> r.node, prec |-> prec], r.p)

\* The tokens that have a prefix function, and the operand it makes.
PrefixTokens == {"IDENT", "INT", "FLOAT", "STRING", "true", "false", "null", "!",
                 "-", "(", "if", "fn", "[", "{", "new", "this", "match", "..."}
prefix(p) ==
    LET type == Cur(p).type
    IN  CASE type = "IDENT" -> R(Identifier(Cur(p).lit), p)
          [] type = "INT" -> IF IsNumeral(Cur(p).glyphs)
                             THEN R(IntegerLiteral(NumberOf(Cur(p).glyphs)), p)
                             ELSE Failed(p)
          [] type = "FLOAT" -> R(FloatLiteral(Cur(p).glyphs), p)
          [] type = "STRING" -> Parse("string", None, p)
          [] type \in {"true", "false"} -> R(Boolean(type = "true"), p)
          [] type = "null" -> R(NullLiteral, p)
          [] type \in {"!", "-"} ->
               Map(Parse("expression", PREFIX, nextToken(p)),
                   LAMBDA e : PrefixExpression(type, e))
          [] type = "(" -> parseGroupedExpression(p)
          [] type = "if" -> Parse("if", None, p)
          [] type = "fn" -> parseFunctionLiteral(p)
          [] type = "[" -> Map(parseExpressionList("]", p), ArrayLiteral)
          [] type = "{" -> Parse("entries", HashLiteral(<<>>, <<>>), p)
          [] type = "new" -> parseNewExpression(p)
          [] type = "this" -> R(ThisExpression, p)
          [] type = "match" -> parseMatchExpression(p)
          [] type = "..." -> Map(NextExpression(p), SpreadExpression)

\* A slip: at the end of the text an operand may be missing.
parseExpressionToEnd(prec, p) ==
    LET r == prefix(p)
    IN  CASE curTokenIs(p, "EOF") -> R(None, p)
          [] Cur(p).type \notin PrefixTokens -> Failed(p)
          [] OTHER -> infixes(r.node, prec, r.p)

\* An operand that is nil is an operand all the same.
parseExpression(prec, p) ==
    LET r == prefix(p)
    IN  IF Cur(p).type \notin PrefixTokens THEN Failed(p)
        ELSE infixes(r.node, prec, r.p)

-----------------------------------------------------------------------------
(* Strings with ${..} in them                                              *)

\* findInterpEnd: the brace that closes the one before i, or 0.
RECURSIVE findInterpEnd(_, _, _)
findInterpEnd(s, i, depth) ==
    CASE i > Len(s) -> 0
      [] s[i] \in Quotes -> findInterpEnd(s, RawEnd(s, i + 1, s[i]) + 1, depth)
      [] s[i] = "{" -> findInterpEnd(s, i + 1, depth + 1)
      [] s[i] = "}" -> IF depth = 1 THEN i ELSE findInterpEnd(s, i + 1, depth - 1)
      [] OTHER -> findInterpEnd(s, i + 1, depth)

\* The texts and expressions of s from i on, behind text and parts; none when
\* a `${` is not closed.
RECURSIVE split(_, _, _, _)
split(s, i, text, parts) ==
    LET end == findInterpEnd(s, i + 2, 1)
        flushed == IF text = <<>> THEN parts
                   ELSE Append(parts, [expr |-> FALSE, text |-> text])
        part == [expr |-> TRUE, text |-> SubSeq(s, i + 2, end - 1)]
    IN  CASE i > Len(s) -> flushed
          [] s[i] = "$" /\ At(s, i + 1) = "{" ->
               IF end = 0 THEN <<>> ELSE split(s, end + 1, <<>>, Append(flushed, part))
          [] OTHER -> split(s, i + 1, Append(text, s[i]), parts)
splitInterpolation(s) ==
    IF s = <<>> THEN <<[expr |-> FALSE, text |-> <<>>]>>
    ELSE split(s, 1, <<>>, <<>>)

\* One expression, parsed by a parser of its own.
SingleExpression(r) ==
    IF r.p.errs = 0 /\ Len(r.node.stmts) = 1
       /\ r.node.stmts[1].k = "ExpressionStatement"
    THEN R(r.node.stmts[1].value, r.p) ELSE R(None, r.p)
parseInterpSubExpression(text) ==
    SingleExpression(Parse("program", None, Start(Tokens(text))))

\* The parts put together, or the first error among them.
JoinedParts(parts, p) ==
    LET bad == {i \in DOMAIN parts : parts[i].node = None}
        first == CHOOSE i \in bad : \A j \in bad : i <= j
    IN  CASE parts = <<>> -> Failed(p)
          [] bad # {} -> IF parts[first].p.panic THEN R(None, Panicked(p))
                         ELSE Failed(p)
          [] OTHER -> R(InterpolatedString([i \in DOMAIN parts |-> parts[i].node]), p)
parsePart(part, p) ==
    IF part.expr THEN parseInterpSubExpression(part.text)
    ELSE R(StringLiteral(Glued(part.text)), p)
parseStringLiteral(p) ==
    LET parts == splitInterpolation(Cur(p).glyphs)
    IN  IF Len(parts) = 1 /\ ~parts[1].expr THEN parsePart(parts[1], p)
        ELSE JoinedParts([i \in DOMAIN parts |-> parsePart(parts[i], p)], p)

-----------------------------------------------------------------------------

Parse(rule, arg, p) ==
    CASE rule = "expression" -> parseExpression(arg, p)
      [] rule = "infixes" -> infixes(arg.left, arg.prec, p)
      [] rule = "statement" -> parseStatement(p)
      [] rule = "block" -> parseBlockStatement(p)
      [] rule = "body" -> parseBodyBlock(p)
      [] rule = "function" -> parseFunctionStatement(p)
      [] rule = "if" -> parseIfExpression(p)
      [] rule = "entries" -> parseHashEntries(arg, p)
      [] rule = "arms" -> parseArms(arg, p)
      [] rule = "links" -> parseLinks(arg, p)
      [] rule = "string" -> parseStringLiteral(p)
      [] rule = "parameter" -> parseParameter(p)
      [] rule = "name" -> nameHere(p)
      [] rule = "members" -> parseMembers(arg, p)
      [] rule = "signatures" -> parseSignatures(arg, p)
      [] rule = "signatureParam" -> parseSignatureParam(p)
      [] rule = "type" -> parseTypeAnnotation(p)
      [] rule = "singleType" -> parseSingleTypeAnnotation(p)
      [] rule = "typeParams" -> parseTypeParamList(p)
      [] rule = "program" -> ParseProgram(p)

\* The whole text: its tree, and how the parse ended.
ParseText(t) == Parse("program", None, Start(Tokens(t)))
=============================================================================
