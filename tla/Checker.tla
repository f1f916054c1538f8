------------------------------ MODULE Checker ------------------------------
(***************************************************************************)
(* The gradual type checker (src/internal/checker/checker.go) of `nvs      *)
(* check` and the language server: declarations first, then statement by   *)
(* statement.  Left out: type parameters and arguments, function type      *)
(* annotations, the parameter types of interfaces, warnings and the        *)
(* wording of errors.  An error is the place it is about: "assign",        *)
(* "argument", "arity", "return" or "unknown".                             *)
(*                                                                         *)
(* apart records where the checker sees less than the interpreter does:    *)
(* what it accepts may still be a type error at run time.                  *)
(***************************************************************************)
EXTENDS Ast
LOCAL INSTANCE SequencesExt
LOCAL INSTANCE FiniteSets
LOCAL INSTANCE TLC

-----------------------------------------------------------------------------
(* Types *)

NoSig == [known |-> FALSE]
Sig(params, return) == [known |-> TRUE, params |-> params, return |-> return]
\* union: the members; class: of an instance; sig: of a function; funcs: the
\* arities of the functions in a hash literal.
Ty(name) == [name |-> name, union |-> <<>>, class |-> "", sig |-> NoSig,
             funcs |-> [x \in {} |-> 0]]
anyType == Ty("any")
isAny(t) == t.name = "any"
Unannotated == Ty("")
UnknownType == Ty("?")

canonicalName(x) ==
    CASE x = "integer" -> "int" [] x = "numeric" -> "number"
      [] x \in {"comparable", "printable"} -> "any" [] x = "str" -> "string"
      [] x = "boolean" -> "bool" [] x = "list" -> "array"
      [] x \in {"map", "dict"} -> "hash" [] x \in {"fn", "callable"} -> "function"
      [] OTHER -> x
builtinTypes == {"int", "float", "number", "string", "bool", "null", "array",
                 "hash", "tuple", "function", "record", "any"}

\* unionOf: flat, without duplicates, any if either is.
Members(t) == IF t.union = <<>> THEN <<t>> ELSE t.union
AddMember(ms, t) ==
    IF \E i \in DOMAIN ms : ms[i].name = t.name /\ ms[i].class = t.class
    THEN ms ELSE Append(ms, t)
UnionType(ms) == IF Len(ms) = 1 THEN ms[1] ELSE [Ty("union") EXCEPT !.union = ms]
unionOf(a, b) ==
    IF isAny(a) \/ isAny(b) THEN anyType
    ELSE UnionType(FoldLeft(AddMember, <<>>, Members(a) \o Members(b)))

-----------------------------------------------------------------------------
(* The checker's state                                                     *)

\* scopes: innermost last; fns: the return types wanted, innermost last;
\* names, met: what pass 2 has declared so far, types included in met.
newChecker == [errs |-> <<>>, apart |-> {}, scopes |-> <<[x \in {} |-> 0]>>,
               classes |-> [x \in {} |-> 0], ifaces |-> [x \in {} |-> 0],
               records |-> {}, enums |-> [x \in {} |-> {}], fns |-> <<>>,
               names |-> {}, met |-> {}]

errorIf(what, cond, c) == IF cond THEN [c EXCEPT !.errs = Append(@, what)] ELSE c
Blind(what, cond, c) == IF cond THEN [c EXCEPT !.apart = @ \cup {what}] ELSE c

pushScope(c) == [c EXCEPT !.scopes = Append(@, [x \in {} |-> 0])]
popScope(c) == [c EXCEPT !.scopes = Front(@)]
Var(t, declared) == [type |-> t, declared |-> declared]
define(x, v, c) == [c EXCEPT !.scopes[Len(c.scopes)] = (x :> v) @@ @]
lookup(x, c) ==
    LET at == {i \in DOMAIN c.scopes : x \in DOMAIN c.scopes[i]}
    IN  IF at = {} THEN Var(anyType, Unannotated)
        ELSE c.scopes[CHOOSE i \in at : \A j \in at : j <= i][x]
\* A declaration in pass 2.  Blocks have scopes here, but none at run time.
declare(x, v, c) ==
    [define(x, v, Blind("redeclared", x \in c.names, c)) EXCEPT
       !.names = @ \cup {x}]

isDeclaredType(x, c) ==
    x \in DOMAIN c.classes \cup DOMAIN c.ifaces \cup c.records \cup DOMAIN c.enums
typeNamed(x, c) ==
    CASE canonicalName(x) \in builtinTypes -> Ty(canonicalName(x))
      [] isDeclaredType(x, c) -> Ty(x)
      [] OTHER -> UnknownType
annotationType(ann, c) ==
    LET ms == [i \in DOMAIN ann.names |-> typeNamed(ann.names[i], c)]
    IN  CASE ann = None -> anyType
          [] UnknownType \in ToSet(ms) -> UnknownType
          [] ann.array -> Ty("array")
          [] OTHER -> UnionType(ms)
Annotates(ann, c) == ann # None /\ annotationType(ann, c) # UnknownType
isUnknown(ann, c) == ann # None /\ ~Annotates(ann, c)

-----------------------------------------------------------------------------
(* Subtyping *)

RECURSIVE instanceOf(_, _, _), lookupMethod(_, _, _)
instanceOf(child, parent, c) ==
    \/ child = parent
    \/ /\ child \in DOMAIN c.classes
       /\ c.classes[child].parent # ""
       /\ instanceOf(c.classes[child].parent, parent, c)

lookupMethod(class, m, c) ==
    CASE class \notin DOMAIN c.classes -> NoSig
      [] m \in DOMAIN c.classes[class].methods -> c.classes[class].methods[m]
      [] OTHER -> lookupMethod(c.classes[class].parent, m, c)

Required(sig) == Cardinality({i \in DOMAIN sig.params : sig.params[i].required})
arityCompatible(sig, n) == Required(sig) <= n /\ n <= Len(sig.params)

\* A slip: a method of the name will do.
satisfiesIfaceByName(src, iface, c) ==
    \A m \in DOMAIN c.ifaces[iface] :
        CASE src.name = "hash" -> m \in DOMAIN src.funcs
          [] src.name = "instance" -> lookupMethod(src.class, m, c).known
          [] OTHER -> FALSE

\* Every method is there with a compatible arity.
satisfiesIface(src, iface, c) ==
    LET want == c.ifaces[iface]
    IN  CASE src.name = "hash" ->
               \A m \in DOMAIN want :
                   /\ m \in DOMAIN src.funcs
                   /\ src.funcs[m].required <= want[m]
                   /\ want[m] <= src.funcs[m].total
          [] src.name = "instance" /\ src.class \in DOMAIN c.classes ->
               \A m \in DOMAIN want :
                   LET sig == lookupMethod(src.class, m, c)
                   IN  sig.known /\ arityCompatible(sig, want[m])
          [] OTHER -> FALSE

\* Of types that are no unions.
fits(src, dst, c) ==
    CASE isAny(src) \/ isAny(dst) -> TRUE
      [] src.name = dst.name ->
           src.name = "instance" => instanceOf(src.class, dst.class, c)
      [] dst.name = "number" -> src.name \in {"int", "float"}
      [] dst.name \in DOMAIN c.ifaces -> satisfiesIface(src, dst.name, c)
      [] dst.name \in DOMAIN c.classes ->
           src.name = "instance" /\ instanceOf(src.class, dst.name, c)
      [] OTHER -> FALSE
assignableTo(src, dst, c) ==
    \A i \in DOMAIN Members(src) : \E j \in DOMAIN Members(dst) :
        fits(Members(src)[i], Members(dst)[j], c)

-----------------------------------------------------------------------------
(* Signatures and inference                                                *)

\* An unknown type name leaves a parameter or result unannotated.
Annotation(ann, c) == IF Annotates(ann, c) THEN annotationType(ann, c) ELSE Unannotated
funcSigOf(fl, c) ==
    Sig([i \in DOMAIN fl.params |->
           [type |-> Annotation(fl.params[i].type, c),
            required |-> fl.params[i].default = None]],
        Annotation(fl.returns, c))
\* Defaults are forgotten.
methodSigOf(fl, c) ==
    LET sig == funcSigOf(fl, c)
    IN  [sig EXCEPT !.params = [i \in DOMAIN @ |-> [@[i] EXCEPT !.required = TRUE]]]

builtinSigs ==
    LET One(return) == Sig(<<[type |-> Unannotated, required |-> TRUE]>>, Ty(return))
    IN  [len |-> One("int"), str |-> One("string"), int |-> One("int"),
         float |-> One("float"), bool |-> One("bool"), abs |-> One("number")]

RECURSIVE infer(_, _)

isNumeric(t) == t.name \in {"int", "float", "number", "any"}
arithmetic(l, r) ==
    CASE l.name = "int" /\ r.name = "int" -> Ty("int")
      [] isNumeric(l) /\ isNumeric(r) -> Ty("number")
      [] OTHER -> anyType
inferInfix(op, l, r) ==
    CASE op \in {"==", "!=", "<", ">", "<=", ">=", "and", "or"} -> Ty("bool")
      [] op = "+" /\ l.name = "string" /\ r.name = "string" -> Ty("string")
      [] op \in {"+", "-", "*", "%", "**"} -> arithmetic(l, r)
      [] op = "/" /\ isNumeric(l) /\ isNumeric(r) -> Ty("number")
      [] OTHER -> anyType
inferPrefix(op, t) ==
    CASE op = "!" -> Ty("bool")
      [] op = "-" /\ t.name = "int" -> t
      [] op = "-" /\ t.name \in {"float", "number"} -> Ty("number")
      [] OTHER -> anyType
inferMember(n, t, c) ==
    IF t.name \in DOMAIN c.enums /\ n.name \in c.enums[t.name] THEN t ELSE anyType
inferBlock(b, c) ==
    CASE b.stmts = <<>> -> Ty("null")
      [] Last(b.stmts).k = "ExpressionStatement" -> infer(Last(b.stmts).value, c)
      [] OTHER -> anyType
\* The branches of a match, its default last.
inferBlocks(bs, c) ==
    IF bs = <<>> THEN anyType
    ELSE FoldLeft(unionOf, Head(bs), Tail(bs))
hashFuncs(pairs) ==
    LET fns == SelectSeq(pairs, LAMBDA kv : kv[1].k = "StringLiteral"
                                            /\ kv[2].k = "FunctionLiteral")
        of(x) == (CHOOSE i \in DOMAIN fns : fns[i][1].str = x)
        params(x) == fns[of(x)][2].params
    IN  [x \in {fns[i][1].str : i \in DOMAIN fns} |->
           [total |-> Len(params(x)),
            required |-> Len(SelectSeq(params(x), LAMBDA q : q.default = None))]]

calleeSig(fn, c) ==
    CASE fn.k = "Identifier" /\ lookup(fn.name, c).type.sig.known ->
           lookup(fn.name, c).type.sig
      [] fn.k = "Identifier" /\ fn.name \in DOMAIN builtinSigs -> builtinSigs[fn.name]
      [] fn.k = "MemberExpression" ->
           LET t == infer(fn.object, c)
           IN  IF t.name = "instance" THEN lookupMethod(t.class, fn.name, c) ELSE NoSig
      [] OTHER -> NoSig

ResultOf(sig) ==
    IF sig.known /\ sig.return # Unannotated THEN sig.return ELSE anyType

infer(e, c) ==
    CASE e.k = "IntegerLiteral" -> Ty("int")
      [] e.k = "FloatLiteral" -> Ty("float")
      [] e.k \in {"StringLiteral", "InterpolatedString"} -> Ty("string")
      [] e.k = "Boolean" -> Ty("bool")
      [] e.k = "NullLiteral" -> Ty("null")
      [] e.k \in {"ArrayLiteral", "RangeExpression"} -> Ty("array")
      [] e.k = "TupleLiteral" -> Ty("tuple")
      [] e.k = "HashLiteral" -> [Ty("hash") EXCEPT !.funcs = hashFuncs(e.pairs)]
      [] e.k = "Identifier" -> lookup(e.name, c).type
      [] e.k = "PrefixExpression" -> inferPrefix(e.op, infer(e.right, c))
      [] e.k = "InfixExpression" -> inferInfix(e.op, infer(e.left, c), infer(e.right, c))
      [] e.k = "IfExpression" ->
           unionOf(inferBlock(e.then, c),
                   IF e.else = None THEN Ty("null") ELSE inferBlock(e.else, c))
      [] e.k = "TernaryExpression" -> unionOf(infer(e.then, c), infer(e.else, c))
      [] e.k = "CallExpression" -> ResultOf(calleeSig(e.fn, c))
      [] e.k = "FunctionLiteral" -> [Ty("function") EXCEPT !.sig = funcSigOf(e, c)]
      [] e.k = "NewExpression" /\ isDeclaredType(e.class, c) ->
           [Ty("instance") EXCEPT !.class = e.class]
      [] e.k = "MemberExpression" -> inferMember(e, infer(e.object, c), c)
      [] e.k = "MatchExpression" ->
           inferBlocks([i \in DOMAIN e.arms |-> inferBlock(e.arms[i].body, c)]
                         \o (IF e.default = None THEN <<>>
                             ELSE <<inferBlock(e.default, c)>>), c)
      [] OTHER -> anyType

-----------------------------------------------------------------------------
(* Pass 1: declarations                                                    *)

DeclareName(st, c) ==
    CASE st.k = "ClassStatement" /\ st.name \notin DOMAIN c.classes ->
           [c EXCEPT !.classes = (st.name :> [parent |-> "", methods |-> [x \in {} |-> 0]]) @@ @]
      [] st.k = "InterfaceDecl" /\ st.name \notin DOMAIN c.ifaces ->
           [c EXCEPT !.ifaces = (st.name :> [x \in {} |-> 0]) @@ @]
      [] st.k = "RecordStatement" -> [c EXCEPT !.records = @ \cup {st.name}]
      [] st.k = "EnumStatement" ->
           [c EXCEPT !.enums = (st.name :> ToSet(st.members)) @@ @]
      [] OTHER -> c

DeclareClass(st, c) ==
    [c EXCEPT !.classes[st.name] =
       [parent |-> IF st.parent = "" THEN @.parent ELSE st.parent,
        methods |-> [m \in DOMAIN st.methods |-> methodSigOf(st.methods[m], c)]
                    @@ @.methods]]
DeclareIface(st, c) ==
    LET arity(m) == (CHOOSE i \in DOMAIN st.methods : st.methods[i].name = m)
    IN  [c EXCEPT !.ifaces[st.name] =
           [m \in {st.methods[i].name : i \in DOMAIN st.methods} |->
              st.methods[arity(m)].arity] @@ @]

DeclareBinding(st, c) ==
    CASE st.k \in {"LetStatement", "ConstStatement"} ->
           define(st.name, Var(infer(st.value, c), Unannotated), c)
      [] st.k = "TypedLetStatement" ->
           IF isUnknown(st.type, c) THEN define(st.name, Var(anyType, Unannotated), c)
           ELSE LET t == annotationType(st.type, c) IN define(st.name, Var(t, t), c)
      [] st.k = "ClassStatement" ->
           define(st.name, Var(Ty(st.name), Unannotated), DeclareClass(st, c))
      [] st.k = "InterfaceDecl" ->
           define(st.name, Var(Ty(st.name), Unannotated), DeclareIface(st, c))
      [] st.k \in {"RecordStatement", "EnumStatement"} ->
           define(st.name, Var(Ty(st.name), Unannotated), c)
      [] st.k = "DecoratorStatement" ->
           define(st.function.name, Var(infer(st.function.value, c), Unannotated), c)
      [] OTHER -> c

collectDecls(stmts, c) ==
    FoldLeft(LAMBDA d, st : DeclareBinding(st, d),
             FoldLeft(LAMBDA d, st : DeclareName(st, d), c, stmts), stmts)

-----------------------------------------------------------------------------
(* Pass 2: statements and expressions                                      *)

RECURSIVE Check(_, _, _)
checkAll(rule, ns, c) == FoldLeft(LAMBDA d, n : Check(rule, n, d), c, ns)
checkExpressions(es, c) == checkAll("expression", es, c)
Optional(rule, n, c) == IF n = None THEN c ELSE Check(rule, n, c)
checkBlock(b, c) == popScope(checkAll("statement", b.stmts, pushScope(c)))

\* A value of type src at a place of type dst.
Flow(what, src, dst, c) ==
    errorIf(what, ~assignableTo(src, dst, c),
            Blind("any", \E i \in DOMAIN Members(src) :
                             Members(src)[i].name \in {"any", "number"}, c))
\* An annotation, which at run time looks its names up.
Annotated(ann, c) ==
    LET declared == {x \in ToSet(ann.names) : isDeclaredType(x, c)}
    IN  IF ann = None THEN c
        ELSE Blind("enum", declared \cap DOMAIN c.enums # {},
             Blind("forward", declared \ c.met # {}, c))

checkFunctionBody(fl, c) ==
    LET sig == funcSigOf(fl, c)
        anns == [i \in DOMAIN fl.params |-> fl.params[i].type] \o <<fl.returns>>
        told == FoldLeft(LAMBDA d, ann : errorIf("unknown", isUnknown(ann, d), Annotated(ann, d)),
                         c, anns)
        bound == FoldLeft(LAMBDA d, i :
                     define(fl.params[i].name,
                            Var(IF sig.params[i].type = Unannotated THEN anyType
                                ELSE sig.params[i].type, Unannotated),
                            [Blind("unchecked", fl.params[i].default # None, d)
                               EXCEPT !.names = @ \cup {fl.params[i].name}]),
                     [pushScope(told) EXCEPT !.fns = Append(@, sig.return)],
                     [i \in DOMAIN fl.params |-> i])
    IN  popScope([checkAll("statement", fl.body.stmts, bound) EXCEPT !.fns = Front(@)])

checkLet(st, c) ==
    declare(st.name, Var(infer(st.value, c), Unannotated), Check("expression", st.value, c))

checkTypedLet(st, c) ==
    IF isUnknown(st.type, c)
    THEN declare(st.name, Var(anyType, Unannotated),
                 Check("expression", st.value, errorIf("unknown", TRUE, c)))
    ELSE LET t == annotationType(st.type, c)
         IN  declare(st.name, Var(t, t),
                     Flow("assign", infer(st.value, c), t,
                          Check("expression", st.value, Annotated(st.type, c))))

\* At the top, or without a type to return, nothing is looked at.
checkReturn(st, c) ==
    IF c.fns = <<>> \/ Last(c.fns) = Unannotated THEN Blind("unchecked", TRUE, c)
    ELSE Check("expression", st.value, Flow("return", infer(st.value, c), Last(c.fns), c))

checkFor(st, c) ==
    popScope(Optional("block", st.orElse, Check("block", st.body,
      Optional("expression", st.post, Optional("expression", st.cond,
        Optional("statement", st.init, pushScope(c)))))))

\* The else of a while loop is not looked at, nor fields' defaults; what
\* catch and patterns bind is not known.
checkForIn(st, c) ==
    popScope(Optional("block", st.orElse, Check("block", st.body,
      declare(st.name, Var(anyType, Unannotated),
              pushScope(Check("expression", st.iterable, c))))))
checkTry(st, c) ==
    Optional("block", st.finally, Optional("block", st.catch,
      Check("block", st.body, Blind("unchecked", st.catchId # "", c))))
checkClass(st, c) ==
    FoldLeft(LAMBDA d, m : checkFunctionBody(st.methods[m], d),
             [Blind("unchecked", \E i \in DOMAIN st.fields : st.fields[i].default # None,
                    Blind("redeclared", st.name \in c.met, c))
                EXCEPT !.met = @ \cup {st.name}],
             SetToSeq(DOMAIN st.methods))

checkStatement(st, c) ==
    CASE st.k = "LetStatement" /\ st.value.k = "FunctionLiteral" ->
           declare(st.name, Var(infer(st.value, c), Unannotated),
                   checkFunctionBody(st.value, c))
      [] st.k \in {"LetStatement", "ConstStatement"} -> checkLet(st, c)
      [] st.k = "TypedLetStatement" -> checkTypedLet(st, c)
      [] st.k = "ReturnStatement" -> checkReturn(st, c)
      [] st.k \in {"ExpressionStatement", "PrintStatement", "ThrowStatement"} ->
           Check("expression", st.value, c)
      [] st.k = "YieldStatement" -> Optional("expression", st.value, c)
      [] st.k = "DestructureLetStatement" ->
           Check("expression", st.value, Blind("unchecked", TRUE, c))
      [] st.k = "DeferStatement" -> Check("expression", st.call, c)
      [] st.k = "DecoratorStatement" ->
           Check("statement", st.function, Blind("unchecked", TRUE, c))
      [] st.k = "BlockStatement" -> Check("block", st, c)
      [] st.k = "WhileStatement" ->
           Check("block", st.body, Check("expression", st.cond,
                 Blind("unchecked", st.orElse # None, c)))
      [] st.k = "ForStatement" -> checkFor(st, c)
      [] st.k = "ForInStatement" -> checkForIn(st, c)
      [] st.k = "TryStatement" -> checkTry(st, c)
      [] st.k = "ClassStatement" -> checkClass(st, c)
      [] st.k \in {"InterfaceDecl", "RecordStatement", "EnumStatement"} ->
           [Blind("redeclared", st.name \in c.met, c) EXCEPT !.met = @ \cup {st.name}]
      [] st.k \in {"ImportStatement", "ImportModuleStatement"} -> Blind("unchecked", TRUE, c)
      [] OTHER -> c

\* Only variables with a declared type are held to it.
checkAssign(n, c) ==
    LET v == lookup(n.name, c)
        t == infer(n.value, c)
    IN  IF v.declared = Unannotated THEN Blind("drift", v.type # t, c)
        ELSE Flow("assign", t, v.declared, c)

checkArguments(sig, args, c) ==
    IF ~arityCompatible(sig, Len(args)) THEN errorIf("arity", TRUE, c)
    ELSE FoldLeft(LAMBDA d, i :
                    IF sig.params[i].type = Unannotated THEN d
                    ELSE Flow("argument", infer(args[i], d), sig.params[i].type, d),
                  c, [i \in DOMAIN args |-> i])
\* Named arguments, spreads and unknown functions are left to the run.
checkCall(n, c) ==
    LET seen == checkExpressions(n.args, c)
        sig == calleeSig(n.fn, c)
    IN  IF ~sig.known \/ \E i \in DOMAIN n.args :
                             n.args[i].k \in {"NamedArgument", "SpreadExpression"}
        THEN Blind("any", TRUE, seen)
        ELSE checkArguments(sig, n.args, seen)

checkMatch(n, c) ==
    Optional("block", n.default,
      FoldLeft(LAMBDA d, arm : Check("block", arm.body, Optional("expression", arm.guard, d)),
               Check("expression", n.value, Blind("unchecked", TRUE, c)), n.arms))

checkExpression(e, c) ==
    CASE e.k = "CallExpression" -> checkCall(e, c)
      [] e.k = "InfixExpression" -> checkExpressions(<<e.left, e.right>>, c)
      [] e.k = "PrefixExpression" -> Check("expression", e.right, c)
      [] e.k = "PostfixExpression" -> Check("expression", e.operand, c)
      [] e.k = "IfExpression" ->
           Optional("block", e.else, Check("block", e.then, Check("expression", e.cond, c)))
      [] e.k = "TernaryExpression" -> checkExpressions(<<e.cond, e.then, e.else>>, c)
      [] e.k = "FunctionLiteral" -> checkFunctionBody(e, c)
      [] e.k \in {"ArrayLiteral", "TupleLiteral"} -> checkExpressions(e.elems, c)
      [] e.k = "HashLiteral" -> checkExpressions(FlattenSeq(e.pairs) \o e.spreads, c)
      [] e.k = "IndexExpression" ->
           checkExpressions(<<e.left, e.index>>, Blind("unchecked", e.end # None, c))
      [] e.k = "IndexAssignExpression" ->
           checkExpressions(<<e.left, e.value>>, Blind("drift", TRUE, c))
      [] e.k = "MemberAssignExpression" ->
           checkExpressions(<<e.object, e.value>>, Blind("drift", TRUE, c))
      [] e.k = "AssignExpression" -> checkAssign(e, Check("expression", e.value, c))
      [] e.k = "MemberExpression" -> Check("expression", e.object, c)
      [] e.k = "NewExpression" -> checkExpressions(e.args, c)
      [] e.k = "MatchExpression" -> checkMatch(e, c)
      [] e.k = "InterpolatedString" -> checkExpressions(e.parts, c)
      [] e.k = "SpreadExpression" -> Check("expression", e.value, c)
      [] e.k = "RangeExpression" -> checkExpressions(<<e.start, e.end>>, c)
      [] e.k = "OptionalChainExpression" ->
           checkExpressions(<<e.base>> \o FlattenSeq([i \in DOMAIN e.links |->
             CASE e.links[i].kind = "index" -> <<e.links[i].index>>
               [] e.links[i].kind = "call" -> e.links[i].args
               [] OTHER -> <<>>]), Blind("unchecked", TRUE, c))
      \* The name of a type stands for its instances, too.
      [] e.k = "Identifier" -> Blind("typename", isDeclaredType(e.name, c), c)
      [] OTHER -> c

Check(rule, n, c) ==
    CASE rule = "statement" -> checkStatement(n, c)
      [] rule = "block" -> checkBlock(n, c)
      [] rule = "expression" -> checkExpression(n, c)

CheckProgram(stmts) ==
    checkAll("statement", stmts, collectDecls(stmts, newChecker))
=============================================================================
