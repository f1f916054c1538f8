----------------------------- MODULE Evaluator -----------------------------
(***************************************************************************)
(* The tree-walking interpreter (src/internal/eval/eval.go): Eval(n, e, s) *)
(* evaluates node n in scope e of store s and answers the value with the   *)
(* store it leaves.  One operator per Go function, under its name.         *)
(*                                                                         *)
(* Left out: floats, bit operators, the order of strings, the addresses of *)
(* functions, generic type parameters (erased at run time), and the        *)
(* builtins that are pure functions of strings and numbers.                *)
(***************************************************************************)
EXTENDS Objects
LOCAL INSTANCE SequencesExt
LOCAL INSTANCE FiniteSetsExt

CONSTANTS
    Modules,  \* path -> [file: "ok", "missing" or "unparsable", stmts]
    Paths,    \* a path of deep_get and deep_set -> its [name, index] segments
    MaxDepth  \* the calls that fit on the stack

RECURSIVE Eval(_, _, _), evalProgram(_, _, _, _),
          evalBlockStatement(_, _, _, _), whileLoop(_, _, _, _),
          forLoop(_, _, _, _), forEach(_, _, _, _, _, _),
          evalExpressions(_, _, _, _), evalSequence(_, _, _, _),
          evalBody(_, _, _, _), runThunks(_, _, _), evalBuiltin(_, _, _),
          bindParams(_, _, _, _, _), fillDefaults(_, _, _, _),
          initFields(_, _, _, _), evalLinks(_, _, _, _, _, _),
          evalPairs(_, _, _, _, _), evalSpreads(_, _, _, _),
          mapElements(_, _, _, _, _), filterElements(_, _, _, _, _),
          reduceElements(_, _, _, _, _), findElement(_, _, _, _, _),
          groupElements(_, _, _, _, _), applyComposed(_, _, _),
          matchArms(_, _, _, _, _), matchPattern(_, _, _, _, _),
          matchAll(_, _, _, _, _)

\* A call made inside the interpreter, as a node: every recursion of the
\* interpreter goes through Eval.
InvokeNode(fn, args) == [k |-> "Invoke", fn |-> fn, args |-> args]
Invoke(fn, args, s) == Eval(InvokeNode(fn, args), 0, s)

-----------------------------------------------------------------------------
(* Operators on values *)

GoDiv(a, b) == LET q == (IF a < 0 THEN -a ELSE a) \div (IF b < 0 THEN -b ELSE b)
               IN  IF (a < 0) = (b < 0) THEN q ELSE -q

\* isTruthy is a comparison with the singletons; ! agrees with it.
evalPrefixExpression(op, v, s) ==
    CASE op = "!" -> Ret(Bool(~isTruthy(v)), s)
      [] v = Nil -> Crash(s)
      [] v.t = "INTEGER" -> Ret(Integer(-v.int), s)
      [] OTHER -> newError("unknown operator", s)

intPow(a, b) == CASE b < 0 -> 0 [] b = 0 -> 1 [] OTHER -> a ^ b

evalIntegerInfixExpression(op, a, b, s) ==
    CASE op = "+" -> Ret(Integer(a + b), s)
      [] op = "-" -> Ret(Integer(a - b), s)
      [] op = "*" -> Ret(Integer(a * b), s)
      [] op = "**" -> Ret(Integer(intPow(a, b)), s)
      [] op \in {"/", "%"} /\ b = 0 -> newError("division by zero", s)
      [] op = "/" -> Ret(Integer(GoDiv(a, b)), s)
      [] op = "%" -> Ret(Integer(a - b * GoDiv(a, b)), s)
      [] op = "==" -> Ret(Bool(a = b), s)
      [] op = "!=" -> Ret(Bool(a # b), s)
      [] op = "<" -> Ret(Bool(a < b), s)
      [] op = ">" -> Ret(Bool(a > b), s)
      [] op = "<=" -> Ret(Bool(a <= b), s)
      [] op = ">=" -> Ret(Bool(a >= b), s)
      [] OTHER -> newError("unknown operator", s)

evalInOperator(l, r, s) ==
    LET Among(vs) == \E i \in DOMAIN vs : /\ vs[i].t = l.t
                                          /\ Inspect(vs[i], s) = Inspect(l, s)
    IN  CASE r.t = "ARRAY" -> Ret(Bool(Among(Elements(r, s))), s)
          [] r.t = "TUPLE" -> Ret(Bool(Among(r.elems)), s)
          [] r.t = "HASH" ->
               Ret(Bool(HashKey(l) \in DOMAIN Deref(r, s).pairs), s)
          [] OTHER -> newError("in: not a container", s)

\* `==` is by value for numbers, strings, booleans, tuples and records, by
\* identity otherwise.
evalInfixExpression(op, l, r, s) ==
    CASE op = "in" -> evalInOperator(l, r, s)
      [] Nil \in {l, r} -> Crash(s)
      [] l.t = "INTEGER" /\ r.t = "INTEGER" ->
           evalIntegerInfixExpression(op, l.int, r.int, s)
      [] l.t = "STRING" /\ r.t = "STRING" /\ op = "+" ->
           Ret(Str(l.str \o r.str), s)
      [] l.t = "BOOLEAN" /\ r.t = "BOOLEAN" /\ op \in {"==", "!="} ->
           Ret(Bool((l.bool = r.bool) = (op = "==")), s)
      [] op \in {"==", "!="} /\ l.t = r.t /\ l.t \in {"TUPLE", "RECORD"} ->
           Ret(Bool(deepEqual(l, r, s) = (op = "==")), s)
      [] op \in {"==", "!="} -> Ret(Bool((l = r) = (op = "==")), s)
      [] l.t # r.t -> newError("type mismatch", s)
      [] OTHER -> newError("unknown operator", s)

evalIndexExpression(v, i, s) ==
    LET At(vs) == Ret(IF i.int \in 0..(Len(vs) - 1) THEN vs[i.int + 1]
                      ELSE Null, s)
    IN  CASE Nil \in {v, i} -> Crash(s)
          [] v.t = "ARRAY" /\ i.t = "INTEGER" -> At(Elements(v, s))
          [] v.t = "TUPLE" /\ i.t = "INTEGER" -> At(v.elems)
          [] v.t = "RECORD" /\ i.t = "INTEGER" -> At(FieldValues(v))
          [] v.t = "HASH" ->
               LET ps == Deref(v, s).pairs
                   key == HashKey(i)
               IN  IF ~Hashable(i) THEN newError("unusable as hash key", s)
                   ELSE Ret(IF key \in DOMAIN ps THEN ps[key] ELSE Null, s)
          [] OTHER -> newError("index operator not supported", s)

evalMemberAccess(v, name, s) ==
    CASE v = Nil -> Crash(s)
      [] v.t \in {"INSTANCE", "RECORD"} ->
           IF lookupMember(v, name, s) = Nil
           THEN newError("no such member", s)
           ELSE Ret(lookupMember(v, name, s), s)
      [] v.t = "HASH" -> evalIndexExpression(v, Str(name), s)
      [] OTHER -> newError("member access on non-instance", s)

-----------------------------------------------------------------------------
(* Type annotations (wave5_types.go) *)

builtinAnnotationChecks ==
    [int |-> {"INTEGER"}, string |-> {"STRING"}, bool |-> {"BOOLEAN"},
     null |-> {"NULL"}, array |-> {"ARRAY"}, hash |-> {"HASH"},
     tuple |-> {"TUPLE"}, function |-> {"FUNCTION", "BUILTIN"},
     record |-> {"RECORD"}]

\* Structural: each method is there, callable, and takes that many arguments.
checkImplements(v, iface, s) ==
    \A i \in DOMAIN iface :
        LET m == lookupMember(v, iface[i].name, s)
        IN  /\ m.t \in {"FUNCTION", "BUILTIN"}
            /\ m.t = "FUNCTION" =>
                 LET ps == m.node.params
                 IN  /\ Cardinality({j \in DOMAIN ps : ps[j].default = None})
                          <= iface[i].arity
                     /\ iface[i].arity <= Len(ps)

\* "ok", "no" or "unknown" for one name of an annotation.
checkTypeName(name, isArray, v, e, s) ==
    CASE name = "any" -> "ok"
      [] isArray -> IF v.t = "ARRAY" THEN "ok" ELSE "no"
      [] name \in DOMAIN builtinAnnotationChecks ->
           IF v.t \in builtinAnnotationChecks[name] THEN "ok" ELSE "no"
      [] ~Bound(name, e, s) -> "unknown"
      [] OTHER ->
           LET t == Get(name, e, s)
               Answer(b) == IF b THEN "ok" ELSE "no"
           IN  CASE t.t = "INTERFACE" ->
                      Answer(checkImplements(v, t.methods, s))
                 [] t.t = "CLASS" ->
                      Answer(v.t = "INSTANCE" /\
                             instanceOf(Deref(v, s).class, t.class))
                 [] t.t = "RECORD_DEF" ->
                      Answer(v.t = "RECORD" /\ v.def.id = t.def.id)
                 [] OTHER -> "unknown"

\* The first member of a union that is not a plain mismatch decides.
checkAnnotation(ann, v, e, s) ==
    LET c == [i \in DOMAIN ann.names |->
                checkTypeName(ann.names[i], ann.array, v, e, s)]
        decided == {i \in DOMAIN c : c[i] # "no"}
    IN  IF decided = {} THEN "no" ELSE c[Min(decided)]

\* The value, or the run-time type error of the annotated position.
checkValueAnnotation(ann, v, e, s) ==
    IF ann = None \/ checkAnnotation(ann, v, e, s) = "ok" THEN Ret(v, s)
    ELSE IF v = Nil THEN Crash(s) ELSE newError("type error", s)

-----------------------------------------------------------------------------
(* Statements *)

evalProgram(stmts, last, e, s) ==
    IF stmts = <<>> THEN Ret(last, s)
    ELSE LET r == Eval(Head(stmts), e, s)
         IN  CASE r.val.t = "RETURN_VALUE" -> Ret(r.val.value, r.st)
               [] Stops(r.val) -> r
               [] OTHER -> evalProgram(Tail(stmts), r.val, e, r.st)

\* A block opens no scope.  An empty one answers Go's nil.
evalBlockStatement(stmts, last, e, s) ==
    IF stmts = <<>> THEN Ret(last, s)
    ELSE LET r == Eval(Head(stmts), e, s)
         IN  IF Stops(r.val) \/
                r.val.t \in {"RETURN_VALUE", "BREAK", "CONTINUE"}
             THEN r
             ELSE evalBlockStatement(Tail(stmts), r.val, e, r.st)

handleLoopResult(v, label) ==
    CASE Stops(v) \/ v.t = "RETURN_VALUE" -> "propagate"
      [] v.t \in {"BREAK", "CONTINUE"} ->
           IF v.label \notin {"", label} THEN "propagate"
           ELSE IF v.t = "BREAK" THEN "break" ELSE "continue"
      [] OTHER -> "none"

\* The loop's else runs when the loop ends without a break.
orElse(n, result, e, s) ==
    IF n.orElse = None THEN Ret(result, s) ELSE Eval(n.orElse, e, s)

whileLoop(n, result, e, s) ==
    Then(Eval(n.cond, e, s), LAMBDA c, s1 :
        IF ~isTruthy(c) THEN orElse(n, result, e, s1)
        ELSE LET r == Eval(n.body, e, s1)
                 sig == handleLoopResult(r.val, n.label)
             IN  CASE sig = "propagate" -> r
                   [] sig = "break" -> Ret(Null, r.st)
                   [] sig = "continue" -> whileLoop(n, Null, e, r.st)
                   [] OTHER -> whileLoop(n, r.val, e, r.st))

optional(n, e, s) == IF n = None THEN Ret(Null, s) ELSE Eval(n, e, s)

\* Without a condition the body runs once, unless it says continue.
forLoop(n, result, e, s) ==
    Then(IF n.cond = None THEN Ret(Bool(TRUE), s) ELSE Eval(n.cond, e, s),
         LAMBDA c, s1 :
         IF ~isTruthy(c) THEN orElse(n, result, e, s1)
         ELSE LET r == Eval(n.body, e, s1)
                  sig == handleLoopResult(r.val, n.label)
              IN  CASE sig = "propagate" -> r
                    [] sig = "break" -> Ret(Null, r.st)
                    [] OTHER ->
                         Then(optional(n.post, e, r.st), LAMBDA p, s2 :
                              IF sig = "continue" THEN forLoop(n, Null, e, s2)
                              ELSE IF n.cond = None
                              THEN orElse(n, r.val, e, s2)
                              ELSE forLoop(n, r.val, e, s2)))

evalForStatement(n, e, s) ==
    Then(optional(n.init, e, s), LAMBDA v, s1 : forLoop(n, Null, e, s1))

\* What for-in visits at step i: an array's storage is read as the loop
\* goes, within the bounds it had at the start.
itemAt(it, i, s) ==
    CASE it.kind = "slice" /\ i <= it.a.len ->
           Ret(s.mem[it.a.back][it.a.off + i], s)
      [] it.kind = "values" /\ i <= Len(it.vals) -> Ret(it.vals[i], s)
      [] it.kind = "generator" ->
           LET r == NextValue(it.gen, s)
           IN  IF Deref(it.gen, r.st).exhausted THEN Ret(Nil, r.st) ELSE r
      [] OTHER -> Ret(Nil, s)

forEach(n, it, i, result, e, s) ==
    LET x == itemAt(it, i, s)
        r == Eval(n.body, e, Set(n.name, x.val, e, x.st))
        sig == handleLoopResult(r.val, n.label)
    IN  IF x.val = Nil THEN orElse(n, result, e, x.st)
        ELSE CASE sig = "propagate" -> r
               [] sig = "break" -> Ret(Null, r.st)
               [] OTHER -> forEach(n, it, i + 1,
                                   IF sig = "continue" THEN Null ELSE r.val,
                                   e, r.st)

\* The loop variable is set in the enclosing scope.
evalForInStatement(n, e, s) ==
    Then(Eval(n.iterable, e, s), LAMBDA v, s1 :
        LET Over(it) == forEach(n, it, 1, Null, e, s1)
            Values(vs) == Over([kind |-> "values", vals |-> vs])
        IN  CASE v.t = "ARRAY" -> Over([kind |-> "slice", a |-> Deref(v, s1)])
              [] v.t = "TUPLE" -> Values(v.elems)
              [] v.t = "RECORD" -> Values(FieldValues(v))
              [] v.t = "HASH" -> Values(KeysOf(Deref(v, s1).pairs, s1))
              [] v.t = "GENERATOR" -> Over([kind |-> "generator", gen |-> v])
              [] v = Nil -> Crash(s1)
              [] OTHER -> newError("for-in not supported", s1))

\* A slip: a return, break or continue leaves before the finally.
evalTryLeaves(n, e, s) ==
    LET tried == Eval(n.body, e, s)
        inner == NewEnclosed(e, tried.st)
        caught == IF ~isError(tried.val) \/ n.catch = None THEN tried
                  ELSE Eval(n.catch, Len(inner.frames),
                            Set(n.catchId, Str(tried.val.msg),
                                Len(inner.frames), inner))
        final == optional(n.finally, e, caught.st)
    IN  IF caught.val.t \in {"RETURN_VALUE", "BREAK", "CONTINUE"} THEN caught
        ELSE IF Stops(final.val) THEN final ELSE Ret(caught.val, final.st)

\* Any error is caught, and any but a panic's way out runs finally, whose
\* own value is dropped unless it is an error.
evalTryStatement(n, e, s) ==
    LET tried == Eval(n.body, e, s)
        inner == NewEnclosed(e, tried.st)
        scope == Len(inner.frames)
        caught == IF ~isError(tried.val) \/ n.catch = None THEN tried
                  ELSE Eval(n.catch, scope,
                            IF n.catchId = "" THEN inner
                            ELSE Set(n.catchId, Str(tried.val.msg), scope,
                                     inner))
        final == optional(n.finally, e, caught.st)
    IN  IF caught.val = Panic THEN caught
        ELSE IF Stops(final.val) THEN final ELSE Ret(caught.val, final.st)

\* The list of the enclosing scopes is shared when they have one.
evalDeferStatement(n, e, s) ==
    LET key == "__defer__"
        old == IF Bound(key, e, s) /\ Get(key, e, s).t = "ARRAY"
               THEN Ret(Get(key, e, s), s) ELSE NewArray(<<>>, 0, s)
        thunk == [t |-> "BUILTIN", name |-> "defer", expr |-> n.call,
                  env |-> e, id |-> Len(s.defers) + 1]
    IN  Ret(Null, Set(key, old.val, e,
                      [AppendElement(old.val, thunk, old.st) EXCEPT
                         !.defers = Append(@, e)]))

\* A slip: first in, first out.
runThunksInOrder(list, i, s) ==
    IF i = 0 THEN Ret(Null, s)
    ELSE LET thunk == Elements(list, s)[Deref(list, s).len - i + 1]
             r == Eval(thunk.expr, thunk.env,
                       [s EXCEPT !.ran = Append(@, thunk.id)])
         IN  IF r.val = Panic THEN r ELSE runThunks(list, i - 1, r.st)

runThunks(list, i, s) ==
    IF i = 0 THEN Ret(Null, s)
    ELSE LET thunk == Elements(list, s)[i]
             r == Eval(thunk.expr, thunk.env,
                       [s EXCEPT !.ran = Append(@, thunk.id)])
         IN  IF r.val = Panic THEN r ELSE runThunks(list, i - 1, r.st)

\* Last in, first out, from whichever scope has the list; then this scope
\* gets an empty one.
runDefers(e, s) ==
    IF ~Bound("__defer__", e, s) THEN Ret(Null, s)
    ELSE LET list == Get("__defer__", e, s)
             r == runThunks(list, Deref(list, s).len, s)
             none == NewArray(<<>>, 0, r.st)
         IN  Then(r, LAMBDA v, s1 :
                  Ret(Null, Set("__defer__", none.val, e, none.st)))

\* The value is also the statement's, so a block may end with a YieldValue.
evalYieldStatement(n, e, s) ==
    Then(optional(n.value, e, s), LAMBDA v, s1 :
        LET sink == NearestYieldSink(e, s1)
        IN  Ret(YieldValue(v), IF sink = 0 THEN s1
                               ELSE [s1 EXCEPT !.sinks[sink] = Append(@, v)]))

\* A slip: a module runs in a scope of its own.
evalImportApart(n, e, s) ==
    LET m == Modules[n.path]
        marked == NewEnclosed(e, [s EXCEPT !.loaded = (n.path :> e) @@ @])
        r == Eval(Program(m.stmts), Len(marked.frames), marked)
    IN  CASE n.path \in DOMAIN s.loaded -> Ret(Null, s)
          [] m.file # "ok" -> newError("import failed", s)
          [] Stops(r.val) ->
               Ret(r.val, [r.st EXCEPT !.failed = @ \union {n.path}])
          [] OTHER -> Ret(Null, r.st)

\* A slip: a module that failed is unmarked, so it runs again.
evalImportRetries(n, e, s) ==
    LET m == Modules[n.path]
        marked == [s EXCEPT !.loaded = (n.path :> e) @@ @]
        r == Eval(Program(m.stmts), e, marked)
    IN  CASE n.path \in DOMAIN s.loaded -> Ret(Null, s)
          [] m.file # "ok" -> newError("import failed", s)
          [] Stops(r.val) -> Ret(r.val, [r.st EXCEPT !.loaded = s.loaded])
          [] OTHER -> Ret(Null, r.st)

\* A module runs in the importing scope, once per process: it is marked
\* before it is read to its end, and stays marked when it fails.
evalImportStatement(n, e, s) ==
    LET m == Modules[n.path]
        marked == [s EXCEPT !.loaded = (n.path :> e) @@ @]
        Fail(st) == [st EXCEPT !.failed = @ \union {n.path}]
    IN  CASE n.path \in DOMAIN s.loaded -> Ret(Null, s)
          [] m.file = "missing" -> newError("import failed", s)
          [] m.file = "unparsable" ->
               newError("import parse errors", Fail(marked))
          [] OTHER ->
               LET r == Eval(Program(m.stmts), e, marked)
               IN  IF Stops(r.val) THEN Ret(r.val, Fail(r.st))
                   ELSE Ret(Null, r.st)

-----------------------------------------------------------------------------
(* Calls *)

\* Arguments, elements: a spread must be an array.
evalExpressions(es, done, e, s) ==
    IF es = <<>> THEN Ret([t |-> "VALUES", vals |-> done], s)
    ELSE IF Head(es).k = "SpreadExpression"
    THEN Then(Eval(Head(es).value, e, s), LAMBDA v, s1 :
              IF v.t # "ARRAY" THEN newError("cannot spread", s1)
              ELSE evalExpressions(Tail(es), done \o Elements(v, s1), e, s1))
    ELSE Then(Eval(Head(es), e, s), LAMBDA v, s1 :
              evalExpressions(Tail(es), Append(done, v), e, s1))

\* Tuple elements are evaluated one by one; nothing spreads there.
evalSequence(es, done, e, s) ==
    IF es = <<>> THEN Ret(Tuple(done), s)
    ELSE Then(Eval(Head(es), e, s), LAMBDA v, s1 :
              evalSequence(Tail(es), Append(done, v), e, s1))

isNamed(v) == v.t = "NAMED_ARG"
positionals(args) == SelectSeq(args, LAMBDA v : ~isNamed(v))
nameds(args) == SelectSeq(args, isNamed)

\* extendFunctionEnv: one parameter after the other, its argument, its
\* default evaluated in the new scope, or null unchecked.
bindParams(ps, i, args, e, s) ==
    IF i > Len(ps) THEN Ret(Null, s)
    ELSE LET given == i <= Len(args) \/ ps[i].default # None
             r == IF i <= Len(args) THEN Ret(args[i], s)
                  ELSE optional(ps[i].default, e, s)
         IN  Then(r, LAMBDA v, s1 :
             Then(IF given THEN checkValueAnnotation(ps[i].type, v, e, s1)
                  ELSE Ret(v, s1), LAMBDA w, s2 :
                  bindParams(ps, i + 1, args, e, Set(ps[i].name, v, e, s2))))

fillDefaults(ps, filled, e, s) ==
    LET open == {i \in DOMAIN ps : ps[i].name \notin filled}
        i == Min(open)
    IN  IF open = {} THEN Ret(Null, s)
        ELSE IF ps[i].default = None
        THEN newError("missing required argument", s)
        ELSE Then(Eval(ps[i].default, e, s), LAMBDA v, s1 :
             Then(checkValueAnnotation(ps[i].type, v, e, s1), LAMBDA w, s2 :
                  fillDefaults(ps, filled \union {ps[i].name}, e,
                               Set(ps[i].name, v, e, s2))))

\* bindNamedParams: positionals in order, then names, then defaults.
bindNamedParams(ps, args, e, s) ==
    LET pos == SubSeq(positionals(args), 1,
                      Min({Len(ps), Len(positionals(args))}))
        given == [i \in DOMAIN pos |-> NamedArg(ps[i].name, pos[i])]
                   \o nameds(args)
        Bind(r, a) ==
            Then(r, LAMBDA done, s1 :
            LET at == {i \in DOMAIN ps : ps[i].name = a.name}
            IN  IF at = {} THEN newError("unknown parameter", s1)
                ELSE IF a.name \in done.names
                THEN newError("duplicate value for parameter", s1)
                ELSE Then(checkValueAnnotation(ps[Min(at)].type, a.value, e,
                                               s1), LAMBDA w, s2 :
                     Ret([t |-> "NAMES", names |-> done.names \union {a.name}],
                         Set(a.name, a.value, e, s2))))
    IN  Then(FoldLeft(Bind, Ret([t |-> "NAMES", names |-> {}], s), given),
             LAMBDA done, s1 : fillDefaults(ps, done.names, e, s1))

\* The statements of evalCollectingYields: a nil result does not count.
evalBody(stmts, last, e, s) ==
    IF stmts = <<>> THEN Ret(last, s)
    ELSE LET r == Eval(Head(stmts), e, s)
         IN  IF Stops(r.val) \/
                r.val.t \in {"RETURN_VALUE", "BREAK", "CONTINUE"}
             THEN r
             ELSE evalBody(Tail(stmts), r.val, e, r.st)

unwrapReturnValue(v) == IF v.t = "RETURN_VALUE" THEN v.value ELSE v

checkReturnType(fn, v, e, s) ==
    IF isError(v) THEN Ret(v, s)
    ELSE checkValueAnnotation(fn.node.returns, v, e, s)

\* The end of applyFunction and applyFunctionNamed in the call's scope e:
\* the body under a yield sink of its own, the deferred calls, the result.
\* The sinks in use count the calls in progress: one too many exhausts the
\* stack, which ends the process.
callFunction(fn, e, s) ==
    LET sink == Len(s.sinks) + 1
        body == evalBody(fn.node.body.stmts, Null, e,
                         SetSink(sink, e, [s EXCEPT !.sinks = Append(@, <<>>)]))
        yields == body.st.sinks[sink]
        deferred == runDefers(e, SetSink(0, e, body.st))
        after == [deferred.st EXCEPT !.sinks = SubSeq(@, 1, sink - 1)]
    IN  CASE sink > MaxDepth -> Crash(s)
          [] body.val = Panic -> body
          [] deferred.val = Panic -> deferred
          [] yields # <<>> ->
               Alloc([t |-> "GENERATOR", values |-> yields, index |-> 0,
                      exhausted |-> FALSE], after)
          [] OTHER -> checkReturnType(fn, unwrapReturnValue(body.val), e, after)

constructRecord(def, args, s) ==
    LET pos == positionals(args)
        names == nameds(args)
        given == [i \in DOMAIN pos |-> NamedArg(def.fields[i], pos[i])] \o names
        Named(x) == {i \in DOMAIN given : given[i].name = x}
    IN  IF Len(pos) > Len(def.fields) THEN newError("too many fields", s)
        ELSE IF \/ \E i \in DOMAIN names : names[i].name \notin ToSet(def.fields)
                \/ \E x \in ToSet(def.fields) : Cardinality(Named(x)) # 1
        THEN newError("record field unknown, duplicate or missing", s)
        ELSE Ret(Record(def, [x \in ToSet(def.fields) |->
                                given[Min(Named(x))].value]), s)

applyFunction(fn, args, s) ==
    CASE fn.t = "FUNCTION" ->
           LET in == NewEnclosed(fn.env, s)
               e == Len(in.frames)
           IN  Then(IF nameds(args) = <<>>
                    THEN bindParams(fn.node.params, 1, args, e, in)
                    ELSE bindNamedParams(fn.node.params, args, e, in),
                    LAMBDA v, s1 : callFunction(fn, e, s1))
      [] fn.t = "RECORD_DEF" -> constructRecord(fn.def, args, s)
      [] fn.t = "BUILTIN" /\ nameds(args) # <<>> ->
           newError("builtin does not accept named arguments", s)
      [] fn.t = "BUILTIN" -> evalBuiltin(fn, args, s)
      [] fn = Nil -> Crash(s)
      [] OTHER -> newError("not a function", s)

-----------------------------------------------------------------------------
(* Classes *)

\* A method's body is a plain block: it runs no deferred calls, collects no
\* yields, and a parameter without an argument stays unbound.
applyMethodBody(fn, args, e, s) ==
    LET ps == fn.node.params
        given == SubSeq(ps, 1, Min({Len(ps), Len(args)}))
    IN  Then(IF nameds(args) = <<>> THEN bindParams(given, 1, args, e, s)
             ELSE bindNamedParams(ps, args, e, s), LAMBDA v, s1 :
             LET r == Eval(fn.node.body, e, s1)
             IN  IF r.val = Panic THEN r
                 ELSE checkReturnType(fn, unwrapReturnValue(r.val), e, r.st))

\* A static method has no `this`.
applyMethod(fn, this, args, s) ==
    LET in == NewEnclosed(fn.env, s)
        e == Len(in.frames)
    IN  applyMethodBody(fn, args, e,
                        IF this = None THEN in ELSE Set("this", this, e, in))

evalMethodCall(v, name, args, s) ==
    LET class == IF v.t = "CLASS" THEN v.class ELSE Deref(v, s).class
        m == GetMethod(class, name)
    IN  CASE v = Nil -> Crash(s)
          [] v.t \notin {"CLASS", "INSTANCE"} ->
               newError("method call on non-instance", s)
          [] m = None -> newError("method not found", s)
          [] v.t = "CLASS" /\ ~m.node.static -> newError("not static", s)
          [] OTHER -> applyMethod(m, IF v.t = "CLASS" THEN None ELSE v, args,
                                  s)

evalClassStatement(n, e, s) ==
    LET up == IF n.parent = "" THEN None
              ELSE IF ~Bound(n.parent, e, s) \/
                      Get(n.parent, e, s).t # "CLASS"
              THEN Nil ELSE Get(n.parent, e, s).class
        class == [t |-> "CLASS",
                  class |-> [name |-> n.name, id |-> s.defs + 1,
                             parent |-> up, fields |-> n.fields,
                             methods |-> [m \in DOMAIN n.methods |->
                                            Function(m, n.methods[m], e)]]]
    IN  IF up = Nil THEN newError("parent class not found", s)
        ELSE Ret(class, Set(n.name, class, e, [s EXCEPT !.defs = @ + 1]))

\* Field defaults see `this`, in a scope enclosed by the `new` expression's.
initFields(fields, this, e, s) ==
    IF fields = <<>> THEN Ret(this, s)
    ELSE IF Head(fields).default = None
    THEN initFields(Tail(fields), this, e, s)
    ELSE LET in == NewEnclosed(e, s)
             inner == Len(in.frames)
         IN  Then(Eval(Head(fields).default, inner,
                       Set("this", this, inner, in)), LAMBDA v, s1 :
                  initFields(Tail(fields), this, e,
                      [s1 EXCEPT !.heap[this.ref].fields =
                         (Head(fields).name :> v) @@ @]))

evalNewExpression(n, e, s) ==
    IF ~Bound(n.class, e, s) \/ Get(n.class, e, s).t # "CLASS"
    THEN newError("class not found", s)
    ELSE LET class == Get(n.class, e, s).class
             this == Alloc([t |-> "INSTANCE", class |-> class,
                            fields |-> NoPairs], s)
             init == GetMethod(class, "init")
         IN  Then(evalExpressions(n.args, <<>>, e, this.st), LAMBDA args, s1 :
             Then(initFields(collectClassFields(class), this.val, e, s1),
                  LAMBDA v, s2 :
             Then(IF init = None THEN Ret(Null, s2)
                  ELSE applyMethod(init, this.val, args.vals, s2),
                  LAMBDA w, s3 : Ret(this.val, s3))))

evalDecoratorStatement(n, e, s) ==
    Then(Eval(n.function, e, s), LAMBDA v, s1 :
         LET x == n.function.name
         IN  IF ~Bound(n.decorator, e, s1)
             THEN newError("decorator not found", s1)
             ELSE Then(Invoke(Get(n.decorator, e, s1),
                                     <<Get(x, e, s1)>>, s1),
                       LAMBDA w, s2 : Ret(w, Set(x, w, e, s2))))

-----------------------------------------------------------------------------
(* Expressions with parts of their own *)

\* Assignments are checked against the type declared for the name by the
\* nearest scope that declares one, which need not be the one it binds in.
evalAssignExpression(n, e, s) ==
    Then(Eval(n.value, e, s), LAMBDA v, s1 :
        LET ann == LookupDeclaredType(n.name, e, s1)
        IN  Then(checkValueAnnotation(ann, v, e, s1), LAMBDA w, s2 :
                 assignName(n.name, v, e, s2)))

\* The operand is evaluated, then its parts again for the update.
evalPostfixExpression(n, e, s) ==
    Then(Eval(n.operand, e, s), LAMBDA old, s1 :
        LET to == n.operand
            new == Integer(IF n.op = "++" THEN old.int + 1 ELSE old.int - 1)
            Old(v, st) == Ret(old, st)
        IN  CASE old = Nil -> Crash(s1)
              [] old.t # "INTEGER" -> newError("requires a number", s1)
              [] to.k = "Identifier" ->
                   IF CanAssign(to.name, e, s1)
                   THEN Ret(old, Assign(to.name, new, e, s1))
                   ELSE newError("cannot assign to constant", s1)
              [] to.k = "MemberExpression" ->
                   Then(Eval(to.object, e, s1), LAMBDA v, s2 :
                        Then(SetMember(v, to.name, new, s2), Old))
              [] to.k = "IndexExpression" ->
                   Then(Eval(to.left, e, s1), LAMBDA v, s2 :
                   Then(Eval(to.index, e, s2), LAMBDA i, s3 :
                        Then(assignToIndex(v, i, new, s3), Old)))
              [] OTHER -> newError("requires an assignable target", s1))

evalInfix(n, e, s) ==
    Then(Eval(n.left, e, s), LAMBDA l, s1 :
        LET Truth == Then(Eval(n.right, e, s1),
                          LAMBDA r, s2 : Ret(Bool(isTruthy(r)), s2))
        IN  CASE n.op = "&&" ->
                   IF isTruthy(l) THEN Truth ELSE Ret(Bool(FALSE), s1)
              [] n.op = "||" ->
                   IF isTruthy(l) THEN Ret(Bool(TRUE), s1) ELSE Truth
              [] n.op = "??" ->
                   IF l = Nil THEN Crash(s1)
                   ELSE IF l.t # "NULL" THEN Ret(l, s1)
                   ELSE Eval(n.right, e, s1)
              [] OTHER -> Then(Eval(n.right, e, s1), LAMBDA r, s2 :
                               evalInfixExpression(n.op, l, r, s2)))

evalSpreads(es, pairs, e, s) == 
    IF es = <<>> THEN Ret([t |-> "PAIRS", pairs |-> pairs], s)
    ELSE Then(Eval(Head(es).value, e, s), LAMBDA v, s1 :
              IF v.t # "HASH" THEN newError("cannot spread", s1)
              ELSE evalSpreads(Tail(es), Deref(v, s1).pairs @@ pairs, e, s1))

evalPairs(ps, order, pairs, e, s) ==
    IF order = <<>> THEN NewHash(pairs, s)
    ELSE LET p == ps[Head(order)]
         IN  Then(Eval(p[1], e, s), LAMBDA key, s1 :
             IF ~Hashable(key) THEN newError("unusable as hash key", s1)
             ELSE Then(Eval(p[2], e, s1), LAMBDA v, s2 :
                  evalPairs(ps, Tail(order), (HashKey(key) :> v) @@ pairs, e,
                            s2)))

\* Spreads first; then the explicit pairs, in the order of a Go map.
evalHashLiteral(n, e, s) ==
    Then(evalSpreads(n.spreads, NoPairs, e, s), LAMBDA p, s1 :
        LET order == [i \in DOMAIN n.pairs |-> i]
        IN  evalPairs(n.pairs, IF s.rev THEN Reverse(order) ELSE order,
                      p.pairs, e, s1))

evalRangeExpression(n, e, s) ==
    Then(Eval(n.start, e, s), LAMBDA a, s1 :
    Then(Eval(n.end, e, s1), LAMBDA b, s2 :
        IF a.t # "INTEGER" \/ b.t # "INTEGER"
        THEN newError("range endpoints must be integers", s2)
        ELSE LET n0 == b.int - a.int + (IF n.inclusive THEN 1 ELSE 0)
                 vs == [i \in 1..n0 |-> Integer(a.int + i - 1)]
             IN  NewArray(vs, Grown(Len(vs)), s2)))

\* The links of a?.b chain: the first null ends it, unevaluated links and all.
evalLinks(links, v, recv, name, e, s) ==
    LET Next(r, rcv, nm) ==
            Then(r, LAMBDA w, s1 :
                 evalLinks(Tail(links), w, rcv, nm, e, s1))
    IN  CASE v = Nil -> Crash(s)
          [] v.t = "NULL" -> Ret(Null, s)
          [] links = <<>> -> Ret(v, s)
          [] Head(links).kind = "member" ->
               Next(evalMemberAccess(v, Head(links).name, s), v,
                    Head(links).name)
          [] Head(links).kind = "index" ->
               Next(Then(Eval(Head(links).index, e, s), LAMBDA i, s1 :
                         evalIndexExpression(v, i, s1)), None, "")
          [] OTHER ->
               Next(Then(evalExpressions(Head(links).args, <<>>, e, s),
                         LAMBDA a, s1 :
                         IF recv = None THEN Invoke(v, a.vals, s1)
                         ELSE evalMethodCall(recv, name, a.vals, s1)),
                    None, "")

\* A missing element binds null; a const pattern makes constants.
evalDestructureLet(n, e, s) ==
    Then(Eval(n.value, e, s), LAMBDA v, s1 :
        LET p == n.pattern
            Bind(st, x, w) == IF n.const THEN SetConst(x, w, e, st)
                              ELSE Set(x, w, e, st)
            elems == CASE v.t = "ARRAY" -> Elements(v, s1)
                       [] v.t = "TUPLE" -> v.elems
                       [] v.t = "RECORD" -> FieldValues(v)
            bound == FoldLeft(LAMBDA st, i :
                        Bind(st, p.names[i],
                             IF i <= Len(elems) THEN elems[i] ELSE Null),
                        s1, [i \in DOMAIN p.names |-> i])
            restOf == SubSeq(elems, Len(p.names) + 1, Len(elems))
            rest == NewArray(restOf, Len(restOf), bound)
            Field(x) == LET w == lookupMember(v, x, s1)
                        IN  IF w = Nil THEN Null ELSE w
        IN  CASE p.k = "ArrayPattern" /\ v.t \in {"ARRAY", "TUPLE", "RECORD"} ->
                   Ret(Null, IF p.rest = "" THEN bound
                             ELSE Bind(rest.st, p.rest, rest.val))
              [] p.k = "HashPattern" /\ v.t \in {"HASH", "RECORD"} ->
                   Ret(Null, FoldLeft(LAMBDA st, en :
                                 Bind(st, en.value, Field(en.key)),
                                 s1, p.entries))
              [] v = Nil -> Crash(s1)
              [] OTHER -> newError("cannot destructure", s1))

-----------------------------------------------------------------------------
(* match: a pattern's answer is NO, an error, or the bindings it makes.    *)
(* They are committed to a fresh scope once the whole pattern matched.     *)

No == [t |-> "NO"]
Bindings(b) == [t |-> "BINDINGS", map |-> b]
\* The next step of a pattern, unless the last one failed.
AndThen(r, K(_, _)) ==
    IF Stops(r.val) \/ r.val = No THEN r ELSE K(r.val.map, r.st)

matchEquals(a, b, s) == /\ a.t = b.t
                        /\ a.t = "NULL" \/ Inspect(a, s) = Inspect(b, s)

matchLegacyPattern(p, v, b, e, s) ==
    Then(Eval(p, e, s), LAMBDA w, s1 :
         Ret(IF matchEquals(v, w, s1) THEN Bindings(b) ELSE No, s1))

Bind1(x, v, b) == Bindings(IF x = "_" THEN b ELSE (x :> v) @@ b)

\* Each pattern against its value, in order.
matchAll(ps, vs, b, e, s) ==
    IF ps = <<>> THEN Ret(Bindings(b), s)
    ELSE AndThen(matchPattern(Head(ps), Head(vs), b, e, s),
                 LAMBDA b1, s1 : matchAll(Tail(ps), Tail(vs), b1, e, s1))

\* Exactly as many elements as patterns, unless the last one is ...rest.
matchSeqPattern(ps, v, b, e, s) ==
    LET items == CASE v.t = "ARRAY" -> Elements(v, s)
                   [] v.t = "TUPLE" -> v.elems
                   [] v.t = "RECORD" -> FieldValues(v)
        open == ps # <<>> /\ Last(ps).k = "SpreadExpression"
        fixed == IF open THEN Front(ps) ELSE ps
        n == Len(fixed)
    IN  CASE v.t \notin {"ARRAY", "TUPLE", "RECORD"} -> Ret(No, s)
          [] open /\ Last(ps).value.k # "Identifier" ->
               newError("rest pattern must bind an identifier", s)
          [] \E i \in DOMAIN fixed : fixed[i].k = "SpreadExpression" ->
               newError("rest must be last", s)
          [] Len(items) < n \/ (~open /\ Len(items) # n) -> Ret(No, s)
          [] OTHER ->
               AndThen(matchAll(fixed, SubSeq(items, 1, n), b, e, s),
                   LAMBDA b1, s1 :
                   IF ~open \/ Last(ps).value.name = "_"
                   THEN Ret(Bindings(b1), s1)
                   ELSE LET more == SubSeq(items, n + 1, Len(items))
                            rest == NewArray(more, Len(more), s1)
                        IN  Ret(Bind1(Last(ps).value.name, rest.val, b1),
                                rest.st))

\* lookupMatchField: Nil when the hash or record has no such field.
lookupMatchField(v, key, s) ==
    IF v.t = "HASH"
    THEN IF key \in DOMAIN Deref(v, s).pairs THEN Deref(v, s).pairs[key]
         ELSE Nil
    ELSE IF v.t = "RECORD" /\ key.t = "STRING" THEN lookupMember(v, key.str, s)
    ELSE Nil

\* {x, k: y}: every key must be there.
matchHashPattern(p, v, b, s) ==
    LET Field(en) == lookupMatchField(v, Str(en.key), s)
    IN  IF \E i \in DOMAIN p.entries : Field(p.entries[i]) = Nil
        THEN Ret(No, s)
        ELSE Ret(FoldLeft(LAMBDA acc, en : Bind1(en.value, Field(en), acc.map),
                          Bindings(b), p.entries), s)

\* A literal key or a name; the entries are visited in the order of their
\* keys, which `pairs` is written in.  Other keys mean a plain comparison.
matchHashLiteralPattern(p, v, b, e, s) ==
    LET Key(n) == CASE n.k = "Identifier" -> Str(n.name)
                    [] n.k = "StringLiteral" -> Str(n.str)
                    [] n.k = "IntegerLiteral" -> Integer(n.int)
                    [] OTHER -> Nil
        ps == p.pairs
        fields == [i \in DOMAIN ps |-> lookupMatchField(v, Key(ps[i][1]), s)]
        found == {i \in DOMAIN ps : fields[i] # Nil}
        \* the patterns before the first missing key are still tried
        n == Min({i - 1 : i \in DOMAIN ps \ found} \union {Len(ps)})
    IN  IF p.spreads # <<>> \/ \E i \in DOMAIN ps : Key(ps[i][1]) = Nil
        THEN matchLegacyPattern(p, v, b, e, s)
        ELSE AndThen(matchAll([i \in 1..n |-> ps[i][2]], SubSeq(fields, 1, n),
                              b, e, s),
                     LAMBDA b1, s1 :
                     IF n < Len(ps) THEN Ret(No, s1) ELSE Ret(Bindings(b1), s1))

literalKinds == {"IntegerLiteral", "StringLiteral", "Boolean", "NullLiteral"}

\* Point(x, y: 0): every field exactly once, names binding, literals tested.
matchRecordCallPattern(p, def, v, b, e, s) ==
    LET args == p.args
        Named(a) == a.k = "NamedArgument"
        Sub(a) == IF Named(a) THEN a.value ELSE a
        bad == {i \in DOMAIN args :
                  \/ Named(args[i]) /\ args[i].name \notin ToSet(def.fields)
                  \/ ~Named(args[i]) /\ i > Len(def.fields)}
        FieldOf(i) == IF Named(args[i]) THEN args[i].name ELSE def.fields[i]
        good == 1..Min({i - 1 : i \in bad} \union {Len(args)})
        twice == \E i, j \in good : i # j /\ FieldOf(i) = FieldOf(j)
    IN  CASE \E i \in good : Sub(args[i]).k \notin
                               literalKinds \union {"Identifier"} ->
               matchLegacyPattern(p, v, b, e, s)
          [] twice -> newError("duplicate binding for field", s)
          [] bad # {} -> IF Named(args[Min(bad)])
                         THEN newError("record has no field", s)
                         ELSE Ret(No, s)
          [] Len(args) # Len(def.fields) -> Ret(No, s)
          [] v.t # "RECORD" -> Ret(No, s)
          [] v.def.name # def.name -> Ret(No, s)
          [] OTHER -> matchAll([i \in DOMAIN args |-> Sub(args[i])],
                               [i \in DOMAIN args |-> v.vals[FieldOf(i)]],
                               b, e, s)

\* matchArmPattern, and matchValuePattern for the parts of a pattern.
matchPattern(p, v, b, e, s) ==
    LET def == IF p.k = "CallExpression" /\ p.fn.k = "Identifier" /\
                  Bound(p.fn.name, e, s)
               THEN Get(p.fn.name, e, s) ELSE Nil
    IN  CASE p.k = "Identifier" -> Ret(Bind1(p.name, v, b), s)
          [] p.k \in {"ArrayLiteral", "TupleLiteral"} ->
               matchSeqPattern(p.elems, v, b, e, s)
          [] p.k = "HashPattern" -> matchHashPattern(p, v, b, s)
          [] p.k = "HashLiteral" -> matchHashLiteralPattern(p, v, b, e, s)
          [] def.t = "RECORD_DEF" ->
               matchRecordCallPattern(p, def.def, v, b, e, s)
          [] OTHER -> matchLegacyPattern(p, v, b, e, s)

\* A slip: the bindings are made in the scope around the match.
matchArmsHere(n, i, v, e, s) ==
    IF i > Len(n.arms)
    THEN IF n.default = None THEN Ret(Null, s) ELSE Eval(n.default, e, s)
    ELSE LET arm == n.arms[i]
             m == matchPattern(arm.pattern, v, NoPairs, e, s)
             bound == [m.st EXCEPT !.frames[e].store = m.val.map @@ @]
         IN  CASE Stops(m.val) -> m
               [] m.val = No -> matchArms(n, i + 1, v, e, m.st)
               [] OTHER ->
                    Then(IF arm.guard = None THEN Ret(Bool(TRUE), bound)
                         ELSE Eval(arm.guard, e, bound), LAMBDA g, s1 :
                         IF isTruthy(g) THEN Eval(arm.body, e, s1)
                         ELSE matchArms(n, i + 1, v, e, s1))

\* The first arm whose pattern matches and whose guard holds.
matchArms(n, i, v, e, s) ==
    IF i > Len(n.arms)
    THEN IF n.default = None THEN Ret(Null, s) ELSE Eval(n.default, e, s)
    ELSE LET arm == n.arms[i]
             m == matchPattern(arm.pattern, v, NoPairs, e, s)
             in == NewEnclosed(e, m.st)
             scope == Len(in.frames)
             bound == [in EXCEPT !.frames[scope].store = m.val.map]
         IN  CASE Stops(m.val) -> m
               [] m.val = No -> matchArms(n, i + 1, v, e, m.st)
               [] OTHER ->
                    Then(IF arm.guard = None THEN Ret(Bool(TRUE), bound)
                         ELSE Eval(arm.guard, scope, bound), LAMBDA g, s1 :
                         IF isTruthy(g) THEN Eval(arm.body, scope, s1)
                         ELSE matchArms(n, i + 1, v, e, s1))

-----------------------------------------------------------------------------
(* Builtins on arrays that call a function back.  The array's bounds are   *)
(* read once, its elements as the loop goes.                               *)

Item(a, i, s) == s.mem[a.back][a.off + i]
CallAt(f, a, i, s) == Invoke(f, <<Item(a, i, s)>>, s)

\* A slip: a failed call's error is an element like any other.
mapElementsUnchecked(f, a, i, done, s) ==
    IF i > a.len THEN NewArray(done, Len(done), s)
    ELSE LET r == CallAt(f, a, i, s)
         IN  mapElements(f, a, i + 1, Append(done, r.val), r.st)

mapElements(f, a, i, done, s) ==
    IF i > a.len THEN NewArray(done, Len(done), s)
    ELSE Then(CallAt(f, a, i, s), LAMBDA v, s1 :
              mapElements(f, a, i + 1, Append(done, v), s1))

filterElements(f, a, i, done, s) ==
    IF i > a.len THEN NewArray(done, Grown(Len(done)), s)
    ELSE LET el == Item(a, i, s)
         IN  Then(CallAt(f, a, i, s), LAMBDA v, s1 :
                  filterElements(f, a, i + 1, IF isTruthy(v)
                                              THEN Append(done, el) ELSE done,
                                 s1))

reduceElements(f, a, i, acc, s) ==
    IF i > a.len THEN Ret(acc, s)
    ELSE Then(Invoke(f, <<acc, Item(a, i, s)>>, s), LAMBDA v, s1 :
              reduceElements(f, a, i + 1, v, s1))

\* The first element the function says `truth` of, after `find`.
findElement(f, truth, a, i, s) ==
    IF i > a.len THEN Ret(Nil, s)
    ELSE LET el == Item(a, i, s)
         IN  Then(CallAt(f, a, i, s), LAMBDA v, s1 :
                  IF isTruthy(v) = truth
                  THEN Ret([t |-> "FOUND", value |-> el], s1)
                  ELSE findElement(f, truth, a, i + 1, s1))

\* The groups are keyed by what the answers look like.
groupElements(f, a, i, groups, s) ==
    IF i > a.len THEN NewHash(groups, s)
    ELSE LET el == Item(a, i, s)
         IN  Then(CallAt(f, a, i, s), LAMBDA v, s1 :
             LET key == Str(Inspect(v, s1))
                 new == NewArray(<<el>>, 1, s1)
             IN  IF v = Nil THEN Crash(s1)
                 ELSE IF key \in DOMAIN groups
                 THEN groupElements(f, a, i + 1, groups,
                                    AppendElement(groups[key], el, s1))
                 ELSE groupElements(f, a, i + 1, (key :> new.val) @@ groups,
                                    new.st))

builtinMap(v, f, s) == mapElements(f, Deref(v, s), 1, <<>>, s)
builtinFilter(v, f, s) == filterElements(f, Deref(v, s), 1, <<>>, s)
builtinReduce(v, args, s) ==
    LET a == Deref(v, s)
    IN  IF Len(args) = 3 THEN reduceElements(args[2], a, 1, args[3], s)
        ELSE IF a.len = 0 THEN Ret(Null, s)
        ELSE reduceElements(args[2], a, 2, Item(a, 1, s), s)
builtinGroupBy(v, f, s) == groupElements(f, Deref(v, s), 1, NoPairs, s)

\* find answers the element, any and all a boolean.
Search(v, f, truth, Answer(_), s) ==
    Then(findElement(f, truth, Deref(v, s), 1, s),
         LAMBDA r, s1 : Ret(Answer(r), s1))
builtinFind(v, f, s) ==
    Search(v, f, TRUE, LAMBDA r : IF r = Nil THEN Null ELSE r.value, s)
builtinAny(v, f, s) == Search(v, f, TRUE, LAMBDA r : Bool(r # Nil), s)
builtinAll(v, f, s) == Search(v, f, FALSE, LAMBDA r : Bool(r = Nil), s)

\* Functions made of functions: a builtin object with what it is made of.
Callable == {"FUNCTION", "BUILTIN"}
Made(name, fn, bound) ==
    [t |-> "BUILTIN", name |-> name, fn |-> fn, bound |-> bound]

builtinPartial(args, s) == Ret(Made("partial of", args[1], Tail(args)), s)
builtinCurry(fn, s) ==
    IF fn.t # "FUNCTION" THEN newError("curry: arity unknown", s)
    ELSE Ret(Made("curried", fn, <<>>), s)
builtinCompose(args, s) ==
    IF \E i \in DOMAIN args : args[i].t \notin Callable
    THEN newError("compose: arguments must be functions", s)
    ELSE Ret(Made("composed", args, <<>>), s)

\* From the last function to the first.
applyComposed(fns, args, s) ==
    Then(Invoke(Last(fns), args, s), LAMBDA v, s1 :
         IF Len(fns) = 1 THEN Ret(v, s1)
         ELSE applyComposed(Front(fns), <<v>>, s1))

\* A call of such a function: a curried one waits for its required
\* parameters.
applyMade(fn, args, s) ==
    LET all == fn.bound \o args
        required == SelectSeq(fn.fn.node.params,
                              LAMBDA p : p.default = None)
    IN  CASE fn.name = "composed" -> applyComposed(fn.fn, args, s)
          [] fn.name = "curried" /\ Len(all) < Len(required) ->
               Ret(Made("curried", fn.fn, all), s)
          [] OTHER -> Invoke(fn.fn, all, s)

-----------------------------------------------------------------------------
(* Builtins on arrays *)

builtinTuple(v, s) == Ret(Tuple(Elements(v, s)), s)

\* An array of new arrays.
NewRows(rows, s) ==
    LET Row(acc, vs) == LET a == NewArray(vs, Len(vs), acc.st)
                        IN  Ret(Append(acc.val, a.val), a.st)
        r == FoldLeft(Row, Ret(<<>>, s), rows)
    IN  NewArray(r.val, Len(rows), r.st)
builtinChunk(v, args, s) ==
    LET vs == Elements(v, s)
        n == Len(vs)
        size == args[2].int
    IN  IF ~Ints(args) THEN Crash(s)
        ELSE IF size <= 0 THEN newError("chunk: size > 0", s)
        ELSE NewRows([k \in 1..((n + size - 1) \div size) |->
                        SubSeq(vs, (k - 1) * size + 1, Min({k * size, n}))], s)
builtinZip(v, w, s) ==
    LET a == Elements(v, s)
        b == Elements(w, s)
    IN  IF w.t # "ARRAY" THEN newError("zip: want arrays", s)
        ELSE NewRows([i \in 1..Min({Len(a), Len(b)}) |-> <<a[i], b[i]>>], s)
builtinEnumerate(v, s) ==
    LET vs == Elements(v, s)
    IN  NewRows([i \in DOMAIN vs |-> <<Integer(i - 1), vs[i]>>], s)

\* Elements are told apart by their types and by what they look like.
Alike(a, b, s) == a.t = b.t /\ Inspect(a, s) = Inspect(b, s)
Positions(v, x, s) ==
    {i \in 1..Deref(v, s).len : Alike(Item(Deref(v, s), i, s), x, s)}
builtinCount(v, x, s) == Ret(Integer(Cardinality(Positions(v, x, s))), s)
builtinIndexOf(v, x, s) ==
    LET at == Positions(v, x, s)
    IN  Ret(Integer(IF at = {} THEN -1 ELSE Min(at) - 1), s)
builtinUnique(v, s) ==
    LET vs == Elements(v, s)
        once == FoldLeft(LAMBDA acc, x :
                           IF \E i \in DOMAIN acc : Alike(acc[i], x, s)
                           THEN acc ELSE Append(acc, x), <<>>, vs)
    IN  NewArray(once, Grown(Len(once)), s)

RECURSIVE Leaves(_, _)
Leaves(v, s) ==
    IF v.t # "ARRAY" THEN <<v>>
    ELSE FoldLeft(LAMBDA acc, x : acc \o Leaves(x, s), <<>>, Elements(v, s))
builtinFlatten(v, s) ==
    NewArray(Leaves(v, s), Grown(Len(Leaves(v, s))), s)

builtinSum(v, s) ==
    LET vs == Elements(v, s)
    IN  IF \E i \in DOMAIN vs : vs[i].t # "INTEGER"
        THEN newError("sum: non-numeric element", s)
        ELSE Ret(Integer(FoldLeft(LAMBDA n, x : n + x.int, 0, vs)), s)

\* Of the arguments or of one array: what is not a number is passed over.
Best(args, Better(_, _), s) ==
    LET vs == IF Len(args) = 1 /\ args[1].t = "ARRAY" THEN Elements(args[1], s)
              ELSE args
        Pick(b, x) == IF b.t = "INTEGER" /\ x.t = "INTEGER" /\
                         Better(x.int, b.int) THEN x ELSE b
    IN  Ret(IF vs = <<>> THEN Null ELSE FoldLeft(Pick, Head(vs), Tail(vs)), s)
builtinMin(args, s) == Best(args, LAMBDA a, b : a < b, s)
builtinMax(args, s) == Best(args, LAMBDA a, b : a > b, s)

\* A bound that is not a number counts as 0.
builtinRange(args, s) ==
    LET n(i) == IF args[i].t = "INTEGER" THEN args[i].int ELSE 0
        from == IF Len(args) = 1 THEN 0 ELSE n(1)
        to == IF Len(args) = 1 THEN n(1) ELSE n(2)
        step == IF Len(args) = 3 THEN n(3) ELSE 1
        size == IF step > 0 THEN (to - from + step - 1) \div step
                ELSE (from - to - step - 1) \div (-step)
        vs == [i \in 1..size |-> Integer(from + (i - 1) * step)]
    IN  IF step = 0 THEN newError("range: step cannot be 0", s)
        ELSE NewArray(vs, Grown(Len(vs)), s)

-----------------------------------------------------------------------------
(* Builtins on hashes; a set is a hash of its members to TRUE *)

PairsOf(v, s) == Deref(v, s).pairs

builtinHas(v, key, s) == Ret(Bool(HashKey(key) \in DOMAIN PairsOf(v, s)), s)
builtinSetHas(v, key, s) ==
    IF Hashable(key) THEN builtinHas(v, key, s) ELSE Ret(Bool(FALSE), s)
\* The hashable arguments, and the hashable elements of arrays.
builtinSet(args, s) ==
    LET Members(x) == IF Hashable(x) THEN {HashKey(x)}
                      ELSE IF x.t = "ARRAY"
                      THEN {HashKey(y) : y \in {z \in ToSet(Elements(x, s)) :
                                                  Hashable(z)}} ELSE {}
    IN  NewHash([x \in UNION {Members(args[i]) : i \in DOMAIN args} |->
                   Bool(TRUE)], s)

builtinSetUnion(v, w, s) == NewHash(PairsOf(w, s) @@ PairsOf(v, s), s)
builtinSetIntersect(v, w, s) ==
    NewHash(Only(PairsOf(v, s), DOMAIN PairsOf(w, s)), s)
builtinSetDiff(v, w, s) ==
    NewHash(Only(PairsOf(v, s), DOMAIN PairsOf(v, s) \ DOMAIN PairsOf(w, s)),
            s)
builtinSetLen(v, s) == Ret(Integer(Cardinality(DOMAIN PairsOf(v, s))), s)

builtinMapMerge(args, s) ==
    IF \E i \in DOMAIN args : args[i].t # "HASH"
    THEN newError("map_merge: arguments must be maps", s)
    ELSE NewHash(FoldLeft(LAMBDA acc, h : PairsOf(h, s) @@ acc, NoPairs, args),
                 s)

\* The string keys map_pick and map_omit are given, one by one or in an array.
mapKeyList(args, s, K(_)) ==
    LET keys == ToSet(IF Len(args) = 2 /\ args[2].t = "ARRAY"
                      THEN Elements(args[2], s) ELSE Tail(args))
    IN  IF \E key \in keys : key.t # "STRING"
        THEN newError("keys must be strings", s)
        ELSE K(keys)
builtinMapPick(v, args, s) ==
    mapKeyList(args, s, LAMBDA keys : NewHash(Only(PairsOf(v, s), keys), s))
builtinMapOmit(v, args, s) ==
    mapKeyList(args, s, LAMBDA keys :
        NewHash(Only(PairsOf(v, s), DOMAIN PairsOf(v, s) \ keys), s))

builtinKeys(v, s) ==
    LET ks == KeysOf(PairsOf(v, s), s) IN NewArray(ks, Grown(Len(ks)), s)
builtinValues(v, s) ==
    LET ks == KeysOf(PairsOf(v, s), s)
    IN  NewArray([i \in DOMAIN ks |-> PairsOf(v, s)[ks[i]]], Grown(Len(ks)), s)

-----------------------------------------------------------------------------
(* Other builtins *)

builtinLen(v, s) ==
    Ret(Integer(CASE v.t = "ARRAY" -> Deref(v, s).len
                  [] v.t = "TUPLE" -> Len(v.elems)
                  [] v.t = "HASH" -> Cardinality(DOMAIN PairsOf(v, s))
                  [] v.t = "RECORD" -> Len(v.def.fields)
                  [] v.t = "STRING" -> Len(v.str)), s)
builtinIsEmpty(v, s) ==
    Ret(Bool(CASE v.t = "NULL" -> TRUE
               [] v.t = "STRING" -> v.str = ""
               [] v.t = "ARRAY" -> Deref(v, s).len = 0
               [] v.t = "HASH" -> PairsOf(v, s) = NoPairs
               [] OTHER -> FALSE), s)
builtinType(v, s) == Ret(Str(v.t), s)
builtinIsNull(v, s) == Ret(Bool(v.t = "NULL"), s)
builtinAssert(v, s) == IF isTruthy(v) THEN Ret(Bool(TRUE), s)
                       ELSE newError("assertion failed", s)
builtinAbs(v, s) == Ret(Integer(Max({v.int, -v.int})), s)
\* Three numbers, unchecked.
builtinClamp(args, s) ==
    IF \E i \in DOMAIN args : args[i].t # "INTEGER" THEN Crash(s)
    ELSE Ret(Integer(Min({Max({args[1].int, args[2].int}), args[3].int})), s)
builtinPrint(args, s) ==
    Ret(Null, [s EXCEPT !.out = Append(@, Concat(
          [i \in DOMAIN args |-> Inspect(args[i], s)], " "))])

\* isInherentlyImmutable, and the values freeze leaves alone.
isInherentlyImmutable(v) ==
    v.t \in {"INTEGER", "BOOLEAN", "STRING", "NULL", "TUPLE", "RECORD"}
builtinFreeze(v, s) ==
    Ret(v, IF isInherentlyImmutable(v) THEN s ELSE deepFreezeInPlace(v, s))
builtinIsFrozen(v, s) ==
    Ret(Bool(IF v.t \in {"ARRAY", "HASH"} THEN Deref(v, s).frozen
             ELSE isInherentlyImmutable(v)), s)
builtinThaw(v, s) == CopyObject(v, TRUE, s)
builtinCopy(v, s) == CopyObject(v, FALSE, s)
builtinDeepEqual(v, w, s) == Ret(Bool(deepEqual(v, w, s)), s)
builtinImplements(v, w, s) ==
    CASE w = Nil -> Crash(s)
      [] w.t # "INTERFACE" ->
           newError("second argument must be an interface", s)
      [] OTHER -> Ret(Bool(checkImplements(v, w.methods, s)), s)
builtinAssertImplements(v, w, s) ==
    Then(builtinImplements(v, w, s), LAMBDA holds, s1 :
         CASE holds = Bool(TRUE) -> Ret(Null, s1)
           [] v = Nil -> Crash(s1)
           [] OTHER -> newError("does not implement", s1))

\* is_int and the like, which take anything.
TypeTests ==
    [is_int |-> {"INTEGER"}, is_float |-> {}, is_number |-> {"INTEGER"},
     is_string |-> {"STRING"}, is_bool |-> {"BOOLEAN"}, is_array |-> {"ARRAY"},
     is_hash |-> {"HASH"}, is_tuple |-> {"TUPLE"}, is_function |-> Callable]
builtinIs(n, v, s) == Ret(Bool(v.t \in TypeTests[n]), s)

friendlyTypeName ==
    [INTEGER |-> "int", STRING |-> "string", BOOLEAN |-> "bool",
     NULL |-> "null", ARRAY |-> "array", HASH |-> "hash", TUPLE |-> "tuple",
     RECORD |-> "record", RECORD_DEF |-> "record_def", CLASS |-> "class",
     FUNCTION |-> "function", BUILTIN |-> "builtin",
     INTERFACE |-> "interface", GENERATOR |-> "generator", BREAK |-> "break",
     CONTINUE |-> "continue", RETURN_VALUE |-> "return_value"]
    @@ ("INSTANCE" :> "instance")
builtinTypeOf(v, s) == Ret(Str(friendlyTypeName[v.t]), s)

\* A segment of a path is a name, an element's index when it is a number.
childKey(v, seg, s) ==
    LET n == CASE v.t = "ARRAY" -> Deref(v, s).len
               [] v.t = "TUPLE" -> Len(v.elems)
               [] v.t = "RECORD" -> Len(v.def.fields)
               [] OTHER -> 0
    IN  CASE v.t = "HASH" /\ Str(seg.name) \in DOMAIN Deref(v, s).pairs ->
               Str(seg.name)
          [] v.t = "HASH" /\ seg.index >= 0 /\
             Integer(seg.index) \in DOMAIN Deref(v, s).pairs ->
               Integer(seg.index)
          [] v.t = "RECORD" /\ seg.name \in DOMAIN v.vals -> Str(seg.name)
          [] seg.index \in 0..(n - 1) -> Integer(seg.index)
          [] OTHER -> Nil

childOf(v, key, s) ==
    IF v.t = "RECORD" /\ key.t = "STRING" THEN v.vals[key.str]
    ELSE evalIndexExpression(v, key, s).val

RECURSIVE deepGetPath(_, _, _)
deepGetPath(v, segs, s) ==
    IF segs = <<>> THEN v
    ELSE IF v = Nil \/ childKey(v, Head(segs), s) = Nil THEN Nil
    ELSE deepGetPath(childOf(v, childKey(v, Head(segs), s), s), Tail(segs), s)

RECURSIVE deepSetPath(_, _, _, _)
\* Missing or null children on the way become hashes; arrays do not grow.
\* What was made on the way stays when a later step fails.
deepSetPath(v, segs, x, s) ==
    LET key == childKey(v, Head(segs), s)
        at == IF key = Nil THEN Str(Head(segs).name) ELSE key
        new == NewHash(NoPairs, s)
    IN  CASE v.t = "NULL" -> deepSetPath(new.val, segs, x, new.st)
          [] v.t \notin {"ARRAY", "HASH"} -> newError("cannot deep_set", s)
          [] Deref(v, s).frozen -> newError("cannot deep_set into frozen", s)
          [] v.t = "ARRAY" /\ key = Nil ->
               newError("deep_set: index out of range", s)
          [] Len(segs) = 1 ->
               Ret(v, IF v.t = "ARRAY" THEN SetElement(v, key.int, x, s)
                      ELSE PutPair(v, at, x, s))
          [] OTHER ->
               LET old == IF key = Nil THEN Null ELSE childOf(v, key, s)
                   made == deepSetPath(v, <<Head(segs)>>, new.val, new.st)
                   below == IF old.t = "NULL"
                            THEN deepSetPath(new.val, Tail(segs), x, made.st)
                            ELSE deepSetPath(old, Tail(segs), x, s)
               IN  Then(below, LAMBDA w, s1 : Ret(v, s1))

builtinDeepGet(args, s) ==
    LET w == deepGetPath(args[1], Paths[args[2].str], s)
    IN  IF args[2].t # "STRING" THEN newError("path must be string", s)
        ELSE Ret(IF w # Nil THEN w ELSE IF Len(args) = 3 THEN args[3]
                 ELSE Null, s)
builtinDeepSet(args, s) ==
    IF args[2].t # "STRING" THEN newError("path must be string", s)
    ELSE deepSetPath(args[1], Paths[args[2].str], args[3], s)

-----------------------------------------------------------------------------
(* The call of a builtin *)

\* The numbers of arguments each builtin takes, and the types its first one
\* may have ({} for any).
Signature ==
    LET seq == {"ARRAY"}  hash == {"HASH"}  any == {} IN
    [len |-> <<{1}, {"STRING", "ARRAY", "TUPLE", "HASH", "RECORD"}>>,
     type |-> <<{1}, any>>, push |-> <<{2}, seq>>, pop |-> <<{1}, seq>>,
     freeze |-> <<{1}, {"ARRAY", "HASH", "INTEGER", "BOOLEAN", "STRING", "NULL",
                        "TUPLE", "RECORD"}>>,
     is_frozen |-> <<{1}, any>>, thaw |-> <<{1}, any>>,
     tuple |-> <<{1}, seq>>, deep_equal |-> <<{2}, any>>,
     set |-> <<0..3, any>>, set_has |-> <<{2}, hash>>,
     set_add |-> <<{2}, hash>>, set_remove |-> <<{2}, hash>>,
     set_union |-> <<{2}, hash>>, set_intersect |-> <<{2}, hash>>,
     set_diff |-> <<{2}, hash>>, set_len |-> <<{1}, hash>>,
     map_merge |-> <<0..3, any>>, map_pick |-> <<1..3, hash>>,
     map_omit |-> <<1..3, hash>>, keys |-> <<{1}, hash>>,
     values |-> <<{1}, hash>>, next |-> <<{1}, {"GENERATOR"}>>,
     reverse |-> <<{1}, seq>>, sort |-> <<{1}, seq>>, has |-> <<{2}, hash>>,
     delete |-> <<{2}, hash>>, slice |-> <<{2, 3}, seq>>,
     take |-> <<{2}, seq>>, drop |-> <<{2}, seq>>, chunk |-> <<{2}, seq>>,
     zip |-> <<{2}, seq>>, enumerate |-> <<{1}, seq>>,
     count |-> <<{2}, seq>>, index_of |-> <<{2}, seq>>,
     unique |-> <<{1}, seq>>, flatten |-> <<{1}, seq>>, sum |-> <<{1}, seq>>,
     min |-> <<1..3, any>>, max |-> <<1..3, any>>, range |-> <<1..3, any>>,
     map |-> <<{2}, seq>>, filter |-> <<{2}, seq>>, reduce |-> <<{2, 3}, seq>>,
     find |-> <<{2}, seq>>, any |-> <<{2}, seq>>, all |-> <<{2}, seq>>,
     group_by |-> <<{2}, seq>>, curry |-> <<{1}, any>>,
     partial |-> <<1..3, Callable>>, compose |-> <<2..3, any>>,
     copy |-> <<{1}, any>>, is_null |-> <<{1}, any>>,
     is_empty |-> <<{1}, any>>, abs |-> <<{1}, {"INTEGER"}>>,
     clamp |-> <<{3}, any>>, assert |-> <<{1, 2}, any>>,
     implements |-> <<{2}, any>>, assert_implements |-> <<{2}, any>>,
     type_of |-> <<{1}, any>>, print |-> <<0..3, any>>,
     deep_get |-> <<{2, 3}, any>>, deep_set |-> <<{3}, any>>]
    @@ [n \in DOMAIN TypeTests |-> <<{1}, any>>]

\* The builtins whose error names the type of what they were given.
NamesTheType == {"len", "tuple", "freeze", "partial", "curry"}

\* The builtins whose second argument is another set.
OnSets == {"set_union", "set_intersect", "set_diff"}

arrayBuiltin(n, args, s) ==
    LET v == args[1]
    IN  CASE n = "tuple" -> builtinTuple(v, s)
          [] n = "slice" -> builtinSlice(v, args, s)
          [] n = "take" -> builtinTake(v, args, s)
          [] n = "drop" -> builtinDrop(v, args, s)
          [] n = "chunk" -> builtinChunk(v, args, s)
          [] n = "zip" -> builtinZip(v, args[2], s)
          [] n = "enumerate" -> builtinEnumerate(v, s)
          [] n = "count" -> builtinCount(v, args[2], s)
          [] n = "index_of" -> builtinIndexOf(v, args[2], s)
          [] n = "unique" -> builtinUnique(v, s)
          [] n = "flatten" -> builtinFlatten(v, s)
          [] n = "sum" -> builtinSum(v, s)
          [] n = "map" -> builtinMap(v, args[2], s)
          [] n = "filter" -> builtinFilter(v, args[2], s)
          [] n = "reduce" -> builtinReduce(v, args, s)
          [] n = "find" -> builtinFind(v, args[2], s)
          [] n = "any" -> builtinAny(v, args[2], s)
          [] n = "all" -> builtinAll(v, args[2], s)
          [] n = "group_by" -> builtinGroupBy(v, args[2], s)

hashBuiltin(n, args, s) ==
    LET v == args[1]
    IN  CASE n = "has" /\ ~Hashable(args[2]) ->
               newError("unusable as hash key", s)
          [] n \in OnSets /\ args[2].t # "HASH" ->
               newError("arguments must be sets", s)
          [] n = "has" -> builtinHas(v, args[2], s)
          [] n = "set_has" -> builtinSetHas(v, args[2], s)
          [] n = "set_union" -> builtinSetUnion(v, args[2], s)
          [] n = "set_intersect" -> builtinSetIntersect(v, args[2], s)
          [] n = "set_diff" -> builtinSetDiff(v, args[2], s)
          [] n = "set_len" -> builtinSetLen(v, s)
          [] n = "map_pick" -> builtinMapPick(v, args, s)
          [] n = "map_omit" -> builtinMapOmit(v, args, s)
          [] n = "keys" -> builtinKeys(v, s)
          [] n = "values" -> builtinValues(v, s)

plainBuiltin(n, args, s) ==
    LET v == args[1]
    IN  CASE n = "set" -> builtinSet(args, s)
          [] n = "is_empty" -> builtinIsEmpty(v, s)
          [] n = "clamp" -> builtinClamp(args, s)
          [] n = "min" -> builtinMin(args, s)
          [] n = "max" -> builtinMax(args, s)
          [] n = "range" -> builtinRange(args, s)
          [] n \in DOMAIN TypeTests -> builtinIs(n, v, s)
          [] n = "implements" -> builtinImplements(v, args[2], s)
          [] n = "assert_implements" -> builtinAssertImplements(v, args[2], s)
          [] Nil \in ToSet(args) -> Crash(s)
          [] n = "map_merge" -> builtinMapMerge(args, s)
          [] n = "len" -> builtinLen(v, s)
          [] n = "type" -> builtinType(v, s)
          [] n = "is_null" -> builtinIsNull(v, s)
          [] n = "assert" -> builtinAssert(v, s)
          [] n = "abs" -> builtinAbs(v, s)
          [] n = "print" -> builtinPrint(args, s)
          [] n = "freeze" -> builtinFreeze(v, s)
          [] n = "is_frozen" -> builtinIsFrozen(v, s)
          [] n = "thaw" -> builtinThaw(v, s)
          [] n = "copy" -> builtinCopy(v, s)
          [] n = "deep_equal" -> builtinDeepEqual(v, args[2], s)
          [] n = "next" -> NextValue(v, s)
          [] n = "type_of" -> builtinTypeOf(v, s)
          [] n = "partial" -> builtinPartial(args, s)
          [] n = "curry" -> builtinCurry(v, s)
          [] n = "compose" -> builtinCompose(args, s)
          [] n = "deep_get" -> builtinDeepGet(args, s)
          [] n = "deep_set" -> builtinDeepSet(args, s)

evalBuiltin(fn, args, s) ==
    LET n == fn.name
        sig == Signature[n]
    IN  CASE n \notin DOMAIN Signature -> applyMade(fn, args, s)
          [] Len(args) \notin sig[1] -> newError("wrong number of arguments", s)
          [] n \in NamesTheType /\ args[1] = Nil -> Crash(s)
          [] args # <<>> /\ sig[2] # {} /\ args[1].t \notin sig[2] ->
               newError("wrong type of argument", s)
          [] n \in Mutators -> mutate(n, args, s)
          [] sig[2] = {"ARRAY"} -> arrayBuiltin(n, args, s)
          [] sig[2] = {"HASH"} -> hashBuiltin(n, args, s)
          [] OTHER -> plainBuiltin(n, args, s)

-----------------------------------------------------------------------------
(* Eval: one node.  What it evaluates before it acts is in Then's order.   *)

evalEnumStatement(n, e, s) ==
    LET h == NewHash([x \in {Str(m) : m \in ToSet(n.members)} |->
                        Integer(Max({i \in DOMAIN n.members :
                                       Str(n.members[i]) = x}) - 1)], s)
    IN  Ret(h.val, Set(n.name, h.val, e, h.st))

evalRecordStatement(n, e, s) ==
    LET def == [t |-> "RECORD_DEF", def |-> [name |-> n.name,
                                             id |-> s.defs + 1,
                                             fields |-> n.fields]]
    IN  Ret(def, Set(n.name, def, e, [s EXCEPT !.defs = @ + 1]))

evalInterfaceStatement(n, e, s) ==
    LET i == [t |-> "INTERFACE", name |-> n.name, methods |-> n.methods]
    IN  IF \E a, b \in DOMAIN n.methods :
              a # b /\ n.methods[a].name = n.methods[b].name
        THEN newError("duplicate method", s)
        ELSE Ret(i, Set(n.name, i, e, s))

evalInterpolatedString(n, e, s) ==
    Then(evalSequence(n.parts, <<>>, e, s), LAMBDA t, s1 :
         IF Nil \in ToSet(t.elems) THEN Crash(s1)
         ELSE Ret(Str(Concat([i \in DOMAIN t.elems |-> Inspect(t.elems[i], s1)],
                             "")), s1))

\* A published name first, then its declared type.
evalTypedLetStatement(n, e, s) ==
    Then(Eval(n.value, e, s), LAMBDA v, s1 :
    Then(checkValueAnnotation(n.type, v, e, s1), LAMBDA w, s2 :
         Ret(Null, DeclareType(n.name, n.type, e, Set(n.name, v, e, s2)))))

evalIdentifier(x, e, s) ==
    IF Bound(x, e, s) THEN Ret(Get(x, e, s), s)
    ELSE IF x \in DOMAIN Signature THEN Ret(Builtin(x), s)
    ELSE newError("identifier not found", s)

evalConstStatement(n, e, s) ==
    Then(Eval(n.value, e, s),
         LAMBDA v, s1 : Ret(Null, SetConst(n.name, v, e, s1)))

evalThrowStatement(n, e, s) ==
    Then(Eval(n.value, e, s), LAMBDA v, s1 :
         IF v = Nil THEN Crash(s1) ELSE newError(Inspect(v, s1), s1))

evalIfExpression(n, e, s) ==
    Then(Eval(n.cond, e, s), LAMBDA v, s1 :
         IF isTruthy(v) THEN Eval(n.then, e, s1) ELSE optional(n.else, e, s1))

evalTernaryExpression(n, e, s) ==
    Then(Eval(n.cond, e, s), LAMBDA v, s1 :
         Eval(IF isTruthy(v) THEN n.then ELSE n.else, e, s1))

evalIndexAssignExpression(n, e, s) ==
    Then(Eval(n.left, e, s), LAMBDA v, s1 :
    Then(Eval(n.index, e, s1), LAMBDA i, s2 :
    Then(Eval(n.value, e, s2), LAMBDA x, s3 : assignToIndex(v, i, x, s3))))

evalMemberExpression(n, e, s) ==
    Then(Eval(n.object, e, s),
         LAMBDA v, s1 : evalMemberAccess(v, n.name, s1))

evalMemberAssignExpression(n, e, s) ==
    Then(Eval(n.object, e, s), LAMBDA v, s1 :
    Then(Eval(n.value, e, s1), LAMBDA x, s2 : SetMember(v, n.name, x, s2)))

evalThisExpression(e, s) ==
    IF Bound("this", e, s) THEN Ret(Get("this", e, s), s)
    ELSE newError("this used outside of method", s)

evalPlainStatement(n, e, s) ==
    CASE n.k = "Program" -> evalProgram(n.stmts, Nil, e, s)
      [] n.k = "BlockStatement" -> evalBlockStatement(n.stmts, Nil, e, s)
      [] n.k = "ExpressionStatement" -> Eval(n.value, e, s)
      [] n.k = "ReturnStatement" ->
           Then(optional(n.value, e, s),
                LAMBDA v, s1 : Ret(ReturnValue(v), s1))
      [] n.k = "LetStatement" ->
           Then(Eval(n.value, e, s), LAMBDA v, s1 :
                Ret(Null, Set(n.name, IF v.t = "FUNCTION" /\ v.name = ""
                                      THEN [v EXCEPT !.name = n.name] ELSE v,
                              e, s1)))
      [] n.k = "PrintStatement" ->
           Then(Eval(n.value, e, s), LAMBDA v, s1 :
                IF v = Nil THEN Crash(s1)
                ELSE Ret(Null, [s1 EXCEPT !.out = Append(@, Inspect(v, s1))]))
      [] n.k = "WhileStatement" -> whileLoop(n, Null, e, s)

evalStatement(n, e, s) ==
    CASE n.k = "ConstStatement" -> evalConstStatement(n, e, s)
      [] n.k = "TypedLetStatement" -> evalTypedLetStatement(n, e, s)
      [] n.k = "DestructureLetStatement" -> evalDestructureLet(n, e, s)
      [] n.k = "ForStatement" -> evalForStatement(n, e, s)
      [] n.k = "ForInStatement" -> evalForInStatement(n, e, s)
      [] n.k = "BreakStatement" -> Ret(Break(n.label), s)
      [] n.k = "ContinueStatement" -> Ret(Continue(n.label), s)
      [] n.k = "TryStatement" -> evalTryStatement(n, e, s)
      [] n.k = "ThrowStatement" -> evalThrowStatement(n, e, s)
      [] n.k = "DeferStatement" -> evalDeferStatement(n, e, s)
      [] n.k = "YieldStatement" -> evalYieldStatement(n, e, s)
      [] n.k = "ImportStatement" -> evalImportStatement(n, e, s)
      [] n.k = "ImportModuleStatement" -> newError("not supported", s)
      [] n.k = "ModuleStatement" -> Ret(Null, s)
      [] n.k = "EnumStatement" -> evalEnumStatement(n, e, s)
      [] n.k = "RecordStatement" -> evalRecordStatement(n, e, s)
      [] n.k = "ClassStatement" -> evalClassStatement(n, e, s)
      [] n.k = "InterfaceDecl" -> evalInterfaceStatement(n, e, s)
      [] n.k = "DecoratorStatement" -> evalDecoratorStatement(n, e, s)
      [] OTHER -> evalPlainStatement(n, e, s)

evalExpression(n, e, s) ==
    CASE n.k = "IntegerLiteral" -> Ret(Integer(n.int), s)
      [] n.k = "StringLiteral" -> Ret(Str(n.str), s)
      [] n.k = "Boolean" -> Ret(Bool(n.bool), s)
      [] n.k = "NullLiteral" -> Ret(Null, s)
      [] n.k = "Identifier" -> evalIdentifier(n.name, e, s)
      [] n.k = "PrefixExpression" ->
           Then(Eval(n.right, e, s),
                LAMBDA v, s1 : evalPrefixExpression(n.op, v, s1))
      [] n.k = "InfixExpression" -> evalInfix(n, e, s)
      [] n.k = "PostfixExpression" -> evalPostfixExpression(n, e, s)
      [] n.k = "IfExpression" -> evalIfExpression(n, e, s)
      [] n.k = "TernaryExpression" -> evalTernaryExpression(n, e, s)
      [] n.k = "FunctionLiteral" -> Ret(Function("", n, e), s)
      [] n.k = "ArrayLiteral" ->
           Then(evalExpressions(n.elems, <<>>, e, s), LAMBDA a, s1 :
                NewArray(a.vals, Grown(Len(a.vals)), s1))
      [] n.k = "TupleLiteral" -> evalSequence(n.elems, <<>>, e, s)
      [] n.k = "HashLiteral" -> evalHashLiteral(n, e, s)
      [] n.k = "SpreadExpression" -> newError("spread is not valid here", s)
      [] n.k = "NamedArgument" ->
           Then(Eval(n.value, e, s),
                LAMBDA v, s1 : Ret(NamedArg(n.name, v), s1))
      [] n.k = "RangeExpression" -> evalRangeExpression(n, e, s)
      [] n.k = "InterpolatedString" -> evalInterpolatedString(n, e, s)
      [] n.k = "IndexExpression" ->
           Then(Eval(n.left, e, s), LAMBDA v, s1 :
           Then(Eval(n.index, e, s1), LAMBDA i, s2 :
                IF n.end = None THEN evalIndexExpression(v, i, s2)
                ELSE Then(Eval(n.end, e, s2), LAMBDA j, s3 :
                          evalSliceExpression(v, i, j, s3))))
      [] n.k = "AssignExpression" -> evalAssignExpression(n, e, s)
      [] n.k = "IndexAssignExpression" -> evalIndexAssignExpression(n, e, s)
      [] n.k = "MemberExpression" -> evalMemberExpression(n, e, s)
      [] n.k = "MemberAssignExpression" -> evalMemberAssignExpression(n, e, s)
      [] n.k = "CallExpression" ->
           IF n.fn.k = "MemberExpression"
           THEN Then(Eval(n.fn.object, e, s), LAMBDA v, s1 :
                Then(evalExpressions(n.args, <<>>, e, s1), LAMBDA a, s2 :
                     evalMethodCall(v, n.fn.name, a.vals, s2)))
           ELSE Then(Eval(n.fn, e, s), LAMBDA v, s1 :
                Then(evalExpressions(n.args, <<>>, e, s1), LAMBDA a, s2 :
                     Invoke(v, a.vals, s2)))
      [] n.k = "Invoke" -> applyFunction(n.fn, n.args, s)
      [] n.k = "NewExpression" -> evalNewExpression(n, e, s)
      [] n.k = "ThisExpression" -> evalThisExpression(e, s)
      [] n.k = "MatchExpression" ->
           Then(Eval(n.value, e, s),
                LAMBDA v, s1 : matchArms(n, 1, v, e, s1))
      [] n.k = "OptionalChainExpression" ->
           Then(Eval(n.base, e, s),
                LAMBDA v, s1 : evalLinks(n.links, v, None, "", e, s1))

Statements == {"Program", "BlockStatement", "ExpressionStatement",
    "ReturnStatement",
    "LetStatement", "ConstStatement", "TypedLetStatement",
    "DestructureLetStatement", "PrintStatement", "WhileStatement",
    "ForStatement", "ForInStatement", "BreakStatement", "ContinueStatement",
    "TryStatement", "ThrowStatement", "DeferStatement", "YieldStatement",
    "ImportStatement", "EnumStatement", "RecordStatement", "ClassStatement",
    "InterfaceDecl", "DecoratorStatement"}

Eval(n, e, s) ==
    IF n.k \in Statements THEN evalStatement(n, e, s)
    ELSE evalExpression(n, e, s)
=============================================================================
