------------------------------ MODULE Session ------------------------------
(***************************************************************************)
(* A persistent interpreter session (src/internal/bridge/bridge.go) as the *)
(* C ABI and `nvs bridge` serve it: hosts send source to evaluate or the   *)
(* name of a function to call, one at a time under the session's mutex,    *)
(* in one environment that lives as long as the session.  The answer is    *)
(* rendered to JSON after the mutex is released.                           *)
(*                                                                         *)
(* A request is evaluated in one step: the mutex makes it atomic.  The     *)
(* prelude and spawned tasks are left out.                                 *)
(***************************************************************************)
EXTENDS Evaluator, JsonValues
LOCAL INSTANCE SequencesExt
LOCAL INSTANCE FiniteSetsExt

CONSTANTS
    Hosts,        \* the threads that call the session
    Topics,       \* sets of requests; one session draws from one of them
    Crowded,      \* the topics of which several hosts ask at once
    MaxRequests   \* bound: requests per session

VARIABLES
    topic,
    s,         \* the interpreter's store; frame 1 is the session's scope
    alive,     \* no panic has ended the process
    pending,   \* per host: the result Eval or Call answered, not yet rendered
    asked,     \* how many requests were made
    answer     \* the last envelope rendered, and the request it is for

vars == <<topic, s, alive, pending, asked, answer>>

-----------------------------------------------------------------------------
(* Conversions (src/internal/polyglot/jsonconv.go).                        *)

RECURSIVE JSONValueToNvS(_, _), JSONValues(_, _, _)
\* A slip: the elements come out in the wrong order.
JSONValuesBackwards(xs, done, st) ==
    IF xs = <<>> THEN Ret(done, st)
    ELSE LET r == JSONValueToNvS(Head(xs), st)
         IN  JSONValues(Tail(xs), <<r.val>> \o done, r.st)

JSONValues(xs, done, st) ==
    IF xs = <<>> THEN Ret(done, st)
    ELSE LET r == JSONValueToNvS(Head(xs), st)
         IN  JSONValues(Tail(xs), Append(done, r.val), r.st)

\* Every value is a new object, booleans and null too.
JSONValueToNvS(x, st) ==
    CASE x.j = "null" -> Ret(FreshNull(st), st)
      [] x.j = "bool" -> Ret(FreshBool(x.bool), st)
      [] x.j = "num" -> Ret(Integer(x.num), st)
      [] x.j = "str" -> Ret(Str(x.str), st)
      [] x.j = "arr" -> LET r == JSONValues(x.elems, <<>>, st)
                        IN  NewArray(r.val, Len(r.val), r.st)
      [] x.j = "obj" ->
           LET ks == SetToSeq(DOMAIN x.fields)
               r == JSONValues([i \in DOMAIN ks |-> x.fields[ks[i]]], <<>>, st)
           IN  NewHash([key \in {Str(y) : y \in DOMAIN x.fields} |->
                          r.val[CHOOSE i \in DOMAIN ks : Str(ks[i]) = key]],
                       r.st)

KeyText(key, st) == IF key.t = "STRING" THEN key.str ELSE Inspect(key, st)

RECURSIVE NvSValueToJSON(_, _)
\* An error for any other type, and for keys that render alike.
NvSValueToJSON(v, st) ==
    CASE v.t = "INTEGER" -> JNum(v.int)
      [] v.t = "STRING" -> JStr(v.str)
      [] v.t = "BOOLEAN" -> JBool(v.bool)
      [] v.t = "NULL" -> JNull
      [] v.t = "ARRAY" ->
           LET vs == Elements(v, st)
               js == [i \in DOMAIN vs |-> NvSValueToJSON(vs[i], st)]
           IN  IF JError \in ToSet(js) THEN JError ELSE JArr(js)
      [] v.t = "HASH" ->
           LET ps == Deref(v, st).pairs
               js == [key \in DOMAIN ps |-> NvSValueToJSON(ps[key], st)]
               texts == {KeyText(key, st) : key \in DOMAIN ps}
           IN  IF \/ JError \in {js[key] : key \in DOMAIN js}
                  \/ Cardinality(texts) # Cardinality(DOMAIN ps)
               THEN JError
               ELSE JObj([x \in texts |->
                            js[CHOOSE key \in DOMAIN ps : KeyText(key, st) = x]])
      [] OTHER -> JError

-----------------------------------------------------------------------------
(* Requests: [kind |-> "eval", stmts], [kind |-> "exec", stmts], whose     *)
(* value nobody asks for, [kind |-> "call", name, args], or source that    *)
(* does not parse, [kind |-> "garbage"].                                   *)

\* Session.Eval, and Session.Call, which looks the name up before it converts
\* the arguments.
Handle(r, st) ==
    LET fn == evalIdentifier(r.name, 1, st).val
        args == JSONValues(r.args, <<>>, st)
        node == IF r.kind = "call" THEN InvokeNode(fn, args.val)
                ELSE Program(r.stmts)
    IN  CASE r.kind = "garbage" -> newError("parse error", st)
          [] r.kind = "call" /\ fn.t \notin {"FUNCTION", "BUILTIN"} ->
               newError("unknown or not callable", st)
          [] OTHER -> Eval(node, 1, IF r.kind = "call" THEN args.st ELSE st)

NoResult == [kind |-> "none"]

Init ==
    /\ topic \in DOMAIN Topics
    /\ \E null \in BOOLEAN : s = NewEnclosed(0, EmptyStore(null))
    /\ alive = TRUE
    /\ pending = [h \in Hosts |-> NoResult]
    /\ asked = 0
    /\ answer = NoResult

\* A host calls nvs_eval or nvs_call, or writes a line to `nvs bridge`;
\* `rev` is the order Go's maps are ranged over meanwhile.
Ask(h, r, rev) ==
    /\ alive
    /\ pending[h] = NoResult
    /\ topic \in Crowded \/ \A g \in Hosts : pending[g] = NoResult
    /\ asked < MaxRequests
    /\ \E res \in {Handle(r, [s EXCEPT !.rev = rev])} :
          /\ s' = [res.st EXCEPT !.rev = FALSE]
          /\ alive' = (res.val # Panic)
          /\ pending' = [pending EXCEPT ![h] =
                            [kind |-> "result", req |-> r, val |-> res.val]]
    /\ asked' = asked + 1
    /\ UNCHANGED <<topic, answer>>

\* Envelope, outside the mutex: what it reads may have changed since.
Answer(h) ==
    LET p == pending[h]
    IN  /\ alive
        /\ p # NoResult
        /\ pending' = [pending EXCEPT ![h] = NoResult]
        /\ answer' = [kind |-> "answer", req |-> p.req, val |-> p.val,
                      json |-> CASE isError(p.val) -> JError
                                 [] p.req.kind = "exec" \/ p.val = Nil -> JNull
                                 [] OTHER -> NvSValueToJSON(p.val, s)]
        /\ UNCHANGED <<topic, s, alive, asked>>

Next ==
    \E h \in Hosts :
        \/ \E r \in Topics[topic], rev \in BOOLEAN : Ask(h, r, rev)
        \/ Answer(h)

Spec == Init /\ [][Next]_vars

-----------------------------------------------------------------------------
(* Properties *)

\* Every value some name, container or generator holds.
StoredIn(o) ==
    CASE o.t = "HASH" -> {o.pairs[key] : key \in DOMAIN o.pairs}
      [] o.t = "INSTANCE" -> {o.fields[x] : x \in DOMAIN o.fields}
      [] o.t = "GENERATOR" -> ToSet(o.values)
      [] OTHER -> {}
Stored ==
    UNION {{f.store[x] : x \in DOMAIN f.store} : f \in ToSet(s.frames)}
    \union UNION {ToSet(vs) : vs \in ToSet(s.mem)}
    \union UNION {StoredIn(o) : o \in ToSet(s.heap)}

\* The store is well formed between requests: scopes have no cycle and no
\* sink left open, slices lie within their storage, pointers point.
TypeOK ==
    /\ \A e \in DOMAIN s.frames : s.frames[e].outer \in 0..(e - 1)
    /\ alive => /\ s.sinks = <<>>
                /\ \A e \in DOMAIN s.frames : s.frames[e].sink = 0
    /\ WellFormed(s)
    /\ \A v \in Stored : Points(v, s)

OfItsType(x, e, st) ==
    checkAnnotation(st.frames[e].types[x], st.frames[e].store[x], e, st) = "ok"
\* Name x was declared with its type before this step, and either a name of
\* the type has come to mean something else, or x is left as it was, outdated.
OutdatedType(x, e) ==
    /\ e \in DOMAIN s.frames /\ x \in DOMAIN s.frames[e].types
    /\ \/ \E name \in ToSet(s'.frames[e].types[x].names) :
             Bound(name, e, s') /\ (Bound(name, e, s) => Get(name, e, s') # Get(name, e, s))
       \/ /\ ~OfItsType(x, e, s)
          /\ s'.frames[e].types[x] = s.frames[e].types[x]
          /\ s'.frames[e].store[x] = s.frames[e].store[x]

\* A name declared with a type holds a value of that type, whatever closure,
\* scope or request assigns to it (the contract of TypedLetStatement that
\* evalAssignExpression keeps up), until a class or a record of the type is
\* declared again: an object of the old one is not of the new one
\* (instanceOf).  No request here assigns a value and then declares its type.
DeclaredTypesHold ==
    [][\A e \in DOMAIN s'.frames : \A x \in DOMAIN s'.frames[e].types :
          OfItsType(x, e, s') \/ OutdatedType(x, e)]_vars

\* A constant keeps its value, whoever assigns to it or increments it from
\* any scope (SetConst, Assign and AssignStrict of object.go).
ConstKept ==
    [][\A e \in DOMAIN s.frames : \A x \in s.frames[e].constants :
          s'.frames[e].store[x] = s.frames[e].store[x]]_vars

\* A frozen array or hash keeps its contents and stays frozen, unless an
\* array that is not frozen shares its storage: every builtin and assignment
\* that writes looks at the flag (LANGUAGE.md, Freeze).
FrozenKept == [][KeepsFrozen(s, s')]_vars

\* No error object is ever bound to a name or kept in a container: every
\* evaluation step that receives one stops (isError).
NoErrorIsBound == \A v \in Stored : ~isError(v)

RanAt(id) == {i \in DOMAIN s.ran : s.ran[i] = id}

\* After every request, each deferred call has run exactly once, and those of
\* one call ran last in, first out, whether it returned, threw or broke off
\* (LANGUAGE.md, defer; here no closure runs while a call is pending).
DeferredRunOnce ==
    alive =>
        /\ \A id \in DOMAIN s.defers : Cardinality(RanAt(id)) = 1
        /\ \A i, j \in DOMAIN s.defers :
              i < j /\ s.defers[i] = s.defers[j] => Max(RanAt(j)) < Min(RanAt(i))

\* No deferred call runs twice.
DeferredAtMostOnce == \A id \in DOMAIN s.defers : Cardinality(RanAt(id)) <= 1

Defined(stmts) == {stmts[i].name : i \in {j \in DOMAIN stmts :
                                            stmts[j].k = "LetStatement"}}
\* A module marked as loaded has bound all its names in the scope that
\* imported it, or an import of it reported an error
\* (evalImportStatement marks it before it runs).
ModulesSettled ==
    alive => \A p \in DOMAIN s.loaded \ s.failed :
                Defined(Modules[p].stmts)
                    \subseteq DOMAIN s.frames[s.loaded[p]].store

\* The answer to a call that returns its argument is the JSON it was given:
\* the two conversions of jsonconv.go are inverse on what JSON can say.
EchoFaithful ==
    (answer.kind = "answer" /\ answer.req.kind = "call") =>
        (answer.req.name = "echo" /\ ~isError(answer.val) =>
            answer.json = answer.req.args[1])
=============================================================================
