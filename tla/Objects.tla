------------------------------ MODULE Objects ------------------------------
(***************************************************************************)
(* Runtime objects and the helpers of the evaluator on them                *)
(* (src/internal/object/object.go, src/internal/eval/eval.go).             *)
(*                                                                         *)
(* s, the store, threads through every operator:                           *)
(*   frames  the scopes (Environments)                                     *)
(*   heap, mem  what pointers point to (Store)                             *)
(*   sinks, out  the yields being collected, the lines printed             *)
(*   defers, ran  the scope of every deferred call, and the calls run      *)
(*   loaded, failed  the modules marked as loaded, each with the scope it  *)
(*           ran in, and those whose import reported an error              *)
(*   defs    how many classes and records were defined; a definition's id  *)
(*           stands for its address                                        *)
(*   rev     the order in which Go ranges over maps this time              *)
(*   null    whether the build gives every *object.Null one address        *)
(***************************************************************************)
EXTENDS Environments
LOCAL INSTANCE SequencesExt

ReturnValue(v) == [t |-> "RETURN_VALUE", value |-> v]
Break(l) == [t |-> "BREAK", label |-> l]
Continue(l) == [t |-> "CONTINUE", label |-> l]
YieldValue(v) == [t |-> "YIELD", value |-> v]
NamedArg(x, v) == [t |-> "NAMED_ARG", name |-> x, value |-> v]
Record(def, vs) == [t |-> "RECORD", def |-> def, vals |-> vs]
Function(name, node, e) ==
    [t |-> "FUNCTION", name |-> name, node |-> node, env |-> e]
Builtin(name) == [t |-> "BUILTIN", name |-> name]

\* A freshly allocated *object.Null is the NULL singleton only if the build
\* gives every value of size zero the same address.
FreshNull(s) == IF s.null THEN Null ELSE [t |-> "NULL", fresh |-> TRUE]
\* A boolean that is neither the TRUE nor the FALSE singleton.
FreshBool(b) == [t |-> "BOOLEAN", bool |-> b, fresh |-> TRUE]

-----------------------------------------------------------------------------
(* Errors and panics stop every evaluation step that tests isError.        *)

isError(v) == v.t = "ERROR"
Stops(v) == v.t \in {"ERROR", "PANIC"}
Then(r, K(_, _)) == IF Stops(r.val) THEN r ELSE K(r.val, r.st)

\* A comparison of addresses with the three singletons.
isTruthy(v) == v # Null /\ v # Bool(FALSE)

EmptyStore(null) ==
    [frames |-> <<>>, heap |-> <<>>, mem |-> <<>>, sinks |-> <<>>,
     out |-> <<>>, defers |-> <<>>, ran |-> <<>>, defs |-> 0,
     loaded |-> [p \in {} |-> 0], failed |-> {}, rev |-> FALSE, null |-> null]

-----------------------------------------------------------------------------
(* Growth, maps and generators *)

\* The capacity append reaches when it adds the values one at a time.
RECURSIVE Grown(_)
Grown(n) == IF n <= 1 THEN n ELSE 2 * Grown((n + 1) \div 2)

\* The keys of a map in the order this range visits them.
KeysOf(f, s) == LET ks == SetToSeq(DOMAIN f)
                IN  IF s.rev THEN Reverse(ks) ELSE ks

\* Generator.Next: its exhaustion answers a fresh null.
NextValue(v, s) ==
    LET g == Deref(v, s)
    IN  IF g.index >= Len(g.values)
        THEN Ret(FreshNull(s), [s EXCEPT !.heap[v.ref].exhausted = TRUE])
        ELSE Ret(g.values[g.index + 1],
                 [s EXCEPT !.heap[v.ref].index = @ + 1])

-----------------------------------------------------------------------------
(* Classes and records *)

RECURSIVE GetMethod(_, _)
\* The method of a class or of its ancestors, or None.
GetMethod(class, name) ==
    IF name \in DOMAIN class.methods THEN class.methods[name]
    ELSE IF class.parent = None THEN None ELSE GetMethod(class.parent, name)

RECURSIVE instanceOf(_, _)
\* A class declared again is another class.
instanceOf(c, class) ==
    c # None /\ (c.id = class.id \/ instanceOf(c.parent, class))

RECURSIVE collectClassFields(_)
collectClassFields(class) ==
    IF class = None THEN <<>>
    ELSE collectClassFields(class.parent) \o class.fields

\* Instance.Get, a hash's string key, or a record's field; Nil if absent.
lookupMember(v, name, s) ==
    CASE v.t = "INSTANCE" ->
           LET o == Deref(v, s)
               m == GetMethod(o.class, name)
           IN  IF name \in DOMAIN o.fields THEN o.fields[name]
               ELSE IF m = None THEN Nil ELSE m
      [] v.t = "HASH" ->
           LET ps == Deref(v, s).pairs
           IN  IF Str(name) \in DOMAIN ps THEN ps[Str(name)] ELSE Nil
      [] v.t = "RECORD" ->
           IF name \in DOMAIN v.vals THEN v.vals[name] ELSE Nil
      [] OTHER -> Nil

FieldValues(v) == [i \in DOMAIN v.def.fields |-> v.vals[v.def.fields[i]]]

-----------------------------------------------------------------------------
(* Copies, comparisons and freezing of whole structures *)

Concat(xs, sep) ==
    IF xs = <<>> THEN ""
    ELSE FoldLeft(LAMBDA acc, x : acc \o sep \o x, Head(xs), Tail(xs))

RECURSIVE Inspect(_, _)
\* What print shows; two objects of one type are `in` each other's
\* containers when these agree.
Inspect(v, s) ==
    LET All(vs) == Concat([i \in DOMAIN vs |-> Inspect(vs[i], s)], ", ")
    IN  CASE v.t = "INTEGER" -> ToString(v.int)
          [] v.t = "BOOLEAN" -> IF v.bool THEN "true" ELSE "false"
          [] v.t = "STRING" -> v.str
          [] v.t = "NULL" -> "null"
          [] v.t = "ARRAY" -> "[" \o All(Elements(v, s)) \o "]"
          [] v.t = "TUPLE" -> "(" \o All(v.elems) \o ")"
          [] v.t = "HASH" ->
               LET ps == Deref(v, s).pairs
                   ks == KeysOf(ps, s)
               IN  "{" \o Concat([i \in DOMAIN ks |-> Inspect(ks[i], s) \o
                                   ": " \o Inspect(ps[ks[i]], s)], ", ") \o "}"
          [] v.t = "RECORD" -> v.def.name \o "(" \o All(FieldValues(v)) \o ")"
          [] v.t = "INSTANCE" -> "instance of " \o Deref(v, s).class.name
          [] v.t = "YIELD" -> Inspect(v.value, s)
          [] v.t = "RETURN_VALUE" -> Inspect(v.value, s)
          [] OTHER -> v.t

RECURSIVE deepEqual(_, _, _)
deepEqual(a, b, s) ==
    LET Same(xs, ys) == /\ Len(xs) = Len(ys)
                        /\ \A i \in DOMAIN xs : deepEqual(xs[i], ys[i], s)
    IN  /\ a.t = b.t
        /\ CASE a.t = "ARRAY" -> Same(Elements(a, s), Elements(b, s))
             [] a.t = "TUPLE" -> Same(a.elems, b.elems)
             [] a.t = "RECORD" -> /\ a.def.name = b.def.name
                                  /\ a.def.fields = b.def.fields
                                  /\ Same(FieldValues(a), FieldValues(b))
             [] a.t = "HASH" ->
                  LET p == Deref(a, s).pairs
                      q == Deref(b, s).pairs
                  IN  /\ DOMAIN p = DOMAIN q
                      /\ \A key \in DOMAIN p : deepEqual(p[key], q[key], s)
             [] a.t = "NULL" -> TRUE
             [] OTHER -> Inspect(a, s) = Inspect(b, s)

RECURSIVE Reach(_, _)
\* The arrays and hashes reachable through elements and values alone.
Reach(vs, s) ==
    LET refs == {v \in vs : v.t \in {"ARRAY", "HASH"}}
        below == UNION {IF v.t = "ARRAY"
                        THEN {Elements(v, s)[i] : i \in DOMAIN Elements(v, s)}
                        ELSE {Deref(v, s).pairs[key] :
                                key \in DOMAIN Deref(v, s).pairs} : v \in refs}
        more == {v \in below : v.t \in {"ARRAY", "HASH"}} \ refs
    IN  IF more = {} THEN refs ELSE Reach(refs \union more, s)

deepFreezeInPlace(v, s) == Freeze({w.ref : w \in Reach({v}, s)}, s)

RECURSIVE CopyObject(_, _, _), CopyAll(_, _, _, _)
CopyAll(vs, done, thaw, s) ==
    IF vs = <<>> THEN Ret(done, s)
    ELSE LET r == CopyObject(Head(vs), thaw, s)
         IN  CopyAll(Tail(vs), Append(done, r.val), thaw, r.st)

\* deepCopy, and deepThawCopy when `thaw` is TRUE: a thawed tuple is an
\* array and a thawed record a hash.  (The inputs here are acyclic.)
CopyObject(v, thaw, s) ==
    CASE v.t = "ARRAY" \/ (thaw /\ v.t = "TUPLE") ->
           LET vs == IF v.t = "ARRAY" THEN Elements(v, s) ELSE v.elems
               r == CopyAll(vs, <<>>, thaw, s)
           IN  NewArray(r.val, Len(vs), r.st)
      [] v.t = "HASH" \/ (thaw /\ v.t = "RECORD") ->
           LET ks == IF v.t = "HASH" THEN SetToSeq(DOMAIN Deref(v, s).pairs)
                     ELSE [i \in DOMAIN v.def.fields |-> Str(v.def.fields[i])]
               vs == [i \in DOMAIN ks |-> IF v.t = "HASH" THEN Deref(v, s).pairs[ks[i]]
                                          ELSE v.vals[ks[i].str]]
               r == CopyAll(vs, <<>>, thaw, s)
               h == NewHash([x \in ToSet(ks) |->
                               r.val[CHOOSE i \in DOMAIN ks : ks[i] = x]],
                            r.st)
           IN  IF ~thaw /\ Deref(v, s).frozen
               THEN Ret(h.val, [h.st EXCEPT !.heap[h.val.ref].frozen = TRUE])
               ELSE h
      [] v.t \in {"TUPLE", "RECORD"} ->
           LET vs == IF v.t = "TUPLE" THEN v.elems ELSE FieldValues(v)
               r == CopyAll(vs, <<>>, thaw, s)
           IN  Ret(IF v.t = "TUPLE" THEN Tuple(r.val)
                   ELSE Record(v.def, [x \in DOMAIN v.vals |->
                          r.val[CHOOSE i \in DOMAIN v.def.fields :
                                  v.def.fields[i] = x]]), r.st)
      [] OTHER -> Ret(v, s)
=============================================================================
