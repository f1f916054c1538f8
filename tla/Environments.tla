---------------------------- MODULE Environments ----------------------------
(***************************************************************************)
(* The environments of the interpreter: scopes with their values, their    *)
(* constants, the types declared for their names, and the scope around     *)
(* each (Environment of src/internal/object/object.go).                    *)
(*                                                                         *)
(* A scope is an index of s.frames, 0 is no scope, and the scope around    *)
(* another is older.  A sink is where the yields of a generator's body go. *)
(***************************************************************************)
EXTENDS Store, Ast

NewFrame(outer) ==
    [store |-> [x \in {} |-> Null], constants |-> {},
     types |-> [x \in {} |-> None], outer |-> outer, sink |-> 0]

\* NewEnclosedEnvironment: the new scope is Len(s.frames) + 1.
NewEnclosed(outer, s) == [s EXCEPT !.frames = Append(@, NewFrame(outer))]

\* The nearest scope from e outwards that is in found, or 0.
Outwards(found, e, s) ==
    LET at[k \in 0..Len(s.frames)] ==
            IF k = 0 \/ k \in found THEN k ELSE at[s.frames[k].outer]
    IN  at[e]

Binding(x, s) == {k \in DOMAIN s.frames : x \in DOMAIN s.frames[k].store}
Declaring(x, s) == {k \in DOMAIN s.frames : x \in DOMAIN s.frames[k].types}
Collecting(s) == {k \in DOMAIN s.frames : s.frames[k].sink # 0}

ScopeOf(x, e, s) == Outwards(Binding(x, s), e, s)

Bound(x, e, s) == ScopeOf(x, e, s) # 0
Get(x, e, s) == s.frames[ScopeOf(x, e, s)].store[x]

\* A Go map after m[x] = v.
Put(x, v, m) == [y \in DOMAIN m \union {x} |-> IF y = x THEN v ELSE m[y]]

Set(x, v, e, s) == [s EXCEPT !.frames[e].store = Put(x, v, @)]
SetConst(x, v, e, s) ==
    [Set(x, v, e, s) EXCEPT !.frames[e].constants = @ \union {x}]
DeclareType(x, ann, e, s) ==
    [s EXCEPT !.frames[e].types = Put(x, ann, @)]

\* A slip: a declaration of an outer scope is forgotten.
LookupTypeHere(x, e, s) ==
    IF x \in DOMAIN s.frames[e].types THEN s.frames[e].types[x] ELSE None

LookupDeclaredType(x, e, s) ==
    LET scope == Outwards(Declaring(x, s), e, s)
    IN  IF scope = 0 THEN None ELSE s.frames[scope].types[x]

\* A slip: the sink opened last, whoever opened it.
LastYieldSink(e, s) == Len(s.sinks)

NearestYieldSink(e, s) ==
    LET scope == Outwards(Collecting(s), e, s)
    IN  IF scope = 0 THEN 0 ELSE s.frames[scope].sink

SetSink(sink, e, s) == [s EXCEPT !.frames[e].sink = sink]

\* A slip: only the scope that assigns is asked for constants.
CanAssignHere(x, e, s) == Bound(x, e, s) /\ x \notin s.frames[e].constants

\* Assign and AssignStrict update the scope that binds x, unless x is a
\* constant of that very scope.
CanAssign(x, e, s) ==
    /\ Bound(x, e, s)
    /\ x \notin s.frames[ScopeOf(x, e, s)].constants
Assign(x, v, e, s) == Set(x, v, ScopeOf(x, e, s), s)

\* The last part of evalAssignExpression: a name that is bound nowhere is
\* bound here.
assignName(x, v, e, s) ==
    IF CanAssign(x, e, s) THEN Ret(v, Assign(x, v, e, s))
    ELSE IF Bound(x, e, s) THEN newError("constant", s)
    ELSE Ret(v, Set(x, v, e, s))

=============================================================================
