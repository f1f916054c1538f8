----------------------------- MODULE MCSession -----------------------------
(***************************************************************************)
(* Sessions to check: the topics of Programs, and the modules their        *)
(* imports find.                                                           *)
(***************************************************************************)
EXTENDS Session, Programs
LOCAL INSTANCE SequencesExt

\* Modules that import each other, throw half way, do not parse or are not
\* there.
MCModules ==
  [m |-> [file |-> "ok", stmts |-> <<LetStatement("mx", I(1)), Say("m")>>],
   bad |-> [file |-> "ok", stmts |-> <<LetStatement("bx", I(1)), Say("bad"),
                                       ThrowStatement(S("no")),
                                       LetStatement("by", I(2))>>],
   one |-> [file |-> "ok", stmts |-> <<ImportStatement("two"),
                                       LetStatement("o", V("t")), Say("one")>>],
   two |-> [file |-> "ok", stmts |-> <<ImportStatement("one"),
                                       LetStatement("t", I(3)), Say("two")>>],
   garbled |-> [file |-> "unparsable", stmts |-> <<>>],
   none |-> [file |-> "missing", stmts |-> <<>>]]

MCTopics ==
  [types |-> Types, consts |-> Consts, frozen |-> Frozen, defers |-> Defers,
   imports |-> Imports, generators |-> Generators, tries |-> Tries,
   matches |-> Matches, json |-> Json, errors |-> Errors]
MCPaths == [x \in {"k.0"} |-> <<[name |-> "k", index |-> -1],
                               [name |-> "0", index |-> 0]>>]

\* A deferred call of a closure of the function that defers it.
ClosureTopics ==
  [closures |-> {
     Src(<<Def("f", <<>>, <<Def("done", <<>>, <<Say("done")>>),
                            DeferStatement(Call("done", <<>>))>>)>>),
     Req("f", <<>>)}]

HostSymmetry == Permutations(Hosts)

-----------------------------------------------------------------------------
(* Properties of these topics *)

Count(x) == Cardinality({i \in DOMAIN s.out : s.out[i] = x})

\* The statements of a module run at most once per session, and exactly once
\* when no import of it failed (evalImportStatement).
ModuleRunsOnce ==
    \A p \in {"m", "one", "two", "bad"} :
        /\ Count(p) <= 1
        /\ (alive /\ p \in DOMAIN s.loaded \ s.failed) => Count(p) = 1

\* A generator holds the values its own function yields and no others: a
\* yield belongs to the innermost call (NearestYieldSink in object.go).
YieldsStayHome ==
    \A i \in DOMAIN s.heap : s.heap[i].t = "GENERATOR" =>
        Cardinality({v.int \div 10 : v \in ToSet(s.heap[i].values)}) = 1

\* finally runs once for each try entered, whichever way control leaves the
\* try or its handler (evalTryStatement).
FinallyRuns == alive => Count("try") = Count("fin")

\* The names a pattern binds never reach the scope around the match, not even
\* when a part or the guard fails after they were bound (evalMatchExpression).
PatternNamesStayLocal ==
    {"p", "q", "r"} \intersect DOMAIN s.frames[1].store = {}
=============================================================================
