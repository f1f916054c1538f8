-------------------------------- MODULE Ast --------------------------------
(***************************************************************************)
(* The syntax trees of NvS (src/internal/ast/ast.go) as records tagged by  *)
(* their Go type.  Tokens, positions, `pub` and documentation are left     *)
(* out.  A function or method declaration is what the parser makes of it:  *)
(* `fn f(x) { .. }` is a LetStatement of a FunctionLiteral.                *)
(***************************************************************************)
EXTENDS Integers, Sequences

\* Go's nil child: no else branch, no label, no annotation.
None == [k |-> "None"]

-----------------------------------------------------------------------------
(* Expressions *)

IntegerLiteral(i) == [k |-> "IntegerLiteral", int |-> i]
FloatLiteral(digits) == [k |-> "FloatLiteral", digits |-> digits]
StringLiteral(s) == [k |-> "StringLiteral", str |-> s]
Boolean(b) == [k |-> "Boolean", bool |-> b]
NullLiteral == [k |-> "NullLiteral"]
Identifier(x) == [k |-> "Identifier", name |-> x]
PrefixExpression(op, right) ==
    [k |-> "PrefixExpression", op |-> op, right |-> right]
InfixExpression(op, left, right) ==
    [k |-> "InfixExpression", op |-> op, left |-> left, right |-> right]
PostfixExpression(op, operand) ==
    [k |-> "PostfixExpression", op |-> op, operand |-> operand]
IfExpression(c, consequence, alternative) ==
    [k |-> "IfExpression", cond |-> c, then |-> consequence,
     else |-> alternative]
TernaryExpression(c, consequence, alternative) ==
    [k |-> "TernaryExpression", cond |-> c, then |-> consequence,
     else |-> alternative]
ArrayLiteral(es) == [k |-> "ArrayLiteral", elems |-> es]
TupleLiteral(es) == [k |-> "TupleLiteral", elems |-> es]
\* pairs: a sequence of <<key, value>>; Go keeps them in an unordered map.
HashLiteral(spreads, pairs) ==
    [k |-> "HashLiteral", spreads |-> spreads, pairs |-> pairs]
SpreadExpression(e) == [k |-> "SpreadExpression", value |-> e]
RangeExpression(a, b, inclusive) ==
    [k |-> "RangeExpression", start |-> a, end |-> b, inclusive |-> inclusive]
InterpolatedString(parts) == [k |-> "InterpolatedString", parts |-> parts]
IndexExpression(left, index, end) ==
    [k |-> "IndexExpression", left |-> left, index |-> index, end |-> end]
AssignExpression(x, e) == [k |-> "AssignExpression", name |-> x, value |-> e]
IndexAssignExpression(left, index, e) ==
    [k |-> "IndexAssignExpression", left |-> left, index |-> index,
     value |-> e]
MemberExpression(object, x) ==
    [k |-> "MemberExpression", object |-> object, name |-> x]
MemberAssignExpression(object, x, e) ==
    [k |-> "MemberAssignExpression", object |-> object, name |-> x,
     value |-> e]
CallExpression(f, args) == [k |-> "CallExpression", fn |-> f, args |-> args]
NamedArgument(x, e) == [k |-> "NamedArgument", name |-> x, value |-> e]
\* A parameter: its name, default (or None) and annotation (or None).
Param(x, default, ann) == [name |-> x, default |-> default, type |-> ann]
FunctionLiteral(params, body, returns) ==
    [k |-> "FunctionLiteral", params |-> params, body |-> body,
     returns |-> returns, static |-> FALSE]
NewExpression(class, args) ==
    [k |-> "NewExpression", class |-> class, args |-> args]
ThisExpression == [k |-> "ThisExpression"]
\* arms: a sequence of [pattern, guard, body]; guard and default may be None.
MatchArm(pattern, guard, body) ==
    [pattern |-> pattern, guard |-> guard, body |-> body]
MatchExpression(e, arms, default) ==
    [k |-> "MatchExpression", value |-> e, arms |-> arms,
     default |-> default]
\* links: [kind |-> "member", name], [kind |-> "index", index],
\* [kind |-> "call", args].
OptionalChainExpression(base, links) ==
    [k |-> "OptionalChainExpression", base |-> base, links |-> links]

-----------------------------------------------------------------------------
(* Statements *)

Program(stmts) == [k |-> "Program", stmts |-> stmts]
BlockStatement(stmts) == [k |-> "BlockStatement", stmts |-> stmts]
ExpressionStatement(e) == [k |-> "ExpressionStatement", value |-> e]
LetStatement(x, e) == [k |-> "LetStatement", name |-> x, value |-> e]
ConstStatement(x, e) == [k |-> "ConstStatement", name |-> x, value |-> e]
\* A type: a name, or the union of some names; TRUE for a trailing `[]`.
TypeAnnotation(names, isArray) ==
    [k |-> "TypeAnnotation", names |-> names, array |-> isArray]
TypedLetStatement(x, ann, e) ==
    [k |-> "TypedLetStatement", name |-> x, type |-> ann, value |-> e]
\* Patterns of a destructuring let; rest is a name or None.
ArrayPattern(names, rest) ==
    [k |-> "ArrayPattern", names |-> names, rest |-> rest]
HashPattern(entries) == [k |-> "HashPattern", entries |-> entries]
DestructureLetStatement(pattern, e, isConst) ==
    [k |-> "DestructureLetStatement", pattern |-> pattern, value |-> e,
     const |-> isConst]
ReturnStatement(e) == [k |-> "ReturnStatement", value |-> e]
PrintStatement(e) == [k |-> "PrintStatement", value |-> e]
WhileStatement(label, c, body, orElse) ==
    [k |-> "WhileStatement", label |-> label, cond |-> c, body |-> body,
     orElse |-> orElse]
ForStatement(label, init, c, post, body, orElse) ==
    [k |-> "ForStatement", label |-> label, init |-> init, cond |-> c,
     post |-> post, body |-> body, orElse |-> orElse]
ForInStatement(label, x, iterable, body, orElse) ==
    [k |-> "ForInStatement", label |-> label, name |-> x,
     iterable |-> iterable, body |-> body, orElse |-> orElse]
BreakStatement(label) == [k |-> "BreakStatement", label |-> label]
ContinueStatement(label) == [k |-> "ContinueStatement", label |-> label]
TryStatement(body, catchId, catch, finally) ==
    [k |-> "TryStatement", body |-> body, catchId |-> catchId,
     catch |-> catch, finally |-> finally]
ThrowStatement(e) == [k |-> "ThrowStatement", value |-> e]
DeferStatement(e) == [k |-> "DeferStatement", call |-> e]
YieldStatement(e) == [k |-> "YieldStatement", value |-> e]
ImportStatement(path) == [k |-> "ImportStatement", path |-> path]
\* import a.b, and module a.b: a dotted path.
ImportModuleStatement(path) == [k |-> "ImportModuleStatement", path |-> path]
ModuleStatement(path) == [k |-> "ModuleStatement", path |-> path]
EnumStatement(x, members) ==
    [k |-> "EnumStatement", name |-> x, members |-> members]
RecordStatement(x, fields) ==
    [k |-> "RecordStatement", name |-> x, fields |-> fields]
\* methods: a function from method names to FunctionLiterals;
\* fields: a sequence of [name, default].
ClassStatement(x, parent, fields, methods) ==
    [k |-> "ClassStatement", name |-> x, parent |-> parent,
     fields |-> fields, methods |-> methods]
\* methods: a sequence of [name, arity].
InterfaceDecl(x, methods) ==
    [k |-> "InterfaceDecl", name |-> x, methods |-> methods]
DecoratorStatement(x, function) ==
    [k |-> "DecoratorStatement", decorator |-> x, function |-> function]
=============================================================================
