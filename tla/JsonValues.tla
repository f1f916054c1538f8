----------------------------- MODULE JsonValues -----------------------------
(***************************************************************************)
(* JSON values (encoding/json, as src/internal/polyglot/jsonconv.go uses   *)
(* it): null, booleans, numbers, strings, arrays and objects, tagged.      *)
(***************************************************************************)

JNull == [j |-> "null"]
JBool(b) == [j |-> "bool", bool |-> b]
JNum(n) == [j |-> "num", num |-> n]
JStr(x) == [j |-> "str", str |-> x]
JArr(xs) == [j |-> "arr", elems |-> xs]
JObj(f) == [j |-> "obj", fields |-> f]
\* What cannot be written as JSON.
JError == [j |-> "error"]
=============================================================================
