------------------------------- MODULE Store -------------------------------
(***************************************************************************)
(* The heap of the interpreter, and what writes to it: objects, arrays as  *)
(* Go slices, hashes, and the assignments and builtins that change them    *)
(* (src/internal/object/object.go, src/internal/eval/eval.go).             *)
(*                                                                         *)
(* An object is a record tagged with its Go type.  Arrays, hashes,         *)
(* instances and generators are pointers into s.heap, so aliases see each  *)
(* other's writes.  An array is a Go slice: an offset and a length into a  *)
(* backing array of s.mem, whose unused slots are its spare capacity, so   *)
(* two slices can share storage, and append writes in place when it can.   *)
(* s is the store: of its fields only heap and mem are used here.          *)
(***************************************************************************)
EXTENDS Integers, Sequences, TLC

Nil == [t |-> "NIL"]                     \* Go's nil object, not NvS's null
Panic == [t |-> "PANIC"]                 \* the goroutine panics
Null == [t |-> "NULL"]
Integer(i) == [t |-> "INTEGER", int |-> i]
Bool(b) == [t |-> "BOOLEAN", bool |-> b]
Str(x) == [t |-> "STRING", str |-> x]
Tuple(vs) == [t |-> "TUPLE", elems |-> vs]

Hashable(v) == v.t \in {"INTEGER", "BOOLEAN", "STRING"}
HashKey(v) == IF v.t = "BOOLEAN" THEN Bool(v.bool) ELSE v

(* Results: a value and the store it leaves. *)
Ret(v, s) == [val |-> v, st |-> s]
newError(m, s) == Ret([t |-> "ERROR", msg |-> m], s)
Crash(s) == Ret(Panic, s)

-----------------------------------------------------------------------------
(* The heap *)

Alloc(o, s) == Ret([t |-> o.t, ref |-> Len(s.heap) + 1],
                   [s EXCEPT !.heap = Append(@, o)])
Deref(v, s) == s.heap[v.ref]

Nils(n) == [i \in 1..n |-> Nil]

\* An array of the values vs on a backing array of `cap` slots of its own.
NewArray(vs, cap, s) ==
    Alloc([t |-> "ARRAY", back |-> Len(s.mem) + 1, off |-> 0,
           len |-> Len(vs), frozen |-> FALSE],
          [s EXCEPT !.mem = Append(@, vs \o Nils(cap - Len(vs)))])

Elements(v, s) ==
    LET a == Deref(v, s) IN SubSeq(s.mem[a.back], a.off + 1, a.off + a.len)

\* arr.Elements[i:j]: the same storage.
SliceOf(v, i, j, frozen, s) ==
    LET a == Deref(v, s)
    IN  Alloc([a EXCEPT !.off = a.off + i, !.len = j - i, !.frozen = frozen],
              s)

SetElement(v, i, x, s) ==
    LET a == Deref(v, s) IN [s EXCEPT !.mem[a.back][a.off + i + 1] = x]

\* All elements at once, as an in-place permutation leaves them.
SetAll(v, vs, s) ==
    LET a == Deref(v, s)
    IN  [s EXCEPT !.mem[a.back] =
           [k \in DOMAIN @ |-> IF k \in a.off + 1 .. a.off + a.len
                               THEN vs[k - a.off] ELSE @[k]]]

\* arr.Elements = append(arr.Elements, x): in place while there is room.
AppendElement(v, x, s) ==
    LET a == Deref(v, s)
        cap == Len(s.mem[a.back]) - a.off
        moved == Append(Elements(v, s), x)
    IN  IF a.len < cap
        THEN [s EXCEPT !.mem[a.back][a.off + a.len + 1] = x,
                       !.heap[v.ref].len = @ + 1]
        ELSE [s EXCEPT
                !.mem = Append(@, moved \o Nils(IF cap = 0 THEN 0
                                                ELSE cap - 1)),
                !.heap[v.ref] = [a EXCEPT !.back = Len(s.mem) + 1, !.off = 0,
                                          !.len = @ + 1]]

\* pairs: a function from hashable objects to objects.
NewHash(pairs, s) ==
    Alloc([t |-> "HASH", pairs |-> pairs, frozen |-> FALSE], s)
PutPair(v, key, x, s) ==
    [s EXCEPT !.heap[v.ref].pairs = (HashKey(key) :> x) @@ @]
NoPairs == [x \in {} |-> Null]
Only(ps, keys) == [x \in DOMAIN ps \intersect keys |-> ps[x]]
\* One entry less, as set_remove and delete leave it.
Without(v, key, s) ==
    [s EXCEPT !.heap[v.ref].pairs = Only(@, DOMAIN @ \ {HashKey(key)})]

\* The flag of every object in refs.
Freeze(refs, s) ==
    [s EXCEPT !.heap = [i \in DOMAIN @ |->
                          IF i \in refs THEN [@[i] EXCEPT !.frozen = TRUE]
                          ELSE @[i]]]

-----------------------------------------------------------------------------
(* Assignments to elements and members *)

assignToIndex(v, i, x, s) ==
    CASE v.t = "ARRAY" /\ i.t = "INTEGER" ->
           IF Deref(v, s).frozen
           THEN newError("frozen_array", s)
           ELSE IF i.int \notin 0..(Deref(v, s).len - 1)
           THEN newError("out_of_bounds", s)
           ELSE Ret(x, SetElement(v, i.int, x, s))
      [] v.t \in {"TUPLE", "RECORD"} -> newError("immutable", s)
      [] v.t = "HASH" ->
           IF Deref(v, s).frozen
           THEN newError("frozen_hash", s)
           ELSE IF ~Hashable(i) THEN newError("unhashable", s)
           ELSE Ret(x, PutPair(v, i, x, s))
      [] v = Nil -> Crash(s)
      [] OTHER -> newError("not_indexable", s)

PutField(v, name, x, s) ==
    [s EXCEPT !.heap[v.ref].fields = (name :> x) @@ @]
SetMember(v, name, x, s) ==
    CASE v.t = "INSTANCE" -> Ret(x, PutField(v, name, x, s))
      [] v.t = "HASH" ->
           IF Deref(v, s).frozen THEN newError("frozen_hash", s)
           ELSE Ret(x, PutPair(v, Str(name), x, s))
      [] v = Nil -> Crash(s)
      [] OTHER -> newError("not_an_instance", s)

-----------------------------------------------------------------------------
(* Slices *)

\* i cut to 0..n.
Within(i, n) == IF i < 0 THEN 0 ELSE IF i > n THEN n ELSE i

\* A slip: the end of a slice may be past the end of the array.
evalSliceUnclamped(v, i, j, s) ==
    IF v.t = "ARRAY" /\ i.t = "INTEGER" /\ j.t = "INTEGER" /\ j.int > i.int
    THEN SliceOf(v, i.int, j.int, Deref(v, s).frozen, s)
    ELSE newError("not_sliceable", s)

\* A slice of an array shares its storage and its frozen flag.
evalSliceExpression(v, i, j, s) ==
    LET n == IF v.t = "ARRAY" THEN Deref(v, s).len
             ELSE IF v.t = "TUPLE" THEN Len(v.elems) ELSE 0
        from == Within(i.int, n)
        to == IF j.int < 0 THEN n ELSE Within(j.int, n)
    IN  IF i.t # "INTEGER" \/ j.t # "INTEGER" THEN newError("not_an_index", s)
        ELSE CASE v.t = "ARRAY" ->
                    IF from > to THEN NewArray(<<>>, 0, s)
                    ELSE SliceOf(v, from, to, Deref(v, s).frozen, s)
               [] v.t = "TUPLE" -> Ret(Tuple(SubSeq(v.elems, from + 1, to)), s)
               [] OTHER -> newError("not_sliceable", s)

\* slice, take and drop share the array's storage.  Their indices are
\* converted unchecked: not a number, a panic.
Ints(args) == \A i \in 2..Len(args) : args[i].t = "INTEGER"
builtinSlice(v, args, s) ==
    LET n == Deref(v, s).len
        i == IF args[2].int < 0 THEN 0 ELSE args[2].int
        j == IF Len(args) = 3 /\ args[3].int < n THEN args[3].int ELSE n
    IN  IF ~Ints(args) THEN Crash(s)
        ELSE IF i > j THEN NewArray(<<>>, 0, s)
        ELSE SliceOf(v, i, j, Deref(v, s).frozen, s)
builtinTake(v, args, s) ==
    IF ~Ints(args) THEN Crash(s)
    ELSE SliceOf(v, 0, Within(args[2].int, Deref(v, s).len), FALSE, s)
builtinDrop(v, args, s) ==
    LET n == Deref(v, s).len
        i == IF args[2].int < 0 THEN 0 ELSE args[2].int
    IN  IF ~Ints(args) THEN Crash(s)
        ELSE IF i > n THEN NewArray(<<>>, 0, s) ELSE SliceOf(v, i, n, FALSE, s)

-----------------------------------------------------------------------------
(* The builtins that write to an array or a hash they are given *)

builtinPush(v, x, s) == Ret(v, AppendElement(v, x, s))
builtinPop(v, s) ==
    LET n == Deref(v, s).len
    IN  IF n = 0 THEN Ret(Null, s)
        ELSE Ret(Elements(v, s)[n], [s EXCEPT !.heap[v.ref].len = @ - 1])
Reversed(vs) == [i \in DOMAIN vs |-> vs[Len(vs) + 1 - i]]
builtinReverse(v, s) == Ret(v, SetAll(v, Reversed(Elements(v, s)), s))
\* The arrays sorted here hold integers.
Sorted(vs) == SortSeq(vs, LAMBDA a, b : a.int < b.int)
builtinSort(v, s) == Ret(v, SetAll(v, Sorted(Elements(v, s)), s))

builtinSetAdd(v, key, s) == Ret(v, PutPair(v, key, Bool(TRUE), s))
builtinSetRemove(v, key, s) == Ret(v, Without(v, key, s))
builtinDelete(v, key, s) == Ret(Bool(TRUE), Without(v, key, s))

ArrayMutators == {"push", "pop", "reverse", "sort"}
HashMutators == {"set_add", "set_remove", "delete"}
Mutators == ArrayMutators \union HashMutators

\* A slip: sort forgets the flag.
refusesFrozenButSort(n, v, s) == n # "sort" /\ Deref(v, s).frozen

\* Each of them looks at the flag first.
refusesFrozen(n, v, s) == Deref(v, s).frozen

mutate(n, args, s) ==
    LET v == args[1]
    IN  IF refusesFrozen(n, v, s) THEN newError("frozen", s)
        ELSE IF n \in HashMutators /\ ~Hashable(args[2])
        THEN newError("unhashable", s)
        ELSE CASE n = "push" -> builtinPush(v, args[2], s)
               [] n = "pop" -> builtinPop(v, s)
               [] n = "reverse" -> builtinReverse(v, s)
               [] n = "sort" -> builtinSort(v, s)
               [] n = "set_add" -> builtinSetAdd(v, args[2], s)
               [] n = "set_remove" -> builtinSetRemove(v, args[2], s)
               [] n = "delete" -> builtinDelete(v, args[2], s)

-----------------------------------------------------------------------------
(* What the parts of the evaluator may rely on, and must keep *)

IsSequence(q) == q \in Seq({q[i] : i \in DOMAIN q})
Slices == [t : {"ARRAY"}, back : Nat, off : Nat, len : Nat, frozen : BOOLEAN]

\* Arrays are slices that lie within their storage.
Fits(o, mem) ==
    /\ o \in Slices /\ o.back \in DOMAIN mem
    /\ o.off + o.len <= Len(mem[o.back])
IsHash(o) == /\ o = [t |-> "HASH", pairs |-> o.pairs, frozen |-> o.frozen]
             /\ o.frozen \in BOOLEAN

WellFormed(s) ==
    /\ {"heap", "mem"} \subseteq DOMAIN s
    /\ IsSequence(s.heap)
    /\ IsSequence(s.mem) /\ \A b \in DOMAIN s.mem : IsSequence(s.mem[b])
    /\ \A i \in DOMAIN s.heap :
          /\ "t" \in DOMAIN s.heap[i]
          /\ s.heap[i].t = "ARRAY" => Fits(s.heap[i], s.mem)
          /\ s.heap[i].t = "HASH" => IsHash(s.heap[i])

\* v, if it is a pointer, points to an object of its type.
Points(v, s) ==
    v.t \in {"ARRAY", "HASH", "INSTANCE", "GENERATOR"} =>
        v.ref \in DOMAIN s.heap /\ s.heap[v.ref].t = v.t

Contents(i, s) ==
    LET o == s.heap[i]
    IN  IF o.t = "ARRAY" THEN SubSeq(s.mem[o.back], o.off + 1, o.off + o.len)
        ELSE o.pairs

\* From s to u, a frozen array or hash keeps its contents and stays frozen,
\* unless an array that is not frozen shares its storage.
KeepsFrozen(s, u) ==
    \A i \in DOMAIN s.heap :
        /\ s.heap[i].t \in {"ARRAY", "HASH"}
        /\ s.heap[i].frozen
        /\ s.heap[i].t = "ARRAY" =>
              ~\E j \in DOMAIN u.heap : /\ u.heap[j].t = "ARRAY"
                                        /\ u.heap[j].back = s.heap[i].back
                                        /\ ~u.heap[j].frozen
        => u.heap[i].frozen /\ Contents(i, u) = Contents(i, s)

=============================================================================
