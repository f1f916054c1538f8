------------------------------ MODULE Machine -------------------------------
(***************************************************************************)
(* The experimental virtual machine of `nvs bc`                            *)
(* (src/internal/bytecode/vm.go), and what a bytecode verifier asks of the *)
(* code it is given.  Left out: floats, the order of strings, the 64 bits  *)
(* of integers.                                                            *)
(***************************************************************************)
EXTENDS Store, Opcode

CONSTANTS
    Sprint(_),   \* fmt.Sprint: how a value is printed
    Spaced(_)    \* strings.Join: how several are
VARIABLE machine

StackSize == 1024
Slice(vs) == [t |-> "SLICE", elems |-> vs]

\* c: instructions, constants and names as the compiler leaves them.
NewVM(c) == [state |-> "running", ins |-> c.ins, starts |-> c.starts, constants |-> c.constants,
             globals |-> [i \in 1..Len(c.names) |-> Null], known |-> {},
             stack |-> <<>>, ip |-> 0, out |-> <<>>, apart |-> c.apart]

Fails(vm) == [vm EXCEPT !.state = "error"]
Dies(vm) == [vm EXCEPT !.state = "panic"]
\* Floats and the order of strings: the machine is not followed further.
LeftOut(vm) == [vm EXCEPT !.state = "left"]
Departs(what, cond, vm) == IF cond THEN [vm EXCEPT !.apart = @ \cup {what}] ELSE vm

\* The stack is indexed out of its range: a panic.
push(v, vm) == IF Len(vm.stack) = StackSize THEN Dies(vm)
               ELSE [vm EXCEPT !.stack = Append(@, v)]
\* The n topmost values, in the order they were pushed, and the machine without.
Top(n, vm) == SubSeq(vm.stack, Len(vm.stack) - n + 1, Len(vm.stack))
Popped(n, vm) == [vm EXCEPT !.stack = SubSeq(@, 1, Len(@) - n)]
PopN(n, vm, Rest(_, _)) ==
    IF Len(vm.stack) < n THEN Dies(vm) ELSE Rest(Top(n, vm), Popped(n, vm))
Pop1(vm, Rest(_, _)) == PopN(1, vm, LAMBDA vs, u : Rest(vs[1], u))
Pop2(vm, Rest(_, _, _)) ==
    Pop1(vm, LAMBDA r, w : Pop1(w, LAMBDA l, u : Rest(l, r, u)))

Numbers(l, r) == l.t = "INTEGER" /\ r.t = "INTEGER"

\* Zero and the empty string are false.
truthy(v) == v \notin {Null, Bool(FALSE), Integer(0), Str("")}

eq(l, r) == IF l.t \in {"INTEGER", "SLICE"} THEN Sprint(l) = Sprint(r) ELSE l = r

TruncDiv(a, b) == LET q == (IF a < 0 THEN -a ELSE a) \div (IF b < 0 THEN -b ELSE b)
                  IN  IF (a < 0) = (b < 0) THEN q ELSE -q
\* numPow: of integers.
numPow(a, b) == CASE b < 0 -> 0 [] b = 0 -> 1 [] OTHER -> a ^ b
Arithmetic(op, a, b) ==
    CASE op = "Add" -> Integer(a + b)
      [] op = "Sub" -> Integer(a - b)
      [] op = "Mul" -> Integer(a * b)
      [] op = "Div" -> Integer(TruncDiv(a, b))
      [] op = "Mod" -> Integer(a - b * TruncDiv(a, b))
      [] op = "Pow" -> Integer(numPow(a, b))
      [] op = "Greater" -> Bool(a > b)
      [] op = "Less" -> Bool(a < b)
      [] op = "GreaterEq" -> Bool(a >= b)
      [] op = "LessEq" -> Bool(a <= b)

Orders == {"Greater", "Less", "GreaterEq", "LessEq"}

\* What an operator makes of its operands.
binary(op, l, r, vm) ==
    LET strings == {l.t, r.t} \intersect {"STRING"} # {}
        w == Departs("equality", l.t # r.t \/ l.t = "SLICE", vm)
    IN  CASE op = "Equal" -> push(Bool(eq(l, r)), w)
          [] op = "NotEqual" -> push(Bool(~eq(l, r)), w)
          [] op = "Add" /\ l.t = "STRING" /\ r.t = "STRING" -> push(Str(l.str \o r.str), vm)
          [] op \in Orders /\ l.t = "STRING" /\ r.t = "STRING" -> LeftOut(vm)
          [] op \in Orders \cup {"Add"} /\ strings -> Fails(vm)
          [] op = "Mod" /\ ~Numbers(l, r) -> Fails(vm)
          [] op = "Div" /\ r.t # "INTEGER" -> Fails(vm)
          [] ~Numbers(l, r) -> LeftOut(vm)
          [] op \in {"Div", "Mod"} /\ r.int = 0 -> Fails(vm)
          [] OTHER -> push(Arithmetic(op, l.int, r.int), vm)

Test(v, vm) == Departs("truth", v \in {Integer(0), Str("")}, vm)

\* One instruction, op, whose operand, if it has one, is n; w: behind it.
Execute(op, n, w) ==
    CASE op = "Constant" -> push(w.constants[n + 1], w)
      [] op \in {"True", "False"} -> push(Bool(op = "True"), w)
      [] op = "Null" -> push(Null, w)
      [] op = "Minus" -> Pop1(w, LAMBDA v, u :
           IF v.t = "INTEGER" THEN push(Integer(-v.int), u) ELSE LeftOut(u))
      [] op = "Bang" -> Pop1(w, LAMBDA v, u : push(Bool(~truthy(v)), Test(v, u)))
      [] op = "Pop" -> IF w.stack = <<>> THEN w ELSE Pop1(w, LAMBDA v, u : u)
      [] op = "Jump" -> [w EXCEPT !.ip = n]
      [] op = "JumpNotTruthy" -> Pop1(w, LAMBDA v, u :
           IF truthy(v) THEN u ELSE [Test(v, u) EXCEPT !.ip = n])
      [] op = "SetGlobal" -> Pop1(w, LAMBDA v, u :
           [u EXCEPT !.globals[n + 1] = v, !.known = @ \cup {n}])
      [] op = "GetGlobal" ->
           push(w.globals[n + 1], Departs("unset", n \notin w.known, w))
      [] op = "Print" -> PopN(n, w, LAMBDA vs, u :
           [Departs("rendering", \E i \in DOMAIN vs : vs[i].t \in {"NULL", "SLICE"}, u)
              EXCEPT !.out = Append(@, Spaced([i \in DOMAIN vs |-> Sprint(vs[i])]))])
      [] op = "Len" -> Pop1(w, LAMBDA v, u :
           CASE v.t = "SLICE" -> push(Integer(Len(v.elems)), u)
             [] v.t = "STRING" -> push(Integer(Len(v.str)), u)
             [] OTHER -> Fails(u))
      [] op = "Array" -> PopN(n, w, LAMBDA vs, u : push(Slice(vs), u))
      [] op = "Halt" -> [w EXCEPT !.state = "halted"]
      [] OTHER -> Pop2(w, LAMBDA l, r, u : binary(op, l, r, u))

OpAt(vm, a) == Opcodes[vm.ins[a + 1] + 1]
Behind(vm, a) == a + 1 + OperandWidth(OpAt(vm, a))

\* The loop of Run ends behind the last instruction, too.
Run(vm) ==
    CASE vm.ip >= Len(vm.ins) -> [vm EXCEPT !.state = "halted"]
      [] vm.ip < Len(vm.ins) /\ vm.ins[vm.ip + 1] >= Len(Opcodes) ->
           Fails([vm EXCEPT !.ip = @ + 1])
      [] OTHER -> Execute(OpAt(vm, vm.ip), ReadUint16(vm.ins, vm.ip + 1),
                          [vm EXCEPT !.ip = Behind(vm, vm.ip)])

Cycle == machine.state = "running" /\ machine' = Run(machine)

-----------------------------------------------------------------------------
(* What code may do to the stack, whatever its values: a set of pairs of   *)
(* an address and a depth that the code, walked instruction by             *)
(* instruction, does not leave.                                            *)

OperandAt(vm, a) == ReadUint16(vm.ins, a + 1)

\* How many values an instruction takes, and how many it puts back.
Takes(op, n) ==
    CASE op \in {"Print", "Array"} -> n
      [] op \in {"Minus", "Bang", "JumpNotTruthy", "SetGlobal", "Len"} -> 1
      [] op \in {"Constant", "True", "False", "Null", "GetGlobal", "Pop", "Jump", "Halt"} -> 0
      [] OTHER -> 2
Puts(op) == IF op \in {"JumpNotTruthy", "SetGlobal", "Print", "Pop", "Jump", "Halt"} THEN 0
            ELSE 1
\* A pop of an empty stack is let pass.
DepthAfter(op, n, d) ==
    IF op = "Pop" THEN IF d = 0 THEN 0 ELSE d - 1 ELSE d - Takes(op, n) + Puts(op)

\* Where the machine goes from a.
Successors(vm, a) ==
    CASE OpAt(vm, a) = "Jump" -> {OperandAt(vm, a)}
      [] OpAt(vm, a) = "JumpNotTruthy" -> {OperandAt(vm, a), Behind(vm, a)}
      [] OpAt(vm, a) = "Halt" -> {}
      [] OTHER -> {Behind(vm, a)}

\* A whole instruction begins at a, and what it refers to is there.
Placed(vm, a) ==
    /\ a \in vm.starts
    /\ a < Len(vm.ins)
    /\ vm.ins[a + 1] \in 0..Len(Opcodes) - 1
    /\ Behind(vm, a) <= Len(vm.ins)
    /\ OpAt(vm, a) = "Constant" => OperandAt(vm, a) < Len(vm.constants)
    /\ OpAt(vm, a) \in {"SetGlobal", "GetGlobal"} => OperandAt(vm, a) < Len(vm.globals)

\* The pairs that follow <<a, d>>.
Following(vm, a, d) ==
    {<<b, DepthAfter(OpAt(vm, a), OperandAt(vm, a), d)>> : b \in Successors(vm, a)}

Verified(vm, pairs) ==
    /\ pairs \subseteq (0..Len(vm.ins)) \X (0..StackSize)
    /\ <<0, 0>> \in pairs
    /\ \A p \in pairs : p[1] # Len(vm.ins) =>
          /\ Placed(vm, p[1])
          /\ Takes(OpAt(vm, p[1]), OperandAt(vm, p[1])) <= p[2]
          /\ Following(vm, p[1], p[2]) \subseteq pairs

\* The code comes to each of its ends with an empty stack.
EndsEmpty(vm, pairs) ==
    \A p \in pairs : p[1] = Len(vm.ins) \/ OpAt(vm, p[1]) = "Halt" => p[2] = 0
=============================================================================
