---------------------------- MODULE MachineProofs ---------------------------
(***************************************************************************)
(* Code that passes the verifier of Machine runs without a panic, whatever *)
(* its values, branches and loops, and however long it runs.               *)
(***************************************************************************)
EXTENDS Machine, TLAPS

(* A sequence of values of whatever kind. *)
IsValues(s) == \E S : s \in Seq(S)

Fields == {"state", "ins", "starts", "constants", "globals", "known", "stack", "ip", "out", "apart"}

(* A machine as NewVM makes it and instructions leave it. *)
Shaped(vm) ==
  /\ vm = [f \in Fields |-> vm[f]]
  /\ IsValues(vm.stack)
  /\ IsValues(vm.globals)

(* The code and the number of globals are those of vm. *)
SameCode(vm, r) ==
  /\ r.ins = vm.ins /\ r.starts = vm.starts /\ r.constants = vm.constants
  /\ Len(r.globals) = Len(vm.globals)

(* r is vm after an instruction that leads, unless it fails, to one of the *)
(* addresses ips, with d values on the stack.                              *)
Moved(vm, r, ips, d) ==
  /\ Shaped(r) /\ SameCode(vm, r)
  /\ r.state \in {"running", "error", "left"}
  /\ r.state = "running" => r.ip \in ips /\ Len(r.stack) = d
  /\ Len(r.stack) <= StackSize

-----------------------------------------------------------------------------
(* Sequences of values stay sequences. *)
LEMMA SequenceFacts ==
  ASSUME NEW s, IsValues(s)
  PROVE  /\ Len(s) \in Nat
         /\ s = <<>> <=> Len(s) = 0
         /\ \A v : IsValues(Append(s, v)) /\ Len(Append(s, v)) = Len(s) + 1
         /\ \A n \in 0..Len(s) : /\ IsValues(SubSeq(s, 1, Len(s) - n))
                                 /\ Len(SubSeq(s, 1, Len(s) - n)) = Len(s) - n
         /\ \A i \in 1..Len(s) : \A v :
              /\ IsValues([s EXCEPT ![i] = v])
              /\ Len([s EXCEPT ![i] = v]) = Len(s)
<1>1. PICK S : s \in Seq(S)
  BY DEF IsValues
<1>2. Len(s) \in Nat /\ (s = <<>> <=> Len(s) = 0)
  BY <1>1
<1>3. ASSUME NEW v PROVE IsValues(Append(s, v)) /\ Len(Append(s, v)) = Len(s) + 1
  <2>1. s \in Seq(S \cup {v})
    BY <1>1
  <2>2. Append(s, v) \in Seq(S \cup {v}) /\ Len(Append(s, v)) = Len(s) + 1
    BY <2>1
  <2>3. QED
    BY <2>2 DEF IsValues
<1>4. ASSUME NEW n \in 0..Len(s)
      PROVE  IsValues(SubSeq(s, 1, Len(s) - n)) /\ Len(SubSeq(s, 1, Len(s) - n)) = Len(s) - n
  <2>1. Len(s) - n \in 0..Len(s)
    BY <1>2
  <2>2. \A i \in 1..Len(s) - n : s[i] \in S
    BY <1>1, <2>1
  <2>3. SubSeq(s, 1, Len(s) - n) \in Seq(S) /\ Len(SubSeq(s, 1, Len(s) - n)) = Len(s) - n
    BY <1>1, <2>1, <2>2
  <2>4. QED
    BY <2>3 DEF IsValues
<1>5. ASSUME NEW i \in 1..Len(s), NEW v
      PROVE  IsValues([s EXCEPT ![i] = v]) /\ Len([s EXCEPT ![i] = v]) = Len(s)
  <2>1. s \in Seq(S \cup {v})
    BY <1>1
  <2>2. [s EXCEPT ![i] = v] \in Seq(S \cup {v}) /\ Len([s EXCEPT ![i] = v]) = Len(s)
    BY <2>1
  <2>3. QED
    BY <2>2 DEF IsValues
<1>6. QED
  BY <1>2, <1>3, <1>4, <1>5

(* A machine with one field replaced. *)
With(vm, f, x) == [vm EXCEPT ![f] = x]

LEMMA WithFacts ==
  ASSUME NEW vm, vm = [f \in Fields |-> vm[f]], NEW f \in Fields, NEW x
  PROVE  /\ With(vm, f, x) = [g \in Fields |-> With(vm, f, x)[g]]
         /\ With(vm, f, x)[f] = x
         /\ \A g \in Fields : g # f => With(vm, f, x)[g] = vm[g]
BY DEF With

(* Popping takes values from the stack and changes nothing else. *)
LEMMA PoppedFacts ==
  ASSUME NEW vm, Shaped(vm), NEW n \in 0..Len(vm.stack)
  PROVE  /\ Shaped(Popped(n, vm)) /\ SameCode(vm, Popped(n, vm))
         /\ Popped(n, vm).state = vm.state /\ Popped(n, vm).ip = vm.ip
         /\ Len(Popped(n, vm).stack) = Len(vm.stack) - n
<1> DEFINE s == SubSeq(vm.stack, 1, Len(vm.stack) - n)
<1>1. IsValues(s) /\ Len(s) = Len(vm.stack) - n
  BY SequenceFacts DEF Shaped
<1>2. Popped(n, vm) = With(vm, "stack", s)
  BY DEF Popped, With
<1> HIDE DEF s
<1>3. QED
  BY <1>1, <1>2, WithFacts DEF Shaped, SameCode, Fields

(* Pushing where there is room puts one value onto the stack. *)
LEMMA PushFacts ==
  ASSUME NEW vm, NEW v, Shaped(vm), Len(vm.stack) < StackSize, vm.state = "running"
  PROVE  Moved(vm, push(v, vm), {vm.ip}, Len(vm.stack) + 1)
<1>0. Len(vm.stack) \in Nat
  BY SequenceFacts DEF Shaped
<1>2. Len(vm.stack) # StackSize
  <2>1. StackSize \in Nat
    BY DEF StackSize
  <2>2. QED
    BY <1>0, <2>1
<1> DEFINE s == Append(vm.stack, v)
<1>1. IsValues(s) /\ Len(s) = Len(vm.stack) + 1 /\ Len(vm.stack) \in Nat
  BY SequenceFacts DEF Shaped
<1>3. push(v, vm) = With(vm, "stack", s)
  BY <1>2 DEF push, With
<1> HIDE DEF s
<1>4. QED
  BY <1>1, <1>3, WithFacts DEF Shaped, SameCode, Moved, StackSize, Fields

(* An instruction that fails may leave any address and depth. *)
LEMMA FailureFacts ==
  ASSUME NEW vm, Shaped(vm), Len(vm.stack) <= StackSize, NEW ips, NEW d
  PROVE  Moved(vm, Fails(vm), ips, d) /\ Moved(vm, LeftOut(vm), ips, d)
<1>1. Fails(vm) = With(vm, "state", "error") /\ LeftOut(vm) = With(vm, "state", "left")
  BY DEF Fails, LeftOut, With
<1>2. \A s \in {"error", "left"} : Moved(vm, With(vm, "state", s), ips, d)
  BY WithFacts DEF Shaped, SameCode, Moved, Fields
<1>3. QED
  BY <1>1, <1>2

(* r is vm where it counts: it may differ in what it has printed, in the   *)
(* globals that are set, and in where it parts with the interpreter.       *)
Aside(vm, r) ==
  /\ Shaped(r) /\ SameCode(vm, r)
  /\ r.state = vm.state /\ r.ip = vm.ip /\ Len(r.stack) = Len(vm.stack)

(* Recording where machine and interpreter part changes nothing else. *)
LEMMA DepartsFacts ==
  ASSUME NEW vm, Shaped(vm), NEW what, NEW cond
  PROVE  Aside(vm, Departs(what, cond, vm))
<1>1. CASE cond
  <2>1. Departs(what, cond, vm) = With(vm, "apart", vm.apart \cup {what})
    BY <1>1 DEF Departs, With
  <2>2. QED
    BY <2>1, WithFacts DEF Shaped, SameCode, Aside, Fields
<1>2. CASE ~cond
  BY <1>2 DEF Departs, SameCode, Aside
<1>3. QED
  BY <1>1, <1>2

(* Popping, recording and printing before the instruction's own effect. *)
LEMMA MovedOn ==
  ASSUME NEW vm, NEW u, NEW r, NEW ips, NEW d, SameCode(vm, u), Moved(u, r, ips, d)
  PROVE  Moved(vm, r, ips, d)
BY DEF SameCode, Moved

(* An operator answers one value, fails, or is not followed further. *)
LEMMA BinaryFacts ==
  ASSUME NEW vm, NEW op, NEW l, NEW r, Shaped(vm), Len(vm.stack) < StackSize,
         vm.state = "running"
  PROVE  Moved(vm, binary(op, l, r, vm), {vm.ip}, Len(vm.stack) + 1)
<1> DEFINE w == Departs("equality", l.t # r.t \/ l.t = "SLICE", vm)
           Good(m) == Moved(vm, m, {vm.ip}, Len(vm.stack) + 1)
<1>1. Aside(vm, w)
  BY DepartsFacts
<1>2. Len(vm.stack) \in Nat
  BY SequenceFacts DEF Shaped
<1>3. Good(Fails(vm)) /\ Good(LeftOut(vm))
  BY <1>2, FailureFacts DEF StackSize
<1>4. \A v : Good(push(v, vm))
  BY PushFacts
<1>5. \A v : Good(push(v, w))
  <2> HIDE DEF w
  <2>1. ASSUME NEW v PROVE Good(push(v, w))
    <3>1. Moved(w, push(v, w), {w.ip}, Len(w.stack) + 1)
      BY <1>1, PushFacts DEF Aside
    <3>2. QED
      BY <1>1, <3>1, MovedOn DEF Aside
  <2>2. QED
    BY <2>1
<1> HIDE DEF Good
<1>6. Good(binary(op, l, r, vm))
  BY <1>3, <1>4, <1>5 DEF binary
<1>7. QED
  BY <1>6 DEF Good

(* Where an instruction leads that is not a halt. *)
Leads(op, n, ip) ==
  CASE op = "Jump" -> {n} [] op = "JumpNotTruthy" -> {n, ip} [] OTHER -> {ip}

(* One instruction, given the values it takes and room for what it puts    *)
(* back: it goes where the verifier expects, with the depth it expects.    *)
LEMMA ExecuteFacts ==
  ASSUME NEW w, Shaped(w), w.state = "running", NEW op, NEW n, op # "Halt",
         OperandWidth(op) = 2 => n \in Nat,
         Takes(op, n) <= Len(w.stack),
         DepthAfter(op, n, Len(w.stack)) <= StackSize, Len(w.stack) <= StackSize,
         op = "SetGlobal" => n < Len(w.globals)
  PROVE  Moved(w, Execute(op, n, w), Leads(op, n, w.ip), DepthAfter(op, n, Len(w.stack)))
<1> DEFINE d == DepthAfter(op, n, Len(w.stack))
           Good(m) == Moved(w, m, Leads(op, n, w.ip), d)
<1>1. Len(w.stack) \in Nat /\ (w.stack = <<>> <=> Len(w.stack) = 0)
  BY SequenceFacts DEF Shaped
<1>n. op \in {"SetGlobal", "Print", "Array"} => n \in Nat
  BY DEF OperandWidth
<1>2. Moved(w, w, {w.ip}, Len(w.stack))
  BY DEF Moved, SameCode
<1>3. CASE op \in {"Constant", "True", "False", "Null", "GetGlobal"}
  <2>1. d = Len(w.stack) + 1 /\ Len(w.stack) < StackSize /\ Leads(op, n, w.ip) = {w.ip}
    BY <1>1, <1>3 DEF DepthAfter, Takes, Puts, Leads, StackSize
  <2>2. \A v : Good(push(v, w))
    BY <2>1, PushFacts
  <2>3. ASSUME NEW v, NEW c PROVE Good(push(v, Departs("unset", c, w)))
    <3> DEFINE u == Departs("unset", c, w)
    <3>1. Aside(w, u)
      BY DepartsFacts
    <3> HIDE DEF u
    <3>2. Moved(u, push(v, u), {u.ip}, Len(u.stack) + 1)
      BY <2>1, <3>1, PushFacts DEF Aside
    <3>3. Moved(w, push(v, u), {u.ip}, Len(u.stack) + 1)
      BY <3>1, <3>2, MovedOn DEF Aside
    <3>4. QED
      BY <2>1, <3>1, <3>3 DEF Aside, u
  <2>4. \/ \E v : Execute(op, n, w) = push(v, w)
        \/ \E v : Execute(op, n, w) = push(v, Departs("unset", n \notin w.known, w))
    BY <1>3 DEF Execute
  <2> HIDE DEF Good
  <2>5. Good(Execute(op, n, w))
    BY <2>2, <2>3, <2>4
  <2>6. QED
    BY <2>5 DEF Good
<1>4. CASE op = "Jump"
  <2>1. Execute(op, n, w) = With(w, "ip", n)
    BY <1>4 DEF Execute, With
  <2>2. d = Len(w.stack) /\ Leads(op, n, w.ip) = {n}
    BY <1>1, <1>4 DEF DepthAfter, Takes, Puts, Leads
  <2>3. Shaped(With(w, "ip", n)) /\ SameCode(w, With(w, "ip", n))
    BY WithFacts DEF Shaped, SameCode, Fields
  <2>4. /\ With(w, "ip", n).ip = n /\ With(w, "ip", n).state = "running"
        /\ With(w, "ip", n).stack = w.stack
    BY WithFacts DEF Shaped, Fields
  <2>5. QED
    BY <2>1, <2>2, <2>3, <2>4 DEF Moved
<1>5. CASE op = "Pop"
  <2>1. CASE w.stack = <<>>
    <3>1. Execute(op, n, w) = w /\ d = Len(w.stack) /\ Leads(op, n, w.ip) = {w.ip}
      BY <1>1, <1>5, <2>1 DEF Execute, DepthAfter, Leads
    <3>2. QED
      BY <1>2, <3>1
  <2>2. CASE w.stack # <<>>
    <3>1. 1 \in 0..Len(w.stack) /\ ~(Len(w.stack) < 1)
      BY <1>1, <2>2
    <3>2. Execute(op, n, w) = Popped(1, w)
      BY <1>5, <2>2, <3>1 DEF Execute, Pop1, PopN
    <3>3. d = Len(w.stack) - 1 /\ Leads(op, n, w.ip) = {w.ip}
      BY <1>1, <1>5, <2>2 DEF DepthAfter, Leads
    <3>4. QED
      BY <1>1, <3>1, <3>2, <3>3, PoppedFacts DEF Moved
  <2>3. QED
    BY <2>1, <2>2
<1>6. CASE op \in {"Minus", "Bang", "Len", "JumpNotTruthy", "SetGlobal"}
  <2> DEFINE u == Popped(1, w)
             v == Top(1, w)[1]
  <2>1. Takes(op, n) = 1 /\ 1 \in 0..Len(w.stack) /\ ~(Len(w.stack) < 1)
    BY <1>1, <1>6 DEF Takes
  <2>2. /\ Shaped(u) /\ SameCode(w, u) /\ u.state = "running" /\ u.ip = w.ip
        /\ Len(u.stack) = Len(w.stack) - 1 /\ Len(u.stack) <= StackSize
        /\ Len(u.stack) < StackSize /\ Len(u.stack) \in Nat
    BY <1>1, <2>1, PoppedFacts DEF StackSize
  <2> HIDE DEF u, v
  <2>3. CASE op \in {"Minus", "Bang", "Len"}
    <3>1. d = Len(u.stack) + 1 /\ Leads(op, n, w.ip) = {u.ip}
      BY <1>1, <2>1, <2>2, <2>3 DEF DepthAfter, Puts, Leads
    <3> DEFINE Goes(m) == Moved(u, m, Leads(op, n, w.ip), d)
    <3>2. Goes(Fails(u)) /\ Goes(LeftOut(u))
      BY <2>2, FailureFacts
    <3>3. \A x : Goes(push(x, u))
      BY <2>2, <3>1, PushFacts
    <3>4. \A x : Goes(push(x, Test(v, u)))
      <4>1. Aside(u, Test(v, u))
        BY <2>2, DepartsFacts DEF Test
      <4>2. ASSUME NEW x PROVE Goes(push(x, Test(v, u)))
        <5>1. Moved(Test(v, u), push(x, Test(v, u)), {u.ip}, Len(u.stack) + 1)
          BY <2>2, <4>1, PushFacts DEF Aside
        <5>2. Moved(u, push(x, Test(v, u)), {u.ip}, Len(u.stack) + 1)
          BY <4>1, <5>1, MovedOn DEF Aside
        <5>3. QED
          BY <3>1, <5>2
      <4>3. QED
        BY <4>2
    <3> HIDE DEF Goes
    <3>5. ASSUME op = "Minus" PROVE Goes(Execute(op, n, w))
      <4>1. Execute(op, n, w) = IF v.t = "INTEGER" THEN push(Integer(-v.int), u) ELSE LeftOut(u)
        BY <2>1, <3>5 DEF Execute, Pop1, PopN, u, v
      <4>2. QED
        BY <3>2, <3>3, <4>1
    <3>6. ASSUME op = "Bang" PROVE Goes(Execute(op, n, w))
      <4>1. Execute(op, n, w) = push(Bool(~truthy(v)), Test(v, u))
        BY <2>1, <3>6 DEF Execute, Pop1, PopN, u, v
      <4>2. QED
        BY <3>4, <4>1
    <3>7. ASSUME op = "Len" PROVE Goes(Execute(op, n, w))
      <4>1. Execute(op, n, w) = CASE v.t = "SLICE" -> push(Integer(Len(v.elems)), u)
                                  [] v.t = "STRING" -> push(Integer(Len(v.str)), u)
                                  [] OTHER -> Fails(u)
        BY <2>1, <3>7 DEF Execute, Pop1, PopN, u, v
      <4>2. QED
        BY <3>2, <3>3, <4>1
    <3>8. Goes(Execute(op, n, w))
      BY <2>3, <3>5, <3>6, <3>7
    <3>9. QED
      BY <2>2, <3>8, MovedOn DEF Goes
  <2>4. CASE op = "JumpNotTruthy"
    <3>1. d = Len(u.stack) /\ Leads(op, n, w.ip) = {n, u.ip}
      BY <1>1, <2>1, <2>2, <2>4 DEF DepthAfter, Puts, Leads
    <3>2. Aside(u, Test(v, u))
      BY <2>2, DepartsFacts DEF Test
    <3>3. Execute(op, n, w) = IF truthy(v) THEN u ELSE With(Test(v, u), "ip", n)
      BY <2>1, <2>4 DEF Execute, Pop1, PopN, With, u, v
    <3>4. Moved(w, u, {n, u.ip}, Len(u.stack))
      BY <2>2 DEF Moved
    <3>5. Moved(w, With(Test(v, u), "ip", n), {n, u.ip}, Len(u.stack))
      <4> DEFINE t == Test(v, u)
                 r == With(t, "ip", n)
      <4>1. /\ Shaped(t) /\ SameCode(w, t) /\ t.state = "running"
            /\ Len(t.stack) = Len(u.stack)
        BY <2>2, <3>2 DEF Aside, SameCode
      <4> HIDE DEF t
      <4>2. /\ r.ip = n /\ r.state = t.state /\ r.stack = t.stack
            /\ Shaped(r) /\ SameCode(t, r)
        BY <4>1, WithFacts DEF Shaped, SameCode, Fields
      <4> HIDE DEF r
      <4>3. Moved(w, r, {n, u.ip}, Len(u.stack))
        BY <2>2, <4>1, <4>2 DEF Moved, SameCode
      <4>4. QED
        BY <4>3 DEF r, t
    <3>6. QED
      BY <3>1, <3>3, <3>4, <3>5
  <2>5. CASE op = "SetGlobal"
    <3> DEFINE g == [u.globals EXCEPT ![n + 1] = v]
               k == u.known \cup {n}
               m == With(u, "globals", g)
               r == With(m, "known", k)
    <3>1. d = Len(u.stack) /\ Leads(op, n, w.ip) = {u.ip}
      BY <1>1, <2>1, <2>2, <2>5 DEF DepthAfter, Puts, Leads
    <3>2. IsValues(g) /\ Len(g) = Len(w.globals)
      <4>1. IsValues(u.globals) /\ Len(u.globals) = Len(w.globals)
        BY <2>2 DEF Shaped, SameCode
      <4>2. n + 1 \in 1..Len(u.globals)
        BY <1>n, <2>5, <4>1, SequenceFacts
      <4>3. QED
        BY <4>1, <4>2, SequenceFacts
    <3>3. Execute(op, n, w) = r
      BY <2>1, <2>5 DEF Execute, Pop1, PopN, With, u, v
    <3> HIDE DEF g, k
    <3>4. /\ m.state = u.state /\ m.ip = u.ip /\ m.stack = u.stack
          /\ Shaped(m) /\ SameCode(w, m)
      BY <2>2, <3>2, WithFacts DEF Shaped, SameCode, Fields
    <3> HIDE DEF m
    <3>5. /\ r.state = u.state /\ r.ip = u.ip /\ r.stack = u.stack
          /\ Shaped(r) /\ SameCode(w, r)
      BY <3>4, WithFacts DEF Shaped, SameCode, Fields
    <3>6. QED
      BY <2>2, <3>1, <3>3, <3>5 DEF Moved
  <2>6. QED
    BY <1>6, <2>3, <2>4, <2>5
<1>7. CASE op \in {"Print", "Array"}
  <2> DEFINE u == Popped(n, w)
             vs == Top(n, w)
  <2>1. Takes(op, n) = n /\ n \in 0..Len(w.stack) /\ ~(Len(w.stack) < n) /\ n \in Nat
    BY <1>1, <1>n, <1>7 DEF Takes
  <2>2. /\ Shaped(u) /\ SameCode(w, u) /\ u.state = "running" /\ u.ip = w.ip
        /\ Len(u.stack) = Len(w.stack) - n /\ Len(u.stack) <= StackSize
        /\ Len(u.stack) \in Nat
    BY <1>1, <2>1, PoppedFacts DEF StackSize
  <2> HIDE DEF u, vs
  <2>3. CASE op = "Print"
    <3> DEFINE cond == \E i \in DOMAIN vs : vs[i].t \in {"NULL", "SLICE"}
               t == Departs("rendering", cond, u)
               o == Append(t.out, Spaced([i \in DOMAIN vs |-> Sprint(vs[i])]))
               r == With(t, "out", o)
    <3>1. d = Len(u.stack) /\ Leads(op, n, w.ip) = {u.ip}
      BY <1>1, <2>1, <2>2, <2>3 DEF DepthAfter, Puts, Leads
    <3>2. Execute(op, n, w) = r
      BY <2>1, <2>3 DEF Execute, PopN, With, u, vs
    <3>3. Aside(u, t)
      BY <2>2, DepartsFacts
    <3> HIDE DEF t, o
    <3>4. /\ r.state = t.state /\ r.ip = t.ip /\ r.stack = t.stack
          /\ Shaped(r) /\ SameCode(t, r)
      BY <3>3, WithFacts DEF Shaped, SameCode, Fields, Aside
    <3>5. Moved(w, r, {u.ip}, Len(u.stack))
      <4> HIDE DEF r
      <4>1. QED
        BY <2>2, <3>3, <3>4 DEF Moved, SameCode, Aside
    <3>6. QED
      BY <3>1, <3>2, <3>5
  <2>4. CASE op = "Array"
    <3>1. d = Len(u.stack) + 1 /\ Leads(op, n, w.ip) = {u.ip} /\ Len(u.stack) < StackSize
      BY <1>1, <2>1, <2>2, <2>4 DEF DepthAfter, Takes, Puts, Leads, StackSize
    <3>2. Execute(op, n, w) = push(Slice(vs), u)
      BY <2>1, <2>4 DEF Execute, PopN, u, vs
    <3>3. Moved(u, push(Slice(vs), u), {u.ip}, Len(u.stack) + 1)
      BY <2>2, <3>1, PushFacts
    <3>4. QED
      BY <2>2, <3>1, <3>2, <3>3, MovedOn
  <2>5. QED
    BY <1>7, <2>3, <2>4
<1>8. CASE op \notin {"Constant", "True", "False", "Null", "GetGlobal", "Jump", "Pop", "Minus",
                     "Bang", "Len", "JumpNotTruthy", "SetGlobal", "Print", "Array"}
  <2> DEFINE u1 == Popped(1, w)
             u == Popped(1, u1)
             r == Top(1, w)[1]
             l == Top(1, u1)[1]
  <2>1. Takes(op, n) = 2 /\ 1 \in 0..Len(w.stack) /\ ~(Len(w.stack) < 1) /\ Len(w.stack) >= 2
    BY <1>1, <1>8 DEF Takes
  <2>2. /\ Shaped(u1) /\ SameCode(w, u1) /\ u1.state = "running" /\ u1.ip = w.ip
        /\ Len(u1.stack) = Len(w.stack) - 1
    BY <1>1, <2>1, PoppedFacts
  <2>3. 1 \in 0..Len(u1.stack) /\ ~(Len(u1.stack) < 1)
    BY <1>1, <2>1, <2>2
  <2> HIDE DEF u1
  <2>4. /\ Shaped(u) /\ SameCode(u1, u) /\ u.state = "running" /\ u.ip = w.ip
        /\ Len(u.stack) = Len(w.stack) - 2 /\ Len(u.stack) < StackSize
    <3>1. /\ Shaped(u) /\ SameCode(u1, u) /\ u.state = "running" /\ u.ip = w.ip
          /\ Len(u.stack) = Len(u1.stack) - 1
      BY <2>2, <2>3, PoppedFacts
    <3>2. Len(u.stack) = Len(w.stack) - 2
      BY <1>1, <2>2, <3>1
    <3>3. Len(w.stack) - 2 < StackSize
      BY <1>1 DEF StackSize
    <3>4. QED
      BY <3>1, <3>2, <3>3
  <2>5. Execute(op, n, w) = binary(op, l, r, u)
    BY <1>8, <2>1, <2>3 DEF Execute, Pop1, PopN, Pop2, u1
  <2> HIDE DEF u, l, r
  <2>6. d = Len(u.stack) + 1 /\ Leads(op, n, w.ip) = {u.ip}
    BY <1>1, <1>8, <2>1, <2>4 DEF DepthAfter, Puts, Leads
  <2>7. Moved(u, binary(op, l, r, u), {u.ip}, Len(u.stack) + 1)
    BY <2>4, BinaryFacts
  <2>8. SameCode(w, u)
    BY <2>2, <2>4 DEF SameCode
  <2>9. QED
    BY <2>5, <2>6, <2>7, <2>8, MovedOn
<1>9. QED
  BY <1>3, <1>4, <1>5, <1>6, <1>7, <1>8

-----------------------------------------------------------------------------
(* A sequence is a function on its indices. *)
LEMMA SequenceIsFunction == ASSUME NEW S, NEW s \in Seq(S) PROVE s \in [1..Len(s) -> S]
OBVIOUS

(* What the compiler hands to the machine. *)
Compiled(c) == c.ins \in Seq(0..255) /\ IsValues(c.names)

(* The machine runs the code c. *)
Runs(c) == machine = NewVM(c) /\ [][Cycle]_machine

(* A running machine is at one of the pairs, and one that has halted was.  *)
Safe(c, pairs) ==
  /\ Shaped(machine) /\ SameCode(NewVM(c), machine)
  /\ machine.state \in {"running", "error", "left", "halted"}
  /\ Len(machine.stack) <= StackSize
  /\ machine.state = "running" => <<machine.ip, Len(machine.stack)>> \in pairs
  /\ machine.state = "halted" =>
       \E p \in pairs : /\ p[2] = Len(machine.stack)
                        /\ p[1] # Len(machine.ins) => OpAt(machine, p[1]) = "Halt"

(* A new machine has an empty stack and is at the first instruction. *)
LEMMA SafeInitially ==
  ASSUME NEW c, NEW pairs, Compiled(c), Verified(NewVM(c), pairs), machine = NewVM(c)
  PROVE  Safe(c, pairs)
<1>1. IsValues(machine.stack) /\ Len(machine.stack) = 0
  <2>1. <<>> \in Seq({}) /\ Len(<<>>) = 0
    OBVIOUS
  <2>2. QED
    BY <2>1 DEF NewVM, IsValues
<1>2. IsValues(machine.globals)
  <2>1. Len(c.names) \in Nat
    BY SequenceFacts DEF Compiled
  <2>2. [i \in 1..Len(c.names) |-> Null] \in Seq({Null})
    BY <2>1
  <2>3. QED
    BY <2>2 DEF NewVM, IsValues
<1>3. Shaped(machine)
  BY <1>1, <1>2 DEF NewVM, Shaped, Fields
<1>4. machine.state = "running" /\ machine.ip = 0
  BY DEF NewVM
<1>5. QED
  BY <1>1, <1>3, <1>4 DEF Safe, SameCode, Verified, StackSize

(* What the verifier says of the instruction the machine is at. *)
LEMMA AtInstruction ==
  ASSUME NEW c, NEW pairs, Compiled(c), Verified(NewVM(c), pairs), Safe(c, pairs),
         machine.state = "running"
  PROVE  LET a == machine.ip  d == Len(machine.stack)
         IN  /\ a \in 0..Len(machine.ins) /\ d \in 0..StackSize
             /\ Len(machine.ins) \in Nat
             /\ a # Len(machine.ins) =>
                   /\ Placed(machine, a)
                   /\ Takes(OpAt(machine, a), OperandAt(machine, a)) <= d
                   /\ Following(machine, a, d) \subseteq pairs
<1> DEFINE a == machine.ip
           d == Len(machine.stack)
           v == NewVM(c)
<1>1. /\ v.ins = machine.ins /\ v.starts = machine.starts /\ v.constants = machine.constants
      /\ Len(v.globals) = Len(machine.globals) /\ v.ins = c.ins
  BY DEF Safe, SameCode, NewVM
<1> HIDE DEF v
<1>2. <<a, d>> \in pairs /\ Verified(v, pairs)
  BY DEF Safe, v
<1>3. a \in 0..Len(v.ins) /\ d \in 0..StackSize
  BY <1>2 DEF Verified
<1>4. a # Len(v.ins) => /\ Placed(v, a)
                        /\ Takes(OpAt(v, a), OperandAt(v, a)) <= d
                        /\ Following(v, a, d) \subseteq pairs
  <2>1. <<a, d>>[1] = a /\ <<a, d>>[2] = d
    OBVIOUS
  <2>2. QED
    BY <1>2, <2>1, Zenon DEF Verified
<1>5. \A b : OpAt(v, b) = OpAt(machine, b) /\ OperandAt(v, b) = OperandAt(machine, b)
             /\ Behind(v, b) = Behind(machine, b)
  BY <1>1 DEF OpAt, OperandAt, Behind
<1>6. \A b : Successors(v, b) = Successors(machine, b)
  BY <1>5 DEF Successors
<1>7. Following(v, a, d) = Following(machine, a, d)
  BY <1>5, <1>6 DEF Following
<1>8. Placed(v, a) => Placed(machine, a)
  BY <1>1, <1>5 DEF Placed
<1>9. Len(machine.ins) \in Nat
  BY <1>1 DEF Compiled
<1>10. QED
  BY <1>1, <1>3, <1>4, <1>5, <1>7, <1>8, <1>9

(* A cycle of the machine on verified code. *)
LEMMA SafeStep ==
  ASSUME NEW c, NEW pairs, Compiled(c), Verified(NewVM(c), pairs), Safe(c, pairs), Cycle
  PROVE  Safe(c, pairs)'
<1> DEFINE a == machine.ip
           d == Len(machine.stack)
           op == OpAt(machine, a)
           n == OperandAt(machine, a)
           w == With(machine, "ip", Behind(machine, a))
<1>1. machine.state = "running" /\ machine' = Run(machine)
  BY DEF Cycle
<1>2. /\ a \in 0..Len(machine.ins) /\ d \in 0..StackSize /\ Len(machine.ins) \in Nat
      /\ <<a, d>> \in pairs
  BY <1>1, AtInstruction DEF Safe
<1>3. Shaped(machine) /\ SameCode(NewVM(c), machine)
  BY DEF Safe
<1>4. \A s : /\ Shaped(With(machine, "state", s)) /\ SameCode(machine, With(machine, "state", s))
             /\ With(machine, "state", s).state = s
             /\ With(machine, "state", s).stack = machine.stack
             /\ With(machine, "state", s).ins = machine.ins
  BY <1>3, WithFacts DEF Shaped, SameCode, Fields
<1>5. CASE a = Len(machine.ins)
  <2>1. machine' = With(machine, "state", "halted")
    BY <1>1, <1>2, <1>5 DEF Run, With
  <2>2. <<a, d>>[1] = a /\ <<a, d>>[2] = d
    OBVIOUS
  <2>3. machine'.stack = machine.stack /\ machine'.state = "halted" /\ machine'.ins = machine.ins
    BY <1>4, <2>1
  <2>4. \E p \in pairs : /\ p[2] = Len(machine'.stack)
                         /\ p[1] # Len(machine'.ins) => OpAt(machine', p[1]) = "Halt"
    BY <1>2, <1>5, <2>2, <2>3
  <2>5. Shaped(machine') /\ SameCode(NewVM(c), machine')
    BY <1>3, <1>4, <2>1 DEF SameCode
  <2>6. QED
    BY <1>2, <2>3, <2>4, <2>5 DEF Safe
<1>6. CASE a # Len(machine.ins)
  <2>1. /\ Placed(machine, a) /\ Takes(op, n) <= d
        /\ Following(machine, a, d) \subseteq pairs
    BY <1>1, <1>6, AtInstruction
  <2>2. machine' = Execute(op, n, w)
    <3>1. ~(a >= Len(machine.ins)) /\ ~(machine.ins[a + 1] >= Len(Opcodes))
      <4>1. Len(Opcodes) \in Nat
        BY DEF Opcodes
      <4>2. QED
        BY <1>2, <1>6, <2>1, <4>1 DEF Placed
    <3>2. QED
      BY <1>1, <3>1 DEF Run, With, OperandAt
  <2>3. /\ Shaped(w) /\ SameCode(machine, w) /\ w.state = "running"
        /\ w.stack = machine.stack /\ w.ip = Behind(machine, a) /\ w.globals = machine.globals
    BY <1>1, <1>3, WithFacts DEF Shaped, SameCode, Fields
  <2> HIDE DEF w
  <2>4. CASE op = "Halt"
    <3>1. machine' = With(w, "state", "halted")
      BY <2>2, <2>4 DEF Execute, With
    <3>2. /\ Shaped(machine') /\ SameCode(w, machine') /\ machine'.state = "halted"
          /\ machine'.stack = machine.stack /\ machine'.ins = machine.ins
      BY <2>3, <3>1, WithFacts DEF Shaped, SameCode, Fields
    <3>3. <<a, d>>[1] = a /\ <<a, d>>[2] = d
      OBVIOUS
    <3>4. OpAt(machine', a) = "Halt"
      BY <2>4, <3>2 DEF OpAt
    <3>5. \E p \in pairs : /\ p[2] = Len(machine'.stack)
                           /\ p[1] # Len(machine'.ins) => OpAt(machine', p[1]) = "Halt"
      BY <1>2, <3>2, <3>3, <3>4
    <3>6. SameCode(NewVM(c), machine')
      BY <1>3, <2>3, <3>2 DEF SameCode
    <3>7. QED
      BY <1>2, <3>2, <3>5, <3>6 DEF Safe
  <2>5. CASE op # "Halt"
    <3>1. OperandWidth(op) = 2 => n \in Nat
      <4>1. ASSUME OperandWidth(op) = 2 PROVE n \in Nat
        <5>1. a + 2 \in 1..Len(machine.ins) /\ a + 3 \in 1..Len(machine.ins)
          BY <1>2, <2>1, <4>1 DEF Placed, Behind
        <5>2. machine.ins \in Seq(0..255)
          BY <1>3 DEF SameCode, NewVM, Compiled
        <5>3. machine.ins[a + 2] \in Nat /\ machine.ins[a + 3] \in Nat
          <6>1. machine.ins \in [1..Len(machine.ins) -> 0..255]
            BY <5>2, SequenceIsFunction
          <6>2. machine.ins[a + 2] \in 0..255 /\ machine.ins[a + 3] \in 0..255
            BY <5>1, <6>1
          <6>3. QED
            BY <6>2
        <5>4. n = machine.ins[a + 2] * 256 + machine.ins[a + 3]
          BY <1>2 DEF OperandAt, ReadUint16
        <5>5. QED
          BY <5>3, <5>4
      <4>2. QED
        BY <4>1
    <3>2. Leads(op, n, w.ip) = Successors(machine, a)
      BY <2>3, <2>5 DEF Leads, Successors
    <3>3. \A b \in Successors(machine, a) : <<b, DepthAfter(op, n, d)>> \in pairs
      BY <2>1 DEF Following
    <3>4. DepthAfter(op, n, d) <= StackSize
      <4>1. PICK b : b \in Successors(machine, a)
        BY <2>5 DEF Successors
      <4>2. <<b, DepthAfter(op, n, d)>> \in pairs
        BY <3>3, <4>1
      <4>3. DepthAfter(op, n, d) \in 0..StackSize
        BY <4>2 DEF Verified
      <4>4. QED
        BY <4>3
    <3>5. op = "SetGlobal" => n < Len(w.globals)
      BY <2>1, <2>3 DEF Placed
    <3> HIDE DEF op, n
    <3>6. Moved(w, machine', Successors(machine, a), DepthAfter(op, n, d))
      <4>1. d <= StackSize
        BY <1>2
      <4>2. Moved(w, Execute(op, n, w), Leads(op, n, w.ip), DepthAfter(op, n, Len(w.stack)))
        BY <2>1, <2>3, <2>5, <3>1, <3>4, <3>5, <4>1, ExecuteFacts
      <4>3. QED
        BY <2>2, <2>3, <3>2, <4>2
    <3>7. SameCode(NewVM(c), machine')
      BY <1>3, <2>3, <3>6 DEF SameCode, Moved
    <3>8. machine'.state = "running" => <<machine'.ip, Len(machine'.stack)>> \in pairs
      BY <3>3, <3>6 DEF Moved
    <3>9. QED
      BY <3>6, <3>7, <3>8 DEF Safe, Moved
  <2>6. QED
    BY <2>4, <2>5
<1>7. QED
  BY <1>5, <1>6

(* Verified code is safe: whatever its values and however its tests come   *)
(* out, the machine neither panics (VM.pop below the stack, VM.push above  *)
(* its 1024 slots) nor leaves the addresses and depths of the verifier.    *)
THEOREM VerifiedCodeIsSafe ==
  ASSUME NEW CONSTANT c, NEW CONSTANT pairs, Compiled(c), Verified(NewVM(c), pairs)
  PROVE  Runs(c) => []Safe(c, pairs)
<1>1. machine = NewVM(c) => Safe(c, pairs)
  BY SafeInitially
<1>2. Safe(c, pairs) /\ [Cycle]_machine => Safe(c, pairs)'
  <2>1. CASE Cycle
    BY <2>1, SafeStep
  <2>2. CASE UNCHANGED machine
    BY <2>2 DEF Safe
  <2>3. QED
    BY <2>1, <2>2
<1>3. QED
  BY <1>1, <1>2, PTL DEF Runs

(* Every instruction that is fetched begins where the compiler put one, is *)
(* whole, and refers to constants and globals that are there; its operands *)
(* are on the stack.                                                       *)
FetchesInstructions ==
  machine.state = "running" /\ machine.ip # Len(machine.ins) =>
    /\ Placed(machine, machine.ip)
    /\ Takes(OpAt(machine, machine.ip), OperandAt(machine, machine.ip)) <= Len(machine.stack)

THEOREM FetchesAreInstructions ==
  ASSUME NEW CONSTANT c, NEW CONSTANT pairs, Compiled(c), Verified(NewVM(c), pairs)
  PROVE  Runs(c) => []FetchesInstructions
<1>1. Safe(c, pairs) => FetchesInstructions
  BY AtInstruction DEF FetchesInstructions
<1>2. QED
  BY <1>1, VerifiedCodeIsSafe, PTL

LEMMA HaltedEmpty ==
  ASSUME NEW c, NEW pairs, EndsEmpty(NewVM(c), pairs), Safe(c, pairs),
         machine.state = "halted"
  PROVE  machine.stack = <<>>
<1>1. machine.ins = NewVM(c).ins
  BY DEF Safe, SameCode
<1>2. EndsEmpty(machine, pairs)
  BY <1>1 DEF EndsEmpty, OpAt
<1>3. Len(machine.stack) = 0
  BY <1>2 DEF Safe, EndsEmpty
<1>4. IsValues(machine.stack)
  BY DEF Safe, Shaped
<1>5. QED
  BY <1>3, <1>4, SequenceFacts

(* Code that the verifier brings to each of its ends with an empty stack   *)
(* halts with an empty stack: no statement leaves a value behind.          *)
THEOREM HaltsEmpty ==
  ASSUME NEW CONSTANT c, NEW CONSTANT pairs, Compiled(c), Verified(NewVM(c), pairs),
         EndsEmpty(NewVM(c), pairs)
  PROVE  Runs(c) => [](machine.state = "halted" => machine.stack = <<>>)
<1>1. Safe(c, pairs) => (machine.state = "halted" => machine.stack = <<>>)
  BY HaltedEmpty
<1>2. QED
  BY <1>1, VerifiedCodeIsSafe, PTL
=============================================================================
