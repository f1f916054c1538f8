--------------------------- MODULE BindingsProofs ---------------------------
(***************************************************************************)
(* Theorems about tasks that update a variable they share, for every       *)
(* number of workers: what the switches inside `x = x + 1` can do to x and *)
(* what they cannot.                                                       *)
(***************************************************************************)
EXTENDS SharedBindings, FiniteSetTheorems, TLAPS

(* The global frame is nobody's own, and to be unbound is not a number. *)
Distinct == Global \notin Workers /\ Unbound \notin Nat /\ IsFiniteSet(Workers)

(* A worker between the first step of the statement and its end. *)
Inside(w) == pc[w] \notin {"get_own", "done"}

(* No switch inside the statement: whoever has begun it ends it before     *)
(* another one begins.                                                     *)
OneAtATime == \A v, w \in Workers : Inside(v) /\ Inside(w) => v = w

(* Every update is still there, or was overwritten by one no larger than   *)
(* the number of workers.                                                  *)
UpdatesInRange ==
  Workers # {} /\ (\A w \in Workers : pc[w] = "done")
    => store[Global] \in 1..Cardinality(Workers)

(* An update that has read x assigns it where it is bound: it neither      *)
(* fails nor turns into a let of the worker's own frame.                   *)
NoStrayLet ==
  \A w \in Workers : pc[w] \notin {"undefined", "let"} /\ store[w] = Unbound

-----------------------------------------------------------------------------
(* The workers whose update is made, and those that are about to make it. *)
Finished == {w \in Workers : pc[w] = "done"}
Assigning(w) == pc[w] \in {"assign_own", "assign_global"}

(* The types, and where x is bound. *)
Shape ==
  /\ pc \in [Workers -> {"get_own", "get_global", "assign_own", "assign_global", "done"}]
  /\ seen \in [Workers -> Nat \cup {Unbound}]
  /\ store \in [Frames -> Nat \cup {Unbound}]
  /\ store[Global] \in Nat /\ \A w \in Workers : store[w] = Unbound
  /\ \A w \in Workers : Assigning(w) => seen[w] \in Nat

(* No value counts more updates than have been made. *)
InRange ==
  /\ store[Global] <= Cardinality(Finished)
  /\ Finished # {} => store[Global] >= 1
  /\ \A w \in Workers : Assigning(w) => seen[w] \in 1 .. Cardinality(Finished) + 1

(* What holds besides when nobody overlaps: every value counts them all. *)
Exact ==
  /\ store[Global] = Cardinality(Finished)
  /\ \A w \in Workers : Assigning(w) => seen[w] = Cardinality(Finished) + 1

(* What a step of worker w is: it moves on, reads x, or writes it. *)
MovesOn(w) ==
  /\ \/ pc[w] = "get_own" /\ pc' = [pc EXCEPT ![w] = "get_global"]
     \/ pc[w] = "assign_own" /\ pc' = [pc EXCEPT ![w] = "assign_global"]
  /\ UNCHANGED <<store, seen>>

Reads(w) ==
  /\ pc[w] = "get_global" /\ pc' = [pc EXCEPT ![w] = "assign_own"]
  /\ seen' = [seen EXCEPT ![w] = store[Global] + 1]
  /\ UNCHANGED store

Writes(w) ==
  /\ pc[w] = "assign_global" /\ pc' = [pc EXCEPT ![w] = "done"]
  /\ store' = [store EXCEPT ![Global] = seen[w]]
  /\ UNCHANGED seen

(* An update walks past its own frame, which does not bind x. *)
LEMMA StepIs ==
  ASSUME Distinct, Shape, NEW w \in Workers, Statement(w)
  PROVE  MovesOn(w) \/ Reads(w) \/ Writes(w)
<1>1. store[w] = Unbound /\ store[Global] # Unbound
  BY DEF Shape, Distinct
<1>2. CASE GetAt(w, w, "get_own", "get_global")
  BY <1>1, <1>2 DEF GetAt, Goto, MovesOn
<1>3. CASE GetAt(w, Global, "get_global", "undefined")
  BY <1>1, <1>3 DEF GetAt, Goto, Reads
<1>4. CASE AssignAt(w, w, "assign_own", "assign_global")
  BY <1>1, <1>4 DEF AssignAt, Goto, MovesOn
<1>5. CASE AssignAt(w, Global, "assign_global", "let")
  BY <1>1, <1>5 DEF AssignAt, Goto, Writes
<1>6. CASE ImplicitLet(w)
  BY <1>6 DEF ImplicitLet, Shape
<1> QED
  BY <1>2, <1>3, <1>4, <1>5, <1>6 DEF Statement

(* Finitely many workers have finished, and a writer is one more. *)
LEMMA FinishedGrows ==
  ASSUME Distinct, Shape
  PROVE  /\ Cardinality(Finished) \in Nat
         /\ \A w \in Workers : MovesOn(w) \/ Reads(w) => Finished' = Finished
         /\ \A w \in Workers : Writes(w) =>
              Finished' # {} /\ Cardinality(Finished') = Cardinality(Finished) + 1
<1>1. IsFiniteSet(Finished) /\ Cardinality(Finished) \in Nat
  BY FS_Subset, FS_CardinalityType DEF Distinct, Finished
<1>2. ASSUME NEW w \in Workers, MovesOn(w) \/ Reads(w) PROVE Finished' = Finished
  BY <1>2 DEF Shape, MovesOn, Reads, Finished
<1>3. ASSUME NEW w \in Workers, Writes(w)
      PROVE  Finished' # {} /\ Cardinality(Finished') = Cardinality(Finished) + 1
  <2>1. Finished' = Finished \cup {w} /\ w \notin Finished
    BY <1>3 DEF Shape, Writes, Finished
  <2> QED
    BY <1>1, <2>1, FS_AddElement
<1> QED
  BY <1>1, <1>2, <1>3

(* Only the global frame is ever bound, to a number. *)
LEMMA ShapeStep == Distinct /\ Shape /\ [Next]_vars => Shape'
<1> SUFFICES ASSUME Distinct, Shape, [Next]_vars PROVE Shape'
  OBVIOUS
<1>1. ASSUME NEW w \in Workers, Statement(w) PROVE Shape'
  <2>1. CASE MovesOn(w)
    BY <2>1 DEF MovesOn, Shape, Assigning
  <2>2. CASE Reads(w)
    BY <2>2 DEF Reads, Shape, Assigning
  <2>3. CASE Writes(w)
    <3>1. seen[w] \in Nat /\ \A v \in Workers : v # Global
      BY <2>3 DEF Writes, Shape, Assigning, Distinct
    <3> QED
      BY <2>3, <3>1 DEF Writes, Shape, Assigning, Frames
  <2> QED
    BY <1>1, <2>1, <2>2, <2>3, StepIs
<1>2. CASE UNCHANGED vars
  BY <1>2 DEF vars, Shape, Assigning
<1> QED
  BY <1>1, <1>2 DEF Next

(* A value read earlier counts no more updates than have been made since. *)
LEMMA InRangeStep == Distinct /\ Shape /\ InRange /\ [Next]_vars => InRange'
<1> SUFFICES ASSUME Distinct, Shape, InRange, [Next]_vars PROVE InRange'
  OBVIOUS
<1>a. Cardinality(Finished) \in Nat
  BY FinishedGrows
<1>1. ASSUME NEW w \in Workers, Statement(w) PROVE InRange'
  <2>1. CASE MovesOn(w)
    BY <1>a, <2>1, FinishedGrows DEF MovesOn, Shape, InRange, Assigning
  <2>2. CASE Reads(w)
    <3>1. Finished' = Finished /\ store' = store
      BY <2>2, FinishedGrows DEF Reads
    <3>2. seen'[w] \in 1 .. Cardinality(Finished) + 1
      BY <1>a, <2>2 DEF Reads, Shape, InRange
    <3>3. \A v \in Workers : v # w => (Assigning(v)' <=> Assigning(v)) /\ seen'[v] = seen[v]
      BY <2>2 DEF Reads, Shape, Assigning
    <3> QED
      BY <3>1, <3>2, <3>3 DEF InRange
  <2>3. CASE Writes(w)
    <3>1. seen[w] \in 1 .. Cardinality(Finished) + 1 /\ store'[Global] = seen[w]
      BY <2>3 DEF Writes, Shape, InRange, Assigning, Frames
    <3>2. Cardinality(Finished') = Cardinality(Finished) + 1 /\ Finished' # {}
      BY <2>3, FinishedGrows
    <3>3. \A v \in Workers : Assigning(v)' => Assigning(v) /\ seen'[v] = seen[v]
      BY <2>3 DEF Writes, Shape, Assigning
    <3> QED
      BY <1>a, <3>1, <3>2, <3>3 DEF InRange
  <2> QED
    BY <1>1, <2>1, <2>2, <2>3, StepIs
<1>2. CASE UNCHANGED vars
  BY <1>2 DEF vars, InRange, Finished, Assigning
<1> QED
  BY <1>1, <1>2 DEF Next

(* Undivided, a value is written before another update is made. *)
LEMMA ExactStep == Distinct /\ Shape /\ Exact /\ OneAtATime /\ [Next]_vars => Exact'
<1> SUFFICES ASSUME Distinct, Shape, Exact, OneAtATime, [Next]_vars PROVE Exact'
  OBVIOUS
<1>a. Cardinality(Finished) \in Nat
  BY FinishedGrows
<1>1. ASSUME NEW w \in Workers, Statement(w) PROVE Exact'
  <2>1. CASE MovesOn(w)
    BY <1>a, <2>1, FinishedGrows DEF MovesOn, Shape, Exact, Assigning
  <2>2. CASE Reads(w)
    BY <1>a, <2>2, FinishedGrows DEF Reads, Shape, Exact, Assigning
  <2>3. CASE Writes(w)
    <3>1. store'[Global] = Cardinality(Finished) + 1
      BY <2>3 DEF Writes, Shape, Exact, Assigning, Frames
    <3>2. Cardinality(Finished') = Cardinality(Finished) + 1
      BY <2>3, FinishedGrows
    <3>3. \A v \in Workers : ~Assigning(v)'
      BY <2>3 DEF Writes, Shape, Assigning, OneAtATime, Inside
    <3> QED
      BY <3>1, <3>2, <3>3 DEF Exact
  <2> QED
    BY <1>1, <2>1, <2>2, <2>3, StepIs
<1>2. CASE UNCHANGED vars
  BY <1>2 DEF vars, Exact, Finished, Assigning
<1> QED
  BY <1>1, <1>2 DEF Next

(* At first x is 0 and nobody has updated it. *)
LEMMA Initially == Distinct /\ Init => Shape /\ InRange /\ Exact
<1> SUFFICES ASSUME Distinct, Init PROVE Shape /\ InRange /\ Exact
  OBVIOUS
<1>1. Shape
  BY DEF Init, Distinct, Shape, Frames, Assigning
<1>2. Finished = {} /\ Cardinality(Finished) = 0
  BY FS_EmptySet DEF Init, Finished
<1>3. store[Global] = 0 /\ \A w \in Workers : ~Assigning(w)
  BY DEF Init, Frames, Assigning
<1> QED
  BY <1>1, <1>2, <1>3 DEF InRange, Exact

-----------------------------------------------------------------------------
(* Walking outward frame by frame, one lock after the other, finds the     *)
(* binding that the read has found: no update raises an undefined name or  *)
(* leaves a binding of its own behind, however the workers interleave.     *)
THEOREM UpdateStaysWithItsBinding ==
  ASSUME Distinct
  PROVE  Spec => []NoStrayLet
<1>1. Init => Shape
  BY Initially
<1>2. Shape /\ [Next]_vars => Shape'
  BY ShapeStep
<1>3. Shape => NoStrayLet
  BY DEF Shape, NoStrayLet
<1> QED
  BY <1>1, <1>2, <1>3, PTL DEF Spec

(* Switches inside the statement lose updates and do nothing else: what is *)
(* left counts at least one of them, and none that was not made.           *)
THEOREM LostUpdatesAreBounded ==
  ASSUME Distinct
  PROVE  Spec => []UpdatesInRange
<1>1. Init => Shape /\ InRange
  BY Initially
<1>2. Shape /\ InRange /\ [Next]_vars => (Shape /\ InRange)'
  BY ShapeStep, InRangeStep
<1>3. Shape /\ InRange => UpdatesInRange
  <2> SUFFICES ASSUME Shape, InRange, Workers # {}, \A w \in Workers : pc[w] = "done"
               PROVE  store[Global] \in 1..Cardinality(Workers)
    BY DEF UpdatesInRange
  <2>1. Finished = Workers
    BY DEF Finished
  <2> QED
    BY <2>1, FinishedGrows DEF Shape, InRange
<1> QED
  BY <1>1, <1>2, <1>3, PTL DEF Spec

(* What the comment on SwitchesOnlyAtYields promises is what the program   *)
(* would see if no other worker ran inside the statement: the switches     *)
(* there are the only cause of a lost update.                              *)
THEOREM UndividedUpdatesAreKept ==
  ASSUME Distinct
  PROVE  Spec /\ []OneAtATime => []SwitchesOnlyAtYields
<1>1. Init => Shape /\ Exact
  BY Initially
<1>2. Shape /\ Exact /\ OneAtATime /\ [Next]_vars => (Shape /\ Exact)'
  BY ShapeStep, ExactStep
<1>3. Shape /\ Exact => SwitchesOnlyAtYields
  <2> SUFFICES ASSUME Exact, \A w \in Workers : pc[w] = "done"
               PROVE  store[Global] = Cardinality(Workers)
    BY DEF SwitchesOnlyAtYields
  <2>1. Finished = Workers
    BY DEF Finished
  <2> QED
    BY <2>1 DEF Exact
<1> QED
  BY <1>1, <1>2, <1>3, PTL DEF Spec

=============================================================================
