------------------------- MODULE EnvironmentProofs -------------------------
(***************************************************************************)
(* What scopes promise, however many there are and however they nest.      *)
(*                                                                         *)
(* A lookup walks outwards from scope to scope.  The walk is a recursive   *)
(* function; that it is one, and every fact about where it ends, is proved *)
(* by induction over the scopes, as membership in a set (ScopeInduction).  *)
(***************************************************************************)
EXTENDS Environments, StoreProofs, WellFoundedInduction

\* Induction over the natural numbers, for a set.
LEMMA SetInduction ==
    ASSUME NEW T, 0 \in T, \A n \in Nat : n \in T => n + 1 \in T
    PROVE  Nat \subseteq T
<1> DEFINE R == OpToRel(<, Nat)
           U == Nat \ T
<1> SUFFICES ASSUME U # {} PROVE FALSE
  OBVIOUS
<1>1. PICK m \in U : \A y \in U : ~ (<<y, m>> \in R)
  <2> HIDE DEF R
  <2>1. IsWellFoundedOn(R, Nat)
    BY NatLessThanWellFounded DEF R
  <2>2. U \subseteq Nat
    OBVIOUS
  <2> HIDE DEF U
  <2> QED
    BY <2>1, <2>2, WFMin
<1>2. m \in Nat /\ m # 0 /\ m - 1 \in Nat
  OBVIOUS
<1>3. m - 1 \in U
  BY <1>2
<1>4. <<m - 1, m>> \in R
  BY <1>2 DEF OpToRel
<1> QED
  BY <1>1, <1>3, <1>4

Fields == {"store", "constants", "types", "outer", "sink"}

\* The scope around another is older than it.
WellScoped(s) ==
    /\ "frames" \in DOMAIN s
    /\ IsSequence(s.frames)
    /\ \A e \in DOMAIN s.frames : /\ DOMAIN s.frames[e] = Fields
                                  /\ s.frames[e].outer \in 0..(e - 1)

LEMMA Scopes ==
    ASSUME NEW s, WellScoped(s)
    PROVE  /\ Len(s.frames) \in Nat
           /\ DOMAIN s.frames = 1..Len(s.frames)
           /\ \A e \in DOMAIN s.frames : s.frames[e].outer \in 0..(e - 1)
           /\ \A e \in DOMAIN s.frames : s.frames[e].outer \in 0..Len(s.frames)
<1>1. Len(s.frames) \in Nat /\ DOMAIN s.frames = 1..Len(s.frames)
  BY SequenceFacts DEF WellScoped
<1>2. \A e \in DOMAIN s.frames : s.frames[e].outer \in 0..(e - 1)
  BY DEF WellScoped
<1> QED
  BY <1>1, <1>2

\* Induction over the scopes, from the outermost inwards.
LEMMA ScopeInduction ==
    ASSUME NEW s, WellScoped(s), NEW T, 0 \in T,
           \A e \in DOMAIN s.frames : s.frames[e].outer \in T => e \in T
    PROVE  0..Len(s.frames) \subseteq T
<1> DEFINE U == {m \in Nat : \A e \in 0..Len(s.frames) : e <= m => e \in T}
<1>1. 0 \in U
  BY Scopes
<1>2. ASSUME NEW m \in Nat, m \in U
      PROVE  m + 1 \in U
  <2> SUFFICES ASSUME NEW e \in 0..Len(s.frames), e <= m + 1 PROVE e \in T
    OBVIOUS
  <2>1. CASE e <= m
    BY <1>2, <2>1
  <2>2. CASE e = m + 1
    <3>1. e \in DOMAIN s.frames /\ s.frames[e].outer \in 0..m
      BY <2>2, Scopes
    <3>2. s.frames[e].outer \in 0..Len(s.frames)
      BY <3>1, Scopes
    <3>3. s.frames[e].outer \in T
      BY <1>2, <3>1, <3>2
    <3> QED
      BY <3>1, <3>3
  <2> QED
    BY <2>1, <2>2, Scopes
<1>3. Nat \subseteq U
  <2> HIDE DEF U
  <2> QED
    BY <1>1, <1>2, SetInduction
<1>4. Len(s.frames) \in U
  BY <1>3, Scopes
<1> QED
  BY <1>4, Scopes

-----------------------------------------------------------------------------
(* The walk *)

\* f knows where the walks from the scopes up to n end.
Walks(f, n, found, s) ==
    f = [k \in 0..n |-> IF k = 0 \/ k \in found THEN k
                        ELSE f[s.frames[k].outer]]

LEMMA WalkExists ==
    ASSUME NEW s, NEW found, NEW n \in Nat,
           \A k \in 1..n : s.frames[k].outer \in 0..(k - 1)
    PROVE  \E f : Walks(f, n, found, s)
<1> DEFINE T == {m \in Nat : m <= n => \E f : Walks(f, m, found, s)}
<1>1. 0 \in T
  <2>1. Walks([k \in 0..0 |-> k], 0, found, s)
    BY DEF Walks
  <2> QED
    BY <2>1
<1>2. ASSUME NEW m \in Nat, m \in T
      PROVE  m + 1 \in T
  <2> SUFFICES ASSUME m + 1 <= n PROVE \E f : Walks(f, m + 1, found, s)
    OBVIOUS
  <2>1. PICK f : Walks(f, m, found, s)
    BY <1>2
  <2> DEFINE o == s.frames[m + 1].outer
             g == [k \in 0..(m + 1) |->
                     IF k <= m THEN f[k] ELSE IF k \in found THEN k ELSE f[o]]
  <2>2. ASSUME NEW k \in 0..(m + 1)
        PROVE  g[k] = IF k = 0 \/ k \in found THEN k ELSE g[s.frames[k].outer]
    <3>1. CASE k <= m
      <4>0. k \in 0..m
        BY <3>1
      <4>1. f[k] = IF k = 0 \/ k \in found THEN k ELSE f[s.frames[k].outer]
        <5> HIDE DEF g, o
        <5> QED
          BY <2>1, <4>0 DEF Walks
      <4>2. k # 0 => s.frames[k].outer \in 0..m
        BY <3>1
      <4> HIDE DEF o
      <4> QED
        BY <3>1, <4>1, <4>2
    <3>2. CASE k = m + 1
      <4>1. o \in 0..m
        OBVIOUS
      <4> QED
        BY <3>2, <4>1
    <3> QED
      BY <3>1, <3>2
  <2>3. Walks(g, m + 1, found, s)
    <3>1. g = [k \in 0..(m + 1) |-> g[k]]
      OBVIOUS
    <3> HIDE DEF g
    <3> QED
      BY <2>2, <3>1 DEF Walks
  <2> QED
    BY <2>3
<1>3. Nat \subseteq T
  <2> HIDE DEF T
  <2> QED
    BY <1>1, <1>2, SetInduction
<1> QED
  BY <1>3

\* One step of the walk: what Get, Assign, LookupDeclaredType and
\* NearestYieldSink do with a scope and the one around it.
LEMMA OutwardsStep ==
    ASSUME NEW s, WellScoped(s), NEW found, NEW e \in 0..Len(s.frames)
    PROVE  Outwards(found, e, s) =
               IF e = 0 \/ e \in found THEN e
               ELSE Outwards(found, s.frames[e].outer, s)
<1> DEFINE n == Len(s.frames)
           at[k \in 0..n] == IF k = 0 \/ k \in found THEN k
                             ELSE at[s.frames[k].outer]
<1>1. \E f : Walks(f, n, found, s)
  <2>1. n \in Nat /\ \A k \in 1..n : s.frames[k].outer \in 0..(k - 1)
    BY Scopes
  <2> HIDE DEF n
  <2> QED
    BY <2>1, WalkExists
<1>2. at = [k \in 0..n |-> IF k = 0 \/ k \in found THEN k
                           ELSE at[s.frames[k].outer]]
  BY <1>1 DEF Walks
<1>3. \A k : Outwards(found, k, s) = at[k]
  BY DEF Outwards
<1> HIDE DEF at
<1> QED
  BY <1>2, <1>3

\* The walk ends in the set or nowhere, and never further in.
LEMMA OutwardsEnds ==
    ASSUME NEW s, WellScoped(s), NEW found, NEW e \in 0..Len(s.frames)
    PROVE  /\ Outwards(found, e, s) \in 0..e
           /\ Outwards(found, e, s) \in found \union {0}
<1> DEFINE T == {k \in 0..Len(s.frames) :
                   /\ Outwards(found, k, s) \in 0..k
                   /\ Outwards(found, k, s) \in found \union {0}}
<1>1. 0 \in T
  BY OutwardsStep, Scopes
<1>2. ASSUME NEW k \in DOMAIN s.frames, s.frames[k].outer \in T
      PROVE  k \in T
  <2>1. k \in 0..Len(s.frames) /\ k # 0 /\ s.frames[k].outer \in 0..(k - 1)
    BY Scopes
  <2>2. Outwards(found, k, s) = IF k \in found THEN k
                                ELSE Outwards(found, s.frames[k].outer, s)
    BY <2>1, OutwardsStep
  <2> QED
    BY <1>2, <2>1, <2>2
<1>3. 0..Len(s.frames) \subseteq T
  <2> HIDE DEF T
  <2> QED
    BY <1>1, <1>2, ScopeInduction
<1> QED
  BY <1>3

\* It depends on nothing but the scopes it may pass.
LEMMA OutwardsKept ==
    ASSUME NEW s, WellScoped(s), NEW u, WellScoped(u),
           Len(s.frames) <= Len(u.frames),
           \A k \in DOMAIN s.frames : u.frames[k].outer = s.frames[k].outer,
           NEW found, NEW e \in 0..Len(s.frames), NEW more,
           \A k \in 1..e : k \in more <=> k \in found
    PROVE  Outwards(more, e, u) = Outwards(found, e, s)
<1> DEFINE T == {k \in 0..Len(s.frames) :
                   k <= e => Outwards(more, k, u) = Outwards(found, k, s)}
<1>1. 0 \in T
  BY OutwardsStep, Scopes
<1>2. ASSUME NEW k \in DOMAIN s.frames, s.frames[k].outer \in T
      PROVE  k \in T
  <2>1. /\ k \in 0..Len(s.frames) /\ k # 0 /\ k \in 0..Len(u.frames)
        /\ s.frames[k].outer \in 0..(k - 1)
    BY Scopes
  <2>2. Outwards(found, k, s) = IF k \in found THEN k
                                ELSE Outwards(found, s.frames[k].outer, s)
    BY <2>1, OutwardsStep
  <2>3. Outwards(more, k, u) = IF k \in more THEN k
                               ELSE Outwards(more, s.frames[k].outer, u)
    BY <2>1, OutwardsStep
  <2> QED
    BY <1>2, <2>1, <2>2, <2>3
<1>3. 0..Len(s.frames) \subseteq T
  <2> HIDE DEF T
  <2> QED
    BY <1>1, <1>2, ScopeInduction
<1> QED
  BY <1>3, Scopes

\* Of two sets, one in the other: if the walk to the larger ends in the
\* smaller, the walk to the smaller ends there too.
LEMMA OutwardsNested ==
    ASSUME NEW s, WellScoped(s), NEW found, NEW some \in SUBSET found,
           NEW e \in 0..Len(s.frames), Outwards(found, e, s) \in some
    PROVE  Outwards(some, e, s) = Outwards(found, e, s)
<1> DEFINE T == {k \in 0..Len(s.frames) :
                   Outwards(found, k, s) \in some =>
                     Outwards(some, k, s) = Outwards(found, k, s)}
<1>1. 0 \in T
  BY OutwardsStep, Scopes
<1>2. ASSUME NEW k \in DOMAIN s.frames, s.frames[k].outer \in T
      PROVE  k \in T
  <2>1. k \in 0..Len(s.frames) /\ k # 0
    BY Scopes
  <2>2. /\ Outwards(found, k, s) = IF k \in found THEN k
                                   ELSE Outwards(found, s.frames[k].outer, s)
        /\ Outwards(some, k, s) = IF k \in some THEN k
                                  ELSE Outwards(some, s.frames[k].outer, s)
    BY <2>1, OutwardsStep
  <2> QED
    BY <1>2, <2>1, <2>2
<1>3. 0..Len(s.frames) \subseteq T
  <2> HIDE DEF T
  <2> QED
    BY <1>1, <1>2, ScopeInduction
<1> QED
  BY <1>3

-----------------------------------------------------------------------------
(* What the operations do to the scopes *)

WithFrame(s, e, f) == [s EXCEPT !.frames = With(s.frames, e, f)]

\* u is s with another frame at e, around which nothing changed.
Reframed(e, s, u) ==
    /\ WellScoped(u)
    /\ Len(u.frames) = Len(s.frames)
    /\ \A k \in DOMAIN s.frames : k # e => u.frames[k] = s.frames[k]
    /\ u.frames[e].outer = s.frames[e].outer

LEMMA Reframing ==
    ASSUME NEW s, WellScoped(s), NEW e \in DOMAIN s.frames, NEW f,
           DOMAIN f = Fields, f.outer = s.frames[e].outer,
           NEW u, u = WithFrame(s, e, f)
    PROVE  Reframed(e, s, u) /\ u.frames[e] = f
<1> DEFINE q == With(s.frames, e, f)
<1>1. /\ IsSequence(q)
      /\ Len(q) = Len(s.frames)
      /\ DOMAIN q = DOMAIN s.frames
      /\ \A j \in DOMAIN s.frames : q[j] = IF j = e THEN f ELSE s.frames[j]
  <2>1. /\ IsSequence([s.frames EXCEPT ![e] = f])
        /\ Len([s.frames EXCEPT ![e] = f]) = Len(s.frames)
        /\ DOMAIN [s.frames EXCEPT ![e] = f] = DOMAIN s.frames
        /\ \A j \in DOMAIN s.frames :
             [s.frames EXCEPT ![e] = f][j] = IF j = e THEN f ELSE s.frames[j]
    <3> DEFINE fs == s.frames
    <3>1. IsSequence(fs) /\ e \in DOMAIN fs
      BY DEF WellScoped
    <3> HIDE DEF fs
    <3>2. /\ IsSequence([fs EXCEPT ![e] = f])
          /\ Len([fs EXCEPT ![e] = f]) = Len(fs)
          /\ DOMAIN [fs EXCEPT ![e] = f] = DOMAIN fs
          /\ \A j \in DOMAIN fs :
               [fs EXCEPT ![e] = f][j] = IF j = e THEN f ELSE fs[j]
      BY <3>1, SequenceUpdated, Zenon
    <3> QED
      BY <3>2 DEF fs
  <2> QED
    BY <2>1, Zenon DEF With
<1> HIDE DEF q
<1>2. "frames" \in DOMAIN u /\ u.frames = q
  BY DEF WellScoped, WithFrame, q
<1>3. \A j \in DOMAIN s.frames :
        DOMAIN s.frames[j] = Fields /\ s.frames[j].outer \in 0..(j - 1)
  BY DEF WellScoped
<1> QED
  BY <1>1, <1>2, <1>3 DEF Reframed, WellScoped

\* Set,
LEMMA Setting ==
    ASSUME NEW s, WellScoped(s), NEW e \in DOMAIN s.frames, NEW x, NEW v,
           NEW u, u = Set(x, v, e, s)
    PROVE  /\ Reframed(e, s, u)
           /\ u.frames[e] = [s.frames[e] EXCEPT !.store = Put(x, v, @)]
<1> DEFINE f == [s.frames[e] EXCEPT !.store = Put(x, v, @)]
<1>1. DOMAIN f = Fields /\ f.outer = s.frames[e].outer
  BY DEF WellScoped, Fields
<1>2. u = WithFrame(s, e, f)
  BY DEF Set, With, WithFrame
<1> HIDE DEF f
<1>3. Reframed(e, s, u) /\ u.frames[e] = f
  BY <1>1, <1>2, Reframing
<1> QED
  BY <1>3 DEF f

\* a second change to the frame of e,
LEMMA ReframedTwice ==
    ASSUME NEW s, NEW e \in DOMAIN s.frames, NEW t, NEW u,
           WellScoped(s), Reframed(e, s, t), Reframed(e, t, u)
    PROVE  Reframed(e, s, u)
<1>1. DOMAIN t.frames = DOMAIN s.frames
  BY Scopes DEF Reframed
<1> QED
  BY <1>1 DEF Reframed

\* what SetConst leaves,
LEMMA SettingConst ==
    ASSUME NEW s, WellScoped(s), NEW e \in DOMAIN s.frames, NEW x, NEW v,
           NEW u, u = SetConst(x, v, e, s)
    PROVE  /\ Reframed(e, s, u)
           /\ u.frames[e].store = Put(x, v, s.frames[e].store)
           /\ u.frames[e].constants = s.frames[e].constants \union {x}
           /\ u.frames[e].types = s.frames[e].types
<1> DEFINE m == Set(x, v, e, s)
           f == [m.frames[e] EXCEPT !.constants = @ \union {x}]
<1>1. /\ Reframed(e, s, m)
      /\ m.frames[e] = [s.frames[e] EXCEPT !.store = Put(x, v, @)]
  BY Setting
<1>2. u = WithFrame(m, e, f)
  <2> HIDE DEF m
  <2>1. u = [m EXCEPT !.frames[e].constants = @ \union {x}]
    BY DEF SetConst, m
  <2> QED
    BY <2>1 DEF With, WithFrame
<1> HIDE DEF m
<1>3. e \in DOMAIN m.frames /\ DOMAIN m.frames[e] = Fields /\ WellScoped(m)
  BY <1>1, Scopes DEF Reframed, WellScoped
<1>4. DOMAIN f = Fields /\ f.outer = m.frames[e].outer
  BY <1>3 DEF Fields
<1>5. Reframed(e, m, u) /\ u.frames[e] = f
  <2> HIDE DEF f
  <2> QED
    BY <1>2, <1>3, <1>4, Reframing
<1>6. Reframed(e, s, u)
  BY <1>1, <1>5, ReframedTwice
<1> QED
  BY <1>1, <1>3, <1>5, <1>6 DEF Fields, WellScoped

\* and what a typed let leaves.
LEMMA DeclaringTyped ==
    ASSUME NEW s, WellScoped(s), NEW e \in DOMAIN s.frames, NEW x, NEW v,
           NEW ann, NEW u, u = DeclareType(x, ann, e, Set(x, v, e, s))
    PROVE  /\ Reframed(e, s, u)
           /\ u.frames[e].store = Put(x, v, s.frames[e].store)
           /\ u.frames[e].constants = s.frames[e].constants
           /\ u.frames[e].types = Put(x, ann, s.frames[e].types)
<1> DEFINE m == Set(x, v, e, s)
           f == [m.frames[e] EXCEPT !.types = Put(x, ann, @)]
<1>1. /\ Reframed(e, s, m)
      /\ m.frames[e] = [s.frames[e] EXCEPT !.store = Put(x, v, @)]
  BY Setting
<1>2. u = WithFrame(m, e, f)
  <2> HIDE DEF m
  <2>1. u = [m EXCEPT !.frames[e].types = Put(x, ann, @)]
    BY DEF DeclareType, m
  <2> QED
    BY <2>1 DEF With, WithFrame
<1> HIDE DEF m
<1>3. e \in DOMAIN m.frames /\ DOMAIN m.frames[e] = Fields /\ WellScoped(m)
  BY <1>1, Scopes DEF Reframed, WellScoped
<1>4. DOMAIN f = Fields /\ f.outer = m.frames[e].outer
  BY <1>3 DEF Fields
<1>5. Reframed(e, m, u) /\ u.frames[e] = f
  <2> HIDE DEF f
  <2> QED
    BY <1>2, <1>3, <1>4, Reframing
<1>6. Reframed(e, s, u)
  BY <1>1, <1>5, ReframedTwice
<1> QED
  BY <1>1, <1>3, <1>5, <1>6 DEF Fields, WellScoped


\* A scope's yield sink changes nothing else.
LEMMA SettingSink ==
    ASSUME NEW s, WellScoped(s), NEW e \in DOMAIN s.frames, NEW n,
           NEW u, u = SetSink(n, e, s)
    PROVE  /\ Reframed(e, s, u)
           /\ u.frames[e] = [s.frames[e] EXCEPT !.sink = n]
<1> DEFINE f == [s.frames[e] EXCEPT !.sink = n]
<1>1. DOMAIN f = Fields /\ f.outer = s.frames[e].outer
  BY DEF WellScoped, Fields
<1>2. u = WithFrame(s, e, f)
  BY DEF SetSink, With, WithFrame
<1> HIDE DEF f
<1>3. Reframed(e, s, u) /\ u.frames[e] = f
  BY <1>1, <1>2, Reframing
<1> QED
  BY <1>3 DEF f

\* A new scope is younger than the one around it.
LEMMA Enclosing ==
    ASSUME NEW s, WellScoped(s), NEW o \in 0..Len(s.frames),
           NEW u, u = NewEnclosed(o, s)
    PROVE  /\ WellScoped(u)
           /\ Len(u.frames) = Len(s.frames) + 1
           /\ \A k \in DOMAIN s.frames : u.frames[k] = s.frames[k]
           /\ u.frames[Len(s.frames) + 1] = NewFrame(o)
<1> DEFINE fs == s.frames
           q == Append(fs, NewFrame(o))
<1>1. "frames" \in DOMAIN u /\ u.frames = q
  BY DEF NewEnclosed, WellScoped
<1>2. IsSequence(fs)
  BY DEF WellScoped
<1>3. /\ IsSequence(q)
      /\ Len(q) = Len(fs) + 1
      /\ \A k \in DOMAIN fs : q[k] = fs[k]
      /\ q[Len(fs) + 1] = NewFrame(o)
  <2> HIDE DEF fs
  <2> QED
    BY <1>2, SequenceAppended
<1>4. Len(fs) \in Nat /\ DOMAIN fs = 1..Len(fs) /\ DOMAIN q = 1..Len(q)
  <2> HIDE DEF fs, q
  <2> QED
    BY <1>2, <1>3, SequenceFacts
<1>5. DOMAIN NewFrame(o) = Fields /\ NewFrame(o).outer = o
  BY DEF NewFrame, Fields
<1>6. \A k \in DOMAIN fs : DOMAIN fs[k] = Fields /\ fs[k].outer \in 0..(k - 1)
  BY DEF WellScoped
<1>7. \A k \in DOMAIN q : DOMAIN q[k] = Fields /\ q[k].outer \in 0..(k - 1)
  <2> HIDE DEF q, fs
  <2>1. SUFFICES ASSUME NEW k \in DOMAIN q
        PROVE  DOMAIN q[k] = Fields /\ q[k].outer \in 0..(k - 1)
    OBVIOUS
  <2>2. CASE k = Len(fs) + 1
    BY <1>3, <1>4, <1>5, <2>2 DEF fs
  <2>3. CASE k # Len(fs) + 1
    <3>1. k \in DOMAIN fs
      BY <1>3, <1>4, <2>3
    <3> QED
      BY <1>3, <1>6, <3>1
  <2> QED
    BY <2>2, <2>3
<1> HIDE DEF q
<1> QED
  BY <1>1, <1>3, <1>7 DEF WellScoped

-----------------------------------------------------------------------------
(* Where names are found *)

\* The scope a name is found in binds it, or is none.
LEMMA FoundWhereBound ==
    ASSUME NEW s, WellScoped(s), NEW e \in 0..Len(s.frames), NEW x
    PROVE  /\ ScopeOf(x, e, s) \in 0..e
           /\ ScopeOf(x, e, s) # 0 =>
                /\ ScopeOf(x, e, s) \in DOMAIN s.frames
                /\ x \in DOMAIN s.frames[ScopeOf(x, e, s)].store
           /\ e # 0 /\ x \in DOMAIN s.frames[e].store => ScopeOf(x, e, s) = e
<1> DEFINE w == ScopeOf(x, e, s)
<1>1. w \in 0..e /\ w \in Binding(x, s) \union {0}
  BY OutwardsEnds DEF ScopeOf
<1>2. e # 0 /\ x \in DOMAIN s.frames[e].store => w = e
  <2>1. SUFFICES ASSUME e # 0, x \in DOMAIN s.frames[e].store PROVE w = e
    OBVIOUS
  <2>2. e \in Binding(x, s)
    BY <2>1, Scopes DEF Binding
  <2> QED
    BY <2>2, OutwardsStep DEF ScopeOf
<1> QED
  BY <1>1, <1>2 DEF Binding

\* ... and the frame at e binds the names it did.
Rewritten(e, s, u) ==
    /\ Reframed(e, s, u)
    /\ DOMAIN u.frames[e].store = DOMAIN s.frames[e].store

\* A binding changes hands in no scope but the one it is made in: a write to
\* a name that its scope binds leaves every name found where it was.
LEMMA FoundAsBefore ==
    ASSUME NEW s, WellScoped(s), NEW e \in DOMAIN s.frames, NEW u,
           Rewritten(e, s, u), NEW k \in 0..Len(s.frames), NEW y
    PROVE  ScopeOf(y, k, u) = ScopeOf(y, k, s)
<1>1. /\ WellScoped(u) /\ Len(s.frames) <= Len(u.frames)
      /\ \A j \in DOMAIN s.frames : u.frames[j].outer = s.frames[j].outer
      /\ DOMAIN u.frames = DOMAIN s.frames
  <2>1. WellScoped(u) /\ Len(u.frames) = Len(s.frames)
    BY DEF Reframed, Rewritten
  <2>2. DOMAIN u.frames = DOMAIN s.frames
    BY <2>1, Scopes
  <2>3. \A j \in DOMAIN s.frames : u.frames[j].outer = s.frames[j].outer
    BY DEF Reframed, Rewritten
  <2> QED
    BY <2>1, <2>2, <2>3, Scopes
<1>2. \A j \in DOMAIN s.frames :
        DOMAIN u.frames[j].store = DOMAIN s.frames[j].store
  BY DEF Reframed, Rewritten
<1>3. Binding(y, u) = Binding(y, s)
  BY <1>1, <1>2 DEF Binding
<1> QED
  BY <1>1, <1>3, OutwardsKept DEF ScopeOf

-----------------------------------------------------------------------------
(* Shared bindings *)

\* What an assignment does to the variables of a program: the scopes that see
\* the variable assigned to see the new value, whichever of them assigned it;
\* of every other variable, an equally named one of another scope among them,
\* each scope sees what it saw (closures share the variables they captured,
\* and nothing else).
THEOREM AssignmentIsShared ==
    ASSUME NEW s, WellScoped(s), NEW e \in DOMAIN s.frames, NEW x, NEW v,
           CanAssign(x, e, s),
           NEW k \in DOMAIN s.frames, NEW y, Bound(y, k, s)
    PROVE  LET u == assignName(x, v, e, s).st
           IN  /\ Bound(y, k, u)
               /\ Get(y, k, u) =
                    IF y = x /\ ScopeOf(x, k, s) = ScopeOf(x, e, s) THEN v
                    ELSE Get(y, k, s)
<1> DEFINE u == assignName(x, v, e, s).st
           w == ScopeOf(x, e, s)
           z == ScopeOf(y, k, s)
<1>1. u = Set(x, v, w, s)
  BY DEF assignName, Ret, Assign
<1>2. w \in DOMAIN s.frames /\ x \in DOMAIN s.frames[w].store
  BY FoundWhereBound, Scopes DEF CanAssign, Bound
<1>3. z # 0 /\ z \in DOMAIN s.frames /\ y \in DOMAIN s.frames[z].store
  BY FoundWhereBound, Scopes DEF Bound
<1>4. /\ Reframed(w, s, u)
      /\ u.frames[w] = [s.frames[w] EXCEPT !.store = Put(x, v, @)]
  <2> HIDE DEF u, w
  <2> QED
    BY <1>1, <1>2, Setting
<1>5. u.frames[w].store = Put(x, v, s.frames[w].store)
  <2> HIDE DEF u, w
  <2> QED
    BY <1>2, <1>4 DEF WellScoped, Fields
<1>6. DOMAIN u.frames[w].store = DOMAIN s.frames[w].store
  <2> HIDE DEF u, w
  <2> QED
    BY <1>2, <1>5 DEF Put
<1>7. ScopeOf(y, k, u) = z
  <2>1. k \in 0..Len(s.frames)
    BY Scopes
  <2> HIDE DEF u, w, z
  <2>2. ScopeOf(y, k, u) = ScopeOf(y, k, s)
    <3>1. w \in DOMAIN s.frames /\ Rewritten(w, s, u)
      BY <1>2, <1>4, <1>6 DEF Rewritten
    <3> QED
      BY <2>1, <3>1, FoundAsBefore
  <2> QED
    BY <2>2 DEF z
<1>8. Get(y, k, u) = u.frames[z].store[y] /\ Get(y, k, s) = s.frames[z].store[y]
  <2> HIDE DEF u
  <2> QED
    BY <1>7 DEF Get
<1>9. u.frames[z].store[y] =
        IF y = x /\ z = w THEN v ELSE s.frames[z].store[y]
  <2> HIDE DEF u, w, z
  <2>1. CASE z = w
    BY <1>3, <1>5, <2>1 DEF Put
  <2>2. CASE z # w
    BY <1>3, <1>4, <2>2 DEF Reframed
  <2> QED
    BY <2>1, <2>2
<1>10. Bound(y, k, u)
  <2> HIDE DEF u
  <2> QED
    BY <1>3, <1>7 DEF Bound
<1>11. y = x => (z = w <=> ScopeOf(x, k, s) = ScopeOf(x, e, s))
  OBVIOUS
<1> HIDE DEF u, w, z
<1>12. /\ Bound(y, k, u)
       /\ Get(y, k, u) =
            IF y = x /\ ScopeOf(x, k, s) = ScopeOf(x, e, s) THEN v
            ELSE Get(y, k, s)
  BY <1>8, <1>9, <1>10, <1>11
<1> QED
  BY <1>12 DEF u


-----------------------------------------------------------------------------
(* Declared types and yield sinks *)

\* Types and constants are those of names the scope binds.
DeclaredAreBound(s) ==
    \A e \in DOMAIN s.frames :
        /\ DOMAIN s.frames[e].types \subseteq DOMAIN s.frames[e].store
        /\ s.frames[e].constants \subseteq DOMAIN s.frames[e].store

\* evalAssignExpression looks for the declared type and for the scope to
\* write to in two walks of their own.  If the scope written to declares a
\* type for the name, that is the type the first walk found: no assignment
\* escapes the check of the variable it writes to.
THEOREM CheckedAgainstItsType ==
    ASSUME NEW s, WellScoped(s), DeclaredAreBound(s),
           NEW e \in 0..Len(s.frames), NEW x, Bound(x, e, s),
           x \in DOMAIN s.frames[ScopeOf(x, e, s)].types
    PROVE  LookupDeclaredType(x, e, s) = s.frames[ScopeOf(x, e, s)].types[x]
<1> DEFINE w == ScopeOf(x, e, s)
<1>1. w \in DOMAIN s.frames /\ w # 0
  BY FoundWhereBound DEF Bound
<1>2. Declaring(x, s) \in SUBSET Binding(x, s)
  BY DEF Declaring, Binding, DeclaredAreBound
<1>3. w \in Declaring(x, s)
  BY <1>1 DEF Declaring
<1>4. Outwards(Declaring(x, s), e, s) = w
  <2>1. Outwards(Binding(x, s), e, s) \in Declaring(x, s)
    BY <1>3 DEF ScopeOf
  <2> QED
    BY <1>2, <2>1, OutwardsNested DEF ScopeOf
<1> HIDE DEF w
<1>5. LookupDeclaredType(x, e, s) = s.frames[w].types[x]
  BY <1>1, <1>4 DEF LookupDeclaredType
<1> QED
  BY <1>5 DEF w

\* A call's yields go to a sink of the call's own scope: while it is
\* installed and after it is removed, every older scope (its callers' are)
\* collects where it did.
THEOREM CallersKeepTheirSinks ==
    ASSUME NEW s, WellScoped(s), NEW e \in DOMAIN s.frames, NEW sink,
           NEW k \in 0..(e - 1)
    PROVE  NearestYieldSink(k, SetSink(sink, e, s)) = NearestYieldSink(k, s)
<1> DEFINE u == SetSink(sink, e, s)
<1>1. /\ Reframed(e, s, u)
      /\ \A j \in DOMAIN s.frames : j # e => u.frames[j] = s.frames[j]
  <2>1. Reframed(e, s, u)
    BY SettingSink
  <2> HIDE DEF u
  <2> QED
    BY <2>1 DEF Reframed
<1> HIDE DEF u
<1>2. /\ DOMAIN u.frames = DOMAIN s.frames
      /\ WellScoped(u)
      /\ Len(s.frames) <= Len(u.frames)
      /\ k \in 0..Len(s.frames)
      /\ 1..k \subseteq DOMAIN s.frames
  <2>1. WellScoped(u) /\ Len(u.frames) = Len(s.frames)
    BY <1>1 DEF Reframed
  <2> QED
    BY <2>1, Scopes
<1>3. \A j \in DOMAIN s.frames : u.frames[j].outer = s.frames[j].outer
  BY <1>1 DEF Reframed
<1>4. \A j \in 1..k : j \in Collecting(u) <=> j \in Collecting(s)
  <2>1. \A j \in 1..k : u.frames[j] = s.frames[j]
    BY <1>1, <1>2
  <2> QED
    BY <1>2, <2>1 DEF Collecting
<1> DEFINE w == Outwards(Collecting(s), k, s)
<1>5. Outwards(Collecting(u), k, u) = w
  <2> DEFINE found == Collecting(s)
             more == Collecting(u)
  <2> HIDE DEF found, more
  <2>1. \A j \in 1..k : j \in more <=> j \in found
    BY <1>4 DEF found, more
  <2>2. Outwards(more, k, u) = Outwards(found, k, s)
    BY <1>2, <1>3, <2>1, OutwardsKept
  <2> QED
    BY <2>2 DEF found, more
<1>6. w \in 0..k
  BY <1>2, OutwardsEnds
<1>7. w # 0 => u.frames[w] = s.frames[w]
  <2> HIDE DEF w
  <2> QED
    BY <1>1, <1>2, <1>6
<1> HIDE DEF w
<1>8. NearestYieldSink(k, u) = NearestYieldSink(k, s)
  BY <1>5, <1>7 DEF NearestYieldSink, w
<1> QED
  BY <1>8 DEF u


-----------------------------------------------------------------------------
(* Every sequence of operations *)

CONSTANTS Names,       \* the names of a program
          Values,      \* the values it computes, each with its Go type t
          Annotations, \* the types it writes
          Allowed      \* <<ann, t>>: values of Go type t are of type ann

\* Of the annotations, those that are made of built-in names: whether they
\* hold depends on the value's Go type only (builtinAnnotationChecks).
OfType(ann, v) == <<ann, v.t>> \in Allowed

\* A declaration of a name the scope has no constant and no typed variable
\* of: neither let nor a pattern, parameter or loop variable looks, and would
\* replace the value of either.
Anew(x, e, s) ==
    x \notin s.frames[e].constants /\ x \notin DOMAIN s.frames[e].types

Enclose(s, u) == \E o \in 0..Len(s.frames) : u = NewEnclosed(o, s)

Let(s, u) == \E e \in DOMAIN s.frames, x \in Names, v \in Values :
                 Anew(x, e, s) /\ u = Set(x, v, e, s)

Const(s, u) == \E e \in DOMAIN s.frames, x \in Names, v \in Values :
                   Anew(x, e, s) /\ u = SetConst(x, v, e, s)

\* evalTypedLetStatement; a typed name may be declared again.
TypedLet(s, u) ==
    \E e \in DOMAIN s.frames, x \in Names, v \in Values,
       ann \in Annotations \ {None} :
        /\ x \notin s.frames[e].constants
        /\ OfType(ann, v)
        /\ u = DeclareType(x, ann, e, Set(x, v, e, s))

\* evalAssignExpression
AssignChecked(s, u) ==
    \E e \in DOMAIN s.frames, x \in Names, v \in Values :
        LET ann == LookupDeclaredType(x, e, s)
        IN  /\ ann = None \/ OfType(ann, v)
            /\ u = assignName(x, v, e, s).st

\* evalPostfixExpression on a name, which looks up no declared type
Increment(s, u) ==
    \E e \in DOMAIN s.frames, x \in Names, d \in {-1, 1} :
        /\ CanAssign(x, e, s)
        /\ Get(x, e, s).t = "INTEGER"
        /\ u = Assign(x, Integer(Get(x, e, s).int + d), e, s)

Sink(s, u) == \E e \in DOMAIN s.frames, sink \in Nat : u = SetSink(sink, e, s)

ScopeOperation(s, u) ==
    \/ Enclose(s, u) \/ Let(s, u) \/ Const(s, u) \/ TypedLet(s, u)
    \/ AssignChecked(s, u) \/ Increment(s, u) \/ Sink(s, u)

\* The value of a typed name is of its type.
TypesHold(s) ==
    \A e \in DOMAIN s.frames : \A x \in DOMAIN s.frames[e].types :
        /\ s.frames[e].types[x] # None
        /\ OfType(s.frames[e].types[x], s.frames[e].store[x])

ScopesOK(s) == WellScoped(s) /\ DeclaredAreBound(s) /\ TypesHold(s)

ConstantsKept(s, u) ==
    \A e \in DOMAIN s.frames : \A x \in s.frames[e].constants :
        /\ x \in u.frames[e].constants
        /\ u.frames[e].store[x] = s.frames[e].store[x]

\* What a change to the frame f leaves in it, g.
Keeps(f, g) ==
    /\ DOMAIN g.types \subseteq DOMAIN g.store
    /\ g.constants \subseteq DOMAIN g.store
    /\ \A x \in DOMAIN g.types :
         g.types[x] # None /\ OfType(g.types[x], g.store[x])
    /\ \A x \in f.constants : x \in g.constants /\ g.store[x] = f.store[x]

LEMMA OneFrame ==
    ASSUME NEW s, ScopesOK(s), NEW e \in DOMAIN s.frames,
           NEW u, Reframed(e, s, u), Keeps(s.frames[e], u.frames[e])
    PROVE  ScopesOK(u) /\ ConstantsKept(s, u)
<1>1. WellScoped(s) /\ DeclaredAreBound(s) /\ TypesHold(s)
  BY DEF ScopesOK
<1>2. /\ DOMAIN u.frames = DOMAIN s.frames
      /\ \A k \in DOMAIN s.frames : k # e => u.frames[k] = s.frames[k]
      /\ WellScoped(u)
  BY <1>1, Scopes DEF Reframed
<1> DEFINE f == s.frames[e]
           g == u.frames[e]
<1>3. Keeps(f, g)
  OBVIOUS
<1> HIDE DEF f, g
<1>4. DeclaredAreBound(u)
  BY <1>1, <1>2, <1>3 DEF DeclaredAreBound, Keeps, g
<1>5. TypesHold(u)
  BY <1>1, <1>2, <1>3 DEF TypesHold, Keeps, g
<1>6. ConstantsKept(s, u)
  BY <1>2, <1>3 DEF ConstantsKept, Keeps, f, g
<1> QED
  BY <1>2, <1>4, <1>5, <1>6 DEF ScopesOK

\* x bound to v in the frame f, where it is no constant: the value fits the
\* type the scope then has for x, and x may be a constant from then on.
Rebinds(x, v, f, g) ==
    /\ x \notin f.constants
    /\ g.store = Put(x, v, f.store)
    /\ g.constants \in {f.constants, f.constants \union {x}}
    /\ DOMAIN g.types \subseteq DOMAIN f.types \union {x}
    /\ \A y \in DOMAIN g.types :
         IF y = x THEN g.types[y] # None /\ OfType(g.types[y], v)
         ELSE g.types[y] = f.types[y]

LEMMA OneBinding ==
    ASSUME NEW s, ScopesOK(s), NEW e \in DOMAIN s.frames, NEW x, NEW v,
           NEW u, Reframed(e, s, u), Rebinds(x, v, s.frames[e], u.frames[e])
    PROVE  ScopesOK(u) /\ ConstantsKept(s, u)
<1> DEFINE f == s.frames[e]
           g == u.frames[e]
<1>1. /\ DOMAIN f.types \subseteq DOMAIN f.store
      /\ f.constants \subseteq DOMAIN f.store
      /\ \A y \in DOMAIN f.types :
           f.types[y] # None /\ OfType(f.types[y], f.store[y])
  BY DEF ScopesOK, DeclaredAreBound, TypesHold
<1>2. /\ DOMAIN g.store = DOMAIN f.store \union {x}
      /\ \A y \in DOMAIN f.store \union {x} :
           g.store[y] = IF y = x THEN v ELSE f.store[y]
  <2> HIDE DEF f
  <2>1. g.store = Put(x, v, f.store)
    BY DEF f, Rebinds
  <2> HIDE DEF g
  <2> QED
    BY <2>1 DEF Put
<1>3. /\ g.constants \in {f.constants, f.constants \union {x}}
      /\ x \notin f.constants
      /\ DOMAIN g.types \subseteq DOMAIN f.types \union {x}
      /\ \A y \in DOMAIN g.types :
           IF y = x THEN g.types[y] # None /\ OfType(g.types[y], v)
           ELSE g.types[y] = f.types[y]
  <2>1. Rebinds(x, v, f, g)
    OBVIOUS
  <2> HIDE DEF f, g
  <2> QED
    BY <2>1 DEF Rebinds
<1>4. Keeps(f, g)
  <2> HIDE DEF f, g
  <2>1. /\ DOMAIN g.types \subseteq DOMAIN g.store
        /\ g.constants \subseteq DOMAIN g.store
    BY <1>1, <1>2, <1>3
  <2>2. \A y \in DOMAIN g.types :
          g.types[y] # None /\ OfType(g.types[y], g.store[y])
    BY <1>1, <1>2, <1>3
  <2>3. \A y \in f.constants : y \in g.constants /\ g.store[y] = f.store[y]
    BY <1>1, <1>2, <1>3
  <2> QED
    BY <2>1, <2>2, <2>3 DEF Keeps
<1> QED
  BY <1>4, OneFrame

\* Set, where the value fits the name's type if the scope has one.
LEMMA OneSet ==
    ASSUME NEW s, ScopesOK(s), NEW e \in DOMAIN s.frames, NEW x, NEW v,
           x \notin s.frames[e].constants,
           x \in DOMAIN s.frames[e].types => OfType(s.frames[e].types[x], v),
           NEW u, u = Set(x, v, e, s)
    PROVE  ScopesOK(u) /\ ConstantsKept(s, u)
<1>1. WellScoped(s) /\ TypesHold(s)
  BY DEF ScopesOK
<1>2. /\ Reframed(e, s, u)
      /\ u.frames[e] = [s.frames[e] EXCEPT !.store = Put(x, v, @)]
  BY <1>1, Setting
<1>3. /\ u.frames[e].store = Put(x, v, s.frames[e].store)
      /\ u.frames[e].constants = s.frames[e].constants
      /\ u.frames[e].types = s.frames[e].types
  BY <1>1, <1>2 DEF Fields, WellScoped
<1>4. \A y \in DOMAIN s.frames[e].types :
        IF y = x
        THEN s.frames[e].types[y] # None /\ OfType(s.frames[e].types[y], v)
        ELSE TRUE
  BY <1>1 DEF TypesHold
<1>5. Rebinds(x, v, s.frames[e], u.frames[e])
  BY <1>3, <1>4 DEF Rebinds
<1> QED
  BY <1>2, <1>5, OneBinding

LEMMA OneConst ==
    ASSUME NEW s, ScopesOK(s), NEW e \in DOMAIN s.frames, NEW x, NEW v,
           Anew(x, e, s), NEW u, u = SetConst(x, v, e, s)
    PROVE  ScopesOK(u) /\ ConstantsKept(s, u)
<1>1. WellScoped(s)
  BY DEF ScopesOK
<1>2. /\ Reframed(e, s, u)
      /\ u.frames[e].store = Put(x, v, s.frames[e].store)
      /\ u.frames[e].constants = s.frames[e].constants \union {x}
      /\ u.frames[e].types = s.frames[e].types
  BY <1>1, SettingConst
<1>3. Rebinds(x, v, s.frames[e], u.frames[e])
  <2> DEFINE f == s.frames[e]
             g == u.frames[e]
  <2>1. /\ x \notin f.constants /\ x \notin DOMAIN f.types
        /\ g.store = Put(x, v, f.store)
        /\ g.constants = f.constants \union {x}
        /\ g.types = f.types
    BY <1>2 DEF Anew
  <2> HIDE DEF f, g
  <2>2. Rebinds(x, v, f, g)
    BY <2>1 DEF Rebinds
  <2> QED
    BY <2>2 DEF f, g
<1> QED
  BY <1>2, <1>3, OneBinding

LEMMA OneTyped ==
    ASSUME NEW s, ScopesOK(s), NEW e \in DOMAIN s.frames, NEW x, NEW v,
           x \notin s.frames[e].constants, NEW ann, ann # None, OfType(ann, v),
           NEW u, u = DeclareType(x, ann, e, Set(x, v, e, s))
    PROVE  ScopesOK(u) /\ ConstantsKept(s, u)
<1>1. WellScoped(s)
  BY DEF ScopesOK
<1>2. /\ Reframed(e, s, u)
      /\ u.frames[e].store = Put(x, v, s.frames[e].store)
      /\ u.frames[e].constants = s.frames[e].constants
      /\ u.frames[e].types = Put(x, ann, s.frames[e].types)
  BY <1>1, DeclaringTyped
<1>3. /\ DOMAIN u.frames[e].types = DOMAIN s.frames[e].types \union {x}
      /\ \A y \in DOMAIN u.frames[e].types :
           u.frames[e].types[y] = IF y = x THEN ann ELSE s.frames[e].types[y]
  BY <1>2 DEF Put
<1>4. Rebinds(x, v, s.frames[e], u.frames[e])
  BY <1>2, <1>3 DEF Rebinds
<1> QED
  BY <1>2, <1>4, OneBinding

\* An assignment in the scope that binds the name, of a value that fits the
\* type the scope has for it.
LEMMA OneAssign ==
    ASSUME NEW s, ScopesOK(s), NEW e \in DOMAIN s.frames, NEW x, NEW v,
           CanAssign(x, e, s),
           x \in DOMAIN s.frames[ScopeOf(x, e, s)].types
               => OfType(s.frames[ScopeOf(x, e, s)].types[x], v),
           NEW u, u = Assign(x, v, e, s)
    PROVE  ScopesOK(u) /\ ConstantsKept(s, u)
<1> DEFINE w == ScopeOf(x, e, s)
<1>1. w \in DOMAIN s.frames
  BY FoundWhereBound, Scopes DEF CanAssign, Bound, ScopesOK
<1>2. /\ u = Set(x, v, w, s)
      /\ x \notin s.frames[w].constants
      /\ x \in DOMAIN s.frames[w].types => OfType(s.frames[w].types[x], v)
  BY DEF Assign, CanAssign
<1> HIDE DEF w
<1> QED
  BY <1>1, <1>2, OneSet

LEMMA OneAssignChecked ==
    ASSUME NEW s, ScopesOK(s), NEW e \in DOMAIN s.frames, NEW x, NEW v,
           LookupDeclaredType(x, e, s) = None
             \/ OfType(LookupDeclaredType(x, e, s), v),
           NEW u, u = assignName(x, v, e, s).st
    PROVE  ScopesOK(u) /\ ConstantsKept(s, u)
<1> DEFINE w == ScopeOf(x, e, s)
<1>1. WellScoped(s) /\ DeclaredAreBound(s) /\ TypesHold(s)
  BY DEF ScopesOK
<1>2. e \in 0..Len(s.frames) /\ e # 0
  BY <1>1, Scopes
<1>3. CASE CanAssign(x, e, s)
  <2>1. u = Assign(x, v, e, s)
    BY <1>3 DEF assignName, Ret
  <2>2. Bound(x, e, s)
    BY <1>3 DEF CanAssign
  <2>3. w \in DOMAIN s.frames
    BY <1>1, <1>2, <2>2, FoundWhereBound DEF Bound
  <2>4. ASSUME x \in DOMAIN s.frames[w].types
        PROVE  OfType(s.frames[w].types[x], v)
    <3>1. LookupDeclaredType(x, e, s) = s.frames[w].types[x]
      BY <1>1, <1>2, <2>2, <2>4, CheckedAgainstItsType
    <3>2. s.frames[w].types[x] # None
      BY <1>1, <2>3, <2>4 DEF TypesHold
    <3> QED
      BY <3>1, <3>2
  <2> QED
    BY <1>3, <2>1, <2>4, OneAssign
<1>4. CASE ~CanAssign(x, e, s) /\ Bound(x, e, s)
  <2>1. u = s
    BY <1>4 DEF assignName, newError, Ret
  <2> QED
    BY <2>1 DEF ConstantsKept
<1>5. CASE ~Bound(x, e, s)
  <2>1. u = Set(x, v, e, s)
    BY <1>5 DEF assignName, Ret, CanAssign
  <2>2. x \notin DOMAIN s.frames[e].store
    BY <1>1, <1>2, <1>5, FoundWhereBound DEF Bound
  <2>3. x \notin s.frames[e].constants /\ x \notin DOMAIN s.frames[e].types
    BY <1>1, <2>2 DEF DeclaredAreBound
  <2> QED
    BY <2>1, <2>3, OneSet
<1> QED
  BY <1>3, <1>4, <1>5

LEMMA OneIncrement ==
    ASSUME NEW s, ScopesOK(s), NEW e \in DOMAIN s.frames, NEW x, NEW i,
           CanAssign(x, e, s), Get(x, e, s).t = "INTEGER",
           NEW u, u = Assign(x, Integer(i), e, s)
    PROVE  ScopesOK(u) /\ ConstantsKept(s, u)
<1> DEFINE w == ScopeOf(x, e, s)
<1>1. w \in DOMAIN s.frames
  BY FoundWhereBound, Scopes DEF CanAssign, Bound, ScopesOK
<1>2. s.frames[w].store[x].t = Integer(i).t
  BY DEF Get, Integer
<1>3. x \in DOMAIN s.frames[w].types
        => OfType(s.frames[w].types[x], Integer(i))
  <2> HIDE DEF w
  <2> QED
    BY <1>1, <1>2 DEF OfType, ScopesOK, TypesHold
<1> QED
  BY <1>3, OneAssign

LEMMA OneSink ==
    ASSUME NEW s, ScopesOK(s), NEW e \in DOMAIN s.frames, NEW n,
           NEW u, u = SetSink(n, e, s)
    PROVE  ScopesOK(u) /\ ConstantsKept(s, u)
<1>1. WellScoped(s) /\ DeclaredAreBound(s) /\ TypesHold(s)
  BY DEF ScopesOK
<1>2. /\ Reframed(e, s, u)
      /\ u.frames[e] = [s.frames[e] EXCEPT !.sink = n]
  BY <1>1, SettingSink
<1>3. /\ u.frames[e].store = s.frames[e].store
      /\ u.frames[e].constants = s.frames[e].constants
      /\ u.frames[e].types = s.frames[e].types
  BY <1>1, <1>2 DEF Fields, WellScoped
<1>4. Keeps(s.frames[e], u.frames[e])
  BY <1>1, <1>3 DEF Keeps, DeclaredAreBound, TypesHold
<1> QED
  BY <1>2, <1>4, OneFrame

LEMMA OneScope ==
    ASSUME NEW s, ScopesOK(s), NEW o \in 0..Len(s.frames),
           NEW u, u = NewEnclosed(o, s)
    PROVE  ScopesOK(u) /\ ConstantsKept(s, u)
<1>1. WellScoped(s) /\ DeclaredAreBound(s) /\ TypesHold(s)
  BY DEF ScopesOK
<1>2. /\ WellScoped(u)
      /\ Len(u.frames) = Len(s.frames) + 1
      /\ \A k \in DOMAIN s.frames : u.frames[k] = s.frames[k]
      /\ u.frames[Len(s.frames) + 1] = NewFrame(o)
  BY <1>1, Enclosing
<1>3. \A k \in DOMAIN u.frames :
        k \in DOMAIN s.frames \/ u.frames[k] = NewFrame(o)
  <2>1. DOMAIN u.frames = 1..Len(u.frames) /\ DOMAIN s.frames = 1..Len(s.frames)
        /\ Len(s.frames) \in Nat
    BY <1>1, <1>2, Scopes
  <2> QED
    BY <1>2, <2>1
<1> DEFINE new == NewFrame(o)
<1>4. DOMAIN new.types = {} /\ new.constants = {}
  BY DEF NewFrame
<1> HIDE DEF new
<1>5. DeclaredAreBound(u)
  BY <1>1, <1>2, <1>3, <1>4 DEF DeclaredAreBound, new
<1>6. TypesHold(u)
  BY <1>1, <1>2, <1>3, <1>4 DEF TypesHold, new
<1>7. ConstantsKept(s, u)
  BY <1>2 DEF ConstantsKept
<1> QED
  BY <1>2, <1>5, <1>6, <1>7 DEF ScopesOK

LEMMA ScopeOperationsAreSafe ==
    ASSUME NEW s, ScopesOK(s), NEW u, ScopeOperation(s, u)
    PROVE  ScopesOK(u) /\ ConstantsKept(s, u)
<1>1. CASE Enclose(s, u)
  BY <1>1, OneScope DEF Enclose
<1>2. CASE Let(s, u)
  BY <1>2, OneSet DEF Let, Anew
<1>3. CASE Const(s, u)
  BY <1>3, OneConst DEF Const
<1>4. CASE TypedLet(s, u)
  BY <1>4, OneTyped DEF TypedLet
<1>5. CASE AssignChecked(s, u)
  BY <1>5, OneAssignChecked DEF AssignChecked
<1>6. CASE Increment(s, u)
  BY <1>6, OneIncrement DEF Increment
<1>7. CASE Sink(s, u)
  BY <1>7, OneSink DEF Sink
<1> QED
  BY <1>1, <1>2, <1>3, <1>4, <1>5, <1>6, <1>7 DEF ScopeOperation

\* The scopes of a program, from the global one alone.
VARIABLE env

EnvInit == env = [frames |-> <<NewFrame(0)>>]
EnvNext == ScopeOperation(env, env')
EnvSpec == EnvInit /\ [][EnvNext]_env

LEMMA GlobalScopeOK == EnvInit => ScopesOK(env)
<1> SUFFICES ASSUME EnvInit PROVE ScopesOK(env)
  OBVIOUS
<1> DEFINE new == NewFrame(0)
           q == <<new>>
<1>1. /\ DOMAIN new = Fields /\ new.outer = 0
      /\ DOMAIN new.types = {} /\ new.constants = {}
  BY DEF NewFrame, Fields
<1> HIDE DEF new
<1>2. q = [k \in 1..1 |-> q[k]] /\ q[1] = new
  OBVIOUS
<1>3. IsSequence(q) /\ Len(q) = 1
  <2> HIDE DEF q
  <2> QED
    BY <1>2, SequenceMade
<1>4. DOMAIN q = {1}
  BY <1>3
<1>5. env = [frames |-> q]
  BY DEF EnvInit, new
<1>6. env.frames = q /\ "frames" \in DOMAIN env
  BY <1>5
<1> HIDE DEF q
<1>7. \A k \in DOMAIN q : k = 1 /\ q[k] = new
  BY <1>2, <1>4
<1>8. WellScoped(env)
  BY <1>1, <1>3, <1>6, <1>7 DEF WellScoped
<1>9. DeclaredAreBound(env) /\ TypesHold(env)
  BY <1>1, <1>6, <1>7 DEF DeclaredAreBound, TypesHold
<1> QED
  BY <1>8, <1>9 DEF ScopesOK

\* A name declared with a type holds a value of that type, whichever of any
\* number of scopes and closures assigns to it or increments it: the checks
\* of evalAssignExpression and evalTypedLetStatement are enough.
THEOREM TypedNamesKeepTheirTypes == EnvSpec => []TypesHold(env)
<1>1. EnvInit => ScopesOK(env)
  BY GlobalScopeOK
<1>2. ScopesOK(env) /\ [EnvNext]_env => ScopesOK(env)'
  <2> SUFFICES ASSUME ScopesOK(env), [EnvNext]_env PROVE ScopesOK(env')
    BY DEF ScopesOK, WellScoped, DeclaredAreBound, TypesHold
  <2> QED
    BY ScopeOperationsAreSafe DEF EnvNext
<1>3. ScopesOK(env) => TypesHold(env)
  BY DEF ScopesOK
<1> QED
  BY <1>1, <1>2, <1>3, PTL DEF EnvSpec

\* A constant stays one and keeps its value, whatever any scope assigns or
\* increments (SetConst, Assign and AssignStrict).
THEOREM ConstantsKeepTheirValues == EnvSpec => [][ConstantsKept(env, env')]_env
<1>1. EnvInit => ScopesOK(env)
  BY GlobalScopeOK
<1>2. ScopesOK(env) /\ [EnvNext]_env
        => ScopesOK(env)' /\ [ConstantsKept(env, env')]_env
  <2> SUFFICES ASSUME ScopesOK(env), [EnvNext]_env
      PROVE ScopesOK(env') /\ [ConstantsKept(env, env')]_env
    OBVIOUS
  <2> QED
    BY ScopeOperationsAreSafe DEF EnvNext
<1> QED
  BY <1>1, <1>2, PTL DEF EnvSpec

=============================================================================
