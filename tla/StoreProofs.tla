---------------------------- MODULE StoreProofs ----------------------------
(***************************************************************************)
(* What the operations of Store promise, for heaps of any size.            *)
(*                                                                         *)
(* Every operation is one of three kinds of step: it only adds objects and *)
(* storage (Allocates), it writes through one pointer whose object is not  *)
(* frozen, and to no storage but that object's (WritesTo), or it sets the  *)
(* flags of arrays and hashes (Freeze).  Each kind keeps every array       *)
(* within its storage (WellFormed) and the contents of what is frozen      *)
(* (KeepsFrozen); so does any sequence of them (Spec, at the end).         *)
(***************************************************************************)
EXTENDS Store, SequenceTheorems, TLAPS

\* A sequence, of values of any kind, is a function on 1..Len.
LEMMA SequenceFacts ==
    ASSUME NEW q, IsSequence(q)
    PROVE  /\ Len(q) \in Nat
           /\ DOMAIN q = 1..Len(q)
           /\ q = [i \in 1..Len(q) |-> q[i]]
<1> DEFINE S == {q[i] : i \in DOMAIN q}
<1>1. q \in Seq(S)
  BY DEF IsSequence
<1> QED
  BY <1>1, LenProperties

\* and such a function is a sequence.
LEMMA SequenceMade ==
    ASSUME NEW q, NEW n \in Nat, q = [i \in 1..n |-> q[i]]
    PROVE  IsSequence(q) /\ Len(q) = n
<1> DEFINE S == {q[i] : i \in DOMAIN q}
<1>1. q \in [1..n -> S]
  OBVIOUS
<1>2. q \in Seq(S)
  BY <1>1, SeqDef
<1>3. Len(q) \in Nat /\ DOMAIN q = 1..Len(q)
  BY <1>2, LenProperties
<1>4. 1..n = 1..Len(q)
  BY <1>1, <1>3
<1>5. n = Len(q)
  BY <1>3, <1>4
<1> QED
  BY <1>2, <1>5 DEF IsSequence

\* Sequences are equal that have the same length and elements.
LEMMA SameSequence ==
    ASSUME NEW p, NEW q, IsSequence(p), IsSequence(q), Len(p) = Len(q),
           \A k \in 1..Len(p) : p[k] = q[k]
    PROVE  p = q
<1> DEFINE n == Len(p)
<1>1. p = [k \in 1..n |-> p[k]] /\ q = [k \in 1..n |-> q[k]]
  BY SequenceFacts
<1> HIDE DEF n
<1>2. \A k \in 1..n : p[k] = q[k]
  BY DEF n
<1> QED
  BY <1>1, <1>2

\* What Append makes,
LEMMA SequenceAppended ==
    ASSUME NEW q, NEW x, IsSequence(q)
    PROVE  /\ IsSequence(Append(q, x))
           /\ Len(Append(q, x)) = Len(q) + 1
           /\ \A i \in DOMAIN q : Append(q, x)[i] = q[i]
           /\ Append(q, x)[Len(q) + 1] = x
<1> DEFINE S == {q[i] : i \in DOMAIN q} \union {x}
<1>1. q \in Seq(S)
  BY SeqMonotonic DEF IsSequence
<1>2. x \in S
  OBVIOUS
<1>3. /\ Append(q, x) \in Seq(S)
      /\ Len(Append(q, x)) = Len(q) + 1
      /\ \A i \in 1..Len(q) : Append(q, x)[i] = q[i]
      /\ Append(q, x)[Len(q) + 1] = x
  BY <1>1, <1>2, AppendProperties
<1>4. Append(q, x) = [i \in 1..(Len(q) + 1) |-> Append(q, x)[i]]
  BY <1>3, LenProperties
<1> QED
  BY <1>3, <1>4, SequenceMade, SequenceFacts

\* what a write to one index,
LEMMA SequenceUpdated ==
    ASSUME NEW q, NEW x, NEW i, IsSequence(q), i \in DOMAIN q
    PROVE  /\ IsSequence([q EXCEPT ![i] = x])
           /\ Len([q EXCEPT ![i] = x]) = Len(q)
           /\ DOMAIN [q EXCEPT ![i] = x] = DOMAIN q
           /\ \A j \in DOMAIN q :
                [q EXCEPT ![i] = x][j] = IF j = i THEN x ELSE q[j]
<1> DEFINE r == [q EXCEPT ![i] = x]
<1>1. r = [j \in 1..Len(q) |-> r[j]] /\ Len(q) \in Nat
  BY SequenceFacts
<1>2. /\ DOMAIN r = DOMAIN q
      /\ \A j \in DOMAIN q : r[j] = IF j = i THEN x ELSE q[j]
  OBVIOUS
<1> HIDE DEF r
<1>3. IsSequence(r) /\ Len(r) = Len(q)
  BY <1>1, SequenceMade
<1> QED
  BY <1>2, <1>3 DEF r

\* what SubSeq,
LEMMA SequenceCut ==
    ASSUME NEW q, IsSequence(q), NEW i \in Nat, NEW j \in Nat,
           i <= j, j <= Len(q)
    PROVE  /\ IsSequence(SubSeq(q, i + 1, j))
           /\ Len(SubSeq(q, i + 1, j)) = j - i
           /\ \A k \in 1..(j - i) : SubSeq(q, i + 1, j)[k] = q[i + k]
<1> DEFINE S == {q[k] : k \in DOMAIN q}
           e == SubSeq(q, i + 1, j)
           m == i + 1
<1>1. DOMAIN q = 1..Len(q) /\ Len(q) \in Nat
  BY SequenceFacts
<1>2. \A k \in m..j : q[k] \in S
  BY <1>1
<1>3. m \in Int /\ j \in Int
  OBVIOUS
<1> HIDE DEF S
<1>4. /\ SubSeq(q, m, j) \in Seq(S)
      /\ Len(SubSeq(q, m, j)) = IF m <= j THEN j - m + 1 ELSE 0
      /\ \A k \in 1..(j - m + 1) : SubSeq(q, m, j)[k] = q[m + k - 1]
  <2> HIDE DEF m
  <2> QED
    BY <1>2, <1>3, SubSeqProperties
<1>5. e \in Seq(S) /\ Len(e) = j - i
  BY <1>4
<1>6. ASSUME NEW k \in 1..(j - i)
      PROVE  e[k] = q[i + k]
  <2>1. k \in 1..(j - m + 1) /\ m + k - 1 = i + k
    OBVIOUS
  <2> QED
    BY <1>4, <2>1
<1>7. e = [k \in 1..(j - i) |-> e[k]]
  BY <1>5, LenProperties
<1>8. IsSequence(e)
  <2> DEFINE n == j - i
  <2>1. n \in Nat /\ e = [k \in 1..n |-> e[k]]
    BY <1>7
  <2> HIDE DEF e, n
  <2> QED
    BY <2>1, SequenceMade
<1> QED
  BY <1>5, <1>6, <1>8

\* and what \o.
LEMMA SequenceJoined ==
    ASSUME NEW q, NEW r, IsSequence(q), IsSequence(r)
    PROVE  /\ IsSequence(q \o r)
           /\ Len(q \o r) = Len(q) + Len(r)
           /\ \A i \in DOMAIN q : (q \o r)[i] = q[i]
<1> DEFINE S == {q[i] : i \in DOMAIN q} \union {r[i] : i \in DOMAIN r}
<1>1. q \in Seq(S) /\ r \in Seq(S)
  BY SeqMonotonic DEF IsSequence
<1>2. /\ q \o r \in Seq(S)
      /\ Len(q \o r) = Len(q) + Len(r)
      /\ \A i \in 1..(Len(q) + Len(r)) :
            (q \o r)[i] = IF i <= Len(q) THEN q[i] ELSE r[i - Len(q)]
  BY <1>1, ConcatProperties
<1>3. Len(q) \in Nat /\ Len(r) \in Nat /\ DOMAIN q = 1..Len(q)
  BY SequenceFacts
<1>4. q \o r = [i \in 1..(Len(q) + Len(r)) |-> (q \o r)[i]]
  BY <1>2, LenProperties
<1>5. IsSequence(q \o r)
  <2> DEFINE w == q \o r
             n == Len(q) + Len(r)
  <2>1. n \in Nat /\ w = [i \in 1..n |-> w[i]]
    BY <1>3, <1>4
  <2> HIDE DEF w, n
  <2>2. IsSequence(w)
    BY <2>1, SequenceMade
  <2> QED
    BY <2>2 DEF w
<1> QED
  BY <1>2, <1>3, <1>5

-----------------------------------------------------------------------------
(* Three kinds of step *)

Extends(q, r) ==
    /\ Len(q) <= Len(r)
    /\ \A i \in DOMAIN q : i \in DOMAIN r /\ r[i] = q[i]

\* Only new objects and new storage.
Allocates(s, u) ==
    /\ WellFormed(u)
    /\ Extends(s.heap, u.heap)
    /\ Extends(s.mem, u.mem)

\* A write through v: no other object changes, and no storage but v's own.
WritesTo(v, s, u) ==
    /\ WellFormed(u)
    /\ DOMAIN s.heap \subseteq DOMAIN u.heap
    /\ DOMAIN s.mem \subseteq DOMAIN u.mem
    /\ v.ref \in DOMAIN s.heap
    /\ u.heap[v.ref].t = s.heap[v.ref].t
    /\ s.heap[v.ref].t \in {"ARRAY", "HASH"} =>
          ~s.heap[v.ref].frozen /\ ~u.heap[v.ref].frozen
    /\ \A i \in DOMAIN s.heap \ {v.ref} : u.heap[i] = s.heap[i]
    /\ \A b \in DOMAIN s.mem :
          \/ u.mem[b] = s.mem[b]
          \/ u.heap[v.ref].t = "ARRAY" /\ u.heap[v.ref].back = b

\* New objects and storage leave the frozen ones as they are,
LEMMA AllocatingKeepsFrozen ==
    ASSUME NEW s, NEW u, WellFormed(s), Allocates(s, u)
    PROVE  KeepsFrozen(s, u)
<1> SUFFICES ASSUME NEW i \in DOMAIN s.heap,
                    s.heap[i].t \in {"ARRAY", "HASH"}, s.heap[i].frozen
             PROVE  u.heap[i].frozen /\ Contents(i, u) = Contents(i, s)
  BY DEF KeepsFrozen
<1>1. u.heap[i] = s.heap[i]
  BY DEF Allocates, Extends
<1>2. s.heap[i].t = "ARRAY" => u.mem[s.heap[i].back] = s.mem[s.heap[i].back]
  BY DEF Allocates, Extends, WellFormed, Fits
<1> QED
  BY <1>1, <1>2 DEF Contents

\* a write reaches a frozen array only through storage it shares with the
\* array written to, which is not frozen,
LEMMA WritingKeepsFrozen ==
    ASSUME NEW s, NEW u, NEW v, WellFormed(s), WritesTo(v, s, u)
    PROVE  KeepsFrozen(s, u)
<1> SUFFICES ASSUME NEW i \in DOMAIN s.heap,
                    s.heap[i].t \in {"ARRAY", "HASH"}, s.heap[i].frozen,
                    s.heap[i].t = "ARRAY" =>
                        ~\E j \in DOMAIN u.heap :
                             /\ u.heap[j].t = "ARRAY"
                             /\ u.heap[j].back = s.heap[i].back
                             /\ ~u.heap[j].frozen
             PROVE  u.heap[i].frozen /\ Contents(i, u) = Contents(i, s)
  BY DEF KeepsFrozen
<1>1. i # v.ref /\ u.heap[i] = s.heap[i]
  BY DEF WritesTo
<1>2. ASSUME s.heap[i].t = "ARRAY"
      PROVE  u.mem[s.heap[i].back] = s.mem[s.heap[i].back]
  <2>1. s.heap[i].back \in DOMAIN s.mem
    BY <1>2 DEF WellFormed, Fits
  <2>2. CASE u.heap[v.ref].t = "ARRAY" /\ u.heap[v.ref].back = s.heap[i].back
    BY <1>2, <2>2 DEF WritesTo
  <2> QED
    BY <2>1, <2>2 DEF WritesTo
<1> QED
  BY <1>1, <1>2 DEF Contents

\* and setting flags changes no contents.
LEMMA FreezingKeepsFrozen ==
    ASSUME NEW s, WellFormed(s),
           NEW refs \in SUBSET {i \in DOMAIN s.heap :
                                  s.heap[i].t \in {"ARRAY", "HASH"}}
    PROVE  WellFormed(Freeze(refs, s)) /\ KeepsFrozen(s, Freeze(refs, s))
<1> DEFINE u == Freeze(refs, s)
           h == [i \in DOMAIN s.heap |-> IF i \in refs
                                         THEN [s.heap[i] EXCEPT !.frozen = TRUE]
                                         ELSE s.heap[i]]
<1>1. /\ u.heap = h /\ u.mem = s.mem
      /\ {"heap", "mem"} \subseteq DOMAIN u
  BY DEF Freeze, WellFormed
<1>2. Len(s.heap) \in Nat /\ DOMAIN s.heap = 1..Len(s.heap)
  BY SequenceFacts DEF WellFormed
<1>3. IsSequence(h)
  <2>1. h = [i \in 1..Len(s.heap) |-> h[i]]
    BY <1>2
  <2> HIDE DEF h
  <2> QED
    BY <1>2, <2>1, SequenceMade
<1>4. ASSUME NEW i \in DOMAIN s.heap
      PROVE  /\ "t" \in DOMAIN h[i]
             /\ h[i].t = s.heap[i].t
             /\ s.heap[i].t = "ARRAY" =>
                   /\ Fits(h[i], s.mem)
                   /\ h[i].back = s.heap[i].back /\ h[i].off = s.heap[i].off
                   /\ h[i].len = s.heap[i].len
             /\ s.heap[i].t = "HASH" =>
                    IsHash(h[i]) /\ h[i].pairs = s.heap[i].pairs
             /\ s.heap[i].t \in {"ARRAY", "HASH"} /\ s.heap[i].frozen
                    => h[i].frozen
  <2>0. /\ "t" \in DOMAIN s.heap[i]
        /\ s.heap[i].t = "ARRAY" => Fits(s.heap[i], s.mem)
        /\ s.heap[i].t = "HASH" => IsHash(s.heap[i])
    BY DEF WellFormed
  <2>1. CASE i \notin refs
    BY <2>0, <2>1
  <2>2. CASE i \in refs /\ s.heap[i].t = "ARRAY"
    <3>1. h[i] = [s.heap[i] EXCEPT !.frozen = TRUE]
      BY <2>2
    <3> QED
      BY <2>0, <2>2, <3>1 DEF Fits, Slices
  <2>3. CASE i \in refs /\ s.heap[i].t = "HASH"
    <3>1. h[i] = [s.heap[i] EXCEPT !.frozen = TRUE]
      BY <2>3
    <3>2. h[i] = [t |-> "HASH", pairs |-> s.heap[i].pairs, frozen |-> TRUE]
      BY <2>0, <2>3, <3>1 DEF IsHash
    <3> QED
      BY <2>3, <3>2 DEF IsHash
  <2> QED
    BY <2>1, <2>2, <2>3
<1> HIDE DEF h
<1>5. DOMAIN h = DOMAIN s.heap
  BY DEF h
<1>6. WellFormed(u)
  BY <1>1, <1>3, <1>4, <1>5 DEF WellFormed
<1>7. KeepsFrozen(s, u)
  BY <1>1, <1>4, <1>5 DEF KeepsFrozen, Contents
<1> QED
  BY <1>6, <1>7

-----------------------------------------------------------------------------
(* The operations of the heap *)

LEMMA Allocation ==
    ASSUME NEW s, WellFormed(s), NEW o, "t" \in DOMAIN o,
           o.t = "ARRAY" => Fits(o, s.mem),
           o.t = "HASH" => IsHash(o)
    PROVE  LET r == Alloc(o, s)
           IN  /\ Allocates(s, r.st)
               /\ r.val = [t |-> o.t, ref |-> Len(s.heap) + 1]
               /\ Deref(r.val, r.st) = o
               /\ r.st.mem = s.mem
               /\ DOMAIN r.st.heap = DOMAIN s.heap \union {r.val.ref}
<1> DEFINE r == Alloc(o, s)
           u == r.st
<1>1. /\ u.heap = Append(s.heap, o) /\ u.mem = s.mem
      /\ {"heap", "mem"} \subseteq DOMAIN u
      /\ r.val = [t |-> o.t, ref |-> Len(s.heap) + 1]
  BY DEF Alloc, Ret, WellFormed
<1>2. /\ IsSequence(s.heap) /\ IsSequence(s.mem)
      /\ Len(s.heap) \in Nat /\ DOMAIN s.heap = 1..Len(s.heap)
  BY SequenceFacts DEF WellFormed
<1>3. /\ IsSequence(u.heap) /\ Len(u.heap) = Len(s.heap) + 1
      /\ \A i \in DOMAIN s.heap : u.heap[i] = s.heap[i]
      /\ u.heap[Len(s.heap) + 1] = o
  BY <1>1, <1>2, SequenceAppended
<1>4. DOMAIN u.heap = 1..(Len(s.heap) + 1)
  BY <1>3, SequenceFacts
<1> HIDE DEF r
<1>5. ASSUME NEW i \in DOMAIN u.heap
      PROVE  /\ "t" \in DOMAIN u.heap[i]
             /\ u.heap[i].t = "ARRAY" => Fits(u.heap[i], u.mem)
             /\ u.heap[i].t = "HASH" => IsHash(u.heap[i])
  <2>1. CASE i = Len(s.heap) + 1
    BY <1>1, <1>3, <2>1
  <2>2. CASE i \in DOMAIN s.heap
    BY <1>1, <1>3, <2>2 DEF WellFormed
  <2> QED
    BY <1>2, <1>4, <2>1, <2>2
<1>6. WellFormed(u)
  BY <1>1, <1>3, <1>5 DEF WellFormed
<1>7. Extends(s.heap, u.heap) /\ Extends(s.mem, u.mem)
  <2>1. Len(s.mem) \in Nat
    BY <1>2, SequenceFacts
  <2> QED
    BY <1>1, <1>2, <1>3, <1>4, <2>1 DEF Extends
<1>8. Allocates(s, u)
  BY <1>6, <1>7 DEF Allocates
<1>9. DOMAIN u.heap = DOMAIN s.heap \union {Len(s.heap) + 1}
  BY <1>2, <1>4
<1> QED
  BY <1>1, <1>3, <1>8, <1>9 DEF Deref, r

\* The unused slots.
LEMMA NilsAreASequence ==
    ASSUME NEW n \in Nat
    PROVE  IsSequence(Nils(n)) /\ Len(Nils(n)) = n
<1>1. Nils(n) = [i \in 1..n |-> Nils(n)[i]]
  BY DEF Nils
<1> QED
  BY <1>1, SequenceMade

\* New storage under the objects there are.
LEMMA StorageAdded ==
    ASSUME NEW s, WellFormed(s), NEW b, IsSequence(b)
    PROVE  LET u == [s EXCEPT !.mem = Append(@, b)]
           IN  /\ Allocates(s, u)
               /\ u.heap = s.heap
               /\ u.mem = Append(s.mem, b)
               /\ Len(s.mem) \in Nat
               /\ DOMAIN s.mem = 1..Len(s.mem)
               /\ DOMAIN u.mem = 1..(Len(s.mem) + 1)
               /\ u.mem[Len(s.mem) + 1] = b
               /\ \A i \in DOMAIN s.mem : u.mem[i] = s.mem[i]
<1> DEFINE u == [s EXCEPT !.mem = Append(@, b)]
<1>1. /\ u.mem = Append(s.mem, b) /\ u.heap = s.heap
      /\ {"heap", "mem"} \subseteq DOMAIN u
  BY DEF WellFormed
<1>2. /\ IsSequence(s.heap) /\ IsSequence(s.mem)
      /\ Len(s.mem) \in Nat /\ DOMAIN s.mem = 1..Len(s.mem)
      /\ Len(s.heap) \in Nat
  BY SequenceFacts DEF WellFormed
<1>3. /\ IsSequence(u.mem) /\ Len(u.mem) = Len(s.mem) + 1
      /\ \A i \in DOMAIN s.mem : u.mem[i] = s.mem[i]
      /\ u.mem[Len(s.mem) + 1] = b
  BY <1>1, <1>2, SequenceAppended
<1>4. DOMAIN u.mem = 1..(Len(s.mem) + 1)
  BY <1>3, SequenceFacts
<1> HIDE DEF u
<1>5. \A i \in DOMAIN u.mem : IsSequence(u.mem[i])
  <2> SUFFICES ASSUME NEW i \in DOMAIN u.mem
               PROVE  IsSequence(u.mem[i])
    OBVIOUS
  <2>1. i \in DOMAIN s.mem \/ i = Len(s.mem) + 1
    BY <1>2, <1>4
  <2> QED
    BY <1>3, <2>1 DEF WellFormed
<1>6. \A o : Fits(o, s.mem) => Fits(o, u.mem)
  BY <1>2, <1>3, <1>4 DEF Fits
<1>7. WellFormed(u)
  BY <1>1, <1>2, <1>3, <1>5, <1>6 DEF WellFormed
<1>8. Allocates(s, u)
  BY <1>1, <1>2, <1>3, <1>4, <1>7 DEF Allocates, Extends
<1> QED
  BY <1>1, <1>2, <1>3, <1>4, <1>8 DEF u

\* Two allocations in a row are one.
LEMMA AllocatesIsTransitive ==
    ASSUME NEW s, NEW u, NEW w, Allocates(s, u), Allocates(u, w), WellFormed(s)
    PROVE  Allocates(s, w)
<1>1. /\ Len(s.heap) \in Nat /\ Len(u.heap) \in Nat /\ Len(w.heap) \in Nat
      /\ Len(s.mem) \in Nat /\ Len(u.mem) \in Nat /\ Len(w.mem) \in Nat
  BY SequenceFacts DEF Allocates, WellFormed
<1>2. Len(s.heap) <= Len(w.heap) /\ Len(s.mem) <= Len(w.mem)
  BY <1>1 DEF Allocates, Extends
<1> QED
  BY <1>2 DEF Allocates, Extends

\* v is a pointer to an array.
IsArray(v, s) == v.t = "ARRAY" /\ Points(v, s)

\* What a pointer to an array leads to.
LEMMA ArrayFacts ==
    ASSUME NEW s, WellFormed(s), NEW v, IsArray(v, s)
    PROVE  LET a == Deref(v, s)
           IN  /\ v.ref \in DOMAIN s.heap /\ a.t = "ARRAY" /\ "t" \in DOMAIN a
               /\ a \in Slices /\ Fits(a, s.mem)
               /\ a.back \in DOMAIN s.mem /\ IsSequence(s.mem[a.back])
               /\ Len(s.mem[a.back]) \in Nat
               /\ DOMAIN s.mem[a.back] = 1..Len(s.mem[a.back])
               /\ IsSequence(Elements(v, s))
               /\ Len(Elements(v, s)) = a.len
               /\ \A k \in 1..a.len :
                    Elements(v, s)[k] = s.mem[a.back][a.off + k]
<1> DEFINE a == Deref(v, s)
           m == s.mem[a.back]
           S == {m[k] : k \in DOMAIN m}
<1>1. /\ v.ref \in DOMAIN s.heap /\ a.t = "ARRAY" /\ "t" \in DOMAIN a
      /\ Fits(a, s.mem)
  BY DEF IsArray, Points, Deref, WellFormed
<1>2. a \in Slices /\ a.back \in DOMAIN s.mem /\ IsSequence(m)
  BY <1>1 DEF Fits, WellFormed
<1>3. Len(m) \in Nat /\ DOMAIN m = 1..Len(m)
  BY <1>2, SequenceFacts
<1>4. a.off \in Nat /\ a.len \in Nat /\ a.off + a.len <= Len(m)
  BY <1>1, <1>2 DEF Fits, Slices
<1>5. Elements(v, s) = SubSeq(m, a.off + 1, a.off + a.len)
  BY DEF Elements
<1> DEFINE e == SubSeq(m, a.off + 1, a.off + a.len)
           j == a.off + a.len
<1>6. /\ IsSequence(SubSeq(m, a.off + 1, j))
      /\ Len(SubSeq(m, a.off + 1, j)) = j - a.off
      /\ \A k \in 1..(j - a.off) :
            SubSeq(m, a.off + 1, j)[k] = m[a.off + k]
  <2>1. j \in Nat /\ a.off <= j /\ j <= Len(m)
    BY <1>4
  <2> HIDE DEF j, a, m
  <2> QED
    BY <1>2, <1>4, <2>1, SequenceCut
<1>7. j - a.off = a.len
  BY <1>4
<1>8. IsSequence(e) /\ Len(e) = a.len /\ \A k \in 1..a.len : e[k] = m[a.off + k]
  BY <1>6, <1>7
<1> QED
  BY <1>1, <1>2, <1>3, <1>5, <1>8

\* NewArray makes an array of the values it is given
LEMMA ArrayAllocation ==
    ASSUME NEW s, WellFormed(s), NEW vs, IsSequence(vs),
           NEW cap \in Nat, cap >= Len(vs)
    PROVE  LET r == NewArray(vs, cap, s)
           IN  /\ Allocates(s, r.st)
               /\ IsArray(r.val, r.st)
               /\ ~Deref(r.val, r.st).frozen
               /\ Elements(r.val, r.st) = vs
<1> DEFINE b == vs \o Nils(cap - Len(vs))
           s1 == [s EXCEPT !.mem = Append(@, b)]
           o == [t |-> "ARRAY", back |-> Len(s.mem) + 1, off |-> 0,
                 len |-> Len(vs), frozen |-> FALSE]
           r == Alloc(o, s1)
<1>1. Len(vs) \in Nat /\ cap - Len(vs) \in Nat
  BY SequenceFacts
<1>2. /\ IsSequence(b) /\ Len(b) = cap
      /\ \A k \in 1..Len(vs) : b[k] = vs[k]
  <2> DEFINE n == cap - Len(vs)
             q == Nils(n)
  <2>1. n \in Nat
    BY <1>1
  <2> HIDE DEF n
  <2>2. IsSequence(q) /\ Len(q) = n
    BY <2>1, NilsAreASequence
  <2> HIDE DEF q
  <2>3. /\ IsSequence(vs \o q) /\ Len(vs \o q) = Len(vs) + Len(q)
        /\ \A k \in DOMAIN vs : (vs \o q)[k] = vs[k]
    BY <2>2, SequenceJoined
  <2>4. DOMAIN vs = 1..Len(vs) /\ Len(vs) + Len(q) = cap
    BY <1>1, <2>2, SequenceFacts DEF n
  <2>5. b = vs \o q
    BY DEF q, n
  <2> HIDE DEF b
  <2> QED
    BY <2>3, <2>4, <2>5
<1> HIDE DEF b
<1>3. /\ Allocates(s, s1)
      /\ Len(s.mem) \in Nat
      /\ DOMAIN s1.mem = 1..(Len(s.mem) + 1)
      /\ s1.mem[Len(s.mem) + 1] = b
  BY <1>2, StorageAdded
<1> HIDE DEF s1
<1>4. Fits(o, s1.mem)
  BY <1>1, <1>2, <1>3 DEF Fits, Slices
<1>5. o.t = "ARRAY" /\ "t" \in DOMAIN o /\ o.frozen = FALSE /\ o.len = Len(vs)
  OBVIOUS
<1>6. WellFormed(s1)
  BY <1>3 DEF Allocates
<1> HIDE DEF o
<1>7. /\ Allocates(s1, r.st)
      /\ r.val = [t |-> o.t, ref |-> Len(s1.heap) + 1]
      /\ Deref(r.val, r.st) = o
      /\ DOMAIN r.st.heap = DOMAIN s1.heap \union {r.val.ref}
  BY <1>4, <1>5, <1>6, Allocation
<1> HIDE DEF r
<1>8. Allocates(s, r.st)
  BY <1>3, <1>7, AllocatesIsTransitive
<1>9. /\ r.val.t = "ARRAY" /\ IsArray(r.val, r.st) /\ WellFormed(r.st)
      /\ ~Deref(r.val, r.st).frozen /\ Deref(r.val, r.st).len = Len(vs)
  BY <1>5, <1>7, <1>8 DEF Points, Deref, IsArray, Allocates
<1>10. r.st.mem[Len(s.mem) + 1] = b
  BY <1>3, <1>7 DEF Allocates, Extends
<1>11. Deref(r.val, r.st).off = 0 /\ Deref(r.val, r.st).back = Len(s.mem) + 1
  BY <1>7 DEF o
<1>12. Elements(r.val, r.st) = vs
  <2> DEFINE e == Elements(r.val, r.st)
  <2>1. /\ IsSequence(e) /\ Len(e) = Len(vs)
        /\ \A k \in 1..Len(vs) : e[k] = b[0 + k]
    BY <1>9, <1>10, <1>11, ArrayFacts
  <2> HIDE DEF e
  <2>2. \A k \in 1..Len(vs) : e[k] = vs[k]
    BY <1>2, <2>1
  <2>3. e = vs
    BY <2>1, <2>2, SameSequence
  <2> QED
    BY <2>3 DEF e
<1> QED
  BY <1>8, <1>9, <1>12 DEF NewArray, r, o, s1, b

\* and NewHash a hash.
LEMMA HashAllocation ==
    ASSUME NEW s, WellFormed(s), NEW pairs
    PROVE  LET r == NewHash(pairs, s)
           IN  Allocates(s, r.st) /\ r.val.t = "HASH" /\ Points(r.val, r.st)
<1> DEFINE o == [t |-> "HASH", pairs |-> pairs, frozen |-> FALSE]
<1>1. o.t = "HASH" /\ "t" \in DOMAIN o /\ IsHash(o)
  BY DEF IsHash
<1> HIDE DEF o
<1> DEFINE r == Alloc(o, s)
<1>2. /\ Allocates(s, r.st)
      /\ r.val = [t |-> o.t, ref |-> Len(s.heap) + 1]
      /\ Deref(r.val, r.st) = o
      /\ DOMAIN r.st.heap = DOMAIN s.heap \union {r.val.ref}
  BY <1>1, Allocation
<1> HIDE DEF r
<1>3. Allocates(s, r.st) /\ r.val.t = "HASH" /\ Points(r.val, r.st)
  BY <1>1, <1>2 DEF Points, Deref
<1> QED
  BY <1>3 DEF NewHash, r, o

\* The one way an object that is not frozen is overwritten: o in the place of
\* what v points to, and storage changed only under o.
LEMMA Overwriting ==
    ASSUME NEW s, WellFormed(s), NEW v, v.ref \in DOMAIN s.heap,
           NEW o, "t" \in DOMAIN o, o.t = s.heap[v.ref].t,
           o.t \in {"ARRAY", "HASH"} => ~s.heap[v.ref].frozen /\ ~o.frozen,
           NEW u, {"heap", "mem"} \subseteq DOMAIN u,
           u.heap = [s.heap EXCEPT ![v.ref] = o],
           IsSequence(u.mem), DOMAIN s.mem \subseteq DOMAIN u.mem,
           \A b \in DOMAIN u.mem : IsSequence(u.mem[b]),
           \A b \in DOMAIN s.mem :
              /\ Len(u.mem[b]) = Len(s.mem[b])
              /\ u.mem[b] = s.mem[b] \/ (o.t = "ARRAY" /\ o.back = b),
           o.t = "ARRAY" => Fits(o, u.mem),
           o.t = "HASH" => IsHash(o)
    PROVE  WritesTo(v, s, u)
<1>1. /\ IsSequence(s.heap)
      /\ IsSequence(u.heap)
      /\ DOMAIN u.heap = DOMAIN s.heap
      /\ \A j \in DOMAIN s.heap :
            u.heap[j] = IF j = v.ref THEN o ELSE s.heap[j]
  <2> DEFINE h == s.heap
             i == v.ref
  <2>1. IsSequence(h) /\ i \in DOMAIN h /\ u.heap = [h EXCEPT ![i] = o]
    BY DEF WellFormed
  <2> HIDE DEF h, i
  <2>2. /\ IsSequence([h EXCEPT ![i] = o])
        /\ DOMAIN [h EXCEPT ![i] = o] = DOMAIN h
        /\ \A j \in DOMAIN h :
              [h EXCEPT ![i] = o][j] = IF j = i THEN o ELSE h[j]
    BY <2>1, SequenceUpdated
  <2> QED
    BY <2>1, <2>2 DEF h, i
<1>2. ASSUME NEW x, Fits(x, s.mem)
      PROVE  Fits(x, u.mem)
  BY <1>2 DEF Fits
<1>3. ASSUME NEW j \in DOMAIN u.heap
      PROVE  /\ "t" \in DOMAIN u.heap[j]
             /\ u.heap[j].t = "ARRAY" => Fits(u.heap[j], u.mem)
             /\ u.heap[j].t = "HASH" => IsHash(u.heap[j])
  <2>1. CASE j = v.ref
    BY <1>1, <2>1
  <2>2. CASE j # v.ref
    BY <1>1, <1>2, <2>2 DEF WellFormed
  <2> QED
    BY <2>1, <2>2
<1>4. WellFormed(u)
  BY <1>1, <1>3 DEF WellFormed
<1> QED
  BY <1>1, <1>4 DEF WritesTo

\* Storage of an array that is not frozen is overwritten.
LEMMA StorageOverwritten ==
    ASSUME NEW s, WellFormed(s), NEW v, IsArray(v, s), ~Deref(v, s).frozen,
           NEW w, IsSequence(w), Len(w) = Len(s.mem[Deref(v, s).back]),
           NEW u, {"heap", "mem"} \subseteq DOMAIN u, u.heap = s.heap,
           u.mem = [s.mem EXCEPT ![Deref(v, s).back] = w]
    PROVE  WritesTo(v, s, u)
<1> DEFINE o == Deref(v, s)
           back == o.back
<1>1. /\ v.ref \in DOMAIN s.heap /\ o.t = "ARRAY" /\ "t" \in DOMAIN o
      /\ Fits(o, s.mem) /\ back \in DOMAIN s.mem
  BY ArrayFacts
<1>2. IsSequence(s.mem) /\ IsSequence(s.heap)
  BY DEF WellFormed
<1>3. /\ IsSequence(u.mem) /\ DOMAIN u.mem = DOMAIN s.mem
      /\ \A b \in DOMAIN s.mem : u.mem[b] = IF b = back THEN w ELSE s.mem[b]
  <2> DEFINE q == s.mem
  <2>1. IsSequence(q) /\ back \in DOMAIN q /\ u.mem = [q EXCEPT ![back] = w]
    BY <1>1, <1>2
  <2> HIDE DEF q, back
  <2>2. /\ IsSequence([q EXCEPT ![back] = w])
        /\ DOMAIN [q EXCEPT ![back] = w] = DOMAIN q
        /\ \A b \in DOMAIN q :
              [q EXCEPT ![back] = w][b] = IF b = back THEN w ELSE q[b]
    BY <2>1, SequenceUpdated
  <2> QED
    BY <2>1, <2>2 DEF q
<1>4. u.heap = [s.heap EXCEPT ![v.ref] = o]
  <2>1. s.heap = [i \in 1..Len(s.heap) |-> s.heap[i]]
    BY <1>2, SequenceFacts
  <2> QED
    BY <2>1 DEF Deref
<1>5. \A b \in DOMAIN u.mem : IsSequence(u.mem[b])
  BY <1>3 DEF WellFormed
<1>6. \A b \in DOMAIN s.mem :
        /\ Len(u.mem[b]) = Len(s.mem[b])
        /\ u.mem[b] = s.mem[b] \/ (o.t = "ARRAY" /\ o.back = b)
  BY <1>1, <1>3
<1>7. Fits(o, u.mem)
  BY <1>1, <1>3, <1>6 DEF Fits
<1>8. o = s.heap[v.ref]
  BY DEF Deref
<1>9. IsSequence(u.mem) /\ DOMAIN s.mem \subseteq DOMAIN u.mem
  BY <1>3
<1>10. o.t = "ARRAY" => Fits(o, u.mem)
  BY <1>7
<1>11. o.t = "HASH" => IsHash(o)
  BY <1>1
<1>12. /\ o.t = s.heap[v.ref].t
       /\ o.t \in {"ARRAY", "HASH"} => ~s.heap[v.ref].frozen /\ ~o.frozen
  BY <1>8
<1>13. v.ref \in DOMAIN s.heap /\ "t" \in DOMAIN o
  BY <1>1
<1> HIDE DEF o
<1> QED
  BY <1>4, <1>5, <1>6, <1>9, <1>10, <1>11, <1>12, <1>13, Overwriting

\* One element written (assignToIndex),
LEMMA ElementWritten ==
    ASSUME NEW s, WellFormed(s), NEW v, IsArray(v, s), ~Deref(v, s).frozen,
           NEW i \in 0..(Deref(v, s).len - 1), NEW x
    PROVE  WritesTo(v, s, SetElement(v, i, x, s))
<1> DEFINE a == Deref(v, s)
           m == s.mem[a.back]
           k == a.off + i + 1
           w == [m EXCEPT ![k] = x]
           u == SetElement(v, i, x, s)
<1>1. /\ a.back \in DOMAIN s.mem /\ IsSequence(m) /\ DOMAIN m = 1..Len(m)
      /\ a \in Slices /\ Fits(a, s.mem) /\ Len(m) \in Nat
  BY ArrayFacts
<1>2. k \in DOMAIN m
  BY <1>1 DEF Fits, Slices
<1>3. IsSequence(w) /\ Len(w) = Len(m)
  <2>1. IsSequence(m) /\ k \in DOMAIN m
    BY <1>1, <1>2
  <2> HIDE DEF m, k
  <2>2. /\ IsSequence([m EXCEPT ![k] = x])
        /\ Len([m EXCEPT ![k] = x]) = Len(m)
        /\ DOMAIN [m EXCEPT ![k] = x] = DOMAIN m
        /\ \A j \in DOMAIN m :
              [m EXCEPT ![k] = x][j] = IF j = k THEN x ELSE m[j]
    BY <2>1, SequenceUpdated, Zenon
  <2> QED
    BY <2>2
<1>4. /\ u.heap = s.heap /\ {"heap", "mem"} \subseteq DOMAIN u
      /\ u.mem = [s.mem EXCEPT ![a.back] = w]
  BY DEF SetElement, WellFormed
<1> HIDE DEF u, w
<1>5. WritesTo(v, s, u)
  BY <1>3, <1>4, StorageOverwritten
<1> QED
  BY <1>5 DEF u

\* all of them (reverse, sort),
LEMMA AllWritten ==
    ASSUME NEW s, WellFormed(s), NEW v, IsArray(v, s), ~Deref(v, s).frozen,
           NEW vs
    PROVE  WritesTo(v, s, SetAll(v, vs, s))
<1> DEFINE a == Deref(v, s)
           m == s.mem[a.back]
           w == [k \in DOMAIN m |-> IF k \in a.off + 1 .. a.off + a.len
                                    THEN vs[k - a.off] ELSE m[k]]
           u == SetAll(v, vs, s)
<1>1. IsSequence(m) /\ DOMAIN m = 1..Len(m) /\ Len(m) \in Nat
  BY ArrayFacts
<1>2. w = [k \in 1..Len(m) |-> w[k]]
  BY <1>1
<1>4. /\ u.heap = s.heap /\ {"heap", "mem"} \subseteq DOMAIN u
      /\ u.mem = [s.mem EXCEPT ![a.back] = w]
  BY DEF SetAll, WellFormed
<1> HIDE DEF u, w
<1>3. IsSequence(w) /\ Len(w) = Len(m)
  BY <1>1, <1>2, SequenceMade
<1>5. WritesTo(v, s, u)
  BY <1>3, <1>4, StorageOverwritten
<1> QED
  BY <1>5 DEF u

\* the last one dropped (pop).
LEMMA ElementPopped ==
    ASSUME NEW s, WellFormed(s), NEW v, IsArray(v, s), ~Deref(v, s).frozen,
           Deref(v, s).len # 0
    PROVE  WritesTo(v, s, [s EXCEPT !.heap[v.ref].len = @ - 1])
<1> DEFINE a == Deref(v, s)
           o == [a EXCEPT !.len = @ - 1]
           u == [s EXCEPT !.heap[v.ref].len = @ - 1]
<1>1. /\ v.ref \in DOMAIN s.heap /\ a.t = "ARRAY" /\ a \in Slices
      /\ Fits(a, s.mem)
  BY ArrayFacts
<1>2. /\ o \in Slices /\ o.t = "ARRAY" /\ "t" \in DOMAIN o
      /\ o.back = a.back /\ o.off = a.off /\ o.len = a.len - 1
      /\ o.frozen = a.frozen
  BY <1>1 DEF Slices
<1>3. Fits(o, s.mem)
  <2>1. a.off + a.len <= Len(s.mem[a.back]) /\ a.back \in DOMAIN s.mem
    BY <1>1 DEF Fits
  <2>2. Len(s.mem[a.back]) \in Nat
    BY ArrayFacts
  <2>3. a.off \in Nat /\ a.len \in Nat
    BY <1>1 DEF Slices
  <2> QED
    BY <1>2, <2>1, <2>2, <2>3 DEF Fits
<1>4. /\ u.mem = s.mem /\ {"heap", "mem"} \subseteq DOMAIN u
      /\ u.heap = [s.heap EXCEPT ![v.ref] = o]
  BY DEF WellFormed, Deref
<1>5. IsSequence(s.mem) /\ \A b \in DOMAIN s.mem : IsSequence(s.mem[b])
  BY DEF WellFormed
<1>6. a = s.heap[v.ref] /\ ~a.frozen
  BY DEF Deref
<1> HIDE DEF u, o, a
<1>7. WritesTo(v, s, u)
  BY <1>1, <1>2, <1>3, <1>4, <1>5, <1>6, Overwriting
<1> QED
  BY <1>7 DEF u

\* v is a pointer to a hash.
IsHashPointer(v, s) == v.t = "HASH" /\ Points(v, s)

\* The entries of a hash replaced,
LEMMA PairsWritten ==
    ASSUME NEW s, WellFormed(s), NEW v, IsHashPointer(v, s),
           ~Deref(v, s).frozen, NEW pairs
    PROVE  WritesTo(v, s, [s EXCEPT !.heap[v.ref].pairs = pairs])
<1> DEFINE a == s.heap[v.ref]
           o == [a EXCEPT !.pairs = pairs]
           u == [s EXCEPT !.heap[v.ref].pairs = pairs]
<1>1. v.ref \in DOMAIN s.heap /\ a.t = "HASH" /\ IsHash(a) /\ ~a.frozen
  BY DEF IsHashPointer, Points, WellFormed, Deref
<1>2. /\ o = [t |-> "HASH", pairs |-> pairs, frozen |-> a.frozen]
      /\ a.frozen \in BOOLEAN
  BY <1>1 DEF IsHash
<1>3. o.t = "HASH" /\ "t" \in DOMAIN o /\ IsHash(o) /\ ~o.frozen
  BY <1>1, <1>2 DEF IsHash
<1>4. /\ u.mem = s.mem /\ {"heap", "mem"} \subseteq DOMAIN u
      /\ u.heap = [s.heap EXCEPT ![v.ref] = o]
  BY DEF WellFormed
<1>5. IsSequence(s.mem) /\ \A b \in DOMAIN s.mem : IsSequence(s.mem[b])
  BY DEF WellFormed
<1> HIDE DEF u, o
<1>6. WritesTo(v, s, u)
  BY <1>1, <1>3, <1>4, <1>5, Overwriting
<1> QED
  BY <1>6 DEF u

\* one of them added or changed,
LEMMA PairPut ==
    ASSUME NEW s, WellFormed(s), NEW v, IsHashPointer(v, s),
           ~Deref(v, s).frozen, NEW key, NEW x
    PROVE  WritesTo(v, s, PutPair(v, key, x, s))
BY PairsWritten DEF PutPair

\* one of them removed.
LEMMA PairRemoved ==
    ASSUME NEW s, WellFormed(s), NEW v, IsHashPointer(v, s),
           ~Deref(v, s).frozen, NEW key
    PROVE  WritesTo(v, s, Without(v, key, s))
BY PairsWritten DEF Without

\* An object that is neither an array nor a hash is written freely.
LEMMA OtherWritten ==
    ASSUME NEW s, WellFormed(s), NEW v, v.ref \in DOMAIN s.heap,
           s.heap[v.ref].t \notin {"ARRAY", "HASH"},
           NEW o, "t" \in DOMAIN o, o.t = s.heap[v.ref].t
    PROVE  WritesTo(v, s, [s EXCEPT !.heap[v.ref] = o])
<1> DEFINE u == [s EXCEPT !.heap[v.ref] = o]
<1>1. /\ u.mem = s.mem /\ {"heap", "mem"} \subseteq DOMAIN u
      /\ u.heap = [s.heap EXCEPT ![v.ref] = o]
  BY DEF WellFormed
<1>2. IsSequence(s.mem) /\ \A b \in DOMAIN s.mem : IsSequence(s.mem[b])
  BY DEF WellFormed
<1> HIDE DEF u
<1>3. WritesTo(v, s, u)
  BY <1>1, <1>2, Overwriting
<1> QED
  BY <1>3 DEF u

\* append in place: the slot after the window is taken.
LEMMA AppendedInPlace ==
    ASSUME NEW s, WellFormed(s), NEW v, IsArray(v, s), ~Deref(v, s).frozen,
           NEW x,
           Deref(v, s).off + Deref(v, s).len < Len(s.mem[Deref(v, s).back])
    PROVE  LET a == Deref(v, s)
               u == AppendElement(v, x, s)
           IN  /\ WritesTo(v, s, u)
               /\ Deref(v, u).back = a.back /\ Deref(v, u).off = a.off
               /\ Deref(v, u).len = a.len + 1
               /\ DOMAIN u.mem = DOMAIN s.mem
               /\ \A b \in DOMAIN s.mem : b # a.back => u.mem[b] = s.mem[b]
               /\ \A j \in DOMAIN s.mem[a.back] :
                    u.mem[a.back][j] = IF j = a.off + a.len + 1 THEN x
                                       ELSE s.mem[a.back][j]
<1> DEFINE a == Deref(v, s)
           back == a.back
           m == s.mem[back]
           k == a.off + a.len + 1
           w == [m EXCEPT ![k] = x]
           o == [a EXCEPT !.len = a.len + 1]
           u == AppendElement(v, x, s)
<1>1. /\ v.ref \in DOMAIN s.heap /\ a.t = "ARRAY" /\ a \in Slices
      /\ back \in DOMAIN s.mem /\ IsSequence(m) /\ Len(m) \in Nat
      /\ DOMAIN m = 1..Len(m) /\ a.off \in Nat /\ a.len \in Nat
  BY ArrayFacts DEF Slices
<1>2. k \in DOMAIN m /\ a.len < Len(m) - a.off
  BY <1>1
<1>3. /\ u.heap = [s.heap EXCEPT ![v.ref] = o]
      /\ u.mem = [s.mem EXCEPT ![back] = w]
      /\ {"heap", "mem"} \subseteq DOMAIN u
  <2>1. u = [s EXCEPT !.mem[a.back][a.off + a.len + 1] = x,
                      !.heap[v.ref].len = @ + 1]
    BY <1>2 DEF AppendElement
  <2> QED
    BY <2>1 DEF WellFormed, Deref
<1>4. /\ IsSequence(w) /\ Len(w) = Len(m)
      /\ \A j \in DOMAIN m : w[j] = IF j = k THEN x ELSE m[j]
  <2>1. IsSequence(m) /\ k \in DOMAIN m
    BY <1>1, <1>2
  <2> HIDE DEF m, k
  <2>2. /\ IsSequence([m EXCEPT ![k] = x])
        /\ Len([m EXCEPT ![k] = x]) = Len(m)
        /\ DOMAIN [m EXCEPT ![k] = x] = DOMAIN m
        /\ \A j \in DOMAIN m :
              [m EXCEPT ![k] = x][j] = IF j = k THEN x ELSE m[j]
    BY <2>1, SequenceUpdated, Zenon
  <2> QED
    BY <2>2
<1> HIDE DEF u, w
<1>5. /\ IsSequence(u.mem) /\ DOMAIN u.mem = DOMAIN s.mem
      /\ \A b \in DOMAIN s.mem : u.mem[b] = IF b = back THEN w ELSE s.mem[b]
  <2> DEFINE q == s.mem
  <2>1. IsSequence(q) /\ back \in DOMAIN q /\ u.mem = [q EXCEPT ![back] = w]
    BY <1>1, <1>3 DEF WellFormed
  <2> HIDE DEF q, back
  <2>2. /\ IsSequence([q EXCEPT ![back] = w])
        /\ Len([q EXCEPT ![back] = w]) = Len(q)
        /\ DOMAIN [q EXCEPT ![back] = w] = DOMAIN q
        /\ \A b \in DOMAIN q :
              [q EXCEPT ![back] = w][b] = IF b = back THEN w ELSE q[b]
    BY <2>1, SequenceUpdated, Zenon
  <2> QED
    BY <2>1, <2>2 DEF q
<1>6. /\ o \in Slices /\ o.t = "ARRAY" /\ "t" \in DOMAIN o
      /\ o.back = back /\ o.off = a.off /\ o.len = a.len + 1
      /\ o.frozen = a.frozen
  BY <1>1 DEF Slices
<1>7. /\ \A b \in DOMAIN u.mem : IsSequence(u.mem[b])
      /\ \A b \in DOMAIN s.mem :
            /\ Len(u.mem[b]) = Len(s.mem[b])
            /\ u.mem[b] = s.mem[b] \/ (o.t = "ARRAY" /\ o.back = b)
  BY <1>4, <1>5, <1>6 DEF WellFormed
<1>8. o.t = "ARRAY" => Fits(o, u.mem)
  <2>1. Len(u.mem[back]) = Len(m) /\ back \in DOMAIN u.mem
    BY <1>1, <1>5, <1>7
  <2>2. o.off + o.len <= Len(m)
    BY <1>1, <1>2, <1>6
  <2> QED
    BY <1>6, <2>1, <2>2 DEF Fits
<1>9. /\ o.t = s.heap[v.ref].t
      /\ o.t \in {"ARRAY", "HASH"} => ~s.heap[v.ref].frozen /\ ~o.frozen
      /\ o.t = "HASH" => IsHash(o)
  BY <1>1, <1>6 DEF Deref
<1>10. WritesTo(v, s, u)
  <2> HIDE DEF o, a
  <2>1. v.ref \in DOMAIN s.heap /\ "t" \in DOMAIN o
    BY <1>1, <1>6
  <2>2. IsSequence(u.mem) /\ DOMAIN s.mem \subseteq DOMAIN u.mem
    BY <1>5
  <2> QED
    BY <1>3, <1>7, <1>8, <1>9, <2>1, <2>2, Overwriting
<1>11. \A b \in DOMAIN s.mem : b # back => u.mem[b] = s.mem[b]
  BY <1>5
<1>12. \A j \in DOMAIN m : u.mem[back][j] = IF j = k THEN x ELSE m[j]
  BY <1>1, <1>4, <1>5
<1>13. /\ Deref(v, u).back = a.back /\ Deref(v, u).off = a.off
       /\ Deref(v, u).len = a.len + 1
  <2> HIDE DEF o
  <2>1. Deref(v, u) = o
    BY <1>1, <1>3 DEF Deref
  <2> QED
    BY <1>6, <2>1
<1> QED
  BY <1>3, <1>5, <1>10, <1>11, <1>12, <1>13 DEF u

\* append to a window that ends with its storage: the elements move.
LEMMA AppendedMoved ==
    ASSUME NEW s, WellFormed(s), NEW v, IsArray(v, s), ~Deref(v, s).frozen,
           NEW x,
           ~(Deref(v, s).off + Deref(v, s).len < Len(s.mem[Deref(v, s).back]))
    PROVE  LET a == Deref(v, s)
               u == AppendElement(v, x, s)
           IN  /\ WritesTo(v, s, u)
               /\ Deref(v, u).back = Len(s.mem) + 1 /\ Deref(v, u).off = 0
               /\ Deref(v, u).len = a.len + 1
               /\ \A b \in DOMAIN s.mem : u.mem[b] = s.mem[b]
               /\ DOMAIN u.mem = DOMAIN s.mem \union {Len(s.mem) + 1}
               /\ \A k \in 1..a.len :
                    u.mem[Len(s.mem) + 1][k] = Elements(v, s)[k]
               /\ u.mem[Len(s.mem) + 1][a.len + 1] = x
<1> DEFINE a == Deref(v, s)
           e == Elements(v, s)
           cap == Len(s.mem[a.back]) - a.off
           n == IF cap = 0 THEN 0 ELSE cap - 1
           b == Append(e, x) \o Nils(n)
           o == [a EXCEPT !.back = Len(s.mem) + 1, !.off = 0,
                          !.len = a.len + 1]
           u == AppendElement(v, x, s)
<1>1. /\ v.ref \in DOMAIN s.heap /\ a.t = "ARRAY" /\ a \in Slices
      /\ a.back \in DOMAIN s.mem /\ Len(s.mem[a.back]) \in Nat
      /\ a.off \in Nat /\ a.len \in Nat
      /\ a.off + a.len <= Len(s.mem[a.back])
      /\ IsSequence(e) /\ Len(e) = a.len
  BY ArrayFacts DEF Slices, Fits
<1>2. ~(a.len < cap) /\ n \in Nat
  BY <1>1
<1>3. u = [s EXCEPT !.mem = Append(@, b), !.heap[v.ref] = o]
  BY <1>2 DEF AppendElement
<1>4. /\ IsSequence(Append(e, x)) /\ Len(Append(e, x)) = a.len + 1
      /\ \A k \in 1..a.len : Append(e, x)[k] = e[k]
      /\ Append(e, x)[a.len + 1] = x
      /\ DOMAIN Append(e, x) = 1..(a.len + 1)
  <2>1. DOMAIN e = 1..a.len
    BY <1>1, SequenceFacts
  <2> HIDE DEF e
  <2>2. /\ IsSequence(Append(e, x)) /\ Len(Append(e, x)) = Len(e) + 1
        /\ \A k \in DOMAIN e : Append(e, x)[k] = e[k]
        /\ Append(e, x)[Len(e) + 1] = x
    BY <1>1, SequenceAppended
  <2> QED
    BY <1>1, <2>1, <2>2, SequenceFacts
<1>5. /\ IsSequence(b) /\ Len(b) = a.len + 1 + n
      /\ \A k \in 1..a.len : b[k] = e[k]
      /\ b[a.len + 1] = x
  <2> DEFINE p == Append(e, x)
             r == Nils(n)
  <2> HIDE DEF n
  <2>1. IsSequence(r) /\ Len(r) = n
    BY <1>2, NilsAreASequence
  <2> HIDE DEF p, r
  <2>2. /\ IsSequence(p \o r) /\ Len(p \o r) = Len(p) + Len(r)
        /\ \A k \in DOMAIN p : (p \o r)[k] = p[k]
    BY <1>4, <2>1, SequenceJoined DEF p
  <2>3. DOMAIN p = 1..(a.len + 1) /\ Len(p) = a.len + 1
        /\ (\A k \in 1..a.len : p[k] = e[k]) /\ p[a.len + 1] = x
    BY <1>4 DEF p
  <2>4. \A k \in 1..a.len : k \in DOMAIN p
    BY <1>1, <2>3
  <2>5. a.len + 1 \in DOMAIN p
    BY <1>1, <2>3
  <2> HIDE DEF e, a
  <2>6. b = p \o r
    BY DEF p, r
  <2> HIDE DEF b
  <2> QED
    BY <2>1, <2>2, <2>3, <2>4, <2>5, <2>6
<1> DEFINE s1 == [s EXCEPT !.mem = Append(@, b)]
<1> HIDE DEF b, n, cap
<1>6. /\ s1.mem = Append(s.mem, b) /\ s1.heap = s.heap /\ WellFormed(s1)
      /\ Len(s.mem) \in Nat /\ DOMAIN s.mem = 1..Len(s.mem)
      /\ DOMAIN s1.mem = 1..(Len(s.mem) + 1)
      /\ s1.mem[Len(s.mem) + 1] = b
      /\ \A i \in DOMAIN s.mem : s1.mem[i] = s.mem[i]
  BY <1>5, StorageAdded DEF Allocates
<1>7. /\ u.heap = [s.heap EXCEPT ![v.ref] = o]
      /\ u.mem = s1.mem
      /\ {"heap", "mem"} \subseteq DOMAIN u
  BY <1>3 DEF WellFormed
<1> HIDE DEF u, s1
<1>8. /\ o \in Slices /\ o.t = "ARRAY" /\ "t" \in DOMAIN o
      /\ o.back = Len(s.mem) + 1 /\ o.off = 0 /\ o.len = a.len + 1
      /\ o.frozen = a.frozen
  <2>1. /\ a.len + 1 \in Nat /\ Len(s.mem) + 1 \in Nat /\ 0 \in Nat
        /\ a.frozen \in BOOLEAN
    BY <1>1, <1>6 DEF Slices
  <2>2. o = [t |-> "ARRAY", back |-> Len(s.mem) + 1, off |-> 0,
             len |-> a.len + 1, frozen |-> a.frozen]
    <3> DEFINE c == Len(s.mem) + 1
               l == a.len + 1
               o1 == [a EXCEPT !.back = c]
               o2 == [o1 EXCEPT !.off = 0]
    <3> HIDE DEF a, c, l
    <3>1. a = [t |-> "ARRAY", back |-> a.back, off |-> a.off, len |-> a.len,
               frozen |-> a.frozen]
      BY <1>1 DEF Slices
    <3>2. o1 = [t |-> "ARRAY", back |-> c, off |-> a.off, len |-> a.len,
                frozen |-> a.frozen]
      BY <3>1
    <3> HIDE DEF o1
    <3>3. o2 = [t |-> "ARRAY", back |-> c, off |-> 0, len |-> a.len,
                frozen |-> a.frozen]
      BY <3>2
    <3> HIDE DEF o2
    <3>4. [o2 EXCEPT !.len = l] =
             [t |-> "ARRAY", back |-> c, off |-> 0, len |-> l,
              frozen |-> a.frozen]
      BY <3>3
    <3> QED
      BY <3>4 DEF o1, o2, c, l
  <2> HIDE DEF o, a
  <2> QED
    BY <2>1, <2>2 DEF Slices
<1>9. Fits(o, u.mem)
  <2>1. o.back \in DOMAIN u.mem /\ u.mem[o.back] = b
    BY <1>6, <1>7, <1>8
  <2>2. o.off + o.len <= Len(b)
    BY <1>1, <1>2, <1>5, <1>8
  <2> QED
    BY <1>8, <2>1, <2>2 DEF Fits
<1>10. /\ IsSequence(u.mem) /\ DOMAIN s.mem \subseteq DOMAIN u.mem
       /\ \A i \in DOMAIN u.mem : IsSequence(u.mem[i])
       /\ \A i \in DOMAIN s.mem : u.mem[i] = s.mem[i]
       /\ \A i \in DOMAIN s.mem :
            /\ Len(u.mem[i]) = Len(s.mem[i])
            /\ u.mem[i] = s.mem[i] \/ (o.t = "ARRAY" /\ o.back = i)
  BY <1>6, <1>7 DEF WellFormed
<1>11. /\ o.t = s.heap[v.ref].t
       /\ o.t \in {"ARRAY", "HASH"} => ~s.heap[v.ref].frozen /\ ~o.frozen
       /\ o.t = "HASH" => IsHash(o)
       /\ o.t = "ARRAY" => Fits(o, u.mem)
       /\ v.ref \in DOMAIN s.heap /\ "t" \in DOMAIN o
  BY <1>1, <1>8, <1>9 DEF Deref
<1>12. WritesTo(v, s, u)
  <2> HIDE DEF o, a
  <2> QED
    BY <1>7, <1>10, <1>11, Overwriting
<1>13. /\ DOMAIN u.mem = DOMAIN s.mem \union {Len(s.mem) + 1}
       /\ u.mem[Len(s.mem) + 1] = b
  BY <1>6, <1>7
<1>14. /\ Deref(v, u).back = Len(s.mem) + 1 /\ Deref(v, u).off = 0
       /\ Deref(v, u).len = a.len + 1
  <2> HIDE DEF o
  <2>1. Deref(v, u) = o
    BY <1>1, <1>7 DEF Deref
  <2> QED
    BY <1>8, <2>1
<1> QED
  BY <1>5, <1>7, <1>10, <1>12, <1>13, <1>14 DEF u

\* A slice of an array holds the elements between its two ends.
LEMMA SliceTaken ==
    ASSUME NEW s, WellFormed(s), NEW v, IsArray(v, s),
           NEW i \in Nat, NEW j \in Nat, i <= j, j <= Deref(v, s).len,
           NEW f \in BOOLEAN
    PROVE  LET r == SliceOf(v, i, j, f, s)
           IN  /\ Allocates(s, r.st)
               /\ IsArray(r.val, r.st)
               /\ Deref(r.val, r.st).frozen = f
               /\ Elements(r.val, r.st) = SubSeq(Elements(v, s), i + 1, j)
<1> DEFINE a == Deref(v, s)
           o == [a EXCEPT !.off = a.off + i, !.len = j - i, !.frozen = f]
           r == Alloc(o, s)
           e == Elements(v, s)
           p == SubSeq(e, i + 1, j)
<1>1. /\ a.t = "ARRAY" /\ a \in Slices /\ Fits(a, s.mem)
      /\ a.off \in Nat /\ a.len \in Nat /\ Len(s.mem[a.back]) \in Nat
      /\ IsSequence(e) /\ Len(e) = a.len
      /\ \A k \in 1..a.len : e[k] = s.mem[a.back][a.off + k]
  BY ArrayFacts DEF Slices
<1>2. o = [t |-> "ARRAY", back |-> a.back, off |-> a.off + i,
           len |-> j - i, frozen |-> f]
  <2> DEFINE c == a.off + i
             l == j - i
             o1 == [a EXCEPT !.off = c]
             o2 == [o1 EXCEPT !.len = l]
  <2> HIDE DEF a, c, l
  <2>1. a = [t |-> "ARRAY", back |-> a.back, off |-> a.off, len |-> a.len,
             frozen |-> a.frozen]
    BY <1>1 DEF Slices
  <2>2. o1 = [t |-> "ARRAY", back |-> a.back, off |-> c, len |-> a.len,
              frozen |-> a.frozen]
    BY <2>1
  <2> HIDE DEF o1
  <2>3. o2 = [t |-> "ARRAY", back |-> a.back, off |-> c, len |-> l,
              frozen |-> a.frozen]
    BY <2>2
  <2> HIDE DEF o2
  <2>4. [o2 EXCEPT !.frozen = f] =
           [t |-> "ARRAY", back |-> a.back, off |-> c, len |-> l, frozen |-> f]
    BY <2>3
  <2> QED
    BY <2>4 DEF o1, o2, c, l
<1> HIDE DEF o
<1>3. /\ Fits(o, s.mem) /\ o.t = "ARRAY" /\ "t" \in DOMAIN o
      /\ o.back = a.back /\ o.off = a.off + i /\ o.len = j - i /\ o.frozen = f
  <2>1. a.off + i \in Nat /\ j - i \in Nat
    BY <1>1
  <2>2. a.back \in DOMAIN s.mem /\ a.back \in Nat
    BY <1>1 DEF Fits, Slices
  <2>3. (a.off + i) + (j - i) <= Len(s.mem[a.back])
    BY <1>1 DEF Fits
  <2> HIDE DEF a
  <2> QED
    BY <1>2, <2>1, <2>2, <2>3 DEF Fits, Slices
<1>4. /\ Allocates(s, r.st)
      /\ r.val = [t |-> o.t, ref |-> Len(s.heap) + 1]
      /\ Deref(r.val, r.st) = o
      /\ r.st.mem = s.mem
      /\ DOMAIN r.st.heap = DOMAIN s.heap \union {r.val.ref}
  BY <1>3, Allocation
<1> HIDE DEF r
<1>5. IsArray(r.val, r.st) /\ WellFormed(r.st)
  BY <1>3, <1>4 DEF IsArray, Points, Deref, Allocates
<1>6. Elements(r.val, r.st) = p
  <2> DEFINE x == Elements(r.val, r.st)
  <2>1. /\ IsSequence(x) /\ Len(x) = j - i
        /\ \A k \in 1..(j - i) : x[k] = s.mem[a.back][(a.off + i) + k]
    <3> DEFINE d == Deref(r.val, r.st)
    <3>1. /\ IsSequence(x) /\ Len(x) = d.len
          /\ \A k \in 1..d.len : x[k] = r.st.mem[d.back][d.off + k]
      BY <1>5, ArrayFacts
    <3>2. d = o
      BY <1>4
    <3> HIDE DEF d, x
    <3> QED
      BY <1>3, <1>4, <3>1, <3>2
  <2>2. /\ IsSequence(p) /\ Len(p) = j - i
        /\ \A k \in 1..(j - i) : p[k] = e[i + k]
    <3> HIDE DEF e, a
    <3> QED
      BY <1>1, SequenceCut DEF a
  <2> HIDE DEF x, p, e
  <2>3. \A k \in 1..(j - i) : x[k] = p[k]
    <3> SUFFICES ASSUME NEW k \in 1..(j - i)
                 PROVE  x[k] = p[k]
      OBVIOUS
    <3>1. i + k \in 1..a.len /\ a.off + (i + k) = (a.off + i) + k
      BY <1>1
    <3> QED
      BY <1>1, <2>1, <2>2, <3>1
  <2>4. x = p
    BY <2>1, <2>2, <2>3, SameSequence
  <2> QED
    BY <2>4 DEF x
<1> HIDE DEF p
<1>7. SliceOf(v, i, j, f, s) = r
  BY DEF SliceOf, r, o
<1> QED
  BY <1>3, <1>4, <1>5, <1>6, <1>7 DEF p

-----------------------------------------------------------------------------
(* What the operations answer *)

LEMMA EmptyTaken ==
    ASSUME NEW s, WellFormed(s)
    PROVE  LET r == NewArray(<<>>, 0, s)
           IN  /\ Allocates(s, r.st)
               /\ IsArray(r.val, r.st)
               /\ Elements(r.val, r.st) = <<>>
<1>1. IsSequence(<<>>) /\ Len(<<>>) = 0
  BY DEF IsSequence
<1> QED
  BY <1>1, ArrayAllocation

\* s[i:j] answers the elements between the two indices, both cut to the
\* array, and shares its storage: no slice reaches past its array, whatever
\* the indices (evalSliceExpression).
THEOREM SlicesAnswerTheirElements ==
    ASSUME NEW s, WellFormed(s), NEW v, IsArray(v, s),
           NEW i \in Int, NEW j \in Int
    PROVE  LET n == Deref(v, s).len
               to == IF j < 0 THEN n ELSE Within(j, n)
               r == evalSliceExpression(v, Integer(i), Integer(j), s)
           IN  /\ Allocates(s, r.st)
               /\ IsArray(r.val, r.st)
               /\ Elements(r.val, r.st) =
                    SubSeq(Elements(v, s), Within(i, n) + 1, to)
<1> DEFINE n == Deref(v, s).len
           from == Within(i, n)
           to == IF j < 0 THEN n ELSE Within(j, n)
           r == evalSliceExpression(v, Integer(i), Integer(j), s)
<1>1. n \in Nat /\ Deref(v, s).frozen \in BOOLEAN /\ v.t = "ARRAY"
  BY ArrayFacts DEF Slices, IsArray
<1>2. from \in Nat /\ to \in Nat /\ to <= n
  BY <1>1 DEF Within
<1>3. r = IF from > to THEN NewArray(<<>>, 0, s)
          ELSE SliceOf(v, from, to, Deref(v, s).frozen, s)
  BY <1>1 DEF evalSliceExpression, Integer
<1> HIDE DEF r, from, to
<1>4. CASE from > to
  <2>1. SubSeq(Elements(v, s), from + 1, to) = <<>>
    BY <1>2, <1>4, SubSeqEmpty
  <2> QED
    BY <1>3, <1>4, <2>1, EmptyTaken DEF r, from, to
<1>5. CASE ~(from > to)
  <2>1. from <= to
    BY <1>2, <1>5
  <2> DEFINE f == Deref(v, s).frozen
             q == SliceOf(v, from, to, f, s)
  <2>2. f \in BOOLEAN /\ to <= Deref(v, s).len
    BY <1>1, <1>2
  <2> HIDE DEF f
  <2>3. /\ Allocates(s, q.st) /\ IsArray(q.val, q.st)
        /\ Elements(q.val, q.st) = SubSeq(Elements(v, s), from + 1, to)
    BY <1>2, <2>1, <2>2, SliceTaken
  <2>4. r = q
    BY <1>3, <1>5 DEF f
  <2> HIDE DEF q
  <2> QED
    BY <2>3, <2>4 DEF r, from, to
<1> QED
  BY <1>4, <1>5

\* take answers the first k elements and drop the others, whatever k.
THEOREM TakeAndDropSplit ==
    ASSUME NEW s, WellFormed(s), NEW v, IsArray(v, s), NEW k \in Int
    PROVE  LET n == Deref(v, s).len
               i == Within(k, n)
               args == <<v, Integer(k)>>
               taken == builtinTake(v, args, s)
               left == builtinDrop(v, args, s)
           IN  /\ Allocates(s, taken.st) /\ IsArray(taken.val, taken.st)
               /\ Elements(taken.val, taken.st) = SubSeq(Elements(v, s), 1, i)
               /\ Allocates(s, left.st) /\ IsArray(left.val, left.st)
               /\ Elements(left.val, left.st) = SubSeq(Elements(v, s), i + 1, n)
<1> DEFINE n == Deref(v, s).len
           i == Within(k, n)
           args == <<v, Integer(k)>>
           taken == builtinTake(v, args, s)
           left == builtinDrop(v, args, s)
           from == IF k < 0 THEN 0 ELSE k
<1>1. n \in Nat /\ IsSequence(Elements(v, s)) /\ Len(Elements(v, s)) = n
  BY ArrayFacts DEF Slices
<1>2. Ints(args) /\ args[2].int = k
  BY DEF Ints, Integer
<1>3. i \in Nat /\ i <= n /\ from \in Nat
  BY <1>1 DEF Within
<1>4. /\ taken = SliceOf(v, 0, i, FALSE, s)
      /\ left = IF from > n THEN NewArray(<<>>, 0, s)
                ELSE SliceOf(v, from, n, FALSE, s)
  BY <1>2 DEF builtinTake, builtinDrop
<1>5. /\ Allocates(s, taken.st) /\ IsArray(taken.val, taken.st)
      /\ Elements(taken.val, taken.st) = SubSeq(Elements(v, s), 1, i)
  <2> DEFINE f == FALSE
             z == 0
             q == SliceOf(v, z, i, f, s)
  <2> HIDE DEF taken, i
  <2>1. /\ i \in Nat /\ z \in Nat /\ z <= i /\ i <= Deref(v, s).len
        /\ f \in BOOLEAN /\ z + 1 = 1
    BY <1>3
  <2>2. /\ Allocates(s, q.st) /\ IsArray(q.val, q.st)
        /\ Elements(q.val, q.st) = SubSeq(Elements(v, s), z + 1, i)
    <3> HIDE DEF f, z
    <3> QED
      BY <2>1, SliceTaken
  <2>3. taken = q
    BY <1>4
  <2> HIDE DEF q, z
  <2> QED
    BY <2>1, <2>2, <2>3
<1>6. /\ Allocates(s, left.st) /\ IsArray(left.val, left.st)
      /\ Elements(left.val, left.st) = SubSeq(Elements(v, s), i + 1, n)
  <2>1. CASE from > n
    <3>1. SubSeq(Elements(v, s), i + 1, n) = <<>>
      <4>1. i = n
        BY <1>1, <2>1 DEF Within
      <4> QED
        BY <1>1, <4>1, SubSeqEmpty
    <3> HIDE DEF left, i, n
    <3> QED
      BY <1>4, <2>1, <3>1, EmptyTaken
  <2>2. CASE ~(from > n)
    <3>1. i = from /\ from <= n
      BY <1>1, <1>3, <2>2 DEF Within
    <3> DEFINE f == FALSE
               q == SliceOf(v, i, n, f, s)
    <3> HIDE DEF left, i, from
    <3>2. /\ i \in Nat /\ n \in Nat /\ i <= n /\ n <= Deref(v, s).len
          /\ f \in BOOLEAN
      BY <1>1, <1>3
    <3>3. /\ Allocates(s, q.st) /\ IsArray(q.val, q.st)
          /\ Elements(q.val, q.st) = SubSeq(Elements(v, s), i + 1, n)
      <4> HIDE DEF f, n
      <4> QED
        BY <3>2, SliceTaken
    <3>4. left = q
      BY <1>4, <2>2, <3>1
    <3> HIDE DEF q, n
    <3> QED
      BY <3>3, <3>4
  <2> QED
    BY <2>1, <2>2
<1> QED
  BY <1>5, <1>6

\* append, in place or moved, is a write through its array.
LEMMA Appended ==
    ASSUME NEW s, WellFormed(s), NEW v, IsArray(v, s), ~Deref(v, s).frozen,
           NEW x
    PROVE  WritesTo(v, s, AppendElement(v, x, s))
BY AppendedInPlace, AppendedMoved

\* What a mutator may be applied to (the types evalBuiltin asks for).
Applicable(n, args, s) ==
    /\ n \in ArrayMutators => IsArray(args[1], s)
    /\ n \in HashMutators => IsHashPointer(args[1], s)

\* push, pop, reverse, sort, set_add, set_remove and delete change nothing,
\* or only the object they are given, when it is not frozen, and its storage.
THEOREM MutatorsStayInTheirStorage ==
    ASSUME NEW s, WellFormed(s), NEW n \in Mutators, NEW args,
           Applicable(n, args, s)
    PROVE  LET u == mutate(n, args, s).st
           IN  u = s \/ WritesTo(args[1], s, u)
<1> DEFINE v == args[1]
           r == mutate(n, args, s)
<1>1. CASE Deref(v, s).frozen
  <2>1. r = newError("frozen", s)
    BY <1>1 DEF mutate, refusesFrozen
  <2> QED
    BY <2>1 DEF newError, Ret
<1> SUFFICES ASSUME ~Deref(v, s).frozen
             PROVE  r.st = s \/ WritesTo(v, s, r.st)
  BY <1>1
<1>2. CASE n \in ArrayMutators
  <2>0. IsArray(v, s)
    BY <1>2 DEF Applicable
  <2>1. CASE n = "push"
    <3>1. r = builtinPush(v, args[2], s)
      BY <2>1 DEF mutate, refusesFrozen, HashMutators
    <3>2. r.st = AppendElement(v, args[2], s)
      BY <3>1 DEF builtinPush, Ret
    <3> QED
      BY <2>0, <3>2, Appended
  <2>2. CASE n = "pop"
    <3>1. r = builtinPop(v, s)
      BY <2>2 DEF mutate, refusesFrozen, HashMutators
    <3>2. CASE Deref(v, s).len = 0
      BY <3>1, <3>2 DEF builtinPop, Ret
    <3>3. CASE Deref(v, s).len # 0
      <4>1. r.st = [s EXCEPT !.heap[v.ref].len = @ - 1]
        BY <3>1, <3>3 DEF builtinPop, Ret
      <4> QED
        BY <2>0, <3>3, <4>1, ElementPopped
    <3> QED
      BY <3>2, <3>3
  <2>3. CASE n = "reverse"
    <3>1. r = builtinReverse(v, s)
      BY <2>3 DEF mutate, refusesFrozen, HashMutators
    <3>2. r.st = SetAll(v, Reversed(Elements(v, s)), s)
      BY <3>1 DEF builtinReverse, Ret
    <3> QED
      BY <2>0, <3>2, AllWritten
  <2>4. CASE n = "sort"
    <3>1. r = builtinSort(v, s)
      BY <2>4 DEF mutate, refusesFrozen, HashMutators
    <3>2. r.st = SetAll(v, Sorted(Elements(v, s)), s)
      BY <3>1 DEF builtinSort, Ret
    <3> QED
      BY <2>0, <3>2, AllWritten
  <2> QED
    BY <1>2, <2>1, <2>2, <2>3, <2>4 DEF ArrayMutators
<1>3. CASE n \in HashMutators
  <2>0. IsHashPointer(v, s)
    BY <1>3 DEF Applicable
  <2>1. CASE ~Hashable(args[2])
    <3>1. r = newError("unhashable", s)
      BY <1>3, <2>1 DEF mutate, refusesFrozen
    <3> QED
      BY <3>1 DEF newError, Ret
  <2>2. CASE Hashable(args[2]) /\ n = "set_add"
    <3>1. r = builtinSetAdd(v, args[2], s)
      BY <2>2 DEF mutate, refusesFrozen
    <3>2. r.st = PutPair(v, args[2], Bool(TRUE), s)
      BY <3>1 DEF builtinSetAdd, Ret
    <3> QED
      BY <2>0, <3>2, PairPut
  <2>3. CASE Hashable(args[2]) /\ n = "set_remove"
    <3>1. r = builtinSetRemove(v, args[2], s)
      BY <2>3 DEF mutate, refusesFrozen
    <3>2. r.st = Without(v, args[2], s)
      BY <3>1 DEF builtinSetRemove, Ret
    <3> QED
      BY <2>0, <3>2, PairRemoved
  <2>4. CASE Hashable(args[2]) /\ n = "delete"
    <3>1. r = builtinDelete(v, args[2], s)
      BY <2>4 DEF mutate, refusesFrozen
    <3>2. r.st = Without(v, args[2], s)
      BY <3>1 DEF builtinDelete, Ret
    <3> QED
      BY <2>0, <3>2, PairRemoved
  <2> QED
    BY <1>3, <2>1, <2>2, <2>3, <2>4 DEF HashMutators
<1> QED
  BY <1>2, <1>3 DEF Mutators

\* So does the assignment to an element,
THEOREM IndexAssignmentStaysInItsStorage ==
    ASSUME NEW s, WellFormed(s), NEW v, Points(v, s), NEW x,
           NEW i, i.t = "INTEGER" => i.int \in Int
    PROVE  LET u == assignToIndex(v, i, x, s).st
           IN  u = s \/ WritesTo(v, s, u)
<1> DEFINE r == assignToIndex(v, i, x, s)
<1>1. CASE v.t = "ARRAY" /\ i.t = "INTEGER"
  <2>0. IsArray(v, s)
    BY <1>1 DEF IsArray
  <2>1. CASE Deref(v, s).frozen \/ i.int \notin 0..(Deref(v, s).len - 1)
    BY <1>1, <2>1 DEF assignToIndex, Nil, newError, Ret
  <2>2. CASE ~Deref(v, s).frozen /\ i.int \in 0..(Deref(v, s).len - 1)
    <3>1. r.st = SetElement(v, i.int, x, s)
      BY <1>1, <2>2 DEF assignToIndex, Nil, Ret
    <3> QED
      BY <2>0, <2>2, <3>1, ElementWritten
  <2> QED
    BY <2>1, <2>2
<1>2. CASE v.t = "HASH"
  <2>0. IsHashPointer(v, s)
    BY <1>2 DEF IsHashPointer
  <2>1. CASE Deref(v, s).frozen \/ ~Hashable(i)
    BY <1>2, <2>1 DEF assignToIndex, Nil, newError, Ret
  <2>2. CASE ~Deref(v, s).frozen /\ Hashable(i)
    <3>1. r.st = PutPair(v, i, x, s)
      BY <1>2, <2>2 DEF assignToIndex, Nil, Ret
    <3> QED
      BY <2>0, <2>2, <3>1, PairPut
  <2> QED
    BY <2>1, <2>2
<1>3. CASE ~(v.t = "ARRAY" /\ i.t = "INTEGER") /\ v.t # "HASH"
  <2>1. \/ r = newError("immutable", s)
        \/ r = Crash(s)
        \/ r = newError("not_indexable", s)
    BY <1>3 DEF assignToIndex, Nil
  <2> QED
    BY <2>1 DEF newError, Crash, Ret
<1> QED
  BY <1>1, <1>2, <1>3

\* and the assignment to a member.
THEOREM MemberAssignmentStaysInItsStorage ==
    ASSUME NEW s, WellFormed(s), NEW v, Points(v, s), NEW x, NEW name
    PROVE  LET u == SetMember(v, name, x, s).st
           IN  u = s \/ WritesTo(v, s, u)
<1> DEFINE r == SetMember(v, name, x, s)
<1>1. CASE v.t = "INSTANCE"
  <2> DEFINE a == s.heap[v.ref]
             fs == (name :> x) @@ a.fields
             o == [a EXCEPT !.fields = fs]
  <2>1. v.ref \in DOMAIN s.heap /\ a.t = "INSTANCE" /\ "t" \in DOMAIN a
    BY <1>1 DEF Points, WellFormed
  <2>2. r.st = [s EXCEPT !.heap[v.ref] = o]
    <3>1. r.st = PutField(v, name, x, s)
      BY <1>1 DEF SetMember, Nil, Ret
    <3> QED
      BY <3>1 DEF PutField
  <2> HIDE DEF fs
  <2>3. "t" \in DOMAIN o /\ o.t = a.t
    BY <2>1
  <2> HIDE DEF o
  <2> QED
    BY <2>1, <2>2, <2>3, OtherWritten
<1>2. CASE v.t = "HASH"
  <2>0. IsHashPointer(v, s)
    BY <1>2 DEF IsHashPointer
  <2>1. CASE Deref(v, s).frozen
    <3>1. r = newError("frozen_hash", s)
      BY <1>2, <2>1 DEF SetMember, Nil
    <3> QED
      BY <3>1 DEF newError, Ret
  <2>2. CASE ~Deref(v, s).frozen
    <3>1. r = Ret(x, PutPair(v, Str(name), x, s))
      BY <1>2, <2>2 DEF SetMember, Nil
    <3>2. r.st = PutPair(v, Str(name), x, s)
      BY <3>1 DEF Ret
    <3> QED
      BY <2>0, <2>2, <3>2, PairPut
  <2> QED
    BY <2>1, <2>2
<1>3. CASE v.t # "INSTANCE" /\ v.t # "HASH"
  <2>1. r = Crash(s) \/ r = newError("not_an_instance", s)
    BY <1>3 DEF SetMember, Nil
  <2> QED
    BY <2>1 DEF newError, Crash, Ret
<1> QED
  BY <1>1, <1>2, <1>3

\* After a write, pointers to arrays still point to arrays.
LEMMA WrittenPointers ==
    ASSUME NEW s, WellFormed(s), NEW v, NEW w, NEW u, WritesTo(v, s, u),
           IsArray(w, s)
    PROVE  /\ IsArray(w, u)
           /\ w.ref # v.ref => Deref(w, u) = Deref(w, s)
BY DEF WritesTo, IsArray, Points, Deref

With(f, i, x) == [f EXCEPT ![i] = x]

\* A window before and after a write to one slot of its storage: it differs
\* in the element of that slot, if it has it.
LEMMA OneSlotWritten ==
    ASSUME NEW f, NEW g, IsSequence(f), IsSequence(g), NEW n \in Nat,
           Len(f) = n, Len(g) = n, NEW x, NEW slot,
           \A k \in 1..n : g[k] = IF k = slot THEN x ELSE f[k]
    PROVE  /\ slot \in 1..n => g = With(f, slot, x)
           /\ slot \notin 1..n => g = f
<1>1. slot \notin 1..n => g = f
  <2> SUFFICES ASSUME slot \notin 1..n PROVE g = f
    OBVIOUS
  <2>1. \A k \in 1..n : g[k] = f[k]
    OBVIOUS
  <2> QED
    BY <2>1, SameSequence
<1>2. slot \in 1..n => g = [f EXCEPT ![slot] = x]
  <2> SUFFICES ASSUME slot \in 1..n PROVE g = [f EXCEPT ![slot] = x]
    OBVIOUS
  <2> DEFINE h == [f EXCEPT ![slot] = x]
  <2>1. slot \in DOMAIN f /\ DOMAIN f = 1..n
    BY SequenceFacts
  <2>2. /\ IsSequence([f EXCEPT ![slot] = x])
        /\ Len([f EXCEPT ![slot] = x]) = Len(f)
        /\ DOMAIN [f EXCEPT ![slot] = x] = DOMAIN f
        /\ \A j \in DOMAIN f :
             [f EXCEPT ![slot] = x][j] = IF j = slot THEN x ELSE f[j]
    BY <2>1, SequenceUpdated, Zenon
  <2>3. IsSequence(h) /\ Len(h) = n /\ \A k \in 1..n : g[k] = h[k]
    BY <2>1, <2>2
  <2> HIDE DEF h
  <2>4. g = h
    BY <2>3, SameSequence
  <2> QED
    BY <2>4 DEF h
<1> QED
  BY <1>1, <1>2 DEF With

\* push appends to its array, and of the other arrays it changes exactly
\* those whose window holds the slot after it: there, one element (a slice
\* with room behind it is appended to in the storage it shares).
THEOREM PushTakesTheSlotAfter ==
    ASSUME NEW s, WellFormed(s), NEW v, IsArray(v, s), ~Deref(v, s).frozen,
           NEW x, NEW w, IsArray(w, s), w.ref # v.ref
    PROVE  LET a == Deref(v, s)
               d == Deref(w, s)
               u == AppendElement(v, x, s)
               slot == (a.off + a.len + 1) - d.off
               hit == d.back = a.back /\ slot \in 1..d.len
           IN  /\ Elements(v, u) = Append(Elements(v, s), x)
               /\ hit => Elements(w, u) = With(Elements(w, s), slot, x)
               /\ ~hit => Elements(w, u) = Elements(w, s)
<1> DEFINE a == Deref(v, s)
           d == Deref(w, s)
           u == AppendElement(v, x, s)
           p == a.off + a.len + 1
           e == Elements(v, s)
           f == Elements(w, s)
           e2 == Elements(v, u)
           f2 == Elements(w, u)
           b == Append(e, x)
           av == Deref(v, u)
<1>1. WritesTo(v, s, u) /\ WellFormed(u)
  BY Appended DEF WritesTo
<1>2. IsArray(v, u) /\ IsArray(w, u) /\ Deref(w, u) = d
  BY <1>1, WrittenPointers
<1>3. /\ a.off \in Nat /\ a.len \in Nat
      /\ a.back \in DOMAIN s.mem /\ Len(s.mem[a.back]) \in Nat
      /\ DOMAIN s.mem[a.back] = 1..Len(s.mem[a.back])
      /\ a.off + a.len <= Len(s.mem[a.back])
      /\ IsSequence(e) /\ Len(e) = a.len
      /\ \A k \in 1..a.len : e[k] = s.mem[a.back][a.off + k]
  BY ArrayFacts DEF Slices, Fits
<1>4. /\ d.off \in Nat /\ d.len \in Nat /\ d.back \in DOMAIN s.mem
      /\ Len(s.mem[d.back]) \in Nat /\ d.off + d.len <= Len(s.mem[d.back])
      /\ DOMAIN s.mem[d.back] = 1..Len(s.mem[d.back])
      /\ IsSequence(f) /\ Len(f) = d.len
      /\ \A k \in 1..d.len : f[k] = s.mem[d.back][d.off + k]
  BY ArrayFacts DEF Slices, Fits
<1>5. /\ IsSequence(e2) /\ Len(e2) = av.len
      /\ \A k \in 1..av.len : e2[k] = u.mem[av.back][av.off + k]
  BY <1>1, <1>2, ArrayFacts
<1>6. /\ IsSequence(f2) /\ Len(f2) = d.len
      /\ \A k \in 1..d.len : f2[k] = u.mem[d.back][d.off + k]
  BY <1>1, <1>2, ArrayFacts
<1>7. /\ IsSequence(b) /\ Len(b) = a.len + 1
      /\ \A k \in 1..a.len : b[k] = e[k]
      /\ b[a.len + 1] = x
  <2> HIDE DEF e, a
  <2>1. DOMAIN e = 1..a.len
    BY <1>3, SequenceFacts
  <2>2. /\ IsSequence(Append(e, x)) /\ Len(Append(e, x)) = Len(e) + 1
        /\ \A i \in DOMAIN e : Append(e, x)[i] = e[i]
        /\ Append(e, x)[Len(e) + 1] = x
    BY <1>3, SequenceAppended
  <2> QED
    BY <1>3, <2>1, <2>2
<1>8. /\ e2 = b
      /\ \/ /\ d.back = a.back
            /\ \A k \in 1..d.len :
                  u.mem[d.back][d.off + k] =
                      IF d.off + k = p THEN x ELSE s.mem[d.back][d.off + k]
         \/ ~(d.back = a.back /\ p - d.off \in 1..d.len) /\ f2 = f
  <2>1. CASE a.off + a.len < Len(s.mem[a.back])
    <3>1. /\ av.back = a.back /\ av.off = a.off /\ av.len = a.len + 1
          /\ \A i \in DOMAIN s.mem : i # a.back => u.mem[i] = s.mem[i]
          /\ \A j \in DOMAIN s.mem[a.back] :
                u.mem[a.back][j] = IF j = a.off + a.len + 1 THEN x
                                   ELSE s.mem[a.back][j]
      <4> HIDE DEF av
      <4> QED
        BY <2>1, AppendedInPlace DEF av
    <3> HIDE DEF u, a, d, av, e, f, e2, f2, b
    <3>2. \A k \in 1..(a.len + 1) : e2[k] = b[k]
      <4> SUFFICES ASSUME NEW k \in 1..(a.len + 1) PROVE e2[k] = b[k]
        OBVIOUS
      <4>1. /\ a.off + k \in DOMAIN s.mem[a.back]
            /\ e2[k] = u.mem[a.back][a.off + k]
        BY <1>3, <1>5, <2>1, <3>1
      <4>2. CASE k = a.len + 1
        BY <1>3, <1>7, <3>1, <4>1, <4>2
      <4>3. CASE k \in 1..a.len
        <5>1. a.off + k # a.off + a.len + 1
          BY <1>3, <4>3
        <5> QED
          BY <1>3, <1>7, <3>1, <4>1, <4>3, <5>1
      <4> QED
        BY <1>3, <4>2, <4>3
    <3>3. e2 = b
      BY <1>5, <1>7, <3>1, <3>2, SameSequence
    <3>4. CASE d.back = a.back
      <4>1. \A k \in 1..d.len : d.off + k \in DOMAIN s.mem[a.back]
        BY <1>4, <3>4
      <4>2. \A k \in 1..d.len :
               u.mem[d.back][d.off + k] =
                   IF d.off + k = p THEN x ELSE s.mem[d.back][d.off + k]
        BY <3>1, <3>4, <4>1
      <4> QED
        BY <3>3, <3>4, <4>2
    <3>5. CASE d.back # a.back
      <4>1. \A k \in 1..d.len : f2[k] = f[k]
        BY <1>4, <1>6, <3>1, <3>5
      <4>2. f2 = f
        BY <1>4, <1>6, <4>1, SameSequence
      <4> QED
        BY <3>3, <3>5, <4>2
    <3> QED
      BY <3>4, <3>5
  <2>2. CASE ~(a.off + a.len < Len(s.mem[a.back]))
    <3>1. /\ av.back = Len(s.mem) + 1 /\ av.off = 0 /\ av.len = a.len + 1
          /\ \A i \in DOMAIN s.mem : u.mem[i] = s.mem[i]
          /\ \A k \in 1..a.len : u.mem[Len(s.mem) + 1][k] = e[k]
          /\ u.mem[Len(s.mem) + 1][a.len + 1] = x
      BY <2>2, AppendedMoved
    <3> HIDE DEF u, a, d, av, e, f, e2, f2, b
    <3>2. \A k \in 1..(a.len + 1) : e2[k] = b[k]
      <4> SUFFICES ASSUME NEW k \in 1..(a.len + 1) PROVE e2[k] = b[k]
        OBVIOUS
      <4>1. e2[k] = u.mem[Len(s.mem) + 1][k]
        BY <1>3, <1>5, <3>1
      <4>2. k \in 1..a.len \/ k = a.len + 1
        BY <1>3
      <4> QED
        BY <1>7, <3>1, <4>1, <4>2
    <3>3. e2 = b
      BY <1>5, <1>7, <3>1, <3>2, SameSequence
    <3>4. \A k \in 1..d.len : f2[k] = f[k]
      BY <1>4, <1>6, <3>1
    <3>5. f2 = f
      BY <1>4, <1>6, <3>4, SameSequence
    <3>6. ASSUME d.back = a.back, p - d.off \in 1..d.len PROVE FALSE
      <4>1. p <= d.off + d.len
        BY <1>3, <1>4, <3>6
      <4>2. p > Len(s.mem[a.back])
        BY <1>3, <2>2
      <4>3. Len(s.mem[d.back]) = Len(s.mem[a.back])
        BY <3>6
      <4> QED
        BY <1>3, <1>4, <4>1, <4>2, <4>3
    <3> QED
      BY <3>3, <3>5, <3>6
  <2> QED
    BY <2>1, <2>2
<1>9. /\ (d.back = a.back /\ p - d.off \in 1..d.len)
            => f2 = With(f, p - d.off, x)
      /\ ~(d.back = a.back /\ p - d.off \in 1..d.len) => f2 = f
  <2> HIDE DEF u, a, d, av, e, f, e2, f2, b
  <2>1. p \in Nat
    BY <1>3
  <2> HIDE DEF p
  <2>2. CASE /\ d.back = a.back
             /\ \A k \in 1..d.len :
                  u.mem[d.back][d.off + k] =
                      IF d.off + k = p THEN x ELSE s.mem[d.back][d.off + k]
    <3> DEFINE n == d.len
               off == d.off
               slot == p - d.off
    <3>1. \A k \in 1..n : (off + k = p <=> k = slot)
      BY <1>4, <2>1
    <3> HIDE DEF slot
    <3>2. /\ n \in Nat /\ IsSequence(f) /\ IsSequence(f2)
          /\ Len(f) = n /\ Len(f2) = n
          /\ \A k \in 1..n : f2[k] = IF k = slot THEN x ELSE f[k]
      BY <1>4, <1>6, <2>2, <3>1
    <3> HIDE DEF n, off
    <3>3. /\ slot \in 1..n => f2 = With(f, slot, x)
          /\ slot \notin 1..n => f2 = f
      BY <3>2, OneSlotWritten
    <3> QED
      BY <2>2, <3>3 DEF n, slot
  <2>3. CASE ~(d.back = a.back /\ p - d.off \in 1..d.len) /\ f2 = f
    BY <2>3
  <2> QED
    BY <1>8, <2>2, <2>3
<1> QED
  BY <1>8, <1>9

-----------------------------------------------------------------------------
(* Any sequence of these operations.  What an operation is given is what   *)
(* its caller in evalBuiltin and Eval has made sure of: values point to    *)
(* objects of their types, and integers are integers.                      *)

LEMMA SliceExpressionAllocates ==
    ASSUME NEW s, WellFormed(s), NEW v, Points(v, s), NEW i, NEW j,
           i.t = "INTEGER" => i.int \in Int, j.t = "INTEGER" => j.int \in Int
    PROVE  LET u == evalSliceExpression(v, i, j, s).st
           IN  u = s \/ Allocates(s, u)
<1> DEFINE r == evalSliceExpression(v, i, j, s)
<1>1. CASE i.t # "INTEGER" \/ j.t # "INTEGER"
  <2>1. r = newError("not_an_index", s)
    BY <1>1 DEF evalSliceExpression
  <2> QED
    BY <2>1 DEF newError, Ret
<1>2. CASE i.t = "INTEGER" /\ j.t = "INTEGER" /\ v.t = "ARRAY"
  <2> DEFINE n == Deref(v, s).len
             from == Within(i.int, n)
             to == IF j.int < 0 THEN n ELSE Within(j.int, n)
             f == Deref(v, s).frozen
  <2>1. IsArray(v, s) /\ n \in Nat /\ f \in BOOLEAN
    BY <1>2, ArrayFacts DEF IsArray, Slices
  <2>2. i.int \in Int /\ j.int \in Int
    BY <1>2
  <2>3. from \in 0..n /\ to \in 0..n
    <3> HIDE DEF n
    <3> QED
      BY <2>1, <2>2 DEF Within
  <2>4. r = IF from > to THEN NewArray(<<>>, 0, s)
            ELSE SliceOf(v, from, to, f, s)
    BY <1>2 DEF evalSliceExpression
  <2>5. CASE from > to
    BY <2>4, <2>5, EmptyTaken
  <2>6. CASE ~(from > to)
    <3> HIDE DEF from, to, f
    <3>1. from \in Nat /\ to \in Nat /\ from <= to /\ to <= Deref(v, s).len
      BY <2>1, <2>3, <2>6
    <3>2. Allocates(s, SliceOf(v, from, to, f, s).st)
      BY <2>1, <3>1, SliceTaken
    <3> QED
      BY <2>4, <2>6, <3>2
  <2> QED
    BY <2>5, <2>6
<1>3. CASE i.t = "INTEGER" /\ j.t = "INTEGER" /\ v.t # "ARRAY"
  <2>1. \/ \E x : r = Ret(x, s)
        \/ r = newError("not_sliceable", s)
    BY <1>3 DEF evalSliceExpression
  <2> QED
    BY <2>1 DEF newError, Ret
<1> QED
  BY <1>1, <1>2, <1>3

\* The arguments of slice, take and drop, after the array.
Indices(args) ==
    /\ Len(args) \in {2, 3}
    /\ \A k \in 2..Len(args) : args[k].t = "INTEGER" => args[k].int \in Int

\* slice, take and drop only make a new array, or panic.
LEMMA SliceBuiltinsAllocate ==
    ASSUME NEW s, WellFormed(s), NEW v, IsArray(v, s), NEW args, Indices(args)
    PROVE  LET u == builtinSlice(v, args, s).st
               t == builtinTake(v, args, s).st
               d == builtinDrop(v, args, s).st
           IN  /\ u = s \/ Allocates(s, u)
               /\ t = s \/ Allocates(s, t)
               /\ d = s \/ Allocates(s, d)
<1> DEFINE n == Deref(v, s).len
           i == IF args[2].int < 0 THEN 0 ELSE args[2].int
           j == IF Len(args) = 3 /\ args[3].int < n THEN args[3].int ELSE n
           f == Deref(v, s).frozen
           k == Within(args[2].int, n)
           no == FALSE
           zero == 0
<1>1. n \in Nat /\ f \in BOOLEAN
  BY ArrayFacts DEF Slices
<1>2. CASE ~Ints(args)
  <2>1. /\ builtinSlice(v, args, s) = Crash(s)
        /\ builtinTake(v, args, s) = Crash(s)
        /\ builtinDrop(v, args, s) = Crash(s)
    BY <1>2 DEF builtinSlice, builtinTake, builtinDrop
  <2> QED
    BY <2>1 DEF Crash, Ret
<1>3. CASE Ints(args)
  <2>1. args[2].int \in Int /\ (Len(args) = 3 => args[3].int \in Int)
    BY <1>3 DEF Ints, Indices
  <2>2. /\ i \in Nat /\ j \in Int /\ j <= n
        /\ k \in Nat /\ k <= n
        /\ zero \in Nat /\ zero <= k /\ no \in BOOLEAN
    <3> HIDE DEF n
    <3> QED
      BY <1>1, <2>1 DEF Within
  <2>3. /\ builtinSlice(v, args, s) =
             IF i > j THEN NewArray(<<>>, 0, s) ELSE SliceOf(v, i, j, f, s)
        /\ builtinTake(v, args, s) = SliceOf(v, zero, k, no, s)
        /\ builtinDrop(v, args, s) =
             IF i > n THEN NewArray(<<>>, 0, s) ELSE SliceOf(v, i, n, no, s)
    BY <1>3 DEF builtinSlice, builtinTake, builtinDrop
  <2> HIDE DEF i, j, f, k, no, zero
  <2>4. Allocates(s, NewArray(<<>>, 0, s).st)
    BY EmptyTaken
  <2>5. ~(i > j) => Allocates(s, SliceOf(v, i, j, f, s).st)
    <3> SUFFICES ASSUME ~(i > j) PROVE Allocates(s, SliceOf(v, i, j, f, s).st)
      OBVIOUS
    <3>1. i <= j /\ j \in Nat
      BY <2>2
    <3> QED
      BY <1>1, <2>2, <3>1, SliceTaken
  <2>6. Allocates(s, SliceOf(v, zero, k, no, s).st)
    BY <2>2, SliceTaken
  <2>7. ~(i > n) => Allocates(s, SliceOf(v, i, n, no, s).st)
    <3> SUFFICES ASSUME ~(i > n) PROVE Allocates(s, SliceOf(v, i, n, no, s).st)
      OBVIOUS
    <3>1. i <= n /\ n <= Deref(v, s).len
      BY <1>1, <2>2
    <3> HIDE DEF n
    <3> QED
      BY <1>1, <2>2, <3>1, SliceTaken
  <2> QED
    BY <2>3, <2>4, <2>5, <2>6, <2>7
<1> QED
  BY <1>2, <1>3

\* A literal, a constructor or a call of a generator makes an object.
Making(s, u) ==
    \/ \E vs : \E cap \in Nat : /\ IsSequence(vs) /\ cap >= Len(vs)
                                /\ u = NewArray(vs, cap, s).st
    \/ \E pairs : u = NewHash(pairs, s).st
    \/ \E o : /\ "t" \in DOMAIN o /\ o.t \notin {"ARRAY", "HASH"}
              /\ u = Alloc(o, s).st

Slicing(s, u) ==
    \/ \E v, i, j : /\ Points(v, s)
                    /\ i.t = "INTEGER" => i.int \in Int
                    /\ j.t = "INTEGER" => j.int \in Int
                    /\ u = evalSliceExpression(v, i, j, s).st
    \/ \E v, args : /\ IsArray(v, s) /\ Indices(args)
                    /\ u \in {builtinSlice(v, args, s).st,
                              builtinTake(v, args, s).st,
                              builtinDrop(v, args, s).st}

\* The last: a generator advances, an instance's constructor sets its fields.
Writing(s, u) ==
    \/ \E v, i, x : /\ Points(v, s)
                    /\ i.t = "INTEGER" => i.int \in Int
                    /\ u = assignToIndex(v, i, x, s).st
    \/ \E v, name, x : Points(v, s) /\ u = SetMember(v, name, x, s).st
    \/ \E n \in Mutators : \E args : /\ Applicable(n, args, s)
                                     /\ u = mutate(n, args, s).st
    \/ \E v, o : /\ v.ref \in DOMAIN s.heap
                 /\ s.heap[v.ref].t \notin {"ARRAY", "HASH"}
                 /\ "t" \in DOMAIN o /\ o.t = s.heap[v.ref].t
                 /\ u = [s EXCEPT !.heap[v.ref] = o]

Freezing(s, u) ==
    \E refs \in SUBSET {i \in DOMAIN s.heap :
                           s.heap[i].t \in {"ARRAY", "HASH"}} :
        u = Freeze(refs, s)

Operation(s, u) ==
    Making(s, u) \/ Slicing(s, u) \/ Writing(s, u) \/ Freezing(s, u)

\* The operations by kind.
LEMMA MakingAllocates ==
    ASSUME NEW s, WellFormed(s), NEW u, Making(s, u)
    PROVE  Allocates(s, u)
<1>1. CASE \E vs : \E cap \in Nat : /\ IsSequence(vs) /\ cap >= Len(vs)
                                    /\ u = NewArray(vs, cap, s).st
  BY <1>1, ArrayAllocation
<1>2. CASE \E pairs : u = NewHash(pairs, s).st
  BY <1>2, HashAllocation
<1>3. CASE \E o : /\ "t" \in DOMAIN o /\ o.t \notin {"ARRAY", "HASH"}
                  /\ u = Alloc(o, s).st
  BY <1>3, Allocation
<1> QED
  BY <1>1, <1>2, <1>3 DEF Making

LEMMA SlicingAllocates ==
    ASSUME NEW s, WellFormed(s), NEW u, Slicing(s, u)
    PROVE  u = s \/ Allocates(s, u)
<1>1. CASE \E v, i, j : /\ Points(v, s)
                        /\ i.t = "INTEGER" => i.int \in Int
                        /\ j.t = "INTEGER" => j.int \in Int
                        /\ u = evalSliceExpression(v, i, j, s).st
  BY <1>1, SliceExpressionAllocates
<1>2. CASE \E v, args : /\ IsArray(v, s) /\ Indices(args)
                        /\ u \in {builtinSlice(v, args, s).st,
                                  builtinTake(v, args, s).st,
                                  builtinDrop(v, args, s).st}
  BY <1>2, SliceBuiltinsAllocate
<1> QED
  BY <1>1, <1>2 DEF Slicing

LEMMA WritingStays ==
    ASSUME NEW s, WellFormed(s), NEW u, Writing(s, u)
    PROVE  u = s \/ \E v : WritesTo(v, s, u)
<1>1. CASE \E v, i, x : /\ Points(v, s)
                        /\ i.t = "INTEGER" => i.int \in Int
                        /\ u = assignToIndex(v, i, x, s).st
  BY <1>1, IndexAssignmentStaysInItsStorage
<1>2. CASE \E v, name, x : Points(v, s) /\ u = SetMember(v, name, x, s).st
  BY <1>2, MemberAssignmentStaysInItsStorage
<1>3. CASE \E n \in Mutators : \E args : /\ Applicable(n, args, s)
                                         /\ u = mutate(n, args, s).st
  BY <1>3, MutatorsStayInTheirStorage
<1>4. CASE \E v, o : /\ v.ref \in DOMAIN s.heap
                     /\ s.heap[v.ref].t \notin {"ARRAY", "HASH"}
                     /\ "t" \in DOMAIN o /\ o.t = s.heap[v.ref].t
                     /\ u = [s EXCEPT !.heap[v.ref] = o]
  <2>1. PICK v, o : /\ v.ref \in DOMAIN s.heap
                    /\ s.heap[v.ref].t \notin {"ARRAY", "HASH"}
                    /\ "t" \in DOMAIN o /\ o.t = s.heap[v.ref].t
                    /\ u = [s EXCEPT !.heap[v.ref] = o]
    BY <1>4, Zenon
  <2>2. WritesTo(v, s, [s EXCEPT !.heap[v.ref] = o])
    BY <2>1, OtherWritten, Zenon
  <2>3. WritesTo(v, s, u)
    BY <2>1, <2>2, Zenon
  <2> QED
    BY <2>3
<1> QED
  BY <1>1, <1>2, <1>3, <1>4 DEF Writing

\* One operation keeps both promises.
LEMMA OperationsAreSafe ==
    ASSUME NEW s, WellFormed(s), NEW u, Operation(s, u)
    PROVE  WellFormed(u) /\ KeepsFrozen(s, u)
<1>1. KeepsFrozen(s, s)
  BY DEF KeepsFrozen
<1>2. CASE u = s
  BY <1>1, <1>2
<1>3. CASE Allocates(s, u)
  BY <1>3, AllocatingKeepsFrozen DEF Allocates
<1>4. CASE \E v : WritesTo(v, s, u)
  BY <1>4, WritingKeepsFrozen DEF WritesTo
<1>5. CASE Freezing(s, u)
  BY <1>5, FreezingKeepsFrozen DEF Freezing
<1> QED
  BY <1>2, <1>3, <1>4, <1>5, MakingAllocates, SlicingAllocates, WritingStays
     DEF Operation

VARIABLE store

Init == store = [heap |-> <<>>, mem |-> <<>>]
Next == Operation(store, store')
Spec == Init /\ [][Next]_store

\* However a program makes, slices, writes and freezes its arrays and hashes,
\* every array lies within its storage (a Go slice never panics when it is
\* read or cut again).
THEOREM ArraysLieInTheirStorage ==
    Spec => []WellFormed(store)
<1>1. Init => WellFormed(store)
  <2> SUFFICES ASSUME Init PROVE WellFormed(store)
    OBVIOUS
  <2>1. /\ store.heap = <<>> /\ store.mem = <<>>
        /\ {"heap", "mem"} \subseteq DOMAIN store
    BY DEF Init
  <2>2. IsSequence(<<>>) /\ DOMAIN <<>> = {}
    BY DEF IsSequence
  <2> QED
    BY <2>1, <2>2 DEF WellFormed
<1>2. WellFormed(store) /\ [Next]_store => WellFormed(store)'
  <2> SUFFICES ASSUME WellFormed(store), Next PROVE WellFormed(store')
    BY DEF WellFormed
  <2> QED
    BY OperationsAreSafe DEF Next
<1> QED
  BY <1>1, <1>2, PTL DEF Spec

\* and no operation changes a frozen array or hash, or thaws it, unless an
\* array that is not frozen shares its storage (deepFreezeInPlace, and the
\* test of the flag in every builtin and assignment that writes).
THEOREM FrozenStaysFrozen ==
    Spec => [][KeepsFrozen(store, store')]_store
<1>1. WellFormed(store) /\ [Next]_store => [KeepsFrozen(store, store')]_store
  BY OperationsAreSafe DEF Next
<1> QED
  BY <1>1, ArraysLieInTheirStorage, PTL DEF Spec

=============================================================================
