----------------------------- MODULE SequenceFolds -----------------------------
(***************************************************************************)
(* Induction over sequences, and what it says of three operators whose     *)
(* definitions are recursive: a fold, a filter, and the concatenation of a *)
(* sequence of sequences.  Each becomes equations that a proof can use,    *)
(* one element or one part of the sequence at a time.                      *)
(*                                                                         *)
(* The operator of a fold is a parameter of the module and not of its      *)
(* theorems: the facts about Fold are cited from an instance of the module *)
(* for the operator of a specification.  All others do not mention Op, and *)
(* a module that extends this one has them.                                *)
(***************************************************************************)
EXTENDS Filters, SequenceTheorems, FiniteSetTheorems, WellFoundedInduction, TLAPS

CONSTANT Op(_, _)

-----------------------------------------------------------------------------
(* Induction over the naturals, about membership.                          *)
LEMMA NatInduct ==
  ASSUME NEW S, 0 \in S, \A n \in Nat : n \in S => n + 1 \in S
  PROVE  \A n \in Nat : n \in S
<1> SUFFICES ASSUME NEW k \in Nat, k \notin S  PROVE FALSE
  OBVIOUS
<1> DEFINE R == OpToRel(<, Nat)
           T == {n \in Nat : n \notin S}
<1>1. IsWellFoundedOn(R, Nat)
  BY NatLessThanWellFounded
<1>2. T \subseteq Nat /\ T # {}
  OBVIOUS
<1>3. PICK x \in T : \A y \in T : <<y, x>> \notin R
  <2> HIDE DEF R, T
  <2> QED
    BY <1>1, <1>2, WFMin
<1>4. x # 0 /\ x - 1 \in T
  OBVIOUS
<1>5. <<x - 1, x>> \in R
  BY <1>4 DEF OpToRel
<1> QED
  BY <1>3, <1>4, <1>5

-----------------------------------------------------------------------------
(* The provers take an equation between sequences apart, element by        *)
(* element, wherever they see \o and Append.  Under names of their own     *)
(* these are operators like any other, and obey the equations below.       *)
Cat(u, w) == u \o w

Add(w, x) == Append(w, x)

LEMMA CatType ==
  ASSUME NEW S, NEW u \in Seq(S), NEW w \in Seq(S)
  PROVE  /\ Cat(u, w) \in Seq(S)
         /\ Len(Cat(u, w)) = Len(u) + Len(w)
         /\ \A i \in 1 .. Len(u) : Cat(u, w)[i] = u[i]
         /\ \A i \in 1 .. Len(w) : Cat(u, w)[Len(u) + i] = w[i]
BY DEF Cat

LEMMA AddType ==
  ASSUME NEW S, NEW w \in Seq(S), NEW x \in S
  PROVE  /\ Add(w, x) \in Seq(S)
         /\ Len(Add(w, x)) = Len(w) + 1
         /\ \A i \in 1 .. Len(w) : Add(w, x)[i] = w[i]
         /\ Add(w, x)[Len(w) + 1] = x
BY DEF Add

LEMMA CatEmpty ==
  ASSUME NEW S, NEW w \in Seq(S)
  PROVE  Cat(w, <<>>) = w /\ Cat(<<>>, w) = w
BY DEF Cat

LEMMA CatAssociative ==
  ASSUME NEW S, NEW u \in Seq(S), NEW v \in Seq(S), NEW w \in Seq(S)
  PROVE  Cat(Cat(u, v), w) = Cat(u, Cat(v, w))
BY ConcatAssociative DEF Cat

LEMMA CatAdd ==
  ASSUME NEW S, NEW u \in Seq(S), NEW w \in Seq(S), NEW x \in S
  PROVE  Add(Cat(u, w), x) = Cat(u, Add(w, x))
BY DEF Cat, Add

LEMMA AddIsCat ==
  ASSUME NEW S, NEW w \in Seq(S), NEW x \in S
  PROVE  Add(w, x) = Cat(w, <<x>>)
BY DEF Cat, Add

LEMMA OneIsAdd == ASSUME NEW x  PROVE <<x>> = Add(<<>>, x)
BY DEF Add

(* Induction over sequences, about membership.                             *)
LEMMA SeqInduct ==
  ASSUME NEW S, NEW T, <<>> \in T, \A w \in Seq(S), x \in S : w \in T => Add(w, x) \in T
  PROVE  Seq(S) \subseteq T
<1> DEFINE N == {n \in Nat : \A w \in Seq(S) : Len(w) = n => w \in T}
<1>1. 0 \in N
  <2>1. \A w \in Seq(S) : Len(w) = 0 => w = <<>>
    OBVIOUS
  <2> QED
    BY <2>1
<1>2. ASSUME NEW n \in Nat, n \in N  PROVE n + 1 \in N
  <2> SUFFICES ASSUME NEW w \in Seq(S), Len(w) = n + 1  PROVE w \in T
    OBVIOUS
  <2> DEFINE v == SubSeq(w, 1, n)
  <2>1. v \in Seq(S) /\ Len(v) = n /\ w[n + 1] \in S /\ w = Add(v, w[n + 1])
    BY DEF Add
  <2>2. v \in T
    BY <1>2, <2>1
  <2> HIDE DEF v
  <2> QED
    BY <2>1, <2>2
<1> HIDE DEF N
<1>3. \A n \in Nat : n \in N
  BY <1>1, <1>2, NatInduct
<1>4. ASSUME NEW w \in Seq(S)  PROVE w \in T
  <2>1. Len(w) \in Nat
    OBVIOUS
  <2> QED
    BY <1>3, <2>1 DEF N
<1> QED
  BY <1>4

(* A prefix and what comes next.                                           *)
LEMMA Prefix ==
  ASSUME NEW S, NEW w \in Seq(S)
  PROVE  /\ SubSeq(w, 1, 0) = <<>> /\ SubSeq(w, 1, Len(w)) = w
         /\ \A k \in 0 .. Len(w) : SubSeq(w, 1, k) \in Seq(S) /\ Len(SubSeq(w, 1, k)) = k
         /\ \A k \in 0 .. (Len(w) - 1) : SubSeq(w, 1, k + 1) = Add(SubSeq(w, 1, k), w[k + 1])
<1>1. \A k \in 0 .. (Len(w) - 1) : SubSeq(w, 1, k + 1) = Add(SubSeq(w, 1, k), w[k + 1])
  BY DEF Add
<1> QED
  BY <1>1

-----------------------------------------------------------------------------
(* f is the run of Op over the first n elements of w, beginning at b.      *)
IsRun(f, b, w, n) ==
  f = [i \in 0 .. n |-> IF i = 0 THEN b ELSE Op(f[i - 1], w[i])]

LEMMA RunExists == \A n \in Nat : \A w, b : \E f : IsRun(f, b, w, n)
<1> DEFINE S == {n \in Nat : \A w, b : \E f : IsRun(f, b, w, n)}
<1>1. 0 \in S
  <2> SUFFICES ASSUME NEW w, NEW b  PROVE \E f : IsRun(f, b, w, 0)
    OBVIOUS
  <2> DEFINE f == [i \in 0 .. 0 |-> b]
  <2>1. IsRun(f, b, w, 0)
    BY DEF IsRun
  <2> QED
    BY <2>1
<1>2. ASSUME NEW n \in Nat, n \in S  PROVE n + 1 \in S
  <2> SUFFICES ASSUME NEW w, NEW b  PROVE \E f : IsRun(f, b, w, n + 1)
    OBVIOUS
  <2>1. PICK f : IsRun(f, b, w, n)
    BY <1>2
  <2> DEFINE g == [i \in 0 .. (n + 1) |-> IF i = n + 1 THEN Op(f[n], w[n + 1]) ELSE f[i]]
  <2>2. \A i \in 0 .. n : f[i] = IF i = 0 THEN b ELSE Op(f[i - 1], w[i])
    BY <2>1 DEF IsRun
  <2>3. \A i \in 0 .. (n + 1) : g[i] = IF i = 0 THEN b ELSE Op(g[i - 1], w[i])
    BY <2>2
  <2>4. g = [i \in 0 .. (n + 1) |-> IF i = 0 THEN b ELSE Op(g[i - 1], w[i])]
    BY <2>3
  <2> QED
    BY <2>4 DEF IsRun
<1> HIDE DEF S
<1>3. \A n \in Nat : n \in S
  BY <1>1, <1>2, NatInduct
<1> QED
  BY <1>3 DEF S

(* What a run is, step by step.                                            *)
LEMMA RunStep ==
  ASSUME NEW n \in Nat, NEW w, NEW b, NEW f, IsRun(f, b, w, n)
  PROVE  f[0] = b /\ \A i \in 0 .. (n - 1) : f[i + 1] = Op(f[i], w[i + 1])
<1>1. \A i \in 0 .. n : f[i] = IF i = 0 THEN b ELSE Op(f[i - 1], w[i])
  BY DEF IsRun
<1>2. ASSUME NEW i \in 0 .. (n - 1)  PROVE f[i + 1] = Op(f[i], w[i + 1])
  <2>1. i + 1 \in 0 .. n /\ i + 1 # 0 /\ (i + 1) - 1 = i
    OBVIOUS
  <2>2. f[i + 1] = Op(f[(i + 1) - 1], w[i + 1])
    BY <1>1, <2>1, Zenon
  <2> QED
    BY <2>1, <2>2, Zenon
<1> QED
  BY <1>1, <1>2

LEMMA RunUnique ==
  ASSUME NEW n \in Nat, NEW w, NEW v, NEW b, NEW f, NEW m \in 0 .. n, NEW g,
         IsRun(f, b, w, n), IsRun(g, b, v, m), \A i \in 1 .. m : w[i] = v[i]
  PROVE  \A i \in 0 .. m : f[i] = g[i]
<1> DEFINE S == {i \in Nat : i <= m => f[i] = g[i]}
<1>0. /\ \A i \in 0 .. n : f[i] = IF i = 0 THEN b ELSE Op(f[i - 1], w[i])
      /\ \A i \in 0 .. m : g[i] = IF i = 0 THEN b ELSE Op(g[i - 1], v[i])
  BY DEF IsRun
<1>1. 0 \in S
  BY <1>0
<1>2. ASSUME NEW i \in Nat, i \in S  PROVE i + 1 \in S
  BY <1>0, <1>2
<1> HIDE DEF S
<1>3. \A i \in Nat : i \in S
  BY <1>1, <1>2, NatInduct
<1> QED
  BY <1>3 DEF S

-----------------------------------------------------------------------------
(* The folds.                                                              *)

LEMMA MaxIs ==
  ASSUME NEW k \in Nat, NEW s \in SUBSET (1 .. k), k \in s
  PROVE  Max(s) = k
<1>1. \A y \in s : k >= y
  OBVIOUS
<1>2. \A x \in s : (\A y \in s : x >= y) => x = k
  <2> SUFFICES ASSUME NEW x \in s, \A y \in s : x >= y  PROVE x = k
    OBVIOUS
  <2>1. x \in 1 .. k /\ x >= k
    OBVIOUS
  <2> QED
    BY <2>1
<1> QED
  BY <1>1, <1>2 DEF Max

(* The fold over the indices of w is the last state of the run.            *)
LEMMA FoldIsRun ==
  ASSUME NEW n \in Nat, NEW w, DOMAIN w = 1 .. n, NEW b, NEW f, IsRun(f, b, w, n)
  PROVE  FoldLeft(Op, b, w) = f[n]
<1> DEFINE Iter(g, m) ==
             g = [s \in SUBSET (1 .. m) |-> IF s = {} THEN b ELSE Op(g[s \ {Max(s)}], w[Max(s)])]
<1>1. \A m \in Nat : \E g : Iter(g, m)
  <2> DEFINE S == {m \in Nat : \E g : Iter(g, m)}
  <2>1. 0 \in S
    <3> DEFINE g == [s \in SUBSET (1 .. 0) |-> b]
    <3>1. \A s \in SUBSET (1 .. 0) : s = {}
      OBVIOUS
    <3>2. g = [s \in SUBSET (1 .. 0) |->
                 IF s = {} THEN b ELSE Op(g[s \ {Max(s)}], w[Max(s)])]
      BY <3>1
    <3> QED
      BY <3>2
  <2>2. ASSUME NEW m \in Nat, m \in S  PROVE m + 1 \in S
    <3>1. PICK g : Iter(g, m)
      BY <2>2
    <3> DEFINE h == [s \in SUBSET (1 .. (m + 1)) |->
                       IF m + 1 \in s THEN Op(g[s \ {m + 1}], w[m + 1]) ELSE g[s]]
    <3>2. ASSUME NEW s \in SUBSET (1 .. (m + 1)), s # {}
          PROVE  h[s] = Op(h[s \ {Max(s)}], w[Max(s)])
      <4>1. CASE m + 1 \in s
        <5>1. Max(s) = m + 1
          BY <4>1, MaxIs
        <5> QED
          BY <4>1, <5>1
      <4>2. CASE m + 1 \notin s
        <5>1. s \in SUBSET (1 .. m) /\ s \ {Max(s)} \in SUBSET (1 .. m)
          <6>1. s \subseteq 1 .. m
            BY <4>2
          <6> QED
            BY <6>1
        <5>2. g[s] = Op(g[s \ {Max(s)}], w[Max(s)])
          <6> HIDE DEF h
          <6> QED
            BY <3>1, <3>2, <5>1, Zenon
        <5> QED
          BY <4>2, <5>1, <5>2
      <4> QED
        BY <4>1, <4>2
    <3>3. h[{}] = b
      BY <3>1
    <3>4. h = [s \in SUBSET (1 .. (m + 1)) |->
                 IF s = {} THEN b ELSE Op(h[s \ {Max(s)}], w[Max(s)])]
      <4> HIDE DEF h
      <4>1. \A s \in SUBSET (1 .. (m + 1)) :
              h[s] = IF s = {} THEN b ELSE Op(h[s \ {Max(s)}], w[Max(s)])
        BY <3>2, <3>3
      <4>2. h = [s \in SUBSET (1 .. (m + 1)) |-> h[s]]
        BY DEF h
      <4> QED
        BY <4>1, <4>2, Zenon
    <3> HIDE DEF h
    <3>5. Iter(h, m + 1)
      BY <3>4
    <3> HIDE DEF Iter
    <3> QED
      BY <3>5
  <2> HIDE DEF S
  <2>3. \A m \in Nat : m \in S
    BY <2>1, <2>2, NatInduct
  <2> QED
    BY <2>3 DEF S
<1> DEFINE iter == CHOOSE g : Iter(g, n)
<1>2. Iter(iter, n)
  BY <1>1
<1>3. FoldLeft(Op, b, w) = iter[1 .. n]
  BY Zenon DEF FoldLeft, MapThenFoldSet
<1> DEFINE h == [k \in 0 .. n |-> iter[1 .. k]]
<1> HIDE DEF iter
<1>4. IsRun(h, b, w, n)
  <2>1. ASSUME NEW k \in 0 .. n  PROVE h[k] = IF k = 0 THEN b ELSE Op(h[k - 1], w[k])
    <3>1. iter[1 .. k] = IF 1 .. k = {} THEN b ELSE Op(iter[(1 .. k) \ {Max(1 .. k)}], w[Max(1 .. k)])
      <4>1. 1 .. k \in SUBSET (1 .. n)
        OBVIOUS
      <4> QED
        BY <1>2, <4>1, Zenon
    <3>2. CASE k = 0
      BY <3>1, <3>2
    <3>3. CASE k > 0
      <4>1. Max(1 .. k) = k
        BY <3>3, MaxIs
      <4>2. (1 .. k) \ {k} = 1 .. (k - 1) /\ 1 .. k # {} /\ k - 1 \in 0 .. n
        BY <3>3
      <4>3. iter[1 .. k] = Op(iter[1 .. (k - 1)], w[k])
        BY <3>1, <4>1, <4>2, Zenon
      <4>4. h[k] = iter[1 .. k] /\ h[k - 1] = iter[1 .. (k - 1)]
        BY <4>2
      <4> HIDE DEF h
      <4> QED
        BY <3>3, <4>3, <4>4
    <3> QED
      BY <3>2, <3>3
  <2>2. h = [k \in 0 .. n |-> h[k]]
    OBVIOUS
  <2> HIDE DEF h
  <2> QED
    BY <2>1, <2>2 DEF IsRun
<1>5. n \in 0 .. n /\ \A i \in 1 .. n : w[i] = w[i]
  OBVIOUS
<1>6. h[n] = f[n]
  <2> HIDE DEF h
  <2> QED
    BY <1>4, <1>5, RunUnique
<1> QED
  BY <1>3, <1>5, <1>6

Fold(b, w) == FoldLeft(Op, b, w)

(* A fold has a run, and ends where it ends.                               *)
LEMMA FoldRun ==
  ASSUME NEW S, NEW w \in Seq(S), NEW b
  PROVE  \E f : IsRun(f, b, w, Len(w)) /\ Fold(b, w) = f[Len(w)]
BY RunExists, FoldIsRun DEF Fold

LEMMA FoldEmpty == ASSUME NEW b  PROVE Fold(b, <<>>) = b
<1>1. PICK f : IsRun(f, b, <<>>, 0)
  BY RunExists
<1>2. Fold(b, <<>>) = f[0]
  BY <1>1, FoldIsRun DEF Fold
<1> QED
  BY <1>1, <1>2 DEF IsRun

LEMMA FoldAdd ==
  ASSUME NEW S, NEW w \in Seq(S), NEW x \in S, NEW b
  PROVE  Fold(b, Add(w, x)) = Op(Fold(b, w), x)
<1> DEFINE v == Add(w, x)
           n == Len(w)
<1>1. v \in Seq(S) /\ Len(v) = n + 1 /\ n \in Nat /\ v[n + 1] = x /\ \A i \in 1 .. n : v[i] = w[i]
  BY DEF Add
<1> HIDE DEF v
<1>2. PICK f : IsRun(f, b, w, n) /\ Fold(b, w) = f[n]
  BY FoldRun
<1>3. PICK g : IsRun(g, b, v, n + 1) /\ Fold(b, v) = g[n + 1]
  BY <1>1, FoldRun
<1>4. g[n] = f[n]
  <2>1. n \in 0 .. (n + 1) /\ n \in 0 .. n /\ n + 1 \in Nat /\ \A i \in 1 .. n : v[i] = w[i]
    BY <1>1
  <2> HIDE DEF n
  <2> QED
    BY <1>2, <1>3, <2>1, RunUnique
<1>5. g[n + 1] = Op(g[n], v[n + 1])
  <2>1. n + 1 \in Nat /\ n \in 0 .. ((n + 1) - 1)
    BY <1>1
  <2>2. IsRun(g, b, v, n + 1)
    BY <1>3
  <2> HIDE DEF n
  <2> QED
    BY <2>1, <2>2, RunStep
<1> QED
  BY <1>1, <1>2, <1>3, <1>4, <1>5 DEF v

LEMMA FoldOne == ASSUME NEW x, NEW b  PROVE Fold(b, <<x>>) = Op(b, x)
<1>1. <<>> \in Seq({x}) /\ x \in {x}
  OBVIOUS
<1> QED
  BY <1>1, FoldAdd, FoldEmpty, OneIsAdd

(* A sequence is folded part by part.                                      *)
LEMMA FoldCat ==
  ASSUME NEW S, NEW u \in Seq(S), NEW w \in Seq(S), NEW b
  PROVE  Fold(b, Cat(u, w)) = Fold(Fold(b, u), w)
<1> DEFINE T == {v \in Seq(S) : Fold(b, Cat(u, v)) = Fold(Fold(b, u), v)}
<1>1. <<>> \in T
  BY CatEmpty, FoldEmpty
<1>2. ASSUME NEW v \in Seq(S), NEW x \in S, v \in T  PROVE Add(v, x) \in T
  <2>1. Cat(u, v) \in Seq(S) /\ Add(v, x) \in Seq(S) /\ Add(Cat(u, v), x) = Cat(u, Add(v, x))
    BY CatType, AddType, CatAdd
  <2>2. Fold(b, Add(Cat(u, v), x)) = Op(Fold(b, Cat(u, v)), x)
    BY <2>1, FoldAdd
  <2>3. Fold(Fold(b, u), Add(v, x)) = Op(Fold(Fold(b, u), v), x)
    BY FoldAdd
  <2> QED
    BY <1>2, <2>1, <2>2, <2>3
<1> HIDE DEF T
<1>3. w \in T
  BY <1>1, <1>2, SeqInduct
<1> QED
  BY <1>3 DEF T

(* An invariant of Op holds of the fold.                                   *)
LEMMA FoldType ==
  ASSUME NEW S, NEW w \in Seq(S), NEW A, NEW b \in A,
         \A a \in A, x \in S : Op(a, x) \in A
  PROVE  Fold(b, w) \in A
<1> DEFINE T == {v \in Seq(S) : Fold(b, v) \in A}
<1>1. <<>> \in T
  BY FoldEmpty
<1>2. ASSUME NEW v \in Seq(S), NEW x \in S, v \in T  PROVE Add(v, x) \in T
  BY <1>2, FoldAdd, AddType
<1> HIDE DEF T
<1>3. w \in T
  BY <1>1, <1>2, SeqInduct
<1> QED
  BY <1>3 DEF T

-----------------------------------------------------------------------------
(* Sequences of sequences.                                                 *)
FlattenRun(f, w, n) ==
  f = [i \in 1 .. n |-> IF i = 1 THEN w[i] ELSE f[i - 1] \o w[i]]

LEMMA FlattenRunExists == \A n \in Nat : \A w : \E f : FlattenRun(f, w, n)
<1> DEFINE S == {n \in Nat : \A w : \E f : FlattenRun(f, w, n)}
<1>1. 0 \in S
  <2> SUFFICES ASSUME NEW w  PROVE \E f : FlattenRun(f, w, 0)
    OBVIOUS
  <2> DEFINE f == [i \in 1 .. 0 |-> w[i]]
  <2>1. FlattenRun(f, w, 0)
    BY DEF FlattenRun
  <2> QED
    BY <2>1
<1>2. ASSUME NEW n \in Nat, n \in S  PROVE n + 1 \in S
  <2> SUFFICES ASSUME NEW w  PROVE \E f : FlattenRun(f, w, n + 1)
    OBVIOUS
  <2>1. PICK f : FlattenRun(f, w, n)
    BY <1>2
  <2> DEFINE g == [i \in 1 .. (n + 1) |->
                     IF i = 1 THEN w[1] ELSE IF i = n + 1 THEN f[n] \o w[n + 1] ELSE f[i]]
  <2>2. \A i \in 1 .. n : f[i] = IF i = 1 THEN w[i] ELSE f[i - 1] \o w[i]
    BY <2>1 DEF FlattenRun
  <2>3. \A i \in 1 .. (n + 1) : g[i] = IF i = 1 THEN w[i] ELSE g[i - 1] \o w[i]
    BY <2>2
  <2>4. g = [i \in 1 .. (n + 1) |-> IF i = 1 THEN w[i] ELSE g[i - 1] \o w[i]]
    BY <2>3
  <2> QED
    BY <2>4 DEF FlattenRun
<1> HIDE DEF S
<1>3. \A n \in Nat : n \in S
  BY <1>1, <1>2, NatInduct
<1> QED
  BY <1>3 DEF S

LEMMA FlattenStep ==
  ASSUME NEW n \in Nat, NEW w, NEW f, FlattenRun(f, w, n)
  PROVE  /\ n > 0 => f[1] = w[1]
         /\ \A i \in 1 .. (n - 1) : f[i + 1] = f[i] \o w[i + 1]
<1>1. \A i \in 1 .. n : f[i] = IF i = 1 THEN w[i] ELSE f[i - 1] \o w[i]
  BY DEF FlattenRun
<1>2. ASSUME NEW i \in 1 .. (n - 1)  PROVE f[i + 1] = f[i] \o w[i + 1]
  <2>1. i + 1 \in 1 .. n /\ i + 1 # 1 /\ (i + 1) - 1 = i
    OBVIOUS
  <2>2. f[i + 1] = f[(i + 1) - 1] \o w[i + 1]
    BY <1>1, <2>1, Zenon
  <2> QED
    BY <2>1, <2>2, Zenon
<1>3. n > 0 => f[1] = w[1]
  <2>1. n > 0 => 1 \in 1 .. n
    OBVIOUS
  <2> QED
    BY <1>1, <2>1, Zenon
<1> QED
  BY <1>2, <1>3, Zenon

LEMMA FlattenRunUnique ==
  ASSUME NEW n \in Nat, NEW w, NEW v, NEW f, NEW m \in 0 .. n, NEW g,
         FlattenRun(f, w, n), FlattenRun(g, v, m), \A i \in 1 .. m : w[i] = v[i]
  PROVE  \A i \in 1 .. m : f[i] = g[i]
<1> DEFINE S == {i \in Nat : i \in 1 .. m => f[i] = g[i]}
<1>0. /\ \A i \in 1 .. n : f[i] = IF i = 1 THEN w[i] ELSE f[i - 1] \o w[i]
      /\ \A i \in 1 .. m : g[i] = IF i = 1 THEN v[i] ELSE g[i - 1] \o v[i]
  BY DEF FlattenRun
<1>1. 0 \in S
  OBVIOUS
<1>2. ASSUME NEW i \in Nat, i \in S  PROVE i + 1 \in S
  <2> SUFFICES ASSUME i + 1 \in 1 .. m  PROVE f[i + 1] = g[i + 1]
    OBVIOUS
  <2>1. i + 1 \in 1 .. n /\ w[i + 1] = v[i + 1] /\ (i + 1) - 1 = i /\ (i # 0 => f[i] = g[i])
    BY <1>2
  <2>2. f[i + 1] = IF i + 1 = 1 THEN w[i + 1] ELSE f[(i + 1) - 1] \o w[i + 1]
    BY <1>0, <2>1, Zenon
  <2>3. g[i + 1] = IF i + 1 = 1 THEN v[i + 1] ELSE g[(i + 1) - 1] \o v[i + 1]
    BY <1>0, <2>1, Zenon
  <2>4. CASE i + 1 = 1
    BY <2>1, <2>2, <2>3, <2>4, Zenon
  <2>5. CASE i + 1 # 1
    <3>1. f[i] = g[i]
      BY <2>1, <2>5
    <3> QED
      BY <2>1, <2>2, <2>3, <2>5, <3>1, Zenon
  <2> QED
    BY <2>4, <2>5
<1> HIDE DEF S
<1>3. \A i \in Nat : i \in S
  BY <1>1, <1>2, NatInduct
<1> QED
  BY <1>3 DEF S

LEMMA FlattenIsRun ==
  ASSUME NEW w, NEW n \in Nat \ {0}, Len(w) = n, NEW f, FlattenRun(f, w, n)
  PROVE  FlattenSeq(w) = f[n]
<1> DEFINE g == CHOOSE g : FlattenRun(g, w, n)
<1>1. FlattenRun(g, w, n)
  BY FlattenRunExists
<1>2. FlattenSeq(w) = g[n]
  BY Zenon DEF FlattenSeq, FlattenRun
<1>3. n \in 0 .. n /\ n \in 1 .. n
  OBVIOUS
<1> HIDE DEF g
<1> QED
  BY <1>1, <1>2, <1>3, FlattenRunUnique

LEMMA FlattenEmpty == FlattenSeq(<<>>) = <<>>
BY DEF FlattenSeq

LEMMA FlattenOne == ASSUME NEW x  PROVE FlattenSeq(<<x>>) = x
<1>1. PICK f : FlattenRun(f, <<x>>, 1)
  BY FlattenRunExists
<1>2. Len(<<x>>) = 1 /\ <<x>>[1] = x /\ 1 \in Nat \ {0}
  OBVIOUS
<1>3. FlattenSeq(<<x>>) = f[1]
  BY <1>1, <1>2, FlattenIsRun, Zenon
<1>4. f[1] = <<x>>[1]
  <2>1. 1 \in Nat /\ 1 > 0
    OBVIOUS
  <2> QED
    BY <1>1, <2>1, FlattenStep, Zenon
<1> QED
  BY <1>2, <1>3, <1>4

LEMMA FlattenAdd ==
  ASSUME NEW S, NEW w \in Seq(Seq(S)), NEW x \in Seq(S)
  PROVE  FlattenSeq(Add(w, x)) = Cat(FlattenSeq(w), x)
<1> DEFINE v == Add(w, x)
           n == Len(w)
<1>1. Len(v) = n + 1 /\ n \in Nat /\ v[n + 1] = x /\ \A i \in 1 .. n : v[i] = w[i]
  BY DEF Add
<1>2. CASE n = 0
  <2>1. w = <<>> /\ v = <<x>> /\ Cat(<<>>, x) = x
    BY <1>2, OneIsAdd, CatEmpty
  <2> QED
    BY <2>1, FlattenEmpty, FlattenOne
<1>3. CASE n > 0
  <2> HIDE DEF v
  <2>1. PICK f : FlattenRun(f, w, n)
    BY <1>1, FlattenRunExists
  <2>2. PICK g : FlattenRun(g, v, n + 1)
    <3>1. n + 1 \in Nat
      BY <1>1
    <3> QED
      BY <3>1, FlattenRunExists, Zenon
  <2>3. n \in 0 .. (n + 1) /\ n \in 1 .. n /\ n + 1 \in Nat /\ n \in Nat \ {0} /\ n + 1 \in Nat \ {0}
    BY <1>1, <1>3
  <2>4. FlattenSeq(w) = f[n]
    BY <2>1, <2>3, FlattenIsRun
  <2>5. FlattenSeq(v) = g[n + 1]
    BY <1>1, <2>2, <2>3, FlattenIsRun
  <2>6. g[n] = f[n]
    <3> HIDE DEF n
    <3> QED
      BY <1>1, <2>1, <2>2, <2>3, FlattenRunUnique
  <2>7. g[n + 1] = g[n] \o v[n + 1]
    <3>1. n \in 1 .. ((n + 1) - 1)
      BY <1>1, <1>3
    <3> HIDE DEF n
    <3> QED
      BY <2>2, <2>3, <3>1, FlattenStep
  <2> QED
    BY <1>1, <2>4, <2>5, <2>6, <2>7, Zenon DEF v, Cat
<1> QED
  BY <1>1, <1>2, <1>3

LEMMA FlattenType ==
  ASSUME NEW S, NEW w \in Seq(Seq(S))
  PROVE  FlattenSeq(w) \in Seq(S)
<1> DEFINE T == {v \in Seq(Seq(S)) : FlattenSeq(v) \in Seq(S)}
<1>1. <<>> \in T
  <2>1. <<>> \in Seq(S) /\ <<>> \in Seq(Seq(S))
    OBVIOUS
  <2> QED
    BY <2>1, FlattenEmpty
<1>2. ASSUME NEW v \in Seq(Seq(S)), NEW x \in Seq(S), v \in T  PROVE Add(v, x) \in T
  BY <1>2, FlattenAdd, AddType, CatType
<1> HIDE DEF T
<1>3. w \in T
  BY <1>1, <1>2, SeqInduct
<1> QED
  BY <1>3 DEF T

LEMMA FlattenCat ==
  ASSUME NEW S, NEW u \in Seq(Seq(S)), NEW w \in Seq(Seq(S))
  PROVE  FlattenSeq(Cat(u, w)) = Cat(FlattenSeq(u), FlattenSeq(w))
<1> DEFINE T == {v \in Seq(Seq(S)) : FlattenSeq(Cat(u, v)) = Cat(FlattenSeq(u), FlattenSeq(v))}
<1>0. FlattenSeq(u) \in Seq(S)
  BY FlattenType
<1>1. <<>> \in T
  BY <1>0, FlattenEmpty, CatEmpty
<1>2. ASSUME NEW v \in Seq(Seq(S)), NEW x \in Seq(S), v \in T  PROVE Add(v, x) \in T
  <2>1. Cat(u, v) \in Seq(Seq(S)) /\ Add(v, x) \in Seq(Seq(S)) /\ Add(Cat(u, v), x) = Cat(u, Add(v, x))
    BY CatType, AddType, CatAdd
  <2>2. FlattenSeq(Add(Cat(u, v), x)) = Cat(FlattenSeq(Cat(u, v)), x)
    BY <2>1, FlattenAdd
  <2>3. FlattenSeq(Add(v, x)) = Cat(FlattenSeq(v), x)
    BY FlattenAdd
  <2>4. Cat(Cat(FlattenSeq(u), FlattenSeq(v)), x) = Cat(FlattenSeq(u), Cat(FlattenSeq(v), x))
    BY <1>0, FlattenType, CatAssociative
  <2> QED
    BY <1>2, <2>1, <2>2, <2>3, <2>4
<1> HIDE DEF T
<1>3. w \in T
  BY <1>1, <1>2, SeqInduct
<1> QED
  BY <1>3 DEF T

-----------------------------------------------------------------------------
(* Filters.                                                                *)
OnlyRun(f, s, K, m) ==
  f = [n \in 0 .. m |->
         IF n = 0 THEN <<>> ELSE IF s[n] \in K THEN Append(f[n - 1], s[n]) ELSE f[n - 1]]

LEMMA OnlyRunExists == ASSUME NEW s, NEW K  PROVE \A m \in Nat : \E f : OnlyRun(f, s, K, m)
<1> DEFINE S == {m \in Nat : \E f : OnlyRun(f, s, K, m)}
<1>1. 0 \in S
  <2> DEFINE f == [i \in 0 .. 0 |-> <<>>]
  <2>1. OnlyRun(f, s, K, 0)
    BY DEF OnlyRun
  <2> QED
    BY <2>1
<1>2. ASSUME NEW n \in Nat, n \in S  PROVE n + 1 \in S
  <2>1. PICK f : OnlyRun(f, s, K, n)
    BY <1>2
  <2> DEFINE last == IF s[n + 1] \in K THEN Append(f[n], s[n + 1]) ELSE f[n]
             g == [i \in 0 .. (n + 1) |-> IF i = n + 1 THEN last ELSE f[i]]
  <2>2. \A i \in 0 .. n :
          f[i] = IF i = 0 THEN <<>> ELSE IF s[i] \in K THEN Append(f[i - 1], s[i]) ELSE f[i - 1]
    BY <2>1 DEF OnlyRun
  <2>3. \A i \in 0 .. (n + 1) :
          g[i] = IF i = 0 THEN <<>> ELSE IF s[i] \in K THEN Append(g[i - 1], s[i]) ELSE g[i - 1]
    BY <2>2
  <2>4. OnlyRun(g, s, K, n + 1)
    BY <2>3 DEF OnlyRun
  <2> HIDE DEF g
  <2> QED
    BY <2>4
<1> HIDE DEF S
<1>3. \A n \in Nat : n \in S
  BY <1>1, <1>2, NatInduct
<1> QED
  BY <1>3 DEF S

LEMMA OnlyRunUnique ==
  ASSUME NEW n \in Nat, NEW s, NEW v, NEW K, NEW f, NEW m \in 0 .. n, NEW g,
         OnlyRun(f, s, K, n), OnlyRun(g, v, K, m), \A i \in 1 .. m : s[i] = v[i]
  PROVE  \A i \in 0 .. m : f[i] = g[i]
<1> DEFINE S == {i \in Nat : i <= m => f[i] = g[i]}
<1>0. /\ \A i \in 0 .. n :
           f[i] = IF i = 0 THEN <<>> ELSE IF s[i] \in K THEN Append(f[i - 1], s[i]) ELSE f[i - 1]
      /\ \A i \in 0 .. m :
           g[i] = IF i = 0 THEN <<>> ELSE IF v[i] \in K THEN Append(g[i - 1], v[i]) ELSE g[i - 1]
  BY DEF OnlyRun
<1>1. 0 \in S
  BY <1>0
<1>2. ASSUME NEW i \in Nat, i \in S  PROVE i + 1 \in S
  BY <1>0, <1>2
<1> HIDE DEF S
<1>3. \A i \in Nat : i \in S
  BY <1>1, <1>2, NatInduct
<1> QED
  BY <1>3 DEF S

LEMMA OnlyIsRun ==
  ASSUME NEW s, Len(s) \in Nat, NEW K, NEW f, OnlyRun(f, s, K, Len(s))
  PROVE  Only(s, K) = f[Len(s)]
<1> DEFINE g == CHOOSE g : OnlyRun(g, s, K, Len(s))
<1>1. OnlyRun(g, s, K, Len(s))
  BY OnlyRunExists
<1>2. Only(s, K) = g[Len(s)]
  BY Zenon DEF Only, OnlyRun
<1>3. Len(s) \in 0 .. Len(s)
  OBVIOUS
<1> HIDE DEF g
<1> QED
  BY <1>1, <1>2, <1>3, OnlyRunUnique

LEMMA OnlyEmpty == ASSUME NEW K  PROVE Only(<<>>, K) = <<>>
<1>1. Len(<<>>) = 0
  OBVIOUS
<1>2. PICK f : OnlyRun(f, <<>>, K, 0)
  BY OnlyRunExists
<1>3. f[0] = <<>>
  BY <1>2 DEF OnlyRun
<1>4. Only(<<>>, K) = f[0]
  BY <1>1, <1>2, OnlyIsRun
<1> QED
  BY <1>3, <1>4

LEMMA OnlyAdd ==
  ASSUME NEW S, NEW w \in Seq(S), NEW x \in S, NEW K
  PROVE  Only(Add(w, x), K) = IF x \in K THEN Add(Only(w, K), x) ELSE Only(w, K)
<1> DEFINE v == Add(w, x)
           n == Len(w)
<1>1. Len(v) = n + 1 /\ n \in Nat /\ v[n + 1] = x /\ \A i \in 1 .. n : v[i] = w[i]
  BY DEF Add
<1> HIDE DEF v
<1>2. PICK f : OnlyRun(f, w, K, n)
  BY <1>1, OnlyRunExists
<1>3. PICK g : OnlyRun(g, v, K, n + 1)
  <2>1. n + 1 \in Nat
    BY <1>1
  <2> QED
    BY <2>1, OnlyRunExists, Zenon
<1>4. n \in 0 .. (n + 1) /\ n \in 0 .. n /\ n + 1 \in Nat /\ n + 1 \in 0 .. (n + 1) /\ (n + 1) - 1 = n /\ n + 1 # 0
  BY <1>1
<1>5. Only(w, K) = f[n]
  BY <1>1, <1>2, OnlyIsRun
<1>6. Only(v, K) = g[n + 1]
  BY <1>1, <1>3, <1>4, OnlyIsRun
<1>7. g[n] = f[n]
  <2> HIDE DEF n
  <2> QED
    BY <1>1, <1>2, <1>3, <1>4, OnlyRunUnique
<1>8. g[n + 1] = IF v[n + 1] \in K THEN Append(g[n], v[n + 1]) ELSE g[n]
  <2>1. \A i \in 0 .. (n + 1) :
          g[i] = IF i = 0 THEN <<>> ELSE IF v[i] \in K THEN Append(g[i - 1], v[i]) ELSE g[i - 1]
    BY <1>3 DEF OnlyRun
  <2> HIDE DEF n
  <2>2. g[n + 1] = IF v[n + 1] \in K THEN Append(g[(n + 1) - 1], v[n + 1]) ELSE g[(n + 1) - 1]
    BY <1>4, <2>1, Zenon
  <2> QED
    BY <1>4, <2>2, Zenon
<1> QED
  BY <1>1, <1>5, <1>6, <1>7, <1>8, Zenon DEF v, Add

LEMMA OnlyType ==
  ASSUME NEW S, NEW w \in Seq(S), NEW K
  PROVE  Only(w, K) \in Seq(S \cap K)
<1> DEFINE T == {v \in Seq(S) : Only(v, K) \in Seq(S \cap K)}
<1>1. <<>> \in T
  <2>1. <<>> \in Seq(S) /\ <<>> \in Seq(S \cap K)
    OBVIOUS
  <2> QED
    BY <2>1, OnlyEmpty
<1>2. ASSUME NEW v \in Seq(S), NEW x \in S, v \in T  PROVE Add(v, x) \in T
  <2>1. Add(v, x) \in Seq(S) /\ Only(Add(v, x), K) = IF x \in K THEN Add(Only(v, K), x) ELSE Only(v, K)
    BY AddType, OnlyAdd
  <2>2. x \in K => Add(Only(v, K), x) \in Seq(S \cap K)
    BY <1>2, AddType
  <2> QED
    BY <1>2, <2>1, <2>2
<1> HIDE DEF T
<1>3. w \in T
  BY <1>1, <1>2, SeqInduct
<1> QED
  BY <1>3 DEF T

LEMMA OnlySeq ==
  ASSUME NEW S, NEW w \in Seq(S), NEW K
  PROVE  Only(w, K) \in Seq(S)
<1>1. Only(w, K) \in Seq(S \cap K)
  BY OnlyType
<1>2. S \cap K \subseteq S
  OBVIOUS
<1> QED
  BY <1>1, <1>2, SeqMonotonic

LEMMA OnlyCat ==
  ASSUME NEW S, NEW u \in Seq(S), NEW w \in Seq(S), NEW K
  PROVE  Only(Cat(u, w), K) = Cat(Only(u, K), Only(w, K))
<1> DEFINE T == {v \in Seq(S) : Only(Cat(u, v), K) = Cat(Only(u, K), Only(v, K))}
<1>0. Only(u, K) \in Seq(S)
  BY OnlySeq
<1>1. <<>> \in T
  BY <1>0, OnlyEmpty, CatEmpty
<1>2. ASSUME NEW v \in Seq(S), NEW x \in S, v \in T  PROVE Add(v, x) \in T
  <2>1. Cat(u, v) \in Seq(S) /\ Add(v, x) \in Seq(S) /\ Add(Cat(u, v), x) = Cat(u, Add(v, x))
    BY CatType, AddType, CatAdd
  <2>2. Only(Add(Cat(u, v), x), K) = IF x \in K THEN Add(Only(Cat(u, v), K), x) ELSE Only(Cat(u, v), K)
    BY <2>1, OnlyAdd
  <2>3. Only(Add(v, x), K) = IF x \in K THEN Add(Only(v, K), x) ELSE Only(v, K)
    BY OnlyAdd
  <2>4. Add(Cat(Only(u, K), Only(v, K)), x) = Cat(Only(u, K), Add(Only(v, K), x))
    BY <1>0, OnlySeq, CatAdd
  <2> QED
    BY <1>2, <2>1, <2>2, <2>3, <2>4
<1> HIDE DEF T
<1>3. w \in T
  BY <1>1, <1>2, SeqInduct
<1> QED
  BY <1>3 DEF T

(* Only what is in the sequence matters of a test.                         *)
LEMMA OnlyAgree ==
  ASSUME NEW S, NEW w \in Seq(S), NEW K, NEW J, \A x \in S : x \in K <=> x \in J
  PROVE  Only(w, K) = Only(w, J)
<1> DEFINE T == {v \in Seq(S) : Only(v, K) = Only(v, J)}
<1>1. <<>> \in T
  BY OnlyEmpty
<1>2. ASSUME NEW v \in Seq(S), NEW x \in S, v \in T  PROVE Add(v, x) \in T
  <2>1. Only(Add(v, x), K) = IF x \in K THEN Add(Only(v, K), x) ELSE Only(v, K)
    BY OnlyAdd
  <2>2. Only(Add(v, x), J) = IF x \in J THEN Add(Only(v, J), x) ELSE Only(v, J)
    BY OnlyAdd
  <2>3. x \in K <=> x \in J
    OBVIOUS
  <2>4. Only(v, K) = Only(v, J)
    BY <1>2
  <2>5. Only(Add(v, x), K) = Only(Add(v, x), J)
    BY <2>1, <2>2, <2>3, <2>4, Zenon
  <2>6. Add(v, x) \in Seq(S)
    BY AddType
  <2> QED
    BY <2>5, <2>6, Zenon
<1> HIDE DEF T
<1>3. w \in T
  BY <1>1, <1>2, SeqInduct
<1> QED
  BY <1>3 DEF T

LEMMA OnlyAll ==
  ASSUME NEW S, NEW w \in Seq(S), NEW K, S \subseteq K
  PROVE  Only(w, K) = w
<1> DEFINE T == {v \in Seq(S) : Only(v, K) = v}
<1>1. <<>> \in T
  BY OnlyEmpty
<1>2. ASSUME NEW v \in Seq(S), NEW x \in S, v \in T  PROVE Add(v, x) \in T
  BY <1>2, OnlyAdd, AddType
<1> HIDE DEF T
<1>3. w \in T
  BY <1>1, <1>2, SeqInduct
<1> QED
  BY <1>3 DEF T

LEMMA OnlyNone ==
  ASSUME NEW S, NEW w \in Seq(S), NEW K, S \cap K = {}
  PROVE  Only(w, K) = <<>>
<1>1. Only(w, K) \in Seq(S \cap K)
  BY OnlyType
<1>2. \A v \in Seq({}) : v = <<>>
  OBVIOUS
<1> QED
  BY <1>1, <1>2, Zenon

LEMMA RangeAdd ==
  ASSUME NEW S, NEW w \in Seq(S), NEW x \in S
  PROVE  Range(Add(w, x)) = Range(w) \cup {x}
<1>1. DOMAIN Add(w, x) = DOMAIN w \cup {Len(w) + 1} /\ Len(w) + 1 \notin DOMAIN w
  BY AddType DEF Add
<1>2. Add(w, x)[Len(w) + 1] = x /\ \A i \in DOMAIN w : Add(w, x)[i] = w[i]
  BY DEF Add
<1> QED
  BY <1>1, <1>2 DEF Range

(* What passes the test is all there.                                      *)
LEMMA OnlyRange ==
  ASSUME NEW S, NEW w \in Seq(S), NEW K
  PROVE  Range(Only(w, K)) = Range(w) \cap K
<1> DEFINE T == {v \in Seq(S) : Range(Only(v, K)) = Range(v) \cap K}
<1>1. <<>> \in T
  <2>1. Range(<<>>) = {} /\ <<>> \in Seq(S)
    BY DEF Range
  <2> QED
    BY <2>1, OnlyEmpty
<1>2. ASSUME NEW v \in Seq(S), NEW x \in S, v \in T  PROVE Add(v, x) \in T
  <2>1. Add(v, x) \in Seq(S) /\ Range(Add(v, x)) = Range(v) \cup {x}
    BY AddType, RangeAdd
  <2>2. Only(Add(v, x), K) = IF x \in K THEN Add(Only(v, K), x) ELSE Only(v, K)
    BY OnlyAdd
  <2>3. Range(Add(Only(v, K), x)) = Range(Only(v, K)) \cup {x}
    BY OnlySeq, RangeAdd
  <2> QED
    BY <1>2, <2>1, <2>2, <2>3
<1> HIDE DEF T
<1>3. w \in T
  BY <1>1, <1>2, SeqInduct
<1> QED
  BY <1>3 DEF T

LEMMA OnlyOnly ==
  ASSUME NEW S, NEW w \in Seq(S), NEW K, NEW J
  PROVE  Only(Only(w, K), J) = Only(w, K \cap J)
<1> DEFINE T == {v \in Seq(S) : Only(Only(v, K), J) = Only(v, K \cap J)}
<1>1. <<>> \in T
  <2>1. <<>> \in Seq(S)
    OBVIOUS
  <2>2. Only(Only(<<>>, K), J) = Only(<<>>, K \cap J)
    BY OnlyEmpty, Zenon
  <2> QED
    BY <2>1, <2>2
<1>2. ASSUME NEW v \in Seq(S), NEW x \in S, v \in T  PROVE Add(v, x) \in T
  <2>1. Only(v, K) \in Seq(S) /\ Add(v, x) \in Seq(S)
    BY OnlySeq, AddType
  <2>2. Only(Add(v, x), K) = IF x \in K THEN Add(Only(v, K), x) ELSE Only(v, K)
    BY OnlyAdd
  <2>3. Only(Add(v, x), K \cap J) = IF x \in K \cap J THEN Add(Only(v, K \cap J), x) ELSE Only(v, K \cap J)
    BY OnlyAdd
  <2>4. Only(Add(Only(v, K), x), J) = IF x \in J THEN Add(Only(Only(v, K), J), x) ELSE Only(Only(v, K), J)
    BY <2>1, OnlyAdd
  <2>5. Only(Only(v, K), J) = Only(v, K \cap J)
    BY <1>2
  <2>6. Only(Only(Add(v, x), K), J) = Only(Add(v, x), K \cap J)
    <3> HIDE DEF T
    <3> QED
      BY <2>2, <2>3, <2>4, <2>5
  <2> QED
    BY <2>1, <2>6
<1> HIDE DEF T
<1>3. w \in T
  BY <1>1, <1>2, SeqInduct
<1> QED
  BY <1>3 DEF T

LEMMA OnlyLen ==
  ASSUME NEW S, NEW w \in Seq(S), NEW K
  PROVE  Len(Only(w, K)) <= Len(w)
<1> DEFINE T == {v \in Seq(S) : Len(Only(v, K)) <= Len(v)}
<1>1. <<>> \in T
  <2>1. <<>> \in Seq(S) /\ Only(<<>>, K) = <<>> /\ Len(<<>>) <= Len(<<>>)
    BY OnlyEmpty
  <2> QED
    BY <2>1, Zenon
<1>2. ASSUME NEW v \in Seq(S), NEW x \in S, v \in T  PROVE Add(v, x) \in T
  <2>1. Only(v, K) \in Seq(S) /\ Add(v, x) \in Seq(S) /\ Len(Add(v, x)) = Len(v) + 1 /\ Len(v) \in Nat
    <3>1. Len(v) \in Nat
      OBVIOUS
    <3> QED
      BY <3>1, OnlySeq, AddType
  <2>2. Only(Add(v, x), K) = IF x \in K THEN Add(Only(v, K), x) ELSE Only(v, K)
    BY OnlyAdd
  <2>3. Len(Add(Only(v, K), x)) = Len(Only(v, K)) + 1 /\ Len(Only(v, K)) \in Nat
    BY <2>1, AddType
  <2>4. Len(Only(v, K)) <= Len(v)
    BY <1>2
  <2>5. Len(Only(Add(v, x), K)) <= Len(Add(v, x))
    <3> HIDE DEF T
    <3> QED
      BY <2>1, <2>2, <2>3, <2>4
  <2> QED
    BY <2>1, <2>5
<1> HIDE DEF T
<1>3. w \in T
  BY <1>1, <1>2, SeqInduct
<1> QED
  BY <1>3 DEF T

LEMMA RangeType == ASSUME NEW S, NEW w \in Seq(S)  PROVE Range(w) \subseteq S /\ w \in Seq(Range(w))
BY DEF Range

LEMMA OnlyTest ==
  ASSUME NEW S, NEW w \in Seq(S), NEW K, NEW J, J = {x \in Range(w) : x \in K}
  PROVE  Only(w, J) = Only(w, K)
<1>1. w \in Seq(Range(w))
  BY RangeType
<1>2. \A x \in Range(w) : x \in J <=> x \in K
  OBVIOUS
<1> QED
  BY <1>1, <1>2, OnlyAgree

(* Elements that pass the test and differ in g, differ among those kept.   *)
Apart(w, K, g) ==
  \A i, j \in DOMAIN w : w[i] \in K /\ w[j] \in K /\ g[w[i]] = g[w[j]] => i = j

LEMMA OnlyApart ==
  ASSUME NEW S, NEW w \in Seq(S), NEW K, NEW g, Apart(w, K, g)
  PROVE  \A i, j \in DOMAIN Only(w, K) : g[Only(w, K)[i]] = g[Only(w, K)[j]] => i = j
<1> DEFINE P(v) == \A i, j \in DOMAIN Only(v, K) : g[Only(v, K)[i]] = g[Only(v, K)[j]] => i = j
           T == {v \in Seq(S) : Apart(v, K, g) => P(v)}
<1>1. <<>> \in T
  <2>1. <<>> \in Seq(S) /\ Only(<<>>, K) = <<>>
    BY OnlyEmpty
  <2> QED
    BY <2>1
<1>2. ASSUME NEW v \in Seq(S), NEW x \in S, v \in T  PROVE Add(v, x) \in T
  <2> DEFINE y == Add(v, x)
             n == Len(v)
             o == Only(v, K)
             m == Len(o)
             z == Add(o, x)
  <2>1. /\ y \in Seq(S) /\ DOMAIN y = 1 .. (n + 1) /\ DOMAIN v = 1 .. n /\ n \in Nat
        /\ y[n + 1] = x /\ \A i \in 1 .. n : y[i] = v[i]
    BY DEF Add
  <2>2. Only(y, K) = IF x \in K THEN z ELSE o
    BY OnlyAdd
  <2>3. o \in Seq(S) /\ Range(o) = Range(v) \cap K
    BY OnlySeq, OnlyRange
  <2> HIDE DEF y, o
  <2>4. /\ DOMAIN z = 1 .. (m + 1) /\ DOMAIN o = 1 .. m /\ m \in Nat
        /\ z[m + 1] = x /\ \A i \in 1 .. m : z[i] = o[i]
    BY <2>3 DEF Add
  <2> HIDE DEF z, n, m
  <2>5. SUFFICES ASSUME Apart(y, K, g)  PROVE P(y)
    BY <2>1 DEF y
  <2>6. Apart(v, K, g)
    <3> SUFFICES ASSUME NEW i \in 1 .. n, NEW j \in 1 .. n, v[i] \in K, v[j] \in K, g[v[i]] = g[v[j]]
                 PROVE  i = j
      BY <2>1 DEF Apart
    <3>1. i \in DOMAIN y /\ j \in DOMAIN y /\ y[i] = v[i] /\ y[j] = v[j]
      BY <2>1
    <3> QED
      BY <2>5, <3>1 DEF Apart
  <2>7. \A i, j \in 1 .. m : g[o[i]] = g[o[j]] => i = j
    BY <1>2, <2>4, <2>6 DEF o
  <2>8. CASE x \notin K
    BY <2>2, <2>4, <2>7, <2>8
  <2>9. CASE x \in K
    <3>1. ASSUME NEW i \in 1 .. m  PROVE g[o[i]] # g[x]
      <4>1. o[i] \in Range(v) \cap K
        BY <2>3, <2>4 DEF Range
      <4>2. PICK h \in 1 .. n : v[h] = o[i]
        BY <2>1, <4>1 DEF Range
      <4>3. h \in DOMAIN y /\ n + 1 \in DOMAIN y /\ y[h] = o[i] /\ y[n + 1] = x /\ h # n + 1
        BY <2>1, <4>2
      <4> QED
        BY <2>5, <2>9, <4>1, <4>3 DEF Apart
    <3>2. \A i \in 1 .. (m + 1) : i \in 1 .. m \/ i = m + 1
      BY <2>4
    <3>3. \A i, j \in 1 .. (m + 1) : g[z[i]] = g[z[j]] => i = j
      BY <2>4, <2>7, <3>1, <3>2
    <3> QED
      BY <2>2, <2>4, <2>9, <3>3
  <2> QED
    BY <2>8, <2>9
<1> HIDE DEF T
<1>3. w \in T
  BY <1>1, <1>2, SeqInduct
<1> QED
  BY <1>3 DEF T

-----------------------------------------------------------------------------
(* How many elements of w are in K.                                        *)
Count(w, K) == Cardinality({i \in DOMAIN w : w[i] \in K})

LEMMA CountEmpty == ASSUME NEW K  PROVE Count(<<>>, K) = 0
<1>1. {i \in DOMAIN <<>> : <<>>[i] \in K} = {}
  OBVIOUS
<1> QED
  BY <1>1, FS_EmptySet, Zenon DEF Count

LEMMA CountAdd ==
  ASSUME NEW S, NEW w \in Seq(S), NEW x \in S, NEW K
  PROVE  /\ Count(w, K) \in Nat
         /\ Count(Add(w, x), K) = IF x \in K THEN Count(w, K) + 1 ELSE Count(w, K)
<1> DEFINE n == Len(w)
           v == Add(w, x)
           D == {i \in 1 .. n : w[i] \in K}
<1>1. /\ n \in Nat /\ DOMAIN w = 1 .. n /\ DOMAIN v = 1 .. (n + 1) /\ v[n + 1] = x
      /\ \A i \in 1 .. n : v[i] = w[i]
  BY DEF Add
<1> HIDE DEF v, n
<1>2. {i \in DOMAIN w : w[i] \in K} = D
  BY <1>1
<1>3. {i \in DOMAIN v : v[i] \in K} = IF x \in K THEN D \cup {n + 1} ELSE D
  <2>1. \A i : i \in 1 .. (n + 1) <=> i \in 1 .. n \/ i = n + 1
    BY <1>1
  <2> QED
    BY <1>1, <2>1
<1>4. n + 1 \notin D
  BY <1>1
<1>5. IsFiniteSet(D)
  <2>1. IsFiniteSet(1 .. n) /\ D \in SUBSET (1 .. n)
    BY <1>1, FS_Interval
  <2> QED
    BY <2>1, FS_Subset
<1> HIDE DEF D
<1>6. Cardinality(D) \in Nat /\ Cardinality(D \cup {n + 1}) = Cardinality(D) + 1
  BY <1>4, <1>5, FS_AddElement, FS_CardinalityType
<1> QED
  BY <1>2, <1>3, <1>6 DEF Count, v

LEMMA CountType == ASSUME NEW S, NEW w \in Seq(S), NEW K  PROVE Count(w, K) \in Nat
<1> DEFINE T == {v \in Seq(S) : Count(v, K) \in Nat}
<1>1. <<>> \in T
  BY CountEmpty
<1>2. ASSUME NEW v \in Seq(S), NEW x \in S, v \in T  PROVE Add(v, x) \in T
  BY <1>2, CountAdd, AddType
<1> HIDE DEF T
<1>3. w \in T
  BY <1>1, <1>2, SeqInduct
<1> QED
  BY <1>3 DEF T

LEMMA CountCat ==
  ASSUME NEW S, NEW u \in Seq(S), NEW w \in Seq(S), NEW K
  PROVE  Count(Cat(u, w), K) = Count(u, K) + Count(w, K)
<1> DEFINE T == {v \in Seq(S) : Count(Cat(u, v), K) = Count(u, K) + Count(v, K)}
<1>0. Count(u, K) \in Nat
  BY CountType
<1>1. <<>> \in T
  <2>1. <<>> \in Seq(S) /\ Cat(u, <<>>) = u
    BY CatEmpty
  <2> QED
    BY <1>0, <2>1, CountEmpty
<1>2. ASSUME NEW v \in Seq(S), NEW x \in S, v \in T  PROVE Add(v, x) \in T
  <2>1. Cat(u, v) \in Seq(S) /\ Add(v, x) \in Seq(S) /\ Add(Cat(u, v), x) = Cat(u, Add(v, x))
    BY CatType, AddType, CatAdd
  <2>2. Count(Add(Cat(u, v), x), K) = IF x \in K THEN Count(Cat(u, v), K) + 1 ELSE Count(Cat(u, v), K)
    BY <2>1, CountAdd
  <2>3. Count(v, K) \in Nat /\ Count(Add(v, x), K) = IF x \in K THEN Count(v, K) + 1 ELSE Count(v, K)
    BY CountAdd
  <2>4. Count(Cat(u, v), K) = Count(u, K) + Count(v, K)
    BY <1>2
  <2>5. Count(Cat(u, Add(v, x)), K) = Count(u, K) + Count(Add(v, x), K)
    <3> HIDE DEF T
    <3> QED
      BY <1>0, <2>1, <2>2, <2>3, <2>4
  <2> QED
    BY <2>1, <2>5
<1> HIDE DEF T
<1>3. w \in T
  BY <1>1, <1>2, SeqInduct
<1> QED
  BY <1>3 DEF T

LEMMA CountOnly ==
  ASSUME NEW S, NEW w \in Seq(S), NEW K, NEW x
  PROVE  Count(Only(w, K), {x}) = IF x \in K THEN Count(w, {x}) ELSE 0
<1> DEFINE T == {v \in Seq(S) : Count(Only(v, K), {x}) = IF x \in K THEN Count(v, {x}) ELSE 0}
<1>1. <<>> \in T
  <2>1. <<>> \in Seq(S) /\ Only(<<>>, K) = <<>>
    BY OnlyEmpty
  <2> QED
    BY <2>1, CountEmpty
<1>2. ASSUME NEW v \in Seq(S), NEW y \in S, v \in T  PROVE Add(v, y) \in T
  <2>1. Add(v, y) \in Seq(S) /\ Only(v, K) \in Seq(S)
    BY AddType, OnlySeq
  <2>2. Only(Add(v, y), K) = IF y \in K THEN Add(Only(v, K), y) ELSE Only(v, K)
    BY OnlyAdd
  <2>3. Count(v, {x}) \in Nat /\ Count(Add(v, y), {x}) = IF y = x THEN Count(v, {x}) + 1 ELSE Count(v, {x})
    BY CountAdd
  <2>4. /\ Count(Only(v, K), {x}) \in Nat
        /\ Count(Add(Only(v, K), y), {x}) = IF y = x THEN Count(Only(v, K), {x}) + 1 ELSE Count(Only(v, K), {x})
    BY <2>1, CountAdd
  <2>5. Count(Only(v, K), {x}) = IF x \in K THEN Count(v, {x}) ELSE 0
    BY <1>2
  <2>6. Count(Only(Add(v, y), K), {x}) = IF x \in K THEN Count(Add(v, y), {x}) ELSE 0
    <3> HIDE DEF T
    <3> QED
      BY <2>2, <2>3, <2>4, <2>5
  <2> QED
    BY <2>1, <2>6
<1> HIDE DEF T
<1>3. w \in T
  BY <1>1, <1>2, SeqInduct
<1> QED
  BY <1>3 DEF T

LEMMA CountAll ==
  ASSUME NEW S, NEW w \in Seq(S), NEW K
  PROVE  /\ S \subseteq K => Count(w, K) = Len(w)
         /\ S \cap K = {} => Count(w, K) = 0
<1>1. DOMAIN w = 1 .. Len(w) /\ Len(w) \in Nat /\ \A i \in DOMAIN w : w[i] \in S
  OBVIOUS
<1>2. S \subseteq K => {i \in DOMAIN w : w[i] \in K} = 1 .. Len(w)
  BY <1>1
<1>3. S \cap K = {} => {i \in DOMAIN w : w[i] \in K} = {}
  BY <1>1
<1>4. Cardinality(1 .. Len(w)) = Len(w) /\ Cardinality({}) = 0
  <2> DEFINE n == Len(w)
  <2>1. n \in Nat /\ n \in Int /\ 1 \in Int
    BY <1>1
  <2> HIDE DEF n
  <2>2. Cardinality(1 .. n) = n
    BY <2>1, FS_Interval
  <2> QED
    BY <2>2, FS_EmptySet DEF n
<1> QED
  BY <1>2, <1>3, <1>4, Zenon DEF Count

-----------------------------------------------------------------------------
(* A sequence is what becomes of its elements, one by one.                 *)
LEMMA FlattenOnes ==
  ASSUME NEW S, NEW w \in Seq(S)
  PROVE  FlattenSeq([i \in DOMAIN w |-> <<w[i]>>]) = w
<1> DEFINE F(v) == [i \in DOMAIN v |-> <<v[i]>>]
           T == {v \in Seq(S) : FlattenSeq(F(v)) = v}
<1>1. <<>> \in T
  <2>1. F(<<>>) = <<>> /\ <<>> \in Seq(S)
    OBVIOUS
  <2>2. FlattenSeq(F(<<>>)) = <<>>
    BY <2>1, FlattenEmpty, Zenon
  <2> QED
    BY <2>1, <2>2
<1>2. ASSUME NEW v \in Seq(S), NEW x \in S, v \in T  PROVE Add(v, x) \in T
  <2> DEFINE n == Len(v)
             u == Add(v, x)
             B == Seq(S)
  <2>1. u \in Seq(S) /\ DOMAIN u = 1 .. (n + 1) /\ n \in Nat /\ DOMAIN v = 1 .. n
        /\ u[n + 1] = x /\ \A i \in 1 .. n : u[i] = v[i]
    BY DEF Add
  <2>2. <<x>> \in B /\ \A i \in 1 .. n : <<v[i]>> \in B
    <3>1. \A i \in 1 .. n : v[i] \in S
      BY <2>1
    <3>2. \A y \in S : <<y>> \in B
      OBVIOUS
    <3> QED
      BY <3>1, <3>2
  <2>3. FlattenSeq(F(v)) = v
    BY <1>2
  <2> DEFINE G(i) == <<v[i]>>
             H(i) == <<u[i]>>
             c == <<x>>
             f == F(v)
             g == F(u)
  <2>4. /\ f = [i \in 1 .. n |-> G(i)] /\ g = [i \in 1 .. (n + 1) |-> H(i)]
        /\ H(n + 1) = c /\ \A i \in 1 .. n : H(i) = G(i)
    BY <2>1, Zenon
  <2>5. c \in B /\ \A i \in 1 .. n : G(i) \in B
    BY <2>2
  <2> HIDE DEF B, G, H, c, f, g, n, u, F, T
  <2>6. f \in Seq(B) /\ Len(f) = n /\ \A i \in 1 .. n : f[i] = G(i)
    BY <2>1, <2>4, <2>5
  <2>7. g = Add(f, c)
    <3> DEFINE a == Add(f, c)
    <3>0. f \in Seq(B)
      BY <2>6
    <3>1. a \in Seq(B) /\ Len(a) = Len(f) + 1 /\ a[Len(f) + 1] = c /\ \A i \in 1 .. Len(f) : a[i] = f[i]
      BY <2>5, <3>0 DEF Add
    <3> HIDE DEF a
    <3>2. a = [i \in 1 .. Len(a) |-> a[i]]
      BY <3>1
    <3>3. \A i \in 1 .. (n + 1) : i \in 1 .. n \/ i = n + 1
      BY <2>1
    <3>4. \A i \in 1 .. (n + 1) : a[i] = H(i)
      BY <2>4, <2>6, <3>1, <3>3
    <3>5. [i \in 1 .. (n + 1) |-> a[i]] = [i \in 1 .. (n + 1) |-> H(i)]
      BY <3>4
    <3>6. a = g
      BY <2>4, <2>6, <3>1, <3>2, <3>5, Zenon
    <3> QED
      BY <3>6, Zenon DEF a
  <2>8. FlattenSeq(Add(f, c)) = Cat(FlattenSeq(f), c)
    BY <2>5, <2>6, FlattenAdd DEF B
  <2>9. Add(v, x) = Cat(v, <<x>>)
    BY AddIsCat
  <2>10. FlattenSeq(F(u)) = u
    BY <2>3, <2>7, <2>8, <2>9, Zenon DEF f, g, c, u
  <2> QED
    BY <2>1, <2>10 DEF T, u
<1> HIDE DEF T
<1>3. w \in T
  BY <1>1, <1>2, SeqInduct
<1> QED
  BY <1>3 DEF T
=============================================================================
