-------------------------- MODULE ReviewReport_proofs --------------------------
(***************************************************************************)
(* Proofs about the parallel review and its report, for any diff, number   *)
(* of files and concurrency, whatever the models answer, report, name as   *)
(* false and wherever the findings are moved.                              *)
(*                                                                         *)
(* First, of ParallelReview: the report depends on the answers and not on  *)
(* the order they come in, ties of several reviews excepted: what was      *)
(* merged is an arrangement of all findings that keeps those of a file in  *)
(* their order, and all such arrangements are sorted alike.  Then, of      *)
(* ReviewReport: the printed report has exactly what it should, and the    *)
(* exit status is true of it.                                              *)
(***************************************************************************)
EXTENDS ReviewReport, FunctionTheorems, FiniteSetTheorems, SequenceTheorems, TLAPS

-----------------------------------------------------------------------------
(* Ranks.                                                                  *)

LEMMA FirstNaturals ==
  ASSUME NEW n \in Nat
  PROVE  IsFiniteSet(1 .. n) /\ Cardinality(1 .. n) = n
<1>1. /\ IsFiniteSet(1 .. n)
      /\ Cardinality(1 .. n) = IF 1 > n THEN 0 ELSE n - 1 + 1
  BY FS_Interval
<1> QED
  BY <1>1

(* When below[x] is all that is smaller than x in a finite total order,    *)
(* its size is the rank of x, and there is one element of each rank.       *)
LEMMA Ranking ==
  ASSUME NEW S, IsFiniteSet(S), NEW below \in [S -> SUBSET S],
         \A x \in S : x \notin below[x],
         \A x, y \in S : x = y \/ x \in below[y] \/ y \in below[x],
         \A x, y \in S : x \in below[y] => below[x] \subseteq below[y]
  PROVE  /\ Cardinality(S) \in Nat
         /\ \A x \in S : Cardinality(below[x]) \in 0 .. (Cardinality(S) - 1)
         /\ \A x, y \in S : x \in below[y] <=> Cardinality(below[x]) < Cardinality(below[y])
         /\ \A x, y \in S : Cardinality(below[x]) = Cardinality(below[y]) => x = y
         /\ \A p \in 1 .. Cardinality(S) : \E x \in S : Cardinality(below[x]) = p - 1
<1> DEFINE n == Cardinality(S)
<1>1. n \in Nat
  BY FS_CardinalityType
<1>2. \A x \in S : IsFiniteSet(below[x]) /\ Cardinality(below[x]) \in Nat
  BY FS_Subset, FS_CardinalityType
<1>3. ASSUME NEW x, NEW T, IsFiniteSet(T), x \in T, NEW U \in SUBSET (T \ {x})
      PROVE  Cardinality(U) < Cardinality(T)
  <2>1. IsFiniteSet(T \ {x}) /\ Cardinality(T \ {x}) = Cardinality(T) - 1
    BY <1>3, FS_RemoveElement
  <2>2. Cardinality(U) <= Cardinality(T \ {x}) /\ IsFiniteSet(U)
    BY <2>1, FS_Subset
  <2>3. Cardinality(U) \in Nat /\ Cardinality(T) \in Nat
    BY <1>3, <2>2, FS_CardinalityType
  <2> QED
    BY <2>1, <2>2, <2>3
<1>4. ASSUME NEW x \in S, NEW y \in S, x \in below[y]
      PROVE  Cardinality(below[x]) < Cardinality(below[y])
  <2>1. below[x] \in SUBSET (below[y] \ {x})
    BY <1>4
  <2> QED
    BY <1>2, <1>3, <1>4, <2>1
<1>5. ASSUME NEW x \in S
      PROVE  Cardinality(below[x]) < n
  <2>1. below[x] \in SUBSET (S \ {x})
    OBVIOUS
  <2> QED
    BY <1>3, <2>1
<1>6. \A x, y \in S : Cardinality(below[x]) = Cardinality(below[y]) => x = y
  BY <1>2, <1>4
<1>7. \A x, y \in S : Cardinality(below[x]) < Cardinality(below[y]) => x \in below[y]
  BY <1>2, <1>4
<1> DEFINE rank == [x \in S |-> Cardinality(below[x]) + 1]
<1>8. rank \in Injection(S, 1 .. n)
  <2>1. rank \in [S -> 1 .. n]
    BY <1>1, <1>2, <1>5
  <2>2. \A x, y \in S : rank[x] = rank[y] => x = y
    BY <1>2, <1>6
  <2> HIDE DEF rank
  <2> QED
    BY <2>1, <2>2, Fun_IsInj
<1>9. rank \in Surjection(S, 1 .. n)
  <2>1. IsFiniteSet(1 .. n) /\ Cardinality(1 .. n) = n
    BY <1>1, FS_Interval
  <2> HIDE DEF rank
  <2> QED
    BY <1>8, <2>1, FS_Injection
<1>10. \A p \in 1 .. n : \E x \in S : Cardinality(below[x]) = p - 1
  <2>1. \A p \in 1 .. n : \E x \in S : rank[x] = p
    BY <1>9 DEF Surjection
  <2> QED
    BY <1>2, <2>1
<1> QED
  BY <1>1, <1>2, <1>4, <1>5, <1>6, <1>7, <1>10

-----------------------------------------------------------------------------
(* Sorting.                                                                *)
Before(s, j, i) == Less(s[j], s[i]) \/ (j < i /\ ~Less(s[i], s[j]))

Earlier(s, i) == {j \in DOMAIN s : Before(s, j, i)}

SortOrder(s) ==
  [p \in 1 .. Cardinality(DOMAIN s) |->
     CHOOSE i \in DOMAIN s : Cardinality({j \in DOMAIN s : Before(s, j, i)}) = p - 1]

LEMMA SortedIs ==
  ASSUME NEW s
  PROVE  SortFindingsStable(s) = [p \in DOMAIN s |-> s[SortOrder(s)[p]]]
BY DEF SortFindingsStable, Ordered, SortOrder, Before

(* Less and the index make a total order.                                  *)
LEMMA BeforeIsTotal ==
  ASSUME NEW s \in Seq(Finding)
  PROVE  /\ \A i \in DOMAIN s : ~Before(s, i, i)
         /\ \A i, j \in DOMAIN s : i = j \/ Before(s, i, j) \/ Before(s, j, i)
         /\ \A i, j, k \in DOMAIN s : Before(s, i, j) /\ Before(s, j, k) => Before(s, i, k)
<1>1. \A i \in DOMAIN s : i \in Nat /\ s[i] \in Finding
  OBVIOUS
<1>2. \A f \in Finding : f.place \in Nat
  BY DEF Finding, Place
<1> QED
  BY <1>1, <1>2 DEF Before, Less, Rank

(* How a sequence s of n findings is sorted by the order at.               *)
SortsBy(s, n, at) ==
  /\ n \in Nat /\ DOMAIN s = 1 .. n
  /\ at \in [1 .. n -> 1 .. n]
  /\ \A p \in 1 .. n : Cardinality(Earlier(s, at[p])) = p - 1
  /\ \A p, q \in 1 .. n : p < q => Before(s, at[p], at[q])
  /\ \A i, j \in 1 .. n : Cardinality(Earlier(s, i)) = Cardinality(Earlier(s, j)) => i = j
  /\ \A i \in 1 .. n : \E p \in 1 .. n : at[p] = i
  /\ SortFindingsStable(s) \in Seq(Finding) /\ Len(SortFindingsStable(s)) = n
  /\ \A p \in 1 .. n : SortFindingsStable(s)[p] = s[at[p]]

(* A sorted sequence has each element of the old one in the place of its   *)
(* rank.                                                                   *)
LEMMA Sorting ==
  ASSUME NEW s \in Seq(Finding)
  PROVE  SortsBy(s, Len(s), SortOrder(s))
<1> DEFINE n == Len(s)
           at == SortOrder(s)
<1>0. n = Len(s) /\ at = SortOrder(s)
  OBVIOUS
<1>1. n \in Nat /\ DOMAIN s = 1 .. n
  OBVIOUS
<1> HIDE DEF n, at
<1> DEFINE below == [i \in 1 .. n |-> Earlier(s, i)]
           rank == [i \in 1 .. n |-> Cardinality(below[i])]
<1>2. IsFiniteSet(1 .. n) /\ Cardinality(1 .. n) = n
  BY <1>1, FirstNaturals
<1>3. /\ below \in [1 .. n -> SUBSET (1 .. n)]
      /\ \A i, j \in 1 .. n : j \in below[i] <=> Before(s, j, i)
      /\ \A i \in 1 .. n : below[i] = {j \in DOMAIN s : Before(s, j, i)}
      /\ \A i \in 1 .. n : below[i] = Earlier(s, i)
  BY <1>1 DEF Earlier
<1> HIDE DEF below
<1>4. /\ \A i \in 1 .. n : i \notin below[i]
      /\ \A i, j \in 1 .. n : i = j \/ i \in below[j] \/ j \in below[i]
      /\ \A i, j \in 1 .. n : i \in below[j] => below[i] \subseteq below[j]
  BY <1>1, <1>3, BeforeIsTotal
<1>5. /\ \A i \in 1 .. n : Cardinality(below[i]) \in 0 .. (n - 1)
      /\ \A i, j \in 1 .. n : i \in below[j] <=> Cardinality(below[i]) < Cardinality(below[j])
      /\ \A i, j \in 1 .. n : Cardinality(below[i]) = Cardinality(below[j]) => i = j
      /\ \A p \in 1 .. n : \E i \in 1 .. n : Cardinality(below[i]) = p - 1
  <2> DEFINE S == 1 .. n
  <2>1. /\ IsFiniteSet(S) /\ below \in [S -> SUBSET S]
        /\ \A i \in S : i \notin below[i]
        /\ \A i, j \in S : i = j \/ i \in below[j] \/ j \in below[i]
        /\ \A i, j \in S : i \in below[j] => below[i] \subseteq below[j]
        /\ Cardinality(S) = n
    BY <1>2, <1>3, <1>4
  <2> HIDE DEF S
  <2>2. /\ \A i \in S : Cardinality(below[i]) \in 0 .. (n - 1)
        /\ \A i, j \in S : i \in below[j] <=> Cardinality(below[i]) < Cardinality(below[j])
        /\ \A i, j \in S : Cardinality(below[i]) = Cardinality(below[j]) => i = j
        /\ \A p \in 1 .. n : \E i \in S : Cardinality(below[i]) = p - 1
    BY <2>1, Ranking
  <2> QED
    BY <2>2 DEF S
<1>6. /\ rank \in [1 .. n -> 0 .. (n - 1)]
      /\ \A i, j \in 1 .. n : i \in below[j] <=> rank[i] < rank[j]
      /\ \A i, j \in 1 .. n : rank[i] = rank[j] => i = j
      /\ \A i \in 1 .. n : Cardinality(below[i]) = rank[i]
  BY <1>5
<1> HIDE DEF rank
<1>7. ASSUME NEW p \in 1 .. n
      PROVE  at[p] \in 1 .. n /\ rank[at[p]] = p - 1
  <2>1. at[p] = CHOOSE i \in DOMAIN s : Cardinality({j \in DOMAIN s : Before(s, j, i)}) = p - 1
    BY <1>0, <1>1, <1>2 DEF SortOrder
  <2>2. \E i \in DOMAIN s : Cardinality({j \in DOMAIN s : Before(s, j, i)}) = p - 1
    <3>1. PICK i \in 1 .. n : Cardinality(below[i]) = p - 1
      BY <1>5
    <3>2. Cardinality({j \in DOMAIN s : Before(s, j, i)}) = p - 1
      BY <1>3, <3>1
    <3> QED
      BY <1>1, <3>2
  <2>3. at[p] \in DOMAIN s /\ Cardinality({j \in DOMAIN s : Before(s, j, at[p])}) = p - 1
    BY <2>1, <2>2
  <2> QED
    BY <1>1, <1>3, <1>6, <2>3
<1>8. at \in [1 .. n -> 1 .. n]
  <2> DEFINE W(p) == CHOOSE i \in DOMAIN s : Cardinality({j \in DOMAIN s : Before(s, j, i)}) = p - 1
  <2>1. at = [p \in 1 .. n |-> W(p)]
    BY <1>0, <1>1, <1>2 DEF SortOrder
  <2> HIDE DEF W
  <2>2. at = [p \in 1 .. n |-> at[p]]
    BY <2>1
  <2> QED
    BY <1>7, <2>2
<1>9. \A p, q \in 1 .. n : p < q => Before(s, at[p], at[q])
  <2>1. \A p, q \in 1 .. n : p < q => rank[at[p]] < rank[at[q]]
    BY <1>1, <1>7
  <2> QED
    BY <1>3, <1>6, <1>7, <2>1
<1>10. SortFindingsStable(s) = [p \in 1 .. n |-> s[at[p]]]
  BY <1>0, <1>1, SortedIs
<1>11. \A p \in 1 .. n : s[at[p]] \in Finding
  BY <1>1, <1>8
<1>12. SortFindingsStable(s) \in Seq(Finding) /\ Len(SortFindingsStable(s)) = n
  BY <1>1, <1>10, <1>11
<1>13. \A p \in 1 .. n : Cardinality(Earlier(s, at[p])) = p - 1
  BY <1>3, <1>6, <1>7
<1>14. \A i, j \in 1 .. n : Cardinality(Earlier(s, i)) = Cardinality(Earlier(s, j)) => i = j
  BY <1>3, <1>5
<1>15. ASSUME NEW i \in 1 .. n
       PROVE  \E p \in 1 .. n : at[p] = i
  <2>1. rank[i] + 1 \in 1 .. n /\ (rank[i] + 1) - 1 = rank[i]
    BY <1>1, <1>6
  <2>2. at[rank[i] + 1] = i
    BY <1>6, <1>7, <2>1
  <2> QED
    BY <2>1, <2>2
<1> QED
  BY <1>0, <1>1, <1>8, <1>9, <1>10, <1>12, <1>13, <1>14, <1>15 DEF SortsBy

(* pi takes each element of s to the same one of t, one to one.            *)
Matches(s, t, pi) ==
  /\ pi \in [DOMAIN s -> DOMAIN t]
  /\ \A i, j \in DOMAIN s : pi[i] = pi[j] => i = j
  /\ \A j \in DOMAIN t : \E i \in DOMAIN s : pi[i] = j
  /\ \A i \in DOMAIN s : s[i] = t[pi[i]]

LEMMA MatchesBack ==
  ASSUME NEW s, NEW t, NEW pi, Matches(s, t, pi)
  PROVE  \E rho : Matches(t, s, rho)
<1> DEFINE rho == [j \in DOMAIN t |-> CHOOSE i \in DOMAIN s : pi[i] = j]
<1>1. rho \in [DOMAIN t -> DOMAIN s] /\ \A j \in DOMAIN t : pi[rho[j]] = j
  BY DEF Matches
<1> HIDE DEF rho
<1>2. \A i, j \in DOMAIN t : rho[i] = rho[j] => i = j
  BY <1>1
<1>3. ASSUME NEW i \in DOMAIN s
      PROVE  \E j \in DOMAIN t : rho[j] = i
  <2>1. pi[i] \in DOMAIN t /\ rho[pi[i]] \in DOMAIN s /\ pi[rho[pi[i]]] = pi[i]
    BY <1>1 DEF Matches
  <2>2. rho[pi[i]] = i
    BY <2>1 DEF Matches
  <2> QED
    BY <2>1, <2>2
<1>4. \A j \in DOMAIN t : t[j] = s[rho[j]]
  BY <1>1 DEF Matches
<1> QED
  BY <1>1, <1>2, <1>3, <1>4 DEF Matches

(* A one-to-one map of E into F makes F at least as large as E.            *)
LEMMA NoFewer ==
  ASSUME NEW n \in Nat, NEW E \in SUBSET (1 .. n), NEW F \in SUBSET (1 .. n),
         NEW pi, \A j \in E : pi[j] \in F, \A i, j \in E : pi[i] = pi[j] => i = j
  PROVE  Cardinality(E) \in Nat /\ Cardinality(F) \in Nat /\ Cardinality(E) <= Cardinality(F)
<1> DEFINE g == [j \in E |-> pi[j]]
<1>1. IsFiniteSet(E) /\ IsFiniteSet(F)
  <2>1. IsFiniteSet(1 .. n)
    BY FirstNaturals
  <2> QED
    BY <2>1, FS_Subset
<1>2. g \in [E -> F] /\ \A i, j \in E : g[i] = g[j] => i = j
  OBVIOUS
<1> HIDE DEF g
<1>3. g \in Injection(E, F)
  BY <1>2, Fun_IsInj
<1>4. Cardinality(E) <= Cardinality(F)
  BY <1>1, <1>3, FS_Injection
<1> QED
  BY <1>1, <1>4, FS_CardinalityType

(* What Less is: a weak order, whose ties agree in rank and place.         *)
LEMMA LessIsWeakOrder ==
  ASSUME NEW f \in Finding, NEW g \in Finding, NEW h \in Finding
  PROVE  /\ ~(Less(f, g) /\ Less(g, f))
         /\ ~Less(g, f) /\ Less(g, h) => Less(f, h)
         /\ ~Less(f, g) /\ ~Less(g, f) <=> Rank(f) = Rank(g) /\ f.place = g.place
<1>1. f.place \in Nat /\ g.place \in Nat /\ h.place \in Nat
  BY DEF Finding, Place
<1> QED
  BY <1>1 DEF Less, Rank

(* Of the same findings, none is sorted below the one that another         *)
(* arrangement of them puts at the same position.                          *)
LEMMA SortedNoLess ==
  ASSUME NEW s \in Seq(Finding), NEW t \in Seq(Finding), Len(s) = Len(t),
         NEW pi, Matches(s, t, pi), NEW p \in DOMAIN s
  PROVE  ~Less(SortFindingsStable(t)[p], SortFindingsStable(s)[p])
<1> DEFINE n == Len(s)
           m == Len(t)
           u == SortOrder(s)
           v == SortOrder(t)
<1>a. SortsBy(s, n, u)
  BY Sorting
<1>b. SortsBy(t, m, v)
  BY Sorting
<1>0. m = n
  OBVIOUS
<1> HIDE DEF m, n, u, v
<1>1. /\ n \in Nat /\ DOMAIN s = 1 .. n /\ p \in 1 .. n
      /\ u \in [1 .. n -> 1 .. n]
      /\ \A q \in 1 .. n : Cardinality(Earlier(s, u[q])) = q - 1
      /\ SortFindingsStable(s)[p] = s[u[p]]
  BY <1>a DEF SortsBy
<1>2. /\ DOMAIN t = 1 .. n
      /\ v \in [1 .. n -> 1 .. n]
      /\ \A q \in 1 .. n : Cardinality(Earlier(t, v[q])) = q - 1
      /\ \A q, r \in 1 .. n : q < r => Before(t, v[q], v[r])
      /\ SortFindingsStable(t)[p] = t[v[p]]
  BY <1>0, <1>1, <1>b DEF SortsBy
<1>3. /\ pi \in [1 .. n -> 1 .. n]
      /\ \A i, j \in 1 .. n : pi[i] = pi[j] => i = j
      /\ \A j \in 1 .. n : \E i \in 1 .. n : pi[i] = j
      /\ \A i \in 1 .. n : s[i] = t[pi[i]]
  BY <1>1, <1>2 DEF Matches
<1>4. \A j \in 1 .. n : s[j] \in Finding /\ t[j] \in Finding
  BY <1>1, <1>2
<1> SUFFICES ASSUME Less(t[v[p]], s[u[p]])
             PROVE  FALSE
  BY <1>1, <1>2
<1> DEFINE E == 1 .. p
           F == Earlier(s, u[p])
           h == [q \in E |-> CHOOSE j \in 1 .. n : pi[j] = v[q]]
<1>5. /\ E \in SUBSET (1 .. n) /\ F \in SUBSET (1 .. n) /\ Cardinality(E) = p
      /\ Cardinality(F) = p - 1 /\ \A q \in E : q <= p
  <2>1. p \in Nat /\ p <= n /\ Cardinality(E) = p
    BY <1>1, FirstNaturals
  <2>2. E \in SUBSET (1 .. n) /\ \A q \in E : q <= p
    BY <1>1, <2>1
  <2>3. F \in SUBSET (1 .. n)
    BY <1>1 DEF Earlier
  <2>4. Cardinality(F) = p - 1
    BY <1>1
  <2> QED
    BY <2>1, <2>2, <2>3, <2>4
<1>6. \A j \in 1 .. n : Less(s[j], s[u[p]]) => j \in F
  BY <1>1 DEF Earlier, Before
<1>7. ASSUME NEW q \in E
      PROVE  h[q] \in 1 .. n /\ pi[h[q]] = v[q]
  BY <1>2, <1>3, <1>5
<1> HIDE DEF E, F, h
<1>8. ASSUME NEW q \in E
      PROVE  h[q] \in F
  <2>1. v[q] \in 1 .. n /\ v[p] \in 1 .. n /\ u[p] \in 1 .. n
    BY <1>1, <1>2, <1>5
  <2>2. ~Less(t[v[p]], t[v[q]])
    <3>1. CASE q = p
      BY <1>4, <2>1, <3>1, LessIsWeakOrder
    <3>2. CASE q < p
      <4>1. Less(t[v[q]], t[v[p]]) \/ ~Less(t[v[p]], t[v[q]])
        BY <1>1, <1>2, <1>5, <3>2 DEF Before
      <4> QED
        BY <1>4, <2>1, <4>1, LessIsWeakOrder
    <3> QED
      BY <1>1, <1>5, <3>1, <3>2
  <2>3. Less(t[v[q]], s[u[p]])
    BY <1>4, <2>1, <2>2, LessIsWeakOrder
  <2> QED
    BY <1>3, <1>6, <1>7, <2>3
<1>9. \A q, r \in E : h[q] = h[r] => q = r
  <2>1. \A q, r \in 1 .. n : v[q] = v[r] => q = r
    BY <1>1, <1>2
  <2> QED
    BY <1>5, <1>7, <2>1
<1>10. Cardinality(E) <= Cardinality(F)
  BY <1>1, <1>5, <1>8, <1>9, NoFewer
<1> QED
  BY <1>1, <1>5, <1>10

(* A finding of t that stands to all others of t as the same one of s does *)
(* to those of s is sorted to the same position.                           *)
LEMMA SortedInPlace ==
  ASSUME NEW s \in Seq(Finding), NEW t \in Seq(Finding), Len(s) = Len(t),
         NEW pi, Matches(s, t, pi), NEW i \in DOMAIN s,
         \A j \in DOMAIN s : Before(s, j, i) <=> Before(t, pi[j], pi[i]),
         NEW p \in DOMAIN t, pi[i] = SortOrder(t)[p]
  PROVE  SortFindingsStable(s)[p] = SortFindingsStable(t)[p]
<1> DEFINE n == Len(s)
           m == Len(t)
           u == SortOrder(s)
           v == SortOrder(t)
<1>a. SortsBy(s, n, u)
  BY Sorting
<1>b. SortsBy(t, m, v)
  BY Sorting
<1>c. pi[i] = v[p]
  OBVIOUS
<1>0. m = n
  OBVIOUS
<1> HIDE DEF m, n, u, v
<1>1. /\ n \in Nat /\ DOMAIN s = 1 .. n
      /\ u \in [1 .. n -> 1 .. n]
      /\ \A q \in 1 .. n : Cardinality(Earlier(s, u[q])) = q - 1
      /\ \A j, k \in 1 .. n : Cardinality(Earlier(s, j)) = Cardinality(Earlier(s, k)) => j = k
      /\ \A q \in 1 .. n : SortFindingsStable(s)[q] = s[u[q]]
  BY <1>a DEF SortsBy
<1>2. /\ DOMAIN t = 1 .. n /\ p \in 1 .. n
      /\ \A q \in 1 .. n : Cardinality(Earlier(t, v[q])) = q - 1
      /\ \A q \in 1 .. n : SortFindingsStable(t)[q] = t[v[q]]
  BY <1>0, <1>b DEF SortsBy
<1>3. /\ pi \in [1 .. n -> 1 .. n] /\ i \in 1 .. n
      /\ \A j, k \in 1 .. n : pi[j] = pi[k] => j = k
      /\ \A k \in 1 .. n : \E j \in 1 .. n : pi[j] = k
      /\ \A j \in 1 .. n : s[j] = t[pi[j]]
  BY <1>1, <1>2 DEF Matches
<1>4. Cardinality(Earlier(t, pi[i])) = Cardinality(Earlier(s, i))
  <2> DEFINE E == Earlier(s, i)
             F == Earlier(t, pi[i])
             g == [j \in E |-> pi[j]]
  <2>1. IsFiniteSet(E)
    <3>1. IsFiniteSet(1 .. n) /\ E \in SUBSET (1 .. n)
      BY <1>1, FirstNaturals DEF Earlier
    <3> QED
      BY <3>1, FS_Subset
  <2>2. \A j \in 1 .. n : j \in E <=> pi[j] \in F
    BY <1>1, <1>2, <1>3 DEF Earlier
  <2>3. E \subseteq 1 .. n /\ F \subseteq 1 .. n
    BY <1>1, <1>2 DEF Earlier
  <2> HIDE DEF E, F
  <2>4. g \in [E -> F]
    BY <2>2, <2>3
  <2>5. \A j, k \in E : g[j] = g[k] => j = k
    BY <1>3, <2>3
  <2>6. ASSUME NEW k \in F
        PROVE  \E j \in E : g[j] = k
    <3>1. PICK j \in 1 .. n : pi[j] = k
      BY <1>3, <2>3
    <3> QED
      BY <2>2, <3>1
  <2> HIDE DEF g
  <2>7. g \in Bijection(E, F)
    BY <2>4, <2>5, <2>6, Fun_IsBij, Fun_IsInj, Fun_IsSurj
  <2> QED
    BY <2>1, <2>7, FS_Bijection DEF ExistsBijection, E, F
<1>5. Cardinality(Earlier(s, i)) = Cardinality(Earlier(s, u[p])) /\ u[p] \in 1 .. n
  BY <1>1, <1>2, <1>4, <1>c
<1>6. i = u[p]
  BY <1>1, <1>3, <1>5
<1> QED
  <2>1. SortFindingsStable(s)[p] = s[i]
    BY <1>1, <1>2, <1>6
  <2>2. SortFindingsStable(t)[p] = t[pi[i]]
    BY <1>2, <1>c
  <2>3. s[i] = t[pi[i]]
    BY <1>3
  <2> QED
    BY <2>1, <2>2, <2>3

(* The findings of a sequence are those of the sorted one.                 *)
LEMMA SortedSame ==
  ASSUME NEW s \in Seq(Finding), NEW t \in Seq(Finding), Len(s) = Len(t),
         NEW pi, Matches(s, t, pi)
  PROVE  LET x == SortFindingsStable(s)
             y == SortFindingsStable(t)
         IN  {x[p] : p \in DOMAIN x} = {y[p] : p \in DOMAIN y}
<1>1. ASSUME NEW w \in Seq(Finding)
      PROVE  {SortFindingsStable(w)[p] : p \in DOMAIN SortFindingsStable(w)} = {w[i] : i \in DOMAIN w}
  <2> DEFINE n == Len(w)
             u == SortOrder(w)
             x == SortFindingsStable(w)
  <2>1. SortsBy(w, n, u)
    BY Sorting
  <2> HIDE DEF n, u
  <2>2. /\ n \in Nat /\ DOMAIN w = 1 .. n /\ u \in [1 .. n -> 1 .. n]
        /\ \A i \in 1 .. n : \E p \in 1 .. n : u[p] = i
        /\ x \in Seq(Finding) /\ Len(x) = n
        /\ \A p \in 1 .. n : x[p] = w[u[p]]
    BY <2>1 DEF SortsBy
  <2> HIDE DEF x
  <2>3. DOMAIN x = 1 .. n
    BY <2>2
  <2>4. \A p \in 1 .. n : \E i \in 1 .. n : x[p] = w[i]
    BY <2>2
  <2>5. \A i \in 1 .. n : \E p \in 1 .. n : x[p] = w[i]
    BY <2>2
  <2>6. {x[p] : p \in DOMAIN x} = {w[i] : i \in DOMAIN w}
    BY <2>2, <2>3, <2>4, <2>5
  <2> QED
    BY <2>6 DEF x
<1>2. {s[i] : i \in DOMAIN s} = {t[i] : i \in DOMAIN t}
  <2>1. \A i \in DOMAIN s : pi[i] \in DOMAIN t /\ s[i] = t[pi[i]]
    BY DEF Matches
  <2>2. \A j \in DOMAIN t : \E i \in DOMAIN s : s[i] = t[j]
    BY DEF Matches
  <2> QED
    BY <2>1, <2>2
<1> QED
  BY <1>1, <1>2

-----------------------------------------------------------------------------
(* Arrangements of the findings of the replies rs to the files in F: org   *)
(* says of each element of s which finding it is.                          *)
Found(rs, F) == UNION {{f} \X DOMAIN rs[f].findings : f \in F}

Arranges(org, s, rs, F) ==
  /\ org \in [DOMAIN s -> Found(rs, F)]
  /\ \A i, j \in DOMAIN s : org[i] = org[j] => i = j
  /\ \A x \in Found(rs, F) : \E i \in DOMAIN s : org[i] = x
  /\ \A i \in DOMAIN s : s[i] = rs[org[i][1]].findings[org[i][2]]
  /\ \A i, j \in DOMAIN s : org[i][1] = org[j][1] /\ i < j => org[i][2] < org[j][2]

(* Reply rs[f] is one that the review of file f may have made.             *)
Answered(rs, f) ==
  /\ rs[f] \in Reply
  /\ \A k \in DOMAIN rs[f].findings : rs[f].findings[k].by = f

(* The findings of a file, in their order.                                 *)
LEMMA FoundIs ==
  ASSUME NEW rs, NEW F \in SUBSET Files, \A f \in F : rs[f] \in Reply, NEW x \in Found(rs, F)
  PROVE  /\ x = <<x[1], x[2]>> /\ x[1] \in F /\ x[1] \in Nat
         /\ x[2] \in DOMAIN rs[x[1]].findings /\ x[2] \in Nat
         /\ rs[x[1]].findings[x[2]] \in Finding
<1>1. PICK f \in F : x \in {f} \X DOMAIN rs[f].findings
  BY DEF Found
<1>2. rs[f].findings \in Seq(Finding)
  BY DEF Reply
<1> QED
  BY <1>1, <1>2 DEF Files

(* The report settled, but for the order within ties.                      *)
SameButForTies(x, y) ==
  /\ Len(x) = Len(y)
  /\ {x[p] : p \in DOMAIN x} = {y[p] : p \in DOMAIN y}
  /\ \A p \in DOMAIN y :
       /\ Rank(x[p]) = Rank(y[p]) /\ x[p].place = y[p].place
       /\ x[p] = y[p] \/ Tied(y, p)

(* Some pi takes each element of s to that of t which is the same finding. *)
Pairable(s, t, a, b) ==
  \E pi : Matches(s, t, pi) /\ \A i \in DOMAIN s : b[pi[i]] = a[i]

(* Two arrangements of the same findings match.                            *)
LEMMA ArrangedMatch ==
  ASSUME NEW rs, NEW F, NEW s, NEW t, NEW a, Arranges(a, s, rs, F), NEW b, Arranges(b, t, rs, F)
  PROVE  Pairable(s, t, a, b)
<1> DEFINE pi == [i \in DOMAIN s |-> CHOOSE j \in DOMAIN t : b[j] = a[i]]
<1>1. pi \in [DOMAIN s -> DOMAIN t] /\ \A i \in DOMAIN s : b[pi[i]] = a[i]
  BY DEF Arranges
<1> HIDE DEF pi
<1>2. \A i, j \in DOMAIN s : pi[i] = pi[j] => i = j
  BY <1>1 DEF Arranges
<1>3. ASSUME NEW j \in DOMAIN t
      PROVE  \E i \in DOMAIN s : pi[i] = j
  <2>1. PICK i \in DOMAIN s : a[i] = b[j]
    BY DEF Arranges
  <2> QED
    BY <1>1, <2>1 DEF Arranges
<1>4. \A i \in DOMAIN s : s[i] = t[pi[i]]
  BY <1>1 DEF Arranges
<1> QED
  BY <1>1, <1>2, <1>3, <1>4 DEF Matches, Pairable

(* In both, a finding in no tie with another review's stands alike to all  *)
(* others.                                                                 *)
LEMMA UntiedStandsAlike ==
  ASSUME NEW rs, NEW F \in SUBSET Files, \A f \in F : Answered(rs, f),
         NEW s \in Seq(Finding), NEW t \in Seq(Finding),
         NEW a, Arranges(a, s, rs, F), NEW b, Arranges(b, t, rs, F),
         NEW pi, Matches(s, t, pi), \A k \in DOMAIN s : b[pi[k]] = a[k],
         NEW i \in DOMAIN s, NEW j \in DOMAIN s,
         s[j].by = s[i].by \/ Rank(s[j]) # Rank(s[i]) \/ s[j].place # s[i].place
  PROVE  Before(s, j, i) <=> Before(t, pi[j], pi[i])
<1>1. pi \in [DOMAIN s -> DOMAIN t] /\ \A k \in DOMAIN s : s[k] = t[pi[k]]
  BY DEF Matches
<1>2. \A k, l \in DOMAIN s : pi[k] = pi[l] => k = l
  BY DEF Matches
<1>3. /\ i \in Nat /\ j \in Nat /\ pi[i] \in Nat /\ pi[j] \in Nat
      /\ pi[i] \in DOMAIN t /\ pi[j] \in DOMAIN t
  BY <1>1
<1>4. s[i] = t[pi[i]] /\ s[j] = t[pi[j]] /\ s[i] \in Finding /\ s[j] \in Finding
  BY <1>1
<1>5. CASE Less(s[j], s[i]) \/ Less(s[i], s[j])
  <2>1. ~(Less(s[i], s[j]) /\ Less(s[j], s[i]))
    BY <1>4, LessIsWeakOrder
  <2> QED
    BY <1>4, <1>5, <2>1 DEF Before
<1>6. CASE ~Less(s[j], s[i]) /\ ~Less(s[i], s[j])
  <2> DEFINE x == a[i]
             y == a[j]
  <2>1. /\ x \in Found(rs, F) /\ y \in Found(rs, F)
        /\ s[i] = rs[x[1]].findings[x[2]] /\ s[j] = rs[y[1]].findings[y[2]]
    BY DEF Arranges
  <2>2. /\ x = <<x[1], x[2]>> /\ x[1] \in F /\ x[2] \in Nat
        /\ x[2] \in DOMAIN rs[x[1]].findings
        /\ y = <<y[1], y[2]>> /\ y[1] \in F /\ y[2] \in Nat
        /\ y[2] \in DOMAIN rs[y[1]].findings
    BY <2>1, FoundIs DEF Answered
  <2>3. s[i].by = s[j].by
    BY <1>4, <1>6, LessIsWeakOrder
  <2>4. x[1] = y[1]
    BY <2>1, <2>2, <2>3 DEF Answered
  <2>5. b[pi[i]] = x /\ b[pi[j]] = y
    OBVIOUS
  <2> HIDE DEF x, y
  <2>6. (i < j => x[2] < y[2]) /\ (j < i => y[2] < x[2])
    BY <2>4 DEF Arranges, x, y
  <2>7. (pi[i] < pi[j] => x[2] < y[2]) /\ (pi[j] < pi[i] => y[2] < x[2])
    BY <1>3, <2>4, <2>5 DEF Arranges
  <2>8. pi[i] = pi[j] <=> i = j
    BY <1>2
  <2>9. j < i <=> pi[j] < pi[i]
    BY <1>3, <2>2, <2>6, <2>7, <2>8
  <2> QED
    BY <1>4, <1>6, <2>9 DEF Before
<1> QED
  BY <1>5, <1>6

(* All arrangements of the same findings are sorted alike but for ties.    *)
LEMMA ArrangedAlike ==
  ASSUME NEW rs, NEW F \in SUBSET Files, \A f \in F : Answered(rs, f),
         NEW s \in Seq(Finding), NEW t \in Seq(Finding), Len(s) = Len(t),
         NEW a, Arranges(a, s, rs, F), NEW b, Arranges(b, t, rs, F)
  PROVE  SameButForTies(SortFindingsStable(s), SortFindingsStable(t))
<1>1. PICK pi : Matches(s, t, pi) /\ \A i \in DOMAIN s : b[pi[i]] = a[i]
  <2>1. Pairable(s, t, a, b)
    BY ArrangedMatch
  <2> QED
    BY <2>1 DEF Pairable
<1>2. PICK rho : Matches(t, s, rho)
  BY <1>1, MatchesBack
<1> DEFINE x == SortFindingsStable(s)
           y == SortFindingsStable(t)
           n == Len(s)
           v == SortOrder(t)
<1>3. /\ n \in Nat /\ DOMAIN s = 1 .. n /\ DOMAIN t = 1 .. n
      /\ x \in Seq(Finding) /\ Len(x) = n /\ y \in Seq(Finding) /\ Len(y) = n
      /\ v \in [1 .. n -> 1 .. n] /\ (\A k \in 1 .. n : \E p \in 1 .. n : v[p] = k)
      /\ \A p \in 1 .. n : y[p] = t[v[p]]
  <2>1. SortsBy(s, n, SortOrder(s)) /\ SortsBy(t, Len(t), v)
    BY Sorting
  <2> HIDE DEF v
  <2> QED
    BY <2>1 DEF SortsBy
<1>4. {x[p] : p \in DOMAIN x} = {y[p] : p \in DOMAIN y}
  BY <1>1, SortedSame
<1>5. ASSUME NEW p \in 1 .. n
      PROVE  Rank(x[p]) = Rank(y[p]) /\ x[p].place = y[p].place
  <2>1. ~Less(y[p], x[p])
    BY <1>1, <1>3, SortedNoLess
  <2>2. ~Less(x[p], y[p])
    BY <1>2, <1>3, SortedNoLess
  <2> HIDE DEF x, y
  <2>3. x[p] \in Finding /\ y[p] \in Finding
    BY <1>3
  <2> QED
    BY <2>1, <2>2, <2>3, LessIsWeakOrder
<1>6. ASSUME NEW p \in 1 .. n, ~Tied(y, p)
      PROVE  x[p] = y[p]
  <2> HIDE DEF y, v
  <2>1. PICK i \in DOMAIN s : pi[i] = v[p]
    BY <1>1, <1>3 DEF Matches
  <2>2. ASSUME NEW j \in DOMAIN s
        PROVE  s[j].by = s[i].by \/ Rank(s[j]) # Rank(s[i]) \/ s[j].place # s[i].place
    <3>1. s[i] = t[pi[i]] /\ s[j] = t[pi[j]] /\ pi[j] \in 1 .. n
      BY <1>1, <1>3 DEF Matches
    <3>2. PICK q \in 1 .. n : v[q] = pi[j]
      BY <1>3, <3>1
    <3>3. y[p] = s[i] /\ y[q] = s[j] /\ q \in DOMAIN y
      <4>1. y[p] = t[v[p]] /\ y[q] = t[v[q]]
        BY <1>3
      <4>2. y[p] = t[pi[i]] /\ y[q] = t[pi[j]]
        BY <2>1, <3>2, <4>1
      <4>3. q \in DOMAIN y
        BY <1>3
      <4> QED
        BY <3>1, <4>2, <4>3
    <3> QED
      BY <1>6, <3>3 DEF Tied
  <2>3. \A j \in DOMAIN s : Before(s, j, i) <=> Before(t, pi[j], pi[i])
    BY <1>1, <2>2, UntiedStandsAlike
  <2>4. p \in DOMAIN t /\ pi[i] = SortOrder(t)[p]
    BY <1>3, <2>1 DEF v
  <2> QED
    BY <1>1, <2>3, <2>4, SortedInPlace DEF y
<1> HIDE DEF x, y, v
<1>7. DOMAIN y = 1 .. n /\ Len(x) = Len(y)
  BY <1>3
<1>8. SameButForTies(x, y)
  BY <1>4, <1>5, <1>6, <1>7 DEF SameButForTies
<1> QED
  BY <1>8 DEF x, y

(* What is found depends on the replies to these files only.               *)
LEMMA ArrangesSame ==
  ASSUME NEW rs, NEW rt, NEW F \in SUBSET Files, \A f \in F : rs[f] \in Reply /\ rt[f] = rs[f],
         NEW org, NEW s
  PROVE  Found(rt, F) = Found(rs, F) /\ (Arranges(org, s, rs, F) => Arranges(org, s, rt, F))
<1>1. Found(rt, F) = Found(rs, F)
  BY DEF Found
<1>2. ASSUME Arranges(org, s, rs, F)
      PROVE  Arranges(org, s, rt, F)
  <2>1. \A i \in DOMAIN s : org[i] \in Found(rs, F)
    BY <1>2 DEF Arranges
  <2>2. \A i \in DOMAIN s : org[i][1] \in F
    BY <2>1, FoundIs
  <2>3. \A i \in DOMAIN s : rt[org[i][1]] = rs[org[i][1]]
    BY <2>2
  <2> QED
    BY <1>1, <1>2, <2>3 DEF Arranges
<1> QED
  BY <1>1, <1>2

(* The findings of a file, put behind those merged before.                 *)
LEMMA ArrangesMore ==
  ASSUME NEW rs, NEW F \in SUBSET Files, NEW f \in Files \ F,
         \A g \in F \cup {f} : rs[g] \in Reply,
         NEW s \in Seq(Finding), NEW a, Arranges(a, s, rs, F)
  PROVE  /\ s \o rs[f].findings \in Seq(Finding)
         /\ \E b : Arranges(b, s \o rs[f].findings, rs, F \cup {f})
<1> DEFINE l == rs[f].findings
           n == Len(s)
           m == Len(l)
           t == s \o l
           G == F \cup {f}
           b == [i \in 1 .. (n + m) |-> IF i <= n THEN a[i] ELSE <<f, i - n>>]
<1>1. l \in Seq(Finding)
  BY DEF Reply
<1>2. /\ n \in Nat /\ m \in Nat /\ DOMAIN s = 1 .. n /\ DOMAIN l = 1 .. m
      /\ t \in Seq(Finding) /\ DOMAIN t = 1 .. (n + m)
      /\ \A i \in 1 .. (n + m) : t[i] = IF i <= n THEN s[i] ELSE l[i - n]
  BY <1>1
<1>3. \A x : x \in Found(rs, G) <=> x \in Found(rs, F) \/ \E k \in 1 .. m : x = <<f, k>>
  BY <1>2 DEF Found
<1>4. \A i \in 1 .. n : a[i] \in Found(rs, F) /\ a[i][1] \in F
  <2>1. \A i \in 1 .. n : a[i] \in Found(rs, F)
    BY <1>2 DEF Arranges
  <2> QED
    BY <2>1, FoundIs
<1>5. /\ \A i \in 1 .. n : s[i] = rs[a[i][1]].findings[a[i][2]]
      /\ \A i, j \in 1 .. n : a[i] = a[j] => i = j
      /\ \A i, j \in 1 .. n : a[i][1] = a[j][1] /\ i < j => a[i][2] < a[j][2]
      /\ \A x \in Found(rs, F) : \E i \in 1 .. n : a[i] = x
  BY <1>2 DEF Arranges
<1> HIDE DEF n, m, t
<1>6. /\ \A i \in 1 .. (n + m) : i <= n => i \in 1 .. n /\ b[i] = a[i]
      /\ \A i \in 1 .. (n + m) : ~(i <= n) => i - n \in 1 .. m /\ b[i] = <<f, i - n>>
      /\ \A i \in 1 .. n : i \in 1 .. (n + m) /\ i <= n
      /\ \A k \in 1 .. m : k + n \in 1 .. (n + m) /\ ~(k + n <= n) /\ (k + n) - n = k
      /\ DOMAIN b = 1 .. (n + m) /\ b = [i \in 1 .. (n + m) |-> b[i]]
  BY <1>2
<1> HIDE DEF l, b, G
<1>7. ASSUME NEW i \in 1 .. (n + m)
      PROVE  /\ b[i] \in Found(rs, G)
             /\ t[i] = rs[b[i][1]].findings[b[i][2]]
             /\ b[i][1] = f <=> ~(i <= n)
  <2>1. CASE i <= n
    <3>1. b[i] = a[i] /\ i \in 1 .. n
      BY <1>6, <2>1
    <3> QED
      BY <1>2, <1>3, <1>4, <1>5, <2>1, <3>1
  <2>2. CASE ~(i <= n)
    <3>1. b[i] = <<f, i - n>> /\ i - n \in 1 .. m
      BY <1>6, <2>2
    <3>2. b[i][1] = f /\ b[i][2] = i - n
      BY <3>1
    <3> QED
      BY <1>2, <1>3, <2>2, <3>1, <3>2 DEF l
  <2> QED
    BY <2>1, <2>2
<1>8. b \in [1 .. (n + m) -> Found(rs, G)]
  BY <1>6, <1>7
<1>9. ASSUME NEW i \in 1 .. (n + m), NEW j \in 1 .. (n + m), b[i][1] = b[j][1]
      PROVE  (b[i] = b[j] => i = j) /\ (i < j => b[i][2] < b[j][2])
  <2>1. CASE b[i][1] = f
    <3>1. b[i] = <<f, i - n>> /\ b[j] = <<f, j - n>>
      BY <1>6, <1>7, <1>9, <2>1
    <3> QED
      BY <1>2, <3>1
  <2>2. CASE b[i][1] # f
    <3>1. i \in 1 .. n /\ j \in 1 .. n /\ b[i] = a[i] /\ b[j] = a[j]
      BY <1>6, <1>7, <1>9, <2>2
    <3> QED
      BY <1>5, <1>9, <3>1
  <2> QED
    BY <2>1, <2>2
<1>10. ASSUME NEW x \in Found(rs, G)
       PROVE  \E i \in 1 .. (n + m) : b[i] = x
  <2>1. CASE x \in Found(rs, F)
    <3>1. PICK i \in 1 .. n : a[i] = x
      BY <1>5, <2>1
    <3> QED
      BY <1>6, <3>1
  <2>2. CASE \E k \in 1 .. m : x = <<f, k>>
    <3>1. PICK k \in 1 .. m : x = <<f, k>>
      BY <2>2
    <3>2. b[k + n] = <<f, k>> /\ k + n \in 1 .. (n + m)
      BY <1>6
    <3> QED
      BY <3>1, <3>2
  <2> QED
    BY <1>3, <2>1, <2>2
<1>11. Arranges(b, t, rs, G)
  BY <1>2, <1>7, <1>8, <1>9, <1>10 DEF Arranges
<1> QED
  BY <1>2, <1>11 DEF t, l, G

(* An arrangement is one of finitely many findings, as many as it is long. *)
LEMMA ArrangedCount ==
  ASSUME NEW rs, NEW F, NEW s \in Seq(Finding), NEW a, Arranges(a, s, rs, F)
  PROVE  IsFiniteSet(Found(rs, F)) /\ Cardinality(Found(rs, F)) = Len(s)
<1> DEFINE n == Len(s)
           S == 1 .. n
           X == Found(rs, F)
<1>1. n \in Nat /\ DOMAIN s = S
  OBVIOUS
<1>2. IsFiniteSet(S) /\ Cardinality(S) = n
  BY <1>1, FirstNaturals
<1>3. a \in [S -> X] /\ (\A i, j \in S : a[i] = a[j] => i = j) /\ \A x \in X : \E i \in S : a[i] = x
  BY <1>1 DEF Arranges
<1> HIDE DEF n, S, X
<1>4. a \in Bijection(S, X)
  BY <1>3, Fun_IsBij, Fun_IsInj, Fun_IsSurj
<1>5. IsFiniteSet(X) /\ Cardinality(X) = Cardinality(S)
  BY <1>2, <1>4, FS_Bijection DEF ExistsBijection
<1> QED
  BY <1>2, <1>5 DEF n, X

-----------------------------------------------------------------------------
(* The findings in the order of their files.                               *)
InFront(x, y) == x[1] < y[1] \/ (x[1] = y[1] /\ x[2] < y[2])

FileOrder(S) ==
  [p \in 1 .. Cardinality(S) |-> CHOOSE x \in S : Cardinality({y \in S : InFront(y, x)}) = p - 1]

LEMMA InFileOrderIs ==
  InFileOrder =
    [p \in 1 .. Cardinality(Found(response, Succeeded)) |->
       response[FileOrder(Found(response, Succeeded))[p][1]].findings
               [FileOrder(Found(response, Succeeded))[p][2]]]
BY DEF InFileOrder, Ordered, FileOrder, InFront, Found

LEMMA InFrontIsTotal ==
  ASSUME NEW rs, NEW F \in SUBSET Files, \A f \in F : rs[f] \in Reply
  PROVE  LET S == Found(rs, F)
         IN  /\ \A x \in S : ~InFront(x, x)
             /\ \A x, y \in S : x = y \/ InFront(x, y) \/ InFront(y, x)
             /\ \A x, y, z \in S : InFront(x, y) /\ InFront(y, z) => InFront(x, z)
<1> DEFINE S == Found(rs, F)
<1>1. \A x \in S : x = <<x[1], x[2]>> /\ x[1] \in Nat /\ x[2] \in Nat
  BY FoundIs
<1> HIDE DEF S
<1>2. \A x, y \in S : x[1] = y[1] /\ x[2] = y[2] => x = y
  BY <1>1
<1>3. /\ \A x \in S : ~InFront(x, x)
      /\ \A x, y \in S : x = y \/ InFront(x, y) \/ InFront(y, x)
      /\ \A x, y, z \in S : InFront(x, y) /\ InFront(y, z) => InFront(x, z)
  BY <1>1, <1>2 DEF InFront
<1> QED
  BY <1>3 DEF S

LEMMA FileOrderArranges ==
  ASSUME NEW rs, NEW F \in SUBSET Files, \A f \in F : rs[f] \in Reply,
         IsFiniteSet(Found(rs, F)), NEW n, n = Cardinality(Found(rs, F)),
         NEW at, at = FileOrder(Found(rs, F)),
         NEW s, s = [p \in 1 .. n |-> rs[at[p][1]].findings[at[p][2]]]
  PROVE  s \in Seq(Finding) /\ Len(s) = n /\ Arranges(at, s, rs, F)
<1> DEFINE S == Found(rs, F)
           below == [x \in S |-> {y \in S : InFront(y, x)}]
<1>1. /\ \A x \in S : ~InFront(x, x)
      /\ \A x, y \in S : x = y \/ InFront(x, y) \/ InFront(y, x)
      /\ \A x, y, z \in S : InFront(x, y) /\ InFront(y, z) => InFront(x, z)
  BY InFrontIsTotal
<1>2. /\ IsFiniteSet(S) /\ n = Cardinality(S) /\ at = FileOrder(S)
      /\ \A x \in S : /\ x = <<x[1], x[2]>> /\ x[1] \in F /\ x[2] \in Nat
                      /\ rs[x[1]].findings[x[2]] \in Finding
  BY FoundIs
<1>3. /\ below \in [S -> SUBSET S]
      /\ \A x, y \in S : y \in below[x] <=> InFront(y, x)
      /\ \A x \in S : below[x] = {y \in S : InFront(y, x)}
  OBVIOUS
<1> HIDE DEF S, below
<1>4. /\ \A x \in S : x \notin below[x]
      /\ \A x, y \in S : x = y \/ x \in below[y] \/ y \in below[x]
      /\ \A x, y \in S : x \in below[y] => below[x] \subseteq below[y]
  BY <1>1, <1>3
<1>5. /\ n \in Nat
      /\ \A x, y \in S : x \in below[y] <=> Cardinality(below[x]) < Cardinality(below[y])
      /\ \A x, y \in S : Cardinality(below[x]) = Cardinality(below[y]) => x = y
      /\ \A x \in S : Cardinality(below[x]) \in 0 .. (n - 1)
      /\ \A p \in 1 .. n : \E x \in S : Cardinality(below[x]) = p - 1
  BY <1>2, <1>3, <1>4, Ranking
<1> DEFINE W(p) == CHOOSE x \in S : Cardinality({y \in S : InFront(y, x)}) = p - 1
           rank == [x \in S |-> Cardinality(below[x])]
<1>6. at = [p \in 1 .. n |-> W(p)]
  BY <1>2 DEF FileOrder
<1>7. /\ \A x \in S : rank[x] \in 0 .. (n - 1)
      /\ \A x, y \in S : x \in below[y] <=> rank[x] < rank[y]
      /\ \A x, y \in S : rank[x] = rank[y] => x = y
      /\ \A x \in S : Cardinality({y \in S : InFront(y, x)}) = rank[x]
  BY <1>3, <1>5
<1> HIDE DEF rank
<1>8. ASSUME NEW p \in 1 .. n
      PROVE  at[p] \in S /\ rank[at[p]] = p - 1
  <2>1. \E x \in S : Cardinality({y \in S : InFront(y, x)}) = p - 1
    <3>1. PICK x \in S : Cardinality(below[x]) = p - 1
      BY <1>5
    <3>2. Cardinality({y \in S : InFront(y, x)}) = p - 1
      BY <1>3, <3>1
    <3> QED
      BY <3>2
  <2>2. W(p) \in S /\ Cardinality({y \in S : InFront(y, W(p))}) = p - 1
    BY <2>1
  <2> HIDE DEF W
  <2>3. at[p] = W(p)
    BY <1>6
  <2> QED
    BY <1>7, <2>2, <2>3
<1> HIDE DEF W
<1>9. at \in [1 .. n -> S]
  BY <1>6, <1>8
<1>10. s \in Seq(Finding) /\ Len(s) = n /\ DOMAIN s = 1 .. n
  <2>1. \A p \in 1 .. n : rs[at[p][1]].findings[at[p][2]] \in Finding
    BY <1>2, <1>9
  <2> QED
    BY <1>5, <2>1
<1>11. \A p, q \in 1 .. n : at[p] = at[q] => p = q
  BY <1>5, <1>8
<1>12. ASSUME NEW x \in S
       PROVE  \E p \in 1 .. n : at[p] = x
  <2>1. rank[x] + 1 \in 1 .. n /\ (rank[x] + 1) - 1 = rank[x]
    BY <1>5, <1>7
  <2>2. at[rank[x] + 1] = x
    BY <1>7, <1>8, <2>1
  <2> QED
    BY <2>1, <2>2
<1>13. ASSUME NEW p \in 1 .. n, NEW q \in 1 .. n, at[p][1] = at[q][1], p < q
       PROVE  at[p][2] < at[q][2]
  <2>1. rank[at[p]] < rank[at[q]]
    BY <1>5, <1>8, <1>13
  <2>2. InFront(at[p], at[q])
    BY <1>3, <1>7, <1>8, <2>1
  <2>3. at[p][1] \in Nat
    BY <1>2, <1>9 DEF Files
  <2> QED
    BY <1>13, <2>2, <2>3 DEF InFront
<1> QED
  BY <1>9, <1>10, <1>11, <1>12, <1>13 DEF Arranges, S

-----------------------------------------------------------------------------
(* The invariant.                                                          *)
Busy == {f \in Files : pc[f] \notin {"idle", "done"}}
Begun == {f \in Files : pc[f] # "idle"}
Joined == {f \in Files : pc[f] \in {"leaving", "done"} /\ response[f].ok}
Lost == {f \in Files : pc[f] \in {"leaving", "done"} /\ ~response[f].ok}

(* The files before the one the main loop is at have been begun, if they   *)
(* are reviewable, and no others.                                          *)
LoopInv ==
  /\ next \in 1 .. (NFiles + 1)
  /\ reviewable \in SUBSET Files /\ Cardinality(reviewable) >= parallelFileThreshold
  /\ pc \in [Files -> {"idle", "calling", "merging", "leaving", "done"}]
  /\ \A f \in Files : pc[f] # "idle" <=> f \in reviewable /\ f < next

ReplyInv ==
  /\ response \in [Files -> Reply \cup {None}]
  /\ \A f \in Files : IF pc[f] \in {"idle", "calling"} THEN response[f] = None
                                                       ELSE Answered(response, f)

CountInv ==
  /\ permits = Cardinality(Busy) /\ permits \in 0 .. Concurrency
  /\ attempted = Cardinality(Begun)
  /\ failed = Cardinality(Lost)

(* What is merged is what the reviews that were merged have found.         *)
Gathers(s, rs, F) ==
  /\ s \in Seq(Finding)
  /\ \E org \in [DOMAIN s -> Found(rs, F)] : Arranges(org, s, rs, F)

MergedInv == Gathers(merged, response, Joined)

ReportInv ==
  report # None =>
    /\ next = NFiles + 1
    /\ \A f \in Files : pc[f] \in {"idle", "done"}
    /\ report = [findings |-> SortFindingsStable(merged), reviewedScope |-> reviewable,
                 error |-> AllFailed]

Inv == LoopInv /\ ReplyInv /\ CountInv /\ MergedInv /\ ReportInv

LEMMA FilesCounted ==
  ASSUME NEW S \in SUBSET Files
  PROVE  /\ IsFiniteSet(S) /\ Cardinality(S) \in Nat /\ Cardinality(S) <= NFiles
         /\ \A T \in SUBSET S : Cardinality(T) <= Cardinality(S)
         /\ \A f \in Files \ S : Cardinality(S \cup {f}) = Cardinality(S) + 1
         /\ \A f \in S : Cardinality(S \ {f}) = Cardinality(S) - 1
<1>1. IsFiniteSet(Files) /\ Cardinality(Files) = NFiles
  BY ReviewAssumption, FirstNaturals DEF Files
<1>2. IsFiniteSet(S) /\ Cardinality(S) \in Nat /\ Cardinality(S) <= NFiles
  BY <1>1, FS_Subset, FS_CardinalityType
<1>3. \A T \in SUBSET S : Cardinality(T) <= Cardinality(S)
  BY <1>2, FS_Subset
<1>4. \A f \in Files \ S : Cardinality(S \cup {f}) = Cardinality(S) + 1
  BY <1>2, FS_AddElement
<1>5. \A f \in S : Cardinality(S \ {f}) = Cardinality(S) - 1
  BY <1>2, FS_RemoveElement
<1> QED
  BY <1>2, <1>3, <1>4, <1>5

LEMMA NoneIsNoReply ==
  \A r \in Reply : r # None /\ r.ok \in BOOLEAN /\ r.findings \in Seq(Finding)
<1> SUFFICES ASSUME NEW r \in Reply
             PROVE  r # None /\ r.ok \in BOOLEAN /\ r.findings \in Seq(Finding)
  OBVIOUS
<1>1. r.ok \in BOOLEAN /\ r.findings \in Seq(Finding)
  BY DEF Reply
<1>2. "ok" \in DOMAIN r /\ "ok" \notin DOMAIN None
  BY DEF Reply, None
<1> QED
  BY <1>1, <1>2

LEMMA InvInit == Init => Inv
<1> SUFFICES ASSUME Init
             PROVE  Inv
  OBVIOUS
<1>1. LoopInv
  <2>1. \A f \in Files : f \in Nat /\ f >= 1
    BY DEF Files
  <2> QED
    BY <2>1, ReviewAssumption DEF Init, LoopInv
<1>2. ReplyInv
  BY DEF Init, ReplyInv
<1>3. CountInv
  <2>1. Busy = {} /\ Begun = {} /\ Lost = {}
    BY DEF Init, Busy, Begun, Lost
  <2> QED
    BY <2>1, FS_EmptySet, ReviewAssumption DEF Init, CountInv
<1>4. MergedInv
  <2>1. Joined = {}
    BY DEF Init, Joined
  <2>2. merged = <<>> /\ Found(response, Joined) = {}
    BY <2>1 DEF Init, Found
  <2> DEFINE e == <<>>
  <2>3. Arranges(e, merged, response, Joined) /\ e \in [DOMAIN merged -> Found(response, Joined)]
    BY <2>2 DEF Arranges
  <2>4. merged \in Seq(Finding)
    BY <2>2
  <2> HIDE DEF e
  <2> QED
    BY <2>3, <2>4 DEF MergedInv, Gathers
<1>5. ReportInv
  BY DEF Init, ReportInv
<1> QED
  BY <1>1, <1>2, <1>3, <1>4, <1>5 DEF Inv

(* What a file's review is given is an answer to it.                       *)
LEMMA ParsedIsAnswer ==
  ASSUME NEW f \in Files, NEW list \in Responses \cup {<<>>}
  PROVE  /\ Parsed(f, list) \in Seq(Finding)
         /\ \A k \in DOMAIN Parsed(f, list) : Parsed(f, list)[k].by = f
<1>1. list \in Seq([severity : Severity, place : Place])
  <2>1. CASE list \in Responses
    BY <2>1, ReviewAssumption
  <2>2. CASE list = <<>>
    BY <2>2
  <2> QED
    BY <2>1, <2>2
<1>2. \A k \in DOMAIN list : list[k].severity \in Severity /\ list[k].place \in Place
  <2> DEFINE R == [severity : Severity, place : Place]
  <2>1. list \in Seq(R)
    BY <1>1
  <2> HIDE DEF R
  <2>2. \A k \in DOMAIN list : list[k] \in R
    BY <2>1
  <2> QED
    BY <2>2 DEF R
<1>3. /\ DOMAIN Parsed(f, list) = DOMAIN list
      /\ \A k \in DOMAIN list : Parsed(f, list)[k] =
           [severity |-> list[k].severity, place |-> list[k].place, by |-> f]
  BY DEF Parsed
<1>4. \A k \in DOMAIN list : Parsed(f, list)[k] \in Finding /\ Parsed(f, list)[k].by = f
  BY <1>2, <1>3 DEF Finding
<1>5. Parsed(f, list) \in Seq(Finding)
  BY <1>1, <1>3, <1>4 DEF Parsed
<1> QED
  BY <1>3, <1>4, <1>5

(* The steps.  A step of one file leaves the sets of the others alone.     *)
LEMMA SkipKeepsInv == Inv /\ Skip => Inv'
<1> SUFFICES ASSUME Inv, Skip
             PROVE  Inv'
  OBVIOUS
<1> USE DEF Inv
<1>1. LoopInv'
  <2>1. next' = next + 1 /\ next \in 1 .. NFiles /\ NFiles \in Nat /\ next \notin reviewable
    BY ReviewAssumption DEF LoopInv, Skip
  <2>2. \A f \in Files : f \in Nat /\ (f < next + 1 <=> f < next \/ f = next)
    BY <2>1 DEF Files
  <2>3. next' \in 1 .. (NFiles + 1)
    BY <2>1
  <2> QED
    BY <2>1, <2>2, <2>3 DEF LoopInv, Skip
<1>2. ReplyInv'
  BY DEF ReplyInv, Answered, Skip
<1>3. CountInv'
  BY DEF CountInv, Busy, Begun, Lost, Skip
<1>4. MergedInv'
  <2>1. Joined' = Joined
    BY DEF Joined, Skip
  <2> QED
    BY <2>1 DEF MergedInv, Skip
<1>5. ReportInv'
  <2>1. report' = None
    BY ReviewAssumption DEF ReportInv, LoopInv, Skip
  <2> QED
    BY <2>1 DEF ReportInv
<1> QED
  BY <1>1, <1>2, <1>3, <1>4, <1>5

LEMMA StartKeepsInv == Inv /\ Start => Inv'
<1> SUFFICES ASSUME Inv, Start
             PROVE  Inv'
  OBVIOUS
<1> USE DEF Inv
<1>1. /\ next' = next + 1 /\ next \in 1 .. NFiles /\ NFiles \in Nat
      /\ next \in reviewable /\ next \in Files /\ pc[next] = "idle"
  <2>1. next \in 1 .. NFiles /\ NFiles \in Nat /\ next \in Nat
    BY ReviewAssumption DEF LoopInv, Start
  <2>2. pc[next] = "idle"
    BY <2>1 DEF LoopInv, Files
  <2> QED
    BY <2>1, <2>2 DEF Start, Files
<1>2. pc' = [pc EXCEPT ![next] = "calling"] /\ pc \in [Files -> {"idle", "calling", "merging", "leaving", "done"}]
  BY DEF Start, LoopInv
<1>3. LoopInv'
  <2>1. \A f \in Files : f \in Nat /\ (f < next + 1 <=> f < next \/ f = next)
    BY <1>1 DEF Files
  <2>2. next' \in 1 .. (NFiles + 1)
    BY <1>1
  <2>3. \A f \in Files : pc'[f] # "idle" <=> pc[f] # "idle" \/ f = next
    BY <1>1, <1>2
  <2>4. \A f \in Files : pc'[f] # "idle" <=> f \in reviewable /\ f < next + 1
    BY <1>1, <2>1, <2>3 DEF LoopInv
  <2> QED
    BY <1>1, <1>2, <2>2, <2>4 DEF LoopInv, Start
<1>4. ReplyInv'
  BY <1>1, <1>2 DEF ReplyInv, Answered, Start
<1>5. /\ Busy' = Busy \cup {next} /\ next \in Files \ Busy /\ Busy \in SUBSET Files
      /\ Begun' = Begun \cup {next} /\ next \in Files \ Begun /\ Begun \in SUBSET Files
      /\ Lost' = Lost /\ Joined' = Joined
  BY <1>1, <1>2 DEF Busy, Begun, Lost, Joined, Start
<1>6. CountInv'
  <2>1. Cardinality(Busy') = Cardinality(Busy) + 1 /\ Cardinality(Begun') = Cardinality(Begun) + 1
    BY <1>5, FilesCounted
  <2>2. permits + 1 \in 0 .. Concurrency
    BY ReviewAssumption DEF CountInv, Start
  <2> QED
    BY <1>5, <2>1, <2>2 DEF CountInv, Start
<1>7. MergedInv'
  BY <1>5 DEF MergedInv, Start
<1>8. ReportInv'
  <2>1. report' = None
    BY <1>1 DEF ReportInv, Start
  <2> QED
    BY <2>1 DEF ReportInv
<1> QED
  BY <1>3, <1>4, <1>6, <1>7, <1>8

LEMMA CallReturnsKeepsInv ==
  ASSUME Inv, NEW f \in Files, CallReturns(f)
  PROVE  Inv'
<1> USE DEF Inv
<1>1. /\ pc[f] = "calling" /\ pc' = [pc EXCEPT ![f] = "merging"]
      /\ pc \in [Files -> {"idle", "calling", "merging", "leaving", "done"}]
      /\ response \in [Files -> Reply \cup {None}]
      /\ UNCHANGED <<next, reviewable, permits, merged, attempted, failed, report>>
  BY DEF CallReturns, LoopInv, ReplyInv
<1>2. PICK r : /\ response' = [response EXCEPT ![f] = r] /\ r \in Reply
               /\ \A k \in DOMAIN r.findings : r.findings[k].by = f
  <2>1. CASE response' = [response EXCEPT ![f] = Failure]
    <3>1. Failure \in Reply /\ DOMAIN Failure.findings = {}
      BY DEF Failure, Reply
    <3> QED
      BY <2>1, <3>1
  <2>2. CASE \E list \in Responses \cup {<<>>} :
               response' = [response EXCEPT ![f] = [ok |-> TRUE, findings |-> Parsed(f, list)]]
    <3>1. PICK list \in Responses \cup {<<>>} :
            response' = [response EXCEPT ![f] = [ok |-> TRUE, findings |-> Parsed(f, list)]]
      BY <2>2
    <3> DEFINE l == Parsed(f, list)
    <3>2. l \in Seq(Finding) /\ \A k \in DOMAIN l : l[k].by = f
      BY ParsedIsAnswer
    <3> HIDE DEF l
    <3>3. [ok |-> TRUE, findings |-> l] \in Reply /\ [ok |-> TRUE, findings |-> l].findings = l
      BY <3>2 DEF Reply
    <3> QED
      BY <3>1, <3>2, <3>3 DEF l
  <2> QED
    BY <2>1, <2>2 DEF CallReturns
<1>3. /\ \A g \in Files : pc'[g] = IF g = f THEN "merging" ELSE pc[g]
      /\ \A g \in Files : response'[g] = IF g = f THEN r ELSE response[g]
      /\ pc' \in [Files -> {"idle", "calling", "merging", "leaving", "done"}]
      /\ response' \in [Files -> Reply \cup {None}]
  BY <1>1, <1>2
<1>4. LoopInv'
  BY <1>1, <1>3 DEF LoopInv
<1>5. ReplyInv'
  BY <1>2, <1>3 DEF ReplyInv, Answered
<1>6. /\ Busy' = Busy /\ Begun' = Begun
      /\ Lost' = Lost /\ Joined' = Joined
  BY <1>1, <1>3 DEF Busy, Begun, Lost, Joined
<1>7. CountInv'
  BY <1>1, <1>6 DEF CountInv
<1>8. MergedInv'
  <2>1. PICK org \in [DOMAIN merged -> Found(response, Joined)] :
          Arranges(org, merged, response, Joined)
    BY DEF MergedInv, Gathers
  <2>2. \A g \in Joined : response[g] \in Reply /\ response'[g] = response[g]
    BY <1>1, <1>3 DEF ReplyInv, Answered, Joined
  <2>3. Joined \in SUBSET Files
    BY DEF Joined
  <2>4. Found(response', Joined) = Found(response, Joined) /\ Arranges(org, merged, response', Joined)
    BY <2>1, <2>2, <2>3, ArrangesSame
  <2>5. org \in [DOMAIN merged -> Found(response', Joined)]
    BY <2>4
  <2>6. Gathers(merged, response', Joined)
    BY <2>4, <2>5 DEF MergedInv, Gathers
  <2> QED
    BY <1>1, <1>6, <2>6 DEF MergedInv
<1>9. ReportInv'
  <2>1. report' = None
    BY <1>1 DEF ReportInv
  <2> QED
    BY <2>1 DEF ReportInv
<1> QED
  BY <1>4, <1>5, <1>7, <1>8, <1>9

LEMMA MergeKeepsInv ==
  ASSUME Inv, NEW f \in Files, Merge(f)
  PROVE  Inv'
<1> USE DEF Inv
<1>1. /\ pc[f] = "merging" /\ pc' = [pc EXCEPT ![f] = "leaving"]
      /\ pc \in [Files -> {"idle", "calling", "merging", "leaving", "done"}]
      /\ response[f].ok => merged' = merged \o response[f].findings /\ UNCHANGED failed
      /\ ~response[f].ok => failed' = failed + 1 /\ UNCHANGED merged
      /\ UNCHANGED <<next, reviewable, response, permits, attempted, report>>
  BY DEF Merge, LoopInv
<1>2. /\ \A g \in Files : pc'[g] = IF g = f THEN "leaving" ELSE pc[g]
      /\ pc' \in [Files -> {"idle", "calling", "merging", "leaving", "done"}]
  BY <1>1
<1>3. LoopInv'
  BY <1>1, <1>2 DEF LoopInv
<1>4. ReplyInv'
  BY <1>1, <1>2 DEF ReplyInv, Answered
<1>5. Busy' = Busy /\ Begun' = Begun
  BY <1>1, <1>2 DEF Busy, Begun
<1>6. /\ response[f].ok => Joined' = Joined \cup {f} /\ Lost' = Lost
      /\ ~response[f].ok => Joined' = Joined /\ Lost' = Lost \cup {f}
      /\ f \in Files \ Lost /\ f \in Files \ Joined
      /\ Lost \in SUBSET Files /\ Joined \in SUBSET Files
  BY <1>1, <1>2 DEF Joined, Lost
<1>7. CountInv'
  <2>1. Cardinality(Lost \cup {f}) = Cardinality(Lost) + 1
    BY <1>6, FilesCounted
  <2> QED
    BY <1>1, <1>5, <1>6, <2>1 DEF CountInv
<1>8. MergedInv'
  <2>1. CASE response[f].ok
    <3>1. PICK org : Arranges(org, merged, response, Joined)
      BY DEF MergedInv, Gathers
    <3>2. merged \in Seq(Finding)
      BY DEF MergedInv, Gathers
    <3>3. \A g \in Joined \cup {f} : response[g] \in Reply
      BY <1>1 DEF ReplyInv, Answered, Joined
    <3> DEFINE l == merged \o response[f].findings
    <3>4. l \in Seq(Finding) /\ \E b : Arranges(b, l, response, Joined \cup {f})
      BY <1>6, <3>1, <3>2, <3>3, ArrangesMore
    <3>5. merged' = l /\ response' = response /\ Joined' = Joined \cup {f}
      BY <1>1, <1>6, <2>1
    <3> HIDE DEF l
    <3>6. PICK b : Arranges(b, l, response, Joined \cup {f})
      BY <3>4
    <3>7. b \in [DOMAIN l -> Found(response, Joined \cup {f})]
      BY <3>6 DEF Arranges
    <3>8. Gathers(l, response, Joined \cup {f})
      BY <3>4, <3>6, <3>7 DEF Gathers
    <3> QED
      BY <3>5, <3>8 DEF MergedInv
  <2>2. CASE ~response[f].ok
    BY <1>1, <1>6, <2>2 DEF MergedInv
  <2> QED
    BY <2>1, <2>2
<1>9. ReportInv'
  <2>1. report' = None
    BY <1>1 DEF ReportInv
  <2> QED
    BY <2>1 DEF ReportInv
<1> QED
  BY <1>3, <1>4, <1>7, <1>8, <1>9

LEMMA ReleaseKeepsInv ==
  ASSUME Inv, NEW f \in Files, Release(f)
  PROVE  Inv'
<1> USE DEF Inv
<1>1. /\ pc[f] = "leaving" /\ pc' = [pc EXCEPT ![f] = "done"] /\ permits' = permits - 1
      /\ pc \in [Files -> {"idle", "calling", "merging", "leaving", "done"}]
      /\ UNCHANGED <<next, reviewable, response, merged, attempted, failed, report>>
  BY DEF Release, LoopInv
<1>2. /\ \A g \in Files : pc'[g] = IF g = f THEN "done" ELSE pc[g]
      /\ pc' \in [Files -> {"idle", "calling", "merging", "leaving", "done"}]
  BY <1>1
<1>3. LoopInv'
  BY <1>1, <1>2 DEF LoopInv
<1>4. ReplyInv'
  BY <1>1, <1>2 DEF ReplyInv, Answered
<1>5. /\ Busy' = Busy \ {f} /\ f \in Busy /\ Busy \in SUBSET Files
      /\ Begun' = Begun /\ Lost' = Lost /\ Joined' = Joined
  BY <1>1, <1>2 DEF Busy, Begun, Lost, Joined
<1>6. CountInv'
  <2>1. Cardinality(Busy \ {f}) = Cardinality(Busy) - 1 /\ Cardinality(Busy \ {f}) \in Nat
    <3>1. Busy \ {f} \in SUBSET Files
      BY <1>5
    <3> QED
      BY <1>5, <3>1, FilesCounted
  <2>2. Concurrency \in Nat /\ permits \in 0 .. Concurrency /\ permits = Cardinality(Busy)
    BY ReviewAssumption DEF CountInv
  <2>3. permits - 1 \in 0 .. Concurrency /\ permits - 1 = Cardinality(Busy')
    BY <1>5, <2>1, <2>2
  <2> QED
    BY <1>1, <1>5, <2>3 DEF CountInv
<1>7. MergedInv'
  BY <1>1, <1>5 DEF MergedInv
<1>8. ReportInv'
  <2>1. report' = None
    BY <1>1 DEF ReportInv
  <2> QED
    BY <2>1 DEF ReportInv
<1> QED
  BY <1>3, <1>4, <1>6, <1>7, <1>8

LEMMA FinishKeepsInv == Inv /\ Finish => Inv'
<1> SUFFICES ASSUME Inv, Finish
             PROVE  Inv'
  OBVIOUS
<1>1. LoopInv'
  BY DEF Inv, LoopInv, Finish
<1>2. ReplyInv'
  BY DEF Inv, ReplyInv, Answered, Finish
<1>3. CountInv'
  BY DEF Inv, CountInv, Busy, Begun, Lost, Finish
<1>4. MergedInv'
  BY DEF Inv, MergedInv, Joined, Finish
<1>5. ReportInv'
  BY DEF ReportInv, AllFailed, Finish
<1> QED
  BY <1>1, <1>2, <1>3, <1>4, <1>5 DEF Inv

LEMMA UnchangedKeepsInv == Inv /\ UNCHANGED vars => Inv'
BY DEF Inv, LoopInv, ReplyInv, Answered, CountInv, Busy, Begun, Lost, MergedInv, Joined,
       ReportInv, AllFailed, vars

LEMMA InvNext == Inv /\ [Next]_vars => Inv'
<1> SUFFICES ASSUME Inv, [Next]_vars
             PROVE  Inv'
  OBVIOUS
<1>1. CASE Skip
  BY <1>1, SkipKeepsInv
<1>2. CASE Start
  BY <1>2, StartKeepsInv
<1>3. CASE Finish
  BY <1>3, FinishKeepsInv
<1>4. ASSUME NEW f \in Files, Review(f)
      PROVE  Inv'
  BY <1>4, CallReturnsKeepsInv, MergeKeepsInv, ReleaseKeepsInv DEF Review
<1>5. CASE Terminated \/ UNCHANGED vars
  BY <1>5, UnchangedKeepsInv DEF Terminated
<1> QED
  BY <1>1, <1>2, <1>3, <1>4, <1>5 DEF Next

LEMMA Invariance == Spec => []Inv
<1> QED
  BY InvInit, InvNext, PTL DEF Spec

LEMMA InvIsTyped == Inv => TypeOK
<1> SUFFICES ASSUME Inv
             PROVE  TypeOK
  OBVIOUS
<1>1. permits \in 0 .. Concurrency /\ permits = Cardinality({f \in Files : pc[f] \notin {"idle", "done"}})
  BY DEF Inv, CountInv, Busy
<1>2. attempted \in 0 .. NFiles /\ failed \in 0 .. attempted
  <2>1. Begun \in SUBSET Files /\ Lost \in SUBSET Files /\ Lost \in SUBSET Begun
    BY DEF Begun, Lost
  <2> QED
    BY <2>1, FilesCounted, ReviewAssumption DEF Inv, CountInv
<1>3. merged \in Seq(Finding)
  BY DEF Inv, MergedInv, Gathers
<1>4. report \in [findings : Seq(Finding), reviewedScope : SUBSET Files, error : BOOLEAN] \cup {None}
  <2> DEFINE l == SortFindingsStable(merged)
  <2>1. l \in Seq(Finding)
    BY <1>3, Sorting DEF SortsBy
  <2>2. AllFailed \in BOOLEAN /\ reviewable \in SUBSET Files
    BY DEF AllFailed, Inv, LoopInv
  <2>3. report # None => report = [findings |-> l, reviewedScope |-> reviewable, error |-> AllFailed]
    BY DEF Inv, ReportInv
  <2> HIDE DEF l
  <2> QED
    BY <2>1, <2>2, <2>3
<1> QED
  BY <1>1, <1>2, <1>3, <1>4 DEF Inv, LoopInv, ReplyInv, TypeOK

(* Every variable stays in its type, and the permits taken are those of    *)
(* the reviews that are under way: parallel.go never runs more of them     *)
(* than Concurrency.                                                       *)
THEOREM ReviewTypeCorrect == Spec => []TypeOK
BY InvIsTyped, Invariance, PTL

(* However the reviews interleave, the report has the findings that the    *)
(* answers give, and in an order of rank and place that they determine; a  *)
(* finding that ties with none of another review stands where it would if  *)
(* the files had been reviewed one by one (sortFindingsStable).            *)
THEOREM ReportReproducible == Spec => []ReproducibleButForTies
<1>1. ASSUME Inv
      PROVE  ReproducibleButForTies
  <2> SUFFICES ASSUME report # None
               PROVE  SameButForTies(report.findings, SortFindingsStable(InFileOrder))
    BY DEF ReproducibleButForTies, SameButForTies
  <2> DEFINE F == Joined
             X == Found(response, F)
             at == FileOrder(X)
             n == Cardinality(X)
             o == [p \in 1 .. n |-> response[at[p][1]].findings[at[p][2]]]
  <2>1. report.findings = SortFindingsStable(merged)
    BY <1>1 DEF Inv, ReportInv
  <2>2. \A f \in Files : /\ pc[f] \in {"idle", "done"}
                         /\ pc[f] = "idle" => response[f] = None
                         /\ pc[f] = "done" => Answered(response, f)
    BY <1>1 DEF Inv, ReportInv, ReplyInv
  <2>3. Succeeded = F
    <3>1. \A f \in Files : pc[f] = "done" => response[f] # None
      BY <2>2, NoneIsNoReply DEF Answered
    <3> QED
      BY <2>2, <3>1 DEF Succeeded, Joined
  <2>4. F \in SUBSET Files /\ \A f \in F : Answered(response, f) /\ response[f] \in Reply
    BY <2>2 DEF Joined, Answered
  <2>5. merged \in Seq(Finding) /\ \E a : Arranges(a, merged, response, F)
    BY <1>1 DEF Inv, MergedInv, Gathers
  <2>6. InFileOrder = o
    BY <2>3, InFileOrderIs
  <2> HIDE DEF F, at, o
  <2>7. PICK a : Arranges(a, merged, response, F)
    BY <2>5
  <2>8. IsFiniteSet(X) /\ n = Len(merged)
    BY <2>5, <2>7, ArrangedCount
  <2> HIDE DEF n
  <2>9. o \in Seq(Finding) /\ Len(o) = n /\ Arranges(at, o, response, F)
    BY <2>4, <2>8, FileOrderArranges DEF n, at, o
  <2>10. SameButForTies(SortFindingsStable(merged), SortFindingsStable(o))
    BY <2>4, <2>5, <2>7, <2>8, <2>9, ArrangedAlike
  <2> QED
    BY <2>1, <2>6, <2>10
<1> QED
  BY <1>1, Invariance, PTL

-----------------------------------------------------------------------------
(* Keeping some elements of a sequence.                                    *)
KeepOrder(keep) ==
  [p \in 1 .. Cardinality(keep) |-> CHOOSE i \in keep : Cardinality({j \in keep : j < i}) = p - 1]

(* at[p] is the index in s of the p-th of the n elements kept.             *)
KeptBy(s, keep, n, at) ==
  /\ n \in Nat
  /\ at \in [1 .. n -> keep]
  /\ \A i \in keep : \E p \in 1 .. n : at[p] = i
  /\ \A p, q \in 1 .. n : p < q => at[p] < at[q]
  /\ \A p \in 1 .. n : Cardinality({j \in keep : j <= at[p]}) = p
  /\ Kept(s, keep) = [p \in 1 .. n |-> s[at[p]]]

LEMMA Keeping ==
  ASSUME NEW s, NEW m \in Nat, NEW keep \in SUBSET (1 .. m)
  PROVE  KeptBy(s, keep, Cardinality(keep), KeepOrder(keep))
<1> DEFINE n == Cardinality(keep)
           at == KeepOrder(keep)
           below == [i \in keep |-> {j \in keep : j < i}]
<1>1. IsFiniteSet(keep) /\ \A i \in keep : i \in Nat
  <2> DEFINE M == 1 .. m
  <2>1. IsFiniteSet(M) /\ keep \in SUBSET M /\ \A i \in M : i \in Nat
    BY FirstNaturals
  <2> HIDE DEF M
  <2>2. IsFiniteSet(keep)
    BY <2>1, FS_Subset
  <2> QED
    BY <2>1, <2>2
<1>2. /\ below \in [keep -> SUBSET keep]
      /\ \A i, j \in keep : j \in below[i] <=> j < i
      /\ \A i \in keep : below[i] = {j \in keep : j < i}
  OBVIOUS
<1>3. n = Cardinality(keep) /\ at = KeepOrder(keep)
  OBVIOUS
<1> HIDE DEF below, n, at
<1>4. /\ \A i \in keep : i \notin below[i]
      /\ \A i, j \in keep : i = j \/ i \in below[j] \/ j \in below[i]
      /\ \A i, j \in keep : i \in below[j] => below[i] \subseteq below[j]
  <2>1. \A i, j, k \in keep : /\ ~(i < i)
                              /\ i = j \/ i < j \/ j < i
                              /\ i < j /\ k < i => k < j
    BY <1>1
  <2>2. \A i \in keep : i \notin below[i]
    BY <1>2, <2>1
  <2>3. \A i, j \in keep : i = j \/ i \in below[j] \/ j \in below[i]
    BY <1>2, <2>1
  <2>4. ASSUME NEW i \in keep, NEW j \in keep, i \in below[j]
        PROVE  below[i] \subseteq below[j]
    <3>1. i < j /\ below[i] \in SUBSET keep
      BY <1>2, <2>4
    <3>2. ASSUME NEW k \in below[i]
          PROVE  k \in below[j]
      <4>1. k \in keep /\ k < i
        BY <1>2, <3>1, <3>2
      <4> QED
        BY <1>2, <2>1, <3>1, <4>1
    <3> QED
      BY <3>2
  <2> QED
    BY <2>2, <2>3, <2>4
<1>5. /\ n \in Nat
      /\ \A i \in keep : Cardinality(below[i]) \in 0 .. (n - 1)
      /\ \A i, j \in keep : i \in below[j] <=> Cardinality(below[i]) < Cardinality(below[j])
      /\ \A i, j \in keep : Cardinality(below[i]) = Cardinality(below[j]) => i = j
      /\ \A p \in 1 .. n : \E i \in keep : Cardinality(below[i]) = p - 1
  BY <1>1, <1>2, <1>3, <1>4, Ranking
<1> DEFINE W(p) == CHOOSE i \in keep : Cardinality({j \in keep : j < i}) = p - 1
           rank == [i \in keep |-> Cardinality(below[i])]
<1>6. at = [p \in 1 .. n |-> W(p)]
  BY <1>3 DEF KeepOrder
<1>7. /\ \A i \in keep : rank[i] \in 0 .. (n - 1)
      /\ \A i, j \in keep : i \in below[j] <=> rank[i] < rank[j]
      /\ \A i, j \in keep : rank[i] = rank[j] => i = j
      /\ \A i \in keep : Cardinality(below[i]) = rank[i]
      /\ \A i \in keep : Cardinality({j \in keep : j < i}) = rank[i]
  BY <1>2, <1>5
<1> HIDE DEF rank
<1>8. ASSUME NEW p \in 1 .. n
      PROVE  at[p] \in keep /\ rank[at[p]] = p - 1
  <2>1. \E i \in keep : Cardinality({j \in keep : j < i}) = p - 1
    <3>1. PICK i \in keep : Cardinality(below[i]) = p - 1
      BY <1>5
    <3>2. Cardinality({j \in keep : j < i}) = p - 1
      BY <1>2, <3>1
    <3> QED
      BY <3>2
  <2>2. W(p) \in keep /\ Cardinality({j \in keep : j < W(p)}) = p - 1
    BY <2>1
  <2> HIDE DEF W
  <2>3. at[p] = W(p)
    BY <1>6
  <2> QED
    BY <1>7, <2>2, <2>3
<1> HIDE DEF W
<1>9. at \in [1 .. n -> keep]
  BY <1>6, <1>8
<1>10. ASSUME NEW i \in keep
       PROVE  \E p \in 1 .. n : at[p] = i
  <2>1. rank[i] + 1 \in 1 .. n /\ (rank[i] + 1) - 1 = rank[i]
    BY <1>5, <1>7
  <2>2. at[rank[i] + 1] = i
    BY <1>7, <1>8, <2>1
  <2> QED
    BY <2>1, <2>2
<1>11. ASSUME NEW p \in 1 .. n, NEW q \in 1 .. n, p < q
       PROVE  at[p] < at[q]
  <2>1. rank[at[p]] < rank[at[q]]
    BY <1>5, <1>8, <1>11
  <2> QED
    BY <1>2, <1>7, <1>8, <2>1
<1>12. ASSUME NEW p \in 1 .. n
       PROVE  Cardinality({j \in keep : j <= at[p]}) = p
  <2>1. at[p] \in keep /\ rank[at[p]] = p - 1
    BY <1>8
  <2>2. {j \in keep : j <= at[p]} = below[at[p]] \cup {at[p]}
    <3> DEFINE k == at[p]
    <3>1. k \in keep
      BY <2>1
    <3> HIDE DEF k
    <3>2. \A j \in keep : j <= k <=> j < k \/ j = k
      BY <1>1, <3>1
    <3>3. below[k] = {j \in keep : j < k}
      BY <1>2, <3>1
    <3>4. {j \in keep : j <= k} = below[k] \cup {k}
      BY <3>1, <3>2, <3>3
    <3> QED
      BY <3>4 DEF k
  <2>3. at[p] \notin below[at[p]] /\ IsFiniteSet(below[at[p]]) /\ Cardinality(below[at[p]]) = p - 1
    <3>1. below[at[p]] \in SUBSET keep
      BY <1>2, <2>1
    <3>2. Cardinality(below[at[p]]) = p - 1
      BY <1>7, <2>1
    <3> QED
      BY <1>1, <1>4, <2>1, <3>1, <3>2, FS_Subset
  <2>4. Cardinality(below[at[p]] \cup {at[p]}) = (p - 1) + 1
    BY <2>3, FS_AddElement
  <2>5. (p - 1) + 1 = p
    BY <1>5
  <2> QED
    BY <2>2, <2>4, <2>5
<1>13. Kept(s, keep) = [p \in 1 .. n |-> s[at[p]]]
  BY <1>3 DEF Kept, Ordered, KeepOrder
<1> QED
  BY <1>3, <1>5, <1>9, <1>10, <1>11, <1>12, <1>13 DEF KeptBy

(* Of the findings at a place there is a first.                            *)
LEMMA FirstAtPlace ==
  ASSUME NEW m \in Nat, NEW T \in SUBSET (1 .. m), T # {}
  PROVE  \E i \in T : \A j \in T : i <= j
<1> DEFINE n == Cardinality(T)
           at == KeepOrder(T)
<1>1. KeptBy(<<>>, T, n, at)
  BY Keeping
<1> HIDE DEF n, at
<1>2. /\ n \in Nat /\ at \in [1 .. n -> T]
      /\ \A i \in T : \E p \in 1 .. n : at[p] = i
      /\ \A p, q \in 1 .. n : p < q => at[p] < at[q]
  BY <1>1 DEF KeptBy
<1>3. PICK k \in T : TRUE
  OBVIOUS
<1>4. 1 \in 1 .. n
  BY <1>2
<1>5. at[1] \in T
  BY <1>2, <1>4
<1>6. ASSUME NEW j \in T
      PROVE  at[1] <= j
  <2>1. PICK p \in 1 .. n : at[p] = j
    BY <1>2
  <2>2. p = 1 \/ 1 < p
    BY <1>2
  <2>3. at[1] = at[p] \/ at[1] < at[p]
    BY <1>2, <1>4, <2>2
  <2>4. at[1] \in Nat /\ at[p] \in Nat
    <3>1. \A i \in T : i \in Nat
      OBVIOUS
    <3> QED
      BY <1>5, <2>1, <3>1
  <2> QED
    BY <2>1, <2>3, <2>4
<1> QED
  BY <1>5, <1>6

(* Filtered has the first finding of each place and no other.              *)
FilteredTo(s, t) ==
  /\ DOMAIN t = 1 .. Len(t) /\ Len(t) \in Nat
  /\ \A p, q \in DOMAIN t : t[p].place = t[q].place => p = q
  /\ \A p \in DOMAIN t : \E i \in DOMAIN s : t[p] = s[i]
  /\ \A i \in DOMAIN s : \E p \in DOMAIN t, j \in DOMAIN s :
       t[p] = s[j] /\ j <= i /\ s[j].place = s[i].place

LEMMA Filtering ==
  ASSUME NEW m \in Nat, NEW s, DOMAIN s = 1 .. m, Len(s) = m
  PROVE  FilteredTo(s, Filtered(s))
<1> DEFINE keep == {i \in DOMAIN s : \A j \in 1 .. (i - 1) : s[j].place # s[i].place}
           n == Cardinality(keep)
           at == KeepOrder(keep)
           t == Filtered(s)
<1>1. KeptBy(s, keep, n, at)
  BY Keeping
<1>2. t = Kept(s, keep)
  BY DEF Filtered
<1>3. \A i, j \in keep : i \in 1 .. m /\ j \in 1 .. m /\ (j < i => s[j].place # s[i].place)
  OBVIOUS
<1>4. ASSUME NEW i \in 1 .. m
      PROVE  \E j \in keep : j <= i /\ s[j].place = s[i].place
  <2> DEFINE T == {j \in 1 .. m : s[j].place = s[i].place}
  <2>1. PICK j \in T : \A k \in T : j <= k
    BY FirstAtPlace
  <2>2. \A k \in 1 .. (j - 1) : s[k].place # s[j].place
    BY <2>1
  <2> QED
    BY <2>1, <2>2
<1> HIDE DEF n, at, t, keep
<1>5. /\ n \in Nat /\ at \in [1 .. n -> keep]
      /\ \A i \in keep : \E p \in 1 .. n : at[p] = i
      /\ \A p, q \in 1 .. n : p < q => at[p] < at[q]
      /\ t = [p \in 1 .. n |-> s[at[p]]]
  BY <1>1, <1>2 DEF KeptBy
<1>6. DOMAIN t = 1 .. n /\ Len(t) = n /\ \A p \in 1 .. n : t[p] = s[at[p]]
  BY <1>5
<1>7. ASSUME NEW p \in 1 .. n, NEW q \in 1 .. n, t[p].place = t[q].place
      PROVE  p = q
  <2>1. ~(at[p] < at[q]) /\ ~(at[q] < at[p])
    BY <1>3, <1>5, <1>6, <1>7
  <2>2. ~(p < q) /\ ~(q < p)
    BY <1>5, <2>1
  <2> QED
    BY <1>5, <2>2
<1>8. \A p \in 1 .. n : \E i \in DOMAIN s : t[p] = s[i]
  BY <1>3, <1>5, <1>6
<1>9. ASSUME NEW i \in 1 .. m
      PROVE  \E p \in 1 .. n, j \in 1 .. m : t[p] = s[j] /\ j <= i /\ s[j].place = s[i].place
  <2>1. PICK j \in keep : j <= i /\ s[j].place = s[i].place
    BY <1>4
  <2>2. PICK p \in 1 .. n : at[p] = j
    BY <1>5
  <2> QED
    BY <1>3, <1>6, <2>1, <2>2
<1> QED
  <2>1. DOMAIN t = 1 .. Len(t) /\ Len(t) \in Nat /\ DOMAIN t = 1 .. n /\ DOMAIN s = 1 .. m
    BY <1>5, <1>6
  <2>2. \A p, q \in DOMAIN t : t[p].place = t[q].place => p = q
    BY <1>7, <2>1
  <2>3. \A p \in DOMAIN t : \E i \in DOMAIN s : t[p] = s[i]
    BY <1>8, <2>1
  <2>4. \A i \in DOMAIN s : \E p \in DOMAIN t, j \in DOMAIN s :
          t[p] = s[j] /\ j <= i /\ s[j].place = s[i].place
    <3> TAKE i \in DOMAIN s
    <3>1. i \in 1 .. m
      BY <2>1
    <3>2. PICK p \in 1 .. n, j \in 1 .. m : t[p] = s[j] /\ j <= i /\ s[j].place = s[i].place
      BY <1>9, <3>1
    <3>3. p \in DOMAIN t /\ j \in DOMAIN s
      BY <2>1
    <3> QED
      BY <3>2, <3>3
  <2>5. FilteredTo(s, t)
    BY <2>1, <2>2, <2>3, <2>4 DEF FilteredTo
  <2> QED
    BY <2>5 DEF t

-----------------------------------------------------------------------------
(* Findings with and without the file whose review made them.              *)
Finds == Finding \cup [severity : Severity, place : Place]

FindsIn(s) == Len(s) \in Nat /\ DOMAIN s = 1 .. Len(s) /\ \A i \in DOMAIN s : s[i] \in Finds

(* The findings left, where they ended up: m[p] is the p-th of them, and   *)
(* comes from the at[p]-th reported.                                       *)
SettledAs(m, at) ==
  /\ Len(m) \in Nat /\ DOMAIN m = 1 .. Len(m)
  /\ Resolved = {m[p] : p \in DOMAIN m}
  /\ at \in [DOMAIN m -> DOMAIN Reported]
  /\ \A p, q \in DOMAIN m : p < q => at[p] < at[q]
  /\ \A p \in DOMAIN m : m[p].severity = Reported[at[p]].severity

LEMMA Settling ==
  ASSUME FindsIn(Reported)
  PROVE  \E at : SettledAs(ResolveLineNumbers(FilterFindings(Reported, named), moved), at)
<1> DEFINE s == Reported
           rest == {i \in DOMAIN s : i - 1 \notin named}
           n == Cardinality(rest)
           at == KeepOrder(rest)
           left0 == FilterFindings(s, named)
           m == ResolveLineNumbers(left0, moved)
           final(i) == [s[i] EXCEPT !.place = IF Cardinality({j \in rest : j <= i}) \in moved
                                              THEN Home(@) ELSE @]
<1>1. Resolved = {final(i) : i \in rest}
  BY DEF Resolved
<1>2. KeptBy(s, rest, n, at)
  <2> DEFINE l == Len(s)
  <2>1. l \in Nat /\ rest \in SUBSET (1 .. l)
    BY DEF FindsIn
  <2> HIDE DEF l, rest
  <2> QED
    BY <2>1, Keeping
<1>3. left0 = Kept(s, rest)
  BY DEF FilterFindings
<1>4. \A i \in rest : i \in DOMAIN s /\ s[i] \in Finds
  BY DEF FindsIn
<1>5. /\ DOMAIN m = DOMAIN left0
      /\ \A p \in DOMAIN left0 :
           m[p] = IF p \in moved THEN [left0[p] EXCEPT !.place = Home(@)] ELSE left0[p]
      /\ m = [p \in DOMAIN left0 |-> m[p]]
  BY DEF ResolveLineNumbers
<1> HIDE DEF s, rest, n, at, left0, m
<1>6. /\ n \in Nat /\ at \in [1 .. n -> rest]
      /\ \A i \in rest : \E p \in 1 .. n : at[p] = i
      /\ \A p, q \in 1 .. n : p < q => at[p] < at[q]
      /\ \A p \in 1 .. n : Cardinality({j \in rest : j <= at[p]}) = p
      /\ DOMAIN left0 = 1 .. n
      /\ \A p \in 1 .. n : left0[p] = s[at[p]]
  BY <1>2, <1>3 DEF KeptBy
<1>7. DOMAIN m = 1 .. n /\ Len(m) = n
  BY <1>5, <1>6
<1>8. ASSUME NEW p \in 1 .. n
      PROVE  m[p] = final(at[p]) /\ m[p].severity = s[at[p]].severity
  <2> DEFINE r == s[at[p]]
             c == Cardinality({j \in rest : j <= at[p]})
  <2>1. r \in Finds /\ c = p /\ left0[p] = r
    BY <1>4, <1>6
  <2>2. m[p] = IF p \in moved THEN [r EXCEPT !.place = Home(@)] ELSE r
    BY <1>5, <1>6, <2>1
  <2>3. final(at[p]) = [r EXCEPT !.place = IF c \in moved THEN Home(@) ELSE @]
    OBVIOUS
  <2> HIDE DEF r, c, final
  <2>4. ASSUME NEW x
        PROVE  [r EXCEPT !.place = x].severity = r.severity /\ [r EXCEPT !.place = r.place] = r
    <3>1. CASE r \in Finding
      BY <3>1 DEF Finding
    <3>2. CASE r \in [severity : Severity, place : Place]
      BY <3>2
    <3> QED
      BY <2>1, <3>1, <3>2 DEF Finds
  <2>5. m[p] = final(at[p]) /\ m[p].severity = r.severity
    BY <2>1, <2>2, <2>3, <2>4
  <2> QED
    BY <2>5 DEF r
<1>9. Resolved = {m[p] : p \in 1 .. n}
  <2> HIDE DEF final
  <2>1. \A i \in rest : \E p \in 1 .. n : m[p] = final(i)
    BY <1>6, <1>8
  <2>2. \A p \in 1 .. n : at[p] \in rest /\ m[p] = final(at[p])
    BY <1>6, <1>8
  <2> QED
    BY <1>1, <2>1, <2>2
<1>10. at \in [1 .. n -> DOMAIN s]
  BY <1>4, <1>6
<1>11. SettledAs(m, at)
  <2>1. Len(m) \in Nat /\ DOMAIN m = 1 .. Len(m)
    BY <1>6, <1>7
  <2>2. at \in [DOMAIN m -> DOMAIN Reported]
    BY <1>7, <1>10 DEF s
  <2>3. \A p, q \in DOMAIN m : p < q => at[p] < at[q]
    BY <1>6, <1>7
  <2>4. \A p \in DOMAIN m : m[p].severity = Reported[at[p]].severity
    BY <1>7, <1>8 DEF s
  <2> QED
    BY <1>7, <1>9, <2>1, <2>2, <2>3, <2>4 DEF SettledAs
<1> QED
  BY <1>11 DEF m, left0, s

-----------------------------------------------------------------------------
(* The invariant, that of the fan-out apart.                               *)
WayInv ==
  /\ how \in {"parallel", "standard"} /\ session \in {"running", "ok", "error"}
  /\ how = "parallel" => submitted = <<>> /\ sink = None /\ session = "running"

(* The sink holds the last report that was accepted.                       *)
SinkInv ==
  /\ submitted \in Seq(Payload)
  /\ sink # None => Accepted # {} /\ sink = submitted[Max(Accepted)]
  /\ Accepted # {} => /\ sink # None
                      /\ Max(Accepted) \in Accepted
                      /\ \A i \in Accepted : i <= Max(Accepted)
  /\ session = "ok" => sink # None

(* What the filter left is what it did not name.                           *)
FilterInv ==
  left # None =>
    /\ how = "parallel" => report # None /\ ~report.error
    /\ how = "standard" => session # "running" /\ Readable
    /\ left = [findings |-> FilterFindings(Reported, named)]

Shown == Filtered(ResolveLineNumbers(left.findings, moved))

(* What was printed is made of what is still there.                        *)
OutcomeInv ==
  outcome # None =>
    \/ /\ left # None
       /\ outcome = [status |-> Status(Shown), shown |-> TRUE, printed |-> Shown]
    \/ /\ how = "parallel" /\ report # None /\ report.error
       /\ outcome = [status |-> 1, shown |-> FALSE, printed |-> <<>>]
    \/ /\ how = "standard" /\ session # "running" /\ ~Readable
       /\ outcome = [status |-> exitCode, shown |-> FALSE, printed |-> <<>>]

WholeInv == Inv /\ WayInv /\ SinkInv /\ FilterInv /\ OutcomeInv

LEMMA WholeInvInit == InitReport => WholeInv
<1> SUFFICES ASSUME InitReport
             PROVE  WholeInv
  OBVIOUS
<1>1. Inv
  BY InvInit DEF InitReport
<1>2. Accepted = {}
  BY DEF InitReport, Accepted
<1>3. WayInv /\ SinkInv
  BY <1>2 DEF InitReport, WayInv, SinkInv
<1>4. FilterInv /\ OutcomeInv
  BY DEF InitReport, FilterInv, OutcomeInv
<1> QED
  BY <1>1, <1>3, <1>4 DEF WholeInv

(* The steps of the command are steps of the fan-out, or leave it alone.   *)
LEMMA FanOutSteps == [NextReport]_allVars => [Next]_vars
<1>1. FanOut => Next
  BY DEF FanOut, Next
<1>2. ASSUME NEW f \in Files, FanOutReview(f)
      PROVE  Next
  BY <1>2 DEF FanOutReview, Next
<1>3. ReportFindings \/ SessionEnds \/ Filter \/ PrintParallel \/ PrintStandard \/ Exited => UNCHANGED vars
  BY DEF ReportFindings, SessionEnds, Filter, PrintParallel, PrintStandard, Exited, allVars
<1> QED
  BY <1>1, <1>2, <1>3 DEF NextReport, allVars

(* Once there is a report, the fan-out is over.                            *)
LEMMA ReportStays ==
  ASSUME Inv, Next, report # None
  PROVE  report' = report
<1>1. next = NFiles + 1 /\ NFiles \in Nat
  BY ReviewAssumption DEF Inv, ReportInv
<1> QED
  BY <1>1 DEF Next, Skip, Start, Finish, Review, CallReturns, Merge, Release, Terminated, vars

LEMMA FanOutKeeps ==
  ASSUME WholeInv, how = "parallel", Next, UNCHANGED reportVars
  PROVE  WayInv' /\ SinkInv' /\ FilterInv' /\ OutcomeInv'
<1> USE DEF WholeInv
<1>1. UNCHANGED <<how, submitted, sink, session, named, left, moved, outcome>>
  BY DEF reportVars
<1>2. report # None => report' = report
  BY ReportStays
<1>3. WayInv'
  BY <1>1 DEF WayInv
<1>4. SinkInv'
  BY <1>1 DEF SinkInv, Accepted
<1>5. FilterInv'
  BY <1>1, <1>2 DEF FilterInv, Reported, Accepted, Readable
<1>6. OutcomeInv'
  BY <1>1, <1>2 DEF OutcomeInv, Shown, Status, exitCode, Readable
<1> QED
  BY <1>3, <1>4, <1>5, <1>6

(* The newest of the reports is the last accepted one, if it is accepted.  *)
LEMMA NewestAccepted ==
  ASSUME NEW A, NEW n \in Nat, A \in SUBSET (1 .. n)
  PROVE  Max(A \cup {n + 1}) = n + 1
<1> DEFINE P(x) == x \in A \cup {n + 1} /\ \A y \in A \cup {n + 1} : x >= y
<1>1. \A i \in A : i \in Nat /\ i <= n
  OBVIOUS
<1>2. \A i \in A : ~(i >= n + 1) /\ n + 1 >= i
  BY <1>1
<1>3. n + 1 >= n + 1
  OBVIOUS
<1>4. \A x : P(x) <=> x = n + 1
  BY <1>2, <1>3
<1>5. P(n + 1)
  BY <1>4
<1>6. Max(A \cup {n + 1}) \in A \cup {n + 1} /\ \A y \in A \cup {n + 1} : Max(A \cup {n + 1}) >= y
  BY <1>5 DEF Max
<1> QED
  BY <1>4, <1>6

LEMMA NoneIsNoPayload ==
  \A payload \in Payload : payload # None
<1> SUFFICES ASSUME NEW payload \in Payload
             PROVE  payload # None
  OBVIOUS
<1>1. "parses" \in DOMAIN payload /\ "parses" \notin DOMAIN None
  BY DEF Payload, None
<1> QED
  BY <1>1

LEMMA ReportFindingsKeeps ==
  ASSUME WholeInv, ReportFindings
  PROVE  WayInv' /\ SinkInv' /\ FilterInv' /\ OutcomeInv'
<1> USE DEF WholeInv
<1>1. /\ how = "standard" /\ session = "running"
      /\ UNCHANGED <<vars, how, session, named, left, moved, outcome>>
  BY DEF ReportFindings
<1>2. PICK payload \in Payload :
        /\ submitted' = Append(submitted, payload)
        /\ sink' = IF Valid(payload) THEN payload ELSE sink
  BY DEF ReportFindings
<1>3. left = None
  BY <1>1 DEF FilterInv, WayInv
<1>4. outcome = None
  BY <1>1, <1>3 DEF OutcomeInv
<1>5. WayInv'
  BY <1>1 DEF WayInv
<1>6. FilterInv' /\ OutcomeInv'
  BY <1>1, <1>3, <1>4 DEF FilterInv, OutcomeInv
<1>7. SinkInv'
  <2> DEFINE n == Len(submitted)
  <2>1. submitted \in Seq(Payload)
    BY DEF SinkInv
  <2>2. n \in Nat /\ DOMAIN submitted = 1 .. n
    BY <2>1
  <2>3. /\ submitted' \in Seq(Payload) /\ DOMAIN submitted' = 1 .. (n + 1)
        /\ submitted'[n + 1] = payload /\ \A i \in 1 .. n : submitted'[i] = submitted[i]
    BY <1>2, <2>1, <2>2
  <2> HIDE DEF n
  <2>4. Accepted' = {i \in 1 .. (n + 1) : Valid(submitted'[i])}
    BY <2>3 DEF Accepted
  <2>5. \A i \in 1 .. (n + 1) : i \in 1 .. n \/ i = n + 1
    BY <2>2
  <2>6. \A i \in 1 .. n : i \in 1 .. (n + 1) /\ i <= n + 1
    BY <2>2
  <2>7. Accepted = {i \in 1 .. n : Valid(submitted[i])} /\ Accepted \in SUBSET (1 .. n)
    BY <2>2 DEF Accepted
  <2>8. CASE Valid(payload)
    <3>1. Accepted' = Accepted \cup {n + 1}
      <4>1. n + 1 \in 1 .. (n + 1)
        BY <2>2
      <4> QED
        BY <2>3, <2>4, <2>5, <2>6, <2>7, <2>8, <4>1
    <3>2. Max(Accepted') = n + 1
      BY <2>2, <2>7, <3>1, NewestAccepted
    <3>3. \A i \in Accepted' : i <= n + 1
      BY <2>2, <2>6, <2>7, <3>1
    <3>4. sink' = submitted'[Max(Accepted')] /\ sink' = payload
      BY <1>2, <2>3, <2>8, <3>2
    <3>5. sink' # None
      BY <3>4, NoneIsNoPayload
    <3> QED
      BY <1>1, <2>3, <3>1, <3>2, <3>3, <3>4, <3>5 DEF SinkInv
  <2>9. CASE ~Valid(payload)
    <3>1. Accepted' = Accepted /\ sink' = sink
      BY <1>2, <2>3, <2>4, <2>5, <2>6, <2>7, <2>9
    <3>2. \A i \in Accepted : submitted'[i] = submitted[i]
      BY <2>3, <2>7
    <3>3. Accepted # {} => submitted'[Max(Accepted)] = submitted[Max(Accepted)]
      BY <3>2 DEF SinkInv
    <3> QED
      BY <1>1, <2>3, <3>1, <3>3 DEF SinkInv
  <2> QED
    BY <2>8, <2>9
<1> QED
  BY <1>5, <1>6, <1>7

LEMMA SessionEndsKeeps ==
  ASSUME WholeInv, SessionEnds
  PROVE  WayInv' /\ SinkInv' /\ FilterInv' /\ OutcomeInv'
<1> USE DEF WholeInv
<1>1. /\ how = "standard" /\ session = "running"
      /\ session' = "error" \/ (session' = "ok" /\ sink # None)
      /\ UNCHANGED <<vars, how, submitted, sink, named, left, moved, outcome>>
  BY DEF SessionEnds
<1>2. left = None
  BY <1>1 DEF FilterInv, WayInv
<1>3. outcome = None
  BY <1>1, <1>2 DEF OutcomeInv
<1>4. WayInv'
  BY <1>1 DEF WayInv
<1>5. SinkInv'
  BY <1>1 DEF SinkInv, Accepted
<1> QED
  BY <1>1, <1>2, <1>3, <1>4, <1>5 DEF FilterInv, OutcomeInv

LEMMA FilterKeeps ==
  ASSUME WholeInv, Filter
  PROVE  WayInv' /\ SinkInv' /\ FilterInv' /\ OutcomeInv'
<1> USE DEF WholeInv
<1>1. /\ left = None
      /\ \/ how = "parallel" /\ report # None /\ ~report.error
         \/ how = "standard" /\ session # "running" /\ Readable
      /\ UNCHANGED <<vars, how, submitted, sink, session, moved, outcome>>
  BY DEF Filter
<1>2. left' = [findings |-> FilterFindings(Reported, named')]
  <2>1. (IF how = "parallel" THEN report.findings ELSE sink.findings) = Reported
    <3>1. CASE how = "parallel"
      BY <3>1 DEF Reported
    <3>2. CASE how # "parallel"
      <4>1. sink = submitted[Max(Accepted)]
        BY <1>1, <3>2 DEF SinkInv, Readable
      <4> QED
        BY <3>2, <4>1 DEF Reported
    <3> QED
      BY <3>1, <3>2
  <2> QED
    BY <2>1 DEF Filter
<1>3. outcome = None
  BY <1>1 DEF OutcomeInv
<1>4. WayInv' /\ SinkInv'
  BY <1>1 DEF WayInv, SinkInv, Accepted
<1>5. Reported' = Reported
  BY <1>1 DEF Reported, Accepted, vars
<1>6. FilterInv'
  BY <1>1, <1>2, <1>5 DEF FilterInv, vars, Readable
<1> QED
  BY <1>1, <1>3, <1>4, <1>6 DEF OutcomeInv

LEMMA PrintKeeps ==
  ASSUME WholeInv, PrintParallel \/ PrintStandard
  PROVE  WayInv' /\ SinkInv' /\ FilterInv' /\ OutcomeInv'
<1> USE DEF WholeInv
<1>1. UNCHANGED <<vars, how, submitted, sink, session, named, left>>
  BY DEF PrintParallel, PrintStandard
<1>2. WayInv' /\ SinkInv'
  BY <1>1 DEF WayInv, SinkInv, Accepted
<1>3. FilterInv'
  BY <1>1 DEF FilterInv, Reported, Accepted, vars, Readable
<1>4. ASSUME left # None, printReport
      PROVE  OutcomeInv'
  <2>1. /\ outcome' = [status |-> Status(Shown'), shown |-> TRUE, printed |-> Shown']
    BY <1>1, <1>4 DEF printReport, Shown
  <2>2. \A l : Status(l)' = Status(l)
    BY <1>1 DEF Status, exitCode, Readable
  <2> QED
    BY <1>1, <1>4, <2>1, <2>2 DEF OutcomeInv
<1>5. CASE PrintParallel /\ report.error
  <2>1. outcome' = [status |-> 1, shown |-> FALSE, printed |-> <<>>]
    BY <1>5 DEF PrintParallel, Silent
  <2> QED
    BY <1>1, <1>2, <1>3, <1>5, <2>1 DEF OutcomeInv, PrintParallel, vars
<1>6. CASE PrintParallel /\ ~report.error
  BY <1>2, <1>3, <1>4, <1>6 DEF PrintParallel
<1>7. CASE PrintStandard /\ ~Readable
  <2>1. session # "running" /\ how = "standard"
    BY <1>7 DEF PrintStandard
  <2>2. outcome' = [status |-> exitCode, shown |-> FALSE, printed |-> <<>>]
    BY <1>7 DEF PrintStandard, Silent
  <2>3. exitCode' = exitCode /\ Readable' = Readable
    BY <1>1 DEF exitCode, Readable
  <2> QED
    BY <1>1, <1>2, <1>3, <1>7, <2>1, <2>2, <2>3 DEF OutcomeInv
<1>8. CASE PrintStandard /\ Readable
  BY <1>2, <1>3, <1>4, <1>8 DEF PrintStandard
<1> QED
  BY <1>5, <1>6, <1>7, <1>8

LEMMA WholeInvNext == WholeInv /\ [NextReport]_allVars => WholeInv'
<1> SUFFICES ASSUME WholeInv, [NextReport]_allVars
             PROVE  WholeInv'
  OBVIOUS
<1>1. Inv'
  BY FanOutSteps, InvNext DEF WholeInv
<1>2. WayInv' /\ SinkInv' /\ FilterInv' /\ OutcomeInv'
  <2>1. CASE FanOut
    BY <2>1, FanOutKeeps DEF FanOut, Next
  <2>2. ASSUME NEW f \in Files, FanOutReview(f)
        PROVE  WayInv' /\ SinkInv' /\ FilterInv' /\ OutcomeInv'
    BY <2>2, FanOutKeeps DEF FanOutReview, Next
  <2>3. CASE UNCHANGED allVars
    BY <2>3 DEF WholeInv, WayInv, SinkInv, FilterInv, OutcomeInv, Shown, Status, exitCode, Reported,
                Readable, Accepted, allVars, vars, reportVars
  <2>4. CASE Exited
    BY <2>3, <2>4 DEF Exited
  <2> QED
    BY <2>1, <2>2, <2>3, <2>4, ReportFindingsKeeps, SessionEndsKeeps, FilterKeeps, PrintKeeps DEF NextReport
<1> QED
  BY <1>1, <1>2 DEF WholeInv

LEMMA WholeInvariance == ReviewSpec => []WholeInv
<1> QED
  BY WholeInvInit, WholeInvNext, PTL DEF ReviewSpec

-----------------------------------------------------------------------------
(* What the filter is given are findings.                                  *)
LEMMA ReportedAreFindings ==
  ASSUME WholeInv, left # None
  PROVE  FindsIn(Reported)
<1> USE DEF WholeInv
<1>1. CASE how = "parallel"
  <2> DEFINE l == SortFindingsStable(merged)
  <2>1. report = [findings |-> l, reviewedScope |-> reviewable, error |-> AllFailed]
    BY <1>1 DEF FilterInv, Inv, ReportInv
  <2>2. l \in Seq(Finding)
    BY Sorting DEF Inv, MergedInv, Gathers, SortsBy
  <2> HIDE DEF l
  <2>3. Reported = l
    BY <1>1, <2>1 DEF Reported
  <2>4. Len(l) \in Nat /\ DOMAIN l = 1 .. Len(l) /\ \A i \in DOMAIN l : l[i] \in Finding
    BY <2>2
  <2> QED
    BY <2>3, <2>4 DEF FindsIn, Finds
<1>2. CASE how = "standard"
  <2> DEFINE P == [severity : Severity, place : Place]
             l == submitted[Max(Accepted)].findings
  <2>1. sink # None /\ Accepted # {} /\ Max(Accepted) \in Accepted
    BY <1>2 DEF FilterInv, SinkInv, Readable
  <2>2. l \in Responses \cup {<<>>}
    <3>1. Max(Accepted) \in DOMAIN submitted
      BY <2>1 DEF Accepted
    <3>2. submitted[Max(Accepted)] \in Payload
      BY <3>1 DEF SinkInv
    <3> QED
      BY <3>2 DEF Payload
  <2>3. <<>> \in Seq(P)
    OBVIOUS
  <2>4. l \in Seq(P)
    BY <2>2, <2>3, ReviewAssumption
  <2>5. Reported = l
    BY <1>2 DEF Reported
  <2> HIDE DEF l, P
  <2>6. Len(l) \in Nat /\ DOMAIN l = 1 .. Len(l) /\ \A i \in DOMAIN l : l[i] \in P
    BY <2>4
  <2> QED
    BY <2>5, <2>6 DEF FindsIn, Finds, P
<1> QED
  BY <1>1, <1>2 DEF WayInv

(* The printed report: the first at each place of the findings left.       *)
LEMMA PrintedIs ==
  ASSUME WholeInv, Printed
  PROVE  /\ FindsIn(Reported)
         /\ \E m, at : SettledAs(m, at) /\ FilteredTo(m, outcome.printed)
<1> DEFINE l == FilterFindings(Reported, named)
           m == ResolveLineNumbers(l, moved)
<1>1. left # None /\ outcome.printed = Shown
  BY DEF WholeInv, OutcomeInv, Printed
<1>2. left = [findings |-> l]
  BY <1>1 DEF WholeInv, FilterInv
<1>3. FindsIn(Reported)
  BY <1>1, ReportedAreFindings
<1>4. PICK at : SettledAs(m, at)
  BY <1>3, Settling
<1> HIDE DEF l
<1>5. outcome.printed = Filtered(m)
  BY <1>1, <1>2 DEF Shown
<1> HIDE DEF m
<1>6. FilteredTo(m, outcome.printed)
  <2>1. Len(m) \in Nat /\ DOMAIN m = 1 .. Len(m)
    BY <1>4 DEF SettledAs
  <2> QED
    BY <1>5, <2>1, Filtering
<1> QED
  BY <1>3, <1>4, <1>6

(* Only what the filter named, or another finding at its place stands for, *)
(* is missing from the report that review prints, and nothing is added.    *)
THEOREM ReportComplete == ReviewSpec => []OnlyNamedRemoved
<1>1. WholeInv => OnlyNamedRemoved
  <2> SUFFICES ASSUME WholeInv, Printed
               PROVE  /\ Range(outcome.printed) \subseteq Resolved
                      /\ \A f \in Resolved : \E g \in Range(outcome.printed) : g.place = f.place
    BY DEF OnlyNamedRemoved
  <2> DEFINE t == outcome.printed
  <2>1. PICK m, at : SettledAs(m, at) /\ FilteredTo(m, t)
    BY PrintedIs
  <2> HIDE DEF t
  <2>2. /\ Resolved = {m[p] : p \in DOMAIN m}
        /\ \A p \in DOMAIN t : \E i \in DOMAIN m : t[p] = m[i]
        /\ \A i \in DOMAIN m : \E p \in DOMAIN t, j \in DOMAIN m :
             t[p] = m[j] /\ j <= i /\ m[j].place = m[i].place
    BY <2>1 DEF SettledAs, FilteredTo
  <2>3. Range(t) \subseteq Resolved
    BY <2>2 DEF Range
  <2>4. ASSUME NEW f \in Resolved
        PROVE  \E g \in Range(t) : g.place = f.place
    <3>1. PICK i \in DOMAIN m : f = m[i]
      BY <2>2
    <3>2. PICK p \in DOMAIN t, j \in DOMAIN m : t[p] = m[j] /\ m[j].place = m[i].place
      BY <2>2
    <3> QED
      BY <3>1, <3>2 DEF Range
  <2> QED
    BY <2>3, <2>4 DEF t
<1> QED
  BY <1>1, WholeInvariance, PTL

(* A sorted list has no finding behind a lesser one.                       *)
LEMMA SortedByRank ==
  ASSUME NEW s \in Seq(Finding), NEW t, t = SortFindingsStable(s)
  PROVE  /\ DOMAIN t \subseteq Nat
         /\ \A p, q \in DOMAIN t : p < q => Rank(t[p]) <= Rank(t[q])
<1> DEFINE n == Len(s)
           u == SortOrder(s)
<1>1. SortsBy(s, n, u)
  BY Sorting
<1> HIDE DEF n, u
<1>2. /\ t \in Seq(Finding) /\ Len(t) = n
      /\ \A p \in 1 .. n : t[p] = s[u[p]]
      /\ \A p, q \in 1 .. n : p < q => Before(s, u[p], u[q])
  BY <1>1 DEF SortsBy
<1>3. DOMAIN t = 1 .. n
  BY <1>2
<1>4. ASSUME NEW a, NEW b, Less(a, b) \/ ~Less(b, a)
      PROVE  Rank(a) <= Rank(b)
  BY <1>4 DEF Less, Rank
<1>5. \A i, j : Before(s, i, j) => Rank(s[i]) <= Rank(s[j])
  BY <1>4 DEF Before
<1>6. \A p, q \in 1 .. n : p < q => Rank(t[p]) <= Rank(t[q])
  BY <1>2, <1>5
<1> QED
  BY <1>3, <1>6

(* In the parallel review the finding printed for a place is the worst of  *)
(* those that ended up there: the list is sorted before it is filtered.    *)
THEOREM WorstIsPrinted == ReviewSpec => []WorstKept
<1>1. WholeInv => WorstKept
  <2> SUFFICES ASSUME WholeInv, how = "parallel", Printed, NEW f \in Resolved
               PROVE  \E g \in Range(outcome.printed) : g.place = f.place /\ Rank(g) <= Rank(f)
    BY DEF WorstKept
  <2> DEFINE t == outcome.printed
             s == Reported
  <2>1. PICK m, at : SettledAs(m, at) /\ FilteredTo(m, t)
    BY PrintedIs
  <2>2. report = [findings |-> SortFindingsStable(merged), reviewedScope |-> reviewable,
                  error |-> AllFailed]
    BY DEF WholeInv, FilterInv, OutcomeInv, Printed, Inv, ReportInv
  <2>3. s = SortFindingsStable(merged)
    BY <2>2 DEF Reported
  <2>4. merged \in Seq(Finding)
    BY DEF WholeInv, Inv, MergedInv, Gathers
  <2> HIDE DEF t, s
  <2>5. \A p, q \in DOMAIN s : p < q => Rank(s[p]) <= Rank(s[q])
    BY <2>3, <2>4, SortedByRank
  <2>6. PICK i \in DOMAIN m : f = m[i]
    BY <2>1 DEF SettledAs
  <2>7. PICK p \in DOMAIN t, j \in DOMAIN m : t[p] = m[j] /\ j <= i /\ m[j].place = m[i].place
    BY <2>1 DEF FilteredTo
  <2>8. Rank(m[j]) <= Rank(m[i])
    <3>1. /\ at \in [DOMAIN m -> DOMAIN s]
          /\ \A a, b \in DOMAIN m : a < b => at[a] < at[b]
          /\ \A a \in DOMAIN m : m[a].severity = s[at[a]].severity
          /\ Len(m) \in Nat /\ DOMAIN m = 1 .. Len(m)
      BY <2>1 DEF SettledAs, s
    <3>2. Rank(m[i]) = Rank(s[at[i]]) /\ Rank(m[j]) = Rank(s[at[j]])
      BY <3>1 DEF Rank
    <3>3. CASE j < i
      BY <2>5, <3>1, <3>2, <3>3
    <3>4. CASE j = i
      BY <3>4 DEF Rank
    <3>5. j < i \/ j = i
      BY <2>7, <3>1
    <3> QED
      BY <3>3, <3>4, <3>5
  <2> QED
    BY <2>6, <2>7, <2>8 DEF Range, t
<1> QED
  BY <1>1, WholeInvariance, PTL

-----------------------------------------------------------------------------
(* The report of the fan-out is an error exactly when every review failed. *)
LEMMA ErrorIsOutage ==
  ASSUME Inv, report # None
  PROVE  report.error <=> Succeeded = {}
<1>1. /\ report = [findings |-> SortFindingsStable(merged), reviewedScope |-> reviewable,
                   error |-> AllFailed]
      /\ next = NFiles + 1 /\ \A f \in Files : pc[f] \in {"idle", "done"}
  BY DEF Inv, ReportInv
<1>2. report.error <=> AllFailed
  BY <1>1
<1>3. Succeeded = Joined
  <2>1. \A f \in Files : /\ pc[f] = "idle" => response[f] = None
                         /\ pc[f] = "done" => response[f] # None
    BY NoneIsNoReply DEF Inv, ReplyInv, Answered
  <2> QED
    BY <1>1, <2>1 DEF Succeeded, Joined
<1>4. /\ Begun \in SUBSET Files /\ Lost \in SUBSET Begun /\ Joined \in SUBSET Begun
      /\ \A f \in Begun : f \in Lost <=> f \notin Joined
  BY <1>1 DEF Begun, Lost, Joined
<1>5. attempted = Cardinality(Begun) /\ failed = Cardinality(Lost)
  BY DEF Inv, CountInv
<1>6. attempted \in Nat /\ attempted > 0
  <2>1. Begun = reviewable
    <3>1. \A f \in Files : f \in Nat /\ f < NFiles + 1
      BY ReviewAssumption DEF Files
    <3> QED
      BY <1>1, <3>1 DEF Begun, Inv, LoopInv
  <2>2. Cardinality(reviewable) >= parallelFileThreshold /\ Cardinality(reviewable) \in Nat
    BY FilesCounted DEF Inv, LoopInv
  <2> QED
    BY <1>5, <2>1, <2>2, ReviewAssumption
<1>7. CASE Joined = {}
  <2>1. Lost = Begun
    BY <1>4, <1>7
  <2> QED
    BY <1>2, <1>3, <1>5, <1>6, <1>7, <2>1 DEF AllFailed
<1>8. CASE Joined # {}
  <2>1. PICK f \in Joined : TRUE
    BY <1>8
  <2>2. Lost \in SUBSET (Begun \ {f}) /\ f \in Begun /\ Begun \ {f} \in SUBSET Files
    BY <1>4
  <2>3. Cardinality(Lost) <= Cardinality(Begun \ {f}) /\ Cardinality(Begun \ {f}) = Cardinality(Begun) - 1
    BY <1>4, <2>2, FilesCounted
  <2>4. Cardinality(Lost) \in Nat
    BY <1>4, FilesCounted
  <2>5. failed # attempted
    BY <1>5, <1>6, <2>3, <2>4
  <2> QED
    BY <1>2, <1>3, <1>8, <2>5 DEF AllFailed
<1> QED
  BY <1>7, <1>8

(* The exit status is true of what was printed and of how the review went: *)
(* 0 is never the status of a review that failed or printed a high         *)
(* finding, nor of one that showed nothing, but when ParseReport refused a *)
(* report that report_findings had accepted.                               *)
THEOREM ExitStatusTrue == ReviewSpec => []StatusTrue
<1>1. WholeInv => StatusTrue
  <2> SUFFICES ASSUME WholeInv, outcome # None, how = "standard" => moved = {}
               PROVE  CASE outcome.status = 0 ->
                             /\ ~HasHigh(outcome.printed)
                             /\ IF how = "parallel" THEN outcome.shown /\ Succeeded # {}
                                ELSE /\ session = "ok"
                                     /\ outcome.shown <=> submitted[Max(Accepted)].parses
                        [] outcome.status = 1 ->
                             IF outcome.shown THEN HasHigh(outcome.printed)
                                              ELSE how = "parallel" /\ Succeeded = {}
                        [] OTHER -> session = "error"
    BY DEF StatusTrue
  <2> USE DEF WholeInv
  <2>1. CASE how = "parallel" /\ report # None /\ report.error
             /\ outcome = [status |-> 1, shown |-> FALSE, printed |-> <<>>]
    <3>1. Succeeded = {}
      BY <2>1, ErrorIsOutage
    <3> QED
      BY <2>1, <3>1
  <2>2. CASE how = "standard" /\ session # "running" /\ ~Readable
             /\ outcome = [status |-> exitCode, shown |-> FALSE, printed |-> <<>>]
    <3>1. outcome.status = (IF session = "error" THEN 2 ELSE 0) /\ ~outcome.shown
      BY <2>2 DEF exitCode
    <3>2. ~HasHigh(outcome.printed)
      BY <2>2 DEF HasHigh
    <3>3. session = "ok" => ~submitted[Max(Accepted)].parses
      BY <2>2 DEF Readable, SinkInv
    <3>4. session = "ok" \/ session = "error"
      BY <2>2 DEF WayInv
    <3> QED
      BY <2>2, <3>1, <3>2, <3>3, <3>4
  <2>3. CASE left # None /\ outcome = [status |-> Status(Shown), shown |-> TRUE, printed |-> Shown]
    <3>1. CASE how = "parallel"
      <4>1. Succeeded # {}
        BY <2>3, <3>1, ErrorIsOutage DEF FilterInv
      <4>2. outcome.status = IF HasHigh(outcome.printed) THEN 1 ELSE 0
        BY <2>3, <3>1 DEF Status
      <4> QED
        BY <2>3, <3>1, <4>1, <4>2
    <3>2. CASE how = "standard"
      <4> DEFINE l == left.findings
      <4>1. Shown = Filtered(l)
        <5>1. l = [i \in DOMAIN l |-> l[i]]
          <6> DEFINE keep == {i \in DOMAIN Reported : i - 1 \notin named}
          <6>1. l = Kept(Reported, keep)
            BY <2>3 DEF FilterInv, FilterFindings
          <6> HIDE DEF l, keep
          <6> QED
            BY <6>1 DEF Kept
        <5>2. ResolveLineNumbers(l, {}) = l
          BY <5>1 DEF ResolveLineNumbers
        <5> QED
          BY <3>2, <5>2 DEF Shown
      <4>2. Readable
        BY <2>3, <3>2 DEF FilterInv
      <4>3. outcome.status = IF session = "error" THEN 2 ELSE IF HasHigh(outcome.printed) THEN 1 ELSE 0
        BY <2>3, <3>2, <4>1, <4>2 DEF Status, exitCode
      <4>4. session = "ok" \/ session = "error"
        BY <2>3, <3>2 DEF FilterInv, WayInv
      <4>5. submitted[Max(Accepted)].parses
        BY <4>2 DEF Readable, SinkInv
      <4> QED
        BY <2>3, <3>2, <4>3, <4>4, <4>5
    <3> QED
      BY <3>1, <3>2 DEF WayInv
  <2> QED
    BY <2>1, <2>2, <2>3 DEF OutcomeInv
<1> QED
  BY <1>1, WholeInvariance, PTL

(* Every variable stays in its type, those of the fan-out included: what   *)
(* report_findings refused is never in the sink, and of the findings at    *)
(* one place only one is printed.                                          *)
THEOREM ReportTypeCorrect == ReviewSpec => []ReportTypeOK
<1>1. WholeInv => ReportTypeOK
  <2> SUFFICES ASSUME WholeInv
               PROVE  ReportTypeOK
    OBVIOUS
  <2>1. TypeOK
    BY InvIsTyped DEF WholeInv
  <2>2. how \in {"parallel", "standard"} /\ session \in {"running", "ok", "error"}
    BY DEF WholeInv, WayInv
  <2>3. submitted \in Seq(Payload)
    BY DEF WholeInv, SinkInv
  <2>4. sink # None => sink \in Range(submitted) /\ Valid(sink)
    BY DEF WholeInv, SinkInv, Accepted, Range
  <2>5. ASSUME outcome # None
        PROVE  /\ outcome.status \in 0 .. 2
               /\ IsInjective([i \in DOMAIN outcome.printed |-> outcome.printed[i].place])
    <3>1. outcome.status \in 0 .. 2
      BY <2>5 DEF WholeInv, OutcomeInv, Status, exitCode
    <3>2. \A i, j \in DOMAIN outcome.printed :
            outcome.printed[i].place = outcome.printed[j].place => i = j
      <4>1. CASE Printed
        BY <4>1, PrintedIs DEF FilteredTo
      <4>2. CASE ~Printed
        <5>1. outcome.printed = <<>>
          BY <2>5, <4>2 DEF Printed, WholeInv, OutcomeInv
        <5> QED
          BY <5>1
      <4> QED
        BY <4>1, <4>2
    <3> QED
      BY <3>1, <3>2 DEF IsInjective
  <2> QED
    BY <2>1, <2>2, <2>3, <2>4, <2>5 DEF ReportTypeOK
<1> QED
  BY <1>1, WholeInvariance, PTL
=============================================================================
