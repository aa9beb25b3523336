---------------------------- MODULE FoldProofs ----------------------------
(***************************************************************************)
(* Induction, sums over finite sets, and folds: FoldLeft of the community  *)
(* modules applies an operation to a sequence from the left, the loop over *)
(* a batch of events or over the frames of a file.  The operation is a     *)
(* parameter; a module that folds one of its own takes an instance of      *)
(* these facts, and one that needs only the others takes any instance.     *)
(***************************************************************************)
EXTENDS Integers, Sequences, SequencesExt, TLAPS, WellFoundedInduction, SequenceTheorems,
        FiniteSetTheorems

CONSTANT op(_, _)  \* the body of the loop: the value so far and an element

-----------------------------------------------------------------------------
(* Naturals and sequences.                                                 *)

\* A set of naturals with 0 and every successor of its elements has them all.
LEMMA NaturalsByInduction ==
    ASSUME NEW S \in SUBSET Nat, 0 \in S, \A k \in S : k + 1 \in S
    PROVE  S = Nat
  <1> SUFFICES ASSUME Nat \ S # {} PROVE FALSE
    OBVIOUS
  <1>1. PICK m \in Nat \ S : \A y \in Nat \ S : ~ (<<y, m>> \in OpToRel(<, Nat))
    BY NatLessThanWellFounded, WFMin
  <1>2. \A y \in Nat \ S : ~ (y < m)
    BY <1>1 DEF OpToRel
  <1>3. m - 1 \in Nat /\ ~ (m - 1 \notin S)
    BY <1>2
  <1>4. (m - 1) + 1 \in S
    BY <1>3
  <1> QED
    BY <1>4

\* Every set of naturals that is not empty has a least element.
LEMMA LeastNatural ==
    ASSUME NEW S \in SUBSET Nat, S # {}
    PROVE  \E x \in S : \A y \in S : x <= y
  <1>1. PICK x \in S : \A y \in S : ~ (<<y, x>> \in OpToRel(<, Nat))
    BY NatLessThanWellFounded, WFMin
  <1>2. \A y \in S : ~ (y < x)
    BY <1>1 DEF OpToRel
  <1> QED
    BY <1>2

\* Removing the element at one position of a sequence.
LEMMA RemoveAtProperties ==
    ASSUME NEW S, NEW q \in Seq(S), NEW k \in 1 .. Len(q)
    PROVE  /\ RemoveAt(q, k) \in Seq(S)
           /\ Len(RemoveAt(q, k)) = Len(q) - 1
           /\ \A i \in 1 .. Len(q) - 1 :
                 RemoveAt(q, k)[i] = IF i < k THEN q[i] ELSE q[i + 1]
  <1> DEFINE front == SubSeq(q, 1, k - 1)
             back == SubSeq(q, k + 1, Len(q))
  <1>1. /\ front \in Seq(S)
        /\ Len(front) = k - 1
        /\ \A i \in 1 .. k - 1 : front[i] = q[i]
    <2>1. \A i \in 1 .. k - 1 : q[i] \in S
      OBVIOUS
    <2>2. k - 1 \in Int /\ Len(front) = IF 1 <= k - 1 THEN k - 1 - 1 + 1 ELSE 0
      BY <2>1, SubSeqProperties
    <2> QED
      BY <2>1, <2>2, SubSeqProperties
  <1>2. /\ back \in Seq(S)
        /\ Len(back) = Len(q) - k
        /\ \A i \in 1 .. Len(q) - k : back[i] = q[k + i]
    <2>1. \A i \in k + 1 .. Len(q) : q[i] \in S
      OBVIOUS
    <2> QED
      BY <2>1, SubSeqProperties
  <1> HIDE DEF front, back
  <1>3. RemoveAt(q, k) = front \o back
    BY DEF RemoveAt, front, back
  <1>4. /\ front \o back \in Seq(S)
        /\ Len(front \o back) = Len(front) + Len(back)
        /\ \A i \in 1 .. Len(front) + Len(back) :
              (front \o back)[i] = IF i <= Len(front) THEN front[i]
                                   ELSE back[i - Len(front)]
    BY <1>1, <1>2, ConcatProperties
  <1>5. k \in Nat \ {0} /\ Len(q) \in Nat /\ k <= Len(q)
    OBVIOUS
  <1>6. ASSUME NEW i \in 1 .. Len(q) - 1
        PROVE  (front \o back)[i] = IF i < k THEN q[i] ELSE q[i + 1]
    <2>1. i \in 1 .. Len(front) + Len(back)
      BY <1>1, <1>2, <1>5
    <2>2. (front \o back)[i] = IF i <= k - 1 THEN front[i] ELSE back[i - (k - 1)]
      BY <1>1, <1>4, <2>1
    <2>3. CASE i < k
      <3>1. i <= k - 1 /\ i \in 1 .. k - 1
        BY <1>5, <2>3
      <3> QED
        BY <1>1, <2>2, <2>3, <3>1
    <2>4. CASE ~ (i < k)
      <3>1. ~ (i <= k - 1) /\ i - (k - 1) \in 1 .. Len(q) - k
        BY <1>5, <2>4
      <3>2. k + (i - (k - 1)) = i + 1
        BY <1>5
      <3> QED
        BY <1>2, <2>2, <2>4, <3>1, <3>2
    <2> QED
      BY <2>3, <2>4
  <1>7. Len(front) + Len(back) = Len(q) - 1
    BY <1>1, <1>2, <1>5
  <1> QED
    BY <1>3, <1>4, <1>6, <1>7

-----------------------------------------------------------------------------
(* Sums over finite sets, as MapThenSumSet of the community modules takes  *)
(* them.                                                                   *)

\* One way to compute the sums of f over the sets of D, as MapThenSumSet does.
SumUnfolds(g, f, D) ==
    g = [t \in D |->
            IF t = {} THEN 0
            ELSE f[CHOOSE x \in t : TRUE] + g[t \ {CHOOSE x \in t : TRUE}]]

\* The recursion of MapThenSumSet has a solution on every finite set.
LEMMA SumExists ==
    ASSUME NEW S, IsFiniteSet(S), NEW f
    PROVE  \E g : SumUnfolds(g, f, SUBSET S)
  <1> DEFINE D(m) == {t \in SUBSET S : Cardinality(t) <= m}
             N == {m \in Nat : \E g : SumUnfolds(g, f, D(m))}
             c(t) == CHOOSE x \in t : TRUE
  <1>1. ASSUME NEW t \in SUBSET S
        PROVE  /\ IsFiniteSet(t) /\ Cardinality(t) \in Nat
               /\ Cardinality(t) <= Cardinality(S) /\ Cardinality(S) \in Nat
               /\ t # {} => /\ c(t) \in t
                            /\ t \ {c(t)} \in SUBSET S
                            /\ Cardinality(t \ {c(t)}) = Cardinality(t) - 1
    <2>1. IsFiniteSet(t) /\ Cardinality(t) \in Nat /\ Cardinality(S) \in Nat
      BY FS_Subset, FS_CardinalityType
    <2> QED
      BY <2>1, FS_Subset, FS_RemoveElement
  <1>2. 0 \in N
    <2> DEFINE g == [t \in D(0) |-> 0]
    <2>1. \A t \in D(0) : t = {}
      BY <1>1, FS_EmptySet
    <2>2. SumUnfolds(g, f, D(0))
      BY <2>1 DEF SumUnfolds
    <2> HIDE DEF g
    <2> QED
      BY <2>2
  <1>3. ASSUME NEW m \in N PROVE m + 1 \in N
    <2>1. PICK g : SumUnfolds(g, f, D(m))
      OBVIOUS
    <2> DEFINE h == [t \in D(m + 1) |-> IF t = {} THEN 0 ELSE f[c(t)] + g[t \ {c(t)}]]
    <2>2. ASSUME NEW t \in D(m) PROVE h[t] = g[t]
      <3>1. t \in D(m + 1)
        <4>1. m \in Nat /\ Cardinality(t) \in Nat /\ Cardinality(t) <= m /\ t \in SUBSET S
          BY <1>1
        <4>2. Cardinality(t) <= m + 1
          BY <4>1
        <4> QED
          BY <4>1, <4>2
      <3> QED
        BY <2>1, <3>1 DEF SumUnfolds
    <2>3. ASSUME NEW t \in D(m + 1)
          PROVE  h[t] = IF t = {} THEN 0 ELSE f[c(t)] + h[t \ {c(t)}]
      <3>1. CASE t = {}
        BY <3>1
      <3>2. CASE t # {}
        <4>1. t \ {c(t)} \in D(m)
          BY <1>1, <3>2
        <4> QED
          BY <2>2, <3>2, <4>1
      <3> QED
        BY <3>1, <3>2
    <2>4. h = [t \in D(m + 1) |-> h[t]]
      OBVIOUS
    <2> HIDE DEF h, D
    <2>5. SumUnfolds(h, f, D(m + 1))
      BY <2>3, <2>4 DEF SumUnfolds
    <2> QED
      BY <2>5
  <1>4. N = Nat
    <2> HIDE DEF N
    <2>1. N \in SUBSET Nat
      BY DEF N
    <2> QED
      BY <1>2, <1>3, <2>1, NaturalsByInduction
  <1>5. Cardinality(S) \in N
    BY <1>4, FS_CardinalityType
  <1>6. D(Cardinality(S)) = SUBSET S
    BY <1>1
  <1> QED
    BY <1>5, <1>6

\* Every element of a set is a summand of its sum; sums are in V.
Summands(V, g, f, D) ==
    \A t \in D : g[t] \in V /\ \A x \in t : g[t] = f[x] + g[t \ {x}]

\* Whichever element MapThenSumSet chooses first, each is a summand.
LEMMA SumSummand ==
    ASSUME NEW V \in {Nat, Int}, NEW S, IsFiniteSet(S), NEW f \in [S -> V],
           NEW g, SumUnfolds(g, f, SUBSET S)
    PROVE  Summands(V, g, f, SUBSET S)
  <1> DEFINE c(u) == CHOOSE x \in u : TRUE
             Good(u) == g[u] \in V /\ \A x \in u : g[u] = f[x] + g[u \ {x}]
             N == {m \in Nat : \A u \in SUBSET S : Cardinality(u) <= m => Good(u)}
  <1>1. \A u \in SUBSET S : IsFiniteSet(u) /\ Cardinality(u) \in Nat
    BY FS_Subset, FS_CardinalityType
  <1>2. \A u \in SUBSET S :
           g[u] = IF u = {} THEN 0 ELSE f[c(u)] + g[u \ {c(u)}]
    BY DEF SumUnfolds
  <1>a. 0 \in V /\ V \subseteq Int /\ \A a, b \in V : a + b \in V
    OBVIOUS
  <1>0. Good({})
    <2>1. g[{}] = 0
      BY <1>2
    <2> QED
      BY <1>a, <2>1
  <1>3. 0 \in N
    <2> SUFFICES ASSUME NEW u \in SUBSET S, Cardinality(u) <= 0 PROVE Good(u)
      OBVIOUS
    <2>1. Cardinality(u) = 0
      BY <1>1
    <2>2. u = {}
      BY <1>1, <2>1, FS_EmptySet
    <2> HIDE DEF Good
    <2> QED
      BY <1>0, <2>2
  <1>4. ASSUME NEW m \in N PROVE m + 1 \in N
    <2>0. Good({}) /\ m + 1 \in Nat
      BY <1>0
    <2> SUFFICES ASSUME NEW u \in SUBSET S, Cardinality(u) <= m + 1, u # {}
                 PROVE  Good(u)
      <3> HIDE DEF Good
      <3> QED
        BY <2>0
    <2>1. ASSUME NEW v \in SUBSET u, NEW y \in u, y \notin v
          PROVE  v \in SUBSET S /\ Good(v)
      <3> DEFINE w == u \ {y}
      <3> HIDE DEF N, Good
      <3>0. IsFiniteSet(u) /\ Cardinality(u) \in Nat
        BY <1>1
      <3>1. IsFiniteSet(w) /\ Cardinality(w) = Cardinality(u) - 1 /\ v \in SUBSET w
        BY <2>1, <3>0, FS_RemoveElement
      <3> HIDE DEF w
      <3>2. Cardinality(v) <= Cardinality(w) /\ v \in SUBSET S
        BY <3>1, FS_Subset
      <3>3. Cardinality(v) \in Nat /\ m \in Nat
        BY <1>1, <3>2 DEF N
      <3>4. Cardinality(v) <= m
        BY <3>0, <3>1, <3>2, <3>3
      <3> QED
        BY <3>2, <3>4 DEF N
    <2> DEFINE y == c(u)
    <2>2. g[u] = f[y] + g[u \ {y}] /\ y \in u
      BY <1>2
    <2> HIDE DEF y
    <2>3. g[u] \in V
      <3>1. f[y] \in V /\ g[u \ {y}] \in V
        BY <2>1, <2>2
      <3> QED
        BY <1>a, <2>2, <3>1
    <2>4. ASSUME NEW x \in u, x # y PROVE g[u] = f[x] + g[u \ {x}]
      <3>1. g[u \ {y}] = f[x] + g[(u \ {y}) \ {x}]
        BY <2>1, <2>2, <2>4
      <3>2. g[u \ {x}] = f[y] + g[(u \ {x}) \ {y}]
        BY <2>1, <2>2, <2>4
      <3>3. (u \ {x}) \ {y} = (u \ {y}) \ {x}
        OBVIOUS
      <3>4. g[(u \ {y}) \ {x}] \in Int
        BY <1>a, <2>1
      <3>5. f[x] \in Int /\ f[y] \in Int
        BY <1>a, <2>2
      <3>6. f[y] + (f[x] + g[(u \ {y}) \ {x}]) = f[x] + (f[y] + g[(u \ {y}) \ {x}])
        BY <3>4, <3>5
      <3> HIDE DEF N, Good, c
      <3> QED
        BY <2>2, <3>1, <3>2, <3>3, <3>6
    <2> QED
      BY <2>2, <2>3, <2>4
  <1>5. N = Nat
    <2> HIDE DEF N
    <2>1. N \in SUBSET Nat
      BY DEF N
    <2> QED
      BY <1>3, <1>4, <2>1, NaturalsByInduction
  <1>6. \A t \in SUBSET S : Good(t)
    <2> HIDE DEF Good
    <2> QED
      BY <1>1, <1>5
  <1> QED
    BY <1>6 DEF Summands

-----------------------------------------------------------------------------
(* FoldLeft is iteration.                                                  *)

\* The fold of a sequence from a first value.
Fold(b, s) == FoldLeft(op, b, s)

\* One way to compute the values of a fold on the sets of indices up to n.
Unfolds(g, b, s, n) ==
    g = [t \in SUBSET (1 .. n) |->
            IF t = {} THEN b ELSE op(g[t \ {Max(t)}], s[Max(t)])]

\* The greatest index of a set that holds the last of a range.
LEMMA MaxOfLast ==
    ASSUME NEW n \in Nat, NEW t \in SUBSET (1 .. n + 1), n + 1 \in t
    PROVE  Max(t) = n + 1
  <1>1. \A y \in t : n + 1 >= y
    OBVIOUS
  <1>2. Max(t) \in t /\ \A y \in t : Max(t) >= y
    BY <1>1 DEF Max
  <1> DEFINE max == Max(t)
  <1>3. max \in t /\ max >= n + 1 /\ n + 1 >= max
    BY <1>1, <1>2
  <1> HIDE DEF max
  <1>4. max \in Nat
    BY <1>3
  <1>5. max = n + 1
    BY <1>3, <1>4
  <1> QED
    BY <1>5 DEF max

\* The recursion of FoldLeft has a solution for every range of indices.
LEMMA FoldExists ==
    ASSUME NEW b, NEW s, NEW n \in Nat
    PROVE  \E g : Unfolds(g, b, s, n)
  <1> DEFINE S == {m \in Nat : \E g : Unfolds(g, b, s, m)}
  <1>1. 0 \in S
    <2> DEFINE g == [t \in SUBSET (1 .. 0) |-> b]
    <2>1. \A t \in SUBSET (1 .. 0) : t = {}
      OBVIOUS
    <2>2. Unfolds(g, b, s, 0)
      BY <2>1 DEF Unfolds
    <2> HIDE DEF g
    <2> QED
      BY <2>2
  <1>2. ASSUME NEW m \in S PROVE m + 1 \in S
    <2>1. PICK g : Unfolds(g, b, s, m)
      OBVIOUS
    <2> DEFINE h == [t \in SUBSET (1 .. m + 1) |->
                        IF m + 1 \in t THEN op(g[t \ {m + 1}], s[m + 1]) ELSE g[t]]
    <2>2. ASSUME NEW t \in SUBSET (1 .. m + 1)
          PROVE  h[t] = IF t = {} THEN b ELSE op(h[t \ {Max(t)}], s[Max(t)])
      <3>1. CASE m + 1 \in t
        <4>1. Max(t) = m + 1
          BY <3>1, MaxOfLast
        <4>2. t \ {m + 1} \in SUBSET (1 .. m + 1) /\ m + 1 \notin t \ {m + 1}
          OBVIOUS
        <4>3. h[t \ {m + 1}] = g[t \ {m + 1}]
          BY <4>2
        <4> QED
          BY <3>1, <4>1, <4>3
      <3>2. CASE m + 1 \notin t
        <4>1. t \in SUBSET (1 .. m)
          BY <3>2
        <4>2. g[t] = IF t = {} THEN b ELSE op(g[t \ {Max(t)}], s[Max(t)])
          BY <2>1, <4>1 DEF Unfolds
        <4>3. t \ {Max(t)} \in SUBSET (1 .. m + 1) /\ m + 1 \notin t \ {Max(t)}
          BY <3>2
        <4>4. h[t] = g[t] /\ h[t \ {Max(t)}] = g[t \ {Max(t)}]
          BY <3>2, <4>3
        <4> QED
          BY <4>2, <4>4
      <3> QED
        BY <3>1, <3>2
    <2>3. h = [t \in SUBSET (1 .. m + 1) |-> h[t]]
      OBVIOUS
    <2> HIDE DEF h
    <2>4. Unfolds(h, b, s, m + 1)
      BY <2>2, <2>3 DEF Unfolds
    <2> QED
      BY <2>4
  <1>3. S = Nat
    <2> HIDE DEF S
    <2>1. S \in SUBSET Nat
      BY DEF S
    <2> QED
      BY <1>1, <1>2, <2>1, NaturalsByInduction
  <1> QED
    BY <1>3

\* The values that the loop takes one after the other.
Iterates(v, b, s, n) ==
    v[0] = b /\ \A k \in 0 .. n - 1 : v[k + 1] = op(v[k], s[k + 1])

\* The fold of a sequence is the last of its iterates.
LEMMA FoldIterates ==
    ASSUME NEW b, NEW n \in Nat, NEW s, DOMAIN s = 1 .. n
    PROVE  \E v : Iterates(v, b, s, n) /\ Fold(b, s) = v[n]
  <1> DEFINE g == CHOOSE f : Unfolds(f, b, s, n)
             v == [k \in 0 .. n |-> g[1 .. k]]
  <1>1. Fold(b, s) = g[1 .. n]
    BY DEF Fold, FoldLeft, MapThenFoldSet, Unfolds
  <1>2. Unfolds(g, b, s, n)
    BY FoldExists
  <1> HIDE DEF g
  <1>3. v[0] = b
    <2>1. 1 .. 0 = {} /\ {} \in SUBSET (1 .. n)
      OBVIOUS
    <2>2. g[{}] = b
      BY <1>2, <2>1 DEF Unfolds
    <2> QED
      BY <2>1, <2>2
  <1>4. ASSUME NEW k \in 0 .. n - 1 PROVE v[k + 1] = op(v[k], s[k + 1])
    <2>1. /\ k \in Nat /\ k \in 0 .. n /\ k + 1 \in 0 .. n
          /\ 1 .. k + 1 \in SUBSET (1 .. n) /\ k + 1 \in 1 .. k + 1
      <3>1. k \in Nat /\ k + 1 <= n
        OBVIOUS
      <3> QED
        BY <3>1
    <2>2. Max(1 .. k + 1) = k + 1
      BY <2>1, MaxOfLast
    <2>3. (1 .. k + 1) \ {k + 1} = 1 .. k
      BY <2>1
    <2>4. g[1 .. k + 1] = op(g[(1 .. k + 1) \ {Max(1 .. k + 1)}], s[Max(1 .. k + 1)])
      BY <1>2, <2>1 DEF Unfolds
    <2>5. v[k] = g[1 .. k] /\ v[k + 1] = g[1 .. k + 1]
      BY <2>1
    <2> HIDE DEF v
    <2> QED
      BY <2>2, <2>3, <2>4, <2>5
  <1>5. v[n] = g[1 .. n]
    OBVIOUS
  <1> HIDE DEF v
  <1>6. Iterates(v, b, s, n)
    BY <1>3, <1>4 DEF Iterates
  <1> QED
    BY <1>1, <1>5, <1>6

\* There is one sequence of iterates, so any of them gives the fold.
LEMMA FoldIsLastIterate ==
    ASSUME NEW b, NEW n \in Nat, NEW s, DOMAIN s = 1 .. n, NEW v, Iterates(v, b, s, n)
    PROVE  Fold(b, s) = v[n]
  <1>1. PICK w : Iterates(w, b, s, n) /\ Fold(b, s) = w[n]
    BY FoldIterates
  <1> DEFINE S == {k \in Nat : k <= n => w[k] = v[k]}
  <1>2. 0 \in S
    BY <1>1 DEF Iterates
  <1>3. ASSUME NEW k \in S PROVE k + 1 \in S
    BY <1>1 DEF Iterates
  <1>4. S = Nat
    <2> HIDE DEF S
    <2>1. S \in SUBSET Nat
      BY DEF S
    <2> QED
      BY <1>2, <1>3, <2>1, NaturalsByInduction
  <1> QED
    BY <1>1, <1>4

-----------------------------------------------------------------------------
(* What a fold makes of the usual sequences.                               *)

\* A loop over nothing leaves the value it began with.
LEMMA FoldEmpty == ASSUME NEW b PROVE Fold(b, <<>>) = b
  <1>1. DOMAIN <<>> = 1 .. 0
    OBVIOUS
  <1>2. PICK v : Iterates(v, b, <<>>, 0) /\ Fold(b, <<>>) = v[0]
    BY <1>1, FoldIterates
  <1> QED
    BY <1>2 DEF Iterates

\* One more element is one more turn of the loop.
LEMMA FoldAppend ==
    ASSUME NEW b, NEW E, NEW s \in Seq(E), NEW x \in E
    PROVE  Fold(b, Append(s, x)) = op(Fold(b, s), x)
  <1> DEFINE r == Append(s, x)
             n == Len(s)
  <1>1. /\ n \in Nat /\ DOMAIN r = 1 .. n + 1 /\ DOMAIN s = 1 .. n
        /\ r[n + 1] = x /\ \A i \in 1 .. n : r[i] = s[i]
    OBVIOUS
  <1> HIDE DEF r, n
  <1>2. n + 1 \in Nat
    BY <1>1
  <1>3. PICK v : Iterates(v, b, r, n + 1) /\ Fold(b, r) = v[n + 1]
    BY <1>1, <1>2, FoldIterates
  <1>4. Iterates(v, b, s, n) /\ v[n + 1] = op(v[n], x)
    BY <1>1, <1>3 DEF Iterates
  <1>5. Fold(b, s) = v[n]
    BY <1>1, <1>4, FoldIsLastIterate
  <1> QED
    BY <1>3, <1>4, <1>5 DEF r

\* What every turn keeps, the loop keeps.
LEMMA FoldKeeps ==
    ASSUME NEW V, NEW b \in V, NEW E, NEW s \in Seq(E),
           \A x \in V, i \in 1 .. Len(s) : op(x, s[i]) \in V
    PROVE  Fold(b, s) \in V
  <1> DEFINE n == Len(s)
  <1>1. n \in Nat /\ DOMAIN s = 1 .. n
    OBVIOUS
  <1>2. \A x \in V, i \in 1 .. n : op(x, s[i]) \in V
    OBVIOUS
  <1> HIDE DEF n
  <1>3. PICK v : Iterates(v, b, s, n) /\ Fold(b, s) = v[n]
    BY <1>1, FoldIterates
  <1> DEFINE S == {k \in Nat : k <= n => v[k] \in V}
  <1>4. 0 \in S
    BY <1>3 DEF Iterates
  <1>5. ASSUME NEW k \in S PROVE k + 1 \in S
    <2> SUFFICES ASSUME k + 1 <= n PROVE v[k + 1] \in V
      OBVIOUS
    <2>1. k \in 0 .. n - 1 /\ k + 1 \in 1 .. n /\ v[k] \in V
      BY <1>1
    <2> QED
      BY <1>2, <1>3, <2>1 DEF Iterates
  <1>6. S = Nat
    <2> HIDE DEF S
    <2>1. S \in SUBSET Nat
      BY DEF S
    <2> QED
      BY <1>4, <1>5, <2>1, NaturalsByInduction
  <1> QED
    BY <1>1, <1>3, <1>6

\* Two loops one after the other are one loop over both sequences.
LEMMA FoldConcat ==
    ASSUME NEW b, NEW E, NEW s \in Seq(E), NEW t \in Seq(E)
    PROVE  Fold(b, s \o t) = Fold(Fold(b, s), t)
  <1> DEFINE r == s \o t
             n == Len(s)
             m == Len(t)
  <1>1. /\ n \in Nat /\ m \in Nat
        /\ DOMAIN r = 1 .. n + m /\ DOMAIN s = 1 .. n /\ DOMAIN t = 1 .. m
        /\ \A i \in 1 .. n : r[i] = s[i]
        /\ \A i \in 1 .. m : r[n + i] = t[i]
    OBVIOUS
  <1> HIDE DEF r, n, m
  <1>2. n + m \in Nat
    BY <1>1
  <1>3. PICK v : Iterates(v, b, r, n + m) /\ Fold(b, r) = v[n + m]
    BY <1>1, <1>2, FoldIterates
  <1>4. Iterates(v, b, s, n)
    BY <1>1, <1>3 DEF Iterates
  <1>5. Fold(b, s) = v[n]
    BY <1>1, <1>4, FoldIsLastIterate
  <1> DEFINE w == [k \in 0 .. m |-> v[n + k]]
  <1>6. w[0] = v[n] /\ w[m] = v[n + m]
    BY <1>1
  <1>7. ASSUME NEW k \in 0 .. m - 1 PROVE w[k + 1] = op(w[k], t[k + 1])
    <2>1. n + k \in 0 .. n + m - 1 /\ k + 1 \in 1 .. m /\ n + (k + 1) = (n + k) + 1
      BY <1>1
    <2> DEFINE j == n + k
    <2>2. v[j + 1] = op(v[j], r[j + 1])
      <3> DEFINE last == n + m
      <3>1. j \in 0 .. last - 1
        BY <1>1, <2>1
      <3>2. Iterates(v, b, r, last)
        BY <1>3
      <3> HIDE DEF j, last
      <3> QED
        BY <3>1, <3>2 DEF Iterates
    <2>3. w[k + 1] = v[n + (k + 1)] /\ w[k] = v[n + k]
      BY <1>1
    <2>4. r[n + (k + 1)] = t[k + 1]
      BY <1>1, <2>1
    <2> QED
      BY <2>1, <2>2, <2>3, <2>4
  <1> HIDE DEF w
  <1>8. Iterates(w, v[n], t, m)
    BY <1>6, <1>7 DEF Iterates
  <1>9. Fold(v[n], t) = w[m]
    BY <1>1, <1>8, FoldIsLastIterate
  <1> QED
    BY <1>3, <1>5, <1>6, <1>9 DEF r

\* The first element is the first turn of the loop.
LEMMA FoldHead ==
    ASSUME NEW b, NEW E, NEW x \in E, NEW t \in Seq(E)
    PROVE  Fold(b, <<x>> \o t) = Fold(op(b, x), t)
  <1>1. <<x>> = Append(<<>>, x) /\ <<>> \in Seq(E) /\ <<x>> \in Seq(E)
    OBVIOUS
  <1>2. Fold(b, Append(<<>>, x)) = op(Fold(b, <<>>), x)
    BY <1>1, FoldAppend
  <1>3. Fold(b, <<x>>) = op(b, x)
    BY <1>1, <1>2, FoldEmpty
  <1>4. Fold(b, <<x>> \o t) = Fold(Fold(b, <<x>>), t)
    <2> DEFINE h == <<x>>
    <2>1. h \in Seq(E)
      BY <1>1
    <2> HIDE DEF h
    <2>2. Fold(b, h \o t) = Fold(Fold(b, h), t)
      BY <2>1, FoldConcat
    <2> QED
      BY <2>2 DEF h
  <1> QED
    BY <1>3, <1>4

=============================================================================
