----------------------------- MODULE EvidenceProofs -----------------------------
(***************************************************************************)
(* Proofs about what the numbers of a run say: first about sums, folds     *)
(* and rules over samples, and Evidence; then about Throughput, which      *)
(* shares the arithmetic.                                                  *)
(***************************************************************************)
EXTENDS Evidence, Throughput, SequenceTheorems, FiniteSetTheorems, WellFoundedInduction, TLAPS

-----------------------------------------------------------------------------
\* Numbers, one after another: induction without an operator for what is shown.

\* Every set of numbers has a smallest one.
LEMMA Least ==
  ASSUME NEW S \in SUBSET Nat, S # {}
  PROVE  \E n \in S : \A m \in S : n <= m
<1> DEFINE Below == {p \in Nat \X Nat : p[1] < p[2]}
<1>1. IsWellFoundedOn(Below, Nat)
  BY NatLessThanWellFounded, Zenon DEF OpToRel
<1> HIDE DEF Below
<1>2. PICK n \in S : \A m \in S : ~ (<<m, n>> \in Below)
  BY <1>1, WFMin
<1>3. ASSUME NEW m \in S
      PROVE  n <= m
  <2>1. m \in Nat /\ n \in Nat
    OBVIOUS
  <2>2. ~ (m < n)
    BY <1>2, <2>1 DEF Below
  <2> QED
    BY <2>1, <2>2
<1> QED
  BY <1>3

\* What 0 is in, and with a number below n the next one, has all up to n.
LEMMA UpTo ==
  ASSUME NEW n \in Nat, NEW S, 0 \in S, \A k \in 0..n : k < n /\ k \in S => k + 1 \in S
  PROVE  \A k \in 0..n : k \in S
<1> DEFINE Out == {k \in 0..n : k \notin S}
<1> SUFFICES ASSUME Out # {}
             PROVE  FALSE
  OBVIOUS
<1>1. Out \in SUBSET Nat
  OBVIOUS
<1> HIDE DEF Out
<1>2. PICK k \in Out : \A m \in Out : k <= m
  BY <1>1, Least
<1>3. k \in 0..n /\ k \notin S /\ k # 0
  BY DEF Out
<1>4. k - 1 \in 0..n /\ k - 1 < n /\ k - 1 \notin Out
  BY <1>2, <1>3
<1>5. k - 1 \in S
  BY <1>4 DEF Out
<1> QED
  BY <1>3, <1>4, <1>5

\* The greatest of some of the first n numbers, and of all of them.
LEMMA MaxIsIn ==
  ASSUME NEW n \in Nat, NEW S \in SUBSET (1..n), S # {}
  PROVE  Max(S) \in S /\ \A x \in S : x <= Max(S)
<1> DEFINE Rest == {n - x : x \in S}
<1>1. Rest \in SUBSET Nat /\ Rest # {}
  <2>1. PICK some \in S : TRUE
    OBVIOUS
  <2>2. n - some \in Rest
    OBVIOUS
  <2>3. \A x \in S : n - x \in Nat
    OBVIOUS
  <2> QED
    BY <2>2, <2>3
<1>2. PICK r \in Rest : \A m \in Rest : r <= m
  BY <1>1, Least
<1>3. PICK last \in S : r = n - last
  OBVIOUS
<1>4. \A y \in S : last >= y
  <2> TAKE y \in S
  <2>1. n - last <= n - y
    BY <1>2, <1>3
  <2> QED
    BY <2>1
<1> HIDE DEF Rest
<1>5. Max(S) \in S /\ \A y \in S : Max(S) >= y
  BY <1>4 DEF Max
<1> QED
  BY <1>5

\* The last of the first n numbers.
LEMMA MaxOfAll ==
  ASSUME NEW n \in Nat \ {0}
  PROVE  Max(1..n) = n /\ (1..n) \ {n} = 1..(n - 1) /\ 1..n # {}
<1>1. 1 \in 1..n /\ n \in 1..n /\ n \in Nat /\ (1..n) \in SUBSET (1..n)
  OBVIOUS
<1>2. Max(1..n) \in 1..n /\ \A x \in 1..n : x <= Max(1..n)
  BY <1>1, MaxIsIn, Zenon
<1> QED
  BY <1>1, <1>2

-----------------------------------------------------------------------------
\* Folds.

\* The recursive function behind FoldLeft: from base, by a step for each number
\* of a set, the greatest last.
Folds(g, n, base, step) ==
  \A S \in SUBSET (1..n) :
    g[S] = IF S = {} THEN base ELSE step[<<Max(S), g[S \ {Max(S)}]>>]

\* It exists.
LEMMA FoldExists ==
  ASSUME NEW n \in Nat, NEW A, NEW base \in A, NEW step \in [(1..n) \X A -> A]
  PROVE  \E g \in [SUBSET (1..n) -> A] : Folds(g, n, base, step)
<1> DEFINE Is(g, k) == \A S \in SUBSET (1..k) :
                         g[S] = IF S = {} THEN base ELSE step[<<Max(S), g[S \ {Max(S)}]>>]
           Good == {k \in 0..n : \E g \in [SUBSET (1..k) -> A] : Is(g, k)}
<1>1. 0 \in Good
  <2> DEFINE g == [S \in SUBSET (1..0) |-> base]
  <2>1. g \in [SUBSET (1..0) -> A] /\ \A S \in SUBSET (1..0) : S = {} /\ g[S] = base
    OBVIOUS
  <2> HIDE DEF g
  <2>2. Is(g, 0)
    BY <2>1
  <2>3. 0 \in 0..n
    OBVIOUS
  <2> HIDE DEF Is
  <2> QED
    BY <2>1, <2>2, <2>3
<1>2. ASSUME NEW k \in 0..n, k < n, k \in Good
      PROVE  k + 1 \in Good
  <2>1. PICK g \in [SUBSET (1..k) -> A] : Is(g, k)
    BY <1>2
  <2> DEFINE h == [S \in SUBSET (1..(k + 1)) |->
                     IF S \in SUBSET (1..k) THEN g[S] ELSE step[<<k + 1, g[S \ {k + 1}]>>]]
  <2>2. ASSUME NEW S \in SUBSET (1..(k + 1))
        PROVE  /\ S \notin SUBSET (1..k) => Max(S) = k + 1 /\ S # {} /\ S \ {k + 1} \in SUBSET (1..k)
               /\ S \in SUBSET (1..k) /\ S # {} => S \ {Max(S)} \in SUBSET (1..k) /\ Max(S) \in 1..k
    <3>1. S # {} => Max(S) \in S /\ \A x \in S : x <= Max(S)
      <4>1. k + 1 \in Nat
        OBVIOUS
      <4> QED
        BY <4>1, MaxIsIn
    <3>2. CASE S \notin SUBSET (1..k)
      <4>1. k + 1 \in S
        BY <3>2
      <4>2. Max(S) \in 1..(k + 1) /\ k + 1 <= Max(S)
        BY <3>1, <4>1
      <4>3. Max(S) = k + 1
        BY <4>2
      <4>4. S \ {k + 1} \in SUBSET (1..k)
        OBVIOUS
      <4> QED
        BY <3>2, <4>1, <4>3, <4>4
    <3> QED
      BY <3>1, <3>2
  <2>3. h \in [SUBSET (1..(k + 1)) -> A]
    <3> SUFFICES ASSUME NEW S \in SUBSET (1..(k + 1))
                 PROVE  h[S] \in A
      OBVIOUS
    <3>1. k + 1 \in 1..n
      BY <1>2
    <3>2. CASE S \in SUBSET (1..k)
      BY <3>2
    <3>3. CASE S \notin SUBSET (1..k)
      <4>1. g[S \ {k + 1}] \in A
        BY <2>2, <3>3
      <4> QED
        BY <3>1, <3>3, <4>1
    <3> QED
      BY <3>2, <3>3
  <2>4. Is(h, k + 1)
    <3> SUFFICES ASSUME NEW S \in SUBSET (1..(k + 1))
                 PROVE  h[S] = IF S = {} THEN base ELSE step[<<Max(S), h[S \ {Max(S)}]>>]
      OBVIOUS
    <3>0. S \ {Max(S)} \in SUBSET (1..(k + 1))
      OBVIOUS
    <3>1. CASE S \in SUBSET (1..k)
      <4>1. S # {} => h[S \ {Max(S)}] = g[S \ {Max(S)}]
        BY <2>2, <3>0, <3>1
      <4>2. g[S] = IF S = {} THEN base ELSE step[<<Max(S), g[S \ {Max(S)}]>>]
        BY <2>1, <3>1
      <4>3. h[S] = g[S]
        BY <3>1
      <4> HIDE DEF h
      <4> QED
        BY <4>1, <4>2, <4>3
    <3>2. CASE S \notin SUBSET (1..k)
      <4>1. Max(S) = k + 1 /\ S # {} /\ S \ {k + 1} \in SUBSET (1..k)
        BY <2>2, <3>2
      <4>2. h[S] = step[<<k + 1, g[S \ {k + 1}]>>]
        BY <3>2
      <4>3. h[S \ {k + 1}] = g[S \ {k + 1}]
        BY <3>0, <4>1
      <4> HIDE DEF h
      <4> QED
        BY <4>1, <4>2, <4>3
    <3> QED
      BY <3>1, <3>2
  <2> HIDE DEF h, Is
  <2>5. k + 1 \in 0..n
    BY <1>2
  <2> QED
    BY <2>3, <2>4, <2>5
<1> HIDE DEF Good
<1>3. \A k \in 0..n : k \in Good
  BY <1>1, <1>2, UpTo
<1>4. n \in Good
  BY <1>3
<1> QED
  BY <1>4 DEF Good, Folds

\* Fractions that are not below 0.
Whole == Nat \X (Nat \ {0})

\* Total adds, one by one.
LEMMA TotalRuns ==
  ASSUME NEW s \in Seq(Whole)
  PROVE  \E f \in [0..Len(s) -> Whole] :
           /\ f[0] = Num(0)
           /\ \A i \in 1..Len(s) : f[i] = Sum(f[i - 1], s[i])
           /\ Total(s) = f[Len(s)]
<1> DEFINE n == Len(s)
           step == [p \in (1..n) \X Whole |-> Sum(p[2], s[p[1]])]
<1>1. n \in Nat /\ DOMAIN s = 1..n /\ \A i \in 1..n : s[i] \in Whole
  OBVIOUS
<1>2. \A x, y \in Whole : Sum(x, y) \in Whole
  BY DEF Sum, Whole
<1>3. Num(0) \in Whole
  BY DEF Num, Whole
<1>4. step \in [(1..n) \X Whole -> Whole]
  BY <1>1, <1>2
<1>5. \A i \in 1..n, x \in Whole : step[<<i, x>>] = Sum(x, s[i])
  OBVIOUS
<1> HIDE DEF n, step
<1>6. PICK g \in [SUBSET (1..n) -> Whole] : Folds(g, n, Num(0), step)
  BY <1>1, <1>3, <1>4, FoldExists, Zenon
<1>7. g = [S \in SUBSET (1..n) |-> IF S = {} THEN Num(0) ELSE Sum(g[S \ {Max(S)}], s[Max(S)])]
  <2>1. ASSUME NEW S \in SUBSET (1..n), S # {}
        PROVE  g[S] = Sum(g[S \ {Max(S)}], s[Max(S)])
    <3>1. Max(S) \in 1..n
      BY <1>1, <2>1, MaxIsIn
    <3>2. g[S \ {Max(S)}] \in Whole
      OBVIOUS
    <3> QED
      BY <1>5, <1>6, <2>1, <3>1, <3>2 DEF Folds
  <2> QED
    BY <1>6, <2>1 DEF Folds
<1>8. PICK h : /\ h = [S \in SUBSET (1..n) |-> IF S = {} THEN Num(0) ELSE Sum(h[S \ {Max(S)}], s[Max(S)])]
               /\ Total(s) = h[1..n]
  BY <1>1, <1>7 DEF Total, FoldLeft, MapThenFoldSet
<1> DEFINE f == [k \in 0..n |-> h[1..k]]
<1>9. f[0] = Num(0) /\ \A k \in 1..n : f[k] = Sum(f[k - 1], s[k])
  <2>1. h[1..0] = Num(0)
    BY <1>8
  <2>2. ASSUME NEW k \in 1..n
        PROVE  h[1..k] = Sum(h[1..(k - 1)], s[k])
    <3>1. Max(1..k) = k /\ (1..k) \ {k} = 1..(k - 1) /\ 1..k # {}
      BY MaxOfAll
    <3>2. (1..k) \in SUBSET (1..n)
      BY <1>1
    <3> QED
      BY <1>8, <3>1, <3>2
  <2> QED
    BY <1>1, <2>1, <2>2
<1>10. Total(s) = f[n]
  <2>1. n \in 0..n
    BY <1>1
  <2>2. f[n] = h[1..n]
    BY <2>1
  <2> QED
    BY <1>8, <2>2
<1> HIDE DEF f
<1>11. \A k \in 0..n : f[k] \in Whole
  <2> DEFINE Typed == {k \in 0..n : f[k] \in Whole}
  <2>1. 0 \in Typed
    BY <1>1, <1>3, <1>9
  <2>2. ASSUME NEW k \in 0..n, k < n, k \in Typed
        PROVE  k + 1 \in Typed
    <3>1. k + 1 \in 1..n /\ (k + 1) - 1 = k
      BY <1>1, <2>2
    <3>2. f[k + 1] = Sum(f[k], s[k + 1])
      BY <1>9, <3>1
    <3> QED
      BY <1>1, <1>2, <2>2, <3>1, <3>2
  <2> HIDE DEF Typed
  <2>3. \A k \in 0..n : k \in Typed
    BY <1>1, <2>1, <2>2, UpTo
  <2> QED
    BY <2>3 DEF Typed
<1>12. f \in [0..n -> Whole]
  BY <1>11 DEF f
<1> QED
  BY <1>9, <1>10, <1>12 DEF n

\* Samples of some values.
Samples(V) == [label : Labels, value : V]

\* The samples of some labels, taken one by one.
Takes(f, t, labels) ==
  /\ f[0] = <<>>
  /\ \A i \in 1..Len(t) :
       f[i] = IF t[i].label \in labels THEN Append(f[i - 1], t[i].value) ELSE f[i - 1]

\* That is what Values does.
LEMMA ValuesRun ==
  ASSUME NEW V, NEW t \in Seq(Samples(V)), NEW labels
  PROVE  \E f \in [0..Len(t) -> Seq(V)] : Takes(f, t, labels) /\ Values(t, labels) = f[Len(t)]
<1> DEFINE n == Len(t)
           op(chosen, s) == IF s.label \in labels THEN Append(chosen, s.value) ELSE chosen
           step == [p \in (1..n) \X Seq(V) |-> op(p[2], t[p[1]])]
<1>1. n \in Nat /\ DOMAIN t = 1..n /\ \A i \in 1..n : t[i].value \in V
  <2>1. \A i \in 1..n : t[i] \in Samples(V)
    BY ElementOfSeq
  <2> QED
    BY <2>1 DEF Samples
<1>2. \A i \in 1..n, x \in Seq(V) : op(x, t[i]) \in Seq(V)
  BY <1>1
<1>3. <<>> \in Seq(V)
  OBVIOUS
<1>4. step \in [(1..n) \X Seq(V) -> Seq(V)]
  BY <1>2
<1>5. \A i \in 1..n, x \in Seq(V) : step[<<i, x>>] = op(x, t[i])
  OBVIOUS
<1> HIDE DEF n, step, op
<1>6. PICK g \in [SUBSET (1..n) -> Seq(V)] : Folds(g, n, <<>>, step)
  BY <1>1, <1>3, <1>4, FoldExists, Zenon
<1>7. g = [S \in SUBSET (1..n) |-> IF S = {} THEN <<>> ELSE op(g[S \ {Max(S)}], t[Max(S)])]
  <2>1. ASSUME NEW S \in SUBSET (1..n), S # {}
        PROVE  g[S] = op(g[S \ {Max(S)}], t[Max(S)])
    <3>1. Max(S) \in 1..n
      BY <1>1, <2>1, MaxIsIn
    <3>2. g[S \ {Max(S)}] \in Seq(V)
      OBVIOUS
    <3> QED
      BY <1>5, <1>6, <2>1, <3>1, <3>2 DEF Folds
  <2> QED
    BY <1>6, <2>1 DEF Folds
<1>8. PICK h : /\ h = [S \in SUBSET (1..n) |-> IF S = {} THEN <<>> ELSE op(h[S \ {Max(S)}], t[Max(S)])]
               /\ Values(t, labels) = h[1..n]
  BY <1>1, <1>7 DEF Values, FoldLeft, MapThenFoldSet, op
<1> DEFINE f == [k \in 0..n |-> h[1..k]]
<1>9. f[0] = <<>> /\ \A k \in 1..n : f[k] = op(f[k - 1], t[k])
  <2>1. h[1..0] = <<>>
    BY <1>8
  <2>2. ASSUME NEW k \in 1..n
        PROVE  h[1..k] = op(h[1..(k - 1)], t[k])
    <3>1. Max(1..k) = k /\ (1..k) \ {k} = 1..(k - 1) /\ 1..k # {}
      BY MaxOfAll
    <3>2. (1..k) \in SUBSET (1..n)
      BY <1>1
    <3> QED
      BY <1>8, <3>1, <3>2
  <2> QED
    BY <1>1, <2>1, <2>2
<1>10. Values(t, labels) = f[n]
  <2>1. n \in 0..n
    BY <1>1
  <2>2. f[n] = h[1..n]
    BY <2>1
  <2> QED
    BY <1>8, <2>2
<1> HIDE DEF f
<1>11. \A k \in 0..n : f[k] \in Seq(V)
  <2> DEFINE Typed == {k \in 0..n : f[k] \in Seq(V)}
  <2>1. 0 \in Typed
    <3>1. f[0] \in Seq(V)
      BY <1>3, <1>9, Zenon
    <3> QED
      BY <1>1, <3>1
  <2>2. ASSUME NEW k \in 0..n, k < n, k \in Typed
        PROVE  k + 1 \in Typed
    <3>1. k + 1 \in 1..n /\ (k + 1) - 1 = k
      BY <1>1, <2>2
    <3>2. f[k + 1] = op(f[k], t[k + 1])
      BY <1>9, <3>1
    <3> QED
      BY <1>1, <1>2, <2>2, <3>1, <3>2
  <2> HIDE DEF Typed
  <2>3. \A k \in 0..n : k \in Typed
    BY <1>1, <2>1, <2>2, UpTo
  <2> QED
    BY <2>3 DEF Typed
<1>12. f \in [0..n -> Seq(V)]
  BY <1>11 DEF f
<1> QED
  BY <1>9, <1>10, <1>12 DEF n, op, Takes

\* The same of one sample more.
LEMMA ValuesAppend ==
  ASSUME NEW V, NEW t \in Seq(Samples(V)), NEW labels,
         NEW s \in Samples(V)
  PROVE  /\ Values(t, labels) \in Seq(V)
         /\ s.label \in labels => Values(Append(t, s), labels) = Append(Values(t, labels), s.value)
         /\ s.label \notin labels => Values(Append(t, s), labels) = Values(t, labels)
<1> DEFINE n == Len(t)
           u == Append(t, s)
<1>1. /\ n \in Nat
      /\ u \in Seq(Samples(V)) /\ Len(u) = n + 1
      /\ u[n + 1] = s /\ \A i \in 1..n : u[i] = t[i]
  OBVIOUS
<1>2. PICK f \in [0..n -> Seq(V)] : Takes(f, t, labels) /\ Values(t, labels) = f[n]
  BY ValuesRun, Zenon
<1> HIDE DEF u
<1>3. PICK h \in [0..Len(u) -> Seq(V)] : Takes(h, u, labels) /\ Values(u, labels) = h[Len(u)]
  BY <1>1, ValuesRun, Zenon
<1>4. h[n + 1] = IF s.label \in labels THEN Append(h[n], s.value) ELSE h[n]
  <2>1. n + 1 \in 1..Len(u) /\ (n + 1) - 1 = n
    BY <1>1
  <2> QED
    BY <1>1, <1>3, <2>1 DEF Takes
<1>5. \A k \in 0..n : h[k] = f[k]
  <2> DEFINE Equal == {k \in 0..n : h[k] = f[k]}
  <2>1. 0 \in Equal
    BY <1>1, <1>2, <1>3 DEF Takes
  <2>2. ASSUME NEW k \in 0..n, k < n, k \in Equal
        PROVE  k + 1 \in Equal
    <3>1. k + 1 \in 1..n /\ k + 1 \in 1..Len(u) /\ (k + 1) - 1 = k /\ k + 1 \in 0..n
      BY <1>1, <2>2
    <3>2. u[k + 1] = t[k + 1]
      BY <1>1, <3>1
    <3> QED
      BY <1>2, <1>3, <2>2, <3>1, <3>2 DEF Takes
  <2> HIDE DEF Equal
  <2>3. \A k \in 0..n : k \in Equal
    BY <1>1, <2>1, <2>2, UpTo
  <2> QED
    BY <2>3 DEF Equal
<1>6. n \in 0..n
  BY <1>1
<1> QED
  BY <1>1, <1>2, <1>3, <1>4, <1>5, <1>6 DEF u

\* The greatest of some numbers is one of them.
LEMMA GreatestIsIn ==
  ASSUME NEW A, NEW s \in Seq(A), s # <<>>
  PROVE  Greatest(s) \in A
<1> DEFINE n == Len(s)
           op(m, x) == IF Less(m, x) THEN x ELSE m
           step == [p \in (1..n) \X A |-> op(p[2], s[p[1]])]
<1>1. n \in Nat /\ DOMAIN s = 1..n /\ s[1] \in A /\ \A i \in 1..n : s[i] \in A
  OBVIOUS
<1>2. \A i \in 1..n, x \in A : op(x, s[i]) \in A
  BY <1>1
<1>4. step \in [(1..n) \X A -> A]
  BY <1>2
<1>5. \A i \in 1..n, x \in A : step[<<i, x>>] = op(x, s[i])
  OBVIOUS
<1> HIDE DEF n, step, op
<1>6. PICK g \in [SUBSET (1..n) -> A] : Folds(g, n, s[1], step)
  BY <1>1, <1>4, FoldExists, Zenon
<1>7. g = [S \in SUBSET (1..n) |-> IF S = {} THEN s[1] ELSE op(g[S \ {Max(S)}], s[Max(S)])]
  <2>1. ASSUME NEW S \in SUBSET (1..n), S # {}
        PROVE  g[S] = op(g[S \ {Max(S)}], s[Max(S)])
    <3>1. Max(S) \in 1..n
      BY <1>1, <2>1, MaxIsIn
    <3>2. g[S \ {Max(S)}] \in A
      OBVIOUS
    <3> QED
      BY <1>5, <1>6, <2>1, <3>1, <3>2 DEF Folds
  <2> QED
    BY <1>6, <2>1 DEF Folds
<1>8. PICK h : /\ h = [S \in SUBSET (1..n) |-> IF S = {} THEN s[1] ELSE op(h[S \ {Max(S)}], s[Max(S)])]
               /\ Greatest(s) = h[1..n]
  BY <1>1, <1>7 DEF Greatest, FoldLeft, MapThenFoldSet, op
<1>9. h[1..0] = s[1] /\ \A k \in 1..n : h[1..k] = op(h[1..(k - 1)], s[k])
  <2>1. h[1..0] = s[1]
    BY <1>8
  <2>2. ASSUME NEW k \in 1..n
        PROVE  h[1..k] = op(h[1..(k - 1)], s[k])
    <3>1. Max(1..k) = k /\ (1..k) \ {k} = 1..(k - 1) /\ 1..k # {}
      BY MaxOfAll
    <3>2. (1..k) \in SUBSET (1..n)
      BY <1>1
    <3> QED
      BY <1>8, <3>1, <3>2
  <2> QED
    BY <2>1, <2>2
<1> DEFINE Typed == {k \in 0..n : h[1..k] \in A}
<1>10. 0 \in Typed
  BY <1>1, <1>9
<1>11. ASSUME NEW k \in 0..n, k < n, k \in Typed
       PROVE  k + 1 \in Typed
  <2>1. k + 1 \in 1..n /\ (k + 1) - 1 = k
    BY <1>1, <1>11
  <2>2. h[1..(k + 1)] = op(h[1..k], s[k + 1])
    BY <1>9, <2>1
  <2> QED
    BY <1>1, <1>2, <1>11, <2>1, <2>2
<1> HIDE DEF Typed
<1>12. \A k \in 0..n : k \in Typed
  BY <1>1, <1>10, <1>11, UpTo
<1>13. n \in Typed
  BY <1>1, <1>12
<1> QED
  BY <1>8, <1>13 DEF Typed

\* Counts of runs: how long the run is that ends here, and the longest so far,
\* of the numbers up to n that are in T.
RunsOf(f, n, T) ==
  /\ f[0] = <<0, 0>>
  /\ \A i \in 1..n :
       /\ f[i][1] = IF i \in T THEN f[i - 1][1] + 1 ELSE 0
       /\ f[i][2] = IF f[i][1] > f[i - 1][2] THEN f[i][1] ELSE f[i - 1][2]

\* After k numbers: the last r of them are in T and the one before is not; one
\* window of length l is in T, and no longer one.
Ends(k, r, l, T) ==
  /\ r <= k /\ r <= l
  /\ \A j \in 1..k : j > k - r => j \in T
  /\ r < k => (k - r) \notin T

Window(k, l, T) ==
  l > 0 => \E i \in 1..k : i + l - 1 <= k /\ \A j \in 1..k : i <= j /\ j <= i + l - 1 => j \in T

Longest(k, l, T) ==
  \A i \in 1..k, e \in 1..k :
    i <= e /\ (\A j \in 1..k : i <= j /\ j <= e => j \in T) => e - i + 1 <= l

\* So it is with one number more.
LEMMA OneMore ==
  ASSUME NEW k \in Nat, NEW r \in Nat, NEW l \in Nat, NEW r2 \in Nat, NEW l2 \in Nat, NEW T,
         Ends(k, r, l, T), Window(k, l, T), Longest(k, l, T),
         r2 = IF k + 1 \in T THEN r + 1 ELSE 0,
         l2 = IF r2 > l THEN r2 ELSE l
  PROVE  Ends(k + 1, r2, l2, T) /\ Window(k + 1, l2, T) /\ Longest(k + 1, l2, T)
<1>1. Ends(k + 1, r2, l2, T)
  <2>1. CASE k + 1 \in T
    <3>1. r2 = r + 1 /\ (k + 1) - r2 = k - r /\ r2 <= l2
      BY <2>1
    <3>2. ASSUME NEW j \in 1..(k + 1), j > (k + 1) - r2
          PROVE  j \in T
      <4>1. j \in 1..k \/ j = k + 1
        OBVIOUS
      <4> QED
        BY <2>1, <3>1, <3>2, <4>1 DEF Ends
    <3> QED
      BY <3>1, <3>2 DEF Ends
  <2>2. CASE k + 1 \notin T
    <3>1. r2 = 0 /\ (k + 1) - r2 = k + 1
      BY <2>2
    <3> QED
      BY <2>2, <3>1 DEF Ends
  <2> QED
    BY <2>1, <2>2
<1>2. Window(k + 1, l2, T)
  <2>1. CASE r2 > l
    <3>1. l2 = r2 /\ r2 <= k + 1 /\ l2 > 0
      BY <1>1, <2>1 DEF Ends
    <3>2. (k + 1) - r2 + 1 \in 1..(k + 1)
      BY <3>1
    <3>3. PICK i \in 1..(k + 1) : i = (k + 1) - r2 + 1
      BY <3>2
    <3>4. i + l2 - 1 = k + 1
      BY <3>1, <3>3
    <3>5. \A j \in 1..(k + 1) : i <= j => j \in T
      BY <1>1, <3>3 DEF Ends
    <3>6. i + l2 - 1 <= k + 1 /\ \A j \in 1..(k + 1) : i <= j /\ j <= i + l2 - 1 => j \in T
      BY <3>4, <3>5
    <3>7. \E b \in 1..(k + 1) :
             b + l2 - 1 <= k + 1 /\ \A j \in 1..(k + 1) : b <= j /\ j <= b + l2 - 1 => j \in T
      BY <3>6, Zenon
    <3> QED
      BY <3>7, Zenon DEF Window
  <2>2. CASE ~ (r2 > l) /\ l > 0
    <3>1. l2 = l
      BY <2>2
    <3>2. PICK i \in 1..k : i + l - 1 <= k /\ \A j \in 1..k : i <= j /\ j <= i + l - 1 => j \in T
      BY <2>2 DEF Window
    <3>3. i \in 1..(k + 1) /\ i + l - 1 <= k + 1
      BY <3>2
    <3>4. \A j \in 1..(k + 1) : j <= i + l - 1 => j \in 1..k
      BY <3>2
    <3> QED
      BY <3>1, <3>2, <3>3, <3>4 DEF Window
  <2>3. CASE l = 0 /\ ~ (r2 > l)
    BY <2>3 DEF Window
  <2> QED
    BY <2>1, <2>2, <2>3
<1>3. Longest(k + 1, l2, T)
  <2> SUFFICES ASSUME NEW i \in 1..(k + 1), NEW e \in 1..(k + 1), i <= e,
                      \A j \in 1..(k + 1) : i <= j /\ j <= e => j \in T
               PROVE  e - i + 1 <= l2
    BY DEF Longest
  <2>1. CASE e <= k
    <3>1. i \in 1..k /\ e \in 1..k
      BY <2>1
    <3>2. \A j \in 1..k : i <= j /\ j <= e => j \in T
      OBVIOUS
    <3>3. e - i + 1 <= l
      BY <3>1, <3>2 DEF Longest
    <3> QED
      BY <3>3
  <2>2. CASE e = k + 1
    <3>1. r2 <= k + 1 /\ r2 <= l2 /\ (r2 < k + 1 => ((k + 1) - r2) \notin T)
      BY <1>1 DEF Ends
    <3>2. CASE r2 = k + 1
      BY <2>2, <3>1, <3>2
    <3>3. CASE r2 < k + 1
      <4>1. (k + 1) - r2 \in 1..(k + 1) /\ (k + 1) - r2 <= e /\ (k + 1) - r2 \notin T
        BY <2>2, <3>1, <3>3
      <4>2. ~ (i <= (k + 1) - r2)
        BY <4>1
      <4> QED
        BY <2>2, <3>1, <4>1, <4>2
    <3> QED
      BY <3>1, <3>2, <3>3
  <2> QED
    BY <2>1, <2>2
<1> QED
  BY <1>1, <1>2, <1>3

\* The longest run is as long as the longest window that is in T.
LEMMA LongestIsWindow ==
  ASSUME NEW n \in Nat, NEW T, NEW f \in [0..n -> Nat \X Nat], RunsOf(f, n, T),
         NEW m \in Nat \ {0}
  PROVE  f[n][2] >= m <=> \E i \in 1..n : i + m - 1 <= n /\ \A j \in i..(i + m - 1) : j \in T
<1> DEFINE Known(k) == /\ Ends(k, f[k][1], f[k][2], T)
                       /\ Window(k, f[k][2], T)
                       /\ Longest(k, f[k][2], T)
           Good == {k \in 0..n : Known(k)}
<1>1. \A k \in 0..n : f[k][1] \in Nat /\ f[k][2] \in Nat
  OBVIOUS
<1>2. 0 \in Good
  <2>1. f[0][1] = 0 /\ f[0][2] = 0
    BY DEF RunsOf
  <2>2. Ends(0, 0, 0, T) /\ Window(0, 0, T) /\ Longest(0, 0, T)
    BY DEF Ends, Window, Longest
  <2>3. Known(0)
    BY <2>1, <2>2
  <2> QED
    BY <2>3
<1>3. ASSUME NEW k \in 0..n, k < n, k \in Good
      PROVE  k + 1 \in Good
  <2>1. k + 1 \in 1..n /\ (k + 1) - 1 = k /\ k + 1 \in 0..n /\ k \in Nat
    BY <1>3
  <2>2. /\ f[k + 1][1] = IF k + 1 \in T THEN f[k][1] + 1 ELSE 0
        /\ f[k + 1][2] = IF f[k + 1][1] > f[k][2] THEN f[k + 1][1] ELSE f[k][2]
    BY <2>1 DEF RunsOf
  <2>3. f[k][1] \in Nat /\ f[k][2] \in Nat /\ f[k + 1][1] \in Nat /\ f[k + 1][2] \in Nat
    BY <1>1, <2>1
  <2>4. Known(k)
    BY <1>3
  <2>5. Known(k + 1)
    BY <2>1, <2>2, <2>3, <2>4, OneMore
  <2> HIDE DEF Known
  <2> QED
    BY <2>1, <2>5
<1> HIDE DEF Good, Known
<1>4. \A k \in 0..n : k \in Good
  BY <1>2, <1>3, UpTo
<1>5. n \in 0..n
  OBVIOUS
<1>6. Window(n, f[n][2], T) /\ Longest(n, f[n][2], T) /\ f[n][2] \in Nat
  BY <1>1, <1>4, <1>5 DEF Good, Known
<1>7. ASSUME f[n][2] >= m
      PROVE  \E i \in 1..n : i + m - 1 <= n /\ \A j \in i..(i + m - 1) : j \in T
  <2>0. f[n][2] > 0
    BY <1>6, <1>7
  <2>1. PICK i \in 1..n : /\ i + f[n][2] - 1 <= n
                          /\ \A j \in 1..n : i <= j /\ j <= i + f[n][2] - 1 => j \in T
    BY <1>6, <2>0 DEF Window
  <2>2. i + m - 1 <= n
    BY <1>6, <1>7, <2>1
  <2>3. ASSUME NEW j \in i..(i + m - 1)
        PROVE  j \in T
    <3>1. j \in 1..n /\ i <= j /\ j <= i + f[n][2] - 1
      BY <1>6, <1>7, <2>2
    <3> QED
      BY <2>1, <3>1
  <2> QED
    BY <2>2, <2>3
<1>8. ASSUME NEW i \in 1..n, i + m - 1 <= n, \A j \in i..(i + m - 1) : j \in T
      PROVE  f[n][2] >= m
  <2>1. i + m - 1 \in 1..n /\ i <= i + m - 1
    BY <1>8
  <2>2. \A j \in 1..n : i <= j /\ j <= i + m - 1 => j \in T
    BY <1>8
  <2>3. (i + m - 1) - i + 1 <= f[n][2]
    BY <1>6, <2>1, <2>2 DEF Longest
  <2> QED
    BY <1>6, <2>3
<1> QED
  BY <1>7, <1>8

\* A sample that satisfies a rule.
Satisfies(rule, reference, x) == Compare(Comparison(rule, x, reference), rule)

\* The counts of LongestRun, for each number of samples.
CountsOf(f, s, rule, reference) ==
  /\ RunsOf(f, Len(s), {i \in 1..Len(s) : Satisfies(rule, reference, s[i])})
  /\ LongestRun(rule, s, reference) = f[Len(s)][2]

\* LongestRun counts the samples that satisfy the rule.
LEMMA LongestRunRuns ==
  ASSUME NEW V, NEW s \in Seq(V), NEW rule, NEW reference
  PROVE  \E f \in [0..Len(s) -> Nat \X Nat] : CountsOf(f, s, rule, reference)
<1> DEFINE n == Len(s)
           A == Nat \X Nat
           run(counts, x) == IF Satisfies(rule, reference, x) THEN counts[1] + 1 ELSE 0
           op(counts, x) == <<run(counts, x), IF run(counts, x) > counts[2] THEN run(counts, x) ELSE counts[2]>>
           step == [p \in (1..n) \X A |-> op(p[2], s[p[1]])]
<1>1. n \in Nat /\ DOMAIN s = 1..n
  OBVIOUS
<1>2. \A i \in 1..n, x \in A : op(x, s[i]) \in A
  OBVIOUS
<1>3. <<0, 0>> \in A
  OBVIOUS
<1>4. step \in [(1..n) \X A -> A]
  BY <1>2
<1>5. \A i \in 1..n, x \in A : step[<<i, x>>] = op(x, s[i])
  OBVIOUS
<1> HIDE DEF n, step, op, A
<1>6. PICK g \in [SUBSET (1..n) -> A] : Folds(g, n, <<0, 0>>, step)
  BY <1>1, <1>3, <1>4, FoldExists, Zenon
<1>7. g = [S \in SUBSET (1..n) |-> IF S = {} THEN <<0, 0>> ELSE op(g[S \ {Max(S)}], s[Max(S)])]
  <2>1. ASSUME NEW S \in SUBSET (1..n), S # {}
        PROVE  g[S] = op(g[S \ {Max(S)}], s[Max(S)])
    <3>1. Max(S) \in 1..n
      BY <1>1, <2>1, MaxIsIn
    <3>2. g[S \ {Max(S)}] \in A
      OBVIOUS
    <3> QED
      BY <1>5, <1>6, <2>1, <3>1, <3>2 DEF Folds
  <2> QED
    BY <1>6, <2>1 DEF Folds
<1>8. PICK h : /\ h = [S \in SUBSET (1..n) |-> IF S = {} THEN <<0, 0>> ELSE op(h[S \ {Max(S)}], s[Max(S)])]
               /\ LongestRun(rule, s, reference) = h[1..n][2]
  BY <1>1, <1>7 DEF LongestRun, FoldLeft, MapThenFoldSet, op, Satisfies
<1> DEFINE f == [k \in 0..n |-> h[1..k]]
<1>9. f[0] = <<0, 0>> /\ \A k \in 1..n : f[k] = op(f[k - 1], s[k])
  <2>1. h[1..0] = <<0, 0>>
    BY <1>8
  <2>2. ASSUME NEW k \in 1..n
        PROVE  h[1..k] = op(h[1..(k - 1)], s[k])
    <3>1. Max(1..k) = k /\ (1..k) \ {k} = 1..(k - 1) /\ 1..k # {}
      BY MaxOfAll
    <3>2. (1..k) \in SUBSET (1..n)
      BY <1>1
    <3> QED
      BY <1>8, <3>1, <3>2
  <2> QED
    BY <1>1, <2>1, <2>2
<1>10. LongestRun(rule, s, reference) = f[n][2]
  <2>1. n \in 0..n
    BY <1>1
  <2>2. f[n] = h[1..n]
    BY <2>1
  <2> QED
    BY <1>8, <2>2
<1> HIDE DEF f
<1>11. \A k \in 0..n : f[k] \in A
  <2> DEFINE Typed == {k \in 0..n : f[k] \in A}
  <2>1. 0 \in Typed
    <3>1. f[0] \in A
      BY <1>3, <1>9, Zenon
    <3> QED
      BY <1>1, <3>1
  <2>2. ASSUME NEW k \in 0..n, k < n, k \in Typed
        PROVE  k + 1 \in Typed
    <3>1. k + 1 \in 1..n /\ (k + 1) - 1 = k
      BY <1>1, <2>2
    <3>2. f[k + 1] = op(f[k], s[k + 1])
      BY <1>9, <3>1
    <3> QED
      BY <1>1, <1>2, <2>2, <3>1, <3>2
  <2> HIDE DEF Typed
  <2>3. \A k \in 0..n : k \in Typed
    BY <1>1, <2>1, <2>2, UpTo
  <2> QED
    BY <2>3 DEF Typed
<1>12. f \in [0..n -> A]
  BY <1>11 DEF f
<1>13. RunsOf(f, n, {i \in 1..n : Satisfies(rule, reference, s[i])})
  BY <1>1, <1>9 DEF RunsOf, op
<1> QED
  BY <1>10, <1>12, <1>13 DEF n, A, CountsOf
-----------------------------------------------------------------------------
\* The invariant.

\* What a sample may be: of a counter a number, of a gauge also NaN.
Readings == IF cumulative THEN Nat \X {1} ELSE (Nat \X {1}) \cup {NaN}

EvidenceTypeOK ==
  /\ cumulative \in BOOLEAN
  /\ level \in Nat
  /\ at \in Places
  /\ timeline \in Seq(Samples(Readings))
  /\ grown \subseteq Moments

BaselineValues == Values(timeline, {"baseline"})
WindowValues   == Values(timeline, {"injection", "observing"})
ActiveValues   == Values(timeline, Active)

\* No sample of the injection is taken before it.
NotYetActive == at \in {"baseline", "captured"} => WindowValues = <<>> /\ ActiveValues = <<>>

\* What "sampled" says: without it the counter is still worth the last sample of
\* the baseline, up to the recovery, and so are the samples between.
SinceTheLast ==
  cumulative /\ "sampled" \notin grown /\ BaselineValues # <<>> =>
    /\ at \notin {"recovery", "stopped"} => Last(BaselineValues) = Num(level)
    /\ WindowValues # <<>> => Last(WindowValues) = Last(BaselineValues)

\* What "begun" says: without it the counter is still worth the first sample.
SinceTheFirst ==
  cumulative /\ "begun" \notin grown /\ BaselineValues # <<>> =>
    /\ BaselineValues[1] = Num(level)
    /\ ActiveValues # <<>> => Last(ActiveValues) = BaselineValues[1]

\* What "captured" says: without it the second snapshot is the first one, where
\* both have the number.
SinceTheSnapshot ==
  /\ at \in {"baseline", "captured", "injection", "observing"} => post.value = Absent
  /\ cumulative /\ "captured" \notin grown =>
       /\ at \in {"captured", "injection", "observing", "acted"} =>
            pre.value \in {Num(level), Absent}
       /\ pre.value # Absent /\ post.value # Absent =>
            pre.value = post.value /\ pre.value \in Nat \X {1}

EvidenceInv ==
  EvidenceTypeOK /\ NotYetActive /\ SinceTheLast /\ SinceTheFirst /\ SinceTheSnapshot

\* What a step that takes no sample leaves alone.
Kept == BaselineValues' = BaselineValues /\ WindowValues' = WindowValues /\ ActiveValues' = ActiveValues

\* Without a new sample the values stay.
LEMMA SamplesKept ==
  ASSUME UNCHANGED timeline
  PROVE  Kept
BY DEF Kept, BaselineValues, WindowValues, ActiveValues

\* The values are sequences of readings.
LEMMA ValuesAreReadings ==
  ASSUME EvidenceTypeOK, NEW labels
  PROVE  Values(timeline, labels) \in Seq(Readings)
<1>1. PICK f \in [0..Len(timeline) -> Seq(Readings)] :
        Takes(f, timeline, labels) /\ Values(timeline, labels) = f[Len(timeline)]
  BY ValuesRun DEF EvidenceTypeOK
<1>2. Len(timeline) \in 0..Len(timeline)
  BY DEF EvidenceTypeOK
<1> QED
  BY <1>1, <1>2

\* So are those that the invariant names.
LEMMA ValuesTyped ==
  ASSUME EvidenceTypeOK
  PROVE  /\ BaselineValues \in Seq(Readings)
         /\ WindowValues \in Seq(Readings)
         /\ ActiveValues \in Seq(Readings)
BY ValuesAreReadings DEF BaselineValues, WindowValues, ActiveValues

\* Sample adds one sample, of the label, to the values of the labels it is in.
LEMMA SampleAdds ==
  ASSUME EvidenceTypeOK, Sample
  PROVE  \E x \in Readings :
           /\ timeline' = Append(timeline, [label |-> Label, value |-> x])
           /\ cumulative => x = Num(level)
           /\ Label \in Labels
           /\ BaselineValues' = IF Label = "baseline" THEN Append(BaselineValues, x) ELSE BaselineValues
           /\ WindowValues' = IF Label \in {"injection", "observing"} THEN Append(WindowValues, x)
                              ELSE WindowValues
           /\ ActiveValues' = IF Label \in Active THEN Append(ActiveValues, x) ELSE ActiveValues
<1>1. PICK x \in IF cumulative THEN {Num(level)} ELSE Numbers :
        timeline' = Append(timeline, [label |-> Label, value |-> x])
  BY DEF Sample
<1>2. x \in Readings /\ (cumulative => x = Num(level))
  BY EvidenceAssumption DEF EvidenceTypeOK, Readings, Numbers, Num
<1>3. Label \in Labels
  BY DEF Label, Labels, Sample, EvidenceTypeOK, Places
<1> DEFINE s == [label |-> Label, value |-> x]
<1>4. s \in Samples(Readings) /\ s.label = Label /\ s.value = x
  BY <1>2, <1>3 DEF Samples
<1>5. timeline' = Append(timeline, s)
  BY <1>1
<1> HIDE DEF s
<1>6. ASSUME NEW labels
      PROVE  Values(timeline', labels) = IF Label \in labels THEN Append(Values(timeline, labels), x)
                                         ELSE Values(timeline, labels)
  <2>1. timeline \in Seq(Samples(Readings))
    BY DEF EvidenceTypeOK
  <2>2. /\ s.label \in labels => Values(Append(timeline, s), labels) = Append(Values(timeline, labels), s.value)
        /\ s.label \notin labels => Values(Append(timeline, s), labels) = Values(timeline, labels)
    <3>1. s \in Samples(Readings)
      BY <1>4
    <3> QED
      BY <2>1, <3>1, ValuesAppend
  <2> QED
    BY <1>4, <1>5, <2>2
<1>7. /\ BaselineValues' = Values(timeline', {"baseline"})
      /\ WindowValues' = Values(timeline', {"injection", "observing"})
      /\ ActiveValues' = Values(timeline', Active)
  BY DEF BaselineValues, WindowValues, ActiveValues, Active
<1>8. BaselineValues' = IF Label = "baseline" THEN Append(BaselineValues, x) ELSE BaselineValues
  BY <1>6, <1>7 DEF BaselineValues
<1>9. WindowValues' = IF Label \in {"injection", "observing"} THEN Append(WindowValues, x)
                      ELSE WindowValues
  BY <1>6, <1>7 DEF WindowValues
<1>10. ActiveValues' = IF Label \in Active THEN Append(ActiveValues, x) ELSE ActiveValues
  BY <1>6, <1>7 DEF ActiveValues
<1> QED
  BY <1>1, <1>2, <1>3, <1>8, <1>9, <1>10

\* The last of a sequence that has one element more.
LEMMA LastOfAppend ==
  ASSUME NEW S, NEW s \in Seq(S), NEW x \in S
  PROVE  /\ Append(s, x) # <<>>
         /\ Last(Append(s, x)) = x
         /\ s # <<>> => Append(s, x)[1] = s[1]
         /\ s = <<>> => Append(s, x)[1] = x
<1>1. Last(Append(s, x)) = Append(s, x)[Len(Append(s, x))]
  BY DEF Last
<1>2. Len(Append(s, x)) = Len(s) + 1 /\ Append(s, x)[Len(s) + 1] = x /\ Len(s) \in Nat
  OBVIOUS
<1>3. s # <<>> => Len(s) > 0
  OBVIOUS
<1>4. s = <<>> => Len(s) = 0
  OBVIOUS
<1> QED
  BY <1>1, <1>2, <1>3, <1>4

\* The types hold at the start.
LEMMA TypesHoldAtFirst ==
  ASSUME Init
  PROVE  EvidenceTypeOK
BY EvidenceAssumption DEF Init, EvidenceTypeOK, Places, Labels, Moments

\* Each step keeps the types.
LEMMA TypesAreKept ==
  ASSUME EvidenceTypeOK, [Next]_vars
  PROVE  EvidenceTypeOK'
<1> USE DEF EvidenceTypeOK
<1>1. CASE Grow
  <2>1. level' \in Nat
    BY <1>1, EvidenceAssumption DEF Grow
  <2>2. grown' \subseteq Moments
    BY <1>1 DEF Grow, Passed
  <2> QED
    BY <1>1, <2>1, <2>2 DEF Grow, Readings
<1>2. CASE Sample
  <2>1. PICK x \in Readings : /\ timeline' = Append(timeline, [label |-> Label, value |-> x])
                              /\ Label \in Labels
    BY <1>2, SampleAdds
  <2>2. Readings' = Readings
    BY <1>2 DEF Sample, Readings
  <2>3. timeline' \in Seq(Samples(Readings))
    BY <2>1 DEF Samples
  <2>4. timeline' \in Seq(Samples(Readings'))
    BY <2>2, <2>3
  <2> QED
    BY <1>2, <2>4 DEF Sample
<1>3. CASE Capture
  BY <1>3 DEF Capture, Readings, Places
<1>4. CASE Mark
  BY <1>4 DEF Mark, Readings, Places, Labels
<1>5. CASE Observe
  BY <1>5 DEF Observe, Readings, Places, Labels
<1>6. CASE CaptureAgain
  BY <1>6 DEF CaptureAgain, Readings, Places
<1>7. CASE Recover
  BY <1>7 DEF Recover, Readings, Places, Labels
<1>8. CASE Stop
  BY <1>8 DEF Stop, Readings, Places
<1>9. CASE UNCHANGED vars
  BY <1>9 DEF vars, Readings
<1> QED
  BY <1>1, <1>2, <1>3, <1>4, <1>5, <1>6, <1>7, <1>8, <1>9 DEF Next

\* The steps that take no sample and leave the counter alone.
Moves == Capture \/ Mark \/ Observe \/ CaptureAgain \/ Recover \/ Stop

\* They keep the values, and come to the active phases in one direction.
LEMMA MovesKeep ==
  ASSUME EvidenceTypeOK, Moves
  PROVE  /\ Kept
         /\ UNCHANGED <<cumulative, level, timeline, grown>>
         /\ at' \in {"baseline", "captured"} => at \in {"baseline", "captured"}
         /\ at \in {"recovery", "stopped"} => at' \in {"recovery", "stopped"}
BY SamplesKept DEF Moves, Capture, Mark, Observe, CaptureAgain, Recover, Stop

\* Each step keeps NotYetActive.
LEMMA NotYetActiveKept ==
  ASSUME EvidenceTypeOK, NotYetActive, [Next]_vars
  PROVE  NotYetActive'
<1>1. CASE Grow
  <2>1. Kept /\ at' = at
    BY <1>1, SamplesKept DEF Grow
  <2> QED
    BY <2>1 DEF NotYetActive, Kept
<1>2. CASE Sample
  <2>1. /\ Label \notin {"injection", "observing"} => WindowValues' = WindowValues
        /\ Label \notin Active => ActiveValues' = ActiveValues
    BY <1>2, SampleAdds
  <2>2. at' = at
    BY <1>2 DEF Sample
  <2>3. at \in {"baseline", "captured"} => Label = "baseline"
    BY DEF Label
  <2> QED
    BY <2>1, <2>2, <2>3 DEF NotYetActive, Active
<1>3. CASE Moves
  BY <1>3, MovesKeep DEF NotYetActive, Kept
<1>4. CASE UNCHANGED vars
  BY <1>4, SamplesKept DEF NotYetActive, Kept, vars
<1> QED
  BY <1>1, <1>2, <1>3, <1>4 DEF Next, Moves

\* Each step keeps SinceTheLast: the counter that grows before the recovery
\* notes "sampled", and a new last sample of the baseline strikes it out.
LEMMA SinceTheLastKept ==
  ASSUME EvidenceTypeOK, NotYetActive, SinceTheLast, [Next]_vars
  PROVE  SinceTheLast'
<1>1. CASE Grow
  <2>1. Kept /\ at' = at /\ cumulative' = cumulative
    BY <1>1, SamplesKept DEF Grow
  <2>2. "sampled" \in grown' \/ (at = "recovery" /\ "sampled" \notin grown)
    BY <1>1 DEF Grow, Passed, Moments
  <2>3. CASE "sampled" \in grown'
    BY <2>3 DEF SinceTheLast
  <2>4. CASE at = "recovery" /\ "sampled" \notin grown
    BY <2>1, <2>4 DEF SinceTheLast, Kept
  <2> QED
    BY <2>2, <2>3, <2>4
<1>2. CASE Sample
  <2>1. PICK x \in Readings :
          /\ cumulative => x = Num(level)
          /\ BaselineValues' = IF Label = "baseline" THEN Append(BaselineValues, x) ELSE BaselineValues
          /\ WindowValues' = IF Label \in {"injection", "observing"} THEN Append(WindowValues, x)
                             ELSE WindowValues
    BY <1>2, SampleAdds
  <2>2. /\ UNCHANGED <<cumulative, level, at>> /\ at # "stopped"
        /\ grown' = IF Label = "baseline" THEN grown \ {"sampled"} ELSE grown
    BY <1>2 DEF Sample
  <2>3. /\ Append(BaselineValues, x) # <<>> /\ Last(Append(BaselineValues, x)) = x
        /\ Append(WindowValues, x) # <<>> /\ Last(Append(WindowValues, x)) = x
    BY LastOfAppend, ValuesTyped
  <2>4. CASE Label = "baseline"
    <3>1. at \in {"baseline", "captured"}
      BY <2>2, <2>4 DEF Label, EvidenceTypeOK, Places, Labels
    <3>2. WindowValues' = <<>>
      BY <2>1, <2>4, <3>1 DEF NotYetActive
    <3> QED
      BY <2>1, <2>2, <2>3, <2>4, <3>2 DEF SinceTheLast
  <2>5. CASE Label \in {"injection", "observing"}
    <3>1. at \notin {"recovery", "stopped"}
      BY <2>2, <2>5 DEF Label
    <3> QED
      BY <2>1, <2>2, <2>3, <2>5, <3>1 DEF SinceTheLast
  <2>6. CASE Label \notin {"baseline", "injection", "observing"}
    BY <2>1, <2>2, <2>6 DEF SinceTheLast
  <2> QED
    BY <2>4, <2>5, <2>6
<1>3. CASE Moves
  BY <1>3, MovesKeep DEF SinceTheLast, Kept
<1>4. CASE UNCHANGED vars
  BY <1>4, SamplesKept DEF SinceTheLast, Kept, vars
<1> QED
  BY <1>1, <1>2, <1>3, <1>4 DEF Next, Moves

\* Each step keeps SinceTheFirst: from the first sample on the counter that
\* grows notes "begun".
LEMMA SinceTheFirstKept ==
  ASSUME EvidenceTypeOK, NotYetActive, SinceTheFirst, [Next]_vars
  PROVE  SinceTheFirst'
<1>1. CASE Grow
  <2>1. Kept
    BY <1>1, SamplesKept DEF Grow
  <2>2. BaselineValues # <<>> => "begun" \in grown'
    BY <1>1 DEF Grow, Passed, Moments, BaselineValues
  <2> QED
    BY <2>1, <2>2 DEF SinceTheFirst, Kept
<1>2. CASE Sample
  <2>1. PICK x \in Readings :
          /\ cumulative => x = Num(level)
          /\ BaselineValues' = IF Label = "baseline" THEN Append(BaselineValues, x) ELSE BaselineValues
          /\ ActiveValues' = IF Label \in Active THEN Append(ActiveValues, x) ELSE ActiveValues
    BY <1>2, SampleAdds
  <2>2. UNCHANGED <<cumulative, level, at>> /\ at # "stopped" /\ ("begun" \notin grown' => "begun" \notin grown)
    BY <1>2 DEF Sample
  <2>3. /\ Append(BaselineValues, x) # <<>>
        /\ BaselineValues # <<>> => Append(BaselineValues, x)[1] = BaselineValues[1]
        /\ BaselineValues = <<>> => Append(BaselineValues, x)[1] = x
        /\ Append(ActiveValues, x) # <<>> /\ Last(Append(ActiveValues, x)) = x
    BY LastOfAppend, ValuesTyped
  <2>4. CASE Label = "baseline"
    <3>1. at \in {"baseline", "captured"}
      BY <2>2, <2>4 DEF Label, EvidenceTypeOK, Places, Labels
    <3>2. ActiveValues' = <<>>
      BY <2>1, <2>4, <3>1 DEF NotYetActive, Active
    <3> QED
      BY <2>1, <2>2, <2>3, <2>4, <3>2 DEF SinceTheFirst
  <2>5. CASE Label # "baseline"
    BY <2>1, <2>2, <2>3, <2>5 DEF SinceTheFirst
  <2> QED
    BY <2>4, <2>5
<1>3. CASE Moves
  BY <1>3, MovesKeep DEF SinceTheFirst, Kept
<1>4. CASE UNCHANGED vars
  BY <1>4, SamplesKept DEF SinceTheFirst, Kept, vars
<1> QED
  BY <1>1, <1>2, <1>3, <1>4 DEF Next, Moves

\* Each step keeps SinceTheSnapshot: after the first snapshot the counter that
\* grows before the recovery notes "captured".
LEMMA SinceTheSnapshotKept ==
  ASSUME EvidenceTypeOK, SinceTheSnapshot, [Next]_vars
  PROVE  SinceTheSnapshot'
<1> USE DEF SinceTheSnapshot
<1>1. CASE Grow
  <2>1. UNCHANGED <<cumulative, at, pre, post>>
    BY <1>1 DEF Grow
  <2>2. "captured" \in grown' \/ (at \in {"baseline", "recovery"} /\ "captured" \notin grown)
    BY <1>1 DEF Grow, Passed, Moments
  <2> QED
    BY <2>1, <2>2
<1>2. CASE Sample
  <2>1. UNCHANGED <<cumulative, level, at, pre, post>> /\ ("captured" \notin grown' => "captured" \notin grown)
    BY <1>2 DEF Sample
  <2> QED
    BY <2>1
<1>3. CASE Capture
  <2>1. UNCHANGED <<cumulative, level, grown>> /\ post' = post /\ post.value = Absent /\ at' = "captured"
    BY <1>3 DEF Capture
  <2>2. cumulative => pre'.value \in {Num(level), Absent}
    BY <1>3 DEF Capture, Snapshots
  <2> QED
    BY <2>1, <2>2 DEF Num, Absent
<1>4. CASE CaptureAgain
  <2>1. UNCHANGED <<cumulative, level, pre, grown>> /\ at = "observing" /\ at' = "acted"
    BY <1>4 DEF CaptureAgain
  <2>2. cumulative => post'.value \in {Num(level), Absent}
    BY <1>4 DEF CaptureAgain, Snapshots
  <2>3. Num(level) \in Nat \X {1}
    BY DEF EvidenceTypeOK, Num
  <2>4. Num(level)' = Num(level) /\ Absent' = Absent
    BY <2>1 DEF Num, Absent
  <2> QED
    BY <2>1, <2>2, <2>3, <2>4
<1>5. CASE Mark \/ Observe \/ Recover \/ Stop
  BY <1>5 DEF Mark, Observe, Recover, Stop, Num, Absent
<1>6. CASE UNCHANGED vars
  BY <1>6 DEF vars, Num, Absent
<1> QED
  BY <1>1, <1>2, <1>3, <1>4, <1>5, <1>6 DEF Next

\* The invariant holds at the start.
LEMMA EvidenceInitHolds ==
  ASSUME Init
  PROVE  EvidenceInv
<1>1. EvidenceTypeOK
  BY TypesHoldAtFirst
<1>2. ASSUME NEW labels
      PROVE  Values(timeline, labels) = <<>>
  <2>1. timeline = <<>> /\ timeline \in Seq(Samples(Readings))
    BY <1>1 DEF Init, EvidenceTypeOK
  <2>2. PICK f \in [0..Len(timeline) -> Seq(Readings)] :
          Takes(f, timeline, labels) /\ Values(timeline, labels) = f[Len(timeline)]
    BY <2>1, ValuesRun
  <2>3. Len(timeline) = 0
    BY <2>1
  <2> QED
    BY <2>2, <2>3 DEF Takes
<1>3. BaselineValues = <<>> /\ WindowValues = <<>> /\ ActiveValues = <<>>
  BY <1>2 DEF BaselineValues, WindowValues, ActiveValues
<1>4. SinceTheSnapshot
  BY DEF Init, SinceTheSnapshot, NotTaken
<1> QED
  BY <1>1, <1>3, <1>4 DEF EvidenceInv, NotYetActive, SinceTheLast, SinceTheFirst

\* The invariant of every run.
LEMMA EvidenceInductive == Spec => []EvidenceInv
<1>1. Init => EvidenceInv
  BY EvidenceInitHolds
<1>2. EvidenceInv /\ [Next]_vars => EvidenceInv'
  BY TypesAreKept, NotYetActiveKept, SinceTheLastKept, SinceTheFirstKept, SinceTheSnapshotKept
  DEF EvidenceInv
<1> QED
  BY <1>1, <1>2, PTL DEF Spec

-----------------------------------------------------------------------------
\* What the invariant says of the verdicts.

\* Equal numbers do not differ, and 0 is not above 0.
LEMMA NoDifference ==
  ASSUME NEW x \in Nat \X {1}
  PROVE  Minus(x, x) = Num(0) /\ ~ Less(Num(0), Num(0)) /\ Finite(x) /\ x # Absent
<1>1. PICK n \in Nat : x = <<n, 1>>
  OBVIOUS
<1>2. n * 1 - n * 1 = 0
  BY <1>1
<1> QED
  BY <1>1, <1>2 DEF Minus, Num, Less, Finite, Absent

\* The greatest of two zeros is zero.
LEMMA GreatestOfZeros == Greatest(<<Num(0), Num(0)>>) = Num(0)
<1>1. <<Num(0), Num(0)>> \in Seq({Num(0)}) /\ <<Num(0), Num(0)>> # <<>>
  OBVIOUS
<1>2. Greatest(<<Num(0), Num(0)>>) \in {Num(0)}
  BY <1>1, GreatestIsIn, Zenon
<1> QED
  BY <1>2

\* A spill is found, or slow queries, only of a counter that grew since.
LEMMA NoGrowthNoHit ==
  ASSUME EvidenceInv
  PROVE  GrowthIsTheRuns
<1> SUFFICES ASSUME cumulative, at = "stopped"
             PROVE  /\ "sampled" \notin grown => ~ NodeHit("sort_hash_spill")
                    /\ "begun" \notin grown => ~ NodeHit("slow_query")
  BY DEF GrowthIsTheRuns
<1>1. /\ BaselineValues \in Seq(Nat \X {1})
      /\ WindowValues \in Seq(Nat \X {1})
      /\ ActiveValues \in Seq(Nat \X {1})
  BY ValuesTyped DEF EvidenceInv, Readings
<1>2. ~ Less(Num(0), Num(0))
  <2>1. Num(0) \in Nat \X {1}
    BY DEF Num
  <2> QED
    BY <2>1, NoDifference
<1>3. ASSUME "sampled" \notin grown
      PROVE  ~ NodeHit("sort_hash_spill")
  <2>1. NodeHit("sort_hash_spill") = Less(Num(0), WindowDelta)
    BY DEF NodeHit, NodeNumber
  <2>2. WindowDelta = IF WindowValues = <<>> \/ BaselineValues = <<>> THEN Num(0)
                      ELSE Greatest(<<Num(0), Minus(Last(WindowValues), Last(BaselineValues))>>)
    BY DEF WindowDelta, WindowValues, BaselineValues
  <2>3. CASE WindowValues = <<>> \/ BaselineValues = <<>>
    BY <1>2, <2>1, <2>2, <2>3
  <2>4. CASE WindowValues # <<>> /\ BaselineValues # <<>>
    <3>1. Last(WindowValues) = Last(BaselineValues)
      BY <1>3, <2>4 DEF EvidenceInv, SinceTheLast
    <3>2. Last(BaselineValues) \in Nat \X {1}
      BY <1>1, <2>4 DEF Last
    <3>3. Minus(Last(WindowValues), Last(BaselineValues)) = Num(0)
      BY <3>1, <3>2, NoDifference
    <3>4. WindowDelta = Num(0)
      BY <2>2, <2>4, <3>3, GreatestOfZeros
    <3> QED
      BY <1>2, <2>1, <3>4
  <2> QED
    BY <2>3, <2>4
<1>4. ASSUME "begun" \notin grown
      PROVE  ~ NodeHit("slow_query")
  <2>1. NodeHit("slow_query") = Less(Num(0), Delta)
    BY DEF NodeHit, NodeNumber
  <2>2. Delta = IF ActiveValues = <<>> \/ BaselineValues = <<>> THEN Num(0)
                ELSE Minus(Last(ActiveValues), BaselineValues[1])
    BY DEF Delta, ActiveValues, BaselineValues
  <2>3. CASE ActiveValues = <<>> \/ BaselineValues = <<>>
    BY <1>2, <2>1, <2>2, <2>3
  <2>4. CASE ActiveValues # <<>> /\ BaselineValues # <<>>
    <3>1. Last(ActiveValues) = BaselineValues[1]
      BY <1>4, <2>4 DEF EvidenceInv, SinceTheFirst
    <3>2. BaselineValues[1] \in Nat \X {1}
      BY <1>1, <2>4
    <3>3. Delta = Num(0)
      BY <2>2, <2>4, <3>1, <3>2, NoDifference
    <3> QED
      BY <1>2, <2>1, <3>3
  <2> QED
    BY <2>3, <2>4
<1> QED
  BY <1>3, <1>4

\* A hit by the snapshots is one of a counter that grew since the first.
LEMMA NoGrowthNoSnapshotHit ==
  ASSUME EvidenceInv
  PROVE  FlatIsDegraded
<1> SUFFICES ASSUME cumulative, at = "stopped", "captured" \notin grown,
                    NEW pair \in Oracles, pair[1].source = "snapshot",
                    Judge(pair[1], pair[2]).evidence = "hit",
                    ~ Judge(pair[1], pair[2]).degraded
             PROVE  FALSE
  BY DEF FlatIsDegraded
<1>1. BothCaptured
  BY DEF Judge
<1>2. EvaluateSnapshot(pair[1]) = "hit"
  BY <1>1 DEF Judge
<1>3. /\ pre.value # Absent /\ post.value # Absent
      /\ Compare(Minus(post.value, pre.value), pair[1])
  BY <1>2 DEF EvaluateSnapshot
<1>4. post.value = pre.value /\ pre.value \in Nat \X {1}
  BY <1>3 DEF EvidenceInv, SinceTheSnapshot
<1>5. Compare(Num(0), pair[1])
  BY <1>3, <1>4, NoDifference
<1> QED
  BY <1>5, RulesAssumption

\* A mean of numbers that are not below 0 is above 0, or it is 0.
LEMMA MeanIsZeroOrAbove ==
  ASSUME NEW s \in Seq(Whole), s # <<>>
  PROVE  Mean(s)[1] # 0 <=> Less(Num(0), Mean(s))
<1>1. Total(s) \in Whole
  <2>1. Len(s) \in 0..Len(s)
    OBVIOUS
  <2> QED
    BY <2>1, TotalRuns
<1>2. PICK a \in Nat, b \in Nat \ {0} : Total(s) = <<a, b>>
  BY <1>1 DEF Whole
<1>3. PICK n \in Nat \ {0} : Len(s) = n
  OBVIOUS
<1>4. Mean(s) = <<a * 1, b * n>>
  BY <1>2, <1>3 DEF Mean, Over, Num
<1>5. b * n # 0 /\ a * 1 = a /\ 0 * (b * n) = 0 /\ b * n \in Nat
  OBVIOUS
<1> QED
  BY <1>4, <1>5 DEF Less, Finite, Num

\* A rule on the samples is a hit as its words say.
LEMMA HitIsAsSaid ==
  ASSUME EvidenceTypeOK
  PROVE  HitMatchesWindow
<1> SUFFICES ASSUME NEW pair \in Oracles
             PROVE  LET rule      == pair[1]
                        current   == Values(timeline, {"observing"})
                        baseline  == Values(timeline, {"baseline"})
                        reference == Reference(rule, current, baseline)
                    IN Evaluate(rule, timeline) = "hit" <=>
                         /\ current # <<>>
                         /\ \A x \in ToSet(current) \cup ToSet(baseline) : Finite(x)
                         /\ rule.reference = "baseline" => baseline # <<>> /\ Less(Num(0), reference)
                         /\ Satisfies(rule, reference, Aggregate(current, rule.aggregation))
                         /\ \E i \in DOMAIN current :
                              /\ i + rule.consecutive - 1 <= Len(current)
                              /\ \A j \in i..(i + rule.consecutive - 1) :
                                   Satisfies(rule, reference, current[j])
  BY Zenon DEF HitMatchesWindow, Satisfies
<1> DEFINE rule      == pair[1]
           current   == Values(timeline, {"observing"})
           baseline  == Values(timeline, {"baseline"})
           reference == Reference(rule, current, baseline)
           m         == rule.consecutive
           AllFinite == \A x \in ToSet(current) \cup ToSet(baseline) : Finite(x)
           Run       == \E i \in DOMAIN current :
                          /\ i + m - 1 <= Len(current)
                          /\ \A j \in i..(i + m - 1) : Satisfies(rule, reference, current[j])
<1>1. current \in Seq(Readings) /\ baseline \in Seq(Readings)
  BY ValuesAreReadings
<1>2. m \in Nat \ {0}
  BY RulesAssumption
<1>3. Evaluate(rule, timeline) = "hit" <=>
        /\ current # <<>>
        /\ \A i \in DOMAIN current : Finite(current[i])
        /\ \A i \in DOMAIN baseline : Finite(baseline[i])
        /\ ~ (rule.reference = "baseline" /\ (baseline = <<>> \/ reference[1] = 0))
        /\ Satisfies(rule, reference, Aggregate(current, rule.aggregation))
        /\ LongestRun(rule, current, reference) >= m
  BY DEF Evaluate, Satisfies
<1> HIDE DEF rule, current, baseline, reference, m
<1>4. AllFinite <=> /\ \A i \in DOMAIN current : Finite(current[i])
                    /\ \A i \in DOMAIN baseline : Finite(baseline[i])
  BY DEF ToSet
<1>5. ASSUME AllFinite, rule.reference = "baseline", baseline # <<>>
      PROVE  reference[1] # 0 <=> Less(Num(0), reference)
  <2>1. \A i \in DOMAIN baseline : baseline[i] \in Whole
    <3> TAKE i \in DOMAIN baseline
    <3>1. baseline[i] \in Readings /\ Finite(baseline[i])
      BY <1>1, <1>4, <1>5
    <3> QED
      BY <3>1 DEF Readings, Finite, NaN, Whole
  <2>2. baseline \in Seq(Whole)
    BY <1>1, <2>1
  <2>3. reference = Mean(baseline)
    BY <1>5 DEF reference, Reference
  <2> QED
    BY <1>5, <2>2, <2>3, MeanIsZeroOrAbove
<1>6. LongestRun(rule, current, reference) >= m <=> Run
  <2> DEFINE n == Len(current)
             T == {i \in 1..n : Satisfies(rule, reference, current[i])}
  <2>1. n \in Nat /\ DOMAIN current = 1..n
    BY <1>1 DEF n
  <2> HIDE DEF T, n
  <2>2. PICK f \in [0..Len(current) -> Nat \X Nat] : CountsOf(f, current, rule, reference)
    BY <1>1, LongestRunRuns
  <2>3. f \in [0..n -> Nat \X Nat] /\ RunsOf(f, n, T) /\ LongestRun(rule, current, reference) = f[n][2]
    BY <2>2 DEF CountsOf, n, T
  <2>4. f[n][2] >= m <=> \E i \in 1..n : i + m - 1 <= n /\ \A j \in i..(i + m - 1) : j \in T
    BY <1>2, <2>1, <2>3, LongestIsWindow
  <2>5. ASSUME NEW i \in 1..n, i + m - 1 <= n, NEW j \in i..(i + m - 1)
        PROVE  j \in T <=> Satisfies(rule, reference, current[j])
    <3>1. j \in 1..n
      BY <1>2, <2>1, <2>5
    <3> QED
      BY <3>1 DEF T
  <2>6. Run <=> \E i \in 1..n : i + m - 1 <= n /\ \A j \in i..(i + m - 1) : j \in T
    BY <2>1, <2>5 DEF n
  <2> QED
    BY <2>3, <2>4, <2>6
<1> HIDE DEF AllFinite, Run
<1>7. Evaluate(rule, timeline) = "hit" <=>
        /\ current # <<>>
        /\ AllFinite
        /\ rule.reference = "baseline" => baseline # <<>> /\ Less(Num(0), reference)
        /\ Satisfies(rule, reference, Aggregate(current, rule.aggregation))
        /\ Run
  BY <1>3, <1>4, <1>5, <1>6
<1> QED
  BY <1>7 DEF rule, current, baseline, reference, m, AllFinite, Run

\* Where a counter did not grow after the snapshot before the injection, a
\* snapshot rule is a hit only as degraded: IncidentEvaluator compares what the
\* two snapshots differ by, and says so where it has to look at the samples.
THEOREM FlatsAreDegraded == Spec => []FlatIsDegraded
BY EvidenceInductive, NoGrowthNoSnapshotHit, PTL

\* What a chain's node finds by a counter, the counter did in this run:
\* _observations takes the difference to the baseline's last sample for spills
\* and to its first one for slow queries.
THEOREM GrowthsAreTheRuns == Spec => []GrowthIsTheRuns
BY EvidenceInductive, NoGrowthNoHit, PTL

\* EvidenceEngine.evaluate says "hit" exactly where the samples are numbers, the
\* baseline that is needed is above 0, the aggregate satisfies the rule and so
\* do as many samples in a row as the rule asks for.
THEOREM HitsMatchWindows == Spec => []HitMatchesWindow
<1>1. EvidenceInv => HitMatchesWindow
  BY HitIsAsSaid DEF EvidenceInv
<1> QED
  BY <1>1, EvidenceInductive, PTL

-----------------------------------------------------------------------------
\* Sums over sets of numbers.

\* What sums over the subsets of 1..n are, in whatever order one adds.
Adds(P, g, n) ==
  /\ n \in Nat /\ g \in [1..n -> Nat] /\ P \in [SUBSET (1..n) -> Nat]
  /\ P[{}] = 0
  /\ \A S \in SUBSET (1..n) : \A x \in S : P[S] = g[x] + P[S \ {x}]

\* One summand, whichever, and the rest.
Splits(P, g, S, x) == P[S] = g[x] + P[S \ {x}]

\* One of the set, whichever, is a summand beside the sum of the rest.
LEMMA AddsOne ==
  ASSUME NEW n, NEW g, NEW P, Adds(P, g, n), NEW S, S \in SUBSET (1..n), NEW x, x \in S
  PROVE  Splits(P, g, S, x)
BY DEF Adds, Splits

\* There are such sums.
LEMMA SumsExist ==
  ASSUME NEW n \in Nat, NEW g \in [1..n -> Nat]
  PROVE  \E P \in [SUBSET (1..n) -> Nat] : Adds(P, g, n)
<1> DEFINE step == [p \in (1..n) \X Nat |-> g[p[1]] + p[2]]
<1>1. step \in [(1..n) \X Nat -> Nat]
  OBVIOUS
<1>2. \A i \in 1..n, x \in Nat : step[<<i, x>>] = g[i] + x
  OBVIOUS
<1>3. 0 \in Nat
  OBVIOUS
<1> HIDE DEF step
<1>4. PICK P \in [SUBSET (1..n) -> Nat] : Folds(P, n, 0, step)
  BY <1>1, <1>3, FoldExists, Zenon
<1>5. P[{}] = 0
  BY <1>4 DEF Folds
<1>6. ASSUME NEW S \in SUBSET (1..n), S # {}
      PROVE  /\ Max(S) \in S /\ \A x \in S : x <= Max(S)
             /\ P[S] = g[Max(S)] + P[S \ {Max(S)}]
  <2>1. Max(S) \in S /\ \A x \in S : x <= Max(S)
    BY <1>6, MaxIsIn
  <2>2. P[S] = step[<<Max(S), P[S \ {Max(S)}]>>]
    BY <1>4, <1>6 DEF Folds
  <2>3. P[S \ {Max(S)}] \in Nat
    OBVIOUS
  <2> QED
    BY <1>2, <2>1, <2>2, <2>3
<1> DEFINE Good == {k \in 0..n : \A S \in SUBSET (1..k) : \A x \in S : P[S] = g[x] + P[S \ {x}]}
<1>7. 0 \in Good
  OBVIOUS
<1>8. ASSUME NEW k \in 0..n, k < n, k \in Good
      PROVE  k + 1 \in Good
  <2>1. ASSUME NEW S \in SUBSET (1..(k + 1)), NEW x \in S
        PROVE  P[S] = g[x] + P[S \ {x}]
    <3>1. S \in SUBSET (1..n) /\ S # {}
      BY <1>8
    <3>2. PICK m \in S : m = Max(S) /\ (\A y \in S : y <= m) /\ P[S] = g[m] + P[S \ {m}]
      BY <1>6, <3>1
    <3>3. CASE x = m
      BY <3>2, <3>3
    <3>4. CASE x # m
      <4>1. S \ {m} \in SUBSET (1..k) /\ x \in S \ {m}
        <5>1. \A y \in S \ {m} : y \in 1..k
          <6> TAKE y \in S \ {m}
          <6>1. y \in 1..(k + 1) /\ m \in 1..(k + 1) /\ y <= m /\ y # m
            BY <3>2
          <6> QED
            BY <6>1
        <5> QED
          BY <3>4, <5>1
      <4>2. P[S \ {m}] = g[x] + P[(S \ {m}) \ {x}]
        BY <1>8, <4>1
      <4>3. m \in S \ {x} /\ S \ {x} \in SUBSET (1..n) /\ S \ {x} # {}
        BY <3>1, <3>4
      <4>4. Max(S \ {x}) = m
        <5>1. Max(S \ {x}) \in S \ {x} /\ \A y \in S \ {x} : y <= Max(S \ {x})
          BY <1>6, <4>3
        <5>2. Max(S \ {x}) \in 1..n /\ m \in 1..n /\ Max(S \ {x}) <= m /\ m <= Max(S \ {x})
          BY <3>1, <3>2, <4>3, <5>1
        <5> QED
          BY <5>2
      <4>5. P[S \ {x}] = g[m] + P[(S \ {x}) \ {m}]
        BY <1>6, <4>3, <4>4
      <4>6. (S \ {x}) \ {m} = (S \ {m}) \ {x}
        OBVIOUS
      <4>7. g[x] \in Nat /\ g[m] \in Nat /\ P[(S \ {m}) \ {x}] \in Nat
        BY <3>1
      <4>8. P[S] = g[m] + (g[x] + P[(S \ {m}) \ {x}])
        BY <3>2, <4>2
      <4>9. P[S \ {x}] = g[m] + P[(S \ {m}) \ {x}]
        BY <4>5, <4>6
      <4> QED
        BY <4>7, <4>8, <4>9
    <3> QED
      BY <3>3, <3>4
  <2>2. k + 1 \in 0..n
    BY <1>8
  <2> QED
    BY <2>1, <2>2
<1> HIDE DEF Good
<1>9. \A k \in 0..n : k \in Good
  BY <1>7, <1>8, UpTo
<1>10. n \in Good
  BY <1>9
<1> QED
  BY <1>5, <1>10 DEF Good, Adds

\* The sum of a function on a part of its domain.
SumOver(g, D) == SumFunction([t \in D |-> g[t]])

\* SumFunction gives them.
GivesSum(P, g, D) == SumOver(g, D) = P[D]

\* SumFunction, which takes the numbers in an order that is not told, is such a sum.
LEMMA SumFunctionIs ==
  ASSUME NEW n, NEW g, NEW P, Adds(P, g, n), NEW D, D \in SUBSET (1..n)
  PROVE  GivesSum(P, g, D)
<1>0. n \in Nat /\ g \in [1..n -> Nat] /\ P \in [SUBSET (1..n) -> Nat]
  BY DEF Adds
<1> DEFINE some(S) == CHOOSE x \in S : TRUE
           f == [t \in D |-> g[t]]
<1>1. DOMAIN f = D /\ \A t \in D : f[t] = g[t] /\ g[t] \in Nat
  BY <1>0
<1> HIDE DEF f
<1>2. \A S \in SUBSET D : P[S] = IF S = {} THEN 0 ELSE f[some(S)] + P[S \ {some(S)}]
  <2> TAKE S \in SUBSET D
  <2>1. CASE S = {}
    BY <2>1 DEF Adds
  <2>2. CASE S # {}
    <3>1. some(S) \in S
      BY <2>2
    <3>2. P[S] = g[some(S)] + P[S \ {some(S)}]
      BY <3>1 DEF Adds
    <3>3. S \ {some(S)} \in SUBSET (1..n) /\ some(S) \in D
      BY <3>1
    <3>4. P[S \ {some(S)}] \in Nat /\ g[some(S)] \in Nat /\ f[some(S)] = g[some(S)]
      BY <1>0, <1>1, <3>3
    <3> HIDE DEF some
    <3> QED
      BY <2>2, <3>2, <3>4
  <2> QED
    BY <2>1, <2>2
<1> DEFINE p == [S \in SUBSET (DOMAIN f) |-> P[S]]
<1>3. p = [S \in SUBSET (DOMAIN f) |-> IF S = {} THEN 0 ELSE f[some(S)] + p[S \ {some(S)}]]
  <2>1. \A S \in SUBSET D : S \ {some(S)} \in SUBSET D
    OBVIOUS
  <2> HIDE DEF some
  <2> QED
    BY <1>1, <1>2, <2>1
<1> HIDE DEF p
<1>4. PICK h : /\ h = [S \in SUBSET (DOMAIN f) |-> IF S = {} THEN 0 ELSE f[some(S)] + h[S \ {some(S)}]]
               /\ SumFunction(f) = h[DOMAIN f]
  BY <1>3 DEF SumFunction, SumFunctionOnSet, FoldFunctionOnSet, MapThenFoldSet
<1>5. IsFiniteSet(D)
  <2>1. IsFiniteSet(1..n)
    BY <1>0, FS_Interval
  <2> QED
    BY <2>1, FS_Subset
<1> DEFINE Off == {S \in SUBSET D : h[S] # P[S]}
<1>6. Off = {}
  <2> SUFFICES ASSUME Off # {}
               PROVE  FALSE
    OBVIOUS
  <2> DEFINE Sizes == {Cardinality(S) : S \in Off}
  <2>1. \A S \in SUBSET D : IsFiniteSet(S) /\ Cardinality(S) \in Nat
    BY <1>5, FS_Subset, FS_CardinalityType
  <2>2. Sizes \in SUBSET Nat /\ Sizes # {}
    BY <2>1
  <2>3. PICK c \in Sizes : \A d \in Sizes : c <= d
    BY <2>2, Least
  <2>4. PICK S \in Off : c = Cardinality(S)
    OBVIOUS
  <2>5. h[S] = IF S = {} THEN 0 ELSE f[some(S)] + h[S \ {some(S)}]
    BY <1>1, <1>4
  <2>6. S # {}
    BY <1>2, <2>5
  <2>7. some(S) \in S /\ S \ {some(S)} \in SUBSET D
    BY <2>6
  <2> HIDE DEF some
  <2>8. Cardinality(S \ {some(S)}) = Cardinality(S) - 1
    BY <2>1, <2>7, FS_RemoveElement
  <2>9. S \ {some(S)} \notin Off
    <3>1. ASSUME S \ {some(S)} \in Off
          PROVE  FALSE
      <4>1. Cardinality(S \ {some(S)}) \in Sizes
        BY <3>1
      <4>2. Cardinality(S) <= Cardinality(S \ {some(S)})
        BY <2>3, <2>4, <4>1
      <4> QED
        BY <2>1, <2>8, <4>2
    <3> QED
      BY <3>1
  <2>10. h[S \ {some(S)}] = P[S \ {some(S)}]
    BY <2>7, <2>9
  <2> QED
    BY <1>2, <2>5, <2>10
<1>7. h[D] = P[D]
  BY <1>6
<1> QED
  BY <1>1, <1>4, <1>7 DEF f, SumOver, GivesSum

\* The sums of the first k numbers.
Prefix(G, g, n) == G[0] = 0 /\ \A k \in 1..n : G[k] = G[k - 1] + g[k]

\* SumFunction of a range is a difference of two of them.
LEMMA RangeSums ==
  ASSUME NEW n \in Nat, NEW g \in [1..n -> Nat]
  PROVE  \E G \in [0..n -> Nat] :
           /\ Prefix(G, g, n)
           /\ \A a, b \in 0..n : a <= b => SumOver(g, (a + 1)..b) = G[b] - G[a]
<1>1. PICK P \in [SUBSET (1..n) -> Nat] : Adds(P, g, n)
  BY SumsExist
<1> DEFINE G == [k \in 0..n |-> P[1..k]]
<1>2. \A k \in 0..n : 1..k \in SUBSET (1..n) /\ G[k] = P[1..k]
  OBVIOUS
<1>3. G \in [0..n -> Nat]
  BY <1>2
<1> HIDE DEF G
<1>4. Prefix(G, g, n)
  <2>1. G[0] = 0
    <3>1. 1..0 = {} /\ 0 \in 0..n
      OBVIOUS
    <3> QED
      BY <1>1, <1>2, <3>1 DEF Adds
  <2>2. ASSUME NEW k \in 1..n
        PROVE  G[k] = G[k - 1] + g[k]
    <3>1. k \in 0..n /\ k - 1 \in 0..n /\ k \in 1..k /\ (1..k) \ {k} = 1..(k - 1)
      OBVIOUS
    <3>2. G[k] = g[k] + G[k - 1]
      <4>1. P[1..k] = g[k] + P[(1..k) \ {k}]
        <5>1. PICK R \in SUBSET (1..n) : R = 1..k
          BY <1>2, <3>1
        <5>2. k \in R
          BY <3>1, <5>1
        <5>3. Splits(P, g, R, k)
          BY <1>1, <5>2, AddsOne, Zenon
        <5> QED
          BY <5>1, <5>3 DEF Splits
      <4> QED
        BY <1>2, <3>1, <4>1
    <3>3. g[k] \in Nat /\ G[k - 1] \in Nat
      BY <1>3, <3>1
    <3> QED
      BY <3>2, <3>3
  <2> QED
    BY <2>1, <2>2 DEF Prefix
<1>5. ASSUME NEW a \in 0..n, NEW b \in 0..n, a <= b
      PROVE  SumOver(g, (a + 1)..b) = G[b] - G[a]
  <2> DEFINE Good == {k \in 0..n : k >= a => P[(a + 1)..k] = G[k] - G[a]}
  <2>1. 0 \in Good
    <3>1. ASSUME 0 >= a
          PROVE  P[(a + 1)..0] = G[0] - G[a]
      <4>1. a = 0 /\ (a + 1)..0 = {}
        BY <3>1
      <4> QED
        BY <1>1, <1>4, <4>1 DEF Adds, Prefix
    <3> QED
      BY <3>1
  <2>2. ASSUME NEW k \in 0..n, k < n, k \in Good
        PROVE  k + 1 \in Good
    <3>1. k + 1 \in 0..n /\ k + 1 \in 1..n /\ (k + 1) - 1 = k
      BY <2>2
    <3>2. CASE k + 1 < a
      BY <3>1, <3>2
    <3>3. CASE k + 1 = a
      <4>1. (a + 1)..(k + 1) = {}
        BY <3>3
      <4>2. P[(a + 1)..(k + 1)] = 0 /\ G[k + 1] - G[a] = 0
        BY <1>1, <1>3, <3>3, <4>1 DEF Adds
      <4> QED
        BY <3>1, <4>2
    <3>4. CASE k >= a
      <4> DEFINE S == (a + 1)..(k + 1)
      <4>1. S \in SUBSET (1..n) /\ k + 1 \in S /\ S \ {k + 1} = (a + 1)..k
        BY <3>1, <3>4
      <4>2. P[S] = g[k + 1] + P[(a + 1)..k]
        <5>1. PICK R \in SUBSET (1..n) : R = S
          BY <4>1
        <5>2. k + 1 \in R
          BY <4>1, <5>1
        <5>3. Splits(P, g, R, k + 1)
          BY <1>1, <5>2, AddsOne, Zenon
        <5> QED
          BY <4>1, <5>1, <5>3 DEF Splits
      <4>3. P[(a + 1)..k] = G[k] - G[a]
        BY <2>2, <3>4
      <4>4. G[k + 1] = G[k] + g[k + 1]
        BY <1>4, <3>1 DEF Prefix
      <4>5. G[k] \in Nat /\ G[a] \in Nat /\ g[k + 1] \in Nat
        BY <1>3, <3>1
      <4>6. P[S] = G[k + 1] - G[a]
        BY <4>2, <4>3, <4>4, <4>5
      <4> QED
        BY <3>1, <4>6
    <3> QED
      BY <2>2, <3>2, <3>3, <3>4
  <2> HIDE DEF Good
  <2>3. \A k \in 0..n : k \in Good
    BY <2>1, <2>2, UpTo
  <2>4. P[(a + 1)..b] = G[b] - G[a]
    BY <1>5, <2>3 DEF Good
  <2>5. (a + 1)..b \in SUBSET (1..n)
    OBVIOUS
  <2>6. GivesSum(P, g, (a + 1)..b)
    BY <1>1, <2>5, SumFunctionIs, Zenon
  <2> QED
    BY <2>4, <2>6 DEF GivesSum
<1> QED
  BY <1>3, <1>4, <1>5

\* Pairs of numbers that are closed under addition.
Closed(C) == C \subseteq Nat \X Nat /\ \A c, d \in C : <<c[1] + d[1], c[2] + d[2]>> \in C

\* What all pairs of summands are in, two sums over a range are in.
LEMMA RangeIn ==
  ASSUME NEW n \in Nat, NEW g \in [1..n -> Nat], NEW h \in [1..n -> Nat],
         NEW G \in [0..n -> Nat], NEW H \in [0..n -> Nat], Prefix(G, g, n), Prefix(H, h, n),
         NEW a \in 0..n, NEW b \in 0..n, a < b,
         NEW C, Closed(C), \A t \in (a + 1)..b : <<g[t], h[t]>> \in C
  PROVE  <<G[b] - G[a], H[b] - H[a]>> \in C
<1> DEFINE Good == {k \in 0..n : a < k /\ k <= b => <<G[k] - G[a], H[k] - H[a]>> \in C}
<1>1. 0 \in Good
  OBVIOUS
<1>2. ASSUME NEW k \in 0..n, k < n, k \in Good
      PROVE  k + 1 \in Good
  <2>1. k + 1 \in 0..n /\ k + 1 \in 1..n /\ (k + 1) - 1 = k
    BY <1>2
  <2>2. ASSUME a < k + 1, k + 1 <= b
        PROVE  <<G[k + 1] - G[a], H[k + 1] - H[a]>> \in C
    <3>1. G[k + 1] = G[k] + g[k + 1] /\ H[k + 1] = H[k] + h[k + 1]
      BY <2>1 DEF Prefix
    <3>2. /\ G[k] \in Nat /\ H[k] \in Nat /\ G[a] \in Nat /\ H[a] \in Nat
          /\ g[k + 1] \in Nat /\ h[k + 1] \in Nat
      BY <2>1
    <3>3. <<g[k + 1], h[k + 1]>> \in C
      BY <2>2
    <3>4. CASE k = a
      <4>1. G[k + 1] - G[a] = g[k + 1] /\ H[k + 1] - H[a] = h[k + 1]
        BY <3>1, <3>2, <3>4
      <4> QED
        BY <3>3, <4>1
    <3>5. CASE k > a
      <4>1. <<G[k] - G[a], H[k] - H[a]>> \in C
        BY <1>2, <2>2, <3>5
      <4>2. <<(G[k] - G[a]) + g[k + 1], (H[k] - H[a]) + h[k + 1]>> \in C
        BY <3>3, <4>1 DEF Closed
      <4>3. /\ (G[k] - G[a]) + g[k + 1] = G[k + 1] - G[a]
            /\ (H[k] - H[a]) + h[k + 1] = H[k + 1] - H[a]
        <5>1. ASSUME NEW F \in [0..n -> Nat], NEW f \in [1..n -> Nat], F[k + 1] = F[k] + f[k + 1]
              PROVE  (F[k] - F[a]) + f[k + 1] = F[k + 1] - F[a]
          <6>1. PICK x \in Nat, y \in Nat, z \in Nat : x = F[k] /\ y = f[k + 1] /\ z = F[a]
            BY <2>1
          <6>2. (x - z) + y = (x + y) - z
            OBVIOUS
          <6>3. F[k + 1] = x + y
            BY <5>1, <6>1
          <6> QED
            BY <6>1, <6>2, <6>3
        <5> QED
          BY <3>1, <5>1
      <4> QED
        BY <4>2, <4>3
    <3> QED
      BY <2>2, <3>4, <3>5
  <2> QED
    BY <2>1, <2>2
<1> HIDE DEF Good
<1>3. \A k \in 0..n : k \in Good
  BY <1>1, <1>2, UpTo
<1> QED
  BY <1>3 DEF Good

\* The same of two sums over a set.
LEMMA SetIn ==
  ASSUME NEW n \in Nat, NEW D \in SUBSET (1..n), D # {},
         NEW g \in [D -> Nat], NEW h \in [D -> Nat],
         NEW C, Closed(C), \A t \in D : <<g[t], h[t]>> \in C
  PROVE  <<SumFunction(g), SumFunction(h)>> \in C
<1> DEFINE g0 == [t \in 1..n |-> IF t \in D THEN g[t] ELSE 0]
           h0 == [t \in 1..n |-> IF t \in D THEN h[t] ELSE 0]
<1>1. /\ g0 \in [1..n -> Nat] /\ h0 \in [1..n -> Nat]
      /\ \A t \in D : g0[t] = g[t] /\ h0[t] = h[t]
      /\ g = [t \in D |-> g0[t]] /\ h = [t \in D |-> h0[t]]
  OBVIOUS
<1> HIDE DEF g0, h0
<1>2. PICK P \in [SUBSET (1..n) -> Nat] : Adds(P, g0, n)
  BY <1>1, SumsExist
<1>3. PICK Q \in [SUBSET (1..n) -> Nat] : Adds(Q, h0, n)
  BY <1>1, SumsExist
<1>4. SumFunction(g) = P[D] /\ SumFunction(h) = Q[D]
  <2>1. GivesSum(P, g0, D)
    BY <1>2, SumFunctionIs, Zenon
  <2>2. GivesSum(Q, h0, D)
    BY <1>3, SumFunctionIs, Zenon
  <2> QED
    BY <1>1, <2>1, <2>2 DEF SumOver, GivesSum
<1> DEFINE Part(k) == D \cap (1..k)
           Good == {k \in 0..n : Part(k) # {} => <<P[Part(k)], Q[Part(k)]>> \in C}
<1>5. 0 \in Good
  OBVIOUS
<1>6. ASSUME NEW k \in 0..n, k < n, k \in Good
      PROVE  k + 1 \in Good
  <2>1. k + 1 \in 0..n
    BY <1>6
  <2>2. CASE k + 1 \notin D
    <3>1. Part(k + 1) = Part(k)
      BY <2>2
    <3> QED
      BY <1>6, <2>1, <3>1
  <2>3. CASE k + 1 \in D
    <3>1. Part(k + 1) \in SUBSET (1..n) /\ k + 1 \in Part(k + 1) /\ Part(k + 1) \ {k + 1} = Part(k)
      BY <2>3
    <3> HIDE DEF Part
    <3>2. /\ P[Part(k + 1)] = g[k + 1] + P[Part(k)]
          /\ Q[Part(k + 1)] = h[k + 1] + Q[Part(k)]
      <4>1. Splits(P, g0, Part(k + 1), k + 1)
        BY <1>2, <3>1, AddsOne, Zenon
      <4>2. Splits(Q, h0, Part(k + 1), k + 1)
        BY <1>3, <3>1, AddsOne, Zenon
      <4> QED
        BY <1>1, <2>3, <3>1, <4>1, <4>2 DEF Splits
    <3>3. <<g[k + 1], h[k + 1]>> \in C /\ g[k + 1] \in Nat /\ h[k + 1] \in Nat
      BY <2>3
    <3>4. CASE Part(k) = {}
      <4>1. P[Part(k + 1)] = g[k + 1] + 0 /\ Q[Part(k + 1)] = h[k + 1] + 0
        BY <1>2, <1>3, <3>2, <3>4 DEF Adds
      <4>2. <<P[Part(k + 1)], Q[Part(k + 1)]>> \in C
        BY <3>3, <4>1
      <4> QED
        BY <2>1, <4>2
    <3>5. CASE Part(k) # {}
      <4>1. <<P[Part(k)], Q[Part(k)]>> \in C
        BY <1>6, <3>5
      <4>2. <<g[k + 1] + P[Part(k)], h[k + 1] + Q[Part(k)]>> \in C
        BY <3>3, <4>1 DEF Closed
      <4> QED
        BY <2>1, <3>2, <4>2
    <3> QED
      BY <3>4, <3>5
  <2> QED
    BY <2>2, <2>3
<1> HIDE DEF Good
<1>7. \A k \in 0..n : k \in Good
  BY <1>5, <1>6, UpTo
<1>8. Part(n) = D /\ n \in Good
  <2>1. n \in 0..n
    OBVIOUS
  <2>2. D \cap (1..n) = D
    BY Zenon
  <2> QED
    BY <1>7, <2>1, <2>2
<1> HIDE DEF Part
<1> QED
  BY <1>4, <1>8 DEF Good

-----------------------------------------------------------------------------
\* Means.

\* Products grow with their factors.
LEMMA Times ==
  ASSUME NEW x \in Nat, NEW y \in Nat, NEW z \in Nat, x <= y
  PROVE  x * z <= y * z /\ x * z \in Nat /\ y * z \in Nat
OBVIOUS

\* The sum of two fractions is below the sum of their bounds.
LEMMA SumBelow ==
  ASSUME NEW A \in Nat, NEW B \in Nat, NEW a \in Nat, NEW b \in Nat,
         NEW p \in Nat, NEW q \in Nat, NEW k \in Nat,
         p * A <= (q * k) * B, p * a <= q * b
  PROVE  p * (A * b + a * B) <= (q * (k + 1)) * (B * b)
<1>1. (p * A) * b <= ((q * k) * B) * b
  BY Times
<1>2. (p * a) * B <= (q * b) * B
  BY Times
<1>3. p * (A * b + a * B) = (p * A) * b + (p * a) * B
  OBVIOUS
<1>4. (q * (k + 1)) * (B * b) = ((q * k) * B) * b + (q * b) * B
  OBVIOUS
<1>5. /\ (p * A) * b \in Nat /\ (p * a) * B \in Nat
      /\ ((q * k) * B) * b \in Nat /\ (q * b) * B \in Nat
  OBVIOUS
<1> QED
  BY <1>1, <1>2, <1>3, <1>4, <1>5

\* And above.
LEMMA SumAbove ==
  ASSUME NEW A \in Nat, NEW B \in Nat, NEW a \in Nat, NEW b \in Nat,
         NEW p \in Nat, NEW q \in Nat, NEW k \in Nat,
         (q * k) * B <= p * A, q * b <= p * a
  PROVE  (q * (k + 1)) * (B * b) <= p * (A * b + a * B)
<1>1. ((q * k) * B) * b <= (p * A) * b
  BY Times
<1>2. (q * b) * B <= (p * a) * B
  BY Times
<1>3. p * (A * b + a * B) = (p * A) * b + (p * a) * B
  OBVIOUS
<1>4. (q * (k + 1)) * (B * b) = ((q * k) * B) * b + (q * b) * B
  OBVIOUS
<1>5. /\ (p * A) * b \in Nat /\ (p * a) * B \in Nat
      /\ ((q * k) * B) * b \in Nat /\ (q * b) * B \in Nat
  OBVIOUS
<1> QED
  BY <1>1, <1>2, <1>3, <1>4, <1>5

\* A fraction x is at most q / p, or at least.
AtMost(x, q, p)  == p * x[1] <= q * x[2]
AtLeast(x, q, p) == q * x[2] <= p * x[1]

\* The mean is between the bounds of the numbers.
LEMMA MeanBounds ==
  ASSUME NEW s \in Seq(Whole), s # <<>>, NEW q \in Nat, NEW p \in Nat
  PROVE  /\ Mean(s) \in Whole
         /\ (\A i \in 1..Len(s) : AtMost(s[i], q, p)) => AtMost(Mean(s), q, p)
         /\ (\A i \in 1..Len(s) : AtLeast(s[i], q, p)) => AtLeast(Mean(s), q, p)
<1> DEFINE n == Len(s)
<1>1. n \in Nat \ {0} /\ \A i \in 1..n : s[i] \in Whole
  OBVIOUS
<1>2. PICK f \in [0..n -> Whole] :
        /\ f[0] = Num(0)
        /\ \A i \in 1..n : f[i] = Sum(f[i - 1], s[i])
        /\ Total(s) = f[n]
  BY TotalRuns
<1> HIDE DEF n
<1>3. PICK A \in Nat, B \in Nat \ {0} : Total(s) = <<A, B>>
  <2>1. n \in 0..n
    BY <1>1
  <2> QED
    BY <1>2, <2>1 DEF Whole
<1>4. Mean(s) = <<A * 1, B * n>>
  BY <1>1, <1>3 DEF Mean, Over, Num, n
<1>5. A * 1 = A /\ B * n \in Nat \ {0}
  BY <1>1
<1>6. Mean(s) \in Whole
  BY <1>4, <1>5 DEF Whole
<1>7. ASSUME NEW k \in 0..n, k < n
      PROVE  \E C \in Nat, D \in Nat \ {0}, a \in Nat, b \in Nat \ {0} :
               /\ k + 1 \in 1..n /\ k + 1 \in 0..n /\ k \in Nat
               /\ f[k] = <<C, D>> /\ s[k + 1] = <<a, b>>
               /\ f[k + 1] = <<C * b + a * D, D * b>>
  <2>1. k + 1 \in 1..n /\ k + 1 \in 0..n /\ k \in Nat /\ (k + 1) - 1 = k
    BY <1>1, <1>7
  <2>2. f[k + 1] = Sum(f[k], s[k + 1])
    BY <1>2, <2>1
  <2>3. PICK C \in Nat, D \in Nat \ {0} : f[k] = <<C, D>>
    BY DEF Whole
  <2>4. PICK a \in Nat, b \in Nat \ {0} : s[k + 1] = <<a, b>>
    <3>1. s[k + 1] \in Whole
      BY <1>1, <2>1
    <3> QED
      BY <3>1 DEF Whole
  <2>5. f[k + 1] = <<C * b + a * D, D * b>>
    BY <2>2, <2>3, <2>4 DEF Sum
  <2> QED
    BY <2>1, <2>3, <2>4, <2>5
<1>8. ASSUME \A i \in 1..n : AtMost(s[i], q, p)
      PROVE  AtMost(Mean(s), q, p)
  <2> DEFINE Good == {k \in 0..n : p * f[k][1] <= (q * k) * f[k][2]}
  <2>1. 0 \in Good
    BY <1>1, <1>2 DEF Num
  <2>2. ASSUME NEW k \in 0..n, k < n, k \in Good
        PROVE  k + 1 \in Good
    <3>1. PICK C \in Nat, D \in Nat \ {0}, a \in Nat, b \in Nat \ {0} :
            /\ k + 1 \in 1..n /\ k + 1 \in 0..n /\ k \in Nat
            /\ f[k] = <<C, D>> /\ s[k + 1] = <<a, b>>
            /\ f[k + 1] = <<C * b + a * D, D * b>>
      BY <1>7, <2>2
    <3>2. p * C <= (q * k) * D /\ p * a <= q * b
      BY <1>8, <2>2, <3>1 DEF AtMost
    <3>3. p * (C * b + a * D) <= (q * (k + 1)) * (D * b)
      BY <3>1, <3>2, SumBelow
    <3> QED
      BY <3>1, <3>3
  <2> HIDE DEF Good
  <2>3. \A k \in 0..n : k \in Good
    BY <1>1, <2>1, <2>2, UpTo
  <2>4. p * A <= (q * n) * B
    <3>1. n \in Good
      BY <1>1, <2>3
    <3>2. f[n][1] = A /\ f[n][2] = B
      BY <1>2, <1>3
    <3> QED
      BY <3>1, <3>2 DEF Good
  <2>5. (q * n) * B = q * (B * n)
    BY <1>1
  <2> QED
    BY <1>4, <1>5, <2>4, <2>5 DEF AtMost
<1>9. ASSUME \A i \in 1..n : AtLeast(s[i], q, p)
      PROVE  AtLeast(Mean(s), q, p)
  <2> DEFINE Good == {k \in 0..n : (q * k) * f[k][2] <= p * f[k][1]}
  <2>1. 0 \in Good
    BY <1>1, <1>2 DEF Num
  <2>2. ASSUME NEW k \in 0..n, k < n, k \in Good
        PROVE  k + 1 \in Good
    <3>1. PICK C \in Nat, D \in Nat \ {0}, a \in Nat, b \in Nat \ {0} :
            /\ k + 1 \in 1..n /\ k + 1 \in 0..n /\ k \in Nat
            /\ f[k] = <<C, D>> /\ s[k + 1] = <<a, b>>
            /\ f[k + 1] = <<C * b + a * D, D * b>>
      BY <1>7, <2>2
    <3>2. (q * k) * D <= p * C /\ q * b <= p * a
      BY <1>9, <2>2, <3>1 DEF AtLeast
    <3>3. (q * (k + 1)) * (D * b) <= p * (C * b + a * D)
      BY <3>1, <3>2, SumAbove
    <3> QED
      BY <3>1, <3>3
  <2> HIDE DEF Good
  <2>3. \A k \in 0..n : k \in Good
    BY <1>1, <2>1, <2>2, UpTo
  <2>4. (q * n) * B <= p * A
    <3>1. n \in Good
      BY <1>1, <2>3
    <3>2. f[n][1] = A /\ f[n][2] = B
      BY <1>2, <1>3
    <3> QED
      BY <3>1, <3>2 DEF Good
  <2>5. (q * n) * B = q * (B * n)
    BY <1>1
  <2> QED
    BY <1>4, <1>5, <2>4, <2>5 DEF AtLeast
<1> QED
  BY <1>6, <1>8, <1>9 DEF n

\* The values of a function, taken in order.
LEMMA InOrderIs ==
  ASSUME NEW n \in Nat, NEW D \in SUBSET (1..n), NEW A, NEW f \in [D -> A]
  PROVE  InOrder(f, n) \in Seq(A) /\ (InOrder(f, n) = <<>> <=> D = {})
<1> DEFINE q == [i \in 1..n |-> i]
           op(s, i) == IF i \in DOMAIN f THEN Append(s, f[i]) ELSE s
           step == [p \in (1..n) \X Seq(A) |-> op(p[2], q[p[1]])]
<1>1. DOMAIN q = 1..n /\ DOMAIN f = D /\ \A i \in 1..n : q[i] = i
  OBVIOUS
<1>2. \A i \in 1..n, x \in Seq(A) : op(x, q[i]) \in Seq(A)
  OBVIOUS
<1>3. <<>> \in Seq(A)
  OBVIOUS
<1>4. step \in [(1..n) \X Seq(A) -> Seq(A)]
  BY <1>2
<1>5. \A i \in 1..n, x \in Seq(A) : step[<<i, x>>] = op(x, q[i])
  OBVIOUS
<1> HIDE DEF q, step, op
<1>6. PICK g \in [SUBSET (1..n) -> Seq(A)] : Folds(g, n, <<>>, step)
  BY <1>3, <1>4, FoldExists, Zenon
<1>7. g = [S \in SUBSET (DOMAIN q) |-> IF S = {} THEN <<>> ELSE op(g[S \ {Max(S)}], q[Max(S)])]
  <2>1. ASSUME NEW S \in SUBSET (1..n), S # {}
        PROVE  g[S] = op(g[S \ {Max(S)}], q[Max(S)])
    <3>1. Max(S) \in 1..n
      BY <2>1, MaxIsIn
    <3>2. g[S \ {Max(S)}] \in Seq(A)
      OBVIOUS
    <3> QED
      BY <1>5, <1>6, <2>1, <3>1, <3>2 DEF Folds
  <2> QED
    BY <1>1, <1>6, <2>1 DEF Folds
<1>8. PICK h : /\ h = [S \in SUBSET (DOMAIN q) |-> IF S = {} THEN <<>> ELSE op(h[S \ {Max(S)}], q[Max(S)])]
               /\ InOrder(f, n) = h[DOMAIN q]
  BY <1>7 DEF InOrder, FoldLeft, MapThenFoldSet, op, q
<1>9. h[1..0] = <<>> /\ \A k \in 1..n : h[1..k] = op(h[1..(k - 1)], k)
  <2>1. h[1..0] = <<>>
    BY <1>1, <1>8
  <2>2. ASSUME NEW k \in 1..n
        PROVE  h[1..k] = op(h[1..(k - 1)], k)
    <3>1. Max(1..k) = k /\ (1..k) \ {k} = 1..(k - 1) /\ 1..k # {}
      BY MaxOfAll
    <3>2. (1..k) \in SUBSET (DOMAIN q) /\ q[k] = k
      BY <1>1
    <3> QED
      BY <1>8, <3>1, <3>2
  <2> QED
    BY <2>1, <2>2
<1> DEFINE Good == {k \in 0..n : h[1..k] \in Seq(A) /\ (h[1..k] = <<>> <=> D \cap (1..k) = {})}
<1>10. 0 \in Good
  <2>1. 0 \in 0..n /\ D \cap (1..0) = {}
    OBVIOUS
  <2>2. h[1..0] \in Seq(A) /\ h[1..0] = <<>>
    BY <1>3, <1>9, Zenon
  <2> QED
    BY <2>1, <2>2, Zenon
<1>11. ASSUME NEW k \in 0..n, k < n, k \in Good
       PROVE  k + 1 \in Good
  <2>1. k + 1 \in 1..n /\ k + 1 \in 0..n /\ (k + 1) - 1 = k
    BY <1>11
  <2>2. h[1..(k + 1)] = op(h[1..k], k + 1)
    BY <1>9, <2>1
  <2>3. h[1..k] \in Seq(A) /\ (h[1..k] = <<>> <=> D \cap (1..k) = {})
    BY <1>11
  <2>4. CASE k + 1 \in D
    <3>1. h[1..(k + 1)] = Append(h[1..k], f[k + 1]) /\ f[k + 1] \in A
      BY <1>1, <2>2, <2>4 DEF op
    <3>2. h[1..(k + 1)] \in Seq(A) /\ h[1..(k + 1)] # <<>>
      BY <2>3, <3>1
    <3>3. D \cap (1..(k + 1)) # {}
      BY <2>4
    <3> QED
      BY <2>1, <3>2, <3>3
  <2>5. CASE k + 1 \notin D
    <3>1. h[1..(k + 1)] = h[1..k]
      BY <1>1, <2>2, <2>5 DEF op
    <3>2. D \cap (1..(k + 1)) = D \cap (1..k)
      BY <2>5
    <3> QED
      BY <2>1, <2>3, <3>1, <3>2
  <2> QED
    BY <2>4, <2>5
<1> HIDE DEF Good
<1>12. \A k \in 0..n : k \in Good
  BY <1>10, <1>11, UpTo
<1>13. n \in Good
  BY <1>12
<1>14. D \cap (1..n) = D
  BY Zenon
<1> QED
  BY <1>1, <1>8, <1>13, <1>14 DEF Good

-----------------------------------------------------------------------------
\* The readings.

Fields  == {"asked", "missed"}
Works   == [asked : Nat, missed : Nat]
ReadingType ==
  [counters : [at : Nat, asked : Nat, missed : Nat], qps : Whole, labels : Seq(PhaseSet), stamp : Nat]

At(i) == readings[i].counters.at

\* The tick from which the counters of a reading at tick a count.
Since(a) == IF started > 0 /\ a >= started THEN started ELSE 0

CountersOf(a) ==
  [at |-> a, asked |-> Grown("asked", Since(a), a), missed |-> Grown("missed", Since(a), a)]

Rank(p) == CHOOSE r \in 1..5 : Phases[r] = p

RatesTyped ==
  /\ clock \in Nat /\ done \in Seq(Works) /\ Len(done) = clock
  /\ started \in 0..clock /\ phase \in PhaseSet /\ tried \in -1..clock
  /\ readings \in Seq(ReadingType)

\* A rate is the growth since the reading before.
RateOf(i) ==
  IF i = 1 THEN Num(0) ELSE <<Max({0, Change(i, "asked")}), Change(i, "at")>>

\* The readings are in the order of their time, and each is what the server's
\* work makes of it.
Rows ==
  /\ previous = IF readings = <<>> THEN None ELSE Last(readings).counters
  /\ \A i \in 1..Len(readings) :
       /\ readings[i].counters = CountersOf(At(i)) /\ At(i) <= tried
       /\ readings[i].qps = RateOf(i)
       /\ i > 1 => At(i - 1) < At(i)

\* A reading's samples are later than its counters, and no later than the end of
\* its round, and the next reading's counters are later than that.
StampedAt(i) ==
  /\ At(i) <= readings[i].stamp /\ readings[i].stamp <= tried
  /\ i > 1 => readings[i - 1].stamp < At(i)

Stamped == \A i \in 1..Len(readings) : StampedAt(i)

\* The labels of a metric follow the phases.
Labelled ==
  /\ \A i \in 1..Len(readings) :
       Len(readings[i].labels) <= 3 /\ (i < Len(readings) => Len(readings[i].labels) = 3)
  /\ \A i, j \in 1..Len(readings), m \in 1..3 :
       i <= j /\ m <= Len(readings[i].labels) /\ m <= Len(readings[j].labels) =>
         Rank(readings[i].labels[m]) <= Rank(readings[j].labels[m])
  /\ \A i \in 1..Len(readings), m \in 1..3 :
       m <= Len(readings[i].labels) => Rank(readings[i].labels[m]) <= Rank(phase)

RatesInv == RatesTyped /\ Rows /\ Stamped /\ Labelled

-----------------------------------------------------------------------------
\* A field of the first n ticks.
Field(field) == [t \in 1..Len(done) |-> done[t][field]]

\* The server's work since the start, of which Grown is a difference.
Sums(G, field) ==
  /\ G \in [0..Len(done) -> Nat]
  /\ Prefix(G, Field(field), Len(done))
  /\ \A a, b \in 0..Len(done) : a <= b => Grown(field, a, b) = G[b] - G[a] /\ G[a] <= G[b]

\* Sums of numbers that are not below 0 only grow.
LEMMA PrefixGrows ==
  ASSUME NEW n \in Nat, NEW g \in [1..n -> Nat], NEW G \in [0..n -> Nat], Prefix(G, g, n),
         NEW a \in 0..n, NEW b \in 0..n, a <= b
  PROVE  G[a] <= G[b]
<1>1. CASE a = b
  BY <1>1
<1>2. CASE a < b
  <2> DEFINE C == Nat \X Nat
  <2>1. Closed(C)
    BY DEF Closed
  <2>2. \A t \in (a + 1)..b : <<g[t], g[t]>> \in C
    OBVIOUS
  <2> HIDE DEF C
  <2>3. <<G[b] - G[a], G[b] - G[a]>> \in C
    BY <1>2, <2>1, <2>2, RangeIn
  <2>4. G[b] - G[a] \in Nat
    BY <2>3 DEF C
  <2> QED
    BY <2>4
<1> QED
  BY <1>1, <1>2

\* SHOW GLOBAL STATUS counts what was done: Grown is a difference of such sums.
LEMMA SumsAre ==
  ASSUME done \in Seq(Works), NEW field \in Fields
  PROVE  Field(field) \in [1..Len(done) -> Nat] /\ \E G : Sums(G, field)
<1> DEFINE n == Len(done)
           g == Field(field)
<1>1. n \in Nat /\ g \in [1..n -> Nat]
  <2>1. ASSUME NEW t \in 1..n
        PROVE  done[t][field] \in Nat
    <3>1. done[t] \in Works
      OBVIOUS
    <3> QED
      BY <3>1 DEF Fields, Works
  <2> QED
    BY <2>1 DEF Field
<1>2. PICK G \in [0..n -> Nat] :
        /\ Prefix(G, g, n)
        /\ \A a, b \in 0..n : a <= b => SumOver(g, (a + 1)..b) = G[b] - G[a]
  BY <1>1, RangeSums
<1>3. ASSUME NEW a \in 0..n, NEW b \in 0..n, a <= b
      PROVE  Grown(field, a, b) = G[b] - G[a] /\ G[a] <= G[b]
  <2>1. [t \in (a + 1)..b |-> g[t]] = [t \in (a + 1)..b |-> done[t][field]]
    BY <1>1 DEF Field
  <2>2. Grown(field, a, b) = SumOver(g, (a + 1)..b)
    BY <2>1 DEF Grown, SumOver
  <2> HIDE DEF n, g
  <2>3. G[a] <= G[b]
    BY <1>1, <1>2, <1>3, PrefixGrows
  <2> QED
    BY <1>2, <1>3, <2>2, <2>3
<1> QED
  BY <1>1, <1>2, <1>3 DEF Sums

\* Growth is a number, and there is none in no time.
LEMMA GrownIsNat ==
  ASSUME done \in Seq(Works), NEW field \in Fields,
         NEW a \in 0..Len(done), NEW b \in 0..Len(done), a <= b
  PROVE  Grown(field, a, b) \in Nat
<1>1. PICK G : Sums(G, field)
  BY SumsAre
<1> QED
  BY <1>1 DEF Sums

\* What was done stays.
LEMMA GrownStays ==
  ASSUME done \in Seq(Works), NEW field, NEW w \in Works, done' = Append(done, w),
         NEW a \in Nat, NEW b \in Nat, b <= Len(done)
  PROVE  Grown(field, a, b)' = Grown(field, a, b)
<1>1. \A t \in (a + 1)..b : done'[t] = done[t]
  OBVIOUS
<1>2. [t \in (a + 1)..b |-> done'[t][field]] = [t \in (a + 1)..b |-> done[t][field]]
  BY <1>1
<1> QED
  BY <1>2 DEF Grown

-----------------------------------------------------------------------------
\* The phases have an order.
LEMMA Ranks ==
  /\ Len(Phases) = 5 /\ PhaseSet = {"warmup", "baseline", "injection", "recovery", "stopped"}
  /\ Rank("warmup") = 1 /\ Rank("baseline") = 2 /\ Rank("injection") = 3
  /\ Rank("recovery") = 4 /\ Rank("stopped") = 5
<1>1. /\ Phases[1] = "warmup" /\ Phases[2] = "baseline" /\ Phases[3] = "injection"
      /\ Phases[4] = "recovery" /\ Phases[5] = "stopped" /\ Len(Phases) = 5
  BY DEF Phases
<1>2. DOMAIN Phases = 1..5
  BY DEF Phases
<1>3. PhaseSet = {Phases[r] : r \in 1..5}
  BY <1>2 DEF PhaseSet, ToSet
<1>4. 1..5 = {1, 2, 3, 4, 5}
  OBVIOUS
<1>5. PhaseSet = {"warmup", "baseline", "injection", "recovery", "stopped"}
  BY <1>1, <1>3, <1>4
<1>6. \A r \in 1..5 : Rank(Phases[r]) = r
  <2> TAKE r \in 1..5
  <2>1. \A k \in 1..5 : Phases[k] = Phases[r] => k = r
    BY <1>1, <1>4
  <2>2. Rank(Phases[r]) \in 1..5 /\ Phases[Rank(Phases[r])] = Phases[r]
    BY DEF Rank
  <2> QED
    BY <2>1, <2>2
<1> QED
  BY <1>1, <1>4, <1>5, <1>6

\* The next phase is a later one.
LEMMA NextPhase ==
  ASSUME phase \in PhaseSet, phase # "stopped"
  PROVE  LET next == Phases[CHOOSE i \in 2..Len(Phases) : Phases[i - 1] = phase]
         IN next \in PhaseSet /\ Rank(phase) <= Rank(next)
<1> DEFINE i == CHOOSE i \in 2..Len(Phases) : Phases[i - 1] = phase
<1>1. /\ Phases[1] = "warmup" /\ Phases[2] = "baseline" /\ Phases[3] = "injection"
      /\ Phases[4] = "recovery" /\ Phases[5] = "stopped" /\ Len(Phases) = 5
  BY DEF Phases
<1>2. \E k \in 2..5 : Phases[k - 1] = phase
  <2>1. phase \in {"warmup", "baseline", "injection", "recovery"}
    BY Ranks
  <2>2. 2 \in 2..5 /\ 3 \in 2..5 /\ 4 \in 2..5 /\ 5 \in 2..5 /\ 2 - 1 = 1 /\ 3 - 1 = 2 /\ 4 - 1 = 3 /\ 5 - 1 = 4
    OBVIOUS
  <2> QED
    BY <1>1, <2>1, <2>2
<1>3. i \in 2..5 /\ Phases[i - 1] = phase
  BY <1>1, <1>2
<1> HIDE DEF i
<1>4. i \in {2, 3, 4, 5}
  BY <1>3
<1>5. Phases[i] \in PhaseSet /\ Rank(phase) <= Rank(Phases[i])
  BY <1>1, <1>3, <1>4, Ranks
<1> QED
  BY <1>5 DEF i

\* What the greater of 0 and a number is.
LEMMA NotBelowZero ==
  ASSUME NEW d \in Int
  PROVE  Max({0, d}) = (IF d >= 0 THEN d ELSE 0) /\ Max({0, d}) \in Nat
<1>1. \E x \in {0, d} : \A y \in {0, d} : x >= y
  OBVIOUS
<1>2. Max({0, d}) \in {0, d} /\ \A y \in {0, d} : Max({0, d}) >= y
  BY <1>1 DEF Max
<1> QED
  BY <1>2
-----------------------------------------------------------------------------
\* The invariant is kept.

CounterType == [at : Nat, asked : Nat, missed : Nat]

\* What the server's counters hold are numbers.
LEMMA CountersTyped ==
  ASSUME RatesTyped, NEW a \in 0..clock
  PROVE  CountersOf(a) \in CounterType
<1>1. Since(a) \in 0..Len(done) /\ a \in 0..Len(done) /\ Since(a) <= a
  BY DEF Since, RatesTyped
<1>2. Grown("asked", Since(a), a) \in Nat
  BY <1>1, GrownIsNat DEF RatesTyped, Fields
<1>3. Grown("missed", Since(a), a) \in Nat
  BY <1>1, GrownIsNat DEF RatesTyped, Fields
<1> QED
  BY <1>1, <1>2, <1>3 DEF CountersOf, CounterType

\* No action changes what was counted.
LEMMA CountersStay ==
  ASSUME RatesTyped, [RatesNext]_ratesVars, NEW a \in Nat, a <= tried
  PROVE  CountersOf(a)' = CountersOf(a)
<1>1. CASE Tick
  <2>1. PICK w \in Work : done' = Append(done, w)
    BY <1>1 DEF Tick
  <2>2. w \in Works /\ started' = started
    BY <1>1, <2>1, ThroughputAssumption DEF Works, Tick
  <2>3. Since(a)' = Since(a) /\ Since(a) \in Nat
    BY <2>2 DEF Since, RatesTyped
  <2>4. PICK s \in Nat : s = Since(a)
    BY <2>3
  <2>5. a <= Len(done)
    BY DEF RatesTyped
  <2>6. Grown("asked", s, a)' = Grown("asked", s, a)
    BY <2>1, <2>2, <2>4, <2>5, GrownStays DEF RatesTyped
  <2>7. Grown("missed", s, a)' = Grown("missed", s, a)
    BY <2>1, <2>2, <2>4, <2>5, GrownStays DEF RatesTyped
  <2> QED
    BY <2>3, <2>4, <2>6, <2>7 DEF CountersOf
<1>2. CASE Restart
  <2>1. Since(a)' = Since(a)
    BY <1>2 DEF Since, RatesTyped, Restart
  <2>2. done' = done
    BY <1>2 DEF Restart
  <2> QED
    BY <2>1, <2>2 DEF CountersOf, Grown
<1>3. CASE UNCHANGED <<done, started>>
  BY <1>3 DEF CountersOf, Grown, Since
<1>4. CASE MarkPhase \/ Collect \/ CollectFails \/ AddSample \/ UNCHANGED ratesVars
  BY <1>3, <1>4 DEF MarkPhase, Collect, CollectFails, Round, AddSample, ratesVars
<1> QED
  BY <1>1, <1>2, <1>4 DEF RatesNext

\* Readings that keep their counters and their rates stay as they must be.
LEMMA RowsStay ==
  ASSUME RatesInv, [RatesNext]_ratesVars, NEW i \in 1..Len(readings),
         Len(readings)' >= Len(readings), tried' \in Int, tried <= tried',
         \A k \in 1..Len(readings) : /\ readings'[k].counters = readings[k].counters
                                     /\ readings'[k].qps = readings[k].qps
  PROVE  /\ At(i)' = At(i)
         /\ readings'[i].counters = CountersOf(At(i))' /\ At(i)' <= tried'
         /\ readings'[i].qps = RateOf(i)'
         /\ i > 1 => At(i - 1)' < At(i)'
<1>1. readings[i] \in ReadingType
  BY DEF RatesInv, RatesTyped
<1>2. At(i) \in Nat /\ At(i) <= tried
  BY <1>1 DEF ReadingType, At, RatesInv, Rows
<1>3. At(i)' = At(i)
  BY DEF At
<1>4. CountersOf(At(i))' = CountersOf(At(i))
  <2>1. PICK a \in Nat : a = At(i)
    BY <1>2
  <2>2. CountersOf(a)' = CountersOf(a)
    BY <1>2, <2>1, CountersStay DEF RatesInv
  <2>3. a = At(i)'
    BY <1>3, <2>1
  <2>4. CountersOf(At(i))' = CountersOf(a)'
    BY <2>3 DEF CountersOf, Grown, Since
  <2> QED
    BY <2>1, <2>2, <2>4
<1>5. /\ readings[i].counters = CountersOf(At(i)) /\ readings[i].qps = RateOf(i)
      /\ i > 1 => At(i - 1) < At(i)
  BY DEF RatesInv, Rows
<1>6. tried \in Int
  BY DEF RatesInv, RatesTyped
<1>7. i > 1 => i - 1 \in 1..Len(readings)
  OBVIOUS
<1>8. RateOf(i)' = RateOf(i)
  <2>1. CASE i = 1
    BY <2>1 DEF RateOf
  <2>2. CASE i > 1
    <3>1. readings'[i].counters = readings[i].counters /\ readings'[i - 1].counters = readings[i - 1].counters
      BY <1>7, <2>2
    <3>2. Change(i, "asked")' = Change(i, "asked") /\ Change(i, "at")' = Change(i, "at")
      BY <3>1 DEF Change
    <3> QED
      BY <2>2, <3>2 DEF RateOf
  <2> QED
    BY <2>1, <2>2
<1>9. i > 1 => At(i - 1)' = At(i - 1)
  BY <1>7 DEF At
<1> QED
  BY <1>2, <1>3, <1>4, <1>5, <1>6, <1>8, <1>9
\* The provider's readings are in the order of their time, each is made of the
\* server's counters and of the reading before, previous is the last of them, and
\* the sampler's labels follow the timeline, whatever readings fail and whenever
\* the server is started anew.
THEOREM RatesInvariant == RatesSpec => []RatesInv
<1>1. RatesInit => RatesInv
  <2> SUFFICES ASSUME RatesInit
               PROVE  RatesInv
    OBVIOUS
  <2>1. RatesTyped
    BY Ranks DEF RatesInit, RatesTyped
  <2>2. Len(readings) = 0 /\ \A i \in 1..Len(readings) : FALSE
    BY DEF RatesInit
  <2>3. Rows
    BY <2>2 DEF RatesInit, Rows
  <2>4. Labelled /\ Stamped
    BY <2>2 DEF Labelled, Stamped
  <2> QED
    BY <2>1, <2>3, <2>4 DEF RatesInv
<1>2. RatesInv /\ [RatesNext]_ratesVars => RatesInv'
  <2> SUFFICES ASSUME RatesInv, [RatesNext]_ratesVars
               PROVE  RatesInv'
    OBVIOUS
  <2> USE DEF RatesInv
  <2>n. PICK n \in Nat : n = Len(readings)
    BY DEF RatesTyped
  <2>0. /\ n \in Nat /\ n = Len(readings) /\ \A i \in 1..n : readings[i] \in ReadingType /\ At(i) \in Nat
        /\ clock \in Nat /\ tried \in -1..clock /\ readings \in Seq(ReadingType)
        /\ \A i \in 1..n : readings[i].stamp \in Nat
    <3>1. \A i \in 1..n : readings[i] \in ReadingType
      BY <2>n DEF RatesTyped
    <3> QED
      BY <2>n, <3>1 DEF RatesTyped, ReadingType, At
  <2>s. ASSUME UNCHANGED readings, tried' \in Int, tried <= tried'
        PROVE  Stamped'
    <3>1. \A i \in 1..n : StampedAt(i)
      BY <2>0 DEF Stamped
    <3>2. ASSUME NEW i \in 1..n
          PROVE  StampedAt(i)'
      <4>1. readings[i].stamp <= tried'
        BY <2>0, <2>s, <3>1 DEF StampedAt
      <4> QED
        BY <2>s, <3>1, <4>1 DEF StampedAt, At
    <3> QED
      BY <2>0, <2>s, <3>2 DEF Stamped
  <2>1. CASE Tick
    <3>1. PICK w \in Work : done' = Append(done, w)
      BY <2>1 DEF Tick
    <3>2. /\ w \in Works /\ tried' = tried /\ readings' = readings /\ clock' = clock + 1
          /\ started' = started /\ phase' = phase /\ previous' = previous
      BY <2>1, <3>1, ThroughputAssumption DEF Works, Tick
    <3>3. RatesTyped'
      BY <3>1, <3>2 DEF RatesTyped
    <3>4. Rows'
      <4>1. previous' = IF readings' = <<>> THEN None ELSE Last(readings').counters
        BY <3>2 DEF Rows
      <4>2. ASSUME NEW i \in 1..n
            PROVE  /\ readings'[i].counters = CountersOf(At(i))' /\ At(i)' <= tried'
                   /\ readings'[i].qps = RateOf(i)'
                   /\ i > 1 => At(i - 1)' < At(i)'
        BY <2>0, <3>2, RowsStay
      <4> QED
        BY <2>0, <3>2, <4>1, <4>2 DEF Rows
    <3>5. Labelled'
      BY <2>0, <3>2 DEF Labelled
    <3>6. Stamped'
      BY <2>0, <2>s, <3>2
    <3> QED
      BY <3>3, <3>4, <3>5, <3>6
  <2>2. CASE Restart
    <3>2. /\ done' = done /\ tried' = tried /\ readings' = readings /\ clock' = clock
          /\ started' = clock /\ phase' = phase /\ previous' = previous
      BY <2>2 DEF Restart
    <3>3. RatesTyped'
      BY <3>2 DEF RatesTyped
    <3>4. Rows'
      <4>1. previous' = IF readings' = <<>> THEN None ELSE Last(readings').counters
        BY <3>2 DEF Rows
      <4>2. ASSUME NEW i \in 1..n
            PROVE  /\ readings'[i].counters = CountersOf(At(i))' /\ At(i)' <= tried'
                   /\ readings'[i].qps = RateOf(i)'
                   /\ i > 1 => At(i - 1)' < At(i)'
        BY <2>0, <3>2, RowsStay
      <4> QED
        BY <2>0, <3>2, <4>1, <4>2 DEF Rows
    <3>5. Labelled'
      BY <2>0, <3>2 DEF Labelled
    <3>6. Stamped'
      BY <2>0, <2>s, <3>2
    <3> QED
      BY <3>3, <3>4, <3>5, <3>6
  <2>3. CASE MarkPhase
    <3>1. /\ phase' \in PhaseSet /\ Rank(phase) <= Rank(phase')
          /\ UNCHANGED <<clock, done, started, tried, previous, readings>>
      BY <2>3, NextPhase DEF MarkPhase, RatesTyped
    <3>2. RatesTyped'
      BY <3>1 DEF RatesTyped
    <3>3. Rows'
      <4>1. previous' = IF readings' = <<>> THEN None ELSE Last(readings').counters
        BY <3>1 DEF Rows
      <4>2. ASSUME NEW i \in 1..n
            PROVE  /\ readings'[i].counters = CountersOf(At(i))' /\ At(i)' <= tried'
                   /\ readings'[i].qps = RateOf(i)'
                   /\ i > 1 => At(i - 1)' < At(i)'
        BY <2>0, <3>1, RowsStay
      <4> QED
        BY <2>0, <3>1, <4>1, <4>2 DEF Rows
    <3>4. Labelled'
      <4>1. ASSUME NEW i \in 1..n, NEW m \in 1..3, m <= Len(readings[i].labels)
            PROVE  Rank(readings[i].labels[m]) <= Rank(phase')
        <5>1. Rank(readings[i].labels[m]) <= Rank(phase)
          BY <2>0, <4>1 DEF Labelled
        <5>2. readings[i].labels[m] \in PhaseSet
          <6>1. readings[i].labels \in Seq(PhaseSet)
            BY <2>0 DEF ReadingType
          <6> QED
            BY <4>1, <6>1
        <5>3. Rank(readings[i].labels[m]) \in Int /\ Rank(phase) \in Int /\ Rank(phase') \in Int
          BY <3>1, <5>2, Ranks DEF RatesTyped
        <5> QED
          BY <3>1, <5>1, <5>3
      <4> QED
        BY <2>0, <3>1, <4>1 DEF Labelled
    <3>5. Stamped'
      BY <2>0, <2>s, <3>1
    <3> QED
      BY <3>2, <3>3, <3>4, <3>5
  <2>4. CASE Collect
    <3> DEFINE r == Reading(Status)
    <3>1. /\ readings' = Append(readings, r) /\ previous' = Status /\ tried < clock /\ tried' = clock
          /\ UNCHANGED <<clock, done, started, phase>>
          /\ n > 0 => Len(readings[n].labels) = 3
      <4>1. readings # <<>> => Len(Last(readings).labels) = 3
        BY <2>4 DEF Collect, Round, Resting, Metrics
      <4>2. n > 0 => Len(readings[n].labels) = 3
        BY <2>0, <4>1 DEF Last
      <4> QED
        BY <2>4, <4>2 DEF Collect, Round
    <3>2. Status = CountersOf(clock) /\ Status.at = clock /\ Status \in CounterType
      <4>1. Since(clock) = started
        BY DEF RatesTyped, Since
      <4>2. CountersOf(clock) \in CounterType
        BY <2>0, CountersTyped
      <4> QED
        BY <4>1, <4>2 DEF Status, CountersOf
    <3>3. /\ n = 0 => Qps(Status) = Num(0)
          /\ n > 0 => Qps(Status) = <<Max({0, Status.asked - readings[n].counters.asked}),
                                      Status.at - readings[n].counters.at>>
      <4>1. CASE n = 0
        <5>0. readings = <<>>
          BY <2>0, <4>1, EmptySeq
        <5>1. previous = None
          BY <5>0 DEF Rows
        <5> QED
          BY <4>1, <5>1 DEF Qps
      <4>2. CASE n > 0
        <5>1. previous = readings[n].counters
          BY <2>0, <4>2 DEF Rows, Last
        <5>2. previous # None
          BY <2>0, <4>2, <5>1 DEF None, At
        <5> QED
          BY <4>2, <5>1, <5>2 DEF Qps
      <4> QED
        BY <2>0, <4>1, <4>2
    <3>4. n > 0 => At(n) < clock
      BY <2>0, <3>1 DEF Rows
    <3>5. /\ r \in ReadingType /\ r.counters = Status /\ r.qps = Qps(Status) /\ r.labels = <<>>
          /\ r.stamp = clock
      <4>1. Qps(Status) \in Whole
        <5>1. CASE n = 0
          BY <3>3, <5>1 DEF Num, Whole
        <5>2. CASE n > 0
          <6>1. Status.asked - readings[n].counters.asked \in Int
            BY <2>0, <3>2, <5>2 DEF ReadingType, CounterType
          <6>2. Max({0, Status.asked - readings[n].counters.asked}) \in Nat
            BY <6>1, NotBelowZero
          <6>3. Status.at - readings[n].counters.at \in Nat \ {0}
            BY <2>0, <3>2, <3>4, <5>2 DEF At
          <6> QED
            BY <3>3, <5>2, <6>2, <6>3 DEF Whole
        <5> QED
          BY <2>0, <5>1, <5>2
      <4>2. <<>> \in Seq(PhaseSet)
        OBVIOUS
      <4> QED
        BY <3>2, <4>1, <4>2 DEF Reading, ReadingType, CounterType
    <3> HIDE DEF r
    <3>6. /\ Len(readings') = n + 1 /\ readings'[n + 1] = r /\ Last(readings') = r
          /\ \A k \in 1..n : readings'[k] = readings[k]
          /\ readings' # <<>>
      BY <2>0, <3>1, <3>5 DEF Last
    <3>7. RatesTyped'
      BY <2>0, <3>1, <3>5 DEF RatesTyped
    <3>8. Rows'
      <4>1. previous' = IF readings' = <<>> THEN None ELSE Last(readings').counters
        BY <3>1, <3>5, <3>6
      <4>2. ASSUME NEW i \in 1..n
            PROVE  /\ readings'[i].counters = CountersOf(At(i))' /\ At(i)' <= tried'
                   /\ readings'[i].qps = RateOf(i)'
                   /\ i > 1 => At(i - 1)' < At(i)'
        BY <2>0, <3>1, <3>6, RowsStay
      <4>3. At(n + 1)' = clock
        BY <3>2, <3>5, <3>6 DEF At
      <4>4. readings'[n + 1].counters = CountersOf(At(n + 1))'
        <5>1. CountersOf(At(n + 1))' = CountersOf(clock)
          BY <3>1, <4>3 DEF CountersOf, Grown, Since
        <5> QED
          BY <3>2, <3>5, <3>6, <5>1
      <4>5. readings'[n + 1].qps = RateOf(n + 1)'
        <5>1. CASE n = 0
          BY <3>3, <3>5, <3>6, <5>1 DEF RateOf
        <5>2. CASE n > 0
          <6>1. /\ Change(n + 1, "asked")' = Status.asked - readings[n].counters.asked
                /\ Change(n + 1, "at")' = Status.at - readings[n].counters.at
            BY <2>0, <3>5, <3>6, <5>2 DEF Change
          <6>2. n + 1 # 1
            BY <2>0, <5>2
          <6>3. RateOf(n + 1)' = <<Max({0, Change(n + 1, "asked")'}), Change(n + 1, "at")'>>
            BY <6>2 DEF RateOf
          <6> QED
            BY <3>3, <3>5, <3>6, <5>2, <6>1, <6>3
        <5> QED
          BY <2>0, <5>1, <5>2
      <4>6. n + 1 > 1 => At(n)' < At(n + 1)'
        <5>1. n > 0 => At(n)' = At(n)
          BY <2>0, <3>6 DEF At
        <5> QED
          BY <2>0, <3>4, <4>3, <5>1
      <4>7. At(n + 1)' <= tried'
        BY <2>0, <3>1, <4>3
      <4>8. ASSUME NEW i \in 1..(n + 1)
            PROVE  /\ readings'[i].counters = CountersOf(At(i))' /\ At(i)' <= tried'
                   /\ readings'[i].qps = RateOf(i)'
                   /\ i > 1 => At(i - 1)' < At(i)'
        <5>1. CASE i \in 1..n
          BY <4>2, <5>1
        <5>2. CASE i = n + 1
          BY <2>0, <4>4, <4>5, <4>6, <4>7, <5>2
        <5> QED
          BY <2>0, <5>1, <5>2
      <4> QED
        BY <3>6, <4>1, <4>8 DEF Rows
    <3>9. Labelled'
      <4>1. ASSUME NEW i \in 1..(n + 1)
            PROVE  /\ Len(readings'[i].labels) <= 3
                   /\ i < n + 1 => Len(readings'[i].labels) = 3
                   /\ \A m \in 1..3 : m <= Len(readings'[i].labels) =>
                         i \in 1..n /\ readings'[i].labels = readings[i].labels
        BY <2>0, <3>1, <3>5, <3>6 DEF Labelled
      <4>2. ASSUME NEW i \in 1..(n + 1), NEW j \in 1..(n + 1), NEW m \in 1..3, i <= j,
                   m <= Len(readings'[i].labels), m <= Len(readings'[j].labels)
            PROVE  Rank(readings'[i].labels[m]) <= Rank(readings'[j].labels[m])
        <5>1. /\ i \in 1..n /\ readings'[i].labels = readings[i].labels
              /\ j \in 1..n /\ readings'[j].labels = readings[j].labels
          BY <4>1, <4>2
        <5> QED
          BY <2>0, <4>2, <5>1 DEF Labelled
      <4>3. ASSUME NEW i \in 1..(n + 1), NEW m \in 1..3, m <= Len(readings'[i].labels)
            PROVE  Rank(readings'[i].labels[m]) <= Rank(phase)
        <5>1. i \in 1..n /\ readings'[i].labels = readings[i].labels
          BY <4>1, <4>3
        <5> QED
          BY <2>0, <4>3, <5>1 DEF Labelled
      <4> QED
        BY <3>1, <3>6, <4>1, <4>2, <4>3 DEF Labelled
    <3>10. Stamped'
      <4>1. ASSUME NEW i \in 1..(n + 1)
            PROVE  StampedAt(i)'
        <5>1. CASE i = n + 1
          <6>1. At(i)' = clock /\ readings'[i].stamp = clock
            BY <3>2, <3>5, <3>6, <5>1 DEF At
          <6>2. i > 1 => readings'[i - 1].stamp = readings[n].stamp /\ readings[n].stamp <= tried /\ readings[n].stamp \in Nat
            BY <2>0, <3>6, <5>1 DEF Stamped, StampedAt
          <6> QED
            BY <2>0, <3>1, <6>1, <6>2 DEF StampedAt
        <5>2. CASE i \in 1..n
          <6>1. StampedAt(i) /\ readings'[i] = readings[i] /\ (i > 1 => readings'[i - 1] = readings[i - 1])
            BY <2>0, <3>6, <5>2 DEF Stamped
          <6>2. readings[i].stamp <= tried' /\ At(i)' = At(i)
            BY <2>0, <3>1, <5>2, <6>1 DEF StampedAt, At
          <6> QED
            BY <6>1, <6>2 DEF StampedAt
        <5> QED
          BY <2>0, <5>1, <5>2
      <4> QED
        BY <3>6, <4>1 DEF Stamped
    <3> QED
      BY <3>7, <3>8, <3>9, <3>10
  <2>5. CASE CollectFails
    <3>1. tried' = clock /\ UNCHANGED <<clock, done, started, phase, previous, readings>>
      BY <2>5 DEF CollectFails, Round
    <3>2. RatesTyped'
      BY <3>1 DEF RatesTyped
    <3>3. Rows'
      <4>1. previous' = IF readings' = <<>> THEN None ELSE Last(readings').counters
        BY <3>1 DEF Rows
      <4>2. tried' \in Int /\ tried <= tried'
        BY <2>0, <3>1
      <4>3. ASSUME NEW i \in 1..n
            PROVE  /\ readings'[i].counters = CountersOf(At(i))' /\ At(i)' <= tried'
                   /\ readings'[i].qps = RateOf(i)'
                   /\ i > 1 => At(i - 1)' < At(i)'
        BY <2>0, <3>1, <4>2, RowsStay
      <4> QED
        BY <2>0, <3>1, <4>1, <4>3 DEF Rows
    <3>4. Labelled'
      BY <2>0, <3>1 DEF Labelled
    <3>5. Stamped'
      BY <2>0, <2>s, <3>1
    <3> QED
      BY <3>2, <3>3, <3>4, <3>5
  <2>6. CASE AddSample
    <3> DEFINE was == readings[n].labels
               sample == [readings[n] EXCEPT !.labels = Append(was, phase), !.stamp = clock]
    <3>1. /\ n > 0 /\ Len(was) < 3
          /\ readings' = [readings EXCEPT ![n] = sample]
          /\ tried' = clock
          /\ UNCHANGED <<clock, done, started, phase, previous>>
      <4>1. readings # <<>> /\ Len(Last(readings).labels) # 3
        BY <2>6 DEF AddSample, Resting, Metrics
      <4>2. n > 0 /\ Last(readings) = readings[n]
        BY <2>0, <4>1 DEF Last
      <4>3. Len(was) <= 3 /\ Len(was) \in Nat
        BY <2>0, <4>2 DEF Labelled, ReadingType
      <4>4. readings' = [readings EXCEPT ![Len(readings)].labels = Append(@, phase),
                                         ![Len(readings)].stamp = clock]
        BY <2>6 DEF AddSample
      <4>5. readings' = [readings EXCEPT ![n].labels = Append(@, phase), ![n].stamp = clock]
        BY <2>0, <4>4, Zenon
      <4>6. tried' = clock /\ UNCHANGED <<clock, done, started, phase, previous>>
        BY <2>6 DEF AddSample
      <4>7. readings' = [readings EXCEPT ![n] = sample]
        <5>1. n \in DOMAIN readings
          BY <2>0, <4>2
        <5> QED
          BY <4>5, <5>1, Zenon
      <4>8. n > 0 /\ Len(was) < 3
        <5>1. Len(was) # 3
          BY <4>1, <4>2, Zenon
        <5>2. PICK k : k = Len(was)
          OBVIOUS
        <5>3. k \in Nat /\ k <= 3 /\ k # 3
          BY <4>3, <5>1, <5>2, Zenon
        <5>4. k < 3
          BY <5>3
        <5> QED
          BY <4>2, <5>2, <5>4, Zenon
      <4> QED
        BY <4>6, <4>7, <4>8, Zenon
    <3>2. n \in 1..n /\ was \in Seq(PhaseSet) /\ phase \in PhaseSet
      BY <2>0, <3>1 DEF ReadingType, RatesTyped
    <3>3. /\ Len(readings') = n
          /\ \A k \in 1..n : /\ readings'[k].counters = readings[k].counters
                             /\ readings'[k].qps = readings[k].qps
                             /\ k < n => readings'[k] = readings[k]
          /\ readings'[n].labels = Append(was, phase) /\ readings'[n].stamp = clock
          /\ readings' \in Seq(ReadingType)
      <4> DEFINE reading == sample
      <4>1. readings' = [k \in 1..n |-> IF k = n THEN reading ELSE readings[k]]
        <5>1. DOMAIN readings = 1..n
          BY <2>0
        <5>2. readings' = [readings EXCEPT ![n] = reading]
          BY <3>1
        <5> HIDE DEF reading
        <5> QED
          BY <5>1, <5>2
      <4>2. reading \in ReadingType
        <5>1. Append(was, phase) \in Seq(PhaseSet)
          BY <3>2
        <5> QED
          BY <2>0, <3>2, <5>1 DEF ReadingType
      <4>3. /\ reading.labels = Append(was, phase) /\ reading.counters = readings[n].counters
            /\ reading.qps = readings[n].qps /\ reading.stamp = clock
        BY <2>0, <3>2 DEF ReadingType
      <4>4. readings' \in [1..n -> ReadingType]
        BY <2>0, <4>1, <4>2
      <4> HIDE DEF was, reading
      <4>5. readings' \in Seq(ReadingType) /\ Len(readings') = n
        BY <2>0, <4>4
      <4>6. readings'[n].labels = Append(was, phase) /\ readings'[n].stamp = clock
        BY <3>2, <4>1, <4>3
      <4>7. ASSUME NEW k \in 1..n
            PROVE  /\ readings'[k].counters = readings[k].counters
                   /\ readings'[k].qps = readings[k].qps
                   /\ k < n => readings'[k] = readings[k]
        BY <4>1, <4>3
      <4> QED
        BY <4>5, <4>6, <4>7
    <3> HIDE DEF was, sample
    <3>4. RatesTyped'
      BY <3>1, <3>3 DEF RatesTyped
    <3>5. Rows'
      <4>1. previous' = IF readings' = <<>> THEN None ELSE Last(readings').counters
        <5>1. previous = Last(readings).counters /\ Last(readings) = readings[n]
          BY <2>0, <3>1 DEF Rows, Last
        <5>2. Last(readings') = readings'[n] /\ readings' # <<>>
          BY <2>0, <3>1, <3>3 DEF Last
        <5> QED
          BY <3>1, <3>2, <3>3, <5>1, <5>2
      <4>2. ASSUME NEW i \in 1..n
            PROVE  /\ readings'[i].counters = CountersOf(At(i))' /\ At(i)' <= tried'
                   /\ readings'[i].qps = RateOf(i)'
                   /\ i > 1 => At(i - 1)' < At(i)'
        BY <2>0, <3>1, <3>3, RowsStay
      <4> QED
        BY <3>3, <4>1, <4>2 DEF Rows
    <3>6. Labelled'
      <4> DEFINE new == Append(was, phase)
      <4>1. /\ Len(new) = Len(was) + 1 /\ Len(was) \in Nat /\ new[Len(was) + 1] = phase
            /\ \A m \in 1..Len(was) : new[m] = was[m]
        BY <3>2
      <4> HIDE DEF new
      <4>2. \A i \in 1..n : readings'[i].labels = IF i = n THEN new ELSE readings[i].labels
        <5> TAKE i \in 1..n
        <5>1. CASE i = n
          BY <3>3, <5>1 DEF new
        <5>2. CASE i # n
          <6>1. readings'[i] = readings[i]
            BY <3>3, <5>2
          <6> QED
            BY <5>2, <6>1
        <5> QED
          BY <5>1, <5>2
      <4>3. \A i \in 1..n : Len(readings'[i].labels) <= 3 /\ (i < n => Len(readings'[i].labels) = 3)
        <5> TAKE i \in 1..n
        <5>1. CASE i = n
          BY <3>1, <4>1, <4>2, <5>1
        <5>2. CASE i # n
          BY <2>0, <4>2, <5>2 DEF Labelled
        <5> QED
          BY <5>1, <5>2
      <4>6. ASSUME NEW i \in 1..n, NEW m \in 1..3, m <= Len(readings'[i].labels),
                   ~(i = n /\ m = Len(was) + 1)
            PROVE  m <= Len(readings[i].labels) /\ readings'[i].labels[m] = readings[i].labels[m]
        <5>1. CASE i # n
          BY <4>2, <4>6, <5>1
        <5>2. CASE i = n
          <6>1. readings'[i].labels = new /\ readings[i].labels = was
            BY <4>2, <5>2 DEF was
          <6>2. m \in 1..Len(was)
            BY <4>1, <4>6, <5>2, <6>1
          <6>3. m <= Len(was) /\ new[m] = was[m]
            BY <4>1, <6>2
          <6> QED
            BY <6>1, <6>3
        <5> QED
          BY <5>1, <5>2
      <4>4. ASSUME NEW i \in 1..n, NEW m \in 1..3, m <= Len(readings'[i].labels)
            PROVE  /\ Rank(readings'[i].labels[m]) <= Rank(phase)
                   /\ Rank(readings'[i].labels[m]) \in Int
        <5>1. CASE i = n /\ m = Len(was) + 1
          BY <3>2, <4>1, <4>2, <5>1, Ranks
        <5>2. CASE ~(i = n /\ m = Len(was) + 1)
          <6>1. m <= Len(readings[i].labels) /\ readings'[i].labels[m] = readings[i].labels[m]
            BY <4>4, <4>6, <5>2
          <6>2. readings[i].labels[m] \in PhaseSet
            <7>1. readings[i].labels \in Seq(PhaseSet)
              BY <2>0 DEF ReadingType
            <7>2. m \in 1..Len(readings[i].labels)
              BY <6>1, <7>1
            <7> QED
              BY <7>1, <7>2
          <6>3. Rank(readings[i].labels[m]) <= Rank(phase)
            BY <2>0, <6>1 DEF Labelled
          <6> QED
            BY <6>1, <6>2, <6>3, Ranks
        <5> QED
          BY <5>1, <5>2
      <4>5. ASSUME NEW i \in 1..n, NEW j \in 1..n, NEW m \in 1..3, i <= j,
                   m <= Len(readings'[i].labels), m <= Len(readings'[j].labels)
            PROVE  Rank(readings'[i].labels[m]) <= Rank(readings'[j].labels[m])
        <5>1. CASE j = n /\ m = Len(was) + 1
          <6>1. readings'[j].labels[m] = phase
            BY <4>1, <4>2, <5>1
          <6> QED
            BY <4>4, <4>5, <6>1
        <5>2. CASE ~(j = n /\ m = Len(was) + 1)
          <6>1. m <= Len(readings[j].labels) /\ readings'[j].labels[m] = readings[j].labels[m]
            BY <4>5, <4>6, <5>2
          <6>2. ~(i = n /\ m = Len(was) + 1)
            BY <4>5, <5>2
          <6>3. m <= Len(readings[i].labels) /\ readings'[i].labels[m] = readings[i].labels[m]
            BY <4>5, <4>6, <6>2
          <6> QED
            BY <2>0, <4>5, <6>1, <6>3 DEF Labelled
        <5> QED
          BY <5>1, <5>2
      <4> QED
        BY <3>1, <3>3, <4>3, <4>4, <4>5 DEF Labelled
    <3>7. Stamped'
      <4>1. ASSUME NEW i \in 1..n
            PROVE  StampedAt(i)'
        <5>1. StampedAt(i) /\ At(i)' = At(i) /\ At(i) <= clock
          <6>1. StampedAt(i) /\ At(i) <= tried
            BY <2>0 DEF Stamped, Rows
          <6>2. At(i)' = At(i)
            BY <3>3 DEF At
          <6> QED
            BY <2>0, <6>1, <6>2
        <5>2. i > 1 => readings'[i - 1] = readings[i - 1]
          <6>1. i > 1 => i - 1 \in 1..n /\ i - 1 < n
            OBVIOUS
          <6> QED
            BY <3>3, <6>1
        <5>3. At(i) <= readings'[i].stamp /\ readings'[i].stamp <= clock
          <6>1. CASE i = n
            BY <2>0, <3>3, <5>1, <6>1
          <6>2. CASE i < n
            BY <2>0, <3>3, <5>1, <6>2 DEF StampedAt
          <6> QED
            BY <2>0, <6>1, <6>2
        <5> QED
          BY <3>1, <5>1, <5>2, <5>3 DEF StampedAt
      <4> QED
        BY <3>3, <4>1 DEF Stamped
    <3> QED
      BY <3>4, <3>5, <3>6, <3>7
  <2>7. CASE UNCHANGED ratesVars
    <3>1. UNCHANGED <<clock, done, started, phase, tried, previous, readings>>
      BY <2>7 DEF ratesVars
    <3>2. RatesTyped'
      BY <3>1 DEF RatesTyped
    <3>3. Rows'
      <4>1. previous' = IF readings' = <<>> THEN None ELSE Last(readings').counters
        BY <3>1 DEF Rows
      <4>2. tried' \in Int /\ tried <= tried'
        BY <2>0, <3>1
      <4>3. ASSUME NEW i \in 1..n
            PROVE  /\ readings'[i].counters = CountersOf(At(i))' /\ At(i)' <= tried'
                   /\ readings'[i].qps = RateOf(i)'
                   /\ i > 1 => At(i - 1)' < At(i)'
        BY <2>0, <3>1, <4>2, RowsStay
      <4> QED
        BY <2>0, <3>1, <4>1, <4>3 DEF Rows
    <3>4. Labelled'
      BY <3>1 DEF Labelled
    <3>5. Stamped'
      BY <2>0, <2>s, <3>1
    <3> QED
      BY <3>2, <3>3, <3>4, <3>5
  <2> QED
    BY <2>1, <2>2, <2>3, <2>4, <2>5, <2>6, <2>7 DEF RatesNext
<1> QED
  BY <1>1, <1>2, PTL DEF RatesSpec

-----------------------------------------------------------------------------
\* What the rates are.

\* The times of a reading and of the one before.
LEMMA TimesOf ==
  ASSUME RatesInv, NEW i \in 1..Len(readings)
  PROVE  /\ readings[i] \in ReadingType /\ At(i) \in 0..Len(done)
         /\ i > 1 => At(i - 1) \in 0..Len(done) /\ At(i - 1) < At(i)
<1>1. \A k \in 1..Len(readings) : readings[k] \in ReadingType /\ At(k) \in 0..Len(done)
  <2> TAKE k \in 1..Len(readings)
  <2>1. readings[k] \in ReadingType
    BY DEF RatesInv, RatesTyped
  <2>2. At(k) \in Nat /\ At(k) <= tried /\ tried \in -1..clock /\ clock = Len(done) /\ clock \in Nat
    BY <2>1 DEF RatesInv, RatesTyped, Rows, ReadingType, At
  <2> QED
    BY <2>1, <2>2
<1>2. i > 1 => i - 1 \in 1..Len(readings)
  OBVIOUS
<1> QED
  BY <1>1, <1>2 DEF RatesInv, Rows

\* Two neighbours of the readings, the second at tick b, the first at tick a.
\* The growth that a rate is made of is never more than there was, and it is
\* what there was unless the server was started anew.
LEMMA Growths ==
  ASSUME RatesInv, NEW i \in 2..Len(readings), NEW field \in Fields
  PROVE  \E a \in 0..Len(done), b \in 0..Len(done) :
           /\ a = At(i - 1) /\ b = At(i) /\ a < b
           /\ Change(i, "at") = b - a
           /\ Change(i, field) \in Int /\ Grown(field, a, b) \in Nat
           /\ Change(i, field) <= Grown(field, a, b)
           /\ started = 0 => Change(i, field) = Grown(field, a, b)
<1>1. i \in 1..Len(readings) /\ i - 1 \in 1..Len(readings) /\ i > 1
  BY DEF RatesInv, RatesTyped
<1>2. PICK a \in 0..Len(done), b \in 0..Len(done) : a = At(i - 1) /\ b = At(i) /\ a < b
  BY <1>1, TimesOf
<1>3. Change(i, "at") = b - a
  BY <1>2 DEF Change, At
<1>4. PICK G : Sums(G, field)
  BY SumsAre DEF RatesInv, RatesTyped
<1>5. readings[i].counters = CountersOf(b) /\ readings[i - 1].counters = CountersOf(a)
  BY <1>1, <1>2 DEF RatesInv, Rows
<1>6. PICK s \in 0..Len(done), r \in 0..Len(done) :
        /\ s = Since(b) /\ r = Since(a) /\ s <= b /\ r <= a
        /\ (r = s \/ (r = 0 /\ a <= s)) /\ (started = 0 => s = 0 /\ r = 0)
  <2>1. started \in 0..Len(done) /\ Len(done) \in Nat
    BY DEF RatesInv, RatesTyped
  <2>2. Since(b) \in 0..Len(done) /\ Since(a) \in 0..Len(done) /\ Since(b) <= b /\ Since(a) <= a
    BY <2>1 DEF Since
  <2>3. Since(a) = Since(b) \/ (Since(a) = 0 /\ a <= Since(b))
    BY <1>2, <2>1 DEF Since
  <2>4. started = 0 => Since(b) = 0 /\ Since(a) = 0
    BY DEF Since
  <2> QED
    BY <2>2, <2>3, <2>4
<1>7. CountersOf(b)[field] = Grown(field, s, b) /\ CountersOf(a)[field] = Grown(field, r, a)
  BY <1>6 DEF CountersOf, Fields
<1>8. Change(i, field) = (G[b] - G[s]) - (G[a] - G[r])
  <2>1. Grown(field, s, b) = G[b] - G[s] /\ Grown(field, r, a) = G[a] - G[r]
    BY <1>4, <1>6 DEF Sums
  <2> QED
    BY <1>5, <1>7, <2>1 DEF Change
<1>9. Grown(field, a, b) = G[b] - G[a] /\ G[a] <= G[b]
  BY <1>2, <1>4 DEF Sums
<1>10. PICK ga \in Nat, gb \in Nat, gs \in Nat, gr \in Nat :
         ga = G[a] /\ gb = G[b] /\ gs = G[s] /\ gr = G[r]
  BY <1>4 DEF Sums
<1>11. r = s => gr = gs
  BY <1>10
<1>12. r = 0 /\ a <= s => gr = 0 /\ ga <= gs
  <2>1. G[0] = 0
    BY <1>4 DEF Sums, Prefix
  <2> QED
    BY <1>4, <1>10, <2>1 DEF Sums
<1>13. Change(i, field) = (gb - gs) - (ga - gr) /\ Grown(field, a, b) = gb - ga /\ ga <= gb
  BY <1>8, <1>9, <1>10
<1>14. /\ Change(i, field) \in Int /\ Grown(field, a, b) \in Nat
       /\ Change(i, field) <= Grown(field, a, b)
       /\ started = 0 => Change(i, field) = Grown(field, a, b)
  BY <1>6, <1>11, <1>12, <1>13
<1> QED
  BY <1>2, <1>3, <1>14

\* A counted growth, from which time is taken again.
Counted(i) ==
  IF i = 1 THEN Num(0) ELSE <<readings[i].qps[1] * Change(i, "at"), readings[i].qps[2]>>

\* A fraction that is a whole number x.
IsWhole(f, x) == \E B \in Nat \ {0} : f = <<B * x, B>>

\* A whole number and growth without its time are a whole number.
LEMMA WholeAdds ==
  ASSUME NEW f, NEW x \in Nat, IsWhole(f, x), NEW d \in Nat, NEW t \in Nat \ {0}
  PROVE  IsWhole(Sum(f, <<d * t, t>>), x + d)
<1>1. PICK B \in Nat \ {0} : f = <<B * x, B>>
  BY DEF IsWhole
<1>2. Sum(f, <<d * t, t>>) = <<(B * x) * t + (d * t) * B, B * t>>
  BY <1>1 DEF Sum
<1>3. (B * x) * t + (d * t) * B = (B * t) * (x + d)
  OBVIOUS
<1>4. B * t \in Nat \ {0}
  OBVIOUS
<1> QED
  BY <1>2, <1>3, <1>4 DEF IsWhole

\* The counted growth of a reading, as d ticks' worth of questions.
LEMMA CountedIs ==
  ASSUME RatesInv, NEW i \in 2..Len(readings)
  PROVE  \E d \in Nat, t \in Nat \ {0} :
           /\ Counted(i) = <<d * t, t>> /\ readings[i].qps = <<d, t>>
           /\ d <= Grown("asked", At(i - 1), At(i))
           /\ started = 0 => d = Grown("asked", At(i - 1), At(i))
<1>1. PICK a \in 0..Len(done), b \in 0..Len(done) :
        /\ a = At(i - 1) /\ b = At(i) /\ a < b
        /\ Change(i, "at") = b - a
        /\ Change(i, "asked") \in Int /\ Grown("asked", a, b) \in Nat
        /\ Change(i, "asked") <= Grown("asked", a, b)
        /\ started = 0 => Change(i, "asked") = Grown("asked", a, b)
  BY Growths DEF Fields
<1>2. PICK d \in Nat, t \in Nat \ {0} : d = Max({0, Change(i, "asked")}) /\ t = b - a
  BY <1>1, NotBelowZero
<1>3. d <= Grown("asked", a, b) /\ (started = 0 => d = Grown("asked", a, b))
  BY <1>1, <1>2, NotBelowZero
<1>4. i # 1 /\ i \in 1..Len(readings)
  OBVIOUS
<1>5. readings[i].qps = RateOf(i)
  BY <1>4 DEF RatesInv, Rows
<1>6. readings[i].qps = <<d, t>>
  BY <1>1, <1>2, <1>4, <1>5 DEF RateOf
<1>7. Counted(i) = <<d * t, t>>
  BY <1>1, <1>2, <1>4, <1>6 DEF Counted
<1> QED
  BY <1>1, <1>3, <1>6, <1>7
\* One reading after the other: their growths add up to what was asked between
\* the first and the last, less what a restart took.
LEMMA Tiles ==
  ASSUME RatesInv
  PROVE  RatesTile
<1> SUFFICES ASSUME readings # <<>>
             PROVE  LET counted == Total([i \in DOMAIN readings |-> Counted(i)])
                        asked == Num(Grown("asked", readings[1].counters.at, Last(readings).counters.at))
                    IN /\ \A i \in DOMAIN readings : ~Less(readings[i].qps, Num(0))
                       /\ Same(counted, asked) \/ (started > 0 /\ Less(counted, asked))
  BY DEF RatesTile, Counted
<1>n. PICK n \in Nat \ {0} : n = Len(readings) /\ DOMAIN readings = 1..n
  <2>1. readings \in Seq(ReadingType)
    BY DEF RatesInv, RatesTyped
  <2> QED
    BY <2>1, EmptySeq
<1> DEFINE c == [i \in DOMAIN readings |-> Counted(i)]
<1>1. /\ c[1] = Num(0) /\ \A i \in 1..n : c[i] = Counted(i)
      /\ DOMAIN c = 1..n
  BY <1>n DEF Counted
<1>2. \A i \in 1..n : c[i] \in Whole /\ ~Less(readings[i].qps, Num(0))
  <2> TAKE i \in 1..n
  <2>1. CASE i = 1
    <3>1. readings[1].qps = Num(0)
      BY <1>n, <2>1 DEF RatesInv, Rows, RateOf
    <3> HIDE DEF c
    <3>2. c[i] \in Whole
      BY <1>1, <2>1 DEF Num, Whole
    <3>3. ~Less(Num(0), Num(0))
      BY DEF Num, Less
    <3> QED
      BY <2>1, <3>1, <3>2, <3>3
  <2>2. CASE i # 1
    <3>1. PICK d \in Nat, t \in Nat \ {0} : Counted(i) = <<d * t, t>> /\ readings[i].qps = <<d, t>>
      <4>1. i \in 2..Len(readings)
        BY <1>n, <2>2
      <4> QED
        BY <4>1, CountedIs
    <3>2. c[i] = <<d * t, t>> /\ d * t \in Nat
      BY <1>1, <3>1
    <3> HIDE DEF c
    <3>3. c[i] \in Whole
      BY <3>2 DEF Whole
    <3>4. ~(d * 1 < 0 * t)
      OBVIOUS
    <3> QED
      BY <3>1, <3>3, <3>4 DEF Num, Less
  <2> QED
    BY <2>1, <2>2
<1> HIDE DEF c
<1>3. c \in Seq(Whole) /\ Len(c) = n
  <2>1. c = [i \in 1..n |-> c[i]]
    BY <1>n DEF c
  <2> QED
    BY <1>2, <2>1
<1>4. PICK f \in [0..n -> Whole] :
        /\ f[0] = Num(0)
        /\ \A i \in 1..n : f[i] = Sum(f[i - 1], c[i])
        /\ Total(c) = f[n]
  BY <1>3, TotalRuns
<1>5. PICK G : Sums(G, "asked")
  BY SumsAre DEF RatesInv, RatesTyped, Fields
<1>6. PICK when \in [1..n -> 0..Len(done)] :
        (\A i \in 1..n : when[i] = At(i)) /\ \A i \in 2..n : when[i - 1] < when[i]
  <2> DEFINE when == [i \in 1..n |-> At(i)]
  <2>1. \A i \in 1..n : At(i) \in 0..Len(done)
    BY <1>n, TimesOf
  <2>2. \A i \in 2..n : when[i - 1] < when[i]
    BY <1>n, TimesOf
  <2> QED
    BY <2>1, <2>2
<1> DEFINE All(k) == G[when[k]] - G[when[1]]
           Good == {k \in 0..n : k >= 1 =>
                      /\ when[1] <= when[k]
                      /\ \E x \in Nat : /\ IsWhole(f[k], x) /\ x <= All(k)
                                        /\ started = 0 => x = All(k)}
<1>7. 0 \in Good
  OBVIOUS
<1>8. ASSUME NEW k \in 0..n, k < n, k \in Good
      PROVE  k + 1 \in Good
  <2>1. k + 1 \in 0..n /\ k + 1 \in 1..n /\ (k + 1) - 1 = k
    BY <1>8
  <2>2. CASE k = 0
    <3>1. f[k + 1] = Sum(Num(0), Num(0))
      BY <1>1, <1>4, <2>1, <2>2
    <3>2. f[k + 1] = <<1 * 0, 1>>
      BY <3>1 DEF Sum, Num
    <3>3. IsWhole(f[k + 1], 0)
      BY <3>2 DEF IsWhole
    <3>4. All(k + 1) = 0 /\ when[1] <= when[k + 1]
      <4>1. when[1] \in 0..Len(done)
        BY <2>1, <2>2
      <4>2. G[when[1]] \in Nat
        BY <1>5, <4>1 DEF Sums
      <4> QED
        BY <2>2, <4>1, <4>2
    <3>5. 0 \in Nat /\ 0 <= All(k + 1) /\ (started = 0 => 0 = All(k + 1))
      BY <3>4
    <3> HIDE DEF All
    <3> QED
      BY <2>1, <3>3, <3>4, <3>5
  <2>3. CASE k >= 1
    <3>1. k \in 1..n /\ k + 1 \in 2..n /\ 1 \in 1..n
      BY <1>8, <2>3
    <3>2. PICK x \in Nat : /\ IsWhole(f[k], x) /\ x <= All(k)
                           /\ started = 0 => x = All(k)
      BY <1>8, <2>3
    <3>3. PICK d \in Nat, t \in Nat \ {0} :
            /\ Counted(k + 1) = <<d * t, t>>
            /\ d <= Grown("asked", At(k), At(k + 1))
            /\ started = 0 => d = Grown("asked", At(k), At(k + 1))
      BY <1>n, <2>1, <3>1, CountedIs
    <3>4. f[k + 1] = Sum(f[k], <<d * t, t>>)
      BY <1>1, <1>4, <2>1, <3>3
    <3>5. IsWhole(f[k + 1], x + d)
      <4>1. IsWhole(f[k], x)
        BY <3>2
      <4>2. IsWhole(Sum(f[k], <<d * t, t>>), x + d)
        BY <4>1, WholeAdds
      <4> QED
        BY <3>4, <4>2, Zenon
    <3>6. when[1] <= when[k] /\ when[k] < when[k + 1] /\ when[1] \in 0..Len(done) /\ when[k] \in 0..Len(done)
          /\ when[k + 1] \in 0..Len(done)
      BY <1>6, <1>8, <2>1, <2>3, <3>1
    <3>7. Grown("asked", At(k), At(k + 1)) = G[when[k + 1]] - G[when[k]]
      <4>1. Grown("asked", when[k], when[k + 1]) = G[when[k + 1]] - G[when[k]]
        BY <1>5, <3>6 DEF Sums
      <4> QED
        BY <1>6, <2>1, <3>1, <4>1
    <3>8. PICK g1 \in Nat, gk \in Nat, gn \in Nat : g1 = G[when[1]] /\ gk = G[when[k]] /\ gn = G[when[k + 1]]
      BY <1>5, <3>6 DEF Sums
    <3>9. /\ x <= gk - g1 /\ (started = 0 => x = gk - g1)
          /\ d <= gn - gk /\ (started = 0 => d = gn - gk)
          /\ All(k + 1) = gn - g1
      BY <3>2, <3>3, <3>7, <3>8
    <3>10. x + d \in Nat /\ x + d <= All(k + 1) /\ (started = 0 => x + d = All(k + 1))
      BY <3>9
    <3>11. when[1] <= when[k + 1]
      BY <3>6
    <3> HIDE DEF All
    <3> QED
      BY <2>1, <3>5, <3>10, <3>11
  <2> QED
    BY <2>2, <2>3
<1> HIDE DEF Good
<1>9. \A k \in 0..n : k \in Good
  BY <1>7, <1>8, UpTo
<1>10. PICK x \in Nat : /\ IsWhole(f[n], x) /\ x <= All(n) /\ when[1] <= when[n]
                        /\ started = 0 => x = All(n)
  <2>1. n \in Good /\ n >= 1
    BY <1>9
  <2> QED
    BY <2>1 DEF Good
<1>11. PICK y \in Nat : /\ y = All(n)
                        /\ y = Grown("asked", readings[1].counters.at, Last(readings).counters.at)
  <2>1. 1 \in 1..n /\ n \in 1..n
    OBVIOUS
  <2>2. when[1] \in 0..Len(done) /\ when[n] \in 0..Len(done) /\ when[1] = At(1) /\ when[n] = At(n)
    BY <1>6, <2>1
  <2>3. Last(readings) = readings[n]
    BY <1>n DEF Last
  <2>4. Grown("asked", when[1], when[n]) = G[when[n]] - G[when[1]] /\ G[when[n]] \in Nat /\ G[when[1]] \in Nat
        /\ G[when[1]] <= G[when[n]]
    BY <1>5, <1>10, <2>2 DEF Sums
  <2>5. Grown("asked", when[1], when[n]) = Grown("asked", readings[1].counters.at, Last(readings).counters.at)
    BY <2>2, <2>3 DEF At
  <2> QED
    BY <2>4, <2>5
<1>12. PICK B \in Nat \ {0} : Total(c) = <<B * x, B>>
  BY <1>4, <1>10 DEF IsWhole
<1>13. x <= y /\ (started = 0 => x = y)
  BY <1>10, <1>11
<1>14. x = y => (B * x) * 1 = y * B
  OBVIOUS
<1>15. x < y => (B * x) * 1 < y * B
  OBVIOUS
<1>16. started \in Nat
  BY DEF RatesInv, RatesTyped
<1>17. Same(<<B * x, B>>, Num(y)) \/ (started > 0 /\ Less(<<B * x, B>>, Num(y)))
  <2> HIDE DEF All
  <2> QED
    BY <1>13, <1>14, <1>15, <1>16 DEF Same, Less, Finite, Num
<1> QED
  BY <1>n, <1>2, <1>11, <1>12, <1>17 DEF c

-----------------------------------------------------------------------------
\* Growth over time, and what the ticks say of it.

\* What bounds the growth in each tick bounds it over several.
LEMMA RangeBounds ==
  ASSUME NEW n \in Nat, NEW g \in [1..n -> Nat], NEW G \in [0..n -> Nat], Prefix(G, g, n),
         NEW a \in 0..n, NEW b \in 0..n, a < b, NEW q \in Nat, NEW p \in Nat
  PROVE  /\ (\A t \in (a + 1)..b : p * g[t] <= q) => AtMost(<<G[b] - G[a], b - a>>, q, p)
         /\ (\A t \in (a + 1)..b : q <= p * g[t]) => AtLeast(<<G[b] - G[a], b - a>>, q, p)
<1> DEFINE one == [t \in 1..n |-> 1]
           id  == [t \in 0..n |-> t]
           Low  == {c \in Nat \X Nat : AtMost(c, q, p)}
           High == {c \in Nat \X Nat : AtLeast(c, q, p)}
<1>1. one \in [1..n -> Nat] /\ id \in [0..n -> Nat] /\ Prefix(id, one, n)
  BY DEF Prefix
<1>2. /\ \A t \in (a + 1)..b : one[t] = 1 /\ t \in 1..n
      /\ id[b] - id[a] = b - a
  OBVIOUS
<1> HIDE DEF one, id
<1>3. Closed(Low)
  <2>1. ASSUME NEW c \in Low, NEW d \in Low
        PROVE  <<c[1] + d[1], c[2] + d[2]>> \in Low
    <3>1. PICK c1 \in Nat, c2 \in Nat, d1 \in Nat, d2 \in Nat : c = <<c1, c2>> /\ d = <<d1, d2>>
      OBVIOUS
    <3>2. p * c1 <= q * c2 /\ p * d1 <= q * d2
      BY <2>1, <3>1 DEF AtMost
    <3>3. p * (c1 + d1) = p * c1 + p * d1 /\ q * (c2 + d2) = q * c2 + q * d2
      OBVIOUS
    <3>4. p * (c1 + d1) <= q * (c2 + d2)
      BY <3>2, <3>3
    <3>5. AtMost(<<c1 + d1, c2 + d2>>, q, p)
      BY <3>4 DEF AtMost
    <3> QED
      BY <3>1, <3>5
  <2> QED
    BY <2>1 DEF Closed
<1>4. Closed(High)
  <2>1. ASSUME NEW c \in High, NEW d \in High
        PROVE  <<c[1] + d[1], c[2] + d[2]>> \in High
    <3>1. PICK c1 \in Nat, c2 \in Nat, d1 \in Nat, d2 \in Nat : c = <<c1, c2>> /\ d = <<d1, d2>>
      OBVIOUS
    <3>2. q * c2 <= p * c1 /\ q * d2 <= p * d1
      BY <2>1, <3>1 DEF AtLeast
    <3>3. p * (c1 + d1) = p * c1 + p * d1 /\ q * (c2 + d2) = q * c2 + q * d2
      OBVIOUS
    <3>4. q * (c2 + d2) <= p * (c1 + d1)
      BY <3>2, <3>3
    <3>5. AtLeast(<<c1 + d1, c2 + d2>>, q, p)
      BY <3>4 DEF AtLeast
    <3> QED
      BY <3>1, <3>5
  <2> QED
    BY <2>1 DEF Closed
<1>5. ASSUME \A t \in (a + 1)..b : p * g[t] <= q
      PROVE  AtMost(<<G[b] - G[a], b - a>>, q, p)
  <2>1. \A t \in (a + 1)..b : <<g[t], one[t]>> \in Low
    <3> TAKE t \in (a + 1)..b
    <3>1. PICK x \in Nat : x = g[t]
      BY <1>2
    <3>2. AtMost(<<x, 1>>, q, p)
      BY <1>5, <3>1 DEF AtMost
    <3>3. <<g[t], one[t]>> = <<x, 1>> /\ <<x, 1>> \in Nat \X Nat
      BY <1>2, <3>1
    <3> QED
      BY <3>2, <3>3
  <2> HIDE DEF Low
  <2>2. <<G[b] - G[a], id[b] - id[a]>> \in Low
    BY <1>1, <1>3, <2>1, RangeIn
  <2> QED
    BY <1>2, <2>2 DEF Low
<1>6. ASSUME \A t \in (a + 1)..b : q <= p * g[t]
      PROVE  AtLeast(<<G[b] - G[a], b - a>>, q, p)
  <2>1. \A t \in (a + 1)..b : <<g[t], one[t]>> \in High
    <3> TAKE t \in (a + 1)..b
    <3>1. PICK x \in Nat : x = g[t]
      BY <1>2
    <3>2. AtLeast(<<x, 1>>, q, p)
      BY <1>6, <3>1 DEF AtLeast
    <3>3. <<g[t], one[t]>> = <<x, 1>> /\ <<x, 1>> \in Nat \X Nat
      BY <1>2, <3>1
    <3> QED
      BY <3>2, <3>3
  <2> HIDE DEF High
  <2>2. <<G[b] - G[a], id[b] - id[a]>> \in High
    BY <1>1, <1>4, <2>1, RangeIn
  <2> QED
    BY <1>2, <2>2 DEF High
<1> QED
  BY <1>5, <1>6

\* So do the bounds of the server's work.
LEMMA GrowthBounds ==
  ASSUME RatesInv, NEW field \in Fields, NEW q \in Nat, NEW p \in Nat,
         NEW a \in 0..Len(done), NEW b \in 0..Len(done), a < b
  PROVE  /\ (\A t \in (a + 1)..b : p * done[t][field] <= q)
              => AtMost(<<Grown(field, a, b), b - a>>, q, p)
         /\ (\A t \in (a + 1)..b : q <= p * done[t][field])
              => AtLeast(<<Grown(field, a, b), b - a>>, q, p)
<1>1. PICK G : Sums(G, field)
  BY SumsAre DEF RatesInv, RatesTyped
<1>2. Field(field) \in [1..Len(done) -> Nat] /\ Len(done) \in Nat
  BY SumsAre DEF RatesInv, RatesTyped
<1>3. \A t \in (a + 1)..b : Field(field)[t] = done[t][field]
  BY DEF Field
<1>4. Grown(field, a, b) = G[b] - G[a] /\ G \in [0..Len(done) -> Nat] /\ Prefix(G, Field(field), Len(done))
  BY <1>1 DEF Sums
<1>5. PICK g \in [1..Len(done) -> Nat] : g = Field(field)
  BY <1>2
<1>6. PICK n \in Nat : n = Len(done)
  BY <1>2
<1>7. /\ (\A t \in (a + 1)..b : p * g[t] <= q) => AtMost(<<G[b] - G[a], b - a>>, q, p)
      /\ (\A t \in (a + 1)..b : q <= p * g[t]) => AtLeast(<<G[b] - G[a], b - a>>, q, p)
  BY <1>4, <1>5, <1>6, RangeBounds
<1> QED
  BY <1>3, <1>4, <1>5, <1>7

-----------------------------------------------------------------------------
\* The rates of some readings.

\* The ticks of some readings are ticks that passed, and every reading but the
\* first has one.
LEMMA TicksAre ==
  ASSUME RatesInv, NEW D \in SUBSET (1..Len(readings))
  PROVE  /\ Ticks(D) \in SUBSET (1..Len(done))
         /\ \A t \in Ticks(D) : done[t].asked \in Nat /\ done[t].missed \in Nat
         /\ \A i \in D : i # 1 => /\ \A t \in (At(i - 1) + 1)..At(i) : t \in Ticks(D)
                                  /\ At(i) \in Ticks(D)
<1>1. ASSUME NEW i \in D, i # 1
      PROVE  /\ At(i - 1) \in 0..Len(done) /\ At(i) \in 0..Len(done) /\ At(i - 1) < At(i)
             /\ (At(i - 1) + 1)..At(i) \in SUBSET (1..Len(done))
             /\ At(i) \in (At(i - 1) + 1)..At(i)
  <2>1. i \in 1..Len(readings) /\ i > 1
    BY <1>1
  <2>2. PICK a \in 0..Len(done), b \in 0..Len(done) : a = At(i - 1) /\ b = At(i) /\ a < b
    BY <2>1, TimesOf
  <2> QED
    BY <2>2
<1>2. Ticks(D) = UNION {(At(i - 1) + 1)..At(i) : i \in D \ {1}}
  BY DEF Ticks, At
<1>3. Ticks(D) \in SUBSET (1..Len(done))
  BY <1>1, <1>2
<1>4. \A t \in Ticks(D) : done[t].asked \in Nat /\ done[t].missed \in Nat
  <2> TAKE t \in Ticks(D)
  <2>1. done[t] \in Works
    BY <1>3 DEF RatesInv, RatesTyped
  <2> QED
    BY <2>1 DEF Works
<1> QED
  BY <1>1, <1>2, <1>3, <1>4

\* A rate is between what its ticks brought.
LEMMA RateBounds ==
  ASSUME RatesInv, started = 0, NEW D \in SUBSET (1..Len(readings)), NEW i \in D,
         NEW q \in Nat, NEW p \in Nat
  PROVE  /\ readings[i].qps \in Whole
         /\ (\A t \in Ticks(D) : p * done[t].asked <= q) => AtMost(readings[i].qps, q, p)
         /\ i # 1 /\ (\A t \in Ticks(D) : q <= p * done[t].asked) => AtLeast(readings[i].qps, q, p)
<1>1. readings[i].qps \in Whole
  <2>1. readings[i] \in ReadingType
    BY TimesOf
  <2> QED
    BY <2>1 DEF ReadingType
<1>2. CASE i = 1
  <2>1. readings[i].qps = Num(0)
    BY <1>2 DEF RatesInv, Rows, RateOf
  <2>2. AtMost(Num(0), q, p)
    BY DEF AtMost, Num
  <2> QED
    BY <1>1, <1>2, <2>1, <2>2
<1>3. CASE i # 1
  <2>1. i \in 2..Len(readings) /\ i \in 1..Len(readings)
    BY <1>3
  <2>2. PICK a \in 0..Len(done), b \in 0..Len(done) :
          /\ a = At(i - 1) /\ b = At(i) /\ a < b
          /\ Change(i, "at") = b - a
          /\ Change(i, "asked") \in Int /\ Grown("asked", a, b) \in Nat
          /\ Change(i, "asked") = Grown("asked", a, b)
    BY <2>1, Growths DEF Fields
  <2>3. readings[i].qps = <<Grown("asked", a, b), b - a>>
    <3>1. Max({0, Change(i, "asked")}) = Grown("asked", a, b)
      BY <2>2, NotBelowZero
    <3>2. readings[i].qps = RateOf(i)
      BY <2>1 DEF RatesInv, Rows
    <3> QED
      BY <1>3, <2>2, <3>1, <3>2 DEF RateOf
  <2>4. \A t \in (a + 1)..b : t \in Ticks(D)
    BY <1>3, <2>2, TicksAre
  <2>5. /\ (\A t \in (a + 1)..b : p * done[t].asked <= q)
             => AtMost(<<Grown("asked", a, b), b - a>>, q, p)
        /\ (\A t \in (a + 1)..b : q <= p * done[t].asked)
             => AtLeast(<<Grown("asked", a, b), b - a>>, q, p)
    BY <2>2, GrowthBounds DEF Fields
  <2> QED
    BY <1>1, <2>3, <2>4, <2>5
<1> QED
  BY <1>2, <1>3

\* The mean of the rates is between what the ticks brought; the first reading's
\* rate of 0 can only be below.
LEMMA RatesBounds ==
  ASSUME RatesInv, started = 0, NEW labels, NEW q \in Nat, NEW p \in Nat
  PROVE  /\ Rated(labels) \in SUBSET (1..Len(readings))
         /\ Rates(labels) = <<>> <=> Rated(labels) = {}
         /\ Rated(labels) # {} => Mean(Rates(labels)) \in Whole
         /\ Rated(labels) # {} /\ (\A t \in Ticks(Rated(labels)) : p * done[t].asked <= q)
              => AtMost(Mean(Rates(labels)), q, p)
         /\ Rated(labels) # {} /\ 1 \notin Rated(labels)
              /\ (\A t \in Ticks(Rated(labels)) : q <= p * done[t].asked)
              => AtLeast(Mean(Rates(labels)), q, p)
<1>1. PICK n \in Nat : n = Len(readings) /\ DOMAIN readings = 1..n
  BY DEF RatesInv, RatesTyped
<1>2. Rated(labels) \in SUBSET (1..n)
  BY <1>1 DEF Rated
<1>3. PICK D \in SUBSET (1..n) : D = Rated(labels)
  BY <1>2
<1> DEFINE f == [i \in D |-> readings[i].qps]
           s == InOrder(f, n)
<1>4. s = Rates(labels)
  BY <1>1, <1>3 DEF Rates
<1>5. \A i \in D : readings[i].qps \in Whole
  BY <1>1, RateBounds
<1>6. s \in Seq(Whole) /\ (s = <<>> <=> D = {})
  <2>1. f \in [D -> Whole]
    BY <1>5
  <2> HIDE DEF f
  <2> QED
    BY <2>1, InOrderIs
<1>7. ASSUME D # {}, \A t \in Ticks(D) : p * done[t].asked <= q
      PROVE  AtMost(Mean(s), q, p)
  <2> DEFINE A == {x \in Whole : AtMost(x, q, p)}
  <2>1. f \in [D -> A]
    BY <1>1, <1>5, <1>7, RateBounds
  <2> HIDE DEF f, A
  <2>2. s \in Seq(A)
    BY <2>1, InOrderIs
  <2> HIDE DEF s
  <2>3. \A i \in 1..Len(s) : s[i] \in A
    BY <2>2
  <2>4. \A i \in 1..Len(s) : AtMost(s[i], q, p)
    BY <2>3 DEF A
  <2> QED
    BY <1>6, <1>7, <2>4, MeanBounds
<1>8. ASSUME D # {}, 1 \notin D, \A t \in Ticks(D) : q <= p * done[t].asked
      PROVE  AtLeast(Mean(s), q, p)
  <2> DEFINE A == {x \in Whole : AtLeast(x, q, p)}
  <2>1. f \in [D -> A]
    BY <1>1, <1>5, <1>8, RateBounds
  <2> HIDE DEF f, A
  <2>2. s \in Seq(A)
    BY <2>1, InOrderIs
  <2> HIDE DEF s
  <2>3. \A i \in 1..Len(s) : s[i] \in A
    BY <2>2
  <2>4. \A i \in 1..Len(s) : AtLeast(s[i], q, p)
    BY <2>3 DEF A
  <2> QED
    BY <1>6, <1>8, <2>4, MeanBounds
<1>9. D # {} => Mean(s) \in Whole
  <2> HIDE DEF s
  <2> QED
    BY <1>6, MeanBounds
<1> HIDE DEF s
<1> QED
  BY <1>1, <1>3, <1>4, <1>6, <1>7, <1>8, <1>9
-----------------------------------------------------------------------------
\* Labels.

\* The labels of a metric are phases, in the order of the phases.
LEMMA LabelOrder ==
  ASSUME RatesInv, Resting, NEW metric \in {"reads", "requests", "qps"},
         NEW i \in 1..Len(readings), NEW j \in 1..Len(readings), i <= j
  PROVE  /\ LabelOf(i, metric) \in PhaseSet /\ LabelOf(j, metric) \in PhaseSet
         /\ Rank(LabelOf(i, metric)) <= Rank(LabelOf(j, metric))
<1> DEFINE m == CHOOSE k \in 1..Len(Metrics) : Metrics[k] = metric
<1>1. m \in 1..3
  <2>1. Len(Metrics) = 3 /\ Metrics[1] = "reads" /\ Metrics[2] = "requests" /\ Metrics[3] = "qps"
    BY DEF Metrics
  <2>2. \E k \in 1..3 : Metrics[k] = metric
    <3>1. 1 \in 1..3 /\ 2 \in 1..3 /\ 3 \in 1..3
      OBVIOUS
    <3> QED
      BY <2>1, <3>1
  <2> QED
    BY <2>1, <2>2
<1>2. /\ LabelOf(i, metric) = readings[i].labels[m]
      /\ LabelOf(j, metric) = readings[j].labels[m]
  BY DEF LabelOf
<1> HIDE DEF m
<1>3. \A k \in 1..Len(readings) : Len(readings[k].labels) = 3 /\ readings[k].labels \in Seq(PhaseSet)
  <2> TAKE k \in 1..Len(readings)
  <2>1. readings[k].labels \in Seq(PhaseSet)
    <3>1. readings[k] \in ReadingType
      BY TimesOf
    <3> QED
      BY <3>1 DEF ReadingType
  <2>2. PICK n \in Nat \ {0} : n = Len(readings) /\ readings # <<>>
    BY DEF RatesInv, RatesTyped
  <2>3. CASE k < n
    BY <2>1, <2>2, <2>3 DEF RatesInv, Labelled
  <2>4. CASE k = n
    <3>1. Last(readings) = readings[n] /\ Len(Metrics) = 3
      BY <2>2 DEF Last, Metrics
    <3> QED
      BY <2>1, <2>2, <2>4, <3>1 DEF Resting
  <2> QED
    BY <2>2, <2>3, <2>4
<1>4. m <= Len(readings[i].labels) /\ m <= Len(readings[j].labels)
  <2>1. Len(readings[i].labels) = 3 /\ Len(readings[j].labels) = 3
    BY <1>3
  <2>2. m <= 3
    BY <1>1
  <2> QED
    BY <2>1, <2>2
<1>5. readings[i].labels[m] \in PhaseSet /\ readings[j].labels[m] \in PhaseSet
  BY <1>1, <1>3
<1>6. Rank(readings[i].labels[m]) <= Rank(readings[j].labels[m])
  BY <1>1, <1>4 DEF RatesInv, Labelled
<1> QED
  BY <1>2, <1>5, <1>6

-----------------------------------------------------------------------------
\* Drops.

\* The thresholds of the nodes are fractions.
LEMMA Thresholds ==
  ASSUME NEW node \in DOMAIN Threshold
  PROVE  \E p \in Nat, q \in Nat \ {0} : Threshold[node] = <<p, q>>
BY DEF Threshold

\* What Slower says, and what a ratio of means below a threshold does.
Slower(a, u, x) == Less(Num(a), <<x[1] * u, x[2]>>)

\* It is an inequality of products.
LEMMA SlowerIs ==
  ASSUME NEW a \in Nat, NEW u \in Nat, NEW p \in Nat, NEW q \in Nat \ {0}
  PROVE  Slower(a, u, <<p, q>>) <=> q * a < p * u
BY DEF Slower, Less, Finite, Num

\* So is a ratio of means below a threshold.
LEMMA RatioIs ==
  ASSUME NEW x \in Whole, NEW y \in Whole, NEW p \in Nat, NEW q \in Nat \ {0}, y[1] # 0
  PROVE  Less(Over(x, y), <<p, q>>) <=> (x[1] * y[2]) * q < p * (x[2] * y[1])
<1>1. PICK x1 \in Nat, x2 \in Nat \ {0}, y1 \in Nat \ {0}, y2 \in Nat \ {0} :
        x = <<x1, x2>> /\ y = <<y1, y2>>
  BY DEF Whole
<1>2. Over(x, y) = <<x1 * y2, x2 * y1>>
  BY <1>1 DEF Over
<1>3. x2 * y1 # 0
  OBVIOUS
<1> QED
  BY <1>1, <1>2, <1>3 DEF Less, Finite

\* If no tick is slower than the threshold allows, then the slowest one bounds
\* the mean of the anomaly's rates from below and, by the threshold, the mean of
\* the baseline's from above, and the ratio of the means is not below it.
LEMMA DropIsSome ==
  ASSUME RatesInv
  PROVE  DropIsADrop
<1> DEFINE act  == Rated(ActivePhases)
           base == Rated({"baseline"})
<1> SUFFICES ASSUME Judged, started = 0, act # {}, Less(Num(0), MeanOrZero(Rates({"baseline"}))),
                    NEW node \in DOMAIN Threshold, Dropped(node),
                    \A slow \in Ticks(act), usual \in Ticks(base) :
                      ~Slower(done[slow].asked, done[usual].asked, Threshold[node])
             PROVE  FALSE
  BY DEF DropIsADrop, Slower
<1>1. PICK p \in Nat, q \in Nat \ {0} : Threshold[node] = <<p, q>>
  BY Thresholds
<1>2. /\ act \in SUBSET (1..Len(readings)) /\ base \in SUBSET (1..Len(readings))
      /\ Rates(ActivePhases) # <<>> /\ Mean(Rates(ActivePhases)) \in Whole
      /\ Rates({"baseline"}) = <<>> <=> base = {}
      /\ base # {} => Mean(Rates({"baseline"})) \in Whole
  BY RatesBounds
<1>3. base # {}
  <2>1. ~Less(Num(0), Num(0))
    BY DEF Less, Num
  <2> QED
    BY <1>2, <2>1 DEF MeanOrZero
<1>4. \A i \in act : i # 1
  <2> SUFFICES ASSUME 1 \in act
               PROVE  FALSE
    OBVIOUS
  <2>1. PICK j \in base : TRUE
    BY <1>3
  <2>2. 1 \in 1..Len(readings) /\ j \in 1..Len(readings) /\ 1 <= j
    BY <1>2, <2>1
  <2>3. Rank(LabelOf(1, "qps")) <= Rank(LabelOf(j, "qps"))
    BY <2>2, LabelOrder DEF Judged
  <2>4. LabelOf(1, "qps") \in {"injection", "recovery"} /\ LabelOf(j, "qps") = "baseline"
    BY <2>1 DEF Rated, ActivePhases
  <2> QED
    BY <2>3, <2>4, Ranks
<1>5. PICK slow \in Ticks(act) : \A t \in Ticks(act) : done[slow].asked <= done[t].asked
  <2> DEFINE S == {done[t].asked : t \in Ticks(act)}
  <2>1. \A t \in Ticks(act) : done[t].asked \in Nat
    BY <1>2, TicksAre
  <2>2. Ticks(act) # {}
    <3>1. PICK i \in act : i # 1
      BY <1>4
    <3> QED
      BY <1>2, <3>1, TicksAre
  <2>3. S \in SUBSET Nat /\ S # {}
    BY <2>1, <2>2
  <2>4. PICK a \in S : \A b \in S : a <= b
    BY <2>3, Least
  <2> QED
    BY <2>4
<1>6. PICK lo \in Nat : lo = done[slow].asked
  BY <1>2, <1>5, TicksAre
<1>7. \A t \in Ticks(act) : lo <= 1 * done[t].asked
  <2> TAKE t \in Ticks(act)
  <2>1. done[t].asked \in Nat
    BY <1>2, TicksAre
  <2> QED
    BY <1>5, <1>6, <2>1
<1>8. \A t \in Ticks(base) : p * done[t].asked <= q * lo
  <2> TAKE t \in Ticks(base)
  <2>1. PICK u \in Nat : u = done[t].asked
    BY <1>2, TicksAre
  <2>2. ~(q * lo < p * u)
    BY <1>1, <1>5, <1>6, <2>1, SlowerIs
  <2>3. q * lo \in Nat /\ p * u \in Nat
    OBVIOUS
  <2> QED
    BY <2>1, <2>2, <2>3
<1>9. AtLeast(Mean(Rates(ActivePhases)), lo, 1)
  BY <1>4, <1>7, RatesBounds
<1>10. AtMost(Mean(Rates({"baseline"})), q * lo, p)
  <2>1. q * lo \in Nat
    OBVIOUS
  <2> QED
    BY <1>3, <1>8, <2>1, RatesBounds
<1>11. PICK x1 \in Nat, x2 \in Nat \ {0}, y1 \in Nat, y2 \in Nat \ {0} :
         /\ Mean(Rates(ActivePhases)) = <<x1, x2>> /\ Mean(Rates({"baseline"})) = <<y1, y2>>
         /\ lo * x2 <= 1 * x1 /\ p * y1 <= (q * lo) * y2
  BY <1>2, <1>3, <1>9, <1>10 DEF Whole, AtLeast, AtMost
<1>12. /\ MeanOrZero(Rates(ActivePhases)) = <<x1, x2>>
       /\ MeanOrZero(Rates({"baseline"})) = <<y1, y2>>
  BY <1>2, <1>3, <1>11 DEF MeanOrZero
<1>13. y1 # 0
  BY <1>12 DEF Less, Num, Finite
<1>14. (x1 * y2) * q < p * (x2 * y1)
  <2>1. ~Same(<<y1, y2>>, Num(0))
    BY <1>13 DEF Same, Num
  <2>2. Less(Over(<<x1, x2>>, <<y1, y2>>), <<p, q>>)
    BY <1>1, <1>12, <2>1 DEF Dropped, RatioOfMeans
  <2>3. <<x1, x2>> \in Whole /\ <<y1, y2>> \in Whole /\ <<y1, y2>>[1] # 0
    BY <1>13 DEF Whole
  <2>4. Less(Over(<<x1, x2>>, <<y1, y2>>), <<p, q>>)
          <=> (<<x1, x2>>[1] * <<y1, y2>>[2]) * q < p * (<<x1, x2>>[2] * <<y1, y2>>[1])
    BY <2>3, RatioIs
  <2> QED
    BY <2>2, <2>4
<1>15. p * (x2 * y1) <= (x1 * y2) * q
  <2>1. (p * y1) * x2 <= ((q * lo) * y2) * x2
    BY <1>11, Times
  <2>2. (lo * x2) * (q * y2) <= x1 * (q * y2)
    <3>1. lo * x2 <= x1 /\ lo * x2 \in Nat /\ q * y2 \in Nat
      BY <1>11
    <3> QED
      BY <3>1, Times
  <2>3. (p * y1) * x2 = p * (x2 * y1) /\ (lo * x2) * (q * y2) = ((q * lo) * y2) * x2
        /\ x1 * (q * y2) = (x1 * y2) * q
    OBVIOUS
  <2>4. p * (x2 * y1) \in Nat /\ ((q * lo) * y2) * x2 \in Nat /\ (x1 * y2) * q \in Nat
    OBVIOUS
  <2> QED
    BY <2>1, <2>2, <2>3, <2>4
<1>16. p * (x2 * y1) \in Nat /\ (x1 * y2) * q \in Nat
  OBVIOUS
<1> QED
  BY <1>14, <1>15, <1>16
\* If every tick is slower, then the least that the baseline's ticks brought
\* bounds the baseline's mean from below and, by the threshold, the anomaly's from
\* above.
LEMMA SustainedIsFound ==
  ASSUME RatesInv
  PROVE  DropIsFound
<1> DEFINE act  == Rated(ActivePhases)
           base == Rated({"baseline"})
<1> SUFFICES ASSUME Judged, started = 0, NEW node \in DOMAIN Threshold, 1 \notin base,
                    Ticks(act) # {}, Ticks(base) # {},
                    \A slow \in Ticks(act), usual \in Ticks(base) :
                      Slower(done[slow].asked, done[usual].asked, Threshold[node])
             PROVE  Dropped(node)
  BY DEF DropIsFound, Sustained, Slower
<1>1. PICK p \in Nat, q \in Nat \ {0} : Threshold[node] = <<p, q>>
  BY Thresholds
<1>2. act # {} /\ base # {}
  BY DEF Ticks
<1>3. /\ act \in SUBSET (1..Len(readings)) /\ base \in SUBSET (1..Len(readings))
      /\ Rates(ActivePhases) # <<>> /\ Mean(Rates(ActivePhases)) \in Whole
      /\ Rates({"baseline"}) # <<>> /\ Mean(Rates({"baseline"})) \in Whole
  BY <1>2, RatesBounds
<1>4. PICK usual \in Ticks(base) : \A t \in Ticks(base) : done[usual].asked <= done[t].asked
  <2> DEFINE S == {done[t].asked : t \in Ticks(base)}
  <2>1. \A t \in Ticks(base) : done[t].asked \in Nat
    BY <1>3, TicksAre
  <2>2. S \in SUBSET Nat /\ S # {}
    BY <2>1
  <2>3. PICK a \in S : \A b \in S : a <= b
    BY <2>2, Least
  <2> QED
    BY <2>3
<1>5. PICK u \in Nat : u = done[usual].asked
  BY <1>3, <1>4, TicksAre
<1>6. \A t \in Ticks(base) : u <= 1 * done[t].asked
  <2> TAKE t \in Ticks(base)
  <2>1. done[t].asked \in Nat
    BY <1>3, TicksAre
  <2> QED
    BY <1>4, <1>5, <2>1
<1>7. \A t \in Ticks(act) : q * done[t].asked < p * u
  <2> TAKE t \in Ticks(act)
  <2>1. PICK a \in Nat : a = done[t].asked
    BY <1>3, TicksAre
  <2> QED
    BY <1>1, <1>4, <1>5, <2>1, SlowerIs
<1>8. PICK r \in Nat : p * u = r + 1
  <2>1. PICK t \in Ticks(act) : TRUE
    OBVIOUS
  <2>2. PICK a \in Nat : a = done[t].asked
    BY <1>3, <2>1, TicksAre
  <2>3. q * a < p * u /\ q * a \in Nat /\ p * u \in Nat
    BY <1>7, <2>2
  <2>4. p * u - 1 \in Nat /\ p * u = (p * u - 1) + 1
    BY <2>3
  <2> QED
    BY <2>4
<1>9. \A t \in Ticks(act) : q * done[t].asked <= r
  <2> TAKE t \in Ticks(act)
  <2>1. PICK a \in Nat : a = done[t].asked
    BY <1>3, TicksAre
  <2>2. q * a < r + 1 /\ q * a \in Nat
    BY <1>7, <1>8, <2>1
  <2> QED
    BY <2>1, <2>2
<1>10. AtMost(Mean(Rates(ActivePhases)), r, q)
  BY <1>2, <1>9, RatesBounds
<1>11. AtLeast(Mean(Rates({"baseline"})), u, 1)
  BY <1>2, <1>6, RatesBounds
<1>12. PICK x1 \in Nat, x2 \in Nat \ {0}, y1 \in Nat, y2 \in Nat \ {0} :
         /\ Mean(Rates(ActivePhases)) = <<x1, x2>> /\ Mean(Rates({"baseline"})) = <<y1, y2>>
         /\ q * x1 <= r * x2 /\ u * y2 <= 1 * y1
  BY <1>3, <1>10, <1>11 DEF Whole, AtLeast, AtMost
<1>13. /\ MeanOrZero(Rates(ActivePhases)) = <<x1, x2>>
       /\ MeanOrZero(Rates({"baseline"})) = <<y1, y2>>
  BY <1>3, <1>12 DEF MeanOrZero
<1>14. y1 # 0
  <2>1. u # 0
    <3>1. u = 0 => p * u = 0
      OBVIOUS
    <3> QED
      BY <1>8, <3>1
  <2>2. u * y2 # 0 /\ u * y2 \in Nat
    BY <2>1
  <2> QED
    BY <1>12, <2>2
<1>15. (x1 * y2) * q < p * (x2 * y1)
  <2>1. (q * x1) * y2 <= (r * x2) * y2
    BY <1>12, Times
  <2>2. (u * y2) * (p * x2) <= y1 * (p * x2)
    <3>1. u * y2 <= y1 /\ u * y2 \in Nat /\ p * x2 \in Nat
      BY <1>12
    <3> QED
      BY <3>1, Times
  <2>3. (p * u) * (x2 * y2) = (r * x2) * y2 + x2 * y2
    <3>1. (p * u) * (x2 * y2) = (r + 1) * (x2 * y2)
      BY <1>8
    <3>2. (r + 1) * (x2 * y2) = (r * x2) * y2 + x2 * y2
      OBVIOUS
    <3> QED
      BY <3>1, <3>2
  <2>4. x2 * y2 \in Nat \ {0}
    OBVIOUS
  <2>5. (q * x1) * y2 = (x1 * y2) * q /\ y1 * (p * x2) = p * (x2 * y1)
        /\ (u * y2) * (p * x2) = (p * u) * (x2 * y2)
    OBVIOUS
  <2>6. (r * x2) * y2 \in Nat /\ (x1 * y2) * q \in Nat /\ p * (x2 * y1) \in Nat
        /\ (p * u) * (x2 * y2) \in Nat
    OBVIOUS
  <2> QED
    BY <2>1, <2>2, <2>3, <2>4, <2>5, <2>6
<1>16. Less(Over(<<x1, x2>>, <<y1, y2>>), <<p, q>>)
  <2>1. <<x1, x2>> \in Whole /\ <<y1, y2>> \in Whole /\ <<y1, y2>>[1] # 0
    BY <1>14 DEF Whole
  <2>2. Less(Over(<<x1, x2>>, <<y1, y2>>), <<p, q>>)
          <=> (<<x1, x2>>[1] * <<y1, y2>>[2]) * q < p * (<<x1, x2>>[2] * <<y1, y2>>[1])
    BY <2>1, RatioIs
  <2> QED
    BY <1>15, <2>2
<1>17. ~Same(<<y1, y2>>, Num(0))
  BY <1>14 DEF Same, Num
<1> QED
  BY <1>1, <1>13, <1>16, <1>17 DEF Dropped, RatioOfMeans

-----------------------------------------------------------------------------
\* The intervals of a window.

\* Intervals are of neighbours in the window, with a question and no restart.
LEMMA IntervalsAre ==
  ASSUME RatesInv, started = 0, NEW phases
  PROVE  /\ Intervals(phases) \in SUBSET (2..Len(readings))
         /\ \A i \in Intervals(phases) :
              /\ In(i, phases) /\ (phases = {"baseline"} => In(i - 1, phases))
              /\ Change(i, "missed") \in Nat /\ Change(i, "asked") \in Nat \ {0}
              /\ Change(i, "at") \in Nat \ {0} /\ Elapsed(i) \in Nat \ {0}
              /\ Late(i - 1) <= Late(i) => Change(i, "at") <= Elapsed(i)
              /\ Late(i) <= Late(i - 1) => Elapsed(i) <= Change(i, "at")
<1>1. DOMAIN readings = 1..Len(readings) /\ Len(readings) \in Nat
  BY DEF RatesInv, RatesTyped
<1>0. \A k \in 1..Len(readings) : readings[k].stamp \in Nat /\ readings[k].counters.at \in Nat
  <2> TAKE k \in 1..Len(readings)
  <2>1. readings[k] \in ReadingType
    BY DEF RatesInv, RatesTyped
  <2> QED
    BY <2>1 DEF ReadingType
<1>2. Intervals(phases) \in SUBSET (2..Len(readings))
  BY <1>1 DEF Intervals, Neighbours
<1>3. ASSUME NEW i \in Intervals(phases)
      PROVE  /\ In(i, phases) /\ (phases = {"baseline"} => In(i - 1, phases))
             /\ Change(i, "missed") \in Nat /\ Change(i, "asked") \in Nat \ {0}
             /\ Change(i, "at") \in Nat \ {0} /\ Elapsed(i) \in Nat \ {0}
             /\ Late(i - 1) <= Late(i) => Change(i, "at") <= Elapsed(i)
             /\ Late(i) <= Late(i - 1) => Elapsed(i) <= Change(i, "at")
  <2>1. i \in 2..Len(readings)
    BY <1>2
  <2>2. Change(i, "missed") \in Int /\ Change(i, "asked") \in Int /\ Change(i, "at") \in Nat \ {0}
    <3>1. PICK a \in 0..Len(done), b \in 0..Len(done) :
            a < b /\ Change(i, "at") = b - a /\ Change(i, "missed") \in Int
      BY <2>1, Growths DEF Fields
    <3>2. Change(i, "asked") \in Int
      BY <2>1, Growths DEF Fields
    <3> QED
      BY <3>1, <3>2
  <2>3. Elapsed(i) > 0 /\ Elapsed(i) \in Int
    <3>1. Elapsed(i) > 0
      BY DEF Intervals
    <3>2. i \in 1..Len(readings) /\ i - 1 \in 1..Len(readings)
      BY <1>1, <2>1
    <3>3. readings[i].stamp \in Nat /\ readings[i - 1].stamp \in Nat
      BY <1>0, <3>2
    <3> QED
      BY <3>1, <3>3 DEF Elapsed
  <2>4. /\ Late(i - 1) <= Late(i) => Change(i, "at") <= Elapsed(i)
        /\ Late(i) <= Late(i - 1) => Elapsed(i) <= Change(i, "at")
    <3>1. i \in 1..Len(readings) /\ i - 1 \in 1..Len(readings)
      BY <1>1, <2>1
    <3>2. PICK s \in Nat, a \in Nat : s = readings[i].stamp /\ a = readings[i].counters.at
      BY <1>0, <3>1
    <3>3. PICK t \in Nat, b \in Nat : t = readings[i - 1].stamp /\ b = readings[i - 1].counters.at
      BY <1>0, <3>1
    <3>4. Late(i) = s - a /\ Late(i - 1) = t - b /\ Change(i, "at") = a - b /\ Elapsed(i) = s - t
      BY <3>2, <3>3 DEF Late, Change, Elapsed
    <3> QED
      BY <3>4
  <2>5. In(i, phases) /\ (phases = {"baseline"} => In(i - 1, phases))
    BY DEF Intervals, Neighbours
  <2>6. Change(i, "missed") >= 0 /\ Change(i, "asked") > 0
    BY DEF Intervals
  <2> QED
    BY <2>2, <2>3, <2>4, <2>5, <2>6
<1> QED
  BY <1>2, <1>3

\* The share of missed pages of a window is in what holds the shares of its
\* intervals,
LEMMA ChangesIn ==
  ASSUME RatesInv, started = 0, NEW phases, Intervals(phases) # {}, NEW C, Closed(C),
         \A i \in Intervals(phases) : <<Change(i, "missed"), Change(i, "asked")>> \in C
  PROVE  MissRatio(phases) \in C
<1>1. PICK n \in Nat : n = Len(readings)
  BY DEF RatesInv, RatesTyped
<1>2. PICK D \in SUBSET (1..n) : D = Intervals(phases)
  <2>1. Intervals(phases) \in SUBSET (2..n)
    BY <1>1, IntervalsAre
  <2> QED
    BY <2>1
<1> DEFINE g == [i \in D |-> Change(i, "missed")]
           h == [i \in D |-> Change(i, "asked")]
<1>3. g \in [D -> Nat] /\ h \in [D -> Nat] /\ \A i \in D : <<g[i], h[i]>> \in C
  BY <1>2, IntervalsAre
<1>4. MissRatio(phases) = <<SumFunction(g), SumFunction(h)>>
  BY <1>2 DEF MissRatio
<1> HIDE DEF g, h
<1>5. D # {}
  BY <1>2
<1>6. <<SumFunction(g), SumFunction(h)>> \in C
  BY <1>3, <1>5, SetIn
<1> QED
  BY <1>4, <1>6

\* and of their ticks.
LEMMA MissesIn ==
  ASSUME RatesInv, started = 0, NEW phases, Intervals(phases) # {}, NEW C, Closed(C),
         \A t \in Ticks(Intervals(phases)) : <<done[t].missed, done[t].asked>> \in C
  PROVE  MissRatio(phases) \in C
<1>1. ASSUME NEW i \in Intervals(phases)
      PROVE  <<Change(i, "missed"), Change(i, "asked")>> \in C
  <2>1. i \in 2..Len(readings) /\ Intervals(phases) \in SUBSET (1..Len(readings)) /\ i # 1
    <3>1. Intervals(phases) \in SUBSET (2..Len(readings)) /\ Len(readings) \in Nat
      BY IntervalsAre DEF RatesInv, RatesTyped
    <3> QED
      BY <3>1
  <2>2. PICK n \in Nat : n = Len(done)
    BY DEF RatesInv, RatesTyped
  <2>3. PICK a \in 0..n, b \in 0..n :
          a = At(i - 1) /\ b = At(i) /\ a < b /\ Change(i, "missed") = Grown("missed", a, b)
    BY <2>1, <2>2, Growths DEF Fields
  <2>4. Change(i, "asked") = Grown("asked", a, b)
    BY <2>1, <2>3, Growths DEF Fields
  <2>5. PICK G, H : Sums(G, "missed") /\ Sums(H, "asked")
    BY SumsAre DEF Fields, RatesInv, RatesTyped
  <2>6. PICK g \in [1..n -> Nat], h \in [1..n -> Nat] : g = Field("missed") /\ h = Field("asked")
    BY <2>2, SumsAre DEF Fields, RatesInv, RatesTyped
  <2>7. /\ G \in [0..n -> Nat] /\ H \in [0..n -> Nat] /\ Prefix(G, g, n) /\ Prefix(H, h, n)
        /\ Grown("missed", a, b) = G[b] - G[a] /\ Grown("asked", a, b) = H[b] - H[a]
    BY <2>2, <2>3, <2>5, <2>6 DEF Sums
  <2>8. \A t \in (a + 1)..b : <<g[t], h[t]>> \in C
    <3> TAKE t \in (a + 1)..b
    <3>1. t \in Ticks(Intervals(phases)) /\ t \in 1..n
      <4>1. t \in 1..n
        BY <2>3
      <4>2. \A k \in (At(i - 1) + 1)..At(i) : k \in Ticks(Intervals(phases))
        BY <2>1, TicksAre
      <4> QED
        BY <2>3, <4>1, <4>2
    <3>2. g[t] = done[t].missed /\ h[t] = done[t].asked
      BY <2>2, <2>6, <3>1 DEF Field
    <3> QED
      BY <3>1, <3>2
  <2>9. <<G[b] - G[a], H[b] - H[a]>> \in C
    BY <2>3, <2>7, <2>8, RangeIn
  <2> QED
    BY <2>3, <2>4, <2>7, <2>9
<1> QED
  BY <1>1, ChangesIn

\* A rate over a longer time is lower.
LEMMA LongerIsLess ==
  ASSUME NEW m \in Nat, NEW x \in Nat \ {0}, NEW y \in Nat \ {0}, x <= y, NEW q \in Nat, NEW p \in Nat
  PROVE  /\ AtMost(<<m, x>>, q, p) => AtMost(<<m, y>>, q, p)
         /\ AtLeast(<<m, y>>, q, p) => AtLeast(<<m, x>>, q, p)
<1>1. q * x <= q * y
  <2>1. x * q <= y * q
    BY Times
  <2>2. x * q = q * x /\ y * q = q * y
    OBVIOUS
  <2> QED
    BY <2>1, <2>2
<1>2. p * m \in Nat /\ q * x \in Nat /\ q * y \in Nat
  OBVIOUS
<1> QED
  BY <1>1, <1>2 DEF AtMost, AtLeast

\* The mean of a window's physical reads is between what its ticks missed, where
\* its samples are not nearer than its counters, or not farther apart.
LEMMA ReadsBounds ==
  ASSUME RatesInv, started = 0, NEW phases, Intervals(phases) # {}, NEW q \in Nat, NEW p \in Nat
  PROVE  /\ PhysicalReads(phases) \in Whole
         /\ (/\ \A i \in Intervals(phases) : Late(i - 1) <= Late(i)
             /\ \A t \in Ticks(Intervals(phases)) : p * done[t].missed <= q)
              => AtMost(PhysicalReads(phases), q, p)
         /\ (/\ \A i \in Intervals(phases) : Late(i) <= Late(i - 1)
             /\ \A t \in Ticks(Intervals(phases)) : q <= p * done[t].missed)
              => AtLeast(PhysicalReads(phases), q, p)
<1>1. PICK n \in Nat : n = Len(readings)
  BY DEF RatesInv, RatesTyped
<1>2. PICK D \in SUBSET (1..n) : D = Intervals(phases) /\ D \in SUBSET (2..n)
  <2>1. Intervals(phases) \in SUBSET (2..n)
    BY <1>1, IntervalsAre
  <2> QED
    BY <2>1
<1> DEFINE rate(i) == <<Change(i, "missed"), Elapsed(i)>>
           f == [i \in D |-> rate(i)]
           s == InOrder(f, n)
           Low == (\A i \in D : Late(i - 1) <= Late(i)) /\ \A t \in Ticks(D) : p * done[t].missed <= q
           High == (\A i \in D : Late(i) <= Late(i - 1)) /\ \A t \in Ticks(D) : q <= p * done[t].missed
<1>3. PhysicalReads(phases) = Mean(s)
  BY <1>1, <1>2 DEF PhysicalReads
<1>4. ASSUME NEW i \in D
      PROVE  /\ rate(i) \in Whole
             /\ Low => AtMost(rate(i), q, p)
             /\ High => AtLeast(rate(i), q, p)
  <2>1. i \in 2..Len(readings) /\ i # 1 /\ D \in SUBSET (1..Len(readings))
    BY <1>1, <1>2
  <2>2. PICK a \in 0..Len(done), b \in 0..Len(done) :
          /\ a = At(i - 1) /\ b = At(i) /\ a < b
          /\ Change(i, "at") = b - a /\ Change(i, "missed") = Grown("missed", a, b)
    BY <2>1, Growths DEF Fields
  <2>3. \A t \in (a + 1)..b : t \in Ticks(D)
    BY <2>1, <2>2, TicksAre
  <2>4. /\ (\A t \in (a + 1)..b : p * done[t].missed <= q)
             => AtMost(<<Grown("missed", a, b), b - a>>, q, p)
        /\ (\A t \in (a + 1)..b : q <= p * done[t].missed)
             => AtLeast(<<Grown("missed", a, b), b - a>>, q, p)
    BY <2>2, GrowthBounds DEF Fields
  <2>5. PICK m \in Nat, x \in Nat \ {0}, y \in Nat \ {0} :
          /\ m = Change(i, "missed") /\ x = Change(i, "at") /\ y = Elapsed(i)
          /\ Late(i - 1) <= Late(i) => x <= y
          /\ Late(i) <= Late(i - 1) => y <= x
    BY <1>2, IntervalsAre
  <2>6. rate(i) = <<m, y>> /\ <<Grown("missed", a, b), b - a>> = <<m, x>>
    BY <2>2, <2>5
  <2>7. <<m, y>> \in Whole
    BY <2>5 DEF Whole
  <2>8. ASSUME Low
        PROVE  AtMost(<<m, y>>, q, p)
    <3>1. AtMost(<<m, x>>, q, p)
      BY <2>3, <2>4, <2>6, <2>8
    <3>2. x <= y
      BY <2>5, <2>8
    <3> QED
      BY <3>1, <3>2, LongerIsLess
  <2>9. ASSUME High
        PROVE  AtLeast(<<m, y>>, q, p)
    <3>1. AtLeast(<<m, x>>, q, p)
      BY <2>3, <2>4, <2>6, <2>9
    <3>2. y <= x
      BY <2>5, <2>9
    <3> QED
      BY <3>1, <3>2, LongerIsLess
  <2> HIDE DEF rate, Low, High
  <2> QED
    BY <2>6, <2>7, <2>8, <2>9
<1> HIDE DEF rate, Low, High
<1>5. s \in Seq(Whole) /\ s # <<>>
  <2>1. f \in [D -> Whole]
    BY <1>4
  <2> HIDE DEF f
  <2> QED
    BY <1>2, <2>1, InOrderIs
<1>6. ASSUME Low
      PROVE  AtMost(Mean(s), q, p)
  <2> DEFINE A == {x \in Whole : AtMost(x, q, p)}
  <2>1. f \in [D -> A]
    BY <1>4, <1>6
  <2> HIDE DEF f, A
  <2>2. s \in Seq(A)
    BY <2>1, InOrderIs
  <2> HIDE DEF s
  <2>3. \A i \in 1..Len(s) : s[i] \in A
    BY <2>2
  <2>4. \A i \in 1..Len(s) : AtMost(s[i], q, p)
    BY <2>3 DEF A
  <2> QED
    BY <1>5, <2>4, MeanBounds
<1>7. ASSUME High
      PROVE  AtLeast(Mean(s), q, p)
  <2> DEFINE A == {x \in Whole : AtLeast(x, q, p)}
  <2>1. f \in [D -> A]
    BY <1>4, <1>7
  <2> HIDE DEF f, A
  <2>2. s \in Seq(A)
    BY <2>1, InOrderIs
  <2> HIDE DEF s
  <2>3. \A i \in 1..Len(s) : s[i] \in A
    BY <2>2
  <2>4. \A i \in 1..Len(s) : AtLeast(s[i], q, p)
    BY <2>3 DEF A
  <2> QED
    BY <1>5, <2>4, MeanBounds
<1>8. Mean(s) \in Whole
  <2> HIDE DEF s
  <2> QED
    BY <1>5, MeanBounds
<1> HIDE DEF s
<1> QED
  BY <1>2, <1>3, <1>6, <1>7, <1>8 DEF Low, High
\* The greatest and the smallest of some of the first numbers.
LEMMA EndsOf ==
  ASSUME NEW n \in Nat, NEW S \in SUBSET (0..n), S # {}
  PROVE  /\ Max(S) \in S /\ \A x \in S : x <= Max(S)
         /\ Min(S) \in S /\ \A x \in S : Min(S) <= x
<1>1. PICK m \in S : \A x \in S : m <= x
  <2>1. S \in SUBSET Nat
    OBVIOUS
  <2> QED
    BY <2>1, Least
<1>2. Min(S) \in S /\ \A x \in S : Min(S) <= x
  BY <1>1 DEF Min
<1> DEFINE Rest == {n - x : x \in S}
<1>3. Rest \in SUBSET Nat /\ Rest # {}
  <2>1. \A x \in S : n - x \in Nat
    OBVIOUS
  <2>2. PICK x \in S : TRUE
    OBVIOUS
  <2>3. n - x \in Rest
    OBVIOUS
  <2> QED
    BY <2>1, <2>3
<1>4. PICK r \in Rest : \A x \in Rest : r <= x
  BY <1>3, Least
<1>5. PICK last \in S : r = n - last
  OBVIOUS
<1>6. \A y \in S : last >= y
  <2> TAKE y \in S
  <2>1. n - last <= n - y
    BY <1>4, <1>5
  <2> QED
    BY <2>1
<1>7. Max(S) \in S /\ \A y \in S : Max(S) >= y
  BY <1>6 DEF Max
<1>8. \A y \in S : y <= Max(S)
  <2> TAKE y \in S
  <2>1. PICK top \in S : top = Max(S)
    BY <1>7
  <2>2. top >= y
    BY <1>7, <2>1
  <2>3. y <= top
    BY <2>2
  <2> QED
    BY <2>1, <2>3
<1> QED
  BY <1>2, <1>7, <1>8

\* The times of the samples that are labelled so.
Sampled(phases) == {readings[i].counters.at : i \in {j \in DOMAIN readings : LabelOf(j, "reads") \in phases}}

\* Where the ticks of the windows are.
LEMMA WindowsAre ==
  ASSUME RatesInv, Judged, started = 0, Intervals({"baseline"}) # {}, Intervals({"injection"}) # {}
  PROVE  /\ \A t \in Ticks(Intervals({"injection"})) :
              t \in (Max(Sampled({"baseline"})) + 1)..Max(Sampled({"injection"}))
         /\ \A t \in Ticks(Intervals({"baseline"})) :
              t \in (Min(Sampled({"baseline"})) + 1)..Max(Sampled({"baseline"}))
<1> DEFINE base == {"baseline"}
           window == {"injection"}
<1>1. PICK n \in Nat, m \in Nat : n = Len(readings) /\ m = Len(done) /\ DOMAIN readings = 1..n
  BY DEF RatesInv, RatesTyped
<1>2. \A phases : Sampled(phases) \in SUBSET (0..m)
  <2>1. \A i \in 1..n : readings[i].counters.at \in 0..m
    BY <1>1, TimesOf DEF At
  <2> QED
    BY <1>1, <2>1 DEF Sampled
<1>3. \A phases : \A i \in 1..n : LabelOf(i, "reads") \in phases => At(i) \in Sampled(phases)
  BY <1>1 DEF Sampled, At
<1>4. Intervals(base) \in SUBSET (2..n) /\ Intervals(window) \in SUBSET (2..n)
  BY <1>1, IntervalsAre
<1>5. ASSUME NEW i \in Intervals(base)
      PROVE  At(i) \in Sampled(base) /\ At(i - 1) \in Sampled(base)
  <2>1. In(i, base) /\ In(i - 1, base)
    BY IntervalsAre
  <2>2. i \in 1..n /\ i - 1 \in 1..n
    BY <1>4
  <2> QED
    BY <1>3, <2>1, <2>2 DEF In
<1>6. ASSUME NEW i \in Intervals(window)
      PROVE  At(i) \in Sampled(window) /\ LabelOf(i, "reads") = "injection"
  <2>1. In(i, window)
    BY IntervalsAre
  <2>2. i \in 1..n
    BY <1>4
  <2> QED
    BY <1>3, <2>1, <2>2 DEF In
<1>7. Sampled(base) # {} /\ Sampled(window) # {}
  BY <1>5, <1>6
<1>8. /\ Max(Sampled(base)) \in Sampled(base) /\ \A x \in Sampled(base) : x <= Max(Sampled(base))
      /\ Min(Sampled(base)) \in Sampled(base) /\ \A x \in Sampled(base) : Min(Sampled(base)) <= x
      /\ Max(Sampled(window)) \in Sampled(window) /\ \A x \in Sampled(window) : x <= Max(Sampled(window))
  BY <1>1, <1>2, <1>7, EndsOf
<1>9. ASSUME NEW D \in SUBSET (2..n), NEW t \in Ticks(D)
      PROVE  \E i \in D : t \in (At(i - 1) + 1)..At(i)
  BY DEF Ticks, At
<1>10. ASSUME NEW i \in 2..n
       PROVE  At(i - 1) \in 0..m /\ At(i) \in 0..m
  BY <1>1, TimesOf
<1>11. ASSUME NEW t \in Ticks(Intervals(base))
       PROVE  t \in (Min(Sampled(base)) + 1)..Max(Sampled(base))
  <2>1. PICK i \in Intervals(base) : t \in (At(i - 1) + 1)..At(i)
    BY <1>4, <1>9
  <2>2. At(i - 1) \in 0..m /\ At(i) \in 0..m
    BY <1>4, <1>10
  <2>3. At(i) <= Max(Sampled(base)) /\ Min(Sampled(base)) <= At(i - 1)
    BY <1>5, <1>8
  <2>4. Max(Sampled(base)) \in 0..m /\ Min(Sampled(base)) \in 0..m
    BY <1>2, <1>8
  <2> QED
    BY <2>1, <2>2, <2>3, <2>4
<1>12. ASSUME NEW t \in Ticks(Intervals(window))
       PROVE  t \in (Max(Sampled(base)) + 1)..Max(Sampled(window))
  <2>1. PICK i \in Intervals(window) : t \in (At(i - 1) + 1)..At(i)
    BY <1>4, <1>9
  <2>2. At(i - 1) \in 0..m /\ At(i) \in 0..m /\ i \in 1..n /\ i \in 2..n
    BY <1>4, <1>10
  <2>3. At(i) <= Max(Sampled(window))
    BY <1>6, <1>8
  <2>4. PICK j \in 1..n : LabelOf(j, "reads") = "baseline" /\ At(j) = Max(Sampled(base))
    BY <1>1, <1>8 DEF Sampled, At
  <2>5. j < i
    <3> SUFFICES ASSUME i <= j
                 PROVE  FALSE
      BY <2>2
    <3>1. Rank(LabelOf(i, "reads")) <= Rank(LabelOf(j, "reads"))
      BY <1>1, <2>2, LabelOrder DEF Judged
    <3> QED
      BY <1>6, <2>4, <3>1, Ranks
  <2>6. At(j) <= At(i - 1)
    <3> DEFINE Good == {k \in 0..n : j <= k /\ k >= 1 => At(j) <= At(k)}
    <3>1. 0 \in Good
      OBVIOUS
    <3>2. ASSUME NEW k \in 0..n, k < n, k \in Good
          PROVE  k + 1 \in Good
      <4>1. ASSUME j <= k + 1
            PROVE  At(j) <= At(k + 1)
        <5>1. CASE j = k + 1
          <6>1. At(j) \in Nat
            BY <1>1, TimesOf
          <6> QED
            BY <5>1, <6>1
        <5>2. CASE j <= k
          <6>1. k + 1 \in 1..n /\ k + 1 > 1 /\ (k + 1) - 1 = k
            BY <3>2, <5>2
          <6>2. At(k) < At(k + 1) /\ At(k) \in Nat /\ At(k + 1) \in Nat /\ At(j) \in Nat
            BY <1>1, <6>1, TimesOf
          <6>3. At(j) <= At(k)
            BY <3>2, <5>2
          <6> QED
            BY <6>2, <6>3
        <5> QED
          BY <3>2, <4>1, <5>1, <5>2
      <4> QED
        BY <3>2, <4>1
    <3> HIDE DEF Good
    <3>3. \A k \in 0..n : k \in Good
      BY <3>1, <3>2, UpTo
    <3>4. i - 1 \in 0..n /\ j <= i - 1 /\ i - 1 >= 1
      BY <2>2, <2>5
    <3> QED
      BY <3>3, <3>4 DEF Good
  <2>7. Max(Sampled(base)) \in 0..m /\ Max(Sampled(window)) \in 0..m
    BY <1>2, <1>8
  <2> QED
    BY <2>1, <2>2, <2>3, <2>4, <2>6, <2>7
<1> QED
  BY <1>11, <1>12
\* Shares of a window's tick that are less than twice those of every tick of
\* the baseline add up to less than twice the baseline's,
LEMMA SharesAdd ==
  ASSUME NEW m \in Nat, NEW a \in Nat
  PROVE  Closed({c \in Nat \X Nat : m * c[2] < (2 * c[1]) * a})
<1> DEFINE C == {c \in Nat \X Nat : m * c[2] < (2 * c[1]) * a}
<1>1. ASSUME NEW c \in C, NEW d \in C
      PROVE  <<c[1] + d[1], c[2] + d[2]>> \in C
  <2>1. PICK c1 \in Nat, c2 \in Nat, d1 \in Nat, d2 \in Nat : c = <<c1, c2>> /\ d = <<d1, d2>>
    OBVIOUS
  <2>2. m * c2 < (2 * c1) * a /\ m * d2 < (2 * d1) * a
    BY <2>1
  <2>3. /\ m * (c2 + d2) = m * c2 + m * d2
        /\ (2 * (c1 + d1)) * a = (2 * c1) * a + (2 * d1) * a
    OBVIOUS
  <2>4. m * c2 \in Nat /\ m * d2 \in Nat /\ (2 * c1) * a \in Nat /\ (2 * d1) * a \in Nat
    OBVIOUS
  <2>5. m * (c2 + d2) < (2 * (c1 + d1)) * a
    BY <2>2, <2>3, <2>4
  <2> QED
    BY <2>1, <2>5
<1> QED
  BY <1>1 DEF Closed

\* and so do those of all ticks of a window.
LEMMA MissesAdd ==
  ASSUME NEW bm \in Nat, NEW ba \in Nat
  PROVE  Closed({c \in Nat \X Nat : c[1] = 0 \/ c[1] * ba < (2 * bm) * c[2]})
<1> DEFINE C == {c \in Nat \X Nat : c[1] = 0 \/ c[1] * ba < (2 * bm) * c[2]}
<1>1. ASSUME NEW c \in C, NEW d \in C
      PROVE  <<c[1] + d[1], c[2] + d[2]>> \in C
  <2>1. PICK c1 \in Nat, c2 \in Nat, d1 \in Nat, d2 \in Nat : c = <<c1, c2>> /\ d = <<d1, d2>>
    OBVIOUS
  <2>2. (c1 = 0 \/ c1 * ba < (2 * bm) * c2) /\ (d1 = 0 \/ d1 * ba < (2 * bm) * d2)
    BY <2>1
  <2>3. /\ (c1 + d1) * ba = c1 * ba + d1 * ba
        /\ (2 * bm) * (c2 + d2) = (2 * bm) * c2 + (2 * bm) * d2
    OBVIOUS
  <2>4. /\ c1 * ba \in Nat /\ d1 * ba \in Nat /\ (2 * bm) * c2 \in Nat /\ (2 * bm) * d2 \in Nat
        /\ (c1 = 0 => c1 * ba = 0) /\ (d1 = 0 => d1 * ba = 0)
    OBVIOUS
  <2>5. c1 + d1 = 0 \/ (c1 + d1) * ba < (2 * bm) * (c2 + d2)
    BY <2>2, <2>3, <2>4
  <2> QED
    BY <2>1, <2>5
<1> QED
  BY <1>1 DEF Closed

\* If no tick of the window missed twice the share of a tick of the baseline,
\* then their sums do not either; and if none missed twice as much, then neither
\* do the means over times that are right.
LEMMA PressureIsSome ==
  ASSUME RatesInv
  PROVE  PressureIsMisses
<1> DEFINE base == Ticks(Intervals({"baseline"}))
           window == Ticks(Intervals({"injection"}))
           Worse(bad, usual) == /\ done[bad].missed > 0
                                /\ done[bad].missed * done[usual].asked >= 2 * done[usual].missed * done[bad].asked
           More(bad, usual) == done[bad].missed > 0 /\ done[bad].missed >= 2 * done[usual].missed
<1> SUFFICES ASSUME Judged, started = 0, BufferPoolPressure
             PROVE  /\ \E bad \in window, usual \in base : Worse(bad, usual)
                    /\ NotInflated => \E bad \in window, usual \in base : More(bad, usual)
  <2>1. ASSUME Judged, started = 0, BufferPoolPressure
        PROVE  /\ \A t \in window : t \in (Max(Sampled({"baseline"})) + 1)..Max(Sampled({"injection"}))
               /\ \A t \in base : t \in (Min(Sampled({"baseline"})) + 1)..Max(Sampled({"baseline"}))
    BY <2>1, WindowsAre DEF BufferPoolPressure
  <2>2. PressureIsMisses <=>
          (Judged /\ started = 0 /\ BufferPoolPressure =>
             /\ \E bad \in (Max(Sampled({"baseline"})) + 1)..Max(Sampled({"injection"})),
                   usual \in (Min(Sampled({"baseline"})) + 1)..Max(Sampled({"baseline"})) : Worse(bad, usual)
             /\ NotInflated =>
                  \E bad \in (Max(Sampled({"baseline"})) + 1)..Max(Sampled({"injection"})),
                     usual \in (Min(Sampled({"baseline"})) + 1)..Max(Sampled({"baseline"})) : More(bad, usual))
    BY DEF PressureIsMisses, Sampled
  <2> HIDE DEF base, window, Worse, More
  <2> QED
    BY <2>1, <2>2
<1>1. Intervals({"baseline"}) # {} /\ Intervals({"injection"}) # {}
  BY DEF BufferPoolPressure
<1>2. \A t \in base \cup window : done[t].missed \in Nat /\ done[t].asked \in Nat
  <2>1. \A phases : Intervals(phases) \in SUBSET (1..Len(readings))
    <3> TAKE phases
    <3>1. Intervals(phases) \in SUBSET (2..Len(readings)) /\ Len(readings) \in Nat
      BY IntervalsAre DEF RatesInv, RatesTyped
    <3> QED
      BY <3>1
  <2> QED
    BY <2>1, TicksAre
<1>3. \A phases : Intervals(phases) # {} => MissRatio(phases) \in Nat \X (Nat \ {0})
  <2> TAKE phases
  <2> SUFFICES ASSUME Intervals(phases) # {}
               PROVE  MissRatio(phases) \in Nat \X (Nat \ {0})
    OBVIOUS
  <2> DEFINE C == Nat \X (Nat \ {0})
  <2>1. Closed(C)
    BY DEF Closed
  <2>2. \A i \in Intervals(phases) : <<Change(i, "missed"), Change(i, "asked")>> \in C
    BY IntervalsAre
  <2> HIDE DEF C
  <2>3. MissRatio(phases) \in C
    BY <2>1, <2>2, ChangesIn
  <2> QED
    BY <2>3 DEF C
<1>4. PICK bm \in Nat, ba \in Nat \ {0}, wm \in Nat, wa \in Nat \ {0} :
        MissRatio({"baseline"}) = <<bm, ba>> /\ MissRatio({"injection"}) = <<wm, wa>>
  BY <1>1, <1>3
<1>5. /\ ~Less(<<wm, wa>>, <<5, 100>>) /\ ~Less(<<wm, wa>>, <<2 * bm, ba>>)
      /\ ~Less(PhysicalReads({"injection"}), Num(1))
      /\ ~Less(PhysicalReads({"injection"}),
               <<2 * PhysicalReads({"baseline"})[1], PhysicalReads({"baseline"})[2]>>)
  BY <1>4 DEF BufferPoolPressure
<1>6. \E bad \in window, usual \in base : Worse(bad, usual)
  <2> SUFFICES ASSUME \A bad \in window, usual \in base : ~Worse(bad, usual)
               PROVE  FALSE
    OBVIOUS
  <2>1. ASSUME NEW bad \in window, done[bad].missed # 0
        PROVE  done[bad].missed * ba < (2 * bm) * done[bad].asked
    <3>1. PICK m \in Nat \ {0}, a \in Nat : m = done[bad].missed /\ a = done[bad].asked
      BY <1>2, <2>1
    <3> DEFINE C == {c \in Nat \X Nat : m * c[2] < (2 * c[1]) * a}
    <3>2. Closed(C)
      BY SharesAdd
    <3>3. \A t \in base : <<done[t].missed, done[t].asked>> \in C
      <4> TAKE t \in base
      <4>1. PICK um \in Nat, ua \in Nat : um = done[t].missed /\ ua = done[t].asked
        BY <1>2
      <4>2. ~(m > 0 /\ m * ua >= 2 * um * a)
        BY <2>1, <3>1, <4>1
      <4>3. m * ua \in Nat /\ 2 * um * a \in Nat /\ 2 * um * a = (2 * um) * a
        OBVIOUS
      <4>4. m * ua < (2 * um) * a
        BY <4>2, <4>3
      <4>5. <<um, ua>> \in C
        BY <4>4
      <4> QED
        BY <4>1, <4>5
    <3> HIDE DEF C
    <3>4. MissRatio({"baseline"}) \in C
      BY <1>1, <3>2, <3>3, MissesIn
    <3>5. m * ba < (2 * bm) * a
      BY <1>4, <3>4 DEF C
    <3> QED
      BY <3>1, <3>5
  <2> DEFINE C == {c \in Nat \X Nat : c[1] = 0 \/ c[1] * ba < (2 * bm) * c[2]}
  <2>2. Closed(C)
    BY MissesAdd
  <2>3. \A t \in window : <<done[t].missed, done[t].asked>> \in C
    <3> TAKE t \in window
    <3>1. PICK m \in Nat, a \in Nat : m = done[t].missed /\ a = done[t].asked
      BY <1>2
    <3>2. m = 0 \/ m * ba < (2 * bm) * a
      BY <2>1, <3>1
    <3>3. <<m, a>> \in C
      BY <3>2
    <3> QED
      BY <3>1, <3>3
  <2> HIDE DEF C
  <2>4. MissRatio({"injection"}) \in C
    BY <1>1, <2>2, <2>3, MissesIn
  <2>5. wm = 0 \/ wm * ba < (2 * bm) * wa
    BY <1>4, <2>4 DEF C
  <2>6. wm # 0
    <3>1. ~(wm * 100 < 5 * wa)
      BY <1>5 DEF Less, Finite
    <3> QED
      BY <3>1
  <2>7. ~(wm * ba < (2 * bm) * wa)
    BY <1>5 DEF Less, Finite
  <2> QED
    BY <2>5, <2>6, <2>7
<1>7. ASSUME NotInflated
      PROVE  \E bad \in window, usual \in base : More(bad, usual)
  <2> SUFFICES ASSUME \A bad \in window, usual \in base : ~More(bad, usual)
               PROVE  FALSE
    OBVIOUS
  <2>1. PICK x1 \in Nat, x2 \in Nat \ {0}, y1 \in Nat, y2 \in Nat \ {0} :
          PhysicalReads({"injection"}) = <<x1, x2>> /\ PhysicalReads({"baseline"}) = <<y1, y2>>
    BY <1>1, ReadsBounds DEF Whole
  <2>2. base # {}
    <3>1. PICK i \in Intervals({"baseline"}) : TRUE
      BY <1>1
    <3>2. /\ Intervals({"baseline"}) \in SUBSET (2..Len(readings)) /\ Len(readings) \in Nat
      BY IntervalsAre DEF RatesInv, RatesTyped
    <3>3. Intervals({"baseline"}) \in SUBSET (1..Len(readings)) /\ i # 1
      BY <3>2
    <3> QED
      BY <3>3, TicksAre
  <2>3. PICK usual \in base : \A t \in base : done[usual].missed <= done[t].missed
    <3> DEFINE S == {done[t].missed : t \in base}
    <3>1. S \in SUBSET Nat /\ S # {}
      BY <1>2, <2>2
    <3>2. PICK a \in S : \A b \in S : a <= b
      BY <3>1, Least
    <3> QED
      BY <3>2
  <2>4. PICK u \in Nat : u = done[usual].missed
    BY <1>2, <2>3
  <2>5. ASSUME NEW t \in window
        PROVE  done[t].missed = 0 \/ done[t].missed < 2 * u
    <3>1. PICK m \in Nat : m = done[t].missed
      BY <1>2
    <3>2. ~(m > 0 /\ m >= 2 * u)
      BY <2>3, <2>4, <2>5, <3>1
    <3> QED
      BY <3>1, <3>2
  <2>6. \A t \in base : u <= 1 * done[t].missed
    <3> TAKE t \in base
    <3>1. done[t].missed \in Nat
      BY <1>2
    <3> QED
      BY <2>3, <2>4, <3>1
  <2>7. AtLeast(PhysicalReads({"baseline"}), u, 1)
    BY <1>1, <1>7, <2>6, ReadsBounds DEF NotInflated
  <2>8. u * y2 <= y1
    BY <2>1, <2>7 DEF AtLeast
  <2>9. CASE u = 0
    <3>1. \A t \in window : 1 * done[t].missed <= 0
      BY <1>2, <2>5, <2>9
    <3>2. AtMost(PhysicalReads({"injection"}), 0, 1)
      BY <1>1, <1>7, <3>1, ReadsBounds DEF NotInflated
    <3>3. 1 * x1 <= 0 * x2
      BY <2>1, <3>2 DEF AtMost
    <3>4. ~(x1 * 1 < 1 * x2)
      BY <1>5, <2>1 DEF Less, Finite, Num
    <3> QED
      BY <3>3, <3>4
  <2>10. CASE u # 0
    <3>1. PICK r \in Nat : 2 * u = r + 1
      <4>1. 2 * u - 1 \in Nat /\ 2 * u = (2 * u - 1) + 1
        BY <2>10
      <4> QED
        BY <4>1
    <3>2. \A t \in window : 1 * done[t].missed <= r
      <4> TAKE t \in window
      <4>1. PICK m \in Nat : m = done[t].missed
        BY <1>2
      <4>2. m = 0 \/ m < r + 1
        BY <2>5, <3>1, <4>1
      <4> QED
        BY <4>1, <4>2
    <3>3. AtMost(PhysicalReads({"injection"}), r, 1)
      BY <1>1, <1>7, <3>2, ReadsBounds DEF NotInflated
    <3>4. x1 <= r * x2
      BY <2>1, <3>3 DEF AtMost
    <3>5. ~(x1 * y2 < (2 * y1) * x2)
      BY <1>5, <2>1 DEF Less, Finite
    <3>6. x1 * y2 <= (r * x2) * y2
      BY <3>4, Times
    <3>7. (u * y2) * (2 * x2) <= y1 * (2 * x2)
      <4>1. u * y2 \in Nat /\ 2 * x2 \in Nat
        OBVIOUS
      <4> QED
        BY <2>8, <4>1, Times
    <3>8. (u * y2) * (2 * x2) = (r * x2) * y2 + x2 * y2
      <4>1. (u * y2) * (2 * x2) = (2 * u) * (x2 * y2)
        OBVIOUS
      <4>2. (2 * u) * (x2 * y2) = (r + 1) * (x2 * y2)
        BY <3>1
      <4>3. (r + 1) * (x2 * y2) = (r * x2) * y2 + x2 * y2
        OBVIOUS
      <4> QED
        BY <4>1, <4>2, <4>3
    <3>9. y1 * (2 * x2) = (2 * y1) * x2 /\ x2 * y2 \in Nat \ {0}
      OBVIOUS
    <3>10. x1 * y2 \in Nat /\ (r * x2) * y2 \in Nat /\ (2 * y1) * x2 \in Nat
      OBVIOUS
    <3> QED
      BY <3>5, <3>6, <3>7, <3>8, <3>9, <3>10
  <2> QED
    BY <2>9, <2>10
<1> QED
  BY <1>6, <1>7

-----------------------------------------------------------------------------
\* The rates tile the time that is sampled: no question of the server's clients
\* is in two rates or in none, whatever readings fail.
THEOREM RatesTileTheTime == RatesSpec => []RatesTile
<1>1. RatesInv => RatesTile
  BY Tiles
<1> QED
  BY <1>1, RatesInvariant, PTL

\* A drop of the throughput that a node finds is one between two ticks.
THEOREM DropsAreDrops == RatesSpec => []DropIsADrop
<1>1. RatesInv => DropIsADrop
  BY DropIsSome
<1> QED
  BY <1>1, RatesInvariant, PTL

\* A drop that every tick shows is found.
THEOREM SustainedDropsAreFound == RatesSpec => []DropIsFound
<1>1. RatesInv => DropIsFound
  BY SustainedIsFound
<1> QED
  BY <1>1, RatesInvariant, PTL

\* Pressure on the buffer pool that a node finds is that of a tick that missed at
\* least twice the share of pages of one of the baseline, and, where the time that
\* the rounds' probes took did not raise the physical reads of the injection or
\* lower those of the baseline, of one that missed at least twice as many.
THEOREM PressureMissesPages == RatesSpec => []PressureIsMisses
<1>1. RatesInv => PressureIsMisses
  BY PressureIsSome
<1> QED
  BY <1>1, RatesInvariant, PTL
================================================================================
