------------------------------ MODULE ChainProofs ------------------------------
(***************************************************************************)
(* Proofs about what a chain is evaluated by: the graph of its nodes       *)
(* (GraphEvaluation), for every finite set of nodes and every graph, where *)
(* the sort is topological and the graphs with a cycle are the ones that   *)
(* it rejects; and the samples of its runs (Sampling), for any number of   *)
(* runs and of rounds, where the two threads keep the anomaly, and other   *)
(* runs, out of the baseline.                                              *)
(***************************************************************************)
EXTENDS GraphEvaluation, Sampling, FiniteSetTheorems, SequenceTheorems, WellFoundedInduction, TLAPS

\* What the sort maintains: incoming counts the sources that are not visited
\* yet, and the queue holds the nodes that are ready for a visit.
SortInv ==
  /\ edges \subseteq Pairs
  /\ order \in Seq(Nodes)
  /\ \A n \in Nodes : incoming[n] = Cardinality(Sources(n) \ Visited)
  /\ queue = {n \in Nodes \ Visited : incoming[n] = 0}
  /\ OrderIsTopological

\* What the end of the sort has found out.
AcceptInv ==
  /\ pc # "sort" => queue = {}
  /\ pc = "rejected" => flaws # {} \/ edges # Known(edges) \/ Len(order) # Cardinality(Nodes)
  /\ pc \in {"judge", "judged"} =>
       flaws = {} /\ edges = Known(edges) /\ Len(order) = Cardinality(Nodes)

IInv == TypeOK /\ SortInv /\ AcceptInv

-----------------------------------------------------------------------------
\* Every set of numbers has a smallest one.
LEMMA Least ==
  ASSUME NEW S \in SUBSET Nat, S # {}
  PROVE  \E n \in S : \A m \in S : n <= m
<1> DEFINE Below == {p \in Nat \X Nat : p[1] < p[2]}
<1>1. IsWellFoundedOn(Below, Nat)
  BY NatLessThanWellFounded, Zenon DEF OpToRel
<1> HIDE DEF Below
<1>2. PICK n \in S : \A m \in S : ~ (<<m, n>> \in Below)
  BY <1>1, WFMin
<1>3. ASSUME NEW m \in S
      PROVE  n <= m
  <2>1. m \in Nat /\ n \in Nat
    OBVIOUS
  <2>2. ~ (m < n)
    BY <1>2, <2>1 DEF Below
  <2> QED
    BY <2>1, <2>2
<1> QED
  BY <1>3

\* The head of the queue.
LEMMA SmallestIsIn ==
  ASSUME NEW S \in SUBSET Nodes, S # {}
  PROVE  Smallest(S) \in S
<1>1. S \in SUBSET Nat
  BY GraphAssumption
<1> QED
  BY <1>1, Least DEF Smallest

\* The sources of a node are finitely many, visited or not.
LEMMA SourcesAreFinite ==
  ASSUME NEW n, NEW V
  PROVE  /\ IsFiniteSet(Sources(n) \ V)
         /\ Cardinality(Sources(n) \ V) \in Nat
         /\ Cardinality(Sources(n) \ V) \in 0..Cardinality(Nodes)
<1>1. (Sources(n) \ V) \in SUBSET Nodes
  BY DEF Sources
<1> QED
  BY <1>1, GraphAssumption, FS_Subset, FS_CardinalityType

-----------------------------------------------------------------------------
\* What a visit does, as the invariant sees it.
LEMMA VisitFacts ==
  ASSUME IInv, Visit, NEW n, n = Smallest(queue)
  PROVE  /\ n \in Nodes \ Visited
         /\ Sources(n) \subseteq Visited
         /\ order' = Append(order, n)
         /\ order' \in Seq(Nodes)
         /\ Visited' = Visited \cup {n}
         /\ n \notin Targets(n)
<1>1. n \in queue
  BY SmallestIsIn DEF IInv, TypeOK, Visit
<1>2. n \in Nodes \ Visited /\ incoming[n] = 0
  BY <1>1 DEF IInv, SortInv
<1>3. Sources(n) \subseteq Visited
  BY <1>2, SourcesAreFinite, FS_EmptySet DEF IInv, SortInv
<1>4. order' = Append(order, n)
  BY DEF Visit
<1>5. order \in Seq(Nodes)
  BY DEF IInv, SortInv
<1>6. /\ order' \in Seq(Nodes)
      /\ Len(order') = Len(order) + 1
      /\ order'[Len(order) + 1] = n
      /\ \A i \in 1..Len(order) : order'[i] = order[i]
  BY <1>2, <1>4, <1>5
<1>7. Visited' = Visited \cup {n}
  BY <1>5, <1>6 DEF Visited
<1>8. n \notin Targets(n)
  BY DEF IInv, SortInv, Targets, Pairs
<1> QED
  BY <1>2, <1>3, <1>4, <1>6, <1>7, <1>8

\* A visit keeps the order topological.
LEMMA VisitKeepsOrder ==
  ASSUME IInv, Visit
  PROVE  OrderIsTopological'
<1> DEFINE n == Smallest(queue)
<1>1. /\ n \in Nodes \ Visited
      /\ Sources(n) \subseteq Visited
      /\ order' = Append(order, n)
  BY VisitFacts
<1> HIDE DEF n
<1>2. order \in Seq(Nodes) /\ edges' = edges
  BY DEF IInv, SortInv, Visit
<1>3. /\ Len(order') = Len(order) + 1
      /\ order'[Len(order) + 1] = n
      /\ \A i \in 1..Len(order) : order'[i] = order[i]
  BY <1>1, <1>2
<1>4. \A x : Sources(x)' = Sources(x)
  BY <1>2 DEF Sources
<1> SUFFICES ASSUME NEW i \in 1..Len(order')
             PROVE  /\ \A j \in 1..(i - 1) : order'[i] # order'[j]
                    /\ \A s \in Sources(order'[i]) : \E j \in 1..(i - 1) : order'[j] = s
  BY <1>4 DEF OrderIsTopological
<1>5. CASE i \in 1..Len(order)
  <2>1. /\ \A j \in 1..(i - 1) : order[i] # order[j]
        /\ \A s \in Sources(order[i]) : \E j \in 1..(i - 1) : order[j] = s
    BY <1>5 DEF IInv, SortInv, OrderIsTopological
  <2>2. \A j \in 1..(i - 1) : order'[j] = order[j]
    BY <1>2, <1>3, <1>5
  <2>3. order'[i] = order[i]
    BY <1>3, <1>5
  <2> QED
    BY <2>1, <2>2, <2>3
<1>6. CASE i = Len(order) + 1
  <2>1. \A j \in 1..Len(order) : order'[j] \in Visited
    BY <1>3 DEF Visited
  <2>2. \A s \in Visited : \E j \in 1..Len(order) : order'[j] = s
    BY <1>3 DEF Visited
  <2>3. i - 1 = Len(order)
    BY <1>2, <1>6
  <2> QED
    BY <1>1, <1>3, <1>6, <2>1, <2>2, <2>3
<1> QED
  BY <1>2, <1>3, <1>5, <1>6

\* A visit keeps the count of the sources.
LEMMA VisitKeepsCount ==
  ASSUME IInv, Visit
  PROVE  /\ \A m \in Nodes : incoming'[m] = Cardinality(Sources(m) \ Visited')
         /\ incoming' \in [Nodes -> 0..Cardinality(Nodes)]
         /\ \A m \in Targets(Smallest(queue)) : incoming[m] > 0
<1> DEFINE n == Smallest(queue)
<1>1. n \in Nodes \ Visited /\ Visited' = Visited \cup {n}
  BY VisitFacts
<1>2. incoming' = [m \in Nodes |-> IF m \in Targets(n) THEN incoming[m] - 1 ELSE incoming[m]]
  BY DEF Visit
<1> HIDE DEF n
<1>3. ASSUME NEW m \in Nodes
      PROVE  /\ incoming'[m] = Cardinality(Sources(m) \ Visited')
             /\ m \in Targets(n) => incoming[m] > 0
  <2> DEFINE left == Sources(m) \ Visited
  <2>1. incoming[m] = Cardinality(left)
    BY DEF IInv, SortInv
  <2>2. IsFiniteSet(left) /\ Cardinality(left) \in Nat
    BY SourcesAreFinite
  <2>3. Sources(m) \ Visited' = left \ {n}
    BY <1>1
  <2>4. n \in left <=> m \in Targets(n)
    BY <1>1 DEF Sources, Targets
  <2> HIDE DEF left
  <2>5. IsFiniteSet(left \ {n}) /\ Cardinality(left \ {n}) \in Nat
    BY <2>2, FS_RemoveElement, FS_CardinalityType
  <2>6. CASE m \in Targets(n)
    <3>1. Cardinality(left \ {n}) = Cardinality(left) - 1
      BY <2>2, <2>4, <2>6, FS_RemoveElement
    <3>2. incoming'[m] = incoming[m] - 1
      BY <1>2, <2>6
    <3>3. incoming[m] > 0
      BY <2>1, <2>2, <2>5, <3>1
    <3> QED
      BY <2>1, <2>3, <3>1, <3>2, <3>3
  <2>7. CASE m \notin Targets(n)
    <3>1. left \ {n} = left
      BY <2>4, <2>7
    <3> QED
      BY <1>2, <2>1, <2>3, <2>7, <3>1
  <2> QED
    BY <2>6, <2>7
<1>4. \A m \in Nodes : incoming'[m] \in 0..Cardinality(Nodes)
  BY <1>3, SourcesAreFinite
<1>5. incoming' \in [Nodes -> 0..Cardinality(Nodes)]
  BY <1>2, <1>4
<1> QED
  BY <1>3, <1>5 DEF Targets, n

\* A visit keeps in the queue the nodes that are ready.
LEMMA VisitKeepsQueue ==
  ASSUME IInv, Visit
  PROVE  queue' = {m \in Nodes \ Visited' : incoming'[m] = 0}
<1> DEFINE n == Smallest(queue)
<1>1. /\ n \in Nodes \ Visited
      /\ Visited' = Visited \cup {n}
      /\ n \notin Targets(n)
  BY VisitFacts
<1>2. /\ incoming' = [m \in Nodes |-> IF m \in Targets(n) THEN incoming[m] - 1 ELSE incoming[m]]
      /\ queue' = (queue \ {n}) \cup {m \in Targets(n) : incoming[m] = 1}
  BY DEF Visit
<1>3. \A m \in Targets(n) : incoming[m] > 0
  BY VisitKeepsCount
<1> HIDE DEF n
<1>4. queue = {m \in Nodes \ Visited : incoming[m] = 0}
  BY DEF IInv, SortInv
<1>5. incoming \in [Nodes -> 0..Cardinality(Nodes)]
  BY DEF IInv, TypeOK
<1>6. \A m \in Targets(n) : m \in Nodes /\ n \in Sources(m)
  BY <1>1 DEF Targets, Sources
<1>7. \A m \in Visited : Sources(m) \subseteq Visited
  <2> SUFFICES ASSUME NEW i \in 1..Len(order), NEW s \in Sources(order[i])
               PROVE  s \in Visited
    BY DEF Visited
  <2>1. PICK j \in 1..(i - 1) : order[j] = s
    BY DEF IInv, SortInv, OrderIsTopological
  <2>2. Len(order) \in Nat
    BY DEF IInv, SortInv
  <2> QED
    BY <2>1, <2>2 DEF Visited
<1>8. \A m \in Targets(n) : m \notin Visited'
  BY <1>1, <1>6, <1>7
<1>9. ASSUME NEW m \in queue'
      PROVE  m \in Nodes \ Visited' /\ incoming'[m] = 0
  <2>1. CASE m \in queue \ {n}
    BY <1>1, <1>2, <1>3, <1>4, <2>1
  <2>2. CASE m \in Targets(n) /\ incoming[m] = 1
    BY <1>2, <1>6, <1>8, <2>2
  <2> QED
    BY <1>2, <2>1, <2>2
<1>10. ASSUME NEW m \in Nodes \ Visited', incoming'[m] = 0
       PROVE  m \in queue'
  <2>1. incoming[m] \in Int
    BY <1>5
  <2>2. CASE m \in Targets(n)
    BY <1>2, <1>10, <2>1, <2>2
  <2>3. CASE m \notin Targets(n)
    BY <1>1, <1>2, <1>4, <1>10, <2>3
  <2> QED
    BY <2>2, <2>3
<1> QED
  BY <1>9, <1>10

-----------------------------------------------------------------------------
\* The invariant holds at first.
LEMMA InitInv == Init => IInv
<1> SUFFICES ASSUME Init PROVE IInv
  OBVIOUS
<1> USE DEF Init
<1>1. Visited = {}
  BY DEF Visited
<1>2. \A n \in Nodes : /\ Sources(n) \ {} = Sources(n)
                       /\ incoming[n] = Cardinality(Sources(n))
  OBVIOUS
<1>3. \A n \in Nodes : /\ incoming[n] = Cardinality(Sources(n) \ Visited)
                       /\ incoming[n] \in 0..Cardinality(Nodes)
  BY <1>1, <1>2, SourcesAreFinite
<1>4. order \in Seq(Nodes) /\ Len(order) = 0
  OBVIOUS
<1>5. SortInv
  BY <1>1, <1>3, <1>4 DEF SortInv, OrderIsTopological
<1>6. TypeOK
  <2>1. Missing \in Observations
    BY DEF Missing, Observations
  <2> QED
    BY <1>3, <1>4, <2>1 DEF TypeOK
<1>7. AcceptInv
  BY DEF AcceptInv
<1> QED
  BY <1>5, <1>6, <1>7 DEF IInv

\* Steps after which the sort stands as before.
LEMMA SortStands ==
  ASSUME SortInv, UNCHANGED <<edges, incoming, queue, order>>
  PROVE  SortInv'
<1>1. Visited' = Visited
  BY DEF Visited
<1>2. \A x : Sources(x)' = Sources(x)
  BY DEF Sources
<1>3. OrderIsTopological'
  <2>1. order' = order
    OBVIOUS
  <2>2. \A i \in 1..Len(order) :
          /\ \A j \in 1..(i - 1) : order[i] # order[j]
          /\ \A s \in Sources(order[i]) : \E j \in 1..(i - 1) : order[j] = s
    BY DEF SortInv, OrderIsTopological
  <2> QED
    BY <1>2, <2>1, <2>2 DEF OrderIsTopological
<1>4. \A n \in Nodes : incoming'[n] = Cardinality((Sources(n) \ Visited)')
  BY <1>1, <1>2 DEF SortInv
<1> QED
  BY <1>1, <1>3, <1>4 DEF SortInv

\* Every step keeps the invariant.
LEMMA StepInv == IInv /\ [Next]_vars => IInv'
<1> SUFFICES ASSUME IInv, [Next]_vars PROVE IInv'
  OBVIOUS
<1>1. CASE Visit
  <2>1. edges' = edges /\ pc' = pc /\ pc = "sort" /\ UNCHANGED <<flaws, windows, strong, seen, ignored>>
    BY <1>1 DEF Visit
  <2>2. \A x : Sources(x)' = Sources(x)
    BY <2>1 DEF Sources
  <2>3. order' \in Seq(Nodes)
    BY <1>1, VisitFacts
  <2>4. OrderIsTopological'
    BY <1>1, VisitKeepsOrder
  <2>5. \A m \in Nodes : incoming'[m] = Cardinality((Sources(m) \ Visited)')
    BY <1>1, <2>2, VisitKeepsCount
  <2>6. queue' = {m \in Nodes \ Visited' : incoming'[m] = 0}
    BY <1>1, VisitKeepsQueue
  <2>7. SortInv'
    BY <2>1, <2>3, <2>4, <2>5, <2>6 DEF IInv, SortInv
  <2>8. TypeOK'
    <3>1. incoming' \in [Nodes -> 0..Cardinality(Nodes)]
      BY <1>1, VisitKeepsCount
    <3>2. queue' \in SUBSET Nodes
      BY <2>6
    <3> QED
      BY <2>1, <2>3, <3>1, <3>2 DEF IInv, TypeOK
  <2>9. AcceptInv'
    BY <2>1 DEF AcceptInv
  <2> QED
    BY <2>7, <2>8, <2>9 DEF IInv
<1>2. CASE Accept
  <2>1. SortInv'
    BY <1>2, SortStands DEF Accept, IInv
  <2>2. TypeOK'
    BY <1>2 DEF Accept, IInv, TypeOK
  <2>3. AcceptInv'
    BY <1>2 DEF Accept, AcceptInv, Known
  <2> QED
    BY <2>1, <2>2, <2>3 DEF IInv
<1>3. CASE Judge
  <2>1. SortInv'
    BY <1>3, SortStands DEF Judge, IInv
  <2>2. TypeOK'
    BY <1>3 DEF Judge, IInv, TypeOK
  <2>3. AcceptInv'
    BY <1>3 DEF Judge, IInv, AcceptInv, Known
  <2> QED
    BY <2>1, <2>2, <2>3 DEF IInv
<1>4. CASE UNCHANGED vars
  <2>1. SortInv'
    BY <1>4, SortStands DEF vars, IInv
  <2>2. TypeOK'
    BY <1>4 DEF vars, IInv, TypeOK
  <2>3. AcceptInv'
    BY <1>4 DEF vars, IInv, AcceptInv, Known
  <2> QED
    BY <2>1, <2>2, <2>3 DEF IInv
<1> QED
  BY <1>1, <1>2, <1>3, <1>4 DEF Next

\* The sort's invariant holds throughout, also while the graph is judged.
THEOREM Invariance == Spec => []IInv
  BY InitInv, StepInv, PTL DEF Spec

-----------------------------------------------------------------------------
\* A visit is counted once, so that all are visited when as many visits as
\* there are nodes were made.
LEMMA AllVisited ==
  ASSUME IInv
  PROVE  Len(order) = Cardinality(Nodes) <=> Visited = Nodes
<1> DEFINE I == 1..Len(order)
<1>1. order \in Seq(Nodes) /\ Len(order) \in Nat
  BY DEF IInv, SortInv
<1>2. order \in [I -> Nodes]
  BY <1>1
<1>3. \A i, j \in I : i # j => order[i] # order[j]
  <2> SUFFICES ASSUME NEW i \in I, NEW j \in I, j < i
               PROVE  order[i] # order[j]
    BY <1>1
  <2>1. j \in 1..(i - 1)
    BY <1>1
  <2> QED
    BY <2>1 DEF IInv, SortInv, OrderIsTopological
<1>4. order \in Injection(I, Nodes)
  BY <1>2, <1>3 DEF Injection, IsInjective
<1>5. Cardinality(I) = Len(order)
  <2>1. 1 \in Int /\ Len(order) \in Int
    BY <1>1
  <2>2. Cardinality(I) = IF 1 > Len(order) THEN 0 ELSE Len(order) - 1 + 1
    BY <2>1, FS_Interval
  <2>3. QED
    BY <1>1, <2>2
<1>6. Cardinality(I) = Cardinality(Nodes) <=> order \in Surjection(I, Nodes)
  BY <1>4, FS_Injection, GraphAssumption
<1>7. order \in Surjection(I, Nodes) <=> Visited = Nodes
  BY <1>2 DEF Surjection, Visited
<1> QED
  BY <1>5, <1>6, <1>7

\* A cycle has no first node in the order, so that not all of it is visited.
LEMMA CycleIsNotVisited ==
  ASSUME IInv, Visited = Nodes
  PROVE  ~ HasCycle
<1> SUFFICES ASSUME NEW S \in SUBSET Nodes, S # {},
                    \A t \in S : \E s \in S : <<s, t>> \in edges
             PROVE  FALSE
  BY DEF HasCycle
<1> DEFINE I == {i \in 1..Len(order) : order[i] \in S}
<1>1. Len(order) \in Nat
  BY DEF IInv, SortInv
<1>2. I \in SUBSET Nat /\ I # {}
  BY <1>1 DEF Visited
<1>3. PICK i \in I : \A j \in I : i <= j
  BY <1>2, Least
<1>4. PICK s \in S : <<s, order[i]>> \in edges
  BY <1>3
<1>5. PICK j \in 1..(i - 1) : order[j] = s
  BY <1>4 DEF IInv, SortInv, OrderIsTopological, Sources
<1>6. j \in I /\ j < i
  BY <1>1, <1>4, <1>5
<1> QED
  BY <1>2, <1>3, <1>6

\* Where the sort ends before a node, every node left has another one left
\* among its sources.
LEMMA UnvisitedAreCyclic ==
  ASSUME IInv, queue = {}, Visited # Nodes
  PROVE  HasCycle
<1> DEFINE S == Nodes \ Visited
<1>1. Visited \subseteq Nodes
  BY DEF IInv, SortInv, Visited
<1>2. S # {}
  BY <1>1
<1>3. ASSUME NEW t \in S
      PROVE  \E s \in S : <<s, t>> \in edges
  <2>1. incoming[t] # 0
    BY DEF IInv, SortInv
  <2>2. Sources(t) \ Visited # {}
    BY <2>1, FS_EmptySet DEF IInv, SortInv
  <2> QED
    BY <2>2 DEF Sources
<1> QED
  BY <1>2, <1>3 DEF HasCycle

\* What the validator says follows from the invariant.
LEMMA InvRejects == IInv => RejectsExactlyCycles
<1> SUFFICES ASSUME IInv PROVE RejectsExactlyCycles
  OBVIOUS
<1>1. ASSUME pc = "rejected" PROVE HasCycle \/ edges # Known(edges) \/ flaws # {}
  BY <1>1, AllVisited, UnvisitedAreCyclic DEF IInv, AcceptInv
<1>2. ASSUME pc \in {"judge", "judged"}
      PROVE  ~ HasCycle /\ edges = Known(edges) /\ flaws = {} /\ Visited = Nodes
  BY <1>2, AllVisited, CycleIsNotVisited DEF IInv, AcceptInv
<1> QED
  BY <1>1, <1>2 DEF RejectsExactlyCycles

-----------------------------------------------------------------------------
\* The variables keep their types in the sort and in the judgement: no count of
\* sources falls below 0, and the order holds nodes only.
THEOREM TypeCorrect == Spec => []TypeOK
<1>1. IInv => TypeOK
  BY DEF IInv
<1> QED
  BY <1>1, Invariance, PTL

\* At every moment of the sort of _topological_nodes, on every graph, the order
\* holds no node twice and each one behind all that it depends on.
THEOREM TopologicalOrder == Spec => []OrderIsTopological
<1>1. IInv => OrderIsTopological
  BY DEF IInv, SortInv
<1> QED
  BY <1>1, Invariance, PTL

\* AnomalyGraphValidator rejects a graph exactly for an unknown name, a cycle, or
\* something listed twice, and _topological_nodes returns every node of the others.
THEOREM CyclesRejected == Spec => []RejectsExactlyCycles
  BY InvRejects, Invariance, PTL

\* What FirstWithout finds, for the nodes that hit.
LEMMA FirstNotHit ==
  ASSUME order \in Seq(Nodes)
  PROVE  /\ FirstWithout(Hit) \in 1..(Len(order) + 1)
         /\ \A j \in 1..(FirstWithout(Hit) - 1) : Hit(order[j])
         /\ FirstWithout(Hit) <= Len(order) => ~Hit(order[FirstWithout(Hit)])
<1> DEFINE Failing == {i \in 1..Len(order) : ~Hit(order[i])}
<1>0. Len(order) \in Nat
  OBVIOUS
<1>1. CASE Failing = {}
  <2>1. \A i \in 1..Len(order) : Hit(order[i])
    BY <1>1
  <2>2. FirstWithout(Hit) = Len(order) + 1
    BY <2>1, Zenon DEF FirstWithout
  <2> QED
    BY <1>0, <2>1, <2>2
<1>2. CASE Failing # {}
  <2>1. Failing \in SUBSET Nat
    BY <1>0
  <2>2. PICK i \in Failing : \A j \in Failing : i <= j
    BY <1>2, <2>1, Least, Zenon
  <2>3. i \in 1..Len(order) /\ ~Hit(order[i]) /\ \A j \in 1..(i - 1) : Hit(order[j])
    BY <1>0, <2>2
  <2> DEFINE First == CHOOSE k \in 1..Len(order) : ~Hit(order[k]) /\ \A j \in 1..(k - 1) : Hit(order[j])
  <2>4. First \in 1..Len(order) /\ ~Hit(order[First]) /\ \A j \in 1..(First - 1) : Hit(order[j])
    BY <2>3, Zenon
  <2>5. FirstWithout(Hit) = First
    BY <2>3, Zenon DEF FirstWithout
  <2> QED
    BY <1>0, <2>4, <2>5
<1> QED
  BY <1>1, <1>2

\* A node that may be in the prefix.
Successful(n) == Hit(n) /\ IntoHold(n)

\* The prefix is the order up to the first node that is not successful.
LEMMA PrefixEnds ==
  ASSUME order \in Seq(Nodes)
  PROVE  \E k \in 0..Len(order) :
           /\ Prefix = {order[i] : i \in 1..k}
           /\ \A j \in 1..k : Successful(order[j])
           /\ k < Len(order) => ~Successful(order[k + 1])
<1> DEFINE Failing == {i \in 1..Len(order) : ~Successful(order[i])}
           First == CHOOSE k \in 1..Len(order) :
                      ~Successful(order[k]) /\ \A j \in 1..(k - 1) : Successful(order[j])
           End == IF \A i \in 1..Len(order) : Successful(order[i]) THEN Len(order) + 1 ELSE First
<1>0. Len(order) \in Nat
  OBVIOUS
<1>1. Prefix = {order[i] : i \in 1..(End - 1)}
  BY Zenon DEF Prefix, FirstWithout, Successful
<1>2. CASE Failing = {}
  <2>1. \A i \in 1..Len(order) : Successful(order[i])
    BY <1>2
  <2>2. End = Len(order) + 1
    BY <2>1
  <2> HIDE DEF End
  <2>3. End - 1 = Len(order)
    BY <1>0, <2>2
  <2>4. Prefix = {order[i] : i \in 1..Len(order)}
    BY <1>1, <2>3, Zenon
  <2> QED
    BY <1>0, <2>1, <2>4
<1>3. CASE Failing # {}
  <2>1. Failing \in SUBSET Nat
    BY <1>0
  <2>2. PICK i \in Failing : \A j \in Failing : i <= j
    BY <1>3, <2>1, Least, Zenon
  <2>3. i \in 1..Len(order) /\ ~Successful(order[i]) /\ \A j \in 1..(i - 1) : Successful(order[j])
    BY <1>0, <2>2
  <2>4. First \in 1..Len(order) /\ ~Successful(order[First]) /\ \A j \in 1..(First - 1) : Successful(order[j])
    BY <2>3, Zenon
  <2>5. End = First
    BY <2>3, Zenon
  <2> HIDE DEF First, End
  <2>6. First - 1 \in 0..Len(order) /\ First - 1 < Len(order) /\ (First - 1) + 1 = First
    BY <1>0, <2>4
  <2>7. Prefix = {order[j] : j \in 1..(First - 1)}
    BY <1>1, <2>5
  <2> QED
    BY <2>4, <2>6, <2>7
<1> QED
  BY <1>2, <1>3

\* Once a graph is accepted, each of its edges comes from a node that is earlier
\* in the order.
LEMMA EdgesPointForward ==
  ASSUME TypeOK, OrderIsTopological, edges = Known(edges),
         NEW e \in edges, NEW i \in 1..Len(order), order[i] = e[2]
  PROVE  \E j \in 1..(i - 1) : order[j] = e[1]
<1>1. e \in Pairs /\ e[1] \in Nodes
  BY DEF TypeOK, Known
<1>2. e = <<e[1], e[2]>>
  BY <1>1 DEF Pairs
<1>3. e[1] \in Sources(order[i])
  BY <1>1, <1>2 DEF Sources
<1> QED
  BY <1>3 DEF OrderIsTopological

\* A judgement of an accepted graph fits together.
LEMMA JudgementFits ==
  ASSUME TypeOK, OrderIsTopological, edges = Known(edges), Visited = Nodes
  PROVE  /\ \A e \in edges :
              e[2] \in Prefix => e[1] \in Prefix /\ Satisfied(e[1], e[2]) /\ Hit(e[1])
         /\ \A n \in FailedNode :
              /\ n \notin Prefix
              /\ \A e \in edges : e[2] = n => Hit(e[1])
         /\ (FailedNode = {}) <=> AllNodesHit
         /\ (Prefix = Nodes) <=> (AllNodesHit /\ EdgesHold)
<1> DEFINE f == FirstWithout(Hit)
<1>0. order \in Seq(Nodes) /\ Len(order) \in Nat
  BY DEF TypeOK
<1>1. /\ f \in 1..(Len(order) + 1)
      /\ \A j \in 1..(f - 1) : Hit(order[j])
      /\ f <= Len(order) => ~Hit(order[f])
  BY <1>0, FirstNotHit
<1>2. FailedNode = {order[j] : j \in {f} \cap (1..Len(order))}
  BY Zenon DEF FailedNode
<1>3. PICK k \in 0..Len(order) :
        /\ Prefix = {order[i] : i \in 1..k}
        /\ \A j \in 1..k : Successful(order[j])
        /\ k < Len(order) => ~Successful(order[k + 1])
  BY <1>0, PrefixEnds
<1>4. \A n \in Prefix : Hit(n) /\ IntoHold(n)
  BY <1>3 DEF Successful
<1>5. \A n \in Nodes : \E i \in 1..Len(order) : order[i] = n
  BY DEF Visited
<1>6. \A e \in edges : e[1] \in Nodes /\ e[2] \in Nodes
  BY DEF Known
<1>7. AllNodesHit <=> \A n \in Nodes : Hit(n)
  BY DEF AllNodesHit, Hit
<1> HIDE DEF f
<1>8. ASSUME NEW e \in edges, e[2] \in Prefix
      PROVE  e[1] \in Prefix /\ Satisfied(e[1], e[2]) /\ Hit(e[1])
  <2>1. PICK i \in 1..k : order[i] = e[2]
    BY <1>3, <1>8
  <2>2. i \in 1..Len(order)
    BY <1>0
  <2>3. PICK j \in 1..(i - 1) : order[j] = e[1]
    BY <2>1, <2>2, EdgesPointForward
  <2>4. j \in 1..k
    BY <1>0
  <2>5. e[1] \in Prefix
    BY <1>3, <2>3, <2>4
  <2>6. Satisfied(e[1], e[2])
    BY <1>4, <1>8 DEF IntoHold
  <2> QED
    BY <1>4, <2>5, <2>6
<1>9. ASSUME NEW n \in FailedNode
      PROVE  /\ n \notin Prefix
             /\ \A e \in edges : e[2] = n => Hit(e[1])
  <2>1. f \in 1..Len(order) /\ n = order[f]
    BY <1>2
  <2>2. n \notin Prefix
    BY <1>1, <1>4, <2>1
  <2>3. ASSUME NEW e \in edges, e[2] = n
        PROVE  Hit(e[1])
    <3>1. PICK j \in 1..(f - 1) : order[j] = e[1]
      BY <2>1, <2>3, EdgesPointForward
    <3> QED
      BY <1>1, <3>1
  <2> QED
    BY <2>2, <2>3
<1>10. (FailedNode = {}) <=> AllNodesHit
  <2>1. CASE f <= Len(order)
    <3>1. f \in 1..Len(order) /\ order[f] \in Nodes /\ ~Hit(order[f])
      BY <1>0, <1>1, <2>1
    <3>2. order[f] \in FailedNode
      BY <1>2, <3>1
    <3> QED
      BY <1>7, <3>1, <3>2
  <2>2. CASE ~ (f <= Len(order))
    <3>1. f = Len(order) + 1
      BY <1>0, <1>1, <2>2
    <3>2. \A i \in 1..Len(order) : Hit(order[i])
      BY <1>0, <1>1, <3>1
    <3>3. {f} \cap (1..Len(order)) = {}
      BY <1>0, <3>1
    <3> QED
      BY <1>2, <1>5, <1>7, <3>2, <3>3
  <2> QED
    BY <2>1, <2>2
<1>11. (Prefix = Nodes) <=> (AllNodesHit /\ EdgesHold)
  <2>1. ASSUME Prefix = Nodes
        PROVE  AllNodesHit /\ EdgesHold
    <3>1. ASSUME NEW e \in edges
          PROVE  Satisfied(e[1], e[2])
      BY <1>6, <1>8, <2>1
    <3> QED
      BY <1>4, <1>7, <2>1, <3>1 DEF EdgesHold
  <2>2. ASSUME AllNodesHit, EdgesHold
        PROVE  Prefix = Nodes
    <3>1. \A n \in Nodes : Successful(n)
      BY <1>7, <2>2 DEF Successful, IntoHold, EdgesHold
    <3>2. \A i \in 1..Len(order) : order[i] \in Nodes
      BY <1>0
    <3>3. k = Len(order)
      <4>1. SUFFICES ASSUME k < Len(order) PROVE FALSE
        BY <1>0
      <4>2. k + 1 \in 1..Len(order)
        BY <1>0, <4>1
      <4> QED
        BY <1>3, <3>1, <3>2, <4>1, <4>2
    <3> QED
      BY <1>3, <3>3 DEF Visited
  <2> QED
    BY <2>1, <2>2
<1> QED
  BY <1>8, <1>9, <1>10, <1>11

\* The prefix, the failed node and the verdict that GraphEvaluator.evaluate
\* returns agree, for every accepted graph and all observations: the prefix is
\* closed under what leads to it, the failed node is the first miss, and the
\* prefix is everything exactly when all nodes hit and all edges hold.
THEOREM DiagnosesAreSound == Spec => []DiagnosisIsSound
<1>1. IInv /\ RejectsExactlyCycles => DiagnosisIsSound
  <2> SUFFICES ASSUME IInv, RejectsExactlyCycles, pc = "judged"
               PROVE  DiagnosisIsSound
    BY DEF DiagnosisIsSound
  <2>1. TypeOK /\ OrderIsTopological
    BY DEF IInv, SortInv
  <2>2. edges = Known(edges) /\ Visited = Nodes
    BY DEF RejectsExactlyCycles
  <2> QED
    BY <2>1, <2>2, JudgementFits DEF DiagnosisIsSound
<1> QED
  BY Invariance, CyclesRejected, <1>1, PTL

-----------------------------------------------------------------------------
(***************************************************************************)
(* Sampling: which samples are labelled as a baseline.                     *)
(***************************************************************************)

ThreadPlaces == {"none", "loop", "collect", "label", "append", "derive", "delta", "done"}
ThreadType   == [pc : ThreadPlaces, into : 0..MaxRuns, value : Readings, label : PhaseNames, rounds : 0..MaxRounds]

Types ==
  /\ run \in Runs
  /\ at \in {"start", "act", "stop", "join", "evaluated"} \cup PhaseNames
  /\ acted \in BOOLEAN
  /\ stopping \in BOOLEAN
  /\ timeline \in 0..MaxRuns
  /\ previous \in Readings
  /\ markers \in [Runs -> Seq(PhaseNames) \ {<<>>}]
  /\ samples \in [Runs -> Seq(SampleType)]
  /\ thread \in [Runs -> ThreadType]

\* The timeline is of this run from start on, and a timeline whose phase is
\* the baseline is of this run, before the root action.
ExperimentInv ==
  /\ timeline <= run
  /\ at \in {"baseline", "injection", "act", "observing", "recovery"} => timeline = run
  /\ at = "start" => timeline < run
  /\ acted => at \in {"observing", "recovery", "stop", "join", "evaluated"}
  /\ \A r \in Runs : CurrentPhase(r) = "baseline" =>
       r = run /\ timeline = run /\ ~acted /\ at \in {"injection", "stop", "join"}

\* A thread that runs writes into the timeline, and one that has a value read
\* it in its own run or later, but not later than now.
ThreadInv(r) ==
  /\ thread[r].pc \notin {"none", "done"} => timeline = r
  /\ thread[r].pc \in {"collect", "label", "append", "derive", "delta"} => thread[r].into = r
  /\ thread[r].pc \in {"label", "append", "derive", "delta"} =>
       Before(r) <= thread[r].value /\ thread[r].value <= Reading
  /\ thread[r].pc \in {"append", "delta"} /\ thread[r].label = "baseline" => thread[r].value < After(r)
  /\ thread[r].pc = "delta" => previous # 0

\* The reading that differences are taken to is of the timeline's run.
PreviousInv == previous # 0 => timeline # 0 /\ Before(timeline) <= previous

SamplingInv == Types /\ ExperimentInv /\ (\A r \in Runs : ThreadInv(r)) /\ PreviousInv /\ BaselineIsClean

-----------------------------------------------------------------------------
\* The phases, one by one.
LEMMA PhaseFacts ==
  PhaseNames = {"warmup", "baseline", "injection", "observing", "recovery", "stopped"}
<1>1. Len(Phases) = 6
  BY DEF Phases
<1>2. 1..6 = {1, 2, 3, 4, 5, 6}
  OBVIOUS
<1>3. QED
  BY <1>1, <1>2 DEF PhaseNames, Phases

\* What the proof needs of the types is more than what TypeOK says.
LEMMA TypesImplyTypeOK == Types => SamplingTypeOK
<1> SUFFICES ASSUME Types
             PROVE  SamplingTypeOK
  OBVIOUS
<1>1. ASSUME NEW r \in Runs
      PROVE  /\ \A i \in 1..Len(markers[r]) : markers[r][i] \in PhaseNames
             /\ \A i \in 1..Len(samples[r]) : samples[r][i] \in SampleType
  BY ElementOfSeq DEF Types
<1>2. ASSUME NEW r \in Runs
      PROVE  thread[r] \in ThreadType
  BY DEF Types
<1>3. QED
  BY <1>1, <1>2 DEF Types, SamplingTypeOK, ThreadType, ThreadPlaces

\* Numbers of runs and readings.
LEMMA ReadingFacts ==
  ASSUME Types
  PROVE  /\ run \in Nat \ {0} /\ MaxRuns \in Nat
         /\ Reading \in Readings
         /\ Before(run) <= Reading /\ Reading <= After(run)
         /\ \A n \in Readings : n \in Nat
  BY SamplingAssumption DEF Types, Runs, Reading, Readings, Before, Marked, After

\* Marking a phase makes it the current one of its timeline, and leaves the
\* others.
LEMMA Marks ==
  ASSUME Types, NEW r \in Runs, NEW phase \in PhaseNames, Mark(r, phase)
  PROVE  /\ markers' \in [Runs -> Seq(PhaseNames) \ {<<>>}]
         /\ CurrentPhase(r)' = phase
         /\ \A s \in Runs : s # r => CurrentPhase(s)' = CurrentPhase(s)
<1>1. markers[r] \in Seq(PhaseNames)
  BY DEF Types
<1>2. /\ Append(markers[r], phase) \in Seq(PhaseNames) \ {<<>>}
      /\ Len(Append(markers[r], phase)) = Len(markers[r]) + 1
      /\ Append(markers[r], phase)[Len(markers[r]) + 1] = phase
  BY <1>1, AppendProperties
<1>3. /\ markers'[r] = Append(markers[r], phase)
      /\ \A s \in Runs : s # r => markers'[s] = markers[s]
      /\ markers' \in [Runs -> Seq(PhaseNames) \ {<<>>}]
  BY <1>2 DEF Types, Mark
<1>4. CurrentPhase(r)' = phase
  BY <1>2, <1>3 DEF CurrentPhase
<1>5. QED
  BY <1>3, <1>4 DEF CurrentPhase

\* The current phase is one of the phases.
LEMMA CurrentIsAPhase ==
  ASSUME Types, NEW r \in Runs
  PROVE  CurrentPhase(r) \in PhaseNames
<1>1. markers[r] \in Seq(PhaseNames) /\ markers[r] # <<>>
  BY DEF Types
<1>2. Len(markers[r]) \in 1..Len(markers[r])
  BY <1>1, EmptySeq, LenProperties
<1>3. QED
  BY <1>1, <1>2, ElementOfSeq DEF CurrentPhase

-----------------------------------------------------------------------------
\* The invariant holds at first.
LEMMA SamplingInitInductive == SamplingInit => SamplingInv
<1> SUFFICES ASSUME SamplingInit
             PROVE  SamplingInv
  OBVIOUS
<1>1. /\ run = 1 /\ at = "start" /\ acted = FALSE /\ stopping = FALSE /\ timeline = 0 /\ previous = 0
      /\ \A r \in Runs : markers[r] = <<"warmup">> /\ samples[r] = <<>> /\ thread[r] = NoThread
  BY DEF SamplingInit
<1>2. 1 \in Runs /\ 0 \in 0..MaxRuns /\ 0 \in Readings /\ 0 \in 0..MaxRounds
  BY SamplingAssumption DEF Runs, Readings, After
<1>3. <<"warmup">> \in Seq(PhaseNames) \ {<<>>} /\ Len(<<"warmup">>) = 1 /\ <<"warmup">>[1] = "warmup"
  BY PhaseFacts
<1>4. NoThread \in ThreadType
  BY <1>2, PhaseFacts DEF NoThread, ThreadType, ThreadPlaces
<1>5. markers \in [Runs -> Seq(PhaseNames) \ {<<>>}]
  BY <1>3 DEF SamplingInit
<1>6. samples \in [Runs -> Seq(SampleType)]
  BY EmptySeq DEF SamplingInit
<1>7. thread \in [Runs -> ThreadType]
  BY <1>4 DEF SamplingInit
<1>8. Types
  BY <1>1, <1>2, <1>5, <1>6, <1>7 DEF Types
<1>9. \A r \in Runs : CurrentPhase(r) = "warmup"
  BY <1>1, <1>3 DEF CurrentPhase
<1>10. ExperimentInv
  BY <1>1, <1>9 DEF ExperimentInv
<1>11. \A r \in Runs : ThreadInv(r)
  BY <1>1 DEF ThreadInv, NoThread
<1>12. PreviousInv
  BY <1>1 DEF PreviousInv
<1>13. BaselineIsClean
  BY <1>1, EmptySeq DEF BaselineIsClean
<1>14. QED
  BY <1>8, <1>10, <1>11, <1>12, <1>13 DEF SamplingInv
-----------------------------------------------------------------------------
\* The thread of the experiment

\* A step of the experiment other than start leaves the samplers' invariants
\* alone, because readings only grow later.
LEMMA ExperimentStep ==
  ASSUME SamplingInv, UNCHANGED <<timeline, previous, samples, thread>>, Reading <= Reading', Reading' \in Nat
  PROVE  (\A r \in Runs : ThreadInv(r)') /\ PreviousInv' /\ BaselineIsClean'
<1>1. ASSUME NEW r \in Runs
      PROVE  ThreadInv(r)'
  <2>1. ThreadInv(r)
    BY DEF SamplingInv
  <2>2. thread[r].value \in Nat /\ Reading \in Nat /\ Before(r) \in Nat
    BY ReadingFacts DEF SamplingInv, Types, ThreadType, Runs, Before
  <2>3. Before(r)' = Before(r) /\ After(r)' = After(r)
    BY DEF Before, After
  <2>4. QED
    BY <2>1, <2>2, <2>3 DEF ThreadInv
<1>2. PreviousInv'
  BY DEF SamplingInv, PreviousInv, Before
<1>3. BaselineIsClean'
  BY DEF SamplingInv, BaselineIsClean, Before, After
<1>4. QED
  BY <1>1, <1>2, <1>3

\* start: the thread and the timeline are new, and all other threads are over.
LEMMA StartKeeps ==
  ASSUME SamplingInv, Start
  PROVE  SamplingInv'
<1>1. /\ at = "start" /\ ~Running /\ timeline' = run /\ Mark(run, "warmup") /\ stopping' = FALSE
      /\ thread' = [thread EXCEPT ![run] = [NoThread EXCEPT !.pc = "loop"]]
      /\ at' = "baseline" /\ previous' = 0
      /\ UNCHANGED <<run, acted, samples>>
  BY DEF Start, Launch
<1>2. Types /\ ExperimentInv /\ run \in Runs /\ run \in Nat \ {0} /\ run \in 0..MaxRuns
  BY ReadingFacts DEF SamplingInv, Types, Runs
<1>3. "warmup" \in PhaseNames /\ "baseline" \in PhaseNames
  BY PhaseFacts
<1>4. /\ markers' \in [Runs -> Seq(PhaseNames) \ {<<>>}]
      /\ CurrentPhase(run)' = "warmup"
      /\ \A s \in Runs : s # run => CurrentPhase(s)' = CurrentPhase(s)
  BY <1>1, <1>2, <1>3, Marks
<1> DEFINE new == [NoThread EXCEPT !.pc = "loop"]
<1>5. new \in ThreadType /\ new.pc = "loop"
  BY <1>3, SamplingAssumption DEF NoThread, ThreadType, ThreadPlaces, Readings, After
<1> HIDE DEF new
<1>6. /\ thread' \in [Runs -> ThreadType]
      /\ thread'[run] = new
      /\ \A r \in Runs : r # run => thread'[r] = thread[r]
  BY <1>1, <1>2, <1>5 DEF Types, new
<1>7. 0 \in Readings
  BY SamplingAssumption DEF Readings, After
<1>8. Types'
  BY <1>1, <1>2, <1>3, <1>4, <1>6, <1>7 DEF Types
<1>9. ExperimentInv'
  BY <1>1, <1>2, <1>4 DEF ExperimentInv
<1>10. ASSUME NEW r \in Runs
       PROVE  ThreadInv(r)'
  <2>1. CASE r = run
    BY <1>1, <1>5, <1>6, <2>1 DEF ThreadInv
  <2>2. CASE r # run
    <3>1. thread[r].pc \in {"none", "done"}
      BY <1>1 DEF Running
    <3>2. QED
      BY <1>6, <2>2, <3>1 DEF ThreadInv
  <2>3. QED
    BY <2>1, <2>2
<1>11. PreviousInv'
  BY <1>1 DEF PreviousInv
<1>12. BaselineIsClean'
  BY <1>1 DEF SamplingInv, BaselineIsClean, Before, After
<1>13. QED
  BY <1>8, <1>9, <1>10, <1>11, <1>12 DEF SamplingInv

\* set_phase: the baseline is marked before the root action only.
LEMMA SetPhaseKeeps ==
  ASSUME SamplingInv, SetPhase
  PROVE  SamplingInv'
<1>1. /\ at \in {"baseline", "injection", "observing", "recovery"}
      /\ Mark(timeline, at)
      /\ UNCHANGED <<run, acted, stopping, timeline, previous, samples, thread>>
  BY DEF SetPhase
<1>2. \/ at = "baseline" /\ at' = "injection"
      \/ at = "injection" /\ at' = "act"
      \/ at = "observing" /\ at' = "recovery"
      \/ at = "recovery" /\ at' = "stop"
  BY DEF SetPhase
<1>3. Types /\ ExperimentInv /\ timeline = run /\ timeline \in Runs /\ at \in PhaseNames
  BY <1>1, PhaseFacts DEF SamplingInv, Types, ExperimentInv
<1>4. /\ markers' \in [Runs -> Seq(PhaseNames) \ {<<>>}]
      /\ CurrentPhase(timeline)' = at
      /\ \A s \in Runs : s # timeline => CurrentPhase(s)' = CurrentPhase(s)
  BY <1>1, <1>3, Marks
<1>5. Types'
  BY <1>1, <1>2, <1>3, <1>4, PhaseFacts DEF Types
<1>6. at = "injection" \/ at = "baseline" => ~acted
  BY <1>3 DEF ExperimentInv
<1>7. ExperimentInv'
  BY <1>1, <1>2, <1>3, <1>4, <1>6 DEF ExperimentInv
<1>8. Reading <= Reading' /\ Reading' \in Nat
  <2>1. run \in Nat
    BY <1>3, ReadingFacts
  <2>2. QED
    BY <1>1, <1>2, <2>1 DEF Reading, Before, Marked, After
<1>9. QED
  BY <1>1, <1>5, <1>7, <1>8, ExperimentStep DEF SamplingInv

\* The root action: the phase has left the baseline by now.
LEMMA ActKeeps ==
  ASSUME SamplingInv, Act
  PROVE  SamplingInv'
<1>1. /\ at = "act" /\ acted' = TRUE /\ at' \in {"observing", "stop"}
      /\ UNCHANGED <<run, stopping, timeline, previous, markers, samples, thread>>
  BY DEF Act
<1>2. Types /\ ExperimentInv
  BY DEF SamplingInv
<1>3. Types'
  BY <1>1, <1>2, PhaseFacts DEF Types
<1>4. \A r \in Runs : CurrentPhase(r)' = CurrentPhase(r)
  BY <1>1 DEF CurrentPhase
<1>5. ExperimentInv'
  BY <1>1, <1>2, <1>4 DEF ExperimentInv
<1>6. Reading <= Reading' /\ Reading' \in Nat
  <2>1. run \in Nat
    BY <1>2, ReadingFacts
  <2>2. QED
    BY <1>1, <2>1 DEF Reading, Before, Marked, After
<1>7. QED
  BY <1>1, <1>3, <1>5, <1>6, ExperimentStep DEF SamplingInv

\* The steps towards the stop: what the phase is does not change.
LEMMA LeavingKeeps ==
  ASSUME SamplingInv, NoStart \/ Interrupted \/ Stop
  PROVE  SamplingInv'
<1>1. /\ at \in {"start", "baseline", "injection", "observing", "recovery", "stop"}
      /\ at' \in {"stop", "join"}
      /\ stopping' \in BOOLEAN
      /\ UNCHANGED <<run, acted, timeline, previous, markers, samples, thread>>
  BY DEF NoStart, Interrupted, Stop, SamplingInv, Types
<1>2. Types /\ ExperimentInv
  BY DEF SamplingInv
<1>3. Types'
  BY <1>1, <1>2 DEF Types
<1>4. \A r \in Runs : CurrentPhase(r)' = CurrentPhase(r)
  BY <1>1 DEF CurrentPhase
<1>5. ExperimentInv'
  BY <1>1, <1>2, <1>4 DEF ExperimentInv
<1>6. Reading <= Reading' /\ Reading' \in Nat
  <2>1. run \in Nat
    BY <1>2, ReadingFacts
  <2>2. QED
    BY <1>1, <2>1 DEF Reading, Before, Marked, After
<1>7. QED
  BY <1>1, <1>3, <1>5, <1>6, ExperimentStep DEF SamplingInv

\* The end of the join marks the timeline as stopped.
LEMMA JoinKeeps ==
  ASSUME SamplingInv, Join
  PROVE  SamplingInv'
<1>1. /\ at = "join" /\ at' = "evaluated"
      /\ UNCHANGED <<run, acted, stopping, timeline, previous, samples, thread>>
      /\ IF timeline = 0 THEN UNCHANGED markers ELSE Mark(timeline, "stopped")
  BY DEF Join
<1>2. Types /\ ExperimentInv /\ (timeline = 0 \/ timeline \in Runs)
  BY SamplingAssumption DEF SamplingInv, Types, Runs
<1>3. /\ markers' \in [Runs -> Seq(PhaseNames) \ {<<>>}]
      /\ \A r \in Runs : CurrentPhase(r)' # "baseline"
  <2>1. CASE timeline = 0
    <3>1. markers' = markers
      BY <1>1, <2>1
    <3>2. \A r \in Runs : CurrentPhase(r)' = CurrentPhase(r)
      BY <3>1 DEF CurrentPhase
    <3>3. \A r \in Runs : r # 0
      BY DEF Runs
    <3>4. \A r \in Runs : CurrentPhase(r) # "baseline"
      BY <1>2, <2>1, <3>3 DEF ExperimentInv
    <3>5. markers' \in [Runs -> Seq(PhaseNames) \ {<<>>}]
      BY <1>2, <3>1 DEF Types
    <3>6. QED
      BY <3>2, <3>4, <3>5
  <2>2. CASE timeline # 0
    <3>1. "stopped" \in PhaseNames
      BY PhaseFacts
    <3>2. PICK t \in Runs : t = timeline
      BY <1>2, <2>2
    <3>3. /\ markers' \in [Runs -> Seq(PhaseNames) \ {<<>>}]
          /\ CurrentPhase(t)' = "stopped"
          /\ \A s \in Runs : s # t => CurrentPhase(s)' = CurrentPhase(s)
      BY <1>1, <1>2, <2>2, <3>1, <3>2, Marks
    <3>4. ASSUME NEW r \in Runs
          PROVE  CurrentPhase(r)' # "baseline"
      <4>1. CASE r = t
        BY <3>3, <4>1
      <4>2. CASE r # t
        BY <1>2, <3>2, <3>3, <4>2 DEF ExperimentInv
      <4>3. QED
        BY <4>1, <4>2
    <3>5. QED
      BY <3>3, <3>4
  <2>3. QED
    BY <2>1, <2>2
<1>4. Types'
  BY <1>1, <1>2, <1>3 DEF Types
<1>5. ExperimentInv'
  BY <1>1, <1>2, <1>3 DEF ExperimentInv
<1>6. Reading <= Reading' /\ Reading' \in Nat
  <2>1. run \in Nat
    BY <1>2, ReadingFacts
  <2>2. QED
    BY <1>1, <2>1 DEF Reading, Before, Marked, After
<1>7. QED
  BY <1>1, <1>4, <1>5, <1>6, ExperimentStep DEF SamplingInv

\* The next run: no timeline is in its baseline.
LEMMA NextRunKeeps ==
  ASSUME SamplingInv, NextRun
  PROVE  SamplingInv'
<1>1. /\ at = "evaluated" /\ run < MaxRuns /\ run' = run + 1 /\ at' = "start" /\ acted' = FALSE
      /\ UNCHANGED <<stopping, timeline, previous, markers, samples, thread>>
  BY DEF NextRun
<1>2. Types /\ ExperimentInv /\ run \in Nat \ {0} /\ MaxRuns \in Nat
  BY ReadingFacts DEF SamplingInv
<1>3. run' \in Runs
  BY <1>1, <1>2 DEF Runs
<1>4. Types'
  BY <1>1, <1>2, <1>3 DEF Types
<1>5. \A r \in Runs : CurrentPhase(r)' = CurrentPhase(r)
  BY <1>1 DEF CurrentPhase
<1>6. timeline \in Nat /\ timeline <= run
  BY <1>2 DEF Types, ExperimentInv
<1>7. ExperimentInv'
  BY <1>1, <1>2, <1>5, <1>6 DEF ExperimentInv
<1>8. Reading <= Reading' /\ Reading' \in Nat
  BY <1>1, <1>2 DEF Reading, Before, Marked, After
<1>9. QED
  BY <1>1, <1>4, <1>7, <1>8, ExperimentStep DEF SamplingInv

-----------------------------------------------------------------------------
\* The thread of the sampler

\* A step of one sampler thread leaves the experiment and the other threads,
\* of which none is running.
LEMMA SamplerStep ==
  ASSUME SamplingInv, NEW r \in Runs, NEW to \in ThreadType, thread' = [thread EXCEPT ![r] = to],
         thread[r].pc \notin {"none", "done"},
         Rest, previous' \in Readings, samples' \in [Runs -> Seq(SampleType)],
         ThreadInv(r)', PreviousInv', BaselineIsClean'
  PROVE  SamplingInv'
<1>1. thread' \in [Runs -> ThreadType] /\ \A s \in Runs : s # r => thread'[s] = thread[s]
  BY DEF SamplingInv, Types
<1>2. Types'
  BY <1>1 DEF SamplingInv, Types, Rest
<1>3. ExperimentInv'
  <2>1. \A s \in Runs : CurrentPhase(s)' = CurrentPhase(s)
    BY DEF Rest, CurrentPhase
  <2>2. QED
    BY <2>1 DEF SamplingInv, ExperimentInv, Rest
<1>4. ASSUME NEW s \in Runs, s # r
      PROVE  ThreadInv(s)'
  <2>1. timeline = r
    BY DEF SamplingInv, ThreadInv
  <2>2. thread[s].pc \in {"none", "done"}
    BY <1>4, <2>1 DEF SamplingInv, ThreadInv
  <2>3. QED
    BY <1>1, <1>4, <2>2 DEF ThreadInv
<1>5. QED
  BY <1>2, <1>3, <1>4 DEF SamplingInv

\* What a running thread has at hand.
LEMMA RunningThread ==
  ASSUME SamplingInv, NEW r \in Runs, thread[r].pc \notin {"none", "done"}
  PROVE  /\ thread[r] \in ThreadType
         /\ ThreadInv(r) /\ timeline = r /\ r <= run
         /\ r \in Nat \ {0} /\ run \in Nat
         /\ Before(r) <= Reading /\ Reading \in Nat /\ Reading \in Readings
         /\ Rest => Reading' = Reading
<1>1. Types /\ ExperimentInv /\ ThreadInv(r)
  BY DEF SamplingInv
<1>2. timeline = r /\ r <= run /\ r \in Nat \ {0}
  BY <1>1 DEF ThreadInv, ExperimentInv, Runs
<1>3. run \in Nat /\ Before(run) <= Reading /\ Reading \in Nat /\ Reading \in Readings
  BY <1>1, ReadingFacts
<1>4. Before(r) <= Before(run) /\ Before(r) \in Nat /\ Before(run) \in Nat
  BY <1>2, <1>3 DEF Before
<1>5. Before(r) <= Reading
  BY <1>3, <1>4
<1>6. Rest => Reading' = Reading
  BY DEF Rest, Reading, Before, Marked, After
<1>7. QED
  BY <1>1, <1>2, <1>3, <1>5, <1>6 DEF Types

\* The samples that are there already stay clean.
LEMMA SamplesStay ==
  ASSUME SamplingInv, UNCHANGED samples
  PROVE  BaselineIsClean'
  BY DEF SamplingInv, BaselineIsClean, Before, After

\* A previous reading that is left alone is as it should be.
LEMMA PreviousStays ==
  ASSUME SamplingInv, UNCHANGED <<previous, timeline>>
  PROVE  PreviousInv'
  BY DEF SamplingInv, PreviousInv, Before

\* A thread that has nothing at hand is as it should be.
LEMMA IdleThread ==
  ASSUME SamplingInv, NEW r \in Runs, NEW to \in ThreadType, to.pc \in {"loop", "done"},
         thread[r].pc \notin {"none", "done"}, thread' = [thread EXCEPT ![r] = to], UNCHANGED timeline
  PROVE  ThreadInv(r)'
<1>1. thread'[r] = to
  BY DEF SamplingInv, Types
<1>2. timeline = r
  BY RunningThread
<1>3. QED
  BY <1>1, <1>2 DEF ThreadInv

\* A thread that has nothing at hand is a thread.
LEMMA IdleIsTyped ==
  ASSUME SamplingInv, NEW r \in Runs
  PROVE  Idle(r) \in ThreadType /\ Idle(r).pc = "loop"
<1>1. thread[r] \in ThreadType
  BY DEF SamplingInv, Types
<1>2. 0 \in 0..MaxRuns /\ "warmup" \in PhaseNames /\ "loop" \in ThreadPlaces
  BY SamplingAssumption, PhaseFacts DEF ThreadPlaces
<1>3. ASSUME NEW t \in ThreadType
      PROVE  [t EXCEPT !.pc = "loop", !.into = 0, !.label = "warmup"] \in ThreadType
  BY <1>2 DEF ThreadType
<1>4. Idle(r) \in ThreadType
  BY <1>1, <1>3 DEF Idle
<1>5. Idle(r).pc = "loop"
  BY <1>1 DEF Idle, ThreadType
<1>6. QED
  BY <1>4, <1>5

\* The loop's condition: the thread collects into its own timeline.
LEMMA LoopKeeps ==
  ASSUME SamplingInv, NEW r \in Runs, Loop(r)
  PROVE  SamplingInv'
<1> DEFINE to == IF stopping THEN [thread[r] EXCEPT !.pc = "done"]
                 ELSE [thread[r] EXCEPT !.pc = "collect", !.into = timeline, !.rounds = @ + 1]
<1>1. /\ thread[r].pc = "loop" /\ thread' = [thread EXCEPT ![r] = to]
      /\ stopping \/ thread[r].rounds < MaxRounds
      /\ Rest /\ UNCHANGED <<previous, samples>>
  BY DEF Loop, Step
<1>2. /\ thread[r] \in ThreadType /\ ThreadInv(r) /\ timeline = r
      /\ timeline \in 0..MaxRuns /\ MaxRounds \in Nat
  BY <1>1, RunningThread, SamplingAssumption DEF SamplingInv, Types
<1>3. to \in ThreadType /\ (stopping => to.pc = "done")
      /\ (~stopping => to.pc = "collect" /\ to.into = timeline)
  <2>1. CASE stopping
    BY <1>2, <2>1 DEF ThreadType, ThreadPlaces
  <2>2. CASE ~stopping
    <3>1. thread[r].rounds + 1 \in 0..MaxRounds
      BY <1>1, <1>2, <2>2 DEF ThreadType
    <3>2. QED
      BY <1>2, <2>2, <3>1 DEF ThreadType, ThreadPlaces
  <2>3. QED
    BY <2>1, <2>2
<1> HIDE DEF to
<1>4. thread'[r] = to /\ timeline' = timeline
  BY <1>1 DEF SamplingInv, Types, Rest
<1>5. ThreadInv(r)'
  BY <1>2, <1>3, <1>4 DEF ThreadInv
<1>6. PreviousInv' /\ BaselineIsClean' /\ previous' \in Readings /\ samples' \in [Runs -> Seq(SampleType)]
  BY <1>1, PreviousStays, SamplesStay DEF Rest, SamplingInv, Types
<1>7. QED
  BY <1>1, <1>3, <1>5, <1>6, SamplerStep

\* collect: the value is read now.
LEMMA CollectKeeps ==
  ASSUME SamplingInv, NEW r \in Runs, Collect(r)
  PROVE  SamplingInv'
<1>1. thread[r].pc = "collect" /\ Rest /\ UNCHANGED <<previous, samples>>
  BY DEF Collect, Step
<1>2. PreviousInv' /\ BaselineIsClean' /\ previous' \in Readings /\ samples' \in [Runs -> Seq(SampleType)]
  BY <1>1, PreviousStays, SamplesStay DEF Rest, SamplingInv, Types
<1>3. CASE Step(r, "collect", Idle(r))
  <2>1. Idle(r) \in ThreadType /\ Idle(r).pc = "loop" /\ thread' = [thread EXCEPT ![r] = Idle(r)]
    BY <1>3, IdleIsTyped DEF Step
  <2>2. ThreadInv(r)'
    BY <1>1, <2>1, IdleThread DEF Rest
  <2>3. QED
    BY <1>1, <1>2, <2>1, <2>2, SamplerStep
<1>4. CASE Step(r, "collect", [thread[r] EXCEPT !.pc = "label", !.value = Reading])
  <2> DEFINE to == [thread[r] EXCEPT !.pc = "label", !.value = Reading]
  <2>1. /\ thread[r] \in ThreadType /\ ThreadInv(r) /\ timeline = r
        /\ Before(r) <= Reading /\ Reading \in Nat /\ Reading \in Readings /\ Reading' = Reading
    BY <1>1, RunningThread
  <2>2. /\ to \in ThreadType /\ to.pc = "label" /\ to.value = Reading /\ to.into = thread[r].into
    BY <2>1 DEF ThreadType, ThreadPlaces
  <2>3. thread' = [thread EXCEPT ![r] = to]
    BY <1>4 DEF Step
  <2> HIDE DEF to
  <2>4. thread'[r] = to /\ timeline' = timeline
    BY <1>1, <2>3 DEF SamplingInv, Types, Rest
  <2>5. Before(r)' = Before(r)
    BY DEF Before
  <2>6. ThreadInv(r)'
    BY <1>1, <2>1, <2>2, <2>4, <2>5 DEF ThreadInv
  <2>7. QED
    BY <1>1, <1>2, <2>2, <2>3, <2>6, SamplerStep
<1>5. QED
  BY <1>3, <1>4 DEF Collect

\* A sample that is labelled as the baseline was read before the root action.
LEMMA LabelledBaseline ==
  ASSUME SamplingInv, NEW r \in Runs, thread[r].pc \in {"label", "derive"}, CurrentPhase(r) = "baseline"
  PROVE  thread[r].value < After(r)
<1>1. r = run /\ ~acted /\ at \in {"injection", "stop", "join"}
  BY DEF SamplingInv, ExperimentInv
<1>2. Reading = Before(r)
  BY <1>1 DEF Reading
<1>3. thread[r].value <= Before(r) /\ thread[r].value \in Nat /\ r \in Nat
  BY <1>2, RunningThread, ReadingFacts DEF SamplingInv, ThreadInv, ThreadType
<1>4. QED
  BY <1>3 DEF Before, After

\* The label: a baseline that is current now was current when the value was read.
LEMMA LabelKeeps ==
  ASSUME SamplingInv, NEW r \in Runs, Label(r)
  PROVE  SamplingInv'
<1> DEFINE to == [thread[r] EXCEPT !.pc = "append", !.label = CurrentPhase(thread[r].into)]
<1>1. thread[r].pc = "label" /\ thread' = [thread EXCEPT ![r] = to] /\ Rest /\ UNCHANGED <<previous, samples>>
  BY DEF Label, Step
<1>2. /\ thread[r] \in ThreadType /\ ThreadInv(r) /\ timeline = r /\ Reading' = Reading
  BY <1>1, RunningThread
<1>3. thread[r].into = r /\ CurrentPhase(r) \in PhaseNames
  BY <1>1, <1>2, CurrentIsAPhase DEF ThreadInv, SamplingInv
<1>4. /\ to \in ThreadType /\ to.pc = "append" /\ to.label = CurrentPhase(r)
      /\ to.value = thread[r].value /\ to.into = thread[r].into
  BY <1>2, <1>3 DEF ThreadType, ThreadPlaces
<1>5. CurrentPhase(r) = "baseline" => thread[r].value < After(r)
  BY <1>1, LabelledBaseline
<1> HIDE DEF to
<1>6. thread'[r] = to /\ timeline' = timeline
  BY <1>1 DEF SamplingInv, Types, Rest
<1>7. Before(r)' = Before(r) /\ After(r)' = After(r)
  BY DEF Before, After
<1>8. ThreadInv(r)'
  BY <1>1, <1>2, <1>4, <1>5, <1>6, <1>7 DEF ThreadInv
<1>9. PreviousInv' /\ BaselineIsClean' /\ previous' \in Readings /\ samples' \in [Runs -> Seq(SampleType)]
  BY <1>1, PreviousStays, SamplesStay DEF Rest, SamplingInv, Types
<1>10. QED
  BY <1>1, <1>4, <1>8, <1>9, SamplerStep

\* A sample that is clean may be added to its own run.
LEMMA CleanSample ==
  ASSUME SamplingInv, NEW r \in Runs, NEW sample \in SampleType,
         samples' = [samples EXCEPT ![r] = Append(@, sample)],
         sample.label = "baseline" => sample.since >= Before(r) /\ sample.read < After(r)
  PROVE  samples' \in [Runs -> Seq(SampleType)] /\ BaselineIsClean'
<1>1. samples \in [Runs -> Seq(SampleType)] /\ samples[r] \in Seq(SampleType)
  BY DEF SamplingInv, Types
<1>2. /\ Append(samples[r], sample) \in Seq(SampleType)
      /\ Len(Append(samples[r], sample)) = Len(samples[r]) + 1
      /\ \A i \in 1..Len(samples[r]) : Append(samples[r], sample)[i] = samples[r][i]
      /\ Append(samples[r], sample)[Len(samples[r]) + 1] = sample
      /\ Len(samples[r]) \in Nat
  BY <1>1, AppendProperties, LenProperties
<1>3. /\ samples' \in [Runs -> Seq(SampleType)]
      /\ samples'[r] = Append(samples[r], sample)
      /\ \A s \in Runs : s # r => samples'[s] = samples[s]
  BY <1>1, <1>2
<1>4. ASSUME NEW s \in Runs, NEW i \in 1..Len(samples'[s]), samples'[s][i].label = "baseline"
      PROVE  samples'[s][i].since >= Before(s) /\ samples'[s][i].read < After(s)
  <2>1. CASE s # r
    BY <1>3, <1>4, <2>1 DEF SamplingInv, BaselineIsClean
  <2>2. CASE s = r /\ i = Len(samples[r]) + 1
    BY <1>2, <1>3, <1>4, <2>2
  <2>3. CASE s = r /\ i # Len(samples[r]) + 1
    <3>1. i \in 1..Len(samples[r])
      BY <1>2, <1>3, <2>3
    <3>2. samples'[s][i] = samples[r][i]
      BY <1>2, <1>3, <2>3, <3>1
    <3>3. QED
      BY <1>4, <2>3, <3>1, <3>2 DEF SamplingInv, BaselineIsClean
  <2>4. QED
    BY <2>1, <2>2, <2>3
<1>5. BaselineIsClean'
  BY <1>4 DEF BaselineIsClean, Before, After
<1>6. QED
  BY <1>3, <1>5

\* add_sample: the value is clean for the label that it has.
LEMMA AddKeeps ==
  ASSUME SamplingInv, NEW r \in Runs, Add(r)
  PROVE  SamplingInv'
<1> DEFINE to     == [thread[r] EXCEPT !.pc = "derive"]
           sample == Sample(r, "raw", thread[r].value)
<1>1. /\ thread[r].pc = "append" /\ thread' = [thread EXCEPT ![r] = to] /\ Rest /\ UNCHANGED previous
      /\ samples' = [samples EXCEPT ![thread[r].into] = Append(@, sample)]
  BY DEF Add, Step
<1>2. thread[r] \in ThreadType /\ ThreadInv(r) /\ timeline = r /\ Reading' = Reading
  BY <1>1, RunningThread
<1>3. thread[r].into = r /\ Before(r) <= thread[r].value
      /\ (thread[r].label = "baseline" => thread[r].value < After(r))
  BY <1>1, <1>2 DEF ThreadInv
<1>4. /\ to \in ThreadType /\ to.pc = "derive" /\ to.value = thread[r].value /\ to.into = thread[r].into
  BY <1>2 DEF ThreadType, ThreadPlaces
<1>5. /\ sample \in SampleType /\ sample.label = thread[r].label
      /\ sample.since = thread[r].value /\ sample.read = thread[r].value
  BY <1>2 DEF Sample, SampleType, ThreadType
<1> HIDE DEF to, sample
<1>6. sample.label = "baseline" => sample.since >= Before(r) /\ sample.read < After(r)
  <2>1. Before(r) \in Nat /\ thread[r].value \in Nat
    BY <1>2, ReadingFacts DEF Before, Runs, ThreadType, SamplingInv
  <2>2. QED
    BY <1>3, <1>5, <2>1
<1>7. samples' = [samples EXCEPT ![r] = Append(@, sample)]
  BY <1>1, <1>3
<1>8. samples' \in [Runs -> Seq(SampleType)] /\ BaselineIsClean'
  BY <1>5, <1>6, <1>7, CleanSample
<1>9. thread'[r] = to /\ timeline' = timeline /\ Before(r)' = Before(r)
  BY <1>1 DEF SamplingInv, Types, Rest, Before
<1>10. ThreadInv(r)'
  BY <1>1, <1>2, <1>4, <1>9 DEF ThreadInv
<1>11. PreviousInv' /\ previous' \in Readings
  BY <1>1, PreviousStays DEF Rest, SamplingInv, Types
<1>12. QED
  BY <1>1, <1>4, <1>8, <1>10, <1>11, SamplerStep

\* The previous reading, if there is none, becomes the thread's own.
LEMMA DeriveKeeps ==
  ASSUME SamplingInv, NEW r \in Runs, Derive(r)
  PROVE  SamplingInv'
<1>1. thread[r].pc = "derive" /\ Rest /\ UNCHANGED samples
  BY DEF Derive, Step
<1>2. thread[r] \in ThreadType /\ ThreadInv(r) /\ timeline = r /\ Reading' = Reading /\ r \in Nat \ {0}
  BY <1>1, RunningThread
<1>3. BaselineIsClean' /\ samples' \in [Runs -> Seq(SampleType)]
  BY <1>1, SamplesStay DEF SamplingInv, Types
<1>4. CASE previous = 0 /\ Step(r, "derive", Idle(r)) /\ previous' = thread[r].value
  <2>1. Idle(r) \in ThreadType /\ Idle(r).pc = "loop" /\ thread' = [thread EXCEPT ![r] = Idle(r)]
    BY <1>4, IdleIsTyped DEF Step
  <2>2. ThreadInv(r)'
    BY <1>1, <2>1, IdleThread DEF Rest
  <2>3. previous' \in Readings
    BY <1>2, <1>4 DEF ThreadType
  <2>4. PreviousInv'
    BY <1>1, <1>2, <1>4 DEF PreviousInv, ThreadInv, Rest, Before
  <2>5. QED
    BY <1>1, <1>3, <2>1, <2>2, <2>3, <2>4, SamplerStep
<1>5. CASE /\ previous # 0 /\ UNCHANGED previous
           /\ Step(r, "derive",
                   [thread[r] EXCEPT !.pc = "delta", !.into = timeline, !.label = CurrentPhase(timeline)])
  <2> DEFINE to == [thread[r] EXCEPT !.pc = "delta", !.into = timeline, !.label = CurrentPhase(timeline)]
  <2>1. CurrentPhase(r) \in PhaseNames /\ timeline \in 0..MaxRuns
    BY CurrentIsAPhase DEF SamplingInv, Types
  <2>2. /\ to \in ThreadType /\ to.pc = "delta" /\ to.label = CurrentPhase(r)
        /\ to.value = thread[r].value /\ to.into = r
    BY <1>2, <2>1 DEF ThreadType, ThreadPlaces
  <2>3. CurrentPhase(r) = "baseline" => thread[r].value < After(r)
    BY <1>1, LabelledBaseline
  <2>4. thread' = [thread EXCEPT ![r] = to]
    BY <1>5 DEF Step
  <2> HIDE DEF to
  <2>5. thread'[r] = to /\ timeline' = timeline /\ Before(r)' = Before(r) /\ After(r)' = After(r)
    BY <1>1, <2>4 DEF SamplingInv, Types, Rest, Before, After
  <2>6. ThreadInv(r)'
    BY <1>1, <1>2, <1>5, <2>2, <2>3, <2>5 DEF ThreadInv
  <2>7. PreviousInv' /\ previous' \in Readings
    BY <1>1, <1>5, PreviousStays DEF Rest, SamplingInv, Types
  <2>8. QED
    BY <1>1, <1>3, <2>2, <2>4, <2>6, <2>7, SamplerStep
<1>6. QED
  BY <1>4, <1>5 DEF Derive

\* The difference is taken between two readings of one run.
LEMMA AddDeltaKeeps ==
  ASSUME SamplingInv, NEW r \in Runs, AddDelta(r)
  PROVE  SamplingInv'
<1> DEFINE sample == Sample(r, "delta", previous)
<1>1. /\ thread[r].pc = "delta" /\ thread' = [thread EXCEPT ![r] = Idle(r)] /\ Rest
      /\ samples' = [samples EXCEPT ![thread[r].into] = Append(@, sample)]
      /\ previous' = thread[r].value
  BY DEF AddDelta, Step
<1>2. thread[r] \in ThreadType /\ ThreadInv(r) /\ timeline = r /\ r \in Nat \ {0}
  BY <1>1, RunningThread
<1>3. /\ thread[r].into = r /\ previous # 0 /\ Before(r) <= thread[r].value
      /\ thread[r].label = "baseline" => thread[r].value < After(r)
  BY <1>1, <1>2 DEF ThreadInv
<1>4. previous \in Nat /\ Before(r) \in Nat /\ Before(r) <= previous /\ previous \in Readings
  BY <1>2, <1>3, ReadingFacts DEF SamplingInv, Types, PreviousInv, Before
<1>5. /\ sample \in SampleType /\ sample.label = thread[r].label
      /\ sample.since = previous /\ sample.read = thread[r].value
  BY <1>2, <1>4 DEF Sample, SampleType, ThreadType
<1> HIDE DEF sample
<1>6. sample.label = "baseline" => sample.since >= Before(r) /\ sample.read < After(r)
  BY <1>3, <1>4, <1>5
<1>7. samples' = [samples EXCEPT ![r] = Append(@, sample)]
  BY <1>1, <1>3
<1>8. samples' \in [Runs -> Seq(SampleType)] /\ BaselineIsClean'
  BY <1>5, <1>6, <1>7, CleanSample
<1>9. Idle(r) \in ThreadType /\ Idle(r).pc = "loop"
  BY IdleIsTyped
<1>10. ThreadInv(r)'
  BY <1>1, <1>9, IdleThread DEF Rest
<1>11. previous' \in Readings
  BY <1>1, <1>2 DEF ThreadType
<1>12. PreviousInv'
  BY <1>1, <1>2, <1>3 DEF PreviousInv, Rest, Before
<1>13. QED
  BY <1>1, <1>8, <1>9, <1>10, <1>11, <1>12, SamplerStep

-----------------------------------------------------------------------------
\* Every step keeps the invariant.
LEMMA SamplingStepInductive == SamplingInv /\ [SamplingNext]_samplingVars => SamplingInv'
<1> SUFFICES ASSUME SamplingInv, [SamplingNext]_samplingVars
             PROVE  SamplingInv'
  OBVIOUS
<1>1. CASE Experiment
  BY <1>1, StartKeeps, SetPhaseKeeps, ActKeeps, LeavingKeeps, JoinKeeps, NextRunKeeps DEF Experiment
<1>2. ASSUME NEW r \in Runs, Sampler(r)
      PROVE  SamplingInv'
  BY <1>2, LoopKeeps, CollectKeeps, LabelKeeps, AddKeeps, DeriveKeeps, AddDeltaKeeps DEF Sampler
<1>3. CASE UNCHANGED samplingVars
  <2>1. UNCHANGED <<run, at, acted, stopping, timeline, previous, markers, samples, thread>>
    BY <1>3 DEF samplingVars
  <2>2. Reading' = Reading /\ Reading \in Nat
    BY <2>1, ReadingFacts DEF SamplingInv, Reading, Before, Marked, After
  <2>3. Types'
    BY <2>1 DEF SamplingInv, Types
  <2>4. \A s \in Runs : CurrentPhase(s)' = CurrentPhase(s)
    BY <2>1 DEF CurrentPhase
  <2>5. ExperimentInv'
    BY <2>1, <2>4 DEF SamplingInv, ExperimentInv
  <2>6. QED
    BY <2>1, <2>2, <2>3, <2>5, ExperimentStep DEF SamplingInv
<1>4. QED
  BY <1>1, <1>2, <1>3 DEF SamplingNext

\* So it holds always.
LEMMA SamplingInductive == SamplingSpec => []SamplingInv
  BY SamplingInitInductive, SamplingStepInductive, PTL DEF SamplingSpec

-----------------------------------------------------------------------------
\* The state that the two threads share keeps its types.
THEOREM SamplingTypeCorrect == SamplingSpec => []SamplingTypeOK
<1>1. SamplingInv => SamplingTypeOK
  BY TypesImplyTypeOK DEF SamplingInv
<1>2. QED
  BY SamplingInductive, <1>1, PTL

\* In whatever order the threads go, and though a sampler may outlive its join,
\* what is labelled as a run's baseline was read in that run and before its
\* root action, and so was the reading that a difference is taken to.
THEOREM BaselineStaysClean == SamplingSpec => []BaselineIsClean
<1>1. SamplingInv => BaselineIsClean
  BY DEF SamplingInv
<1>2. QED
  BY SamplingInductive, <1>1, PTL
================================================================================
