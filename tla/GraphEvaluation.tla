---------------------------- MODULE GraphEvaluation ----------------------------
(***************************************************************************)
(* GraphEvaluator.evaluate: an anomaly graph is validated, its nodes are   *)
(* sorted topologically, and the observations of the nodes are judged:     *)
(* which nodes hit, which edges' constraints hold, how far the propagation *)
(* came and where it failed.                                               *)
(*                                                                         *)
(* The validator and _topological_nodes make the same passes over a queue  *)
(* that is kept sorted.  A node is a number, in the order of the names.    *)
(***************************************************************************)
EXTENDS Integers, Sequences, FiniteSets

CONSTANTS
  Nodes,      \* the graph's nodes
  Strangers,  \* names that an edge may use though they are no nodes
  Times,      \* when a node may have been seen
  Windows     \* the lag windows [min, max] of the edges

ASSUME GraphAssumption ==
  /\ IsFiniteSet(Nodes) /\ Nodes \subseteq Nat /\ Nodes # {}
  /\ Strangers \cap Nodes = {}
  /\ Times \subseteq Nat

VARIABLES
  edges,     \* the graph's edges, without edges from a node to itself
  flaws,     \* what else is wrong with the graph, that no set of edges tells
  incoming,  \* the edges into a node that are left
  queue,     \* the nodes without one, not yet visited
  order,     \* the nodes visited
  pc,
  windows,   \* the lag that each edge allows
  strong,    \* the edges whose target has the metrics that their mechanism requires
  seen,      \* the observations of the nodes
  ignored    \* the nodes whose evaluation is skipped, the roots

vars == <<edges, flaws, incoming, queue, order, pc, windows, strong, seen, ignored>>

Names == Nodes \cup Strangers
Pairs == {p \in Names \X Names : p[1] # p[2]}
Known(E) == {e \in E : e[1] \in Nodes /\ e[2] \in Nodes}

Sources(n) == {m \in Nodes : <<m, n>> \in edges}
Targets(n) == {m \in Nodes : <<n, m>> \in edges}

\* A node, or an edge, that is listed twice, and a root that is no node: neither
\* changes the sets that the sort works on.
Flaws == {"DUPLICATE_NODE", "UNKNOWN_ROOT", "DUPLICATE_EDGE"}

Missing == [hit |-> FALSE, at |-> -1]
\* at is -1 when there is no timestamp.
Observations == [hit : BOOLEAN, at : Times \cup {-1}]

Init ==
  /\ edges \in SUBSET Pairs
  /\ flaws \in SUBSET Flaws
  /\ edges = {} => "DUPLICATE_EDGE" \notin flaws
  /\ incoming = [n \in Nodes |-> Cardinality(Sources(n))]
  /\ queue = {n \in Nodes : incoming[n] = 0}
  /\ order = <<>>
  /\ pc = "sort"
  /\ windows = [e \in edges |-> <<0, 0>>]
  /\ strong = {}
  /\ seen = [n \in Nodes |-> Missing]
  /\ ignored = {}

-----------------------------------------------------------------------------
Smallest(S) == CHOOSE n \in S : \A m \in S : n <= m

\* Variant: a target is queued when its first edge is removed.
VisitEager ==
  /\ pc = "sort"
  /\ queue # {}
  /\ LET n == Smallest(queue)
     IN /\ order' = Append(order, n)
        /\ incoming' = [m \in Nodes |-> IF m \in Targets(n) THEN incoming[m] - 1 ELSE incoming[m]]
        /\ queue' = (queue \cup {m \in Targets(n) : incoming[m] > 0}) \ {n}
  /\ UNCHANGED <<edges, flaws, pc, windows, strong, seen, ignored>>

\* Variant: the node at the head of the queue is looked at and left there.
VisitKeepsNode ==
  /\ pc = "sort"
  /\ queue # {}
  /\ LET n == Smallest(queue)
     IN /\ order' = Append(order, n)
        /\ incoming' = [m \in Nodes |-> IF m \in Targets(n) THEN incoming[m] - 1 ELSE incoming[m]]
        /\ queue' = queue \cup {m \in Targets(n) : incoming[m] = 1}
  /\ UNCHANGED <<edges, flaws, pc, windows, strong, seen, ignored>>

Visit ==
  /\ pc = "sort"
  /\ queue # {}
  /\ LET n == Smallest(queue)
     IN /\ order' = Append(order, n)
        /\ incoming' = [m \in Nodes |-> IF m \in Targets(n) THEN incoming[m] - 1 ELSE incoming[m]]
        /\ queue' = (queue \ {n}) \cup {m \in Targets(n) : incoming[m] = 1}
  /\ UNCHANGED <<edges, flaws, pc, windows, strong, seen, ignored>>

\* Variant: a node that was not visited is no cycle.
AcceptVisited ==
  /\ pc = "sort"
  /\ queue = {}
  /\ pc' = IF flaws = {} /\ edges = Known(edges) THEN "judge" ELSE "rejected"
  /\ UNCHANGED <<edges, flaws, incoming, queue, order, windows, strong, seen, ignored>>

\* The validator has an issue for each flaw, for an unknown name, and for a cycle,
\* and a graph without an issue is judged.
Accept ==
  /\ pc = "sort"
  /\ queue = {}
  /\ pc' = IF flaws = {} /\ edges = Known(edges) /\ Len(order) = Cardinality(Nodes)
           THEN "judge" ELSE "rejected"
  /\ UNCHANGED <<edges, flaws, incoming, queue, order, windows, strong, seen, ignored>>

\* The observations that evaluate is given, with the window of each edge, the
\* edges whose mechanism they show, and the nodes it is to ignore.
Judge ==
  /\ pc = "judge"
  /\ seen' \in [Nodes -> Observations]
  /\ ignored' \in SUBSET Nodes
  /\ windows' \in [edges -> Windows]
  /\ strong' \in SUBSET edges
  /\ pc' = "judged"
  /\ UNCHANGED <<edges, flaws, incoming, queue, order>>

Next == Visit \/ Accept \/ Judge

Spec == Init /\ [][Next]_vars

-----------------------------------------------------------------------------
\* The judgement

\* An ignored node counts as hit, at the time it was seen or else at 0.
Hit(n) == n \in ignored \/ seen[n].hit

DetectedAt(n) == IF n \in ignored /\ seen[n].at = -1 THEN 0 ELSE seen[n].at

\* EdgeEvaluator.evaluate
Satisfied(s, t) ==
  /\ Hit(s) /\ Hit(t)
  /\ DetectedAt(s) # -1 /\ DetectedAt(t) # -1
  /\ DetectedAt(t) - DetectedAt(s) \in windows[<<s, t>>][1]..windows[<<s, t>>][2]
  /\ <<s, t>> \in strong

EdgesHold == \A e \in edges : Satisfied(e[1], e[2])
AllNodesHit == \A n \in Nodes \ ignored : Hit(n)

IntoHold(n) == \A e \in edges : e[2] = n => Satisfied(e[1], e[2])

\* Where in the order the first node is of which P does not hold, or behind it.
FirstWithout(P(_)) ==
  IF \A i \in 1..Len(order) : P(order[i]) THEN Len(order) + 1
  ELSE CHOOSE i \in 1..Len(order) : ~P(order[i]) /\ \A j \in 1..(i - 1) : P(order[j])

\* Variant: the nodes of the prefix hit, however they came to.
PrefixOfHits == {order[i] : i \in 1..(FirstWithout(Hit) - 1)}

\* longest_successful_prefix
Prefix == LET Successful(n) == Hit(n) /\ IntoHold(n)
          IN {order[i] : i \in 1..(FirstWithout(Successful) - 1)}

\* failed_node, as a set of at most one node
FailedNode == LET i == FirstWithout(Hit) IN {order[j] : j \in {i} \cap (1..Len(order))}

-----------------------------------------------------------------------------
TypeOK ==
  /\ edges \in SUBSET Pairs
  /\ flaws \in SUBSET Flaws
  /\ incoming \in [Nodes -> 0..Cardinality(Nodes)]
  /\ queue \in SUBSET Nodes
  /\ order \in Seq(Nodes)
  /\ pc \in {"sort", "judge", "judged", "rejected"}
  /\ windows \in [edges -> Windows \cup {<<0, 0>>}]
  /\ strong \in SUBSET edges
  /\ seen \in [Nodes -> Observations]
  /\ ignored \in SUBSET Nodes

Visited == {order[i] : i \in 1..Len(order)}

\* At every moment of the sort no node is there twice, and none is there
\* before a node that it depends on.
OrderIsTopological ==
  \A i \in 1..Len(order) :
    /\ \A j \in 1..(i - 1) : order[i] # order[j]
    /\ \A s \in Sources(order[i]) : \E j \in 1..(i - 1) : order[j] = s

\* A set of nodes all of which have a predecessor in the set holds a cycle.
HasCycle ==
  \E S \in (SUBSET Nodes) \ {{}} : \A t \in S : \E s \in S : <<s, t>> \in edges

\* The validator rejects the graphs with a cycle, with an unknown name, or with
\* something that is listed twice, no others, so that the evaluator's order holds
\* every node.
RejectsExactlyCycles ==
  /\ pc = "rejected" => HasCycle \/ edges # Known(edges) \/ flaws # {}
  /\ pc \in {"judge", "judged"} =>
       ~HasCycle /\ edges = Known(edges) /\ flaws = {} /\ Visited = Nodes

\* The diagnosis fits together: the prefix holds, with a node, all that leads to
\* it, hit and in time; a failed node is outside it while everything that leads
\* to the failed node did hit; and the prefix is everything exactly when the
\* run counts as a success.
DiagnosisIsSound ==
  pc = "judged" =>
    /\ \A e \in edges :
         e[2] \in Prefix => e[1] \in Prefix /\ Satisfied(e[1], e[2]) /\ Hit(e[1])
    /\ \A n \in FailedNode :
         /\ n \notin Prefix
         /\ \A e \in edges : e[2] = n => Hit(e[1])
    /\ (FailedNode = {}) <=> AllNodesHit
    /\ (Prefix = Nodes) <=> (AllNodesHit /\ EdgesHold)
=============================================================================
