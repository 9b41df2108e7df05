------------------------------- MODULE Graph -------------------------------
(***************************************************************************)
(* Least-cost routes from one node (src/core/graphs.cpp).  Node 0 stands   *)
(* for "no node" in the code, so the nodes begin at 1.  Compute takes the  *)
(* pair with the least cost from its queue again and again: a step each.   *)
(***************************************************************************)
EXTENDS Integers, Sequences, FiniteSets, FiniteSetsExt, SequencesExt, Functions

CONSTANTS
  Nodes,     \* without NoNode
  Source,    \* node_
  Costs,     \* the costs of the edges that are tried
  MaxEdges,  \* bound: how many edges are added
  MaxCost    \* max_cost, infinity: more than any route costs

NoNode == 0

ASSUME GraphAssumption ==
  /\ Nodes \subseteq Nat \ {NoNode} /\ IsFiniteSet(Nodes) /\ Source \in Nodes
  /\ Costs \subseteq Nat /\ MaxCost \in Nat
  /\ \E most \in Costs : (\A c \in Costs : c <= most) /\ Cardinality(Nodes) * most < MaxCost

VARIABLES
  edges,      \* adjacency_list_
  computed,   \* computed_
  cost,       \* cost_
  previous,   \* previous_
  queue       \* the set of pairs of Compute, ordered by cost and then by node

graphVars == <<edges, computed, cost, previous, queue>>

EdgeCount == FoldFunction(LAMBDA list, n : Len(list) + n, 0, edges)

\* add_edge adds nothing once the costs are computed.
AddEdge ==
  /\ ~computed /\ EdgeCount < MaxEdges
  /\ \E s, d \in Nodes, c \in Costs :
       edges' = [edges EXCEPT ![s] = Append(@, [node |-> d, cost |-> c])]
  /\ UNCHANGED <<computed, cost, previous, queue>>

\* The first cost_to or shortest_path_to computes all.
Compute ==
  /\ ~computed
  /\ computed' = TRUE
  /\ queue' = {<<cost[Source], Source>>}
  /\ UNCHANGED <<edges, cost, previous>>

\* Mutation: the first edge that leads to a node decides.
RelaxedOnce(state, from, dist, edge) ==
  IF state.previous[edge.node] # NoNode \/ edge.node = Source THEN state
  ELSE [cost |-> [state.cost EXCEPT ![edge.node] = dist + edge.cost],
        previous |-> [state.previous EXCEPT ![edge.node] = from],
        queue |-> state.queue \cup {<<dist + edge.cost, edge.node>>}]

Relaxed(state, from, dist, edge) ==
  LET v == edge.node
      through == dist + edge.cost
  IN IF through < state.cost[v]
     THEN [cost |-> [state.cost EXCEPT ![v] = through],
           previous |-> [state.previous EXCEPT ![v] = from],
           queue |-> (state.queue \ {<<state.cost[v], v>>}) \cup {<<through, v>>}]
     ELSE state

First(q) == CHOOSE a \in q : \A b \in q : a[1] < b[1] \/ (a[1] = b[1] /\ a[2] <= b[2])

Settle ==
  /\ queue # {}
  /\ LET u == First(queue)
         after[n \in 0 .. Len(edges[u[2]])] ==
           IF n = 0 THEN [cost |-> cost, previous |-> previous, queue |-> queue \ {u}]
           ELSE Relaxed(after[n - 1], u[2], u[1], edges[u[2]][n])
         end == after[Len(edges[u[2]])]
     IN cost' = end.cost /\ previous' = end.previous /\ queue' = end.queue
  /\ UNCHANGED <<edges, computed>>

FromBefore(path) ==
  IF previous[Head(path)] = NoNode THEN path ELSE <<previous[Head(path)]>> \o path

\* shortest_path_to: the nodes back from the destination, which begins the list
\* whether or not there is a route to it
PathTo(d) ==
  LET back[n \in 0 .. Cardinality(Nodes)] ==
        IF n = 0 THEN <<d>> ELSE FromBefore(back[n - 1])
  IN back[Cardinality(Nodes)]

Hops(d) == Len(PathTo(d)) - 1

GraphInit ==
  /\ edges = [n \in Nodes |-> <<>>]
  /\ computed = FALSE
  /\ cost = [n \in Nodes |-> IF n = Source THEN 0 ELSE MaxCost]
  /\ previous = [n \in Nodes |-> NoNode]
  /\ queue = {}

GraphNext == AddEdge \/ Compute \/ Settle

-----------------------------------------------------------------------------
(* What a shortest path is *)

EdgeCosts(s, d) == {edges[s][i].cost : i \in {i \in DOMAIN edges[s] : edges[s][i].node = d}}

Routes(d) ==
  {p \in UNION {[1..n -> Nodes] : n \in 1 .. Cardinality(Nodes)} :
     /\ p[1] = Source /\ p[Len(p)] = d /\ IsInjective(p)
     /\ \A i \in 1 .. Len(p) - 1 : EdgeCosts(p[i], p[i + 1]) # {}}

RouteCost(p) ==
  LET after[i \in 0 .. Len(p) - 1] ==
        IF i = 0 THEN 0 ELSE after[i - 1] + Min(EdgeCosts(p[i], p[i + 1]))
  IN after[Len(p) - 1]

\* When the costs are computed, each is the least of any route to the node, and the
\* path is a route of this cost, also with edges that cost nothing, parallel edges
\* and routes found cheaper after the node was queued.  A node that no route leads
\* to is infinitely far and at no hops, like the source itself.
ShortestPaths ==
  computed /\ queue = {} =>
    \A d \in Nodes :
      IF Routes(d) = {} THEN cost[d] = MaxCost /\ Hops(d) = 0
      ELSE /\ cost[d] = Min({RouteCost(p) : p \in Routes(d)})
           /\ PathTo(d) \in Routes(d) /\ RouteCost(PathTo(d)) = cost[d]

=============================================================================
