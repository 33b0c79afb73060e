----------------------------- MODULE PeerGraph -----------------------------
(***************************************************************************)
(* Directed peer graphs, as utils/create_network.py uses them through      *)
(* networkx: nodes are 0 .. size-1 and an edge <<n, r>> means that node n  *)
(* opens a connection to node r.  The operators stand for the DiGraph      *)
(* queries of that script; validate_graph, the script's own statement of   *)
(* what a network must be, is IsPeerNetwork.                               *)
(***************************************************************************)
EXTENDS Integers, FiniteSets

NodeIds(size) == 0 .. size - 1

\* DiGraph.successors(n), DiGraph.in_degree(n) counts Predecessors.
Successors(g, size, n) == {r \in NodeIds(size) : <<n, r>> \in g}
Predecessors(g, size, r) == {n \in NodeIds(size) : <<n, r>> \in g}
InDegree(g, size, r) == Cardinality(Predecessors(g, size, r))

\* nx.is_connected(graph.to_undirected()): no cut separates the nodes.
Connected(g, size) ==
  \A part \in SUBSET NodeIds(size) :
    part \notin {{}, NodeIds(size)} =>
      \E n \in part, r \in NodeIds(size) \ part : <<n, r>> \in g \/ <<r, n>> \in g

\* No self-loop, no edge to a node that refuses inbound, no mirrored edge.
SimplePeering(g, size, reachable) ==
  \A n \in NodeIds(size) : \A r \in Successors(g, size, n) :
    /\ r # n
    /\ r < reachable
    /\ <<r, n>> \notin g

\* The degree the request asks of every node, and the inbound slots.
DegreesMatch(addnode, addconnection, size, outbound, recon, maxInbound) ==
  \A n \in NodeIds(size) :
    /\ Cardinality(Successors(addnode \cup addconnection, size, n)) = outbound + recon
    /\ Cardinality(Successors(addconnection, size, n)) = recon
    /\ InDegree(addnode \cup addconnection, size, n) <= maxInbound

\* Every assertion of validate_graph, in one predicate.
IsPeerNetwork(addnode, addconnection, a) ==
  /\ SimplePeering(addnode \cup addconnection, a.size, a.reachable)
  /\ DegreesMatch(addnode, addconnection, a.size, a.outbound, a.recon, a.maxInbound)
  /\ Connected(addnode \cup addconnection, a.size)
=============================================================================
