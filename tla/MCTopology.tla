----------------------------- MODULE MCTopology -----------------------------
(***************************************************************************)
(* Small requests for Topology.  SmallRequests holds every combination of  *)
(* arguments in the bounds, most of which validate_args rejects.  The      *)
(* larger ones are where the hard cases are: two passes over one graph     *)
(* with every slot taken, and a graph that falls into two cycles.          *)
(***************************************************************************)
EXTENDS Topology

CONSTANTS MaxSize, MaxDegree, MaxSlots

SmallRequests ==
  [size : 0 .. MaxSize, reachable : 0 .. MaxSize + 1, outbound : 0 .. MaxDegree,
   recon : -1 .. MaxDegree, maxInbound : 0 .. MaxSlots, maxAttempts : {0, 2}]

Request(size, reachable, outbound, recon, maxInbound) ==
  [size |-> size, reachable |-> reachable, outbound |-> outbound, recon |-> recon,
   maxInbound |-> maxInbound, maxAttempts |-> 2]

LargeRequests ==
  {Request(5, 5, 1, 1, 2),   \* no slot to spare
   Request(5, 5, 1, 1, 3),
   Request(5, 3, 1, 0, 2),   \* two nodes that nobody connects to
   Request(6, 6, 1, 0, 6),   \* may split into two triangles
   Request(6, 5, 1, 1, 2)}   \* one slot too few

MCArgSpace == SmallRequests \cup LargeRequests
=============================================================================
