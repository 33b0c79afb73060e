--------------------------- MODULE MCNetBandwidth ---------------------------
(* Three nodes for NetBandwidth: in a line, or all connected. *)
EXTENDS NetBandwidth

Line == {<<0, 1>>, <<1, 0>>, <<1, 2>>, <<2, 1>>}
Triangle == {l \in Nodes \X Nodes : l[1] # l[2]}
=============================================================================
