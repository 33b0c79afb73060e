-------------------------- MODULE NetworkContract --------------------------
(***************************************************************************)
(* What utils/create_network.py promises, whatever algorithm it uses: one  *)
(* run answers one request, either with an error and no network at all, or *)
(* with one network that has every property validate_graph asserts, and it *)
(* answers once.                                                           *)
(***************************************************************************)
CONSTANT IsPeerNetwork(_, _, _)   \* the assertions, see PeerGraph

VARIABLES request, status, published

vars == <<request, status, published>>

NoNetwork == [addnode |-> {}, addconnection |-> {}]

Init == status = "pending" /\ published = NoNetwork

Publish ==
  /\ status = "pending"
  /\ status' = "written"
  /\ IsPeerNetwork(published'.addnode, published'.addconnection, request)
  /\ UNCHANGED request

Refuse ==
  /\ status = "pending"
  /\ status' = "error"
  /\ UNCHANGED <<request, published>>

Next == Publish \/ Refuse

Spec == Init /\ [][Next]_vars
=============================================================================
