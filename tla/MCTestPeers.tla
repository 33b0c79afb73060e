---------------------------- MODULE MCTestPeers ----------------------------
(***************************************************************************)
(* A test peer in one run: the messages it can read and write              *)
(* (MessageCodec) and the connection they travel over (P2PPeer, where a    *)
(* message is its type).  A behaviour is one of the two, chosen at the     *)
(* start, while the other stays as it begins.  The properties are those    *)
(* that the two modules state.                                             *)
(***************************************************************************)
EXTENDS P2PPeer, MCMessageCodec

VARIABLE part

allVars == <<part, vars, codecVars>>

FirstObject == CHOOSE m \in Objects: TRUE

AnyInit ==
    /\ part \in {"codec", "peer"}
    /\ Init /\ CodecInit
    /\ part = "peer" => <<msgtype, object>> = FirstObject

AnyNext ==
    /\ UNCHANGED part
    /\ \/ part = "codec" /\ CodecNext /\ UNCHANGED vars
       \/ part = "peer" /\ Next /\ UNCHANGED codecVars

(* The fairness P2PPeer states, when the connection is what runs.          *)
AnySpec ==
    /\ AnyInit /\ [][AnyNext]_allVars
    /\ WF_vars(part = "peer" /\ NetworkThread)
    /\ WF_vars(part = "peer" /\ NodeProcess)
    /\ WF_vars(part = "peer" /\ NodeSendMessages)
    /\ WF_vars(part = "peer" /\ Waits)
=============================================================================
