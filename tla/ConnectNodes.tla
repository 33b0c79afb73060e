---------------------------- MODULE ConnectNodes ----------------------------
(***************************************************************************)
(* connect_nodes (commander.py, the variant for tanks) and disconnect_nodes*)
(* (test_framework.py): the script polls two nodes for the progress of one *)
(* connection by counting peers, while other peers of theirs come and go.  *)
(***************************************************************************)
EXTENDS Integers, FiniteSets

CONSTANTS
  Others,      \* other peers of the two nodes
  Alike,       \* those whose subver contains the node's own as a prefix (1 and 10)
  MaxMoves     \* bound: how often another peer comes or goes

Ends == {"from", "to"}
Facing(e) == IF e = "from" THEN "to" ELSE "from"

VARIABLES
  pc,         \* where the script is
  wait,       \* which of connect_nodes' six waits it is in
  expected,   \* from_num_peers, to_num_peers
  ids,        \* peer_ids of disconnect_nodes not dropped yet
  link,       \* per end: how far it sees the connection
  other,      \* per end and other peer: the same
  moves,      \* bound
  quiet       \* no other peer came or went, and no link was there, at connect_nodes

vars == <<pc, wait, expected, ids, link, other, moves, quiet>>

\* How far a node is with a peer, as getpeerinfo shows it.
Absent == -1
Connecting == 0
Version == 1    \* peer["version"] is set
Verack == 2     \* bytesrecv_per_msg has the verack
Pong == 3       \* and a pong

Init ==
  /\ pc = "idle" /\ wait = 0
  /\ expected = [e \in Ends |-> 0]
  /\ ids = {}
  /\ link \in {[e \in Ends |-> s] : s \in {Absent, Pong}}
  /\ other \in [Ends -> [Others -> {Absent, Pong}]]
  /\ moves = 0 /\ quiet = (link["from"] = Absent)

network == <<link, other, moves, quiet>>
Count(e, stage) ==
  Cardinality({o \in Others : other[e][o] >= stage}) + (IF link[e] >= stage THEN 1 ELSE 0)

\* from_num_peers and to_num_peers, one getpeerinfo after the other.
CountFrom ==
  /\ pc = "idle"
  /\ expected' = [expected EXCEPT !["from"] = 1 + Count("from", Connecting)]
  /\ quiet' = (link["from"] = Absent /\ link["to"] = Absent)
  /\ pc' = "count_to"
  /\ UNCHANGED <<wait, ids, link, other, moves>>

CountTo ==
  /\ pc = "count_to"
  /\ expected' = [expected EXCEPT !["to"] = 1 + Count("to", Connecting)]
  /\ pc' = "addnode"
  /\ UNCHANGED <<wait, ids, network>>

\* addnode onetry: a link to an address that is connected already is not opened.
AddNode ==
  /\ pc = "addnode"
  /\ link' = IF link["from"] = Absent THEN [e \in Ends |-> Connecting] ELSE link
  /\ pc' = "wait" /\ wait' = 1
  /\ UNCHANGED <<expected, ids, other, moves, quiet>>

WaitEnd == IF wait % 2 = 1 THEN "from" ELSE "to"
\* Faulty variant: the pongs are not waited for.
WaitStageNoPong == IF wait < 3 THEN Version ELSE Verack
\* version at both ends, then verack at both, then pong at both.
WaitStage == (wait + 1) \div 2
WaitHolds == Count(WaitEnd, WaitStage) = expected[WaitEnd]

WaitOver ==
  /\ pc = "wait" /\ WaitHolds
  /\ IF wait = 6 THEN pc' = "connected" /\ UNCHANGED wait
                 ELSE wait' = wait + 1 /\ UNCHANGED pc
  /\ UNCHANGED <<expected, ids, network>>

WaitTimeout ==
  /\ \/ pc = "wait" /\ ~WaitHolds
     \/ pc = "gone_from" /\ link["from"] # Absent
     \/ pc = "gone_to" /\ link["to"] # Absent
  /\ pc' = "failed"
  /\ UNCHANGED <<wait, expected, ids, network>>

\* get_peer_ids(node_a, node_b.index): every peer whose subver contains
\* "testnode<b>"; with none the helper returns after a warning.
PeerIds ==
  /\ pc = "connected"
  /\ ids' = {o \in Alike : other["from"][o] >= Version}
              \cup {p \in {"link"} : link["from"] >= Version}
  /\ pc' = IF ids' = {} THEN "warned" ELSE "disconnect"
  /\ UNCHANGED <<wait, expected, network>>

Gone(id) == IF id = "link" THEN link["from"] = Absent ELSE other["from"][id] = Absent

\* disconnectnode of one id; error -29 means it has gone by itself.
Disconnect ==
  /\ pc = "disconnect"
  /\ \E id \in ids :
       /\ ids' = ids \ {id}
       /\ pc' = IF ids' = {} THEN "gone_from" ELSE pc
       /\ IF Gone(id) THEN UNCHANGED <<link, other>>
          ELSE IF id = "link"
            THEN link' = [link EXCEPT !["from"] = Absent] /\ UNCHANGED other
            ELSE other' = [other EXCEPT !["from"][id] = Absent] /\ UNCHANGED link
  /\ UNCHANGED <<wait, expected, moves, quiet>>

Disconnected ==
  /\ \/ pc = "gone_from" /\ link["from"] = Absent /\ pc' = "gone_to"
     \/ pc = "gone_to" /\ link["to"] = Absent /\ pc' = "disconnected"
  /\ UNCHANGED <<wait, expected, ids, network>>

Script ==
  \/ CountFrom \/ CountTo \/ AddNode \/ WaitOver \/ WaitTimeout
  \/ PeerIds \/ Disconnect \/ Disconnected

\* An end gets the version once both are connected, the verack from an end that
\* has the version, the pong from one whose handshake is over, as its own is.
LinkAdvances(e) ==
  /\ link[e] \in Connecting .. Verack
  /\ link[Facing(e)] >= link[e]
  /\ link' = [link EXCEPT ![e] = @ + 1]
  /\ UNCHANGED <<pc, wait, expected, ids, other, moves, quiet>>

\* The other end has closed the connection.
LinkCloses(e) ==
  /\ link[e] # Absent /\ link[Facing(e)] = Absent
  /\ link' = [link EXCEPT ![e] = Absent]
  /\ UNCHANGED <<pc, wait, expected, ids, other, moves, quiet>>

\* Another peer comes, goes, or is a step further in its handshake.
OtherMoves(e, o) ==
  /\ \/ /\ other[e][o] \in Connecting .. Verack
        /\ other' = [other EXCEPT ![e][o] = @ + 1]
        /\ UNCHANGED <<moves, quiet>>
     \/ /\ moves < MaxMoves /\ moves' = moves + 1 /\ quiet' = FALSE
        /\ other' = [other EXCEPT ![e][o] = IF @ = Absent THEN Connecting ELSE Absent]
  /\ UNCHANGED <<pc, wait, expected, ids, link>>

Network ==
  \E e \in Ends : LinkAdvances(e) \/ LinkCloses(e) \/ \E o \in Others : OtherMoves(e, o)

Next == Script \/ Network

Spec == Init /\ [][Next]_vars /\ WF_vars(Script)

-----------------------------------------------------------------------------
(* Properties *)

\* When a call returns the link is as asked: after connect_nodes both ends have
\* finished the handshake and a ping of each was answered, unless another peer
\* came or went meanwhile; after a disconnect_nodes that found the connection
\* neither end has it.
LinkIsAsAsked ==
  /\ pc = "connected" /\ quiet => \A e \in Ends : link[e] = Pong
  /\ pc = "disconnected" => \A e \in Ends : link[e] = Absent

\* Every wait is given up in the end: both functions return or raise.
ScriptEnds == <>(pc \in {"disconnected", "warned", "failed"})
=============================================================================
