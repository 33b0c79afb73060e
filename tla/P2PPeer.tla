------------------------------ MODULE P2PPeer ------------------------------
(***************************************************************************)
(* A test peer (P2PInterface) and the node it connects to.  Two threads of *)
(* the test framework share the peer object:                               *)
(*   - the test thread connects, sends, waits, disconnects                 *)
(*     (TestNode.add_p2p_connection, P2PInterface helpers);                *)
(*   - the network thread runs the event loop: callbacks scheduled by      *)
(*     call_soon_threadsafe in their order, and the protocol callbacks     *)
(*     connection_made, data_received and connection_lost.                 *)
(* The node is external: bitcoind's handshake, its message handler that    *)
(* processes one message and then calls SendMessages, and its pongs.       *)
(* Bytes arrive in pieces; a message on the wire is Units pieces.          *)
(***************************************************************************)
EXTENDS Naturals, Sequences, SequencesExt

CONSTANTS Units,             \* pieces of a message: magic bytes, header, payload
          WaitVerack,        \* add_p2p_connection(wait_for_verack=...)
          RetryTimeouts,     \* a test that goes on after a wait timed out
          MaxSends,          \* bound: messages and syncs the test makes
          MaxConnects,       \* bound: connections of the same peer object
          MaxTalk,           \* bound: messages the node sends of its own accord
          MaxTimeouts,       \* bound: waits that time out
          MayDrop            \* the node may close the connection

ASSUME BoundsAssumption ==
    Units \in Nat \ {0} /\ {MaxSends, MaxConnects, MaxTalk, MaxTimeouts} \subseteq Nat

VARIABLES
    pc,            \* the test thread
    ping_counter, last_message,
    transport,     \* "none", "open", or "closing" after abort()
    netpc,         \* "idle", inside connection_made, or in the loop of _on_data
    loop,          \* callbacks scheduled on the event loop
    recvbuf,
    toNode, toPeer,\* the socket, both ways
    node,
    budget         \* what the bounds leave
(* History of the connection: messages accepted by send_message, read by   *)
(* the node, sent by the node, given to on_message; and the number         *)
(* accepted when the current sync_with_ping began.                         *)
VARIABLES accepted, got, sent, delivered, mark

peer == <<ping_counter, last_message, transport, netpc, loop, recvbuf>>
vars == <<pc, peer, toNode, toPeer, node, budget, accepted, got, sent, delivered, mark>>

Msg(type, nonce) == <<type, nonce>>
NodeOff == [phase |-> "off", turn |-> "process", flushed |-> 0]
Pieces(m) == [i \in 1 .. Units |-> <<m, i>>]

Init ==
    /\ pc = "out" /\ ping_counter = 1 /\ last_message = [verack |-> FALSE, pong |-> <<>>]
    /\ transport = "none" /\ netpc = "idle" /\ loop = <<>> /\ recvbuf = <<>>
    /\ toNode = <<>> /\ toPeer = <<>> /\ node = NodeOff
    /\ budget = [sends |-> MaxSends, connects |-> MaxConnects, talk |-> MaxTalk, timeouts |-> MaxTimeouts]
    /\ accepted = <<>> /\ got = <<>> /\ sent = <<>> /\ delivered = <<>> /\ mark = 0

-----------------------------------------------------------------------------
(* send_raw_message schedules the writes of ms, in order.                  *)
Schedule(ms) ==
    /\ loop' = loop \o [i \in DOMAIN ms |-> <<"write", ms[i]>>]
    /\ accepted' = accepted \o ms

(* The test thread's send_message: IOError when not connected.             *)
Send(m, next) ==
    /\ \/ transport # "none" /\ Schedule(<<m>>) /\ pc' = next
       \/ transport = "none" /\ pc' = "failed" /\ UNCHANGED <<loop, accepted>>
    /\ UNCHANGED <<ping_counter, last_message, transport, netpc, recvbuf, toNode, toPeer, node>>

(* peer_connect: forgets the bytes of an earlier connection, nothing else. *)
PeerConnect ==
    /\ pc = "out" /\ budget.connects > 0 /\ transport = "none"
    /\ recvbuf' = <<>> /\ loop' = Append(loop, <<"connect", <<>> >>)
    /\ pc' = "connecting" /\ budget' = [budget EXCEPT !.connects = @ - 1]
    /\ UNCHANGED <<ping_counter, last_message, transport, netpc, toNode, toPeer, node, accepted, got, sent, delivered, mark>>

Local(next) == pc' = next /\ UNCHANGED <<peer, toNode, toPeer, node, accepted, got, sent, delivered>>

WaitIsConnected ==
    /\ pc = "connecting" /\ transport # "none"
    /\ Local(IF WaitVerack THEN "verack" ELSE "idle") /\ UNCHANGED <<budget, mark>>

(* Faulty variants: no wait at all; no sync after the verack.              *)
WaitForVerackNot ==
    pc = "verack" /\ transport # "none" /\ Local("ping0") /\ mark' = Len(accepted) /\ UNCHANGED budget
WaitForVerackOnly ==
    /\ pc = "verack" /\ transport # "none" /\ last_message.verack
    /\ Local("idle") /\ UNCHANGED <<budget, mark>>

WaitForVerack ==
    /\ pc = "verack" /\ transport # "none" /\ last_message.verack
    /\ Local("ping0") /\ mark' = Len(accepted) /\ UNCHANGED budget

(* sync_with_ping                                                          *)
BeginSync ==
    /\ pc = "idle" /\ budget.sends > 0
    /\ Local("ping0") /\ mark' = Len(accepted) /\ budget' = [budget EXCEPT !.sends = @ - 1]

(* Faulty variant: one ping.                                               *)
Ping0Skipped == pc = "ping0" /\ Local("ping1") /\ UNCHANGED <<budget, mark>>

Ping0 == pc = "ping0" /\ Send(Msg("ping", 0), "ping1") /\ UNCHANGED <<got, sent, delivered, budget, mark>>
Ping1 ==
    /\ pc = "ping1" /\ Send(Msg("ping", ping_counter), "pong")
    /\ UNCHANGED <<got, sent, delivered, budget, mark>>

SyncReturns ==
    /\ pc = "pong" /\ transport # "none" /\ last_message.pong = <<ping_counter>>
    /\ pc' = "idle" /\ ping_counter' = ping_counter + 1
    /\ UNCHANGED <<last_message, transport, netpc, loop, recvbuf, toNode, toPeer, node, budget,
                   accepted, got, sent, delivered, mark>>

(* wait_until: the check of the connection fails, or the time is over.     *)
(* Faulty variant: the connection is not checked.                          *)
WaitFailsNever == FALSE /\ UNCHANGED vars
WaitFails ==
    /\ pc \in {"verack", "pong"} /\ transport = "none"
    /\ Local("failed") /\ UNCHANGED <<budget, mark>>

WaitTimesOut ==
    /\ pc \in {"connecting", "verack", "pong"} /\ budget.timeouts > 0
    /\ Local(IF RetryTimeouts /\ pc = "pong" THEN "idle" ELSE "failed")
    /\ budget' = [budget EXCEPT !.timeouts = @ - 1] /\ UNCHANGED mark

SendMessage ==
    /\ pc = "idle" /\ budget.sends > 0 /\ Send(Msg("tx", 0), "idle")
    /\ budget' = [budget EXCEPT !.sends = @ - 1] /\ UNCHANGED <<got, sent, delivered, mark>>

PeerDisconnect ==
    /\ pc = "idle" /\ pc' = "leaving" /\ loop' = Append(loop, <<"abort", <<>> >>)
    /\ UNCHANGED <<ping_counter, last_message, transport, netpc, recvbuf, toNode, toPeer, node, budget,
                   accepted, got, sent, delivered, mark>>

WaitForDisconnect ==
    pc = "leaving" /\ transport = "none" /\ Local("out") /\ UNCHANGED <<budget, mark>>

TestThread ==
    \/ PeerConnect \/ WaitIsConnected \/ WaitForVerack \/ BeginSync \/ Ping0 \/ Ping1 \/ SyncReturns
    \/ WaitFails \/ WaitTimesOut \/ SendMessage \/ PeerDisconnect \/ WaitForDisconnect

-----------------------------------------------------------------------------
(* connection_made, up to the assignment that makes is_connected true ...  *)
ConnectionMade ==
    /\ netpc = "idle" /\ loop # <<>> /\ Head(loop)[1] = "connect"
    /\ loop' = Tail(loop) /\ transport' = "open" /\ netpc' = "made"
    /\ toNode' = <<>> /\ toPeer' = <<>> /\ node' = [NodeOff EXCEPT !.phase = "new"]
    /\ accepted' = <<>> /\ got' = <<>> /\ sent' = <<>> /\ delivered' = <<>> /\ mark' = 0
    /\ UNCHANGED <<pc, ping_counter, last_message, recvbuf, budget>>

(* ... and the version message behind it.                                  *)
SendVersion ==
    /\ netpc = "made" /\ Schedule(<<Msg("version", 0)>>) /\ netpc' = "idle"
    /\ UNCHANGED <<pc, ping_counter, last_message, transport, recvbuf, toNode, toPeer, node, budget,
                   got, sent, delivered, mark>>

(* maybe_write, and the abort of peer_disconnect.                          *)
RunCallback ==
    /\ netpc = "idle" /\ loop # <<>> /\ Head(loop)[1] # "connect"
    /\ loop' = Tail(loop)
    /\ toNode' = IF Head(loop)[1] = "write" /\ transport = "open"
                 THEN Append(toNode, Head(loop)[2]) ELSE toNode
    /\ transport' = IF Head(loop)[1] = "abort" /\ transport = "open" THEN "closing" ELSE transport
    /\ UNCHANGED <<pc, ping_counter, last_message, netpc, recvbuf, toPeer, node, budget,
                   accepted, got, sent, delivered, mark>>

DataReceived(n) ==
    /\ netpc = "idle" /\ transport = "open" /\ n <= Len(toPeer)
    /\ recvbuf' = recvbuf \o SubSeq(toPeer, 1, n) /\ toPeer' = SubSeq(toPeer, n + 1, Len(toPeer))
    /\ netpc' = "reading"
    /\ UNCHANGED <<pc, ping_counter, last_message, transport, loop, toNode, node, budget,
                   accepted, got, sent, delivered, mark>>

(* on_message: last_message, then the on_* callback and what it sends.     *)
OnMessage(m) ==
    /\ last_message' = CASE m[1] = "verack" -> [last_message EXCEPT !.verack = TRUE]
                         [] m[1] = "pong"   -> [last_message EXCEPT !.pong = <<m[2]>>]
                         [] OTHER           -> last_message
    /\ CASE m[1] = "version" -> Schedule(<<Msg("wtxidrelay", 0), Msg("verack", 0), Msg("getaddr", 0)>>)
         [] m[1] = "inv"     -> Schedule(<<Msg("getdata", 0)>>)
         [] m[1] = "ping"    -> Schedule(<<Msg("pong", m[2])>>)
         [] OTHER            -> UNCHANGED <<loop, accepted>>

(* One round of the loop of _on_data.  A message of a type that is not in  *)
(* MESSAGEMAP raises, and the event loop closes the connection.            *)
(* Faulty variant: the rest of the buffer goes with the message.            *)
ReadMessageAndRest ==
    /\ netpc = "reading" /\ Len(recvbuf) >= Units
    /\ recvbuf' = <<>> /\ OnMessage(recvbuf[1][1]) /\ delivered' = Append(delivered, recvbuf[1][1])
    /\ UNCHANGED <<pc, ping_counter, transport, netpc, toNode, toPeer, node, budget, got, sent, mark>>

ReadMessage ==
    /\ netpc = "reading" /\ Len(recvbuf) >= Units
    /\ recvbuf' = SubSeq(recvbuf, Units + 1, Len(recvbuf))
    /\ IF recvbuf[1][1][1] = "unknown"
       THEN /\ transport' = "closing" /\ netpc' = "idle"
            /\ UNCHANGED <<last_message, loop, accepted, delivered>>
       ELSE /\ OnMessage(recvbuf[1][1]) /\ delivered' = Append(delivered, recvbuf[1][1])
            /\ UNCHANGED <<transport, netpc>>
    /\ UNCHANGED <<pc, ping_counter, toNode, toPeer, node, budget, got, sent, mark>>

ReadLess ==
    /\ netpc = "reading" /\ Len(recvbuf) < Units /\ netpc' = "idle"
    /\ UNCHANGED <<pc, ping_counter, last_message, transport, loop, recvbuf, toNode, toPeer, node, budget,
                   accepted, got, sent, delivered, mark>>

ConnectionLost ==
    /\ netpc = "idle" /\ transport # "none" /\ (transport = "closing" \/ node.phase = "off")
    /\ transport' = "none" /\ recvbuf' = <<>> /\ toNode' = <<>> /\ toPeer' = <<>> /\ node' = NodeOff
    /\ UNCHANGED <<pc, ping_counter, last_message, netpc, loop, budget, accepted, got, sent, delivered, mark>>

NetworkThread ==
    \/ ConnectionMade \/ SendVersion \/ RunCallback \/ ReadMessage \/ ReadLess \/ ConnectionLost
    \/ \E n \in 1 .. Len(toPeer): DataReceived(n)

-----------------------------------------------------------------------------
(* The node.                                                               *)
NodeSends(ms) == sent' = sent \o ms /\ toPeer' = toPeer \o FlattenSeq([i \in DOMAIN ms |-> Pieces(ms[i])])

NodeProcess ==
    LET m == Head(toNode)
    IN  /\ node.phase # "off" /\ node.turn = "process" /\ toNode # <<>>
        /\ toNode' = Tail(toNode) /\ got' = Append(got, m)
        /\ node' = [node EXCEPT !.turn = "send",
                                !.phase = CASE @ = "new" /\ m[1] = "version" -> "version"
                                            [] @ = "version" /\ m[1] = "verack" -> "up"
                                            [] OTHER -> @]
        /\ CASE node.phase = "new" /\ m[1] = "version" -> NodeSends(<<Msg("version", 0), Msg("verack", 0)>>)
             [] node.phase = "up" /\ m[1] = "ping"     -> NodeSends(<<Msg("pong", m[2])>>)
             [] OTHER                                  -> UNCHANGED <<sent, toPeer>>
        /\ UNCHANGED <<pc, peer, budget, accepted, delivered, mark>>

NodeSendMessages ==
    /\ node.phase # "off" /\ node.turn = "send"
    /\ node' = [node EXCEPT !.turn = "process", !.flushed = Len(got)]
    /\ UNCHANGED <<pc, peer, toNode, toPeer, budget, accepted, got, sent, delivered, mark>>

NodeTalks ==
    /\ node.phase = "up" /\ budget.talk > 0 /\ budget' = [budget EXCEPT !.talk = @ - 1]
    /\ \E t \in {"inv", "ping", "unknown"}: NodeSends(<<Msg(t, 7)>>)
    /\ UNCHANGED <<pc, peer, toNode, node, accepted, got, delivered, mark>>

NodeDrops ==
    /\ MayDrop /\ node.phase # "off" /\ node' = NodeOff
    /\ UNCHANGED <<pc, peer, toNode, toPeer, budget, accepted, got, sent, delivered, mark>>

Next == TestThread \/ NetworkThread \/ NodeProcess \/ NodeSendMessages \/ NodeTalks \/ NodeDrops

Waits ==
    \/ WaitIsConnected \/ WaitForVerack \/ Ping0 \/ Ping1 \/ SyncReturns \/ WaitFails
    \/ WaitForDisconnect

(* The threads run; a wait looks again every 50 ms; the node's message     *)
(* handler runs.  Nothing obliges the test to send, the node to talk or    *)
(* to drop, or a wait to time out.                                         *)
Fairness ==
    /\ WF_vars(NetworkThread) /\ WF_vars(NodeProcess) /\ WF_vars(NodeSendMessages)
    /\ WF_vars(Waits)

Spec == Init /\ [][Next]_vars
FairSpec == Spec /\ Fairness

-----------------------------------------------------------------------------
(* "The initial message to send after the connection was made" (p2p.py):   *)
(* nothing the test sends overtakes the version message.                   *)
VersionFirst == got # <<>> => got[1][1] = "version"

(* Nothing is lost, doubled or reordered either way: what both threads send *)
(* reaches the node in the order in which send_message accepted it, and    *)
(* however the bytes are cut, on_message gets the node's messages, none    *)
(* split between the buffer and the socket.                                *)
BothWaysExact ==
    /\ IsPrefix(got \o toNode, accepted)
    /\ IsPrefix(delivered, sent)
    /\ transport = "open" /\ node.phase # "off" =>
          FlattenSeq([i \in DOMAIN sent |-> Pieces(sent[i])])
             = FlattenSeq([i \in DOMAIN delivered |-> Pieces(delivered[i])]) \o recvbuf \o toPeer

(* add_p2p_connection with its waits returns a connection the node has     *)
(* fully established (fSuccessfullyConnected), not only half of it.        *)
FullyConnectedOnReturn == pc = "idle" /\ node.phase # "off" => node.phase = "up"

(* "Ensure ProcessMessages and SendMessages is called on this connection": *)
(* when sync_with_ping returns, the node has read all that was accepted    *)
(* before the sync and has called SendMessages after a message of the sync.*)
SyncFlushes ==
    [][SyncReturns /\ node.phase # "off" => Len(got) >= mark /\ node.flushed > mark]_vars

(* No wait needs its time limit: each ends with what it waits for, or with *)
(* the connection.                                                         *)
WaitsEnd == pc \in {"verack", "pong", "leaving"} ~> pc \in {"idle", "out", "failed"}
=============================================================================
