------------------------------ MODULE RpcProxy ------------------------------
(***************************************************************************)
(* test_framework/authproxy.py as scenarios use it: the threads of a       *)
(* scenario call one node through one proxy.  Every attribute access makes *)
(* a proxy of its own, which starts with the connection of its parent;     *)
(* commander.py gives it a new one before each request.  The request id is *)
(* a counter of the class that the threads increment without a lock.       *)
(***************************************************************************)
EXTENDS Naturals, Sequences

CONSTANTS Threads, MaxCalls   \* bound on the calls of a thread

VARIABLES
  pc,           \* per thread: where its call is
  id_count,     \* AuthServiceProxy.__id_count
  loaded,       \* per thread: the count its += 1 has read
  id,           \* per thread: the id it posts
  conn,         \* per thread: the connection of the proxy it calls
  conns,        \* connections: [sent, asked, answers]; the first is the node's own
  calls,        \* per thread: calls begun
  outcome       \* per thread: [how, id] of its last call

vars == <<pc, id_count, loaded, id, conn, conns, calls, outcome>>

\* HTTPConnection: sent is its state Request-sent; asked holds the requests
\* bitcoind has not answered yet and answers what can be read from the socket.
NewConnection == [sent |-> FALSE, asked |-> <<>>, answers |-> <<>>]
NoOutcome == [how |-> "none", id |-> 0]

Init ==
  /\ pc = [t \in Threads |-> "idle"]
  /\ id_count = 0
  /\ loaded = [t \in Threads |-> 0]
  /\ id = [t \in Threads |-> 0]
  /\ conn = [t \in Threads |-> 1]
  /\ conns = <<NewConnection>>
  /\ calls = [t \in Threads |-> 0]
  /\ outcome = [t \in Threads |-> NoOutcome]

\* node.<method>(...): __getattr__ makes the proxy, get_request reads the counter.
GetAttr(t) ==
  /\ pc[t] = "idle" /\ calls[t] < MaxCalls
  /\ calls' = [calls EXCEPT ![t] = @ + 1]
  /\ conn' = [conn EXCEPT ![t] = 1]
  /\ loaded' = [loaded EXCEPT ![t] = id_count]
  /\ outcome' = [outcome EXCEPT ![t] = NoOutcome]
  /\ pc' = [pc EXCEPT ![t] = "add"]
  /\ UNCHANGED <<id_count, id, conns>>

AddOne(t) ==
  /\ pc[t] = "add"
  /\ id_count' = loaded[t] + 1
  /\ pc' = [pc EXCEPT ![t] = "get_request"]
  /\ UNCHANGED <<loaded, id, conn, conns, calls, outcome>>

\* 'id': AuthServiceProxy.__id_count, read once more.
GetRequest(t) ==
  /\ pc[t] = "get_request"
  /\ id' = [id EXCEPT ![t] = id_count]
  /\ pc' = [pc EXCEPT ![t] = "set_conn"]
  /\ UNCHANGED <<id_count, loaded, conn, conns, calls, outcome>>

\* Faulty variant: the connection of the parent is made ready again and used.
SetConnReused(t) ==
  /\ pc[t] = "set_conn"
  /\ conns' = [conns EXCEPT ![1].sent = FALSE]
  /\ pc' = [pc EXCEPT ![t] = "request"]
  /\ UNCHANGED <<id_count, loaded, id, conn, calls, outcome>>

\* auth_proxy_request: _set_conn() makes a new connection.
SetConn(t) ==
  /\ pc[t] = "set_conn"
  /\ conns' = Append(conns, NewConnection)
  /\ conn' = [conn EXCEPT ![t] = Len(conns) + 1]
  /\ pc' = [pc EXCEPT ![t] = "request"]
  /\ UNCHANGED <<id_count, loaded, id, calls, outcome>>

End(t, how, answered) ==
  /\ outcome' = [outcome EXCEPT ![t] = [how |-> how, id |-> answered]]
  /\ pc' = [pc EXCEPT ![t] = "idle"]
  /\ UNCHANGED <<id_count, loaded, id, conn, calls>>

Request(t) ==
  /\ pc[t] = "request"
  /\ LET c == conn[t]
     IN \/ /\ ~conns[c].sent
           /\ conns' = [conns EXCEPT ![c].sent = TRUE, ![c].asked = Append(@, id[t])]
           /\ pc' = [pc EXCEPT ![t] = "_get_response"]
           /\ UNCHANGED <<id_count, loaded, id, conn, calls, outcome>>
        \/ /\ conns[c].sent
           /\ End(t, "CannotSendRequest", 0) /\ UNCHANGED conns

\* The answer is read; __call__ returns the result or raises the error in it.
GetResponse(t) ==
  /\ pc[t] = "_get_response"
  /\ LET c == conn[t]
     IN /\ conns[c].answers # <<>>
        /\ conns' = [conns EXCEPT ![c].answers = Tail(@), ![c].sent = FALSE]
        /\ \E how \in {"result", "JSONRPCException"} : End(t, how, Head(conns[c].answers))

\* socket.timeout becomes a JSONRPCException; the request is still at the node.
ResponseTimesOut(t) ==
  /\ pc[t] = "_get_response"
  /\ conns[conn[t]].answers = <<>>
  /\ End(t, "timeout", 0)
  /\ UNCHANGED conns

\* bitcoind answers the requests of a connection in order, or not at all.
NodeAnswers ==
  \E c \in DOMAIN conns :
    /\ conns[c].asked # <<>>
    /\ conns' = [conns EXCEPT ![c].asked = Tail(@), ![c].answers = Append(@, Head(conns[c].asked))]
    /\ UNCHANGED <<pc, id_count, loaded, id, conn, calls, outcome>>

Thread(t) ==
  \/ AddOne(t) \/ GetRequest(t) \/ SetConn(t)
  \/ Request(t) \/ GetResponse(t) \/ ResponseTimesOut(t)

Next == (\E t \in Threads : GetAttr(t) \/ Thread(t)) \/ NodeAnswers

\* Threads run on; the node need not answer.
Spec == Init /\ [][Next]_vars /\ \A t \in Threads : WF_vars(Thread(t))

-----------------------------------------------------------------------------
(* Properties *)

\* What a call returns or raises is the node's answer to this call, however the
\* ids collide and whatever requests of others were given up before; and, since
\* "all RPC calls are made with brand new http connections" (commander.py:84),
\* none fails before it is sent.
AnswerIsOwn ==
  \A t \in Threads :
    /\ outcome[t].how # "CannotSendRequest"
    /\ outcome[t].how \in {"result", "JSONRPCException"} =>
         /\ outcome[t].id = id[t]
         /\ conns[conn[t]].answers = <<>> /\ conns[conn[t]].asked = <<>>

\* Every call ends, even if the node never answers.
CallsEnd == \A t \in Threads : pc[t] # "idle" ~> pc[t] = "idle"
=============================================================================
