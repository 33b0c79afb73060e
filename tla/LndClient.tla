----------------------------- MODULE LndClient -----------------------------
(***************************************************************************)
(* ln_framework/ln.py: one LND object and the lnd it talks to, over one    *)
(* http.client connection that is reused for every call.  get and post try *)
(* again after any exception; the connection, however, keeps a state of    *)
(* its own, which says whether it takes another request.                   *)
(***************************************************************************)
EXTENDS Naturals

CONSTANT MaxFaults   \* bound: refused connects, lost connections, broken bodies

Gets == {"newaddress", "walletbalance", "uri", "graph"}
Posts == {"connect", "channel", "update"}
Calls == Gets \cup Posts

VARIABLES
  pc,         \* "idle", or where the loop of get or post is
  call,       \* the call it makes
  conn,       \* HTTPConnection's state: "Idle", "Request-sent", "Response-open"
  exchange,   \* the last request at lnd: "none", "asked", "done", "answered", "lost"
  done,       \* how often lnd carried out the current call
  resent,     \* how often the loop saw the connection or the answer break
  outcome,    \* of the last call: "none", "whole", "truncated"
  faults      \* bound

vars == <<pc, call, conn, exchange, done, resent, outcome, faults>>

Init ==
  /\ pc = "idle" /\ call \in Calls
  /\ conn = "Idle" /\ exchange = "none"
  /\ done = 0 /\ resent = 0
  /\ outcome = "none" /\ faults = 0

Fault == faults < MaxFaults /\ faults' = faults + 1

\* A scenario calls one of the wrappers.
Call(c) ==
  /\ pc = "idle"
  /\ pc' = "request" /\ call' = c
  /\ exchange' = "none" /\ done' = 0 /\ resent' = 0 /\ outcome' = "none"
  /\ UNCHANGED <<conn, faults>>

\* conn.request: the request is sent on a new socket, since every answer said
\* "Connection: close".
Request ==
  /\ pc = "request" /\ conn \in {"Idle", "Response-open"}
  /\ conn' = "Request-sent" /\ exchange' = "asked" /\ pc' = "response"
  /\ UNCHANGED <<call, done, resent, outcome, faults>>

\* The connect is refused or times out, after the state has changed.
RequestRefused ==
  /\ pc = "request" /\ conn = "Idle"
  /\ Fault
  /\ conn' = "Request-sent" /\ pc' = "sleep"
  /\ UNCHANGED <<call, exchange, done, resent, outcome>>

\* CannotSendRequest: nothing is sent.
RequestNotSent ==
  /\ pc = "request" /\ conn = "Request-sent"
  /\ pc' = "sleep"
  /\ UNCHANGED <<call, conn, exchange, done, resent, outcome, faults>>

\* getresponse returns; "Connection: close" makes the connection idle again.
Response ==
  /\ pc = "response" /\ exchange = "answered"
  /\ conn' = "Idle" /\ pc' = "body"
  /\ UNCHANGED <<call, exchange, done, resent, outcome, faults>>

\* A lost connection is closed by http.client: the state is Idle again.
ResponseLost ==
  /\ pc = "response" /\ exchange = "lost"
  /\ conn' = "Idle" /\ pc' = "sleep" /\ resent' = resent + 1
  /\ UNCHANGED <<call, exchange, done, outcome, faults>>

\* Faulty variants: the connection is closed and used again after a timeout
\* while lnd goes on with the request; the socket has no timeout.
ResponseTimeoutCloses ==
  /\ pc = "response" /\ exchange \in {"asked", "done"}
  /\ Fault
  /\ conn' = "Idle" /\ pc' = "sleep"
  /\ UNCHANGED <<call, exchange, done, resent, outcome>>

ResponseNeverTimesOut == FALSE /\ UNCHANGED vars

\* Five seconds without a header: socket.timeout leaves the state as it is.
ResponseTimeout ==
  /\ pc = "response" /\ exchange \in {"asked", "done"}
  /\ conn' = "Request-sent" /\ pc' = "sleep"
  /\ UNCHANGED <<call, exchange, done, resent, outcome, faults>>

Return(o) ==
  /\ pc' = "idle" /\ outcome' = o
  /\ UNCHANGED <<call, conn, exchange, done>>

\* The whole body is read, in one go or byte after byte.
Body ==
  /\ pc = "body"
  /\ Return("whole")
  /\ UNCHANGED <<resent, faults>>

\* The connection breaks or is silent for five seconds in the body, or a byte
\* is no character of its own.  get asks again; post breaks out of its loop.
BodyBreaks ==
  /\ pc = "body" /\ Fault
  /\ \/ /\ call \in Posts
        /\ Return("truncated") /\ UNCHANGED resent
     \/ /\ call \in Gets
        /\ pc' = "sleep" /\ resent' = resent + 1
        /\ UNCHANGED <<call, conn, exchange, done, outcome>>

Retry ==
  /\ pc = "sleep" /\ pc' = "request"
  /\ UNCHANGED <<call, conn, exchange, done, resent, outcome, faults>>

Client ==
  \/ Request \/ RequestRefused \/ RequestNotSent
  \/ Response \/ ResponseLost \/ ResponseTimeout
  \/ Body \/ BodyBreaks \/ Retry

\* lnd carries out the request and answers, or the connection goes before or
\* after it does.
LndActs ==
  /\ exchange = "asked"
  /\ exchange' = "done" /\ done' = done + 1
  /\ UNCHANGED <<pc, call, conn, resent, outcome, faults>>

LndAnswers ==
  /\ exchange = "done"
  /\ exchange' = "answered"
  /\ UNCHANGED <<pc, call, conn, done, resent, outcome, faults>>

LndLost ==
  /\ exchange \in {"asked", "done"} /\ Fault
  /\ exchange' = "lost"
  /\ UNCHANGED <<pc, call, conn, done, resent, outcome>>

Lnd == LndActs \/ LndAnswers \/ LndLost

Next == (\E c \in Calls : Call(c)) \/ Client \/ Lnd

\* The thread of the scenario runs on; whether and when lnd answers is open.
Spec == Init /\ [][Next]_vars /\ WF_vars(Client)

-----------------------------------------------------------------------------
(* Properties *)

\* A call is carried out again only after the client saw its connection or its
\* answer break: a refused connect or a timeout never opens a second channel.
RepeatedOnlyAfterLoss == done <= 1 + resent

Wedged == conn = "Request-sent" /\ pc \in {"sleep", "request"}

\* Every call returns, a get with the whole answer, unless the connection was left
\* in the state Request-sent: no loss of a connection or of an answer, and no
\* slow lnd, holds a call back.
ReturnsOrWedges ==
  /\ [](call \in Gets => outcome # "truncated")
  /\ pc = "request" ~> (pc = "idle" \/ Wedged)
=============================================================================
