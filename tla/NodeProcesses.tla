--------------------------- MODULE NodeProcesses ---------------------------
(***************************************************************************)
(* The bitcoind processes of a test: TestNode.start, wait_for_rpc_connection,*)
(* stop_node, is_node_stopped and assert_start_raises_init_error            *)
(* (test_node.py), and start_nodes, stop_nodes and restart_node             *)
(* (test_framework.py), which use them.  The test calls one after the       *)
(* other; processes come up, exit and crash in their own time.              *)
(***************************************************************************)
EXTENDS Naturals, Sequences

CONSTANTS NumNodes, MaxStarts   \* bound: processes of one node

Nodes == 1 .. NumNodes

VARIABLES
  op,             \* the operation the test is in, or was in last
  pc,             \* its step, "idle", "raised" or "ended"
  at,             \* the node it is at
  running,        \* per node: TestNode.running
  process,        \* per node: the process TestNode.process refers to, 0 for None
  rpc_connected,  \* per node
  procs           \* per node: the state of every process it started

vars == <<op, pc, at, running, process, rpc_connected, procs>>
node == <<running, process, rpc_connected, procs>>

Starting == {"init", "warmup", "importing"}
Exited == {"exit_success", "exit_failure", "killed"}

Init ==
  /\ op = "none" /\ pc = "idle" /\ at = 1
  /\ running = [n \in Nodes |-> FALSE]
  /\ process = [n \in Nodes |-> 0]
  /\ rpc_connected = [n \in Nodes |-> FALSE]
  /\ procs = [n \in Nodes |-> <<>>]

State(n) == procs[n][process[n]]

Begin(o, step, n) ==
  /\ pc = "idle"
  /\ op' = o /\ pc' = step /\ at' = n
  /\ UNCHANGED node

MayStart(n) == Len(procs[n]) < MaxStarts

\* What the tests call: nodes that do not run are started, those that run are
\* stopped or restarted.
Call ==
  \/ (\A n \in Nodes : ~running[n] /\ MayStart(n)) /\ Begin("start_nodes", "start", 1)
  \/ (\E n \in Nodes : running[n]) /\ Begin("stop_nodes", "stop", 1)
  \/ \E n \in Nodes : running[n] /\ MayStart(n) /\ Begin("restart_node", "stop", n)
  \/ \E n \in Nodes : ~running[n] /\ MayStart(n) /\ Begin("assert_start_raises_init_error", "start", n)

\* The next node of an operation on all of them, or the next step.
Then(step) ==
  /\ IF op \in {"start_nodes", "stop_nodes", "cleanup"} /\ at < NumNodes
       THEN at' = at + 1 /\ pc' = pc
     ELSE /\ at' = IF op \in {"start_nodes", "stop_nodes", "cleanup"} THEN 1 ELSE at
          /\ pc' = IF step = "idle" /\ op = "cleanup" THEN "raised" ELSE step
  /\ UNCHANGED op

\* An exception: start_nodes calls stop_nodes before it raises it again.
Raise ==
  IF op = "start_nodes"
    THEN op' = "cleanup" /\ pc' = "stop" /\ at' = 1
    ELSE pc' = "raised" /\ UNCHANGED <<op, at>>

\* TestNode.start: a process is made and remembered.
Start ==
  /\ pc = "start"
  /\ procs' = [procs EXCEPT ![at] = Append(@, "init")]
  /\ process' = [process EXCEPT ![at] = Len(procs[at]) + 1]
  /\ running' = [running EXCEPT ![at] = TRUE]
  /\ Then(IF op = "assert_start_raises_init_error" THEN "init_error" ELSE "rpc")
  /\ UNCHANGED rpc_connected

\* Faulty variant: getblockcount is enough, getmempoolinfo is not asked.
RpcConnectionEarly ==
  /\ pc = "rpc"
  /\ \/ /\ State(at) \in {"importing", "up"}
        /\ rpc_connected' = [rpc_connected EXCEPT ![at] = TRUE]
        /\ Then("idle")
     \/ /\ State(at) # "up"
        /\ Raise /\ UNCHANGED rpc_connected
  /\ UNCHANGED <<running, process, procs>>

\* wait_for_rpc_connection: the answers of warmup are waited out; the process
\* has ended (FailedToStartError) or the polls are used up.
RpcConnection ==
  /\ pc = "rpc"
  /\ \/ /\ State(at) = "up"
        /\ rpc_connected' = [rpc_connected EXCEPT ![at] = TRUE]
        /\ Then("idle")
     \/ /\ State(at) # "up"
        /\ Raise /\ UNCHANGED rpc_connected
  /\ UNCHANGED <<running, process, procs>>

\* stop_node up to the wait: the stop RPC needs a connection (an assertion of
\* __getattr__) and a process that answers; only CannotSendRequest is caught.
Stop ==
  /\ pc = "stop"
  /\ IF ~running[at]
       THEN Then("stopped") /\ UNCHANGED procs
     ELSE IF rpc_connected[at] /\ State(at) \notin Exited
       THEN /\ procs' = [procs EXCEPT ![at][process[at]] = "stopping"]
            /\ Then("stopped")
     ELSE Raise /\ UNCHANGED procs
  /\ UNCHANGED <<running, process, rpc_connected>>

\* wait_until_stopped: is_node_stopped frees the process once it has ended well;
\* an exit code that is not 0 and a process that stays up are errors.
Stopped ==
  /\ pc = "stopped"
  /\ \/ /\ running[at] => State(at) = "exit_success"
        /\ running' = [running EXCEPT ![at] = FALSE]
        /\ process' = [process EXCEPT ![at] = 0]
        /\ rpc_connected' = [rpc_connected EXCEPT ![at] = FALSE]
        /\ Then(IF op = "restart_node" THEN "start" ELSE "idle")
     \/ /\ running[at] /\ State(at) # "exit_success"
        /\ Raise /\ UNCHANGED <<running, process, rpc_connected>>
  /\ UNCHANGED procs

Forget ==
  /\ running' = [running EXCEPT ![at] = FALSE]
  /\ process' = [process EXCEPT ![at] = 0]

\* Faulty variant: the process that should have ended is forgotten, not killed.
InitErrorNotKilled ==
  /\ pc = "init_error"
  /\ Forget
  /\ pc' = IF State(at) = "exit_failure" THEN "idle" ELSE "raised"
  /\ UNCHANGED <<op, at, rpc_connected, procs>>

\* assert_start_raises_init_error: the process ends with an error, or with none
\* (AssertionError, with the process still referred to), or is killed.
InitError ==
  /\ pc = "init_error"
  /\ CASE State(at) = "exit_failure" -> Forget /\ pc' = "idle" /\ UNCHANGED procs
       [] State(at) \in Exited \ {"exit_failure"} ->
            pc' = "raised" /\ UNCHANGED <<running, process, procs>>
       [] OTHER ->
            /\ procs' = [procs EXCEPT ![at][process[at]] = "killed"]
            /\ Forget /\ pc' = "raised"
  /\ UNCHANGED <<op, at, rpc_connected>>

\* The test ends, after an exception or not: __del__ kills what is referred to.
End ==
  /\ pc \in {"idle", "raised"}
  /\ pc' = "ended"
  /\ procs' = [n \in Nodes |-> [p \in DOMAIN procs[n] |->
                 IF p = process[n] /\ procs[n][p] \notin Exited THEN "killed" ELSE procs[n][p]]]
  /\ UNCHANGED <<op, at, running, process, rpc_connected>>

Test == Start \/ RpcConnection \/ Stop \/ Stopped \/ InitError

\* bitcoind: it comes up, shuts down when told to, and may fail at any time.
Moves(n, p) ==
  LET to == CASE procs[n][p] = "init" -> {"warmup", "exit_failure"}
              [] procs[n][p] = "warmup" -> {"importing", "exit_failure"}
              [] procs[n][p] = "importing" -> {"up", "exit_failure"}
              [] procs[n][p] = "up" -> {"exit_failure"}
              [] procs[n][p] = "stopping" -> {"exit_success", "exit_failure"}
              [] OTHER -> {}
  IN \E s \in to : procs' = [procs EXCEPT ![n][p] = s]

Bitcoind ==
  /\ \E n \in Nodes : \E p \in DOMAIN procs[n] : Moves(n, p)
  /\ UNCHANGED <<op, pc, at, running, process, rpc_connected>>

Next == Call \/ Test \/ End \/ Bitcoind

Spec == Init /\ [][Next]_vars /\ WF_vars(Test)

-----------------------------------------------------------------------------
(* Properties *)

\* "the tests assume the node is fully ready after being started"
\* (test_node.py:262): a node with a connection has imported its blocks.
ConnectedMeansLoaded ==
  \A n \in Nodes : rpc_connected[n] => State(n) \notin Starting

\* "Ensure that we don't leave any bitcoind processes lying around after the
\* test ends" (test_node.py:180), wherever an exception ended it.  At no time is
\* a process alive that its node does not refer to, and between operations a
\* node runs exactly if it refers to one.
NothingLeftBehind ==
  /\ pc \in {"idle", "raised", "ended"} => \A n \in Nodes : running[n] <=> process[n] # 0
  /\ \A n \in Nodes : \A p \in DOMAIN procs[n] :
       p # process[n] \/ pc = "ended" => procs[n][p] \in Exited

\* Every operation returns or raises, whatever the processes do.
OperationsEnd == pc \notin {"idle", "raised", "ended"} ~> pc \in {"idle", "raised", "ended"}
=============================================================================
