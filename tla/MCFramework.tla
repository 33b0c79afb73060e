---------------------------- MODULE MCFramework ----------------------------
(***************************************************************************)
(* Four helpers of the test framework in one run.  They share no state, so *)
(* their interleavings say nothing new: a behaviour is one of one helper,  *)
(* chosen at the start, while the others stay as they begin.               *)
(***************************************************************************)
EXTENDS SyncNodes, FiniteSets

CONSTANTS
  NumNodes, MaxStarts,       \* NodeProcesses
  Others, Alike, MaxMoves,   \* ConnectNodes
  Threads, MaxCalls          \* RpcProxy

ASSUME NumNodesAssumption == NumNodes \in Nat \ {0}
ASSUME OthersAssumption == IsFiniteSet(Others) /\ Alike \subseteq Others

VARIABLES
  helper,
  node_pc, op, at, running, process, rpc_connected, procs,
  link_pc, wait, expected, ids, link, other, moves, quiet,
  rpc_pc, id_count, loaded, id, conn, conns, calls, outcome

Processes == INSTANCE NodeProcesses WITH pc <- node_pc
Connect == INSTANCE ConnectNodes WITH pc <- link_pc
Rpc == INSTANCE RpcProxy WITH pc <- rpc_pc

processVars == <<node_pc, op, at, running, process, rpc_connected, procs>>
connectVars == <<link_pc, wait, expected, ids, link, other, moves, quiet>>
rpcVars == <<rpc_pc, id_count, loaded, id, conn, conns, calls, outcome>>
allVars == <<helper, vars, processVars, connectVars, rpcVars>>

AnyInit ==
  /\ helper \in {"sync", "processes", "connect", "rpc"}
  /\ Init /\ Processes!Init /\ Connect!Init /\ Rpc!Init
  /\ helper # "connect" =>
       \A e \in Connect!Ends : link[e] = Connect!Absent /\ \A o \in Others : other[e][o] = Connect!Absent

AnyNext ==
  /\ UNCHANGED helper
  /\ \/ helper = "sync" /\ Next /\ UNCHANGED <<processVars, connectVars, rpcVars>>
     \/ helper = "processes" /\ Processes!Next /\ UNCHANGED <<vars, connectVars, rpcVars>>
     \/ helper = "connect" /\ Connect!Next /\ UNCHANGED <<vars, processVars, rpcVars>>
     \/ helper = "rpc" /\ Rpc!Next /\ UNCHANGED <<vars, processVars, connectVars>>

\* The fairness each module states, for the helper that runs.
AnySpec ==
  /\ AnyInit /\ [][AnyNext]_allVars
  /\ WF_vars(helper = "sync" /\ Round)
  /\ \A m, n \in Nodes : WF_vars(helper = "sync" /\ Adopt(m, n))
  /\ WF_processVars(helper = "processes" /\ Processes!Test)
  /\ WF_connectVars(helper = "connect" /\ Connect!Script)
  /\ \A t \in Threads : WF_rpcVars(helper = "rpc" /\ Rpc!Thread(t))

-----------------------------------------------------------------------------
(* Properties, stated where the helper is modelled *)

\* No bitcoind outlives the test, and none is ever out of its node's reach.
NothingLeftBehind == Processes!NothingLeftBehind

\* A node with an RPC connection has loaded its blocks and its mempool.
ConnectedMeansLoaded == Processes!ConnectedMeansLoaded

\* connect_nodes and disconnect_nodes return when the link is as asked.
LinkIsAsAsked == Connect!LinkIsAsAsked

\* A call over a proxy that threads share gets its own answer.
AnswerIsOwn == Rpc!AnswerIsOwn

\* Every helper comes to an end: a sync of blocks unless there are two best
\* chains, an operation on the processes, a call on a link (its waits are given
\* up in the end), and an RPC even if the node never answers.
EveryCallEnds ==
  /\ BlocksSettle
  /\ Processes!OperationsEnd
  /\ helper = "connect" => Connect!ScriptEnds
  /\ Rpc!CallsEnd
=============================================================================
