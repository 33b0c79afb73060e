---------------------------- MODULE NetBandwidth ----------------------------
(***************************************************************************)
(* scenarios/check_net_bandwidth.py, the experiment that measures what a    *)
(* batch of transactions costs the network.  One iteration mines a block,  *)
(* takes a snapshot of every node's message counters, broadcasts the       *)
(* batch, waits for every mempool, takes a second snapshot and asks every  *)
(* node when it heard of one transaction of the batch, the marker.         *)
(*                                                                         *)
(* The actors are the main thread (orders), one helper thread per node in  *)
(* each waiting phase, and the nodes, which relay transactions and blocks  *)
(* on their own.  Relaying has no fairness: a transaction that is slow and *)
(* one that a rolling Bloom filter swallowed look the same to the script.  *)
(* A deadline may pass at any poll; an RPC may fail, MaxRpcFaults times.   *)
(***************************************************************************)
EXTENDS Integers, Sequences, FiniteSets

CONSTANTS
  N,             \* len(self.nodes); node 0 is the miner
  Links,         \* the pairs of connected nodes, both ways
  TxCount,       \* --tx_count
  Iterations,    \* --n
  MaxRetries,    \* MAX_RETRIES, polls at one short of the target
  MaxRpcFaults   \* bound on the RPC calls that fail in a run

Nodes == 0 .. N - 1
NoNode == -1
Batch(i) == {i} \X (1 .. TxCount)
AllTxs == (1 .. Iterations) \X (1 .. TxCount)
NoTx == <<0, 0>>

ASSUME ConstantsAssumption ==
  /\ N \in Nat /\ N >= 2               \* orders() refuses fewer
  /\ TxCount \in Nat \ {0} /\ Iterations \in Nat \ {0}
  /\ MaxRetries \in Nat \ {0} /\ MaxRpcFaults \in Nat
  /\ Links \subseteq Nodes \X Nodes

VARIABLES
  \* the nodes
  mempool,       \* the transactions node n holds
  tip,           \* the height node n has reached
  block,         \* block[h]: the transactions of the block at height h
  gained,        \* gained[n]: relays <<to, tx>> sent since n's first snapshot
  \* the main thread
  pc,            \* where orders() is
  iter,          \* the iteration, from 1
  cursor,        \* the node a loop over self.nodes has come to
  pools,         \* the mempools sync_mempools has read in this round
  txs,           \* the transactions still to broadcast
  marker,        \* the transaction whose propagation is timed
  markerSource,  \* the node it was broadcast from
  counted,       \* the relays in the difference of the two snapshots
  timestamps,    \* self.inv_timestamps and self.tx_timestamps
  \* the helper threads
  task,          \* what the thread of node n is doing
  retries,       \* its polls at one short
  errors,        \* the nodes it reported an error for
  \* history and bounds
  stale,         \* transactions of earlier batches left when mining is over
  flagged,       \* nodes logged as false positives in this iteration
  died,          \* nodes whose mempool thread an exception ended
  faults         \* RPC calls that failed so far

nodeVars == <<mempool, tip, block, gained>>
threadVars == <<task, retries, errors, flagged, died>>
measureVars == <<counted, timestamps>>
batchVars == <<txs, marker, markerSource, stale>>
vars == <<nodeVars, threadVars, measureVars, batchVars, pc, iter, cursor, pools, faults>>

NoThreads == [n \in Nodes |-> "idle"]
Confirmed(n) == UNION {block[h] : h \in 1 .. tip[n]}
AllIdle == \A n \in Nodes : task[n] = "idle"

Init ==
  /\ mempool = [n \in Nodes |-> {}]
  /\ tip = [n \in Nodes |-> 0]
  /\ block = <<>>
  /\ gained = [n \in Nodes |-> {}]
  /\ pc = "mine" /\ iter = 1 /\ cursor = 0
  /\ pools = [n \in Nodes |-> {}]
  /\ txs = <<>> /\ marker = NoTx /\ markerSource = NoNode
  /\ counted = {} /\ timestamps = {}
  /\ task = NoThreads
  /\ retries = [n \in Nodes |-> 0]
  /\ errors = {}
  /\ stale = {} /\ flagged = {} /\ died = {}
  /\ faults = 0

-----------------------------------------------------------------------------
(* The nodes *)

\* A node that holds a transaction sends it to a peer that lacks it.
RelayTx(from, to, tx) ==
  /\ <<from, to>> \in Links
  /\ tx \in mempool[from]
  /\ tx \notin mempool[to] \cup Confirmed(to)
  /\ mempool' = [mempool EXCEPT ![to] = @ \cup {tx}]
  /\ gained' = [gained EXCEPT ![from] = @ \cup {<<to, tx>>}]
  /\ UNCHANGED <<tip, block, threadVars, measureVars, batchVars, pc, iter, cursor, pools, faults>>

\* A node connects the next block of the chain it hears of.
RelayBlock(from, to) ==
  /\ <<from, to>> \in Links
  /\ tip[to] < tip[from]
  /\ tip' = [tip EXCEPT ![to] = @ + 1]
  /\ mempool' = [mempool EXCEPT ![to] = @ \ block[tip[to] + 1]]
  /\ UNCHANGED <<block, gained, threadVars, measureVars, batchVars, pc, iter, cursor, pools, faults>>

-----------------------------------------------------------------------------
(* The main thread: mine_blocks *)

\* generatetoaddress on the miner.  However many blocks are mined, the first
\* one takes the miner's mempool and the others are empty: one is modelled.
MineBlock ==
  /\ pc = "mine"
  /\ block' = Append(block, mempool[0])
  /\ tip' = [tip EXCEPT ![0] = @ + 1]
  /\ mempool' = [mempool EXCEPT ![0] = {}]
  /\ pc' = "sync_blocks"
  /\ UNCHANGED <<gained, threadVars, measureVars, batchVars, iter, cursor, pools, faults>>

\* sync_blocks: only the miner extends the chain, so the tips, read one after
\* the other, are equal exactly when all nodes have the miner's.
SyncBlocks ==
  /\ pc = "sync_blocks"
  /\ \A n \in Nodes : tip[n] = tip[0]
  /\ pc' = "sync_mempools"
  /\ cursor' = 0
  /\ UNCHANGED <<nodeVars, threadVars, measureVars, batchVars, iter, pools, faults>>

\* sync_mempools reads the mempools one after the other.
ReadPool ==
  /\ pc = "sync_mempools"
  /\ cursor < N
  /\ pools' = [pools EXCEPT ![cursor] = mempool[cursor]]
  /\ cursor' = cursor + 1
  /\ UNCHANGED <<nodeVars, threadVars, measureVars, batchVars, pc, iter, faults>>

StartThreads(which, what) == task' = [n \in Nodes |-> IF n \in which THEN what ELSE "idle"]

\* Faulty variant: sync_fun is a no-op for the mempools.
ComparePoolsIgnored ==
  /\ pc = "sync_mempools"
  /\ cursor = N
  /\ pc' = "join_height"
  /\ StartThreads(Nodes \ {0}, "height")
  /\ pools' = [n \in Nodes |-> {}]
  /\ cursor' = 0
  /\ errors' = {}
  /\ UNCHANGED <<nodeVars, measureVars, batchVars, retries, flagged, died, iter, faults>>

\* It starts again unless what it read is the same everywhere.  Then
\* mine_blocks checks the height of all nodes but the miner in threads.
ComparePools ==
  /\ pc = "sync_mempools"
  /\ cursor = N
  /\ IF \A n \in Nodes : pools[n] = pools[0]
       THEN /\ pc' = "join_height"
            /\ StartThreads(Nodes \ {0}, "height")
            /\ pools' = [n \in Nodes |-> {}]
       ELSE UNCHANGED <<pc, task, pools>>
  /\ cursor' = 0
  /\ errors' = {}
  /\ UNCHANGED <<nodeVars, measureVars, batchVars, retries, flagged, died, iter, faults>>

Abort ==
  /\ pc' = "aborted"
  /\ UNCHANGED <<nodeVars, threadVars, measureVars, batchVars, iter, cursor, pools, faults>>

\* sync_blocks and sync_mempools test the time when a round starts.
SyncTimeout ==
  /\ \/ pc = "sync_blocks" /\ \E n \in Nodes : tip[n] # tip[0]
     \/ pc = "sync_mempools" /\ cursor = 0
  /\ Abort

\* An exception in the main thread ends the run.
MainFails ==
  /\ pc \in {"mine", "sync_blocks", "sync_mempools", "snapshot", "broadcast", "measure"}
  /\ faults < MaxRpcFaults
  /\ pc' = "aborted"
  /\ faults' = faults + 1
  /\ UNCHANGED <<nodeVars, threadVars, measureVars, batchVars, iter, cursor, pools>>

JoinHeight ==
  /\ pc = "join_height"
  /\ AllIdle
  /\ pc' = IF errors # {} THEN "aborted" ELSE "snapshot"
  /\ cursor' = 0
  /\ stale' = UNION {mempool[n] : n \in Nodes}
  /\ UNCHANGED <<nodeVars, threadVars, measureVars, txs, marker, markerSource, iter, pools, faults>>

-----------------------------------------------------------------------------
(* The main thread: snapshots, create_txs, broadcast_txs *)

\* get_net_stats before the batch, one node after the other: what the node
\* sends from here on is what it gains.
InitialSnapshot ==
  /\ pc = "snapshot"
  /\ cursor < N
  /\ gained' = [gained EXCEPT ![cursor] = {}]
  /\ cursor' = cursor + 1
  /\ UNCHANGED <<mempool, tip, block, threadVars, measureVars, batchVars, pc, iter, pools, faults>>

\* create_txs; the marker is the last transaction of the list.
CreateTxs ==
  /\ pc = "snapshot"
  /\ cursor = N
  /\ txs' = [k \in 1 .. TxCount |-> <<iter, k>>]
  /\ marker' = txs'[TxCount]
  /\ pc' = "broadcast"
  /\ cursor' = 0
  /\ UNCHANGED <<nodeVars, threadVars, measureVars, markerSource, stale, iter, pools, faults>>

\* Faulty variant: the batch is taken from the front.
BroadcastTxFromFront ==
  /\ pc = "broadcast"
  /\ txs # <<>>
  /\ mempool' = [mempool EXCEPT ![cursor] = @ \cup {txs[1]}]
  /\ markerSource' = IF txs[1] = marker THEN cursor ELSE markerSource
  /\ txs' = SubSeq(txs, 2, Len(txs))
  /\ cursor' = (cursor + 1) % N
  /\ UNCHANGED <<tip, block, gained, threadVars, measureVars, marker, stale, pc, iter, pools, faults>>

\* broadcast_txs: txs.pop() to the nodes in turn, from node 0.
BroadcastTx ==
  /\ pc = "broadcast"
  /\ txs # <<>>
  /\ LET tx == txs[Len(txs)] IN
       /\ mempool' = [mempool EXCEPT ![cursor] = @ \cup {tx}]
       /\ markerSource' = IF tx = marker THEN cursor ELSE markerSource
  /\ txs' = SubSeq(txs, 1, Len(txs) - 1)
  /\ cursor' = (cursor + 1) % N
  /\ UNCHANGED <<tip, block, gained, threadVars, measureVars, marker, stale, pc, iter, pools, faults>>

\* monitor_mempool starts a thread for each node, the miner included.
StartMonitors ==
  /\ pc = "broadcast"
  /\ txs = <<>>
  /\ pc' = "join_mempool"
  /\ StartThreads(Nodes, "mempool")
  /\ retries' = [n \in Nodes |-> 0]
  /\ errors' = {} /\ flagged' = {} /\ died' = {}
  /\ UNCHANGED <<nodeVars, measureVars, batchVars, iter, cursor, pools, faults>>

-----------------------------------------------------------------------------
(* The helper threads *)

EndThread(n) == task' = [task EXCEPT ![n] = "idle"]

\* check_block_height
HeightPoll(n) ==
  /\ task[n] = "height"
  /\ EndThread(n)
  /\ \/ tip[n] >= tip[0] /\ UNCHANGED errors
     \/ tip[n] < tip[0] /\ errors' = errors \cup {n}   \* the deadline has passed
  /\ UNCHANGED <<nodeVars, measureVars, batchVars, retries, flagged, died, pc, iter, cursor, pools, faults>>

\* Faulty variant: one short is good enough at once, and nothing is logged.
MempoolReachedOneShort(n) ==
  /\ task[n] = "mempool"
  /\ Cardinality(mempool[n]) >= TxCount - 1
  /\ EndThread(n)
  /\ UNCHANGED <<nodeVars, measureVars, batchVars, retries, errors, flagged, died, pc, iter, cursor, pools, faults>>

\* check_mempool_txs: the number of transactions has reached the target.
MempoolReached(n) ==
  /\ task[n] = "mempool"
  /\ Cardinality(mempool[n]) >= TxCount
  /\ EndThread(n)
  /\ UNCHANGED <<nodeVars, measureVars, batchVars, retries, errors, flagged, died, pc, iter, cursor, pools, faults>>

\* Faulty variant: the deadline moves along with the polls.
MempoolTimeoutMoves(n) ==
  /\ task[n] = "mempool"
  /\ Cardinality(mempool[n]) < TxCount
  /\ UNCHANGED vars

\* check_mempool_txs: the deadline has passed.
MempoolTimeout(n) ==
  /\ task[n] = "mempool"
  /\ Cardinality(mempool[n]) < TxCount
  /\ EndThread(n)
  /\ errors' = errors \cup {n}
  /\ UNCHANGED <<nodeVars, measureVars, batchVars, retries, flagged, died, pc, iter, cursor, pools, faults>>

\* check_mempool_txs: a poll one short of the target, in a mempool that is not
\* empty; after MaxRetries of them the thread logs a false positive and returns.
MempoolOneShort(n) ==
  /\ task[n] = "mempool"
  /\ mempool[n] # {}
  /\ Cardinality(mempool[n]) = TxCount - 1
  /\ retries' = [retries EXCEPT ![n] = @ + 1]
  /\ IF retries'[n] >= MaxRetries
       THEN EndThread(n) /\ flagged' = flagged \cup {n}
       ELSE UNCHANGED <<task, flagged>>
  /\ UNCHANGED <<nodeVars, measureVars, batchVars, errors, died, pc, iter, cursor, pools, faults>>

\* check_propagation_time: the entry of the marker has both times only in a
\* node that holds it and heard of it from a peer; any failure is an error.
StampPoll(n) ==
  /\ task[n] = "stamp"
  /\ EndThread(n)
  /\ IF marker \in mempool[n] /\ markerSource # n
       THEN timestamps' = timestamps \cup {<<n, marker>>} /\ UNCHANGED errors
       ELSE errors' = errors \cup {n} /\ UNCHANGED timestamps
  /\ UNCHANGED <<nodeVars, batchVars, counted, retries, flagged, died, pc, iter, cursor, pools, faults>>

\* An RPC raises in a thread.  check_propagation_time reports it; the other
\* two have no handler: the thread ends and leaves no error behind.
ThreadFails(n) ==
  /\ task[n] # "idle"
  /\ faults < MaxRpcFaults
  /\ faults' = faults + 1
  /\ EndThread(n)
  /\ errors' = IF task[n] = "stamp" THEN errors \cup {n} ELSE errors
  /\ died' = IF task[n] = "mempool" THEN died \cup {n} ELSE died
  /\ UNCHANGED <<nodeVars, measureVars, batchVars, retries, flagged, pc, iter, cursor, pools>>

-----------------------------------------------------------------------------
(* The main thread: joins, second snapshot, results *)

JoinMempool ==
  /\ pc = "join_mempool"
  /\ AllIdle
  /\ pc' = IF errors # {} THEN "aborted" ELSE "measure"
  /\ cursor' = 0
  /\ UNCHANGED <<nodeVars, threadVars, measureVars, batchVars, iter, pools, faults>>

FinalSnapshot ==
  /\ pc = "measure"
  /\ cursor < N
  /\ counted' = counted \cup ({cursor} \X gained[cursor])
  /\ cursor' = cursor + 1
  /\ UNCHANGED <<nodeVars, threadVars, timestamps, batchVars, pc, iter, pools, faults>>

\* The marker is asked for at self.nodes[1:].
StartStamps ==
  /\ pc = "measure"
  /\ cursor = N
  /\ pc' = "join_stamps"
  /\ StartThreads(Nodes \ {0}, "stamp")
  /\ errors' = {}
  /\ UNCHANGED <<nodeVars, measureVars, batchVars, retries, flagged, died, iter, cursor, pools, faults>>

\* Faulty variant: the timestamps are not cleared.
JoinStampsKeepsTimes ==
  /\ pc = "join_stamps"
  /\ AllIdle
  /\ IF errors # {}
       THEN pc' = "aborted" /\ UNCHANGED <<iter, counted>>
       ELSE /\ counted' = {}
            /\ IF iter < Iterations
                 THEN pc' = "mine" /\ iter' = iter + 1
                 ELSE pc' = "reported" /\ UNCHANGED iter
  /\ UNCHANGED <<nodeVars, threadVars, timestamps, batchVars, cursor, pools, faults>>

\* The results of the iteration; the timestamps are cleared for the next one.
JoinStamps ==
  /\ pc = "join_stamps"
  /\ AllIdle
  /\ IF errors # {}
       THEN pc' = "aborted" /\ UNCHANGED <<iter, timestamps, counted>>
       ELSE /\ timestamps' = {} /\ counted' = {}
            /\ IF iter < Iterations
                 THEN pc' = "mine" /\ iter' = iter + 1
                 ELSE pc' = "reported" /\ UNCHANGED iter
  /\ UNCHANGED <<nodeVars, threadVars, batchVars, cursor, pools, faults>>

-----------------------------------------------------------------------------

Relay ==
  \/ \E link \in Links, tx \in AllTxs : RelayTx(link[1], link[2], tx)
  \/ \E link \in Links : RelayBlock(link[1], link[2])

Thread(n) ==
  \/ HeightPoll(n)
  \/ MempoolReached(n)
  \/ MempoolTimeout(n)
  \/ MempoolOneShort(n)
  \/ StampPoll(n)
  \/ ThreadFails(n)

Main ==
  \/ MineBlock
  \/ SyncBlocks
  \/ ReadPool
  \/ ComparePools
  \/ JoinHeight
  \/ InitialSnapshot
  \/ CreateTxs
  \/ BroadcastTx
  \/ StartMonitors
  \/ JoinMempool
  \/ FinalSnapshot
  \/ StartStamps
  \/ JoinStamps
  \/ MainFails

Next == Main \/ SyncTimeout \/ Relay \/ \E n \in Nodes : Thread(n)

Spec == Init /\ [][Next]_vars

\* The threads of the script are scheduled again, and time passes: a loop
\* that tests a deadline again and again finds it over.  Nothing is assumed of
\* the nodes.
Fairness ==
  /\ WF_vars(Main)
  /\ \A n \in Nodes : WF_vars(Thread(n))
  /\ SF_vars(SyncTimeout)

FairSpec == Spec /\ Fairness

-----------------------------------------------------------------------------
(* Properties *)

\* monitor_mempool has returned without an error in this iteration.
Monitored == pc \in {"measure", "join_stamps"}

\* Whatever is left of earlier batches, however late it is relayed, the
\* difference of the two snapshots only counts relays of this batch:
\* sync_mempools holds the first snapshot back until no node lacks what
\* another one has.
NoForeignTraffic == \A r \in counted : r[2][2] \in Batch(iter)

\* With nothing left over and no node flagged or lost, the measurement is
\* exact although the snapshots are not atomic: each node but the source
\* received each transaction once, and the sender's counter was read after it.
MeasurementIsExact ==
  (pc = "join_stamps" /\ stale = {} /\ flagged = {} /\ died = {}) =>
     /\ {r[2][2] : r \in counted} = Batch(iter)
     /\ Cardinality(counted) = TxCount * (N - 1)
     /\ Cardinality({r[2] : r \in counted}) = TxCount * (N - 1)

\* The marker never comes from a node that is asked for its first_inv_time: the
\* last transaction of the list is the first one broadcast, from node 0.
MarkerIsHeardByRelay == (Monitored => markerSource = 0)

\* When propagation_time is computed there is one pair of times for each node
\* but the miner, all of this iteration's marker.
TimestampsAreFresh ==
  (pc = "join_stamps" /\ AllIdle /\ errors = {}) =>
     timestamps = (Nodes \ {0}) \X {marker}

\* A propagation error without an RPC fault is always an earlier loss coming to
\* light: the node was flagged, its thread had died, or the count was off.
PropagationErrorsAreLosses ==
  (pc = "join_stamps" /\ errors # {} /\ faults = 0) => errors \subseteq flagged \/ stale # {}

\* Every run ends, with a report or an error: no wait lacks a deadline.
Terminates == <>(pc \in {"reported", "aborted"})

\* "Mine at least a single block to clear the mempools" (line 110).
MempoolsCleared == pc = "snapshot" => stale = {}

\* "Waits until all nodes have received all transactions" (line 152), unless
\* a false positive is logged for the node.
ReceivedOrFlagged ==
  Monitored => \A n \in Nodes \ flagged : Batch(iter) \subseteq mempool[n]
=============================================================================
