------------------------- MODULE NetBandwidthProofs -------------------------
(***************************************************************************)
(* What the measurement of check_net_bandwidth.py means, for every number  *)
(* of nodes, transactions, iterations, retries and faults, and for every   *)
(* set of links.                                                           *)
(***************************************************************************)
EXTENDS NetBandwidth, FiniteSetTheorems, SequenceTheorems, TLAPS

-----------------------------------------------------------------------------
(* The inductive invariant *)

TypeOK ==
  /\ mempool \in [Nodes -> SUBSET AllTxs]
  /\ tip \in [Nodes -> Nat]
  /\ block \in Seq(SUBSET AllTxs)
  /\ gained \in [Nodes -> SUBSET (Nodes \X AllTxs)]
  /\ pc \in {"mine", "sync_blocks", "sync_mempools", "join_height", "snapshot", "broadcast",
             "join_mempool", "measure", "join_stamps", "reported", "aborted"}
  /\ iter \in 1 .. Iterations
  /\ cursor \in 0 .. N
  /\ pools \in [Nodes -> SUBSET AllTxs]
  /\ txs \in Seq(AllTxs)
  /\ marker \in AllTxs \cup {NoTx}
  /\ markerSource \in Nodes \cup {NoNode}
  /\ counted \subseteq Nodes \X (Nodes \X AllTxs)
  /\ timestamps \subseteq Nodes \X (AllTxs \cup {NoTx})
  /\ task \in [Nodes -> {"idle", "height", "mempool", "stamp"}]
  /\ retries \in [Nodes -> Nat]
  /\ errors \subseteq Nodes /\ flagged \subseteq Nodes /\ died \subseteq Nodes
  /\ stale \subseteq AllTxs
  /\ faults \in Nat

\* From the broadcast on, the batch is on its way.
BatchIsOut == pc \in {"broadcast", "join_mempool", "measure", "join_stamps"}

\* The transactions of the batch that have been broadcast.
Broadcast == {iter} \X (Len(txs) + 1 .. TxCount)

\* Only the miner extends the chain; outside of sync_blocks all nodes have it.
OneChain ==
  /\ Len(block) = tip[0]
  /\ \A n \in Nodes : tip[n] <= tip[0]
  /\ pc \notin {"sync_blocks", "aborted"} => \A n \in Nodes : tip[n] = tip[0]

\* A helper thread runs only in the phase that joins it, and asks the miner for
\* no timestamp.
ThreadsOfThePhase ==
  /\ \A n \in Nodes :
       /\ task[n] = "height" => pc = "join_height"
       /\ task[n] = "mempool" => pc = "join_mempool"
       /\ task[n] = "stamp" => pc = "join_stamps"
  /\ task[0] # "stamp"

\* No node loses what sync_mempools has read of it, and what a node holds is
\* among what has been read or with a node that is still to be read.
ReadPoolsBound ==
  pc = "sync_mempools" =>
    /\ \A n \in Nodes : n < cursor => pools[n] \subseteq mempool[n]
    /\ \A n \in Nodes : \A t \in mempool[n] : \E m \in Nodes :
         IF m < cursor THEN t \in pools[m] ELSE t \in mempool[m]

\* After sync_mempools no node lacks what another one has of earlier batches.
OldTxsAreEverywhere ==
  /\ pc \in {"join_height", "snapshot"} => \A m, n \in Nodes : mempool[m] \subseteq mempool[n]
  /\ BatchIsOut => \A m, n \in Nodes : mempool[m] \ Batch(iter) \subseteq mempool[n]

\* The batch is broadcast from its end, the marker first and from node 0.
MarkerGoesFirst ==
  /\ BatchIsOut =>
       /\ marker = <<iter, TxCount>>
       /\ Len(txs) <= TxCount
       /\ \A k \in 1 .. Len(txs) : txs[k] = <<iter, k>>
       /\ Len(txs) < TxCount => markerSource = 0
       /\ pc # "broadcast" => txs = <<>>
  /\ pc = "broadcast" => cursor \in Nodes /\ (Len(txs) = TxCount => cursor = 0)

\* What is gained since the first snapshot is of this batch.
OnlyThisBatchIsGained ==
  /\ pc = "snapshot" => \A n \in Nodes : n < cursor => gained[n] = {}
  /\ BatchIsOut => \A n \in Nodes : \A r \in gained[n] : r[2] \in Batch(iter)
  /\ pc \notin {"measure", "join_stamps", "aborted"} => counted = {}

\* A thread that has looked for the marker has its time or reports an error.
StampsOfThisMarker ==
  /\ pc = "join_stamps" =>
       /\ timestamps \subseteq (Nodes \ {0}) \X {marker}
       /\ \A n \in Nodes \ {0} : task[n] = "stamp" \/ n \in errors \/ <<n, marker>> \in timestamps
  /\ pc \notin {"join_stamps", "aborted"} => timestamps = {}

\* With nothing left over, a mempool holds only what has been broadcast, and a
\* node that is waved through without all of it is flagged or lost its thread.
LossesAreOnRecord ==
  /\ died # {} => faults > 0
  /\ pc = "snapshot" /\ stale = {} => \A n \in Nodes : mempool[n] = {}
  /\ BatchIsOut /\ stale = {} =>
       /\ \A n \in Nodes : mempool[n] \subseteq Broadcast
       /\ pc # "broadcast" =>
            \A n \in Nodes \ (flagged \cup died) :
              \/ Batch(iter) \subseteq mempool[n]
              \/ pc = "join_mempool" /\ (task[n] = "mempool" \/ n \in errors)
  /\ pc = "join_stamps" /\ stale = {} /\ faults = 0 => errors \subseteq flagged

\* With nothing left over, each transaction has one node that it was broadcast
\* from, and every other node that holds it was sent it once.
HeardOnce ==
  BatchIsOut /\ stale = {} =>
    /\ \A n \in Nodes : \A r \in gained[n] : r[2] \in mempool[r[1]]
    /\ \A m, n \in Nodes : gained[m] \cap gained[n] # {} => m = n
    /\ \A t \in Broadcast : \E o \in Nodes :
         /\ t \in mempool[o]
         /\ \A n \in Nodes : t \in mempool[n] =>
              (n = o <=> \A m \in Nodes : <<n, t>> \notin gained[m])

\* With nobody waved through, what is counted is what the nodes have gained.
CountedIsGained ==
  pc \in {"measure", "join_stamps"} /\ stale = {} /\ flagged = {} /\ died = {} =>
    \A n \in Nodes, r \in Nodes \X AllTxs :
      <<n, r>> \in counted <=> r \in gained[n] /\ (pc = "join_stamps" \/ n < cursor)

IInv ==
  /\ TypeOK
  /\ OneChain
  /\ ThreadsOfThePhase
  /\ ReadPoolsBound
  /\ OldTxsAreEverywhere
  /\ MarkerGoesFirst
  /\ OnlyThisBatchIsGained
  /\ NoForeignTraffic
  /\ StampsOfThisMarker
  /\ LossesAreOnRecord
  /\ HeardOnce
  /\ CountedIsGained

-----------------------------------------------------------------------------
(* Facts about nodes and batches *)

\* The nodes are the integers from 0 to N - 1, and a loop over them has its
\* cursor among them until it is at N.
LEMMA NodeFacts ==
  /\ N \in Nat /\ 0 \in Nodes /\ NoNode \notin Nodes
  /\ \A n \in Nodes : n \in Int /\ 0 <= n /\ n < N
  /\ \A c \in 0 .. N : c < N => c \in Nodes /\ c + 1 \in 0 .. N
  /\ \A c \in 0 .. N : c = N \/ c < N
  /\ 0 \in 0 .. N /\ N \in 0 .. N
BY ConstantsAssumption DEF Nodes, NoNode

\* The nodes of broadcast_txs are taken in turn.
LEMMA NextNode == \A c \in Nodes : (c + 1) % N \in Nodes /\ (c + 1) % N \in 0 .. N
BY ConstantsAssumption DEF Nodes

\* What a batch is made of.
LEMMA BatchFacts ==
  ASSUME iter \in 1 .. Iterations
  PROVE  /\ TxCount \in Nat /\ TxCount > 0
         /\ Batch(iter) \subseteq AllTxs
         /\ \A k \in 1 .. TxCount : <<iter, k>> \in AllTxs /\ <<iter, k>> \in Batch(iter)
         /\ NoTx \notin AllTxs
BY ConstantsAssumption DEF Batch, AllTxs, NoTx

-----------------------------------------------------------------------------
(* Types *)

\* Types: the initial state.
LEMMA TypeInit == Init => TypeOK
BY ConstantsAssumption, NodeFacts DEF Init, TypeOK, NoThreads

\* Types: the nodes relay transactions and connect blocks.
LEMMA TypeRelay ==
  ASSUME TypeOK, OneChain, Relay
  PROVE  TypeOK'
<1>1. ASSUME NEW link \in Links, NEW tx \in AllTxs, RelayTx(link[1], link[2], tx)
      PROVE  TypeOK'
  <2>1. link[1] \in Nodes /\ link[2] \in Nodes
    BY ConstantsAssumption
  <2>2. /\ mempool' \in [Nodes -> SUBSET AllTxs]
        /\ gained' \in [Nodes -> SUBSET (Nodes \X AllTxs)]
    BY <1>1, <2>1 DEF RelayTx, TypeOK
  <2>3. QED
    BY <1>1, <2>2 DEF RelayTx, TypeOK, threadVars, measureVars, batchVars
<1>2. ASSUME NEW link \in Links, RelayBlock(link[1], link[2])
      PROVE  TypeOK'
  <2>1. link[1] \in Nodes /\ link[2] \in Nodes
    BY ConstantsAssumption
  <2>2. tip' \in [Nodes -> Nat] /\ mempool' \in [Nodes -> SUBSET AllTxs]
    BY <1>2, <2>1, SMTT(30) DEF RelayBlock, TypeOK
  <2>3. QED
    BY <1>2, <2>2 DEF RelayBlock, TypeOK, threadVars, measureVars, batchVars
<1>3. QED
  BY <1>1, <1>2 DEF Relay

\* Types: mine_blocks and its joins.
LEMMA TypeMine ==
  ASSUME TypeOK, MineBlock \/ SyncBlocks \/ ReadPool \/ ComparePools \/ JoinHeight
  PROVE  TypeOK'
<1> USE NodeFacts DEF threadVars, measureVars, batchVars, nodeVars
<1>1. CASE MineBlock
  <2>1. block' \in Seq(SUBSET AllTxs)
    BY <1>1 DEF MineBlock, TypeOK
  <2>2. tip' \in [Nodes -> Nat] /\ mempool' \in [Nodes -> SUBSET AllTxs]
    BY <1>1 DEF MineBlock, TypeOK
  <2>3. QED
    BY <1>1, <2>1, <2>2 DEF MineBlock, TypeOK
<1>2. CASE SyncBlocks
  BY <1>2 DEF SyncBlocks, TypeOK
<1>3. CASE ReadPool
  BY <1>3 DEF ReadPool, TypeOK
<1>4. CASE ComparePools
  BY <1>4 DEF ComparePools, StartThreads, TypeOK
<1>5. CASE JoinHeight
  <2>1. stale' \subseteq AllTxs
    BY <1>5 DEF JoinHeight, TypeOK
  <2>2. QED
    BY <1>5, <2>1 DEF JoinHeight, TypeOK
<1>6. QED
  BY <1>1, <1>2, <1>3, <1>4, <1>5

\* Types: the first snapshot, create_txs and broadcast_txs.
LEMMA TypeBroadcast ==
  ASSUME TypeOK, MarkerGoesFirst, InitialSnapshot \/ CreateTxs \/ BroadcastTx \/ StartMonitors
  PROVE  TypeOK'
<1> USE NodeFacts, BatchFacts DEF threadVars, measureVars, batchVars, nodeVars
<1>1. CASE InitialSnapshot
  BY <1>1 DEF InitialSnapshot, TypeOK
<1>2. CASE CreateTxs
  <2>1. \A k \in 1 .. TxCount : txs'[k] = <<iter, k>>
    BY <1>2 DEF CreateTxs
  <2>2. txs' \in [1 .. TxCount -> AllTxs]
    BY <1>2 DEF CreateTxs, TypeOK
  <2>3. txs' \in Seq(AllTxs)
    BY <2>2, ConstantsAssumption
  <2>4. marker' \in AllTxs
    <3>1. TxCount \in 1 .. TxCount
      BY ConstantsAssumption
    <3>2. QED
      BY <1>2, <2>2, <3>1 DEF CreateTxs
  <2>5. QED
    BY <1>2, <2>3, <2>4 DEF CreateTxs, TypeOK
<1>3. CASE BroadcastTx
  <2>1. txs \in Seq(AllTxs) /\ Len(txs) \in Nat /\ Len(txs) > 0
    <3>1. txs \in Seq(AllTxs) /\ txs # <<>>
      BY <1>3 DEF BroadcastTx, TypeOK
    <3>2. QED
      BY <3>1
  <2>2. txs[Len(txs)] \in AllTxs
    BY <2>1
  <2>3. txs' \in Seq(AllTxs)
    BY <1>3, <2>1 DEF BroadcastTx
  <2>4. cursor \in Nodes
    BY <1>3 DEF BroadcastTx, MarkerGoesFirst
  <2>5. cursor' \in 0 .. N
    BY <1>3, <2>4, NextNode DEF BroadcastTx
  <2>6. mempool' \in [Nodes -> SUBSET AllTxs] /\ markerSource' \in Nodes \cup {NoNode}
    BY <1>3, <2>2, <2>4 DEF BroadcastTx, TypeOK
  <2>7. QED
    BY <1>3, <2>3, <2>5, <2>6 DEF BroadcastTx, TypeOK
<1>4. CASE StartMonitors
  BY <1>4 DEF StartMonitors, StartThreads, TypeOK
<1>5. QED
  BY <1>1, <1>2, <1>3, <1>4

\* Types: the helper threads.
LEMMA TypeThread ==
  ASSUME TypeOK, NEW n \in Nodes, Thread(n)
  PROVE  TypeOK'
<1> USE DEF threadVars, measureVars, batchVars, nodeVars, EndThread
<1>1. CASE HeightPoll(n)
  BY <1>1 DEF HeightPoll, TypeOK
<1>2. CASE MempoolReached(n)
  BY <1>2 DEF MempoolReached, TypeOK
<1>3. CASE MempoolTimeout(n)
  BY <1>3 DEF MempoolTimeout, TypeOK
<1>4. CASE MempoolOneShort(n)
  <2>1. retries' \in [Nodes -> Nat]
    BY <1>4 DEF MempoolOneShort, TypeOK
  <2>2. task' \in [Nodes -> {"idle", "height", "mempool", "stamp"}] /\ flagged' \subseteq Nodes
    BY <1>4 DEF MempoolOneShort, TypeOK
  <2>3. QED
    BY <1>4, <2>1, <2>2 DEF MempoolOneShort, TypeOK
<1>5. CASE StampPoll(n)
  BY <1>5, SMTT(30) DEF StampPoll, TypeOK
<1>6. CASE ThreadFails(n)
  BY <1>6 DEF ThreadFails, TypeOK
<1>7. QED
  BY <1>1, <1>2, <1>3, <1>4, <1>5, <1>6 DEF Thread

\* Types: the second snapshot, the results and what aborts the run.
LEMMA TypeMeasure ==
  ASSUME TypeOK,
         JoinMempool \/ FinalSnapshot \/ StartStamps \/ JoinStamps \/ MainFails \/ SyncTimeout
  PROVE  TypeOK'
<1> USE NodeFacts DEF threadVars, measureVars, batchVars, nodeVars
<1>1. CASE JoinMempool
  BY <1>1 DEF JoinMempool, TypeOK
<1>2. CASE FinalSnapshot
  BY <1>2, ZenonT(30) DEF FinalSnapshot, TypeOK
<1>3. CASE StartStamps
  BY <1>3 DEF StartStamps, StartThreads, TypeOK
<1>4. CASE JoinStamps
  <2>1. iter' \in 1 .. Iterations
    <3>1. iter' = iter \/ (iter < Iterations /\ iter' = iter + 1)
      BY <1>4 DEF JoinStamps
    <3>2. iter \in 1 .. Iterations
      BY DEF TypeOK
    <3>3. QED
      BY <3>1, <3>2, ConstantsAssumption
  <2>2. /\ pc' \in {"aborted", "mine", "reported"}
        /\ timestamps' \in {timestamps, {}} /\ counted' \in {counted, {}}
    BY <1>4 DEF JoinStamps
  <2>3. QED
    BY <1>4, <2>1, <2>2 DEF JoinStamps, TypeOK
<1>5. CASE MainFails
  <2>1. faults' = faults + 1 /\ faults \in Nat /\ pc' = "aborted"
    BY <1>5 DEF MainFails, TypeOK
  <2>2. faults' \in Nat
    BY <2>1
  <2>3. QED
    BY <1>5, <2>1, <2>2 DEF MainFails, TypeOK
<1>6. CASE SyncTimeout
  BY <1>6 DEF SyncTimeout, Abort, TypeOK
<1>7. QED
  BY <1>1, <1>2, <1>3, <1>4, <1>5, <1>6

\* Types: every step.
LEMMA TypeNext == IInv /\ [Next]_vars => TypeOK'
<1>1. CASE UNCHANGED vars
  BY <1>1 DEF IInv, TypeOK, vars, nodeVars, threadVars, measureVars, batchVars
<1>2. QED
  BY <1>1, TypeRelay, TypeMine, TypeBroadcast, TypeThread, TypeMeasure DEF IInv, Next, Main

-----------------------------------------------------------------------------
(* The nodes *)

\* A transaction that is relayed while the batch is out is one of the batch.
LEMMA RelayedIsOfBatch ==
  ASSUME IInv, NEW from \in Nodes, NEW to \in Nodes, NEW tx \in AllTxs, RelayTx(from, to, tx)
  PROVE  /\ pc \notin {"join_height", "snapshot"}
         /\ BatchIsOut => tx \in Batch(iter)
BY DEF IInv, RelayTx, OldTxsAreEverywhere, BatchIsOut

\* Relaying a transaction preserves the invariant: it adds a receipt that was
\* not there before, of a transaction of this batch.
LEMMA RelayTxInv ==
  ASSUME IInv, NEW from \in Nodes, NEW to \in Nodes, NEW tx \in AllTxs, RelayTx(from, to, tx),
         TypeOK'
  PROVE  IInv'
<1> USE DEF RelayTx, threadVars, measureVars, batchVars
<1>1. /\ TypeOK
      /\ \A n \in Nodes : mempool'[n] = IF n = to THEN mempool[to] \cup {tx} ELSE mempool[n]
      /\ \A n \in Nodes : gained'[n] = IF n = from THEN gained[from] \cup {<<to, tx>>} ELSE gained[n]
      /\ tx \in mempool[from] /\ tx \notin mempool[to]
  BY DEF IInv, TypeOK
<1>2. OneChain' /\ ThreadsOfThePhase' /\ MarkerGoesFirst' /\ StampsOfThisMarker' /\ NoForeignTraffic'
  BY DEF IInv, OneChain, ThreadsOfThePhase, MarkerGoesFirst, StampsOfThisMarker, NoForeignTraffic, BatchIsOut
<1>3. ReadPoolsBound'
  BY <1>1 DEF IInv, ReadPoolsBound
<1>4. OldTxsAreEverywhere'
  BY <1>1, RelayedIsOfBatch DEF IInv, OldTxsAreEverywhere, BatchIsOut
<1>5. OnlyThisBatchIsGained'
  <2>1. pc # "snapshot" /\ (BatchIsOut => tx \in Batch(iter))
    BY RelayedIsOfBatch
  <2>2. BatchIsOut => \A n \in Nodes : \A r \in gained'[n] : r[2] \in Batch(iter)
    BY <1>1, <2>1 DEF IInv, OnlyThisBatchIsGained
  <2>3. QED
    BY <2>1, <2>2 DEF IInv, OnlyThisBatchIsGained, BatchIsOut
<1>6. LossesAreOnRecord'
  <2>1. pc # "snapshot"
    BY RelayedIsOfBatch
  <2>2. BatchIsOut /\ stale = {} => tx \in Broadcast
    BY <1>1 DEF IInv, LossesAreOnRecord
  <2>3. QED
    BY <1>1, <2>1, <2>2 DEF IInv, LossesAreOnRecord, BatchIsOut, Broadcast
<1>7. HeardOnce'
  <2> SUFFICES ASSUME BatchIsOut, stale = {}
               PROVE  HeardOnce'
    BY DEF HeardOnce, BatchIsOut
  <2>1. /\ \A n \in Nodes : \A r \in gained[n] : r[2] \in mempool[r[1]] /\ r \in Nodes \X AllTxs
        /\ \A m, n \in Nodes : gained[m] \cap gained[n] # {} => m = n
    BY <1>1 DEF IInv, HeardOnce, TypeOK
  <2>2. \A n \in Nodes : <<to, tx>> \notin gained[n]
    BY <1>1, <2>1
  <2>3. \A n \in Nodes : \A r \in gained'[n] : r[2] \in mempool'[r[1]]
    BY <1>1, <2>1
  <2>4. \A m, n \in Nodes : gained'[m] \cap gained'[n] # {} => m = n
    BY <1>1, <2>1, <2>2
  <2>5. ASSUME NEW t \in Broadcast
        PROVE  \E o \in Nodes :
                 /\ t \in mempool'[o]
                 /\ \A n \in Nodes : t \in mempool'[n] =>
                      (n = o <=> \A m \in Nodes : <<n, t>> \notin gained'[m])
    <3>1. PICK o \in Nodes :
            /\ t \in mempool[o]
            /\ \A n \in Nodes : t \in mempool[n] =>
                 (n = o <=> \A m \in Nodes : <<n, t>> \notin gained[m])
      BY DEF IInv, HeardOnce
    <3>2. QED
      BY <1>1, <2>2, <3>1
  <2>6. QED
    BY <2>3, <2>4, <2>5 DEF HeardOnce, Broadcast
<1>8. CountedIsGained'
  <2>1. ASSUME pc \in {"measure", "join_stamps"}, stale = {}, flagged = {}, died = {}
        PROVE  FALSE
    <3>1. BatchIsOut /\ Batch(iter) \subseteq mempool[to]
      BY <2>1 DEF IInv, LossesAreOnRecord, BatchIsOut
    <3>2. QED
      BY <1>1, <3>1, RelayedIsOfBatch
  <2>2. QED
    BY <2>1 DEF CountedIsGained
<1>9. QED
  BY <1>2, <1>3, <1>4, <1>5, <1>6, <1>7, <1>8 DEF IInv

\* Connecting a block happens only between mining and sync_blocks, where
\* nothing is said of the mempools.
LEMMA RelayBlockInv ==
  ASSUME IInv, NEW from \in Nodes, NEW to \in Nodes, RelayBlock(from, to), TypeOK'
  PROVE  IInv'
<1> USE DEF RelayBlock, threadVars, measureVars, batchVars
<1>1. \A n \in Nodes : tip[n] \in Nat /\ tip[n] <= tip[0]
  BY DEF IInv, TypeOK, OneChain
<1>2. tip[from] # tip[to]
  BY <1>1
<1>3. pc \in {"sync_blocks", "aborted"} /\ ~BatchIsOut
  BY <1>2, NodeFacts DEF IInv, OneChain, BatchIsOut
<1>4. OneChain'
  <2>1. \A n \in Nodes : tip'[n] = IF n = to THEN tip[to] + 1 ELSE tip[n]
    BY DEF IInv, TypeOK
  <2>2. to # 0
    BY <1>1
  <2>3. tip'[0] = tip[0] /\ tip[to] + 1 <= tip[0]
    BY <1>1, <2>1, <2>2, NodeFacts
  <2>4. QED
    BY <1>1, <1>3, <2>1, <2>3 DEF IInv, OneChain
<1>5. ThreadsOfThePhase' /\ MarkerGoesFirst' /\ StampsOfThisMarker' /\ NoForeignTraffic'
  BY <1>3 DEF IInv, ThreadsOfThePhase, MarkerGoesFirst, StampsOfThisMarker, NoForeignTraffic, BatchIsOut
<1>6. /\ ReadPoolsBound' /\ OldTxsAreEverywhere' /\ OnlyThisBatchIsGained' /\ LossesAreOnRecord'
      /\ HeardOnce' /\ CountedIsGained'
  BY <1>3 DEF IInv, ReadPoolsBound, OldTxsAreEverywhere, OnlyThisBatchIsGained, LossesAreOnRecord,
              HeardOnce, CountedIsGained, BatchIsOut
<1>7. QED
  BY <1>4, <1>5, <1>6 DEF IInv

-----------------------------------------------------------------------------
(* mine_blocks *)

\* Mining preserves the invariant.
LEMMA MineBlockInv ==
  ASSUME IInv, MineBlock, TypeOK'
  PROVE  IInv'
<1> USE DEF MineBlock, threadVars, measureVars, batchVars
<1>1. /\ pc = "mine" /\ pc' = "sync_blocks"
      /\ \A n \in Nodes : tip[n] = tip[0] /\ tip[n] \in Nat
      /\ \A n \in Nodes : tip'[n] = IF n = 0 THEN tip[0] + 1 ELSE tip[n]
      /\ Len(block) = tip[0]
  BY DEF IInv, TypeOK, OneChain
<1>2. OneChain'
  <2>1. Len(block') = tip[0] + 1
    BY <1>1 DEF IInv, TypeOK
  <2>2. QED
    BY <1>1, <2>1, NodeFacts DEF OneChain
<1>3. ThreadsOfThePhase' /\ MarkerGoesFirst' /\ StampsOfThisMarker' /\ NoForeignTraffic'
  BY <1>1 DEF IInv, ThreadsOfThePhase, MarkerGoesFirst, StampsOfThisMarker, NoForeignTraffic, BatchIsOut
<1>4. /\ ReadPoolsBound' /\ OldTxsAreEverywhere' /\ OnlyThisBatchIsGained' /\ LossesAreOnRecord'
      /\ HeardOnce' /\ CountedIsGained'
  BY <1>1 DEF IInv, ReadPoolsBound, OldTxsAreEverywhere, OnlyThisBatchIsGained, LossesAreOnRecord,
              HeardOnce, CountedIsGained, BatchIsOut
<1>5. QED
  BY <1>2, <1>3, <1>4 DEF IInv

\* sync_blocks preserves the invariant: it lets the run on when the chain is one.
LEMMA SyncBlocksInv ==
  ASSUME IInv, SyncBlocks, TypeOK'
  PROVE  IInv'
<1> USE DEF SyncBlocks, nodeVars, threadVars, measureVars, batchVars
<1>1. pc = "sync_blocks" /\ pc' = "sync_mempools" /\ cursor' = 0
  OBVIOUS
<1>2. OneChain' /\ ThreadsOfThePhase' /\ MarkerGoesFirst' /\ StampsOfThisMarker' /\ NoForeignTraffic'
  BY <1>1 DEF IInv, OneChain, ThreadsOfThePhase, MarkerGoesFirst, StampsOfThisMarker,
              NoForeignTraffic, BatchIsOut
<1>3. ReadPoolsBound'
  BY <1>1, NodeFacts DEF ReadPoolsBound
<1>4. /\ OldTxsAreEverywhere' /\ OnlyThisBatchIsGained' /\ LossesAreOnRecord'
      /\ HeardOnce' /\ CountedIsGained'
  BY <1>1 DEF IInv, OldTxsAreEverywhere, OnlyThisBatchIsGained, LossesAreOnRecord,
              HeardOnce, CountedIsGained, BatchIsOut
<1>5. QED
  BY <1>2, <1>3, <1>4 DEF IInv

\* A read of sync_mempools preserves the invariant.
LEMMA ReadPoolInv ==
  ASSUME IInv, ReadPool, TypeOK'
  PROVE  IInv'
<1> USE DEF ReadPool, nodeVars, threadVars, measureVars, batchVars
<1>1. pc = "sync_mempools" /\ pc' = pc /\ cursor \in Nodes /\ cursor' = cursor + 1
  BY NodeFacts DEF IInv, TypeOK
<1>2. OneChain' /\ ThreadsOfThePhase' /\ MarkerGoesFirst' /\ StampsOfThisMarker' /\ NoForeignTraffic'
  BY <1>1 DEF IInv, OneChain, ThreadsOfThePhase, MarkerGoesFirst, StampsOfThisMarker,
              NoForeignTraffic, BatchIsOut
<1>3. ReadPoolsBound'
  <2>1. \A n \in Nodes : pools'[n] = IF n = cursor THEN mempool[n] ELSE pools[n]
    BY <1>1 DEF IInv, TypeOK
  <2>2. \A n \in Nodes : n < cursor + 1 <=> n < cursor \/ n = cursor
    BY <1>1, NodeFacts
  <2>3. QED
    BY <1>1, <2>1, <2>2 DEF IInv, ReadPoolsBound
<1>4. /\ OldTxsAreEverywhere' /\ OnlyThisBatchIsGained' /\ LossesAreOnRecord'
      /\ HeardOnce' /\ CountedIsGained'
  BY <1>1 DEF IInv, OldTxsAreEverywhere, OnlyThisBatchIsGained, LossesAreOnRecord,
              HeardOnce, CountedIsGained, BatchIsOut
<1>5. QED
  BY <1>2, <1>3, <1>4 DEF IInv

\* The comparison of sync_mempools preserves the invariant: if all that was read
\* is equal, then, late relays included, no node lacks what another one holds.
LEMMA ComparePoolsInv ==
  ASSUME IInv, ComparePools, TypeOK'
  PROVE  IInv'
<1> USE DEF ComparePools, StartThreads, nodeVars, threadVars, measureVars, batchVars
<1>1. pc = "sync_mempools" /\ pc' \in {"sync_mempools", "join_height"} /\ cursor = N /\ cursor' = 0
  OBVIOUS
<1>2. \A n \in Nodes : task'[n] = "height" => pc' = "join_height"
  BY DEF IInv, TypeOK, ThreadsOfThePhase
<1>3. \A n \in Nodes : task'[n] \notin {"mempool", "stamp"}
  BY <1>1 DEF IInv, TypeOK, ThreadsOfThePhase
<1>4. ThreadsOfThePhase'
  BY <1>2, <1>3, NodeFacts DEF ThreadsOfThePhase
<1>5. OneChain' /\ MarkerGoesFirst' /\ StampsOfThisMarker' /\ NoForeignTraffic'
  BY <1>1 DEF IInv, OneChain, MarkerGoesFirst, StampsOfThisMarker, NoForeignTraffic, BatchIsOut
<1>6. ReadPoolsBound'
  BY <1>1, NodeFacts DEF ReadPoolsBound
<1>7. OldTxsAreEverywhere'
  <2>1. ASSUME pc' = "join_height", NEW m \in Nodes, NEW n \in Nodes
        PROVE  mempool'[m] \subseteq mempool'[n]
    <3>1. \A k \in Nodes : k < N
      BY NodeFacts
    <3>2. pools[n] = pools[0] /\ \A k \in Nodes : pools[k] = pools[0]
      BY <1>1, <2>1
    <3>3. pools[n] \subseteq mempool[n]
      BY <1>1, <3>1 DEF IInv, ReadPoolsBound
    <3>4. \A t \in mempool[m] : t \in pools[0]
      BY <1>1, <3>1, <3>2 DEF IInv, ReadPoolsBound
    <3>5. QED
      BY <3>2, <3>3, <3>4
  <2>2. QED
    BY <1>1, <2>1 DEF OldTxsAreEverywhere, BatchIsOut
<1>8. OnlyThisBatchIsGained' /\ LossesAreOnRecord' /\ HeardOnce' /\ CountedIsGained'
  BY <1>1 DEF IInv, OnlyThisBatchIsGained, LossesAreOnRecord, HeardOnce, CountedIsGained, BatchIsOut
<1>9. QED
  BY <1>4, <1>5, <1>6, <1>7, <1>8 DEF IInv

\* The join of the height threads preserves the invariant.
LEMMA JoinHeightInv ==
  ASSUME IInv, JoinHeight, TypeOK'
  PROVE  IInv'
<1> USE DEF JoinHeight, nodeVars, threadVars, measureVars
<1>1. pc = "join_height" /\ pc' \in {"aborted", "snapshot"} /\ cursor' = 0
  OBVIOUS
<1>2. OneChain' /\ MarkerGoesFirst' /\ StampsOfThisMarker' /\ NoForeignTraffic' /\ ReadPoolsBound'
  BY <1>1 DEF IInv, OneChain, MarkerGoesFirst, StampsOfThisMarker, NoForeignTraffic,
              ReadPoolsBound, BatchIsOut
<1>3. ThreadsOfThePhase'
  BY <1>1, NodeFacts DEF ThreadsOfThePhase, AllIdle
<1>4. OldTxsAreEverywhere' /\ HeardOnce' /\ CountedIsGained'
  BY <1>1 DEF IInv, OldTxsAreEverywhere, HeardOnce, CountedIsGained, BatchIsOut
<1>5. OnlyThisBatchIsGained'
  BY <1>1, NodeFacts DEF IInv, OnlyThisBatchIsGained, BatchIsOut
<1>6. LossesAreOnRecord'
  BY <1>1 DEF IInv, LossesAreOnRecord, BatchIsOut
<1>7. QED
  BY <1>2, <1>3, <1>4, <1>5, <1>6 DEF IInv

-----------------------------------------------------------------------------
(* Snapshot and broadcast *)

\* A read of the first snapshot preserves the invariant.
LEMMA InitialSnapshotInv ==
  ASSUME IInv, InitialSnapshot, TypeOK'
  PROVE  IInv'
<1> USE DEF InitialSnapshot, threadVars, measureVars, batchVars
<1>1. pc = "snapshot" /\ pc' = pc /\ cursor \in Nodes /\ cursor' = cursor + 1
  BY NodeFacts DEF IInv, TypeOK
<1>2. OneChain' /\ ThreadsOfThePhase' /\ MarkerGoesFirst' /\ StampsOfThisMarker' /\ NoForeignTraffic'
  BY <1>1 DEF IInv, OneChain, ThreadsOfThePhase, MarkerGoesFirst, StampsOfThisMarker,
              NoForeignTraffic, BatchIsOut
<1>3. OnlyThisBatchIsGained'
  <2>1. \A n \in Nodes : gained'[n] = IF n = cursor THEN {} ELSE gained[n]
    BY <1>1 DEF IInv, TypeOK
  <2>2. \A n \in Nodes : n < cursor + 1 <=> n < cursor \/ n = cursor
    BY <1>1, NodeFacts
  <2>3. QED
    BY <1>1, <2>1, <2>2 DEF IInv, OnlyThisBatchIsGained, BatchIsOut
<1>4. ReadPoolsBound' /\ OldTxsAreEverywhere' /\ LossesAreOnRecord' /\ HeardOnce' /\ CountedIsGained'
  BY <1>1 DEF IInv, ReadPoolsBound, OldTxsAreEverywhere, LossesAreOnRecord, HeardOnce,
              CountedIsGained, BatchIsOut
<1>5. QED
  BY <1>2, <1>3, <1>4 DEF IInv

\* create_txs preserves the invariant.
LEMMA CreateTxsInv ==
  ASSUME IInv, CreateTxs, TypeOK'
  PROVE  IInv'
<1> USE DEF CreateTxs, nodeVars, threadVars, measureVars
<1>1. pc = "snapshot" /\ pc' = "broadcast" /\ cursor = N /\ cursor' = 0 /\ iter' = iter
  OBVIOUS
<1>2. /\ Len(txs') = TxCount /\ marker' = <<iter, TxCount>>
      /\ \A k \in 1 .. TxCount : txs'[k] = <<iter, k>>
  BY ConstantsAssumption
<1>3. OneChain' /\ ThreadsOfThePhase' /\ NoForeignTraffic' /\ ReadPoolsBound' /\ CountedIsGained'
  BY <1>1 DEF IInv, OneChain, ThreadsOfThePhase, NoForeignTraffic, ReadPoolsBound, CountedIsGained,
              OnlyThisBatchIsGained
<1>4. MarkerGoesFirst'
  BY <1>1, <1>2, NodeFacts, ConstantsAssumption DEF MarkerGoesFirst, BatchIsOut
<1>5. StampsOfThisMarker'
  BY <1>1 DEF IInv, StampsOfThisMarker
<1>6. OldTxsAreEverywhere'
  BY <1>1 DEF IInv, OldTxsAreEverywhere
<1>7. \A n \in Nodes : gained[n] = {}
  BY <1>1, NodeFacts DEF IInv, OnlyThisBatchIsGained
<1>8. OnlyThisBatchIsGained'
  BY <1>1, <1>7 DEF IInv, OnlyThisBatchIsGained
<1>9. Broadcast' = {}
  BY <1>1, <1>2, ConstantsAssumption DEF Broadcast
<1>10. LossesAreOnRecord'
  BY <1>1, <1>9 DEF IInv, LossesAreOnRecord
<1>11. HeardOnce'
  BY <1>1, <1>7, <1>9 DEF HeardOnce
<1>12. QED
  BY <1>3, <1>4, <1>5, <1>6, <1>8, <1>10, <1>11 DEF IInv

\* broadcast_txs preserves the invariant: the transaction it sends has not been
\* sent, and nobody holds it but its source.
LEMMA BroadcastTxInv ==
  ASSUME IInv, BroadcastTx, TypeOK'
  PROVE  IInv'
<1> DEFINE tx == txs[Len(txs)]
<1> USE DEF threadVars, measureVars, batchVars
<1>1. /\ pc = "broadcast" /\ pc' = pc /\ iter' = iter /\ BatchIsOut /\ stale' = stale
      /\ cursor \in Nodes /\ cursor' = (cursor + 1) % N
      /\ marker = <<iter, TxCount>> /\ marker' = marker
  BY DEF IInv, BroadcastTx, MarkerGoesFirst, BatchIsOut
<1>2. /\ Len(txs) \in Nat /\ Len(txs) > 0 /\ Len(txs) <= TxCount
      /\ tx = <<iter, Len(txs)>>
      /\ Len(txs') = Len(txs) - 1 /\ \A k \in 1 .. Len(txs') : txs'[k] = txs[k]
  <2>1. txs \in Seq(AllTxs) /\ txs # <<>> /\ txs' = SubSeq(txs, 1, Len(txs) - 1)
    BY DEF IInv, TypeOK, BroadcastTx
  <2>2. Len(txs) <= TxCount /\ \A k \in 1 .. Len(txs) : txs[k] = <<iter, k>>
    BY <1>1 DEF IInv, MarkerGoesFirst
  <2>3. Len(txs) \in Nat /\ Len(txs) > 0
    BY <2>1
  <2>4. Len(txs') = Len(txs) - 1 /\ \A k \in 1 .. Len(txs') : txs'[k] = txs[k]
    <3>1. \A i \in 1 .. Len(txs) - 1 : txs[i] \in AllTxs
      BY <2>1, <2>3
    <3>2. 1 \in Int /\ Len(txs) - 1 \in Int
      BY <2>3
    <3>3. /\ Len(txs') = IF 1 <= Len(txs) - 1 THEN Len(txs) - 1 - 1 + 1 ELSE 0
          /\ \A i \in 1 .. Len(txs) - 1 - 1 + 1 : txs'[i] = txs[1 + i - 1]
      BY <2>1, <3>1, <3>2, SubSeqProperties
    <3>4. Len(txs') = Len(txs) - 1
      <4>1. \A a \in Nat : a > 0 => (IF 1 <= a - 1 THEN a - 1 - 1 + 1 ELSE 0) = a - 1
        OBVIOUS
      <4>2. QED
        BY <2>3, <3>3, <4>1
    <3>5. \A i \in 1 .. Len(txs) - 1 : txs'[i] = txs[i]
      BY <2>1, <2>3, <3>3
    <3>6. QED
      BY <3>4, <3>5
  <2>5. QED
    BY <2>2, <2>3, <2>4
<1>3. /\ Broadcast' = Broadcast \cup {tx} /\ tx \notin Broadcast /\ tx \in Batch(iter)
      /\ Broadcast \subseteq Batch(iter)
  BY <1>1, <1>2, ConstantsAssumption DEF Broadcast, Batch
<1>4. \A n \in Nodes : mempool'[n] = IF n = cursor THEN mempool[n] \cup {tx} ELSE mempool[n]
  BY <1>1 DEF IInv, TypeOK, BroadcastTx
<1> HIDE DEF tx
<1>5. OneChain' /\ ThreadsOfThePhase' /\ NoForeignTraffic' /\ ReadPoolsBound' /\ CountedIsGained'
  BY <1>1 DEF IInv, OneChain, ThreadsOfThePhase, NoForeignTraffic, ReadPoolsBound, CountedIsGained,
              BroadcastTx
<1>6. MarkerGoesFirst'
  <2>1. \A k \in 1 .. Len(txs') : txs'[k] = <<iter', k>>
    BY <1>1, <1>2 DEF IInv, MarkerGoesFirst
  <2>2. markerSource' = 0
    <3>1. markerSource' = IF tx = marker THEN cursor ELSE markerSource
      BY DEF BroadcastTx, tx
    <3>2. CASE Len(txs) = TxCount
      BY <1>1, <1>2, <3>1, <3>2 DEF IInv, MarkerGoesFirst
    <3>3. CASE Len(txs) < TxCount
      <4>1. tx # marker
        BY <1>1, <1>2, <3>3
      <4>2. QED
        BY <1>1, <3>1, <3>3, <4>1 DEF IInv, MarkerGoesFirst
    <3>4. QED
      BY <1>2, <3>2, <3>3, ConstantsAssumption
  <2>3. cursor' \in Nodes
    BY <1>1, NextNode
  <2>4. Len(txs') < TxCount
    BY <1>2, ConstantsAssumption
  <2>5. QED
    BY <1>1, <2>1, <2>2, <2>3, <2>4, ConstantsAssumption DEF MarkerGoesFirst
<1>7. OldTxsAreEverywhere' /\ OnlyThisBatchIsGained' /\ StampsOfThisMarker'
  <2>1. \A m, n \in Nodes : mempool'[m] \ Batch(iter) \subseteq mempool'[n]
    <3>1. \A m, n \in Nodes : mempool[m] \ Batch(iter) \subseteq mempool[n]
      BY <1>1 DEF IInv, OldTxsAreEverywhere
    <3>2. \A n \in Nodes : mempool[n] \subseteq mempool'[n] /\ mempool'[n] \subseteq mempool[n] \cup {tx}
      BY <1>4
    <3>3. QED
      BY <1>3, <3>1, <3>2
  <2>2. QED
    BY <1>1, <2>1 DEF IInv, OldTxsAreEverywhere, OnlyThisBatchIsGained, StampsOfThisMarker,
                      BatchIsOut, BroadcastTx
<1>8. LossesAreOnRecord'
  <2>1. stale = {} => \A n \in Nodes : mempool'[n] \subseteq Broadcast'
    BY <1>1, <1>3, <1>4 DEF IInv, LossesAreOnRecord
  <2>2. QED
    BY <1>1, <2>1 DEF IInv, LossesAreOnRecord, BroadcastTx
<1>9. HeardOnce'
  <2> SUFFICES ASSUME stale = {}
               PROVE  HeardOnce'
    BY <1>1 DEF HeardOnce
  <2>1. gained' = gained /\ \A n \in Nodes : gained[n] \subseteq Nodes \X AllTxs
    BY DEF IInv, TypeOK, BroadcastTx
  <2>2. \A n \in Nodes : mempool[n] \subseteq Broadcast
    BY <1>1 DEF IInv, LossesAreOnRecord
  <2>3. \A n \in Nodes : \A r \in gained[n] : r[2] \in mempool[r[1]] /\ r[1] \in Nodes
    BY <1>1, <2>1 DEF IInv, HeardOnce
  <2>4. \A n \in Nodes : \A r \in gained'[n] : r[2] \in mempool'[r[1]]
    BY <1>4, <2>1, <2>3
  <2>5. \A m, n \in Nodes : gained'[m] \cap gained'[n] # {} => m = n
    BY <1>1, <2>1 DEF IInv, HeardOnce
  <2>6. ASSUME NEW t \in Broadcast'
        PROVE  \E o \in Nodes :
                 /\ t \in mempool'[o]
                 /\ \A n \in Nodes : t \in mempool'[n] =>
                      (n = o <=> \A m \in Nodes : <<n, t>> \notin gained'[m])
    <3>1. CASE t = tx
      <4>1. \A n \in Nodes : tx \notin mempool[n]
        BY <1>3, <2>2
      <4>2. \A n \in Nodes : tx \in mempool'[n] <=> n = cursor
        BY <1>4, <4>1
      <4>3. \A m \in Nodes : <<cursor, tx>> \notin gained'[m]
        BY <1>1, <2>1, <2>3, <4>1
      <4>4. QED
        BY <1>1, <3>1, <4>2, <4>3
    <3>2. CASE t # tx
      <4>1. t \in Broadcast
        BY <1>3, <3>2
      <4>2. PICK o \in Nodes :
              /\ t \in mempool[o]
              /\ \A n \in Nodes : t \in mempool[n] =>
                   (n = o <=> \A m \in Nodes : <<n, t>> \notin gained[m])
        BY <1>1, <4>1 DEF IInv, HeardOnce
      <4>3. \A n \in Nodes : t \in mempool'[n] <=> t \in mempool[n]
        BY <1>4, <3>2
      <4>4. QED
        BY <2>1, <4>2, <4>3
    <3>3. QED
      BY <3>1, <3>2
  <2>7. QED
    BY <2>4, <2>5, <2>6 DEF HeardOnce
<1>10. QED
  BY <1>5, <1>6, <1>7, <1>8, <1>9 DEF IInv

\* The start of monitor_mempool preserves the invariant.
LEMMA StartMonitorsInv ==
  ASSUME IInv, StartMonitors, TypeOK'
  PROVE  IInv'
<1> USE DEF StartMonitors, StartThreads, nodeVars, measureVars, batchVars
<1>1. pc = "broadcast" /\ pc' = "join_mempool" /\ txs = <<>> /\ BatchIsOut /\ BatchIsOut'
  BY DEF BatchIsOut
<1>2. OneChain' /\ ThreadsOfThePhase' /\ NoForeignTraffic' /\ ReadPoolsBound' /\ CountedIsGained'
  BY <1>1, NodeFacts DEF IInv, OneChain, ThreadsOfThePhase, NoForeignTraffic, ReadPoolsBound,
                         CountedIsGained
<1>3. MarkerGoesFirst' /\ OldTxsAreEverywhere' /\ OnlyThisBatchIsGained' /\ StampsOfThisMarker'
  BY <1>1 DEF IInv, MarkerGoesFirst, OldTxsAreEverywhere, OnlyThisBatchIsGained, StampsOfThisMarker
<1>4. HeardOnce'
  BY <1>1 DEF IInv, HeardOnce, Broadcast
<1>5. LossesAreOnRecord'
  BY <1>1 DEF IInv, LossesAreOnRecord, Broadcast
<1>6. QED
  BY <1>2, <1>3, <1>4, <1>5 DEF IInv

-----------------------------------------------------------------------------
(* The helper threads *)

\* A batch has as many transactions as create_txs was asked for.
LEMMA BatchCount ==
  ASSUME iter \in 1 .. Iterations
  PROVE  IsFiniteSet(Batch(iter)) /\ Cardinality(Batch(iter)) = TxCount
<1>1. IsFiniteSet({iter}) /\ Cardinality({iter}) = 1
  BY FS_Singleton
<1>2. /\ TxCount \in Int /\ 1 \in Int /\ ~(1 > TxCount)
      /\ TxCount - 1 + 1 = TxCount /\ 1 * TxCount = TxCount
  BY ConstantsAssumption
<1>3. IsFiniteSet(1 .. TxCount) /\ Cardinality(1 .. TxCount) = TxCount
  BY <1>2, FS_Interval
<1>4. IsFiniteSet(Batch(iter)) /\ Cardinality(Batch(iter)) = 1 * TxCount
  BY <1>1, <1>3, FS_Product, ZenonT(30) DEF Batch
<1>5. QED
  BY <1>2, <1>4

\* A node that holds only transactions of the batch and enough of them holds
\* the whole batch.
LEMMA EnoughIsAll ==
  ASSUME iter \in 1 .. Iterations, NEW S \in SUBSET Batch(iter), Cardinality(S) >= TxCount
  PROVE  S = Batch(iter)
<1>1. /\ IsFiniteSet(S) /\ Cardinality(S) <= Cardinality(Batch(iter))
      /\ Cardinality(S) = Cardinality(Batch(iter)) => S = Batch(iter)
  BY BatchCount, FS_Subset
<1>2. Cardinality(S) \in Nat
  BY <1>1, FS_CardinalityType
<1>3. QED
  BY <1>1, <1>2, BatchCount, ConstantsAssumption

\* What a thread leaves alone when it ends.
LEMMA ThreadFrame ==
  ASSUME IInv, NEW n \in Nodes, TypeOK', task' = [task EXCEPT ![n] = "idle"],
         UNCHANGED <<nodeVars, batchVars, pc, iter, cursor, pools>>
  PROVE  /\ OneChain' /\ ThreadsOfThePhase' /\ ReadPoolsBound' /\ OldTxsAreEverywhere'
         /\ MarkerGoesFirst' /\ HeardOnce'
         /\ \A m \in Nodes : task'[m] = IF m = n THEN "idle" ELSE task[m]
<1> USE DEF nodeVars, batchVars
<1>1. \A m \in Nodes : task'[m] = IF m = n THEN "idle" ELSE task[m]
  BY DEF IInv, TypeOK
<1>2. ThreadsOfThePhase'
  BY <1>1, NodeFacts DEF IInv, ThreadsOfThePhase
<1>3. OneChain' /\ ReadPoolsBound' /\ OldTxsAreEverywhere' /\ MarkerGoesFirst' /\ HeardOnce'
  BY DEF IInv, OneChain, ReadPoolsBound, OldTxsAreEverywhere, MarkerGoesFirst, HeardOnce,
         BatchIsOut, Broadcast
<1>4. QED
  BY <1>1, <1>2, <1>3

\* check_block_height preserves the invariant.
LEMMA HeightPollInv ==
  ASSUME IInv, NEW n \in Nodes, HeightPoll(n), TypeOK'
  PROVE  IInv'
<1> USE DEF HeightPoll, EndThread, nodeVars, measureVars, batchVars
<1>1. pc = "join_height"
  BY DEF IInv, ThreadsOfThePhase
<1>2. /\ OneChain' /\ ThreadsOfThePhase' /\ ReadPoolsBound' /\ OldTxsAreEverywhere'
      /\ MarkerGoesFirst' /\ HeardOnce'
  BY ThreadFrame
<1>3. OnlyThisBatchIsGained' /\ NoForeignTraffic' /\ StampsOfThisMarker' /\ CountedIsGained'
  BY <1>1 DEF IInv, OnlyThisBatchIsGained, NoForeignTraffic, StampsOfThisMarker, CountedIsGained,
              BatchIsOut
<1>4. LossesAreOnRecord'
  BY <1>1 DEF IInv, LossesAreOnRecord, BatchIsOut
<1>5. QED
  BY <1>2, <1>3, <1>4 DEF IInv

\* A poll of a mempool thread that ends it leaves a node that has the batch, is
\* flagged, has an error or has lost its thread.
LEMMA MempoolThreadInv ==
  ASSUME IInv, NEW n \in Nodes, task[n] = "mempool", task' = [task EXCEPT ![n] = "idle"],
         UNCHANGED <<nodeVars, batchVars, measureVars, pc, iter, cursor, pools>>,
         errors \subseteq errors', flagged \subseteq flagged', died \subseteq died',
         died' = died \/ faults' > 0, faults' >= faults,
         \/ Cardinality(mempool[n]) >= TxCount
         \/ n \in errors' \/ n \in flagged' \/ n \in died',
         TypeOK'
  PROVE  IInv'
<1> USE DEF nodeVars, measureVars, batchVars
<1>1. pc = "join_mempool" /\ BatchIsOut
  BY DEF IInv, ThreadsOfThePhase, BatchIsOut
<1>2. /\ OneChain' /\ ThreadsOfThePhase' /\ ReadPoolsBound' /\ OldTxsAreEverywhere'
      /\ MarkerGoesFirst' /\ HeardOnce'
      /\ \A m \in Nodes : task'[m] = IF m = n THEN "idle" ELSE task[m]
  BY ThreadFrame
<1>3. OnlyThisBatchIsGained' /\ NoForeignTraffic' /\ StampsOfThisMarker' /\ CountedIsGained'
  BY <1>1 DEF IInv, OnlyThisBatchIsGained, NoForeignTraffic, StampsOfThisMarker, CountedIsGained,
              BatchIsOut
<1>4. LossesAreOnRecord'
  <2>1. died' # {} => faults' > 0
    BY DEF IInv, LossesAreOnRecord, TypeOK
  <2>2. ASSUME stale = {}
        PROVE  /\ \A m \in Nodes : mempool[m] \subseteq Broadcast
               /\ \A m \in Nodes \ (flagged' \cup died') :
                    \/ Batch(iter) \subseteq mempool[m]
                    \/ task'[m] = "mempool"
                    \/ m \in errors'
    <3>1. /\ \A m \in Nodes : mempool[m] \subseteq Broadcast
          /\ \A m \in Nodes \ (flagged \cup died) :
               \/ Batch(iter) \subseteq mempool[m]
               \/ task[m] = "mempool"
               \/ m \in errors
      BY <1>1, <2>2 DEF IInv, LossesAreOnRecord
    <3>2. Cardinality(mempool[n]) >= TxCount => Batch(iter) \subseteq mempool[n]
      <4>1. iter \in 1 .. Iterations /\ txs = <<>>
        BY <1>1 DEF IInv, TypeOK, MarkerGoesFirst
      <4>2. mempool[n] \subseteq Batch(iter)
        BY <3>1, <4>1 DEF Broadcast, Batch
      <4>3. QED
        BY <4>1, <4>2, EnoughIsAll
    <3>3. QED
      BY <1>2, <3>1, <3>2
  <2>3. QED
    BY <1>1, <2>1, <2>2 DEF LossesAreOnRecord, BatchIsOut, Broadcast
<1>5. QED
  BY <1>2, <1>3, <1>4 DEF IInv

\* A poll at one short of the target preserves the invariant.
LEMMA MempoolOneShortInv ==
  ASSUME IInv, NEW n \in Nodes, MempoolOneShort(n), TypeOK'
  PROVE  IInv'
<1>1. CASE UNCHANGED <<task, flagged>>
  <2> USE <1>1 DEF MempoolOneShort, nodeVars, measureVars, batchVars
  <2>1. /\ OneChain' /\ ThreadsOfThePhase' /\ ReadPoolsBound' /\ OldTxsAreEverywhere'
        /\ MarkerGoesFirst' /\ HeardOnce'
    BY DEF IInv, OneChain, ThreadsOfThePhase, ReadPoolsBound, OldTxsAreEverywhere, MarkerGoesFirst,
           HeardOnce, BatchIsOut, Broadcast
  <2>2. OnlyThisBatchIsGained' /\ NoForeignTraffic' /\ StampsOfThisMarker' /\ CountedIsGained'
    BY DEF IInv, OnlyThisBatchIsGained, NoForeignTraffic, StampsOfThisMarker, CountedIsGained,
           BatchIsOut
  <2>3. LossesAreOnRecord'
    BY DEF IInv, LossesAreOnRecord, BatchIsOut, Broadcast
  <2>4. QED
    BY <2>1, <2>2, <2>3 DEF IInv
<1>2. CASE EndThread(n) /\ flagged' = flagged \cup {n}
  <2>1. faults' >= faults
    BY DEF IInv, TypeOK, MempoolOneShort
  <2>2. QED
    BY <1>2, <2>1, MempoolThreadInv DEF MempoolOneShort, EndThread
<1>3. QED
  BY <1>1, <1>2 DEF MempoolOneShort

\* check_propagation_time preserves the invariant: a node that has the batch
\* has the time of the marker.
LEMMA StampPollInv ==
  ASSUME IInv, NEW n \in Nodes, StampPoll(n), TypeOK'
  PROVE  IInv'
<1> USE DEF StampPoll, EndThread, nodeVars, batchVars
<1>1. pc = "join_stamps" /\ BatchIsOut /\ n # 0
  BY DEF IInv, ThreadsOfThePhase, BatchIsOut
<1>2. /\ OneChain' /\ ThreadsOfThePhase' /\ ReadPoolsBound' /\ OldTxsAreEverywhere'
      /\ MarkerGoesFirst' /\ HeardOnce'
      /\ \A m \in Nodes : task'[m] = IF m = n THEN "idle" ELSE task[m]
  BY ThreadFrame
<1>3. OnlyThisBatchIsGained' /\ NoForeignTraffic' /\ CountedIsGained'
  BY <1>1 DEF IInv, OnlyThisBatchIsGained, NoForeignTraffic, CountedIsGained, BatchIsOut
<1>4. StampsOfThisMarker'
  <2>1. timestamps' \subseteq (Nodes \ {0}) \X {marker'}
    BY <1>1 DEF IInv, StampsOfThisMarker
  <2>2. \A m \in Nodes \ {0} : task'[m] = "stamp" \/ m \in errors' \/ <<m, marker'>> \in timestamps'
    BY <1>1, <1>2 DEF IInv, StampsOfThisMarker
  <2>3. QED
    BY <1>1, <2>1, <2>2 DEF StampsOfThisMarker
<1>5. LossesAreOnRecord'
  <2>1. ASSUME stale = {}, faults = 0
        PROVE  errors' \subseteq flagged
    <3>1. errors \subseteq flagged /\ died = {}
      BY <1>1, <2>1 DEF IInv, LossesAreOnRecord
    <3>2. n \in flagged \/ Batch(iter) \subseteq mempool[n]
      BY <1>1, <2>1, <3>1 DEF IInv, LossesAreOnRecord
    <3>3. marker \in Batch(iter) /\ markerSource = 0
      BY <1>1, ConstantsAssumption DEF IInv, MarkerGoesFirst, Batch
    <3>4. QED
      BY <1>1, <3>1, <3>2, <3>3
  <2>2. QED
    BY <1>1, <2>1 DEF IInv, LossesAreOnRecord, BatchIsOut, Broadcast
<1>6. QED
  BY <1>2, <1>3, <1>4, <1>5 DEF IInv

\* A thread that an RPC fault ends preserves the invariant.
LEMMA ThreadFailsInv ==
  ASSUME IInv, NEW n \in Nodes, ThreadFails(n), TypeOK'
  PROVE  IInv'
<1> USE DEF ThreadFails, EndThread, nodeVars, measureVars, batchVars
<1>1. faults' > 0 /\ faults' >= faults
  BY DEF IInv, TypeOK
<1>2. CASE task[n] = "mempool"
  BY <1>1, <1>2, MempoolThreadInv
<1>3. CASE task[n] # "mempool"
  <2>1. pc \in {"join_height", "join_stamps"} /\ died' = died
    BY <1>3 DEF IInv, TypeOK, ThreadsOfThePhase
  <2>2. /\ OneChain' /\ ThreadsOfThePhase' /\ ReadPoolsBound' /\ OldTxsAreEverywhere'
        /\ MarkerGoesFirst' /\ HeardOnce'
        /\ \A m \in Nodes : task'[m] = IF m = n THEN "idle" ELSE task[m]
    BY ThreadFrame
  <2>3. OnlyThisBatchIsGained' /\ NoForeignTraffic' /\ CountedIsGained'
    BY <2>1 DEF IInv, OnlyThisBatchIsGained, NoForeignTraffic, CountedIsGained, BatchIsOut
  <2>4. StampsOfThisMarker'
    <3>1. pc = "join_stamps" /\ n # 0 => n \in errors'
      BY DEF IInv, ThreadsOfThePhase, TypeOK
    <3>2. QED
      BY <2>2, <3>1 DEF IInv, StampsOfThisMarker
  <2>5. LossesAreOnRecord'
    BY <1>1, <2>1 DEF IInv, LossesAreOnRecord, BatchIsOut, Broadcast
  <2>6. QED
    BY <2>2, <2>3, <2>4, <2>5 DEF IInv
<1>4. QED
  BY <1>2, <1>3

\* The helper threads preserve the invariant.
LEMMA ThreadInv ==
  ASSUME IInv, NEW n \in Nodes, Thread(n), TypeOK'
  PROVE  IInv'
<1>1. faults' = faults => faults' >= faults
  BY DEF IInv, TypeOK
<1>2. CASE MempoolReached(n)
  BY <1>1, <1>2, MempoolThreadInv DEF MempoolReached, EndThread
<1>3. CASE MempoolTimeout(n)
  BY <1>1, <1>3, MempoolThreadInv DEF MempoolTimeout, EndThread
<1>4. QED
  BY <1>2, <1>3, HeightPollInv, MempoolOneShortInv, StampPollInv, ThreadFailsInv DEF Thread

-----------------------------------------------------------------------------
(* The joins, the second snapshot and the results *)

\* The join of monitor_mempool preserves the invariant.
LEMMA JoinMempoolInv ==
  ASSUME IInv, JoinMempool, TypeOK'
  PROVE  IInv'
<1> USE DEF JoinMempool, nodeVars, threadVars, measureVars, batchVars
<1>1. pc = "join_mempool" /\ pc' \in {"aborted", "measure"} /\ cursor' = 0 /\ BatchIsOut
  BY DEF BatchIsOut
<1>2. OneChain' /\ ThreadsOfThePhase' /\ NoForeignTraffic' /\ ReadPoolsBound'
  BY <1>1, NodeFacts DEF IInv, OneChain, ThreadsOfThePhase, NoForeignTraffic, ReadPoolsBound, AllIdle
<1>3. /\ MarkerGoesFirst' /\ OldTxsAreEverywhere' /\ OnlyThisBatchIsGained' /\ StampsOfThisMarker'
      /\ HeardOnce'
  BY <1>1 DEF IInv, MarkerGoesFirst, OldTxsAreEverywhere, OnlyThisBatchIsGained, StampsOfThisMarker,
              HeardOnce, BatchIsOut, Broadcast
<1>4. LossesAreOnRecord'
  <2>1. pc' = "measure" => errors = {} /\ \A n \in Nodes : task[n] # "mempool"
    BY <1>1 DEF AllIdle
  <2>2. QED
    BY <1>1, <2>1 DEF IInv, LossesAreOnRecord, BatchIsOut, Broadcast
<1>5. CountedIsGained'
  BY <1>1, NodeFacts DEF IInv, OnlyThisBatchIsGained, CountedIsGained
<1>6. QED
  BY <1>2, <1>3, <1>4, <1>5 DEF IInv

\* A read of the second snapshot preserves the invariant.
LEMMA FinalSnapshotInv ==
  ASSUME IInv, FinalSnapshot, TypeOK'
  PROVE  IInv'
<1> USE DEF FinalSnapshot, nodeVars, threadVars, batchVars
<1>1. pc = "measure" /\ pc' = pc /\ cursor \in Nodes /\ cursor' = cursor + 1 /\ BatchIsOut
  BY NodeFacts DEF IInv, TypeOK, BatchIsOut
<1>2. /\ OneChain' /\ ThreadsOfThePhase' /\ ReadPoolsBound' /\ MarkerGoesFirst'
      /\ OldTxsAreEverywhere' /\ StampsOfThisMarker' /\ HeardOnce'
  BY <1>1 DEF IInv, OneChain, ThreadsOfThePhase, ReadPoolsBound, MarkerGoesFirst,
              OldTxsAreEverywhere, StampsOfThisMarker, HeardOnce, BatchIsOut, Broadcast
<1>3. NoForeignTraffic'
  BY <1>1 DEF IInv, NoForeignTraffic, OnlyThisBatchIsGained
<1>4. OnlyThisBatchIsGained'
  BY <1>1 DEF IInv, OnlyThisBatchIsGained, BatchIsOut
<1>5. LossesAreOnRecord'
  BY <1>1 DEF IInv, LossesAreOnRecord, BatchIsOut, Broadcast
<1>6. CountedIsGained'
  <2>1. pc' = "measure" /\ UNCHANGED <<stale, flagged, died, gained>>
    BY <1>1
  <2> SUFFICES ASSUME stale = {}, flagged = {}, died = {}, NEW n \in Nodes, NEW r \in Nodes \X AllTxs
               PROVE  <<n, r>> \in counted' <=> r \in gained[n] /\ n < cursor'
    BY <2>1 DEF CountedIsGained
  <2>2. n < cursor' <=> n < cursor \/ n = cursor
    BY <1>1, NodeFacts
  <2>3. <<n, r>> \in counted' <=> <<n, r>> \in counted \/ (n = cursor /\ r \in gained[n])
    OBVIOUS
  <2>4. <<n, r>> \in counted <=> r \in gained[n] /\ n < cursor
    BY <1>1 DEF IInv, CountedIsGained
  <2>5. QED
    BY <2>2, <2>3, <2>4
<1>7. QED
  BY <1>2, <1>3, <1>4, <1>5, <1>6 DEF IInv

\* The start of the propagation threads preserves the invariant.
LEMMA StartStampsInv ==
  ASSUME IInv, StartStamps, TypeOK'
  PROVE  IInv'
<1> USE DEF StartStamps, StartThreads, nodeVars, measureVars, batchVars
<1>1. pc = "measure" /\ pc' = "join_stamps" /\ cursor = N /\ BatchIsOut
  BY DEF BatchIsOut
<1>2. OneChain' /\ ReadPoolsBound' /\ NoForeignTraffic' /\ MarkerGoesFirst' /\ OldTxsAreEverywhere'
      /\ OnlyThisBatchIsGained' /\ HeardOnce'
  BY <1>1 DEF IInv, OneChain, ReadPoolsBound, NoForeignTraffic, MarkerGoesFirst,
              OldTxsAreEverywhere, OnlyThisBatchIsGained, HeardOnce, BatchIsOut, Broadcast
<1>3. ThreadsOfThePhase'
  BY <1>1, NodeFacts DEF ThreadsOfThePhase
<1>4. StampsOfThisMarker'
  BY <1>1 DEF IInv, StampsOfThisMarker
<1>5. LossesAreOnRecord'
  BY <1>1 DEF IInv, LossesAreOnRecord, BatchIsOut, Broadcast
<1>6. CountedIsGained'
  BY <1>1, NodeFacts DEF IInv, CountedIsGained
<1>7. QED
  BY <1>2, <1>3, <1>4, <1>5, <1>6 DEF IInv

\* The results preserve the invariant, and start the next iteration clean.
LEMMA JoinStampsInv ==
  ASSUME IInv, JoinStamps, TypeOK'
  PROVE  IInv'
<1> USE DEF JoinStamps, nodeVars, threadVars, batchVars
<1>1. pc = "join_stamps" /\ pc' \in {"aborted", "mine", "reported"}
  OBVIOUS
<1>2. pc' = "aborted" => UNCHANGED <<iter, timestamps, counted>>
  BY DEF IInv, TypeOK
<1>3. pc' # "aborted" => timestamps' = {} /\ counted' = {}
  OBVIOUS
<1>4. OneChain' /\ ReadPoolsBound'
  BY <1>1 DEF IInv, OneChain, ReadPoolsBound
<1>5. ThreadsOfThePhase'
  BY <1>1, NodeFacts DEF ThreadsOfThePhase, AllIdle
<1>6. NoForeignTraffic' /\ StampsOfThisMarker' /\ OnlyThisBatchIsGained'
  BY <1>1, <1>2, <1>3 DEF IInv, NoForeignTraffic, StampsOfThisMarker, OnlyThisBatchIsGained, BatchIsOut
<1>7. MarkerGoesFirst' /\ OldTxsAreEverywhere' /\ HeardOnce' /\ CountedIsGained'
  BY <1>1 DEF MarkerGoesFirst, OldTxsAreEverywhere, HeardOnce, CountedIsGained, BatchIsOut
<1>8. LossesAreOnRecord'
  BY <1>1 DEF IInv, LossesAreOnRecord, BatchIsOut
<1>9. QED
  BY <1>4, <1>5, <1>6, <1>7, <1>8 DEF IInv

\* What ends the run in the main thread: no thread is running, and what is
\* said of the phases is over.
LEMMA AbortInv ==
  ASSUME IInv, pc' = "aborted", faults' >= faults, AllIdle, TypeOK',
         UNCHANGED <<nodeVars, threadVars, measureVars, batchVars, iter, cursor, pools>>
  PROVE  IInv'
<1> USE DEF nodeVars, threadVars, measureVars, batchVars
<1>1. OneChain' /\ NoForeignTraffic'
  BY DEF IInv, OneChain, NoForeignTraffic
<1>2. ThreadsOfThePhase'
  BY NodeFacts DEF ThreadsOfThePhase, AllIdle
<1>3. /\ ReadPoolsBound' /\ OldTxsAreEverywhere' /\ MarkerGoesFirst' /\ OnlyThisBatchIsGained'
      /\ StampsOfThisMarker' /\ HeardOnce' /\ CountedIsGained'
  BY DEF ReadPoolsBound, OldTxsAreEverywhere, MarkerGoesFirst, OnlyThisBatchIsGained,
         StampsOfThisMarker, HeardOnce, CountedIsGained, BatchIsOut
<1>4. LossesAreOnRecord'
  <2>1. died # {} => faults' > 0
    BY DEF IInv, LossesAreOnRecord, TypeOK
  <2>2. QED
    BY <2>1 DEF LossesAreOnRecord, BatchIsOut
<1>5. QED
  BY <1>1, <1>2, <1>3, <1>4 DEF IInv

\* An exception or a passed deadline in the main thread preserves the invariant.
LEMMA MainAborts ==
  ASSUME IInv, MainFails \/ SyncTimeout, TypeOK'
  PROVE  IInv'
<1>1. /\ pc \notin {"join_height", "join_mempool", "join_stamps"} /\ pc' = "aborted"
      /\ faults' = faults \/ faults' = faults + 1
      /\ UNCHANGED <<nodeVars, threadVars, measureVars, batchVars, iter, cursor, pools>>
  BY DEF MainFails, SyncTimeout, Abort
<1>2. AllIdle
  BY <1>1 DEF IInv, TypeOK, ThreadsOfThePhase, AllIdle
<1>3. faults' >= faults
  BY <1>1 DEF IInv, TypeOK
<1>4. QED
  BY <1>1, <1>2, <1>3, AbortInv

-----------------------------------------------------------------------------
(* The invariant *)

\* The invariant holds initially.
LEMMA InitInv == Init => IInv
<1> SUFFICES ASSUME Init PROVE IInv
  OBVIOUS
<1>1. TypeOK
  BY TypeInit
<1>2. OneChain /\ ThreadsOfThePhase /\ NoForeignTraffic
  BY NodeFacts DEF Init, OneChain, ThreadsOfThePhase, NoForeignTraffic, NoThreads
<1>3. /\ ReadPoolsBound /\ OldTxsAreEverywhere /\ MarkerGoesFirst /\ OnlyThisBatchIsGained
      /\ StampsOfThisMarker /\ LossesAreOnRecord /\ HeardOnce /\ CountedIsGained
  BY DEF Init, ReadPoolsBound, OldTxsAreEverywhere, MarkerGoesFirst, OnlyThisBatchIsGained,
         StampsOfThisMarker, LossesAreOnRecord, HeardOnce, CountedIsGained, BatchIsOut
<1>4. QED
  BY <1>1, <1>2, <1>3 DEF IInv

\* Every step preserves the invariant.
LEMMA NextInv == IInv /\ [Next]_vars => IInv'
<1> SUFFICES ASSUME IInv, [Next]_vars PROVE IInv'
  OBVIOUS
<1>1. TypeOK'
  BY TypeNext
<1>2. CASE UNCHANGED vars
  BY <1>1, <1>2 DEF IInv, OneChain, ThreadsOfThePhase, NoForeignTraffic, ReadPoolsBound,
       OldTxsAreEverywhere, MarkerGoesFirst, OnlyThisBatchIsGained, StampsOfThisMarker,
       LossesAreOnRecord, HeardOnce, CountedIsGained, BatchIsOut, Broadcast,
       vars, nodeVars, threadVars, measureVars, batchVars
<1>3. CASE Relay
  <2>1. \A link \in Links : link[1] \in Nodes /\ link[2] \in Nodes
    BY ConstantsAssumption
  <2>2. QED
    BY <1>1, <1>3, <2>1, RelayTxInv, RelayBlockInv DEF Relay
<1>4. CASE Main
  BY <1>1, <1>4, MineBlockInv, SyncBlocksInv, ReadPoolInv, ComparePoolsInv, JoinHeightInv,
     InitialSnapshotInv, CreateTxsInv, BroadcastTxInv, StartMonitorsInv, JoinMempoolInv,
     FinalSnapshotInv, StartStampsInv, JoinStampsInv, MainAborts DEF Main
<1>5. QED
  BY <1>1, <1>2, <1>3, <1>4, ThreadInv, MainAborts DEF Next

\* Every conjunct of the inductive invariant holds in every reachable state.
THEOREM InductiveInvariant == Spec => []IInv
BY InitInv, NextInv, PTL DEF Spec

-----------------------------------------------------------------------------
(* The properties *)

\* Every variable keeps its type, whatever the number of nodes, transactions
\* and iterations.
THEOREM TypeCorrect == Spec => []TypeOK
BY InductiveInvariant, PTL DEF IInv

\* The difference of the two snapshots of get_net_stats counts no relay of an
\* earlier batch, however late the nodes relay.
THEOREM MeasuresOnlyItsBatch == Spec => []NoForeignTraffic
BY InductiveInvariant, PTL DEF IInv

\* When the propagation time is asked for, the marker has been broadcast from
\* node 0, which is not asked: every node that is asked heard it from a peer.
THEOREM MarkerHeard == Spec => []MarkerIsHeardByRelay
<1>1. IInv => MarkerIsHeardByRelay
  <2> SUFFICES ASSUME IInv, Monitored PROVE markerSource = 0
    BY DEF MarkerIsHeardByRelay
  <2>1. BatchIsOut /\ txs = <<>>
    BY DEF IInv, Monitored, MarkerGoesFirst, BatchIsOut
  <2>2. QED
    BY <2>1, ConstantsAssumption DEF IInv, MarkerGoesFirst
<1>2. QED
  BY <1>1, InductiveInvariant, PTL

\* With no error reported, the times that check_propagation_time has collected
\* are one pair for each node but the miner, all of the marker of this batch.
THEOREM StampsAreFresh == Spec => []TimestampsAreFresh
<1>1. IInv => TimestampsAreFresh
  BY DEF IInv, TimestampsAreFresh, StampsOfThisMarker, AllIdle
<1>2. QED
  BY <1>1, InductiveInvariant, PTL

\* Without an RPC fault, a node that has no time for the marker was waved
\* through by check_mempool_txs, or something of an earlier batch was left.
THEOREM ErrorsAreLosses == Spec => []PropagationErrorsAreLosses
<1>1. IInv => PropagationErrorsAreLosses
  BY DEF IInv, PropagationErrorsAreLosses, LossesAreOnRecord
<1>2. QED
  BY <1>1, InductiveInvariant, PTL

\* What every node but the source receives: all pairs of a node and a
\* transaction but one for each transaction.
LEMMA ReceiptCount ==
  ASSUME NEW B, IsFiniteSet(B), NEW o \in [B -> Nodes]
  PROVE  LET R == {p \in Nodes \X B : p[1] # o[p[2]]}
         IN  IsFiniteSet(R) /\ Cardinality(R) = Cardinality(B) * (N - 1)
<1> DEFINE All == Nodes \X B
           Sent == {<<o[t], t>> : t \in B}
           R == {p \in Nodes \X B : p[1] # o[p[2]]}
           f == [t \in B |-> <<o[t], t>>]
<1>1. IsFiniteSet(Nodes) /\ Cardinality(Nodes) = N
  <2>1. 0 \in Int /\ N - 1 \in Int /\ ~(0 > N - 1) /\ N - 1 - 0 + 1 = N
    BY ConstantsAssumption
  <2>2. QED
    BY <2>1, FS_Interval DEF Nodes
<1>2. IsFiniteSet(All) /\ Cardinality(All) = N * Cardinality(B)
  BY <1>1, FS_Product
<1>3. IsFiniteSet(Sent) /\ Cardinality(Sent) = Cardinality(B)
  <2>1. f \in Bijection(B, Sent)
    BY DEF Bijection, Injection, Surjection, IsInjective
  <2>2. ExistsBijection(B, Sent)
    BY <2>1 DEF ExistsBijection
  <2>3. QED
    BY <2>2, FS_Bijection
<1>4. All \cap Sent = Sent /\ R = All \ Sent
  <2>1. Sent \subseteq All
    OBVIOUS
  <2>2. \A p \in All : p \in Sent <=> p[1] = o[p[2]]
    OBVIOUS
  <2>3. QED
    BY <2>1, <2>2
<1>5. IsFiniteSet(R) /\ Cardinality(R) = Cardinality(All) - Cardinality(Sent)
  <2>1. /\ IsFiniteSet(All \ Sent)
        /\ Cardinality(All \ Sent) = Cardinality(All) - Cardinality(All \cap Sent)
    BY <1>2, FS_Difference
  <2>2. QED
    BY <1>4, <2>1
<1>6. Cardinality(B) \in Nat
  BY FS_CardinalityType
<1>7. N * Cardinality(B) - Cardinality(B) = Cardinality(B) * (N - 1)
  BY <1>6, ConstantsAssumption
<1>8. QED
  BY <1>2, <1>3, <1>5, <1>7

\* With nothing left over, no node waved through and no thread lost, what the
\* two snapshots differ by is exact: every node but the source of a transaction
\* received it once, although the nodes are read one after the other.
THEOREM ExactMeasurement == Spec => []MeasurementIsExact
<1>1. ASSUME IInv, pc = "join_stamps", stale = {}, flagged = {}, died = {}
      PROVE  /\ {r[2][2] : r \in counted} = Batch(iter)
             /\ Cardinality(counted) = TxCount * (N - 1)
             /\ Cardinality({r[2] : r \in counted}) = TxCount * (N - 1)
  <2> DEFINE B == Batch(iter)
             Unheard(q, t) == \A m \in Nodes : <<q, t>> \notin gained[m]
             o == [t \in B |-> CHOOSE q \in Nodes : Unheard(q, t)]
             Received == {r[2] : r \in counted}
             R == {p \in Nodes \X B : p[1] # o[p[2]]}
  <2>1. /\ \A n \in Nodes : gained[n] \subseteq Nodes \X AllTxs
        /\ counted \subseteq Nodes \X (Nodes \X AllTxs)
        /\ iter \in 1 .. Iterations /\ BatchIsOut
    BY <1>1 DEF IInv, TypeOK, BatchIsOut
  <2>2. B \subseteq AllTxs /\ IsFiniteSet(B) /\ Cardinality(B) = TxCount /\ B # {}
    <3>1. B \subseteq AllTxs /\ 1 \in 1 .. TxCount
      BY <2>1, BatchFacts, ConstantsAssumption
    <3>2. <<iter, 1>> \in B
      BY <3>1 DEF Batch
    <3>3. QED
      BY <2>1, <3>1, <3>2, BatchCount
  <2>3. \A n \in Nodes : mempool[n] = B
    <3>1. B \subseteq Broadcast /\ Broadcast \subseteq B
      BY <1>1, <2>1 DEF IInv, MarkerGoesFirst, Broadcast, Batch
    <3>2. QED
      BY <1>1, <2>1, <3>1 DEF IInv, LossesAreOnRecord
  <2>4. /\ \A n \in Nodes : \A r \in gained[n] : r \in Nodes \X B
        /\ \A m, n \in Nodes : gained[m] \cap gained[n] # {} => m = n
    BY <1>1, <2>1 DEF IInv, OnlyThisBatchIsGained, HeardOnce
  <2>5. \A n \in Nodes, r \in Nodes \X AllTxs : <<n, r>> \in counted <=> r \in gained[n]
    BY <1>1 DEF IInv, CountedIsGained
  <2>6. \A t \in B : \E q \in Nodes : \A n \in Nodes : n = q <=> Unheard(n, t)
    <3>1. B \subseteq Broadcast
      BY <1>1, <2>1 DEF IInv, MarkerGoesFirst, Broadcast, Batch
    <3>2. QED
      BY <1>1, <2>1, <2>3, <3>1 DEF IInv, HeardOnce
  <2>7. /\ o \in [B -> Nodes]
        /\ \A t \in B, n \in Nodes : n = o[t] <=> Unheard(n, t)
    BY <2>6
  <2> HIDE DEF o, B
  <2>8. Received = R
    <3>1. \A p : p \in Received <=> \E n \in Nodes : p \in gained[n]
      <4>1. \A r \in counted : r[1] \in Nodes /\ r[2] \in gained[r[1]]
        BY <2>1, <2>5
      <4>2. \A n \in Nodes : \A p \in gained[n] : <<n, p>> \in counted /\ <<n, p>>[2] = p
        BY <2>1, <2>5
      <4>3. QED
        BY <4>1, <4>2
    <3>2. \A p \in Nodes \X B : (\E n \in Nodes : p \in gained[n]) <=> p[1] # o[p[2]]
      BY <2>7
    <3>3. QED
      BY <2>4, <3>1, <3>2
  <2>9. IsFiniteSet(Received) /\ Cardinality(Received) = TxCount * (N - 1)
    BY <2>2, <2>7, <2>8, ReceiptCount
  <2>10. Cardinality(counted) = Cardinality(Received)
    <3> DEFINE f == [p \in Received |-> <<CHOOSE n \in Nodes : p \in gained[n], p>>]
    <3>1. \A p \in Received : \E n \in Nodes : p \in gained[n] /\ f[p] = <<n, p>>
      <4>1. \A r \in counted : r[1] \in Nodes /\ r[2] \in gained[r[1]]
        BY <2>1, <2>5
      <4>2. \A p \in Received : \E n \in Nodes : p \in gained[n]
        BY <4>1
      <4>3. \A p \in Received : f[p] = <<CHOOSE n \in Nodes : p \in gained[n], p>>
        OBVIOUS
      <4> HIDE DEF Received, f
      <4>4. QED
        BY <4>2, <4>3
    <3>2. \A p \in Received : f[p] \in counted /\ f[p][2] = p
      BY <2>1, <2>5, <3>1
    <3>3. \A r \in counted : r[2] \in Received /\ f[r[2]] = r
      <4> SUFFICES ASSUME NEW r \in counted PROVE r[2] \in Received /\ f[r[2]] = r
        OBVIOUS
      <4>1. r[2] \in Received /\ r = <<r[1], r[2]>> /\ r[1] \in Nodes /\ r[2] \in gained[r[1]]
        BY <2>1, <2>5
      <4>2. PICK n \in Nodes : r[2] \in gained[n] /\ f[r[2]] = <<n, r[2]>>
        BY <3>1, <4>1
      <4>3. n = r[1]
        BY <2>4, <4>1, <4>2
      <4>4. QED
        BY <4>1, <4>2, <4>3
    <3> HIDE DEF f
    <3>4. f \in [Received -> counted]
      BY <3>2 DEF f
    <3>5. f \in Bijection(Received, counted)
      BY <3>2, <3>3, <3>4 DEF Bijection, Injection, Surjection, IsInjective
    <3>6. ExistsBijection(Received, counted)
      BY <3>5 DEF ExistsBijection
    <3>7. QED
      BY <2>9, <3>6, FS_Bijection
  <2>11. {r[2][2] : r \in counted} = B
    <3>1. \A t \in B : \E q \in Nodes : q # o[t]
      BY ConstantsAssumption, <2>7 DEF Nodes
    <3>2. \A t \in B : \E p \in Received : p[2] = t
      <4>1. \A t \in B, q \in Nodes : q # o[t] => <<q, t>> \in R /\ <<q, t>>[2] = t
        OBVIOUS
      <4>2. QED
        <5>1. \A t \in B, q \in Nodes : q # o[t] => <<q, t>> \in Received
          BY <2>8, <4>1
        <5> HIDE DEF Received
        <5>2. TAKE t \in B
        <5>3. PICK q \in Nodes : q # o[t]
          BY <3>1
        <5>4. <<q, t>> \in Received /\ <<q, t>>[2] = t
          BY <4>1, <5>1, <5>3
        <5>5. QED
          BY <5>4
    <3>3. \A p \in Received : p[2] \in B
      BY <2>8
    <3>4. QED
      BY <3>2, <3>3
  <2>12. QED
    BY <2>9, <2>10, <2>11 DEF B
<1>2. IInv => MeasurementIsExact
  BY <1>1 DEF MeasurementIsExact
<1>3. QED
  BY <1>2, InductiveInvariant, PTL
=============================================================================
