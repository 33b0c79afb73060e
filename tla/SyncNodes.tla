----------------------------- MODULE SyncNodes -----------------------------
(***************************************************************************)
(* test_framework.py's sync_blocks, sync_mempools and sync_all, with the   *)
(* calls around them: generate, split_network, join_network.  A sync asks  *)
(* the nodes of its list one after the other, while blocks and             *)
(* transactions travel between them, and returns when all answers of one   *)
(* round are the same.  The nodes form a chain, 0 - 1 - 2 - 3.             *)
(***************************************************************************)
EXTENDS Integers

CONSTANTS
  N,           \* number of nodes
  Half,        \* split_network cuts the link between Half - 1 and Half
  Txs,         \* transactions a script may send
  MaxHeight    \* bound on the blocks of a chain

ASSUME Parameters == N \in Nat /\ Half \in 1 .. N - 1 /\ MaxHeight \in Nat

Nodes == 0 .. N - 1

FirstHalf == 0 .. Half - 1
SecondHalf == Half .. N - 1

\* The lists scripts pass: self.nodes, self.nodes[:2], self.nodes[2:].
Lists == {Nodes, FirstHalf, SecondHalf}

VARIABLES
  tip,       \* per node: its best block, with the transactions of its chain
  pool,      \* per node: its mempool
  joined,    \* whether the two halves are linked
  pc,        \* "idle", "blocks", "mempools", "returned", "failed"
  call,      \* the helper called; "split_network" has a sync_all to go
  list,      \* rpc_connections
  polled,    \* the nodes that have answered in this round
  best_hash, \* per node: its last answer to getbestblockhash
  pools      \* per node: its last answer to getrawmempool

nodeVars == <<tip, pool, joined>>
vars == <<tip, pool, joined, pc, call, list, polled, best_hash, pools>>

Genesis == [height |-> 0, miner |-> 0, txs |-> {}]
Linked(m, n) ==
  /\ m - n \in {-1, 1}
  /\ joined \/ (m < Half <=> n < Half)

Init ==
  /\ tip = [n \in Nodes |-> Genesis]
  /\ pool = [n \in Nodes |-> {}]
  /\ joined = TRUE
  /\ pc = "idle" /\ call = "sync_all" /\ list = Nodes
  /\ polled = {}
  /\ best_hash = [n \in Nodes |-> Genesis] /\ pools = [n \in Nodes |-> {}]

-----------------------------------------------------------------------------
(* bitcoind: better chains and transactions spread over the links. *)

Adopt(m, n) ==
  /\ Linked(m, n) /\ tip[m].height > tip[n].height
  /\ tip' = [tip EXCEPT ![n] = tip[m]]
  /\ pool' = [pool EXCEPT ![n] = (@ \cup tip[n].txs) \ tip[m].txs]
  /\ UNCHANGED <<joined, pc, call, list, polled, best_hash, pools>>

Relay(m, n) ==
  \E t \in pool[m] :
    /\ Linked(m, n) /\ t \notin pool[n] \cup tip[n].txs
    /\ pool' = [pool EXCEPT ![n] = @ \cup {t}]
    /\ UNCHANGED <<tip, joined, pc, call, list, polled, best_hash, pools>>

-----------------------------------------------------------------------------
(* The script: one thread, which does nothing else while it syncs. *)

Ready == pc \in {"idle", "returned"}

NewRound ==
  /\ polled' = {}
  /\ best_hash' = [n \in Nodes |-> Genesis] /\ pools' = [n \in Nodes |-> {}]

\* The script does something that does not sync.
Idle ==
  /\ pc' = "idle" /\ call' = "sync_all" /\ list' = Nodes
  /\ NewRound

\* Faulty variant: sync_all waits for the mempools only.
SyncWithoutBlocks(c, nodes) ==
  /\ call' = c /\ list' = nodes
  /\ NewRound
  /\ pc' = IF c = "sync_blocks" THEN "blocks" ELSE "mempools"

Sync(c, nodes) ==
  /\ call' = c /\ list' = nodes
  /\ NewRound
  /\ pc' = IF c = "sync_mempools" THEN "mempools" ELSE "blocks"

Send(n, t) ==
  /\ Ready /\ t \notin pool[n] \cup tip[n].txs
  /\ pool' = [pool EXCEPT ![n] = @ \cup {t}]
  /\ Idle
  /\ UNCHANGED <<tip, joined>>

\* generate: the blocks, then sync_fun(): self.sync_all, a sync of one half, or
\* nothing.
Generate(n) ==
  /\ Ready /\ tip[n].height < MaxHeight
  /\ tip' = [tip EXCEPT ![n] = [height |-> @.height + 1, miner |-> n, txs |-> @.txs \cup pool[n]]]
  /\ pool' = [pool EXCEPT ![n] = {}]
  /\ UNCHANGED joined
  /\ Idle \/ \E nodes \in Lists : Sync("sync_all", nodes)

\* disconnect_nodes(1, 2), then a sync_all of each half.
SplitNetwork ==
  /\ Ready /\ joined /\ joined' = FALSE
  /\ Sync("split_network", FirstHalf)
  /\ UNCHANGED <<tip, pool>>

JoinNetwork ==
  /\ Ready /\ ~joined /\ joined' = TRUE
  /\ Sync("sync_all", Nodes)
  /\ UNCHANGED <<tip, pool>>

CallSync ==
  /\ Ready
  /\ \E c \in {"sync_blocks", "sync_mempools", "sync_all"}, nodes \in Lists : Sync(c, nodes)
  /\ UNCHANGED nodeVars

-----------------------------------------------------------------------------
(* A round of sync_blocks or sync_mempools. *)

IsNext(n) == n \in list \ polled /\ \A m \in list \ polled : n <= m

\* getbestblockhash
PollBlocks(n) ==
  /\ pc = "blocks" /\ IsNext(n)
  /\ best_hash' = [best_hash EXCEPT ![n] = tip[n]]
  /\ polled' = polled \cup {n}
  /\ UNCHANGED <<tip, pool, joined, pc, call, list, pools>>

\* getrawmempool
PollMempools(n) ==
  /\ pc = "mempools" /\ IsNext(n)
  /\ pools' = [pools EXCEPT ![n] = pool[n]]
  /\ polled' = polled \cup {n}
  /\ UNCHANGED <<tip, pool, joined, pc, call, list, best_hash>>

AllTheSame(answer) == \A m, n \in list : answer[m] = answer[n]

\* Faulty variant: the heights are compared.
BlocksHeightOnly ==
  /\ pc = "blocks" /\ polled = list
  /\ \A m, n \in list : best_hash[m].height = best_hash[n].height
  /\ NewRound
  /\ pc' = IF call = "sync_blocks" THEN "returned" ELSE "mempools"
  /\ UNCHANGED <<tip, pool, joined, call, list>>

\* best_hash.count(best_hash[0]) == len(rpc_connections): sync_blocks returns; in
\* sync_all, sync_mempools begins.
BlocksSame ==
  /\ pc = "blocks" /\ polled = list /\ AllTheSame(best_hash)
  /\ NewRound
  /\ pc' = IF call = "sync_blocks" THEN "returned" ELSE "mempools"
  /\ UNCHANGED <<tip, pool, joined, call, list>>

\* pool.count(pool[0]) == len(rpc_connections): sync_mempools returns, and
\* split_network goes on with the second half.
MempoolsSame ==
  /\ pc = "mempools" /\ polled = list /\ AllTheSame(pools)
  /\ \/ call = "split_network" /\ Sync("sync_all", SecondHalf)
     \/ /\ call # "split_network"
        /\ NewRound /\ pc' = "returned"
        /\ UNCHANGED <<call, list>>
  /\ UNCHANGED nodeVars

HasPeer(n) == \E m \in Nodes : Linked(m, n)

\* Faulty variant: the answers are taken once, before the loop.
AgainSameAnswers ==
  /\ polled = list
  /\ \/ pc = "blocks" /\ ~AllTheSame(best_hash)
     \/ pc = "mempools" /\ ~AllTheSame(pools)
  /\ pc' = IF \A n \in list : HasPeer(n) THEN pc ELSE "failed"
  /\ UNCHANGED <<tip, pool, joined, call, list, polled, best_hash, pools>>

\* "Check that each peer has at least one connection", then another round.
Again ==
  /\ polled = list
  /\ \/ pc = "blocks" /\ ~AllTheSame(best_hash)
     \/ pc = "mempools" /\ ~AllTheSame(pools)
  /\ NewRound
  /\ pc' = IF \A n \in list : HasPeer(n) THEN pc ELSE "failed"
  /\ UNCHANGED <<tip, pool, joined, call, list>>

\* stop_time has passed before a round.
TimesOut ==
  /\ pc \in {"blocks", "mempools"} /\ polled = {}
  /\ pc' = "failed"
  /\ UNCHANGED <<tip, pool, joined, call, list, polled, best_hash, pools>>

Round ==
  \/ \E n \in Nodes : PollBlocks(n) \/ PollMempools(n)
  \/ BlocksSame \/ MempoolsSame \/ Again

Script ==
  \/ \E n \in Nodes : Generate(n) \/ \E t \in Txs : Send(n, t)
  \/ SplitNetwork \/ JoinNetwork \/ CallSync
  \/ Round \/ TimesOut

Network == \E m, n \in Nodes : Adopt(m, n) \/ Relay(m, n)

Next == Script \/ Network

\* The polling thread runs on; a node with a better neighbour adopts its chain.
\* Transactions need not travel: nothing tells a new peer of the old ones.
Spec ==
  /\ Init /\ [][Next]_vars
  /\ WF_vars(Round)
  /\ \A m, n \in Nodes : WF_vars(Adopt(m, n))

-----------------------------------------------------------------------------
(* Properties *)

Tips == [height : 0 .. MaxHeight, miner : Nodes, txs : SUBSET Txs]

\* Every variable keeps the kind of value the code gives it; only nodes of the
\* list are asked.
TypeOK ==
  /\ tip \in [Nodes -> Tips] /\ pool \in [Nodes -> SUBSET Txs]
  /\ joined \in BOOLEAN
  /\ pc \in {"idle", "blocks", "mempools", "returned", "failed"}
  /\ call \in {"sync_blocks", "sync_mempools", "sync_all", "split_network"}
  /\ list \in Lists /\ polled \subseteq list
  /\ best_hash \in [Nodes -> Tips] /\ pools \in [Nodes -> SUBSET Txs]

\* No link leads out of the list.
Closed == \A m \in list, n \in Nodes \ list : ~Linked(m, n)

AgreeOn(f) == \A m, n \in list : f[m] = f[n]

\* "Wait until everybody has the same tip": when a sync of blocks ends, every
\* node of its list has the best of their tips, although no two of them were
\* asked at the same time.
TipsAgreeOnReturn ==
  Closed /\ pc \in {"mempools", "returned"} /\ call # "sync_mempools" => AgreeOn(tip)

\* When sync_all returns, the mempools of its list are the same: no answer was
\* stale, since sync_blocks has seen to it that no block is on its way.
MempoolsAgreeAfterSyncAll ==
  Closed /\ pc = "returned" /\ call = "sync_all" => AgreeOn(pool)

Best(n) == \A m \in list : tip[m].height <= tip[n].height

\* A sync of blocks ends, unless the nodes are on two best chains.
BlocksSettle ==
  (pc = "blocks" /\ Closed /\ \A m, n \in list : Best(m) /\ Best(n) => tip[m] = tip[n])
    ~> pc # "blocks"
=============================================================================
