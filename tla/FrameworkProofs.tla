-------------------------- MODULE FrameworkProofs --------------------------
(***************************************************************************)
(* The helpers of the test framework: syncs, node processes, the RPC proxy *)
(* and connect_nodes, for every number of nodes, threads, calls, peers and *)
(* moves.  Each helper has an inductive invariant of its own; a step of    *)
(* one helper leaves the others as they are.                               *)
(***************************************************************************)
EXTENDS MCFramework, FiniteSetTheorems, SequenceTheorems, TLAPS

-----------------------------------------------------------------------------
(* sync_blocks, sync_mempools, sync_all: the answers of a round are taken  *)
(* one by one; the invariant says how an answer that was taken earlier     *)
(* still bounds what the nodes hold now.                                   *)

\* What is best in the list is best at a node that has not been asked, or is
\* among the answers; no node falls behind its own answer.
AnswersBoundTips ==
  pc = "blocks" /\ Closed =>
    /\ \A n \in polled : best_hash[n] = tip[n] \/ best_hash[n].height < tip[n].height
    /\ \A n \in list : \E m \in list :
         IF m \in polled THEN best_hash[m].height >= tip[n].height
         ELSE tip[m].height >= tip[n].height

\* What is in a mempool of the list is in one that has not been read, or among
\* the answers; no mempool loses what it had.
AnswersBoundPools ==
  pc = "mempools" /\ Closed /\ call # "sync_mempools" =>
    /\ \A n \in polled : pools[n] \subseteq pool[n]
    /\ \A n \in list : \A t \in pool[n] : \E m \in list :
         IF m \in polled THEN t \in pools[m] ELSE t \in pool[m]

SyncInv ==
  /\ TypeOK
  /\ AnswersBoundTips
  /\ TipsAgreeOnReturn
  /\ AnswersBoundPools
  /\ MempoolsAgreeAfterSyncAll

-----------------------------------------------------------------------------
(* sync_blocks and sync_mempools: facts about the lists and the links *)

\* A link goes both ways.
LEMMA LinkedBothWays ==
  ASSUME NEW m \in Nodes, NEW n \in Nodes, Linked(m, n)
  PROVE  Linked(n, m)
BY Parameters DEF Linked, Nodes

\* A node of a closed list has its neighbours in it.
LEMMA NeighboursInList ==
  ASSUME TypeOK, Closed, NEW m \in Nodes, NEW n \in list, Linked(m, n)
  PROVE  m \in list
BY LinkedBothWays, Parameters DEF Closed, TypeOK, Lists, Nodes, FirstHalf, SecondHalf

\* A list is one of nodes.
LEMMA ListsOfNodes == \A l \in Lists : l \subseteq Nodes
BY Parameters DEF Lists, Nodes, FirstHalf, SecondHalf

\* Heights can be compared.
LEMMA TipsHaveHeights == \A b \in Tips : b.height \in Int
BY Parameters DEF Tips

-----------------------------------------------------------------------------
(* sync_blocks and sync_mempools: types *)

\* The types at the start.
LEMMA TypeInit == Init => TypeOK
<1> SUFFICES ASSUME Init PROVE TypeOK
  OBVIOUS
<1>1. 0 \in Nodes /\ Nodes \in Lists
  BY Parameters DEF Nodes, Lists
<1>2. Genesis \in Tips
  BY <1>1, Parameters DEF Genesis, Tips
<1>3. QED
  BY <1>1, <1>2 DEF Init, TypeOK

\* A call starts with no answers and a list of nodes.
LEMMA TypeOfCall ==
  ASSUME NEW c \in {"sync_blocks", "sync_mempools", "sync_all", "split_network"},
         NEW l \in Lists, Sync(c, l) \/ (Idle /\ c = "sync_all")
  PROVE  /\ pc' \in {"idle", "blocks", "mempools"}
         /\ call' \in {"sync_blocks", "sync_mempools", "sync_all", "split_network"}
         /\ list' \in Lists /\ polled' = {}
         /\ best_hash' \in [Nodes -> Tips] /\ pools' \in [Nodes -> SUBSET Txs]
<1>1. 0 \in Nodes /\ Nodes \in Lists
  BY Parameters DEF Nodes, Lists
<1>2. Genesis \in Tips
  BY <1>1, Parameters DEF Genesis, Tips
<1>3. QED
  BY <1>1, <1>2 DEF Sync, Idle, NewRound

\* Every step keeps the types.
LEMMA TypeNext == TypeOK /\ [Next]_vars => TypeOK'
<1> SUFFICES ASSUME TypeOK, [Next]_vars PROVE TypeOK'
  OBVIOUS
<1>0. 0 \in Nodes /\ Nodes \in Lists /\ FirstHalf \in Lists /\ SecondHalf \in Lists
  BY Parameters DEF Nodes, Lists
<1>1. Genesis \in Tips
  BY <1>0, Parameters DEF Genesis, Tips
<1>2. ASSUME NEW n \in Nodes, Generate(n) PROVE TypeOK'
  <2>1. [height |-> tip[n].height + 1, miner |-> n, txs |-> tip[n].txs \cup pool[n]] \in Tips
    BY <1>2, Parameters DEF Generate, TypeOK, Tips
  <2>2. tip' \in [Nodes -> Tips] /\ pool' \in [Nodes -> SUBSET Txs]
    BY <1>2, <2>1 DEF Generate, TypeOK
  <2>3. \E l \in Lists : Sync("sync_all", l) \/ Idle
    BY <1>0, <1>2 DEF Generate
  <2>4. QED
    BY <1>2, <2>2, <2>3, TypeOfCall DEF Generate, TypeOK
<1>3. ASSUME NEW n \in Nodes, NEW t \in Txs, Send(n, t) PROVE TypeOK'
  BY <1>0, <1>3, TypeOfCall DEF Send, TypeOK
<1>4. CASE SplitNetwork
  BY <1>0, <1>4, TypeOfCall DEF SplitNetwork, TypeOK
<1>5. CASE JoinNetwork
  BY <1>0, <1>5, TypeOfCall DEF JoinNetwork, TypeOK
<1>6. CASE CallSync
  BY <1>6, TypeOfCall DEF CallSync, TypeOK, nodeVars
<1>7. ASSUME NEW n \in Nodes, PollBlocks(n) \/ PollMempools(n) PROVE TypeOK'
  BY <1>7 DEF PollBlocks, PollMempools, IsNext, TypeOK
<1>8. CASE BlocksSame \/ Again
  BY <1>1, <1>8 DEF BlocksSame, Again, NewRound, TypeOK
<1>9. CASE MempoolsSame
  BY <1>0, <1>1, <1>9, TypeOfCall DEF MempoolsSame, NewRound, TypeOK, nodeVars
<1>10. CASE TimesOut
  BY <1>10 DEF TimesOut, TypeOK
<1>11. ASSUME NEW m \in Nodes, NEW n \in Nodes, Adopt(m, n) PROVE TypeOK'
  BY <1>11 DEF Adopt, TypeOK, Tips
<1>12. ASSUME NEW m \in Nodes, NEW n \in Nodes, Relay(m, n) PROVE TypeOK'
  BY <1>12 DEF Relay, TypeOK
<1>13. CASE UNCHANGED vars
  BY <1>13 DEF vars, TypeOK
<1>14. QED
  BY <1>2, <1>3, <1>4, <1>5, <1>6, <1>7, <1>8, <1>9, <1>10, <1>11, <1>12, <1>13
     DEF Next, Script, Round, Network

-----------------------------------------------------------------------------
(* sync_blocks and sync_mempools: the steps *)

\* What is left to show of a step that makes a new round, or none.
LEMMA NewRoundInv ==
  ASSUME TypeOK', polled' = {},
         TipsAgreeOnReturn', MempoolsAgreeAfterSyncAll'
  PROVE  SyncInv'
<1>1. list' \subseteq Nodes
  BY ListsOfNodes DEF TypeOK
<1>2. \A n \in list' : tip'[n].height \in Int
  BY <1>1, TipsHaveHeights DEF TypeOK
<1>3. AnswersBoundTips'
  BY <1>2 DEF AnswersBoundTips
<1>4. AnswersBoundPools'
  BY DEF AnswersBoundPools
<1>5. QED
  BY <1>3, <1>4 DEF SyncInv

\* A call that begins owes nothing yet.
LEMMA CallInv ==
  ASSUME TypeOK', polled' = {}, pc' \in {"idle", "blocks", "failed"} \/ (pc' = "mempools" /\ call' = "sync_mempools")
  PROVE  SyncInv'
<1>1. TipsAgreeOnReturn' /\ MempoolsAgreeAfterSyncAll'
  BY DEF TipsAgreeOnReturn, MempoolsAgreeAfterSyncAll
<1>2. QED
  BY <1>1, NewRoundInv

\* No call has been made.
LEMMA SyncInit == Init => SyncInv
<1> SUFFICES ASSUME Init PROVE SyncInv
  OBVIOUS
<1>1. TypeOK
  BY TypeInit
<1>2. pc = "idle"
  BY DEF Init
<1>3. QED
  BY <1>1, <1>2
     DEF SyncInv, AnswersBoundTips, TipsAgreeOnReturn, AnswersBoundPools, MempoolsAgreeAfterSyncAll

\* One answer to getbestblockhash more.
LEMMA PollBlocksInv ==
  ASSUME SyncInv, TypeOK', NEW k \in Nodes, PollBlocks(k)
  PROVE  SyncInv'
<1>1. k \in list \ polled /\ polled' = polled \cup {k} /\ best_hash' = [best_hash EXCEPT ![k] = tip[k]]
  BY DEF PollBlocks, IsNext
<1>2. pc = "blocks" /\ UNCHANGED <<tip, pool, joined, pc, call, list, pools>>
  BY DEF PollBlocks
<1>3. list \subseteq Nodes /\ best_hash'[k] = tip[k] /\ \A n \in Nodes \ {k} : best_hash'[n] = best_hash[n]
  BY <1>1, ListsOfNodes DEF SyncInv, TypeOK
<1>4. AnswersBoundTips'
  <2> SUFFICES ASSUME Closed' PROVE
        /\ \A n \in polled' : best_hash'[n] = tip[n] \/ best_hash'[n].height < tip[n].height
        /\ \A n \in list : \E m \in list :
             IF m \in polled' THEN best_hash'[m].height >= tip[n].height
             ELSE tip[m].height >= tip[n].height
    BY <1>2 DEF AnswersBoundTips
  <2>1. Closed
    BY <1>2 DEF Closed, Linked
  <2>2. \A n \in polled' : best_hash'[n] = tip[n] \/ best_hash'[n].height < tip[n].height
    BY <1>1, <1>2, <1>3, <2>1 DEF SyncInv, AnswersBoundTips, TypeOK
  <2>3. ASSUME NEW n \in list
        PROVE  \E m \in list : IF m \in polled' THEN best_hash'[m].height >= tip[n].height
                                ELSE tip[m].height >= tip[n].height
    <3>1. PICK m \in list : IF m \in polled THEN best_hash[m].height >= tip[n].height
                            ELSE tip[m].height >= tip[n].height
      BY <1>2, <2>1 DEF SyncInv, AnswersBoundTips
    <3>2. QED
      BY <1>1, <1>3, <3>1
  <2>4. QED
    BY <2>2, <2>3
<1>5. AnswersBoundPools' /\ TipsAgreeOnReturn' /\ MempoolsAgreeAfterSyncAll'
  BY <1>2 DEF AnswersBoundPools, TipsAgreeOnReturn, MempoolsAgreeAfterSyncAll
<1>6. QED
  BY <1>4, <1>5 DEF SyncInv

\* One answer to getrawmempool more.
LEMMA PollMempoolsInv ==
  ASSUME SyncInv, TypeOK', NEW k \in Nodes, PollMempools(k)
  PROVE  SyncInv'
<1>1. k \in list \ polled /\ polled' = polled \cup {k} /\ pools' = [pools EXCEPT ![k] = pool[k]]
  BY DEF PollMempools, IsNext
<1>2. pc = "mempools" /\ UNCHANGED <<tip, pool, joined, pc, call, list, best_hash>>
  BY DEF PollMempools
<1>3. list \subseteq Nodes /\ pools'[k] = pool[k] /\ \A n \in Nodes \ {k} : pools'[n] = pools[n]
  BY <1>1, ListsOfNodes DEF SyncInv, TypeOK
<1>4. Closed' = Closed
  BY <1>2 DEF Closed, Linked
<1>5. AnswersBoundPools'
  <2> SUFFICES ASSUME Closed, call # "sync_mempools" PROVE
        /\ \A n \in polled' : pools'[n] \subseteq pool[n]
        /\ \A n \in list : \A t \in pool[n] : \E m \in list :
             IF m \in polled' THEN t \in pools'[m] ELSE t \in pool[m]
    BY <1>2, <1>4 DEF AnswersBoundPools
  <2>1. \A n \in polled' : pools'[n] \subseteq pool[n]
    BY <1>1, <1>2, <1>3 DEF SyncInv, AnswersBoundPools, TypeOK
  <2>2. ASSUME NEW n \in list, NEW t \in pool[n]
        PROVE  \E m \in list : IF m \in polled' THEN t \in pools'[m] ELSE t \in pool[m]
    <3>1. PICK m \in list : IF m \in polled THEN t \in pools[m] ELSE t \in pool[m]
      BY <1>2 DEF SyncInv, AnswersBoundPools
    <3>2. QED
      BY <1>1, <1>3, <3>1
  <2>3. QED
    BY <2>1, <2>2
<1>6. TipsAgreeOnReturn'
  BY <1>2, <1>4 DEF SyncInv, TipsAgreeOnReturn, AgreeOn
<1>7. AnswersBoundTips' /\ MempoolsAgreeAfterSyncAll'
  BY <1>2 DEF AnswersBoundTips, MempoolsAgreeAfterSyncAll
<1>8. QED
  BY <1>5, <1>6, <1>7 DEF SyncInv

\* All answers of a round are one tip: every node of the list is there now.
LEMMA SameTips ==
  ASSUME SyncInv, Closed, pc = "blocks", polled = list, AllTheSame(best_hash)
  PROVE  AgreeOn(tip)
<1>0. list \subseteq Nodes
  BY ListsOfNodes DEF SyncInv, TypeOK
<1>1. \A n \in list : tip[n].height \in Int /\ best_hash[n].height \in Int
  BY <1>0, TipsHaveHeights DEF SyncInv, TypeOK
<1>2. ASSUME NEW n \in list PROVE tip[n] = best_hash[n]
  <2>1. PICK m \in list : best_hash[m].height >= tip[n].height
    BY DEF SyncInv, AnswersBoundTips
  <2>2. best_hash[m] = best_hash[n]
    BY DEF AllTheSame
  <2>3. best_hash[n] = tip[n] \/ best_hash[n].height < tip[n].height
    BY DEF SyncInv, AnswersBoundTips
  <2>4. QED
    BY <1>1, <2>1, <2>2, <2>3
<1>3. QED
  BY <1>2 DEF AgreeOn, AllTheSame

\* sync_blocks returns, or sync_mempools begins.
LEMMA BlocksSameInv == ASSUME SyncInv, TypeOK', BlocksSame PROVE SyncInv'
<1>1. UNCHANGED <<tip, pool, joined, call, list>> /\ polled' = {}
  BY DEF BlocksSame, NewRound
<1>2. Closed' = Closed
  BY <1>1 DEF Closed, Linked
<1>3. Closed => AgreeOn(tip)
  BY SameTips DEF BlocksSame
<1>4. TipsAgreeOnReturn'
  BY <1>1, <1>2, <1>3 DEF TipsAgreeOnReturn, AgreeOn
<1>5. MempoolsAgreeAfterSyncAll'
  <2>1. pc' = "returned" => call = "sync_blocks"
    BY DEF BlocksSame
  <2>2. QED
    BY <1>1, <2>1 DEF MempoolsAgreeAfterSyncAll
<1>6. QED
  BY <1>1, <1>4, <1>5, NewRoundInv

\* All answers of a round are one mempool: every node of the list holds it now.
LEMMA SamePools ==
  ASSUME SyncInv, Closed, pc = "mempools", call # "sync_mempools", polled = list, AllTheSame(pools)
  PROVE  AgreeOn(pool)
<1>1. ASSUME NEW n \in list PROVE pool[n] = pools[n]
  <2>1. pools[n] \subseteq pool[n]
    BY DEF SyncInv, AnswersBoundPools
  <2>2. ASSUME NEW t \in pool[n] PROVE t \in pools[n]
    <3>1. PICK m \in list : t \in pools[m]
      BY DEF SyncInv, AnswersBoundPools
    <3>2. QED
      BY <3>1 DEF AllTheSame
  <2>3. QED
    BY <2>1, <2>2
<1>2. QED
  BY <1>1 DEF AgreeOn, AllTheSame

\* sync_mempools returns, or the second half of split_network begins.
LEMMA MempoolsSameInv == ASSUME SyncInv, TypeOK', MempoolsSame PROVE SyncInv'
<1>1. CASE call = "split_network"
  BY <1>1, CallInv DEF MempoolsSame, Sync, NewRound
<1>2. CASE call # "split_network"
  <2>1. UNCHANGED <<tip, pool, joined, call, list>> /\ polled' = {} /\ pc = "mempools" /\ pc' = "returned"
    BY <1>2 DEF MempoolsSame, NewRound, nodeVars
  <2>2. Closed' = Closed
    BY <2>1 DEF Closed, Linked
  <2>3. TipsAgreeOnReturn'
    BY <2>1, <2>2 DEF SyncInv, TipsAgreeOnReturn, AgreeOn
  <2>4. Closed /\ call = "sync_all" => AgreeOn(pool)
    BY SamePools DEF MempoolsSame
  <2>5. MempoolsAgreeAfterSyncAll'
    BY <2>1, <2>2, <2>4 DEF MempoolsAgreeAfterSyncAll, AgreeOn
  <2>6. QED
    BY <2>1, <2>3, <2>5, NewRoundInv
<1>3. QED
  BY <1>1, <1>2

\* Another round, with all answers forgotten.
LEMMA AgainInv == ASSUME SyncInv, TypeOK', Again PROVE SyncInv'
<1>1. UNCHANGED <<tip, pool, joined, call, list>> /\ polled' = {} /\ pc' \in {pc, "failed"}
      /\ pc \in {"blocks", "mempools"}
  BY DEF Again, NewRound
<1>2. Closed' = Closed
  BY <1>1 DEF Closed, Linked
<1>3. TipsAgreeOnReturn' /\ MempoolsAgreeAfterSyncAll'
  BY <1>1, <1>2 DEF SyncInv, TipsAgreeOnReturn, MempoolsAgreeAfterSyncAll, AgreeOn
<1>4. QED
  BY <1>1, <1>3, NewRoundInv

\* A node of the list adopts only a better tip of the list; where the tips
\* agree none does.
LEMMA AdoptInv ==
  ASSUME SyncInv, TypeOK', NEW a \in Nodes, NEW c \in Nodes, Adopt(a, c)
  PROVE  SyncInv'
<1>0. list \subseteq Nodes
  BY ListsOfNodes DEF SyncInv, TypeOK
<1>1. /\ Linked(a, c) /\ tip[a].height > tip[c].height
      /\ tip' = [tip EXCEPT ![c] = tip[a]]
      /\ pool' = [pool EXCEPT ![c] = (@ \cup tip[c].txs) \ tip[a].txs]
      /\ UNCHANGED <<joined, pc, call, list, polled, best_hash, pools>>
  BY DEF Adopt
<1>2. Closed' = Closed
  BY <1>1 DEF Closed, Linked
<1>3. Closed /\ c \in list => a \in list
  BY <1>1, NeighboursInList DEF SyncInv
<1>4. \A n \in Nodes : tip[n].height \in Int /\ best_hash[n].height \in Int
  BY TipsHaveHeights DEF SyncInv, TypeOK
<1>5. tip'[c] = tip[a] /\ \A n \in Nodes \ {c} : tip'[n] = tip[n] /\ pool'[n] = pool[n]
  BY <1>1 DEF SyncInv, TypeOK
<1>6. AnswersBoundTips'
  <2> SUFFICES ASSUME Closed, pc = "blocks" PROVE
        /\ \A n \in polled : best_hash[n] = tip'[n] \/ best_hash[n].height < tip'[n].height
        /\ \A n \in list : \E m \in list :
             IF m \in polled THEN best_hash[m].height >= tip'[n].height
             ELSE tip'[m].height >= tip'[n].height
    BY <1>1, <1>2 DEF AnswersBoundTips
  <2>1. \A n \in polled : best_hash[n] = tip'[n] \/ best_hash[n].height < tip'[n].height
    <3>1. \A n \in polled : n \in Nodes /\ (best_hash[n] = tip[n] \/ best_hash[n].height < tip[n].height)
      BY <1>0 DEF SyncInv, AnswersBoundTips, TypeOK
    <3>2. QED
      BY <1>1, <1>4, <1>5, <3>1
  <2>2. ASSUME NEW n \in list
        PROVE  \E m \in list : IF m \in polled THEN best_hash[m].height >= tip'[n].height
                                ELSE tip'[m].height >= tip'[n].height
    <3>1. PICK b \in list : tip'[n] = tip[b]
      BY <1>0, <1>3, <1>5
    <3>2. PICK m \in list : IF m \in polled THEN best_hash[m].height >= tip[b].height
                            ELSE tip[m].height >= tip[b].height
      BY DEF SyncInv, AnswersBoundTips
    <3>3. tip'[m].height >= tip[m].height
      BY <1>0, <1>1, <1>4, <1>5
    <3>4. tip'[m].height \in Int
      BY <1>0, TipsHaveHeights DEF TypeOK
    <3>5. QED
      BY <1>0, <1>4, <3>1, <3>2, <3>3, <3>4
  <2>3. QED
    BY <2>1, <2>2
<1>7. ASSUME Closed, AgreeOn(tip) PROVE c \notin list
  BY <1>0, <1>1, <1>3, <1>4, <1>7 DEF AgreeOn
<1>8. TipsAgreeOnReturn'
  <2> SUFFICES ASSUME Closed, pc \in {"mempools", "returned"}, call # "sync_mempools"
               PROVE  AgreeOn(tip)'
    BY <1>1, <1>2 DEF TipsAgreeOnReturn
  <2>1. AgreeOn(tip)
    BY DEF SyncInv, TipsAgreeOnReturn
  <2>2. QED
    BY <1>0, <1>1, <1>5, <1>7, <2>1 DEF AgreeOn
<1>9. AnswersBoundPools'
  <2> SUFFICES ASSUME Closed, pc = "mempools", call # "sync_mempools" PROVE AnswersBoundPools'
    BY <1>1, <1>2 DEF AnswersBoundPools
  <2>1. c \notin list
    BY <1>7 DEF SyncInv, TipsAgreeOnReturn
  <2>2. \A n \in list : pool'[n] = pool[n]
    BY <1>0, <1>5, <2>1
  <2>3. polled \subseteq list
    BY DEF SyncInv, TypeOK
  <2>4. QED
    BY <1>1, <1>2, <2>2, <2>3 DEF SyncInv, AnswersBoundPools
<1>10. MempoolsAgreeAfterSyncAll'
  <2> SUFFICES ASSUME Closed, pc = "returned", call = "sync_all" PROVE AgreeOn(pool)'
    BY <1>1, <1>2 DEF MempoolsAgreeAfterSyncAll
  <2>1. c \notin list
    BY <1>7 DEF SyncInv, TipsAgreeOnReturn
  <2>2. QED
    BY <1>0, <1>1, <1>5, <2>1 DEF SyncInv, MempoolsAgreeAfterSyncAll, AgreeOn
<1>11. QED
  BY <1>6, <1>8, <1>9, <1>10 DEF SyncInv

\* A transaction that reaches a node of the list was in the list before.
LEMMA RelayInv ==
  ASSUME SyncInv, TypeOK', NEW a \in Nodes, NEW c \in Nodes, Relay(a, c)
  PROVE  SyncInv'
<1>0. list \subseteq Nodes
  BY ListsOfNodes DEF SyncInv, TypeOK
<1>1. PICK t \in pool[a] :
        /\ Linked(a, c) /\ t \notin pool[c]
        /\ pool' = [pool EXCEPT ![c] = @ \cup {t}]
        /\ UNCHANGED <<tip, joined, pc, call, list, polled, best_hash, pools>>
  BY DEF Relay
<1>2. Closed' = Closed
  BY <1>1 DEF Closed, Linked
<1>3. Closed /\ c \in list => a \in list
  BY <1>1, NeighboursInList DEF SyncInv
<1>4. pool'[c] = pool[c] \cup {t} /\ \A n \in Nodes \ {c} : pool'[n] = pool[n]
  BY <1>1 DEF SyncInv, TypeOK
<1>5. AnswersBoundTips' /\ TipsAgreeOnReturn'
  BY <1>1, <1>2 DEF SyncInv, AnswersBoundTips, TipsAgreeOnReturn, AgreeOn
<1>6. AnswersBoundPools'
  <2> SUFFICES ASSUME Closed, pc = "mempools", call # "sync_mempools" PROVE
        /\ \A n \in polled : pools[n] \subseteq pool'[n]
        /\ \A n \in list : \A u \in pool'[n] : \E m \in list :
             IF m \in polled THEN u \in pools[m] ELSE u \in pool'[m]
    BY <1>1, <1>2 DEF AnswersBoundPools
  <2>1. \A n \in Nodes : pool[n] \subseteq pool'[n]
    BY <1>4
  <2>2. \A n \in polled : pools[n] \subseteq pool'[n]
    BY <1>0, <2>1 DEF SyncInv, AnswersBoundPools, TypeOK
  <2>3. ASSUME NEW n \in list, NEW u \in pool'[n]
        PROVE  \E m \in list : IF m \in polled THEN u \in pools[m] ELSE u \in pool'[m]
    <3>1. PICK b \in list : u \in pool[b]
      BY <1>0, <1>1, <1>3, <1>4
    <3>2. PICK m \in list : IF m \in polled THEN u \in pools[m] ELSE u \in pool[m]
      BY <3>1 DEF SyncInv, AnswersBoundPools
    <3>3. QED
      BY <1>0, <2>1, <3>2
  <2>4. QED
    BY <2>2, <2>3
<1>7. MempoolsAgreeAfterSyncAll'
  <2> SUFFICES ASSUME Closed, pc = "returned", call = "sync_all" PROVE AgreeOn(pool)'
    BY <1>1, <1>2 DEF MempoolsAgreeAfterSyncAll
  <2>1. AgreeOn(pool)
    BY DEF SyncInv, MempoolsAgreeAfterSyncAll
  <2>2. c \notin list
    BY <1>1, <1>3, <2>1 DEF AgreeOn
  <2>3. QED
    BY <1>0, <1>1, <1>4, <2>1, <2>2 DEF AgreeOn
<1>8. QED
  BY <1>5, <1>6, <1>7 DEF SyncInv

\* Every step of the script, and of the nodes, keeps the invariant.
LEMMA SyncNext == SyncInv /\ [Next]_vars => SyncInv'
<1> SUFFICES ASSUME SyncInv, [Next]_vars PROVE SyncInv'
  OBVIOUS
<1>0. TypeOK'
  BY TypeNext DEF SyncInv
<1>1. ASSUME NEW n \in Nodes, Generate(n) PROVE SyncInv'
  BY <1>0, <1>1, CallInv DEF Generate, Idle, Sync, NewRound
<1>2. ASSUME NEW n \in Nodes, NEW t \in Txs, Send(n, t) PROVE SyncInv'
  BY <1>0, <1>2, CallInv DEF Send, Idle, NewRound
<1>3. CASE SplitNetwork \/ JoinNetwork \/ CallSync
  BY <1>0, <1>3, CallInv DEF SplitNetwork, JoinNetwork, CallSync, Sync, NewRound
<1>4. CASE TimesOut
  BY <1>0, <1>4, CallInv DEF TimesOut
<1>5. CASE UNCHANGED vars
  BY <1>5 DEF vars, SyncInv, TypeOK, AnswersBoundTips, TipsAgreeOnReturn, AnswersBoundPools,
              MempoolsAgreeAfterSyncAll, AgreeOn, Closed, Linked
<1>6. QED
  BY <1>0, <1>1, <1>2, <1>3, <1>4, <1>5, PollBlocksInv, PollMempoolsInv, BlocksSameInv,
     MempoolsSameInv, AgainInv, AdoptInv, RelayInv
     DEF Next, Script, Round, Network

-----------------------------------------------------------------------------
(* Node processes *)

Operations ==
  {"none", "start_nodes", "stop_nodes", "cleanup", "restart_node",
   "assert_start_raises_init_error"}
Steps == {"idle", "start", "rpc", "stop", "stopped", "init_error", "raised", "ended"}
ProcessStates == Processes!Starting \cup {"up", "stopping"} \cup Processes!Exited

ProcessTypes ==
  /\ op \in Operations
  /\ node_pc \in Steps
  /\ at \in Processes!Nodes
  /\ running \in [Processes!Nodes -> BOOLEAN]
  /\ process \in [Processes!Nodes -> Nat]
  /\ rpc_connected \in [Processes!Nodes -> BOOLEAN]
  /\ procs \in [Processes!Nodes -> Seq(ProcessStates)]
  /\ \A n \in Processes!Nodes : process[n] = 0 \/ process[n] \in DOMAIN procs[n]

\* A node runs exactly if it refers to a process.
RunningRefers == \A n \in Processes!Nodes : running[n] <=> process[n] # 0

\* A process no node refers to has exited, and after the test every process has.
OrphansExited ==
  \A n \in Processes!Nodes : \A p \in DOMAIN procs[n] :
    p # process[n] \/ node_pc = "ended" => procs[n][p] \in Processes!Exited

\* A connection is to a process, and to one that has loaded.
ConnectionsLoaded ==
  \A n \in Processes!Nodes :
    rpc_connected[n] => running[n] /\ procs[n][process[n]] \notin Processes!Starting

\* An operation is only at its own steps, at a node that does not run before
\* it is started and runs while its RPC connection is awaited.
StepFitsOperation ==
  /\ node_pc = "start" =>
       /\ op \in {"start_nodes", "restart_node", "assert_start_raises_init_error"}
       /\ ~running[at]
       /\ op = "start_nodes" => \A n \in Processes!Nodes : running[n] <=> n < at
  /\ node_pc = "rpc" =>
       /\ op \in {"start_nodes", "restart_node"}
       /\ running[at]
       /\ op = "start_nodes" => \A n \in Processes!Nodes : running[n]
  /\ node_pc = "init_error" =>
       op = "assert_start_raises_init_error" /\ running[at] /\ ~rpc_connected[at]
  /\ node_pc \in {"stop", "stopped"} => op \in {"stop_nodes", "cleanup", "restart_node"}

ProcessesInv ==
  ProcessTypes /\ RunningRefers /\ OrphansExited /\ ConnectionsLoaded /\ StepFitsOperation

-----------------------------------------------------------------------------
(* The RPC proxy *)

RpcSteps == {"idle", "add", "get_request", "set_conn", "request", "_get_response"}
Connections == [sent : BOOLEAN, asked : Seq(Nat), answers : Seq(Nat)]
Outcomes ==
  [how : {"none", "result", "JSONRPCException", "timeout"}, id : Nat]

RpcTypes ==
  /\ rpc_pc \in [Threads -> RpcSteps]
  /\ id_count \in Nat
  /\ loaded \in [Threads -> Nat]
  /\ id \in [Threads -> Nat]
  /\ conns \in Seq(Connections)
  /\ conn \in [Threads -> DOMAIN conns]
  /\ outcome \in [Threads -> Outcomes]

\* Only the node's own connection is shared, and nothing is ever sent on it.
ConnectionsApart ==
  /\ 1 \in DOMAIN conns /\ conns[1] = Rpc!NewConnection
  /\ \A t, u \in Threads : t # u /\ conn[t] = conn[u] => conn[t] = 1

\* Nothing was sent on a thread's connection before its request, and the
\* request of the thread, or the answer to it, is all that is on it after.
CallAlone(t) ==
  /\ rpc_pc[t] \in RpcSteps \ {"idle"} => outcome[t] = Rpc!NoOutcome
  /\ rpc_pc[t] = "request" => conn[t] # 1 /\ conns[conn[t]] = Rpc!NewConnection
  /\ rpc_pc[t] = "_get_response" =>
       /\ conn[t] # 1
       /\ \/ conns[conn[t]].asked = <<id[t]>> /\ conns[conn[t]].answers = <<>>
          \/ conns[conn[t]].asked = <<>> /\ conns[conn[t]].answers = <<id[t]>>
  /\ outcome[t].how \in {"result", "JSONRPCException"} =>
       /\ conn[t] # 1 /\ outcome[t].id = id[t]
       /\ conns[conn[t]].asked = <<>> /\ conns[conn[t]].answers = <<>>

RpcInv == RpcTypes /\ ConnectionsApart /\ \A t \in Threads : CallAlone(t)

-----------------------------------------------------------------------------
(* connect_nodes and disconnect_nodes *)

LinkSteps ==
  {"idle", "count_to", "addnode", "wait", "connected", "disconnect", "warned",
   "gone_from", "gone_to", "disconnected", "failed"}
Stages == Connect!Absent .. Connect!Pong

LinkTypes ==
  /\ link_pc \in LinkSteps
  /\ wait \in 0 .. 6
  /\ link_pc = "wait" => wait # 0
  /\ expected \in [Connect!Ends -> Int]
  /\ link \in [Connect!Ends -> Stages]
  /\ other \in [Connect!Ends -> [Others -> Stages]]
  /\ quiet \in BOOLEAN

\* The other peers of an end that getpeerinfo lists.
PeersOf(e) == {o \in Others : other[e][o] >= Connect!Connecting}

\* While no other peer comes or goes the script waits for exactly one more.
ExpectsOneMore ==
  quiet =>
    /\ link_pc \in {"count_to", "addnode", "wait"} =>
         expected["from"] = 1 + Cardinality(PeersOf("from"))
    /\ link_pc \in {"addnode", "wait"} =>
         expected["to"] = 1 + Cardinality(PeersOf("to"))

\* How far the link is at each step of the script.
LinkFitsStep ==
  /\ quiet /\ link_pc \in {"count_to", "addnode"} =>
       \A e \in Connect!Ends : link[e] = Connect!Absent
  /\ quiet /\ link_pc = "wait" =>
       /\ \A e \in Connect!Ends : link[e] >= Connect!Connecting
       /\ wait = 6 => link["from"] = Connect!Pong
  /\ quiet /\ link_pc = "connected" => \A e \in Connect!Ends : link[e] = Connect!Pong
  /\ link_pc \in {"gone_to", "disconnected"} => link["from"] = Connect!Absent
  /\ link_pc = "disconnected" => link["to"] = Connect!Absent

ConnectInv == LinkTypes /\ ExpectsOneMore /\ LinkFitsStep

IInv == SyncInv /\ ProcessesInv /\ RpcInv /\ ConnectInv

-----------------------------------------------------------------------------
(* Node processes: the steps *)

\* What it takes to change the state of one process, and what stays.
LEMMA OneProcessChanges ==
  ASSUME ProcessTypes,
         NEW n \in Processes!Nodes, NEW p \in DOMAIN procs[n], NEW s \in ProcessStates,
         procs' = [procs EXCEPT ![n][p] = s]
  PROVE  /\ procs' \in [Processes!Nodes -> Seq(ProcessStates)]
         /\ \A m \in Processes!Nodes : DOMAIN procs'[m] = DOMAIN procs[m]
         /\ \A m \in Processes!Nodes : \A q \in DOMAIN procs[m] :
              procs'[m][q] = IF m = n /\ q = p THEN s ELSE procs[m][q]
<1>1. procs \in [Processes!Nodes -> Seq(ProcessStates)]
  BY DEF ProcessTypes
<1>2. procs' = [procs EXCEPT ![n] = [procs[n] EXCEPT ![p] = s]]
  BY <1>1
<1>3. procs[n] \in Seq(ProcessStates) /\ p \in 1 .. Len(procs[n])
  BY <1>1
<1>4. /\ [procs[n] EXCEPT ![p] = s] \in Seq(ProcessStates)
      /\ Len([procs[n] EXCEPT ![p] = s]) = Len(procs[n])
      /\ \A q \in 1 .. Len(procs[n]) :
           [procs[n] EXCEPT ![p] = s][q] = IF q = p THEN s ELSE procs[n][q]
  BY <1>3, ExceptSeq
<1>5. /\ procs'[n] = [procs[n] EXCEPT ![p] = s]
      /\ \A m \in Processes!Nodes \ {n} : procs'[m] = procs[m]
      /\ procs' \in [Processes!Nodes -> Seq(ProcessStates)]
  BY <1>1, <1>2, <1>4
<1>6. DOMAIN procs'[n] = DOMAIN procs[n]
  BY <1>3, <1>4, <1>5
<1> QED BY <1>3, <1>4, <1>5, <1>6

\* Nothing has been started yet.
LEMMA ProcessesInit == Processes!Init => ProcessesInv
<1> SUFFICES ASSUME Processes!Init PROVE ProcessesInv
  OBVIOUS
<1>1. 1 \in Processes!Nodes
  BY NumNodesAssumption DEF Processes!Nodes
<1>2. <<>> \in Seq(ProcessStates) /\ DOMAIN <<>> = {}
  OBVIOUS
<1>3. ProcessTypes
  BY <1>1, <1>2 DEF Processes!Init, ProcessTypes, Operations, Steps
<1>4. RunningRefers /\ ConnectionsLoaded /\ StepFitsOperation
  BY DEF Processes!Init, RunningRefers, ConnectionsLoaded, StepFitsOperation
<1>5. OrphansExited
  BY <1>2 DEF Processes!Init, OrphansExited
<1> QED BY <1>3, <1>4, <1>5 DEF ProcessesInv

\* A helper is called: nodes that do not run are started, others are stopped.
LEMMA CallKeeps == ProcessesInv /\ Processes!Call => ProcessesInv'
<1> SUFFICES ASSUME ProcessesInv, Processes!Call PROVE ProcessesInv'
  OBVIOUS
<1> USE DEF ProcessesInv
<1>1. 1 \in Processes!Nodes /\ \A n \in Processes!Nodes : n >= 1
  BY NumNodesAssumption DEF Processes!Nodes
<1>2. PICK o \in Operations, step \in Steps, n \in Processes!Nodes :
        /\ Processes!Begin(o, step, n)
        /\ \/ o = "start_nodes" /\ step = "start" /\ n = 1 /\ \A m \in Processes!Nodes : ~running[m]
           \/ o = "stop_nodes" /\ step = "stop"
           \/ o = "restart_node" /\ step = "stop"
           \/ o = "assert_start_raises_init_error" /\ step = "start" /\ ~running[n]
  <2>1. {"start_nodes", "stop_nodes", "restart_node", "assert_start_raises_init_error"} \subseteq Operations
        /\ {"start", "stop"} \subseteq Steps
    BY DEF Operations, Steps
  <2> QED BY <1>1, <2>1 DEF Processes!Call
<1>3. /\ node_pc = "idle" /\ op' = o /\ node_pc' = step /\ at' = n
      /\ UNCHANGED <<running, process, rpc_connected, procs>>
      /\ step \in {"start", "stop"}
  BY <1>2 DEF Processes!Begin, Processes!node
<1>4. ProcessTypes'
  BY <1>2, <1>3 DEF ProcessTypes
<1>5. RunningRefers' /\ ConnectionsLoaded'
  BY <1>3 DEF RunningRefers, ConnectionsLoaded
<1>6. OrphansExited'
  BY <1>3 DEF OrphansExited
<1>7. StepFitsOperation'
  <2>1. \A m \in Processes!Nodes : ~(m < 1)
    BY DEF Processes!Nodes
  <2> QED BY <1>2, <1>3, <2>1 DEF StepFitsOperation
<1> QED BY <1>4, <1>5, <1>6, <1>7

\* Where an operation goes on, at the next node or at the next step.
LEMMA ThenGoesOn ==
  ASSUME ProcessTypes, NEW step \in Steps, Processes!Then(step)
  PROVE  /\ op' = op /\ op' \in Operations
         /\ node_pc' \in {node_pc, step, "raised"}
         /\ at' \in Processes!Nodes
         /\ node_pc' = "raised" => step = "idle" \/ step = "raised" \/ node_pc = "raised"
         /\ \/ at' = at + 1 /\ node_pc' = node_pc
            \/ /\ node_pc' \in {step, "raised"}
               /\ op \in {"start_nodes", "stop_nodes", "cleanup"} => at = NumNodes
               /\ op \notin {"start_nodes", "stop_nodes", "cleanup"} => at' = at
<1>1. at \in 1 .. NumNodes /\ op \in Operations /\ NumNodes \in Nat /\ 1 \in 1 .. NumNodes
  BY NumNodesAssumption DEF ProcessTypes, Processes!Nodes
<1>2. CASE op \in {"start_nodes", "stop_nodes", "cleanup"} /\ at < NumNodes
  BY <1>1, <1>2 DEF Processes!Then, Processes!Nodes
<1>3. CASE ~(op \in {"start_nodes", "stop_nodes", "cleanup"} /\ at < NumNodes)
  BY <1>1, <1>3 DEF Processes!Then, Processes!Nodes
<1> QED BY <1>2, <1>3

\* Where an exception leads.
LEMMA RaiseCleansUp ==
  ASSUME ProcessTypes, Processes!Raise
  PROVE  /\ op' \in Operations /\ at' \in Processes!Nodes
         /\ \/ op' = "cleanup" /\ node_pc' = "stop"
            \/ node_pc' = "raised"
<1>1. 1 \in Processes!Nodes
  BY NumNodesAssumption DEF Processes!Nodes
<1> QED BY <1>1 DEF Processes!Raise, ProcessTypes, Operations

\* A process is made, at a node that has none.
LEMMA StartKeeps == ProcessesInv /\ Processes!Start => ProcessesInv'
<1> SUFFICES ASSUME ProcessesInv, Processes!Start PROVE ProcessesInv'
  OBVIOUS
<1> USE DEF ProcessesInv
<1> DEFINE new == Len(procs[at]) + 1
<1>1. /\ at \in Processes!Nodes /\ procs[at] \in Seq(ProcessStates)
      /\ procs \in [Processes!Nodes -> Seq(ProcessStates)]
      /\ process \in [Processes!Nodes -> Nat]
      /\ node_pc = "start" /\ ~running[at] /\ process[at] = 0 /\ ~rpc_connected[at]
  BY DEF Processes!Start, ProcessTypes, StepFitsOperation, RunningRefers, ConnectionsLoaded
<1>2. /\ Append(procs[at], "init") \in Seq(ProcessStates)
      /\ DOMAIN Append(procs[at], "init") = 1 .. new
      /\ DOMAIN procs[at] = 1 .. Len(procs[at])
      /\ Append(procs[at], "init")[new] = "init"
      /\ \A p \in DOMAIN procs[at] : Append(procs[at], "init")[p] = procs[at][p]
      /\ new \in Nat \ {0}
  BY <1>1 DEF ProcessStates, Processes!Starting
<1>3. /\ procs' \in [Processes!Nodes -> Seq(ProcessStates)]
      /\ procs'[at] = Append(procs[at], "init")
      /\ \A m \in Processes!Nodes \ {at} : procs'[m] = procs[m]
  BY <1>1, <1>2 DEF Processes!Start
<1>4. /\ process' \in [Processes!Nodes -> Nat]
      /\ process'[at] = new
      /\ \A m \in Processes!Nodes \ {at} : process'[m] = process[m]
  BY <1>1, <1>2 DEF Processes!Start
<1>5. /\ running' \in [Processes!Nodes -> BOOLEAN]
      /\ running'[at]
      /\ \A m \in Processes!Nodes \ {at} : running'[m] = running[m]
      /\ UNCHANGED rpc_connected
  BY <1>1 DEF Processes!Start, ProcessTypes
<1>6. PICK step \in {"init_error", "rpc"} :
        /\ Processes!Then(step)
        /\ step = "init_error" <=> op = "assert_start_raises_init_error"
  BY DEF Processes!Start
<1>7. /\ op' = op /\ op' \in Operations /\ at' \in Processes!Nodes
      /\ \/ at' = at + 1 /\ node_pc' = "start"
         \/ /\ node_pc' = step
            /\ op = "start_nodes" => at = NumNodes
            /\ op # "start_nodes" => at' = at
      /\ node_pc' \in {"start", step}
  <2>1. step \in Steps
    BY DEF Steps
  <2>2. op \in {"start_nodes", "restart_node", "assert_start_raises_init_error"}
    BY <1>1 DEF StepFitsOperation
  <2> QED BY <1>1, <1>6, <2>1, <2>2, ThenGoesOn
<1>8. ProcessTypes'
  <2>1. node_pc' \in Steps
    BY <1>7 DEF Steps
  <2>2. \A m \in Processes!Nodes : process'[m] = 0 \/ process'[m] \in DOMAIN procs'[m]
    <3> TAKE m \in Processes!Nodes
    <3>1. CASE m = at
      BY <3>1, <1>2, <1>3, <1>4
    <3>2. CASE m # at
      BY <3>2, <1>3, <1>4 DEF ProcessTypes
    <3> QED BY <3>1, <3>2
  <2>3. rpc_connected' \in [Processes!Nodes -> BOOLEAN]
    BY <1>5 DEF ProcessTypes
  <2> QED BY <1>3, <1>4, <1>5, <1>7, <2>1, <2>2, <2>3 DEF ProcessTypes
<1>9. RunningRefers'
  <2> SUFFICES ASSUME NEW m \in Processes!Nodes PROVE running'[m] <=> process'[m] # 0
    BY DEF RunningRefers
  <2>1. CASE m = at
    BY <2>1, <1>2, <1>4, <1>5
  <2>2. CASE m # at
    BY <2>2, <1>4, <1>5 DEF RunningRefers
  <2> QED BY <2>1, <2>2
<1>10. OrphansExited'
  <2> SUFFICES ASSUME NEW m \in Processes!Nodes, NEW p \in DOMAIN procs'[m], p # process'[m]
               PROVE  procs'[m][p] \in Processes!Exited
    BY <1>6, <1>7 DEF OrphansExited
  <2>1. CASE m = at
    <3>1. p \in DOMAIN procs[at] /\ p # process[at]
      BY <2>1, <1>1, <1>2, <1>3, <1>4
    <3> QED BY <2>1, <3>1, <1>1, <1>2, <1>3 DEF OrphansExited
  <2>2. CASE m # at
    BY <2>2, <1>3, <1>4 DEF OrphansExited
  <2> QED BY <2>1, <2>2
<1>11. ConnectionsLoaded'
  <2> SUFFICES ASSUME NEW m \in Processes!Nodes, rpc_connected[m]
               PROVE  running'[m] /\ procs'[m][process'[m]] \notin Processes!Starting
    BY <1>5 DEF ConnectionsLoaded
  <2>1. m # at
    BY <1>1
  <2> QED BY <2>1, <1>3, <1>4, <1>5 DEF ConnectionsLoaded
<1>12. StepFitsOperation'
  <2>1. op \in {"start_nodes", "restart_node", "assert_start_raises_init_error"}
        /\ (op = "start_nodes" => \A n \in Processes!Nodes : running[n] <=> n < at)
    BY <1>1 DEF StepFitsOperation
  <2>2. op = "start_nodes" => \A n \in Processes!Nodes : running'[n] <=> n < at + 1
    <3> SUFFICES ASSUME op = "start_nodes", NEW n \in Processes!Nodes
                 PROVE  running'[n] <=> n < at + 1
      OBVIOUS
    <3>1. n \in Nat /\ at \in Nat
      BY <1>1 DEF Processes!Nodes
    <3>2. CASE n = at
      BY <3>1, <3>2, <1>5
    <3>3. CASE n # at
      <4>1. n < at <=> n < at + 1
        BY <3>1, <3>3
      <4> QED BY <4>1, <3>3, <2>1, <1>5
    <3> QED BY <3>2, <3>3
  <2>3. \A n \in Processes!Nodes : n < NumNodes + 1 /\ n \in Nat
    BY NumNodesAssumption DEF Processes!Nodes
  <2>4. CASE at' = at + 1 /\ node_pc' = "start"
    <3>1. op = "start_nodes"
      <4> SUFFICES ASSUME op # "start_nodes" PROVE FALSE
        OBVIOUS
      <4>1. at' = at
        BY <2>1, <1>1, <1>6 DEF Processes!Then
      <4> QED BY <4>1, <2>4, <2>3, <1>1
    <3>2. ~(at + 1 < at + 1) /\ at' = at + 1
      BY <2>4, <2>3, <1>1
    <3>3. ~running'[at']
      BY <3>1, <3>2, <2>2, <1>7
    <3> QED BY <2>4, <3>1, <3>2, <3>3, <2>2, <1>7 DEF StepFitsOperation
  <2>5. CASE node_pc' = step /\ (op = "start_nodes" => at = NumNodes) /\ (op # "start_nodes" => at' = at)
    <3>1. op = "start_nodes" => \A n \in Processes!Nodes : running'[n]
      BY <2>2, <2>3, <2>5
    <3>2. running'[at']
      BY <3>1, <2>5, <1>5, <1>7
    <3>3. op # "start_nodes" => ~rpc_connected'[at']
      BY <2>5, <1>1, <1>5
    <3> QED BY <2>1, <2>5, <3>1, <3>2, <3>3, <1>6, <1>7 DEF StepFitsOperation
  <2> QED BY <2>4, <2>5, <1>7
<1> QED BY <1>8, <1>9, <1>10, <1>11, <1>12

\* The wait for the RPC connection: only a process that has loaded is connected.
LEMMA RpcConnectionKeeps == ProcessesInv /\ Processes!RpcConnection => ProcessesInv'
<1> SUFFICES ASSUME ProcessesInv, Processes!RpcConnection PROVE ProcessesInv'
  OBVIOUS
<1> USE DEF ProcessesInv
<1>1. /\ node_pc = "rpc" /\ UNCHANGED <<running, process, procs>>
      /\ op \in {"start_nodes", "restart_node"} /\ running[at]
      /\ op = "start_nodes" => \A n \in Processes!Nodes : running[n]
      /\ at \in Processes!Nodes /\ "idle" \in Steps
      /\ rpc_connected \in [Processes!Nodes -> BOOLEAN]
  BY DEF Processes!RpcConnection, StepFitsOperation, ProcessTypes, Steps
<1>2. /\ rpc_connected' \in [Processes!Nodes -> BOOLEAN]
      /\ \A n \in Processes!Nodes :
           rpc_connected'[n] => rpc_connected[n] \/ (n = at /\ procs[at][process[at]] = "up")
      /\ \/ Processes!Then("idle")
         \/ Processes!Raise /\ UNCHANGED rpc_connected
  BY <1>1 DEF Processes!RpcConnection, Processes!State
<1>3. RunningRefers'
  BY <1>1 DEF RunningRefers
<1>4. ConnectionsLoaded'
  <2> SUFFICES ASSUME NEW n \in Processes!Nodes, rpc_connected'[n]
               PROVE  running[n] /\ procs[n][process[n]] \notin Processes!Starting
    BY <1>1 DEF ConnectionsLoaded
  <2>1. CASE rpc_connected[n]
    BY <2>1 DEF ConnectionsLoaded
  <2>2. CASE n = at /\ procs[at][process[at]] = "up"
    BY <2>2, <1>1 DEF Processes!Starting
  <2> QED BY <1>2, <2>1, <2>2
<1>5. CASE Processes!Then("idle")
  <2>1. /\ op' = op /\ op' \in Operations /\ at' \in Processes!Nodes
        /\ node_pc' \in {"rpc", "idle", "raised"}
        /\ node_pc' = "rpc" => op = "start_nodes"
    <3>1. node_pc' = "rpc" => op = "start_nodes"
      BY <1>1, <1>5 DEF Processes!Then
    <3> QED BY <1>1, <1>5, <3>1, ThenGoesOn
  <2>2. ProcessTypes' /\ OrphansExited'
    BY <1>1, <1>2, <2>1 DEF ProcessTypes, OrphansExited, Steps
  <2>3. StepFitsOperation'
    BY <1>1, <2>1 DEF StepFitsOperation
  <2> QED BY <1>3, <1>4, <2>2, <2>3
<1>6. CASE Processes!Raise
  <2>1. /\ op' \in Operations /\ at' \in Processes!Nodes
        /\ (op' = "cleanup" /\ node_pc' = "stop") \/ node_pc' = "raised"
    BY <1>6, RaiseCleansUp
  <2>2. ProcessTypes' /\ OrphansExited'
    BY <1>1, <1>2, <2>1 DEF ProcessTypes, OrphansExited, Steps
  <2>3. StepFitsOperation'
    BY <1>1, <2>1 DEF StepFitsOperation
  <2> QED BY <1>3, <1>4, <2>2, <2>3
<1> QED BY <1>2, <1>5, <1>6

\* A stop RPC moves a process that is up, which then is no longer starting.
LEMMA StopKeeps == ProcessesInv /\ Processes!Stop => ProcessesInv'
<1> SUFFICES ASSUME ProcessesInv, Processes!Stop PROVE ProcessesInv'
  OBVIOUS
<1> USE DEF ProcessesInv
<1>1. /\ node_pc = "stop" /\ UNCHANGED <<running, process, rpc_connected>>
      /\ op \in {"stop_nodes", "cleanup", "restart_node"}
      /\ at \in Processes!Nodes /\ "stopped" \in Steps
  BY DEF Processes!Stop, StepFitsOperation, ProcessTypes, Steps
<1>2. /\ procs' \in [Processes!Nodes -> Seq(ProcessStates)]
      /\ \A n \in Processes!Nodes : DOMAIN procs'[n] = DOMAIN procs[n]
      /\ \A n \in Processes!Nodes : \A p \in DOMAIN procs[n] :
           \/ procs'[n][p] = procs[n][p]
           \/ p = process[n] /\ procs'[n][p] = "stopping"
  <2>1. CASE UNCHANGED procs
    BY <2>1 DEF ProcessTypes
  <2>2. CASE /\ running[at] /\ rpc_connected[at]
             /\ procs' = [procs EXCEPT ![at][process[at]] = "stopping"]
    <3>1. process[at] \in DOMAIN procs[at] /\ "stopping" \in ProcessStates
      BY <1>1, <2>2 DEF ProcessTypes, RunningRefers, ProcessStates
    <3> QED BY <1>1, <2>2, <3>1, OneProcessChanges
  <2> QED BY <2>1, <2>2 DEF Processes!Stop
<1>3. /\ op' \in Operations /\ at' \in Processes!Nodes
      /\ \/ op' = op /\ node_pc' \in {"stop", "stopped"}
         \/ op' = "cleanup" /\ node_pc' = "stop"
         \/ node_pc' = "raised"
  <2>1. CASE Processes!Then("stopped")
    BY <1>1, <2>1, ThenGoesOn
  <2>2. CASE Processes!Raise
    BY <2>2, RaiseCleansUp
  <2> QED BY <2>1, <2>2 DEF Processes!Stop
<1>4. ProcessTypes'
  <2>1. \A n \in Processes!Nodes : process'[n] = 0 \/ process'[n] \in DOMAIN procs'[n]
    BY <1>1, <1>2 DEF ProcessTypes
  <2>2. node_pc' \in Steps
    BY <1>3 DEF Steps
  <2> QED BY <1>1, <1>2, <1>3, <2>1, <2>2 DEF ProcessTypes
<1>5. RunningRefers'
  BY <1>1 DEF RunningRefers
<1>6. OrphansExited'
  <2> SUFFICES ASSUME NEW n \in Processes!Nodes, NEW p \in DOMAIN procs[n], p # process[n]
               PROVE  procs'[n][p] \in Processes!Exited
    BY <1>1, <1>2, <1>3 DEF OrphansExited
  <2> QED BY <1>2 DEF OrphansExited
<1>7. ConnectionsLoaded'
  <2> SUFFICES ASSUME NEW n \in Processes!Nodes, rpc_connected[n]
               PROVE  running[n] /\ procs'[n][process[n]] \notin Processes!Starting
    BY <1>1 DEF ConnectionsLoaded
  <2>1. running[n] /\ process[n] \in DOMAIN procs[n]
        /\ procs[n][process[n]] \notin Processes!Starting
    BY DEF ConnectionsLoaded, RunningRefers, ProcessTypes
  <2> QED BY <1>2, <2>1 DEF Processes!Starting
<1>8. StepFitsOperation'
  BY <1>1, <1>3 DEF StepFitsOperation
<1> QED BY <1>4, <1>5, <1>6, <1>7, <1>8

\* A process that has ended well is forgotten; others stay referred to.
LEMMA StoppedKeeps == ProcessesInv /\ Processes!Stopped => ProcessesInv'
<1> SUFFICES ASSUME ProcessesInv, Processes!Stopped PROVE ProcessesInv'
  OBVIOUS
<1> USE DEF ProcessesInv
<1>1. /\ node_pc = "stopped" /\ UNCHANGED procs
      /\ op \in {"stop_nodes", "cleanup", "restart_node"}
      /\ at \in Processes!Nodes /\ {"start", "idle"} \subseteq Steps
  BY DEF Processes!Stopped, StepFitsOperation, ProcessTypes, Steps
<1>2. CASE Processes!Raise /\ UNCHANGED <<running, process, rpc_connected>>
  <2>1. /\ op' \in Operations /\ at' \in Processes!Nodes
        /\ (op' = "cleanup" /\ node_pc' = "stop") \/ node_pc' = "raised"
    BY <1>2, RaiseCleansUp
  <2>2. ProcessTypes' /\ OrphansExited'
    BY <1>1, <1>2, <2>1 DEF ProcessTypes, OrphansExited, Steps
  <2>3. RunningRefers' /\ ConnectionsLoaded'
    BY <1>1, <1>2 DEF RunningRefers, ConnectionsLoaded
  <2>4. StepFitsOperation'
    BY <1>1, <2>1 DEF StepFitsOperation
  <2> QED BY <2>2, <2>3, <2>4
<1>3. CASE /\ running[at] => Processes!State(at) = "exit_success"
           /\ running' = [running EXCEPT ![at] = FALSE]
           /\ process' = [process EXCEPT ![at] = 0]
           /\ rpc_connected' = [rpc_connected EXCEPT ![at] = FALSE]
           /\ Processes!Then(IF op = "restart_node" THEN "start" ELSE "idle")
  <2>1. /\ running' \in [Processes!Nodes -> BOOLEAN]
        /\ ~running'[at] /\ \A n \in Processes!Nodes \ {at} : running'[n] = running[n]
    BY <1>1, <1>3 DEF ProcessTypes
  <2>2. /\ process' \in [Processes!Nodes -> Nat]
        /\ process'[at] = 0 /\ \A n \in Processes!Nodes \ {at} : process'[n] = process[n]
    BY <1>1, <1>3 DEF ProcessTypes
  <2>3. /\ rpc_connected' \in [Processes!Nodes -> BOOLEAN]
        /\ ~rpc_connected'[at]
        /\ \A n \in Processes!Nodes \ {at} : rpc_connected'[n] = rpc_connected[n]
    BY <1>1, <1>3 DEF ProcessTypes
  <2>4. /\ op' = op /\ op' \in Operations /\ at' \in Processes!Nodes
        /\ node_pc' \in {"stopped", "start", "idle", "raised"}
        /\ node_pc' = "start" => op = "restart_node" /\ at' = at
    <3>1. CASE op = "restart_node"
      BY <1>1, <1>3, <3>1, ThenGoesOn DEF Processes!Then
    <3>2. CASE op # "restart_node"
      BY <1>1, <1>3, <3>2, ThenGoesOn DEF Processes!Then
    <3> QED BY <3>1, <3>2
  <2>5. ProcessTypes'
    <3>1. \A n \in Processes!Nodes : process'[n] = 0 \/ process'[n] \in DOMAIN procs'[n]
      BY <1>1, <2>2 DEF ProcessTypes
    <3>2. node_pc' \in Steps /\ procs' \in [Processes!Nodes -> Seq(ProcessStates)]
      BY <1>1, <2>4 DEF Steps, ProcessTypes
    <3> QED BY <2>1, <2>2, <2>3, <2>4, <3>1, <3>2 DEF ProcessTypes
  <2>6. RunningRefers'
    BY <2>1, <2>2 DEF RunningRefers
  <2>7. OrphansExited'
    <3> SUFFICES ASSUME NEW n \in Processes!Nodes, NEW p \in DOMAIN procs[n], p # process'[n]
                 PROVE  procs[n][p] \in Processes!Exited
      BY <1>1, <2>4 DEF OrphansExited
    <3>1. CASE n = at /\ p = process[n]
      <4>1. running[at]
        <5>1. process[at] # 0
          BY <1>1, <3>1 DEF ProcessTypes
        <5> QED BY <1>1, <5>1 DEF RunningRefers
      <4> QED BY <1>3, <3>1, <4>1 DEF Processes!State, Processes!Exited
    <3>2. CASE ~(n = at /\ p = process[n])
      BY <3>2, <2>2 DEF OrphansExited
    <3> QED BY <3>1, <3>2
  <2>8. ConnectionsLoaded'
    BY <1>1, <2>1, <2>2, <2>3 DEF ConnectionsLoaded
  <2>9. StepFitsOperation'
    BY <1>1, <2>1, <2>4 DEF StepFitsOperation
  <2> QED BY <2>5, <2>6, <2>7, <2>8, <2>9
<1> QED BY <1>2, <1>3 DEF Processes!Stopped

\* A process that should have ended is killed before it is forgotten.
LEMMA InitErrorKeeps == ProcessesInv /\ Processes!InitError => ProcessesInv'
<1> SUFFICES ASSUME ProcessesInv, Processes!InitError PROVE ProcessesInv'
  OBVIOUS
<1> USE DEF ProcessesInv
<1> DEFINE last == procs[at][process[at]]
<1>1. /\ node_pc = "init_error" /\ UNCHANGED <<op, at, rpc_connected>>
      /\ op = "assert_start_raises_init_error" /\ running[at] /\ ~rpc_connected[at]
      /\ at \in Processes!Nodes /\ process[at] # 0 /\ process[at] \in DOMAIN procs[at]
  BY DEF Processes!InitError, StepFitsOperation, RunningRefers, ProcessTypes
<1>2. /\ procs' \in [Processes!Nodes -> Seq(ProcessStates)]
      /\ \A n \in Processes!Nodes : DOMAIN procs'[n] = DOMAIN procs[n]
      /\ \A n \in Processes!Nodes : \A p \in DOMAIN procs[n] :
           \/ procs'[n][p] = procs[n][p]
           \/ n = at /\ p = process[n] /\ procs'[n][p] = "killed"
      /\ \/ /\ running' = [running EXCEPT ![at] = FALSE]
            /\ process' = [process EXCEPT ![at] = 0]
            /\ procs'[at][process[at]] \in Processes!Exited
         \/ UNCHANGED <<running, process>>
      /\ node_pc' \in {"idle", "raised"}
  <2>1. CASE last = "exit_failure"
    <3>1. Processes!Forget /\ node_pc' = "idle" /\ UNCHANGED procs
      BY <2>1, <1>1 DEF Processes!InitError, Processes!State
    <3> QED BY <2>1, <3>1 DEF Processes!Forget, Processes!Exited, ProcessTypes
  <2>2. CASE last \in Processes!Exited \ {"exit_failure"}
    <3>1. node_pc' = "raised" /\ UNCHANGED <<running, process, procs>>
      BY <2>2, <1>1 DEF Processes!InitError, Processes!State
    <3> QED BY <3>1 DEF ProcessTypes
  <2>3. CASE last \notin Processes!Exited
    <3>1. /\ procs' = [procs EXCEPT ![at][process[at]] = "killed"]
          /\ Processes!Forget /\ node_pc' = "raised"
      BY <2>3, <1>1 DEF Processes!InitError, Processes!State, Processes!Exited
    <3>2. "killed" \in ProcessStates /\ "killed" \in Processes!Exited
      BY DEF ProcessStates, Processes!Exited
    <3> QED BY <3>1, <3>2, <1>1, OneProcessChanges DEF Processes!Forget
  <2> QED BY <2>1, <2>2, <2>3
<1>3. /\ running' \in [Processes!Nodes -> BOOLEAN]
      /\ \A n \in Processes!Nodes \ {at} : running'[n] = running[n]
      /\ ~running'[at] \/ running' = running
  BY <1>1, <1>2, ZenonT(30) DEF ProcessTypes
<1>4. /\ process' \in [Processes!Nodes -> Nat]
      /\ \A n \in Processes!Nodes \ {at} : process'[n] = process[n]
  BY <1>1, <1>2 DEF ProcessTypes
<1>5. \/ ~running'[at] /\ process'[at] = 0 /\ procs'[at][process[at]] \in Processes!Exited
      \/ running'[at] /\ process'[at] = process[at]
  <2>1. CASE UNCHANGED <<running, process>>
    BY <2>1, <1>1
  <2>2. CASE /\ running' = [running EXCEPT ![at] = FALSE]
             /\ process' = [process EXCEPT ![at] = 0]
             /\ procs'[at][process[at]] \in Processes!Exited
    BY <2>2, <1>1 DEF ProcessTypes
  <2> QED BY <1>2, <2>1, <2>2
<1>6. ProcessTypes'
  <2>1. \A n \in Processes!Nodes : process'[n] = 0 \/ process'[n] \in DOMAIN procs'[n]
    BY <1>1, <1>2, <1>4, <1>5 DEF ProcessTypes
  <2>2. node_pc' \in Steps /\ op' \in Operations /\ at' \in Processes!Nodes
    BY <1>1, <1>2 DEF Steps, ProcessTypes
  <2>3. rpc_connected' \in [Processes!Nodes -> BOOLEAN]
    BY <1>1 DEF ProcessTypes
  <2> QED BY <1>2, <1>3, <1>4, <2>1, <2>2, <2>3 DEF ProcessTypes
<1>7. RunningRefers'
  <2> SUFFICES ASSUME NEW n \in Processes!Nodes PROVE running'[n] <=> process'[n] # 0
    BY DEF RunningRefers
  <2>1. CASE n = at
    BY <2>1, <1>1, <1>5
  <2>2. CASE n # at
    BY <2>2, <1>3, <1>4 DEF RunningRefers
  <2> QED BY <2>1, <2>2
<1>8. OrphansExited'
  <2> SUFFICES ASSUME NEW n \in Processes!Nodes, NEW p \in DOMAIN procs[n], p # process'[n]
               PROVE  procs'[n][p] \in Processes!Exited
    BY <1>2 DEF OrphansExited
  <2>1. CASE p = process[n]
    <3>1. n = at
      BY <2>1, <1>4
    <3> QED BY <2>1, <3>1, <1>5
  <2>2. CASE p # process[n]
    BY <2>2, <1>2 DEF OrphansExited
  <2> QED BY <2>1, <2>2
<1>9. ConnectionsLoaded'
  <2> SUFFICES ASSUME NEW n \in Processes!Nodes, rpc_connected[n]
               PROVE  running'[n] /\ procs'[n][process'[n]] \notin Processes!Starting
    BY <1>1 DEF ConnectionsLoaded
  <2>1. n # at /\ process[n] \in DOMAIN procs[n]
    BY <1>1 DEF ConnectionsLoaded, RunningRefers, ProcessTypes
  <2> QED BY <2>1, <1>2, <1>3, <1>4 DEF ConnectionsLoaded
<1>10. StepFitsOperation'
  BY <1>2 DEF StepFitsOperation
<1> QED BY <1>6, <1>7, <1>8, <1>9, <1>10

\* At the end every process a node refers to is killed.
LEMMA EndKeeps == ProcessesInv /\ Processes!End => ProcessesInv'
<1> SUFFICES ASSUME ProcessesInv, Processes!End PROVE ProcessesInv'
  OBVIOUS
<1> USE DEF ProcessesInv
<1>1. node_pc' = "ended" /\ UNCHANGED <<op, at, running, process, rpc_connected>>
  BY DEF Processes!End
<1>2. \A n \in Processes!Nodes : procs[n] \in Seq(ProcessStates)
  BY DEF ProcessTypes
<1>3. \A n \in Processes!Nodes :
        procs'[n] = [p \in DOMAIN procs[n] |->
                       IF p = process[n] /\ procs[n][p] \notin Processes!Exited
                         THEN "killed" ELSE procs[n][p]]
  BY DEF Processes!End
<1>4. /\ \A n \in Processes!Nodes : DOMAIN procs'[n] = DOMAIN procs[n]
      /\ \A n \in Processes!Nodes : \A p \in DOMAIN procs[n] :
           procs'[n][p] = IF p = process[n] /\ procs[n][p] \notin Processes!Exited
                            THEN "killed" ELSE procs[n][p]
  BY <1>3
<1>5. procs' \in [Processes!Nodes -> Seq(ProcessStates)]
  <2>1. \A n \in Processes!Nodes : procs'[n] \in Seq(ProcessStates)
    <3> TAKE n \in Processes!Nodes
    <3>1. DOMAIN procs[n] = 1 .. Len(procs[n]) /\ Len(procs[n]) \in Nat
      BY <1>2
    <3>2. \A p \in 1 .. Len(procs[n]) : procs'[n][p] \in ProcessStates
      BY <3>1, <1>2, <1>4 DEF ProcessStates, Processes!Exited
    <3>3. procs'[n] \in [1 .. Len(procs[n]) -> ProcessStates]
      BY <3>1, <3>2, <1>3
    <3> QED BY <3>1, <3>3, SeqDef
  <2> QED BY <2>1 DEF Processes!End
<1>6. ProcessTypes'
  <2>1. \A n \in Processes!Nodes : process'[n] = 0 \/ process'[n] \in DOMAIN procs'[n]
    BY <1>1, <1>4 DEF ProcessTypes
  <2> QED BY <1>1, <1>5, <2>1 DEF ProcessTypes, Steps
<1>7. RunningRefers' /\ StepFitsOperation'
  BY <1>1 DEF RunningRefers, StepFitsOperation
<1>8. OrphansExited'
  <2> SUFFICES ASSUME NEW n \in Processes!Nodes, NEW p \in DOMAIN procs[n]
               PROVE  procs'[n][p] \in Processes!Exited
    BY <1>4 DEF OrphansExited
  <2> QED BY <1>4 DEF OrphansExited, Processes!Exited
<1>9. ConnectionsLoaded'
  <2> SUFFICES ASSUME NEW n \in Processes!Nodes, rpc_connected[n]
               PROVE  running[n] /\ procs'[n][process[n]] \notin Processes!Starting
    BY <1>1 DEF ConnectionsLoaded
  <2>1. running[n] /\ process[n] \in DOMAIN procs[n]
        /\ procs[n][process[n]] \notin Processes!Starting
    BY DEF ConnectionsLoaded, RunningRefers, ProcessTypes
  <2> QED BY <1>4, <2>1 DEF Processes!Starting
<1> QED BY <1>6, <1>7, <1>8, <1>9

\* Only a process that its node refers to moves, and one that has loaded does
\* not start again.
LEMMA BitcoindKeeps == ProcessesInv /\ Processes!Bitcoind => ProcessesInv'
<1> SUFFICES ASSUME ProcessesInv, Processes!Bitcoind PROVE ProcessesInv'
  OBVIOUS
<1> USE DEF ProcessesInv
<1>1. UNCHANGED <<op, node_pc, at, running, process, rpc_connected>>
  BY DEF Processes!Bitcoind
<1>1a. PICK n \in Processes!Nodes : \E p \in DOMAIN procs[n] : Processes!Moves(n, p)
  BY DEF Processes!Bitcoind
<1>2. PICK p \in DOMAIN procs[n] : Processes!Moves(n, p)
  BY <1>1a
<1>3. PICK s \in ProcessStates :
        /\ procs' = [procs EXCEPT ![n][p] = s]
        /\ procs[n][p] \notin Processes!Exited
        /\ procs[n][p] \in Processes!Starting \/ s \notin Processes!Starting
  <2>1. procs[n][p] \in ProcessStates
    BY DEF ProcessTypes
  <2>2. CASE procs[n][p] = "init"
    BY <2>2, <1>2 DEF Processes!Moves, ProcessStates, Processes!Starting, Processes!Exited
  <2>3. CASE procs[n][p] = "warmup"
    BY <2>3, <1>2 DEF Processes!Moves, ProcessStates, Processes!Starting, Processes!Exited
  <2>4. CASE procs[n][p] = "importing"
    BY <2>4, <1>2 DEF Processes!Moves, ProcessStates, Processes!Starting, Processes!Exited
  <2>5. CASE procs[n][p] = "up"
    BY <2>5, <1>2 DEF Processes!Moves, ProcessStates, Processes!Starting, Processes!Exited
  <2>6. CASE procs[n][p] = "stopping"
    BY <2>6, <1>2 DEF Processes!Moves, ProcessStates, Processes!Starting, Processes!Exited
  <2>7. CASE procs[n][p] \in Processes!Exited
    BY <2>7, <1>2 DEF Processes!Moves, Processes!Exited
  <2> QED BY <2>1, <2>2, <2>3, <2>4, <2>5, <2>6, <2>7
        DEF ProcessStates, Processes!Starting, Processes!Exited
<1>4. /\ procs' \in [Processes!Nodes -> Seq(ProcessStates)]
      /\ \A m \in Processes!Nodes : DOMAIN procs'[m] = DOMAIN procs[m]
      /\ \A m \in Processes!Nodes : \A q \in DOMAIN procs[m] :
           procs'[m][q] = IF m = n /\ q = p THEN s ELSE procs[m][q]
  BY <1>3, OneProcessChanges
<1>5. p = process[n] /\ node_pc # "ended"
  BY <1>3 DEF OrphansExited
<1>6. ProcessTypes'
  <2>1. \A m \in Processes!Nodes : process'[m] = 0 \/ process'[m] \in DOMAIN procs'[m]
    BY <1>1, <1>4 DEF ProcessTypes
  <2> QED BY <1>1, <1>4, <2>1 DEF ProcessTypes
<1>7. RunningRefers' /\ StepFitsOperation'
  BY <1>1 DEF RunningRefers, StepFitsOperation
<1>8. OrphansExited'
  <2> SUFFICES ASSUME NEW m \in Processes!Nodes, NEW q \in DOMAIN procs[m], q # process[m]
               PROVE  procs'[m][q] \in Processes!Exited
    BY <1>1, <1>4, <1>5 DEF OrphansExited
  <2> QED BY <1>4, <1>5 DEF OrphansExited
<1>9. ConnectionsLoaded'
  <2> SUFFICES ASSUME NEW m \in Processes!Nodes, rpc_connected[m]
               PROVE  running[m] /\ procs'[m][process[m]] \notin Processes!Starting
    BY <1>1 DEF ConnectionsLoaded
  <2>1. running[m] /\ process[m] \in DOMAIN procs[m]
        /\ procs[m][process[m]] \notin Processes!Starting
    BY DEF ConnectionsLoaded, RunningRefers, ProcessTypes
  <2> QED BY <1>3, <1>4, <1>5, <2>1
<1> QED BY <1>6, <1>7, <1>8, <1>9

\* Every step of the test, and of the processes, keeps the invariant.
LEMMA ProcessesNext == ProcessesInv /\ [Processes!Next]_processVars => ProcessesInv'
<1> SUFFICES ASSUME ProcessesInv, [Processes!Next]_processVars PROVE ProcessesInv'
  OBVIOUS
<1>1. CASE Processes!Call
  BY <1>1, CallKeeps
<1>2. CASE Processes!Start
  BY <1>2, StartKeeps
<1>3. CASE Processes!RpcConnection
  BY <1>3, RpcConnectionKeeps
<1>4. CASE Processes!Stop
  BY <1>4, StopKeeps
<1>5. CASE Processes!Stopped
  BY <1>5, StoppedKeeps
<1>6. CASE Processes!InitError
  BY <1>6, InitErrorKeeps
<1>7. CASE Processes!End
  BY <1>7, EndKeeps
<1>8. CASE Processes!Bitcoind
  BY <1>8, BitcoindKeeps
<1>9. CASE UNCHANGED processVars
  BY <1>9 DEF processVars, ProcessesInv, ProcessTypes, RunningRefers, OrphansExited,
              ConnectionsLoaded, StepFitsOperation
<1> QED BY <1>1, <1>2, <1>3, <1>4, <1>5, <1>6, <1>7, <1>8, <1>9 DEF Processes!Next, Processes!Test

-----------------------------------------------------------------------------
(* The RPC proxy: the steps *)

\* What it takes to change one connection.
LEMMA OneConnectionChanges ==
  ASSUME NEW c \in DOMAIN conns, NEW k \in Connections, conns \in Seq(Connections)
  PROVE  /\ [conns EXCEPT ![c] = k] \in Seq(Connections)
         /\ DOMAIN [conns EXCEPT ![c] = k] = DOMAIN conns
         /\ \A d \in DOMAIN conns :
              [conns EXCEPT ![c] = k][d] = IF d = c THEN k ELSE conns[d]
<1>1. c \in 1 .. Len(conns)
  OBVIOUS
<1>2. /\ [conns EXCEPT ![c] = k] \in Seq(Connections)
      /\ Len([conns EXCEPT ![c] = k]) = Len(conns)
  BY <1>1, ExceptSeq
<1> QED BY <1>1, <1>2

\* A sequence of one id: its head, and what is left.
LEMMA OneId ==
  ASSUME NEW i \in Nat
  PROVE  /\ <<i>> \in Seq(Nat) /\ <<i>> # <<>>
         /\ Head(<<i>>) = i /\ Tail(<<i>>) = <<>>
         /\ Append(<<>>, i) = <<i>>
OBVIOUS

\* No call has been made.
LEMMA RpcInit == Rpc!Init => RpcInv
<1> SUFFICES ASSUME Rpc!Init PROVE RpcInv
  OBVIOUS
<1>1. Rpc!NewConnection \in Connections
  BY DEF Rpc!NewConnection, Connections
<1>2. /\ conns = <<Rpc!NewConnection>> /\ conns \in Seq(Connections)
      /\ DOMAIN conns = {1} /\ conns[1] = Rpc!NewConnection
  BY <1>1 DEF Rpc!Init
<1>3. Rpc!NoOutcome \in Outcomes /\ Rpc!NoOutcome.how = "none"
  BY DEF Rpc!NoOutcome, Outcomes
<1>4. RpcTypes
  BY <1>2, <1>3 DEF Rpc!Init, RpcTypes, RpcSteps
<1>5. ConnectionsApart
  BY <1>2 DEF Rpc!Init, ConnectionsApart
<1>6. \A t \in Threads : CallAlone(t)
  BY <1>3 DEF Rpc!Init, CallAlone
<1> QED BY <1>4, <1>5, <1>6 DEF RpcInv

\* What one thread's call says is not disturbed by a step that leaves its step,
\* its id, its connection and its outcome as they are.
LEMMA OthersUndisturbed ==
  ASSUME NEW t \in Threads, CallAlone(t),
         rpc_pc'[t] = rpc_pc[t], id'[t] = id[t],
         conn'[t] = conn[t], outcome'[t] = outcome[t],
         conn[t] # 1 => conns'[conn[t]] = conns[conn[t]]
  PROVE  CallAlone(t)'
BY DEF CallAlone

\* __getattr__ and _get_request: the steps of a call before its connection.
LEMMA PrepareKeeps ==
  ASSUME RpcInv, NEW t \in Threads,
         Rpc!GetAttr(t) \/ Rpc!AddOne(t) \/ Rpc!GetRequest(t)
  PROVE  RpcInv'
<1> USE DEF RpcInv
<1>1. UNCHANGED conns
  BY DEF Rpc!GetAttr, Rpc!AddOne, Rpc!GetRequest
<1>2. Rpc!NoOutcome \in Outcomes /\ Rpc!NoOutcome.how = "none"
  BY DEF Rpc!NoOutcome, Outcomes
<1>3. RpcTypes'
  <2>1. 1 \in DOMAIN conns
    BY DEF ConnectionsApart
  <2>2. CASE Rpc!GetAttr(t)
    BY <1>1, <1>2, <2>1, <2>2 DEF RpcTypes, RpcSteps, Rpc!GetAttr
  <2>3. CASE Rpc!AddOne(t)
    BY <1>1, <2>3 DEF RpcTypes, RpcSteps, Rpc!AddOne
  <2>4. CASE Rpc!GetRequest(t)
    BY <1>1, <2>4 DEF RpcTypes, RpcSteps, Rpc!GetRequest
  <2> QED BY <2>2, <2>3, <2>4
<1>4. /\ \A u \in Threads : conn'[u] = conn[u] \/ (u = t /\ conn'[u] = 1)
      /\ \A u \in Threads \ {t} :
           /\ rpc_pc'[u] = rpc_pc[u] /\ id'[u] = id[u]
           /\ conn'[u] = conn[u] /\ outcome'[u] = outcome[u]
      /\ rpc_pc'[t] \in {"add", "get_request", "set_conn"}
      /\ outcome'[t] = Rpc!NoOutcome
  BY DEF RpcTypes, Rpc!GetAttr, Rpc!AddOne, Rpc!GetRequest, CallAlone, RpcSteps
<1>5. ConnectionsApart'
  BY <1>1, <1>4 DEF ConnectionsApart
<1>6. ASSUME NEW u \in Threads PROVE CallAlone(u)'
  <2>1. CASE u = t
    BY <2>1, <1>2, <1>4 DEF CallAlone
  <2>2. CASE u # t
    <3>1. CallAlone(u)
      OBVIOUS
    <3> QED BY <3>1, <2>2, <1>1, <1>4, OthersUndisturbed
  <2> QED BY <2>1, <2>2
<1> QED BY <1>3, <1>5, <1>6

\* auth_proxy_request gives the thread a connection of its own.
LEMMA SetConnKeeps ==
  ASSUME RpcInv, NEW t \in Threads, Rpc!SetConn(t)
  PROVE  RpcInv'
<1> USE DEF RpcInv
<1> DEFINE new == Len(conns) + 1
<1>1. /\ conns \in Seq(Connections) /\ conns' = Append(conns, Rpc!NewConnection)
      /\ 1 \in DOMAIN conns /\ Rpc!NewConnection \in Connections
      /\ rpc_pc[t] = "set_conn" /\ "set_conn" \in RpcSteps \ {"idle"}
      /\ UNCHANGED <<id_count, loaded, id, outcome>>
  BY DEF Rpc!SetConn, RpcTypes, ConnectionsApart, Rpc!NewConnection, Connections, RpcSteps
<1>2. /\ conns' \in Seq(Connections) /\ DOMAIN conns' = 1 .. new /\ DOMAIN conns = 1 .. new - 1
      /\ conns'[new] = Rpc!NewConnection
      /\ \A c \in DOMAIN conns : conns'[c] = conns[c] /\ c # new
      /\ new \in Nat /\ new # 1
  BY <1>1
<1>3. /\ conn' = [conn EXCEPT ![t] = new] /\ conn \in [Threads -> DOMAIN conns]
      /\ rpc_pc' = [rpc_pc EXCEPT ![t] = "request"] /\ rpc_pc \in [Threads -> RpcSteps]
  BY DEF Rpc!SetConn, RpcTypes
<1>4. /\ conn'[t] = new /\ \A u \in Threads \ {t} : conn'[u] = conn[u]
      /\ rpc_pc'[t] = "request" /\ \A u \in Threads \ {t} : rpc_pc'[u] = rpc_pc[u]
      /\ conn' \in [Threads -> DOMAIN conns']
      /\ rpc_pc' \in [Threads -> RpcSteps]
  <2>1. DOMAIN conns \subseteq DOMAIN conns' /\ new \in DOMAIN conns'
    BY <1>2
  <2>2. conn' \in [Threads -> DOMAIN conns']
    BY <2>1, <1>3
  <2> QED BY <2>2, <1>3 DEF RpcSteps
<1>5. RpcTypes'
  BY <1>1, <1>2, <1>4 DEF RpcTypes
<1>6. ConnectionsApart'
  <2>1. \A u \in Threads \ {t} : conn'[u] \in DOMAIN conns /\ conn'[u] # new
    BY <1>2, <1>3, <1>4
  <2>2. 1 \in DOMAIN conns' /\ conns'[1] = Rpc!NewConnection
    BY <1>1, <1>2 DEF ConnectionsApart
  <2>3. \A u, v \in Threads : u # v /\ conn'[u] = conn'[v] => conn'[u] = 1
    BY <2>1, <1>4 DEF ConnectionsApart
  <2> QED BY <2>2, <2>3 DEF ConnectionsApart
<1>7. ASSUME NEW u \in Threads PROVE CallAlone(u)'
  <2>1. CASE u = t
    <3>1. outcome[t] = Rpc!NoOutcome /\ Rpc!NoOutcome.how = "none"
      BY <1>1 DEF CallAlone, Rpc!NoOutcome
    <3> QED BY <2>1, <3>1, <1>1, <1>2, <1>4 DEF CallAlone
  <2>2. CASE u # t
    <3>1. conn[u] \in DOMAIN conns
      BY DEF RpcTypes
    <3>2. CallAlone(u)
      OBVIOUS
    <3> QED BY <2>2, <3>1, <3>2, <1>1, <1>2, <1>4, OthersUndisturbed
  <2> QED BY <2>1, <2>2
<1> QED BY <1>5, <1>6, <1>7

\* A thread's step on its own connection leaves those of the others alone.
LEMMA OwnConnectionOnly ==
  ASSUME RpcInv, NEW t \in Threads, conn[t] # 1, NEW k \in Connections,
         conns' = [conns EXCEPT ![conn[t]] = k], conn' = conn
  PROVE  /\ conns' \in Seq(Connections) /\ DOMAIN conns' = DOMAIN conns
         /\ conns'[conn[t]] = k
         /\ ConnectionsApart'
         /\ \A u \in Threads \ {t} : conn[u] # 1 => conns'[conn[u]] = conns[conn[u]]
<1>1. conn[t] \in DOMAIN conns /\ conns \in Seq(Connections)
      /\ \A u \in Threads : conn[u] \in DOMAIN conns
  BY DEF RpcInv, RpcTypes
<1>2. /\ conns' \in Seq(Connections) /\ DOMAIN conns' = DOMAIN conns
      /\ \A d \in DOMAIN conns : conns'[d] = IF d = conn[t] THEN k ELSE conns[d]
  BY <1>1, OneConnectionChanges
<1> QED BY <1>1, <1>2 DEF RpcInv, ConnectionsApart

\* The request goes out on a connection nothing was sent on: it is not refused.
LEMMA RequestKeeps ==
  ASSUME RpcInv, NEW t \in Threads, Rpc!Request(t)
  PROVE  RpcInv'
<1> USE DEF RpcInv
<1>1. /\ rpc_pc[t] = "request" /\ conn[t] # 1 /\ conns[conn[t]] = Rpc!NewConnection
      /\ outcome[t] = Rpc!NoOutcome /\ id[t] \in Nat
      /\ CallAlone(t)
  BY DEF Rpc!Request, CallAlone, RpcTypes, RpcSteps
<1>2. /\ conns[conn[t]].sent = FALSE /\ conns[conn[t]].asked = <<>>
      /\ conns[conn[t]].answers = <<>>
  BY <1>1 DEF Rpc!NewConnection
<1> DEFINE k == [conns[conn[t]] EXCEPT !.sent = TRUE, !.asked = Append(@, id[t])]
<1>3. k \in Connections /\ k.asked = <<id[t]>> /\ k.answers = <<>>
  <2>1. conns[conn[t]] \in Connections
    BY DEF RpcTypes
  <2>2. Append(<<>>, id[t]) = <<id[t]>> /\ <<id[t]>> \in Seq(Nat)
    BY <1>1, OneId
  <2> QED BY <2>1, <2>2, <1>2 DEF Connections
<1>4. /\ conns' = [conns EXCEPT ![conn[t]].sent = TRUE, ![conn[t]].asked = Append(@, id[t])]
      /\ rpc_pc' = [rpc_pc EXCEPT ![t] = "_get_response"]
      /\ UNCHANGED <<id_count, loaded, id, conn, outcome>>
  BY <1>2 DEF Rpc!Request
<1>5. conns' = [conns EXCEPT ![conn[t]] = k]
  <2>1. conns \in Seq(Connections) /\ conn[t] \in DOMAIN conns
    BY DEF RpcTypes
  <2> QED BY <2>1, <1>4 DEF Connections
<1>6. /\ conns' \in Seq(Connections) /\ DOMAIN conns' = DOMAIN conns
      /\ conns'[conn[t]] = k
      /\ ConnectionsApart'
      /\ \A u \in Threads \ {t} : conn[u] # 1 => conns'[conn[u]] = conns[conn[u]]
  BY <1>1, <1>3, <1>4, <1>5, OwnConnectionOnly
<1>7. /\ rpc_pc' \in [Threads -> RpcSteps] /\ rpc_pc'[t] = "_get_response"
      /\ \A u \in Threads \ {t} : rpc_pc'[u] = rpc_pc[u]
  BY <1>4 DEF RpcTypes, RpcSteps
<1>8. RpcTypes'
  BY <1>4, <1>6, <1>7 DEF RpcTypes
<1>9. ASSUME NEW u \in Threads PROVE CallAlone(u)'
  <2>1. CASE u = t
    <3>1. k.asked = <<id[t]>> /\ k.answers = <<>>
      BY <1>3
    <3>2. Rpc!NoOutcome.how = "none"
      BY DEF Rpc!NoOutcome
    <3> QED BY <2>1, <3>1, <3>2, <1>1, <1>4, <1>6, <1>7 DEF CallAlone
  <2>2. CASE u # t
    <3>1. CallAlone(u)
      OBVIOUS
    <3> QED BY <2>2, <3>1, <1>4, <1>6, <1>7, OthersUndisturbed
  <2> QED BY <2>1, <2>2
<1> QED BY <1>6, <1>8, <1>9

\* The answer read is the one to this call, and no other is left behind.
LEMMA GetResponseKeeps ==
  ASSUME RpcInv, NEW t \in Threads, Rpc!GetResponse(t)
  PROVE  RpcInv'
<1> USE DEF RpcInv
<1>1. /\ rpc_pc[t] = "_get_response" /\ conns[conn[t]].answers # <<>>
      /\ CallAlone(t) /\ id[t] \in Nat
  BY DEF Rpc!GetResponse, RpcTypes
<1>2. /\ conn[t] # 1 /\ conns[conn[t]].asked = <<>> /\ conns[conn[t]].answers = <<id[t]>>
  BY <1>1 DEF CallAlone
<1>3. Head(<<id[t]>>) = id[t] /\ Tail(<<id[t]>>) = <<>>
  BY <1>1, OneId
<1> DEFINE k == [conns[conn[t]] EXCEPT !.answers = Tail(@), !.sent = FALSE]
<1>4. PICK how \in {"result", "JSONRPCException"} : Rpc!End(t, how, id[t])
  BY <1>2, <1>3 DEF Rpc!GetResponse
<1>5. /\ outcome' = [outcome EXCEPT ![t] = [how |-> how, id |-> id[t]]]
      /\ rpc_pc' = [rpc_pc EXCEPT ![t] = "idle"]
      /\ UNCHANGED <<id_count, loaded, id, conn>>
  BY <1>4 DEF Rpc!End
<1>6. conns' = [conns EXCEPT ![conn[t]] = k]
  <2>1. conns \in Seq(Connections) /\ conn[t] \in DOMAIN conns
    BY DEF RpcTypes
  <2>2. conns' = [conns EXCEPT ![conn[t]].answers = Tail(@), ![conn[t]].sent = FALSE]
    BY DEF Rpc!GetResponse
  <2> QED BY <2>1, <2>2 DEF Connections
<1>7. k \in Connections /\ k.asked = <<>> /\ k.answers = <<>>
  <2>1. conns[conn[t]] \in Connections
    BY DEF RpcTypes
  <2> QED BY <2>1, <1>2, <1>3 DEF Connections
<1>8. /\ conns' \in Seq(Connections) /\ DOMAIN conns' = DOMAIN conns
      /\ conns'[conn[t]] = k
      /\ ConnectionsApart'
      /\ \A u \in Threads \ {t} : conn[u] # 1 => conns'[conn[u]] = conns[conn[u]]
  BY <1>2, <1>5, <1>6, <1>7, OwnConnectionOnly
<1>9. /\ rpc_pc' \in [Threads -> RpcSteps] /\ rpc_pc'[t] = "idle"
      /\ \A u \in Threads \ {t} : rpc_pc'[u] = rpc_pc[u]
  BY <1>5 DEF RpcTypes, RpcSteps
<1>10. /\ outcome' \in [Threads -> Outcomes]
       /\ outcome'[t] = [how |-> how, id |-> id[t]]
       /\ \A u \in Threads \ {t} : outcome'[u] = outcome[u]
  BY <1>1, <1>5 DEF RpcTypes, Outcomes
<1>11. RpcTypes'
  BY <1>5, <1>8, <1>9, <1>10 DEF RpcTypes
<1>12. ASSUME NEW u \in Threads PROVE CallAlone(u)'
  <2>1. CASE u = t
    <3>1. k.asked = <<>> /\ k.answers = <<>>
      BY <1>7
    <3> QED BY <2>1, <3>1, <1>2, <1>5, <1>8, <1>9, <1>10 DEF CallAlone
  <2>2. CASE u # t
    <3>1. CallAlone(u)
      OBVIOUS
    <3> QED BY <2>2, <3>1, <1>5, <1>8, <1>9, <1>10, OthersUndisturbed
  <2> QED BY <2>1, <2>2
<1> QED BY <1>8, <1>11, <1>12

\* A call that is given up leaves its request on a connection nobody else has.
LEMMA ResponseTimesOutKeeps ==
  ASSUME RpcInv, NEW t \in Threads, Rpc!ResponseTimesOut(t)
  PROVE  RpcInv'
<1> USE DEF RpcInv
<1>1. /\ outcome' = [outcome EXCEPT ![t] = [how |-> "timeout", id |-> 0]]
      /\ rpc_pc' = [rpc_pc EXCEPT ![t] = "idle"]
      /\ UNCHANGED <<id_count, loaded, id, conn, conns>>
  BY DEF Rpc!ResponseTimesOut, Rpc!End
<1>2. /\ rpc_pc' \in [Threads -> RpcSteps] /\ rpc_pc'[t] = "idle"
      /\ \A u \in Threads \ {t} : rpc_pc'[u] = rpc_pc[u]
  BY <1>1 DEF RpcTypes, RpcSteps
<1>3. /\ outcome' \in [Threads -> Outcomes]
      /\ outcome'[t] = [how |-> "timeout", id |-> 0]
      /\ \A u \in Threads \ {t} : outcome'[u] = outcome[u]
  BY <1>1 DEF RpcTypes, Outcomes
<1>4. RpcTypes' /\ ConnectionsApart'
  BY <1>1, <1>2, <1>3 DEF RpcTypes, ConnectionsApart
<1>5. ASSUME NEW u \in Threads PROVE CallAlone(u)'
  <2>1. CASE u = t
    BY <2>1, <1>2, <1>3 DEF CallAlone
  <2>2. CASE u # t
    <3>1. CallAlone(u)
      OBVIOUS
    <3> QED BY <2>2, <3>1, <1>1, <1>2, <1>3, OthersUndisturbed
  <2> QED BY <2>1, <2>2
<1> QED BY <1>4, <1>5

\* The node answers what was asked on a connection, for the call that is there.
LEMMA NodeAnswersKeeps == RpcInv /\ Rpc!NodeAnswers => RpcInv'
<1> SUFFICES ASSUME RpcInv, Rpc!NodeAnswers PROVE RpcInv'
  OBVIOUS
<1> USE DEF RpcInv
<1>1. PICK c \in DOMAIN conns :
        /\ conns[c].asked # <<>>
        /\ conns' = [conns EXCEPT ![c].asked = Tail(@),
                                  ![c].answers = Append(@, Head(conns[c].asked))]
        /\ UNCHANGED <<rpc_pc, id_count, loaded, id, conn, calls, outcome>>
  BY DEF Rpc!NodeAnswers
<1> DEFINE k == [conns[c] EXCEPT !.asked = Tail(@), !.answers = Append(@, Head(conns[c].asked))]
<1>2. conns \in Seq(Connections) /\ conns[c] \in Connections
  BY DEF RpcTypes
<1>3. /\ k \in Connections
      /\ k.asked = Tail(conns[c].asked)
      /\ k.answers = Append(conns[c].answers, Head(conns[c].asked))
  <2>1. conns[c].asked \in Seq(Nat) /\ conns[c].answers \in Seq(Nat)
    BY <1>2 DEF Connections
  <2>2. Tail(conns[c].asked) \in Seq(Nat) /\ Append(conns[c].answers, Head(conns[c].asked)) \in Seq(Nat)
    BY <2>1, <1>1
  <2> QED BY <2>2, <1>2 DEF Connections
<1>4. conns' = [conns EXCEPT ![c] = k]
  BY <1>1, <1>2 DEF Connections
<1>5. /\ conns' \in Seq(Connections) /\ DOMAIN conns' = DOMAIN conns
      /\ \A d \in DOMAIN conns : conns'[d] = IF d = c THEN k ELSE conns[d]
  BY <1>2, <1>3, <1>4, OneConnectionChanges
<1>6. c # 1
  BY <1>1 DEF ConnectionsApart, Rpc!NewConnection
<1>7. RpcTypes' /\ ConnectionsApart'
  BY <1>1, <1>5, <1>6 DEF RpcTypes, ConnectionsApart
<1>8. ASSUME NEW u \in Threads PROVE CallAlone(u)'
  <2>1. CallAlone(u) /\ conn[u] \in DOMAIN conns /\ id[u] \in Nat
    BY DEF RpcTypes
  <2>2. CASE conn[u] # c
    BY <2>1, <2>2, <1>1, <1>5, OthersUndisturbed
  <2>3. CASE conn[u] = c
    <3>1. rpc_pc[u] # "request"
      BY <2>1, <2>3, <1>1 DEF CallAlone, Rpc!NewConnection
    <3>2. outcome[u].how \notin {"result", "JSONRPCException"}
      BY <2>1, <2>3, <1>1 DEF CallAlone
    <3>3. CASE rpc_pc[u] = "_get_response"
      <4>1. conns[c].asked = <<id[u]>> /\ conns[c].answers = <<>>
        BY <2>1, <2>3, <3>3, <1>1 DEF CallAlone
      <4>2. k.asked = <<>> /\ k.answers = <<id[u]>>
        BY <4>1, <1>3, <2>1, OneId
      <4> QED BY <4>2, <2>1, <2>3, <3>2, <3>3, <1>1, <1>5, <1>6 DEF CallAlone
    <3>4. CASE rpc_pc[u] # "_get_response"
      BY <2>1, <3>1, <3>2, <3>4, <1>1 DEF CallAlone
    <3> QED BY <3>3, <3>4
  <2> QED BY <2>2, <2>3
<1> QED BY <1>7, <1>8

\* Every step of a thread, and of the node, keeps the invariant.
LEMMA RpcNext == RpcInv /\ [Rpc!Next]_rpcVars => RpcInv'
<1> SUFFICES ASSUME RpcInv, [Rpc!Next]_rpcVars PROVE RpcInv'
  OBVIOUS
<1>1. ASSUME NEW t \in Threads, Rpc!GetAttr(t) \/ Rpc!AddOne(t) \/ Rpc!GetRequest(t)
      PROVE  RpcInv'
  BY <1>1, PrepareKeeps
<1>2. ASSUME NEW t \in Threads, Rpc!SetConn(t) PROVE RpcInv'
  BY <1>2, SetConnKeeps
<1>3. ASSUME NEW t \in Threads, Rpc!Request(t) PROVE RpcInv'
  BY <1>3, RequestKeeps
<1>4. ASSUME NEW t \in Threads, Rpc!GetResponse(t) PROVE RpcInv'
  BY <1>4, GetResponseKeeps
<1>5. ASSUME NEW t \in Threads, Rpc!ResponseTimesOut(t) PROVE RpcInv'
  BY <1>5, ResponseTimesOutKeeps
<1>6. CASE Rpc!NodeAnswers
  BY <1>6, NodeAnswersKeeps
<1>7. CASE UNCHANGED rpcVars
  BY <1>7 DEF rpcVars, RpcInv, RpcTypes, ConnectionsApart, CallAlone
<1> QED BY <1>1, <1>2, <1>3, <1>4, <1>5, <1>6, <1>7 DEF Rpc!Next, Rpc!Thread

-----------------------------------------------------------------------------
(* connect_nodes and disconnect_nodes: the steps *)

\* ConnectNodes counts with the library's Cardinality.
LEMMA SameCardinality == \A S : Connect!Cardinality(S) = Cardinality(S)
BY DEF Connect!Cardinality, Cardinality

\* Among the peers an end counts at a stage, one more than the other peers it
\* lists can only be there if the link has come to that stage.
LEMMA OneMoreIsTheLink ==
  ASSUME NEW e \in Connect!Ends, NEW stage \in 0 .. 3,
         Connect!Count(e, stage) = 1 + Cardinality(PeersOf(e)), LinkTypes
  PROVE  link[e] >= stage
<1> DEFINE late == {o \in Others : other[e][o] >= stage}
<1>1. \A o \in Others : other[e][o] \in -1 .. 3
  BY DEF LinkTypes, Stages, Connect!Absent, Connect!Pong
<1>2. late \subseteq PeersOf(e)
  BY <1>1 DEF PeersOf, Connect!Connecting
<1>3. IsFiniteSet(PeersOf(e))
  BY OthersAssumption, FS_Subset DEF PeersOf
<1>4. Cardinality(late) <= Cardinality(PeersOf(e)) /\ IsFiniteSet(late)
  BY <1>2, <1>3, FS_Subset
<1>5. Cardinality(late) \in Nat /\ Cardinality(PeersOf(e)) \in Nat
  BY <1>3, <1>4, FS_CardinalityType
<1> SUFFICES ASSUME ~(link[e] >= stage) PROVE FALSE
  OBVIOUS
<1>6. Connect!Count(e, stage) = Cardinality(late)
  <2>1. Connect!Count(e, stage) = Cardinality(late) + (IF link[e] >= stage THEN 1 ELSE 0)
    BY SameCardinality, Zenon DEF Connect!Count
  <2>2. (IF link[e] >= stage THEN 1 ELSE 0) = 0
    OBVIOUS
  <2> HIDE DEF late
  <2> QED BY <2>1, <2>2, <1>5
<1> QED BY <1>4, <1>5, <1>6

\* An end that does not have the link counts the other peers it lists.
LEMMA WithoutTheLink ==
  ASSUME NEW e \in Connect!Ends, link[e] = Connect!Absent
  PROVE  /\ Connect!Count(e, Connect!Connecting) = Cardinality(PeersOf(e))
         /\ Cardinality(PeersOf(e)) \in Nat
<1>1. Cardinality(PeersOf(e)) \in Nat
  BY OthersAssumption, FS_Subset, FS_CardinalityType DEF PeersOf
<1>2. (IF link[e] >= Connect!Connecting THEN 1 ELSE 0) = 0
  BY DEF Connect!Absent, Connect!Connecting
<1>3. Connect!Count(e, Connect!Connecting)
        = Cardinality(PeersOf(e)) + (IF link[e] >= Connect!Connecting THEN 1 ELSE 0)
  BY SameCardinality, Zenon DEF Connect!Count, PeersOf
<1> QED BY <1>1, <1>2, <1>3

\* Connect!Count is a number.
LEMMA CountIsInt == \A e \in Connect!Ends : Connect!Count(e, Connect!Connecting) \in Int
<1> TAKE e \in Connect!Ends
<1>1. Cardinality(PeersOf(e)) \in Nat
  BY OthersAssumption, FS_Subset, FS_CardinalityType DEF PeersOf
<1>2. Connect!Count(e, Connect!Connecting)
        = Cardinality(PeersOf(e)) + (IF link[e] >= Connect!Connecting THEN 1 ELSE 0)
  BY SameCardinality, Zenon DEF Connect!Count, PeersOf
<1> QED BY <1>1, <1>2

\* No call has been made.
LEMMA ConnectInit == Connect!Init => ConnectInv
<1> SUFFICES ASSUME Connect!Init PROVE ConnectInv
  OBVIOUS
<1>1. {Connect!Absent, Connect!Pong} \subseteq Stages
  BY DEF Connect!Absent, Connect!Pong, Stages
<1>2. LinkTypes
  BY <1>1 DEF Connect!Init, LinkTypes, LinkSteps
<1>3. ExpectsOneMore /\ LinkFitsStep
  BY DEF Connect!Init, ExpectsOneMore, LinkFitsStep
<1> QED BY <1>2, <1>3 DEF ConnectInv

\* from_num_peers and to_num_peers, read while the link is not there.
LEMMA CountKeeps == ConnectInv /\ (Connect!CountFrom \/ Connect!CountTo) => ConnectInv'
<1> SUFFICES ASSUME ConnectInv, Connect!CountFrom \/ Connect!CountTo PROVE ConnectInv'
  OBVIOUS
<1> USE DEF ConnectInv
<1>1. "from" \in Connect!Ends /\ "to" \in Connect!Ends
      /\ \A e \in Connect!Ends : e \in {"from", "to"}
  BY DEF Connect!Ends
<1>2. CASE Connect!CountFrom
  <2>1. /\ link_pc' = "count_to" /\ UNCHANGED <<wait, ids, link, other, moves>>
        /\ quiet' = (link["from"] = Connect!Absent /\ link["to"] = Connect!Absent)
        /\ expected' = [expected EXCEPT !["from"] = 1 + Connect!Count("from", Connect!Connecting)]
    BY <1>2 DEF Connect!CountFrom
  <2>2. /\ expected' \in [Connect!Ends -> Int]
        /\ expected'["from"] = 1 + Connect!Count("from", Connect!Connecting)
    BY <1>1, <2>1, CountIsInt DEF LinkTypes
  <2>3. quiet' \in BOOLEAN
    BY <2>1
  <2>4. LinkTypes'
    BY <2>1, <2>2, <2>3 DEF LinkTypes, LinkSteps
  <2>5. PeersOf("from")' = PeersOf("from")
    BY <2>1 DEF PeersOf
  <2>6. ExpectsOneMore'
    BY <1>1, <2>1, <2>2, <2>5, WithoutTheLink DEF ExpectsOneMore
  <2>7. LinkFitsStep'
    BY <1>1, <2>1 DEF LinkFitsStep
  <2> QED BY <2>4, <2>6, <2>7
<1>3. CASE Connect!CountTo
  <2>1. /\ link_pc = "count_to" /\ link_pc' = "addnode"
        /\ UNCHANGED <<wait, ids, link, other, moves, quiet>>
        /\ expected' = [expected EXCEPT !["to"] = 1 + Connect!Count("to", Connect!Connecting)]
    BY <1>3 DEF Connect!CountTo, Connect!network
  <2>2. /\ expected' \in [Connect!Ends -> Int]
        /\ expected'["to"] = 1 + Connect!Count("to", Connect!Connecting)
        /\ expected'["from"] = expected["from"]
    BY <1>1, <2>1, CountIsInt DEF LinkTypes
  <2>3. LinkTypes'
    BY <2>1, <2>2 DEF LinkTypes, LinkSteps
  <2>4. PeersOf("from")' = PeersOf("from") /\ PeersOf("to")' = PeersOf("to")
    BY <2>1 DEF PeersOf
  <2>5. quiet => \A e \in Connect!Ends : link[e] = Connect!Absent
    BY <2>1 DEF LinkFitsStep
  <2>6. ExpectsOneMore'
    BY <1>1, <2>1, <2>2, <2>4, <2>5, WithoutTheLink DEF ExpectsOneMore
  <2>7. LinkFitsStep'
    BY <2>1, <2>5 DEF LinkFitsStep
  <2> QED BY <2>3, <2>6, <2>7
<1> QED BY <1>2, <1>3

\* addnode opens a link that is not there at either end.
LEMMA AddNodeKeeps == ConnectInv /\ Connect!AddNode => ConnectInv'
<1> SUFFICES ASSUME ConnectInv, Connect!AddNode PROVE ConnectInv'
  OBVIOUS
<1> USE DEF ConnectInv
<1>1. /\ link_pc = "addnode" /\ link_pc' = "wait" /\ wait' = 1
      /\ UNCHANGED <<expected, ids, other, moves, quiet>>
      /\ link' = IF link["from"] = Connect!Absent THEN [e \in Connect!Ends |-> Connect!Connecting]
                 ELSE link
  BY DEF Connect!AddNode
<1>2. Connect!Connecting \in Stages /\ Connect!Connecting >= Connect!Connecting
  BY DEF Connect!Absent, Connect!Pong, Connect!Connecting, Stages
<1>3. link' \in [Connect!Ends -> Stages]
  BY <1>1, <1>2 DEF LinkTypes
<1>4. LinkTypes'
  BY <1>1, <1>3 DEF LinkTypes, LinkSteps
<1>5. PeersOf("from")' = PeersOf("from") /\ PeersOf("to")' = PeersOf("to")
  BY <1>1 DEF PeersOf
<1>6. ExpectsOneMore'
  BY <1>1, <1>5 DEF ExpectsOneMore
<1>7. LinkFitsStep'
  <2>1. quiet => link' = [e \in Connect!Ends |-> Connect!Connecting]
    BY <1>1 DEF LinkFitsStep, Connect!Ends
  <2> QED BY <1>1, <1>2, <2>1 DEF LinkFitsStep
<1> QED BY <1>4, <1>6, <1>7

\* A wait ends when the end it asks counts one more; if none but the link came,
\* that one is the link.
LEMMA WaitOverKeeps == ConnectInv /\ Connect!WaitOver => ConnectInv'
<1> SUFFICES ASSUME ConnectInv, Connect!WaitOver PROVE ConnectInv'
  OBVIOUS
<1> USE DEF ConnectInv
<1>1. /\ link_pc = "wait" /\ Connect!WaitHolds
      /\ UNCHANGED <<expected, ids, link, other, moves, quiet>>
      /\ IF wait = 6 THEN link_pc' = "connected" /\ wait' = wait
                     ELSE wait' = wait + 1 /\ link_pc' = link_pc
      /\ wait \in 1 .. 6
  BY DEF Connect!WaitOver, Connect!network, LinkTypes
<1>2. wait' \in 0 .. 6 /\ wait' # 0
  BY <1>1
<1>3. link_pc' \in LinkSteps
  BY <1>1 DEF LinkSteps
<1>4. LinkTypes'
  BY <1>1, <1>2, <1>3 DEF LinkTypes
<1>5. PeersOf("from")' = PeersOf("from") /\ PeersOf("to")' = PeersOf("to")
  BY <1>1 DEF PeersOf
<1>6. ExpectsOneMore'
  BY <1>1, <1>5 DEF ExpectsOneMore
<1>7. "from" \in Connect!Ends /\ "to" \in Connect!Ends
      /\ \A e \in Connect!Ends : e \in {"from", "to"}
  BY DEF Connect!Ends
<1>8. \A e \in Connect!Ends : link[e] \in -1 .. 3
  BY DEF LinkTypes, Stages, Connect!Absent, Connect!Pong
<1>9. wait = 5 => Connect!WaitEnd = "from" /\ Connect!WaitStage = 3
  BY DEF Connect!WaitEnd, Connect!WaitStage
<1>10. wait = 6 => Connect!WaitEnd = "to" /\ Connect!WaitStage = 3
  BY DEF Connect!WaitEnd, Connect!WaitStage
<1>11. quiet /\ wait = 5 => link["from"] = Connect!Pong
  <2> SUFFICES ASSUME quiet, wait = 5 PROVE link["from"] = Connect!Pong
    OBVIOUS
  <2>1. Connect!Count("from", 3) = 1 + Cardinality(PeersOf("from"))
    BY <1>1, <1>9 DEF Connect!WaitHolds, ExpectsOneMore
  <2>2. link["from"] >= 3
    BY <2>1, <1>7, OneMoreIsTheLink
  <2> QED BY <2>2, <1>7, <1>8 DEF Connect!Pong
<1>12. quiet /\ wait = 6 => link["to"] = Connect!Pong
  <2> SUFFICES ASSUME quiet, wait = 6 PROVE link["to"] = Connect!Pong
    OBVIOUS
  <2>1. Connect!Count("to", 3) = 1 + Cardinality(PeersOf("to"))
    BY <1>1, <1>10 DEF Connect!WaitHolds, ExpectsOneMore
  <2>2. link["to"] >= 3
    BY <2>1, <1>7, OneMoreIsTheLink
  <2> QED BY <2>2, <1>7, <1>8 DEF Connect!Pong
<1>13. LinkFitsStep'
  <2>1. CASE wait = 6
    BY <2>1, <1>1, <1>7, <1>12 DEF LinkFitsStep
  <2>2. CASE wait # 6
    <3>1. wait' = 6 => wait = 5
      BY <2>2, <1>1
    <3> QED BY <2>2, <3>1, <1>1, <1>11 DEF LinkFitsStep
  <2> QED BY <2>1, <2>2
<1> QED BY <1>4, <1>6, <1>13

\* The rest of the script: a wait is given up, or disconnect_nodes runs.
LEMMA DisconnectKeeps ==
  ConnectInv /\ (Connect!WaitTimeout \/ Connect!PeerIds \/ Connect!Disconnect \/ Connect!Disconnected)
    => ConnectInv'
<1> SUFFICES ASSUME ConnectInv,
                    \/ Connect!WaitTimeout \/ Connect!PeerIds
                    \/ Connect!Disconnect \/ Connect!Disconnected
             PROVE  ConnectInv'
  OBVIOUS
<1> USE DEF ConnectInv
<1>1. Connect!Absent \in Stages
  BY DEF Stages, Connect!Absent, Connect!Pong
<1>2. CASE Connect!WaitTimeout
  <2>1. link_pc' = "failed" /\ UNCHANGED <<wait, expected, ids, link, other, moves, quiet>>
    BY <1>2 DEF Connect!WaitTimeout, Connect!network
  <2> QED BY <2>1 DEF LinkTypes, LinkSteps, ExpectsOneMore, LinkFitsStep
<1>3. CASE Connect!PeerIds
  <2>1. link_pc' \in {"warned", "disconnect"} /\ UNCHANGED <<wait, expected, link, other, moves, quiet>>
    BY <1>3 DEF Connect!PeerIds, Connect!network
  <2> QED BY <2>1 DEF LinkTypes, LinkSteps, ExpectsOneMore, LinkFitsStep
<1>4. CASE Connect!Disconnect
  <2>1. /\ link_pc' \in {"disconnect", "gone_from"} /\ UNCHANGED <<wait, expected, moves, quiet>>
        /\ link' = link \/ link' = [link EXCEPT !["from"] = Connect!Absent]
        /\ other' = other \/ \E o \in ids : other' = [other EXCEPT !["from"][o] = Connect!Absent]
    BY <1>4 DEF Connect!Disconnect
  <2>2. link' \in [Connect!Ends -> Stages]
    BY <1>1, <2>1 DEF LinkTypes
  <2>3. other' \in [Connect!Ends -> [Others -> Stages]]
    <3>1. other \in [Connect!Ends -> [Others -> Stages]]
      BY DEF LinkTypes
    <3>2. ASSUME NEW o, other' = [other EXCEPT !["from"][o] = Connect!Absent]
          PROVE  other' \in [Connect!Ends -> [Others -> Stages]]
      <4>1. "from" \in Connect!Ends
        BY DEF Connect!Ends
      <4>2. [other["from"] EXCEPT ![o] = Connect!Absent] \in [Others -> Stages]
        BY <1>1, <3>1, <4>1
      <4>3. other' = [other EXCEPT !["from"] = [other["from"] EXCEPT ![o] = Connect!Absent]]
        BY <3>1, <3>2
      <4> QED BY <3>1, <4>2, <4>3
    <3> QED BY <2>1, <3>1, <3>2
  <2> QED BY <2>1, <2>2, <2>3 DEF LinkTypes, LinkSteps, ExpectsOneMore, LinkFitsStep
<1>5. CASE Connect!Disconnected
  <2>1. /\ \/ link["from"] = Connect!Absent /\ link_pc' = "gone_to"
           \/ link_pc = "gone_to" /\ link["to"] = Connect!Absent /\ link_pc' = "disconnected"
        /\ UNCHANGED <<wait, expected, ids, link, other, moves, quiet>>
    BY <1>5 DEF Connect!Disconnected, Connect!network
  <2> QED BY <2>1 DEF LinkTypes, LinkSteps, ExpectsOneMore, LinkFitsStep
<1> QED BY <1>2, <1>3, <1>4, <1>5

\* The link moves: it does not come by itself, and goes only when an end drops it.
LEMMA LinkMovesKeep ==
  ASSUME ConnectInv, NEW e \in Connect!Ends,
         Connect!LinkAdvances(e) \/ Connect!LinkCloses(e)
  PROVE  ConnectInv'
<1> USE DEF ConnectInv
<1>1. UNCHANGED <<link_pc, wait, expected, ids, other, moves, quiet>>
  BY DEF Connect!LinkAdvances, Connect!LinkCloses
<1>2. link \in [Connect!Ends -> -1 .. 3] /\ Stages = -1 .. 3
  BY DEF LinkTypes, Stages, Connect!Absent, Connect!Pong
<1>3. /\ link' \in [Connect!Ends -> -1 .. 3]
      /\ \A d \in Connect!Ends \ {e} : link'[d] = link[d]
      /\ \/ link[e] \in 0 .. 2 /\ link'[e] = link[e] + 1
         \/ link'[e] = -1 /\ link[Connect!Facing(e)] = -1
  <2>1. CASE Connect!LinkAdvances(e)
    BY <2>1, <1>2 DEF Connect!LinkAdvances, Connect!Connecting, Connect!Verack
  <2>2. CASE Connect!LinkCloses(e)
    BY <2>2, <1>2 DEF Connect!LinkCloses, Connect!Absent
  <2> QED BY <2>1, <2>2
<1>4. LinkTypes'
  BY <1>1, <1>2, <1>3 DEF LinkTypes
<1>5. PeersOf("from")' = PeersOf("from") /\ PeersOf("to")' = PeersOf("to")
  BY <1>1 DEF PeersOf
<1>6. ExpectsOneMore'
  BY <1>1, <1>5 DEF ExpectsOneMore
<1>7. Connect!Facing(e) \in Connect!Ends /\ "from" \in Connect!Ends /\ "to" \in Connect!Ends
      /\ \A d \in Connect!Ends : link[d] \in -1 .. 3 /\ link'[d] \in -1 .. 3
  BY <1>2, <1>3 DEF Connect!Facing, Connect!Ends
<1> USE DEF Connect!Absent, Connect!Connecting, Connect!Pong
<1>8. \A d \in Connect!Ends : link[d] = -1 => link'[d] = -1
  BY <1>3
<1>9. (\A d \in Connect!Ends : link[d] >= 0)
        => \A d \in Connect!Ends : link'[d] >= link[d]
  BY <1>3, <1>7
<1>10. LinkFitsStep'
  <2>1. quiet /\ link_pc \in {"count_to", "addnode"} => \A d \in Connect!Ends : link'[d] = -1
    BY <1>8 DEF LinkFitsStep
  <2>2. quiet /\ link_pc = "wait" =>
          /\ \A d \in Connect!Ends : link'[d] >= 0
          /\ wait = 6 => link'["from"] = 3
    BY <1>7, <1>9 DEF LinkFitsStep
  <2>3. quiet /\ link_pc = "connected" => \A d \in Connect!Ends : link'[d] = 3
    <3> SUFFICES ASSUME quiet, link_pc = "connected", NEW d \in Connect!Ends PROVE link'[d] = 3
      OBVIOUS
    <3>1. \A c \in Connect!Ends : link[c] = 3
      BY DEF LinkFitsStep
    <3> QED BY <3>1, <1>7, <1>9
  <2>4. /\ link_pc \in {"gone_to", "disconnected"} => link'["from"] = -1
        /\ link_pc = "disconnected" => link'["to"] = -1
    BY <1>7, <1>8 DEF LinkFitsStep
  <2> QED BY <1>1, <2>1, <2>2, <2>3, <2>4 DEF LinkFitsStep
<1> QED BY <1>4, <1>6, <1>10

\* Another peer moves: if it comes or goes, it is not quiet any more.
LEMMA OtherMovesKeep ==
  ASSUME ConnectInv, NEW e \in Connect!Ends, NEW o \in Others, Connect!OtherMoves(e, o)
  PROVE  ConnectInv'
<1> USE DEF ConnectInv
<1>1. UNCHANGED <<link_pc, wait, expected, ids, link>>
  BY DEF Connect!OtherMoves
<1>2. other \in [Connect!Ends -> [Others -> -1 .. 3]] /\ Stages = -1 .. 3
  BY DEF LinkTypes, Stages, Connect!Absent, Connect!Pong
<1>3. CASE /\ other[e][o] \in Connect!Connecting .. Connect!Verack
           /\ other' = [other EXCEPT ![e][o] = @ + 1]
           /\ UNCHANGED <<moves, quiet>>
  <2>1. /\ other' \in [Connect!Ends -> [Others -> -1 .. 3]]
        /\ other[e][o] \in 0 .. 2
        /\ \A d \in Connect!Ends : \A p \in Others :
             other'[d][p] = IF d = e /\ p = o THEN other[e][o] + 1 ELSE other[d][p]
    BY <1>2, <1>3 DEF Connect!Connecting, Connect!Verack
  <2>2. \A d \in Connect!Ends : PeersOf(d)' = PeersOf(d)
    <3> TAKE d \in Connect!Ends
    <3>1. \A p \in Others : other'[d][p] >= 0 <=> other[d][p] >= 0
      BY <2>1
    <3> QED BY <3>1 DEF PeersOf, Connect!Connecting
  <2>3. LinkTypes'
    BY <1>1, <1>2, <1>3, <2>1 DEF LinkTypes
  <2>4. ExpectsOneMore'
    BY <1>1, <1>3, <2>2 DEF ExpectsOneMore, Connect!Ends
  <2>5. LinkFitsStep'
    BY <1>1, <1>3 DEF LinkFitsStep
  <2> QED BY <2>3, <2>4, <2>5
<1>4. CASE /\ quiet' = FALSE
           /\ other' = [other EXCEPT ![e][o] = IF @ = Connect!Absent THEN Connect!Connecting
                                                ELSE Connect!Absent]
  <2>1. other' \in [Connect!Ends -> [Others -> -1 .. 3]]
    BY <1>2, <1>4 DEF Connect!Connecting, Connect!Absent
  <2>2. LinkTypes'
    BY <1>1, <1>2, <1>4, <2>1 DEF LinkTypes
  <2>3. ExpectsOneMore' /\ LinkFitsStep'
    BY <1>1, <1>4 DEF ExpectsOneMore, LinkFitsStep
  <2> QED BY <2>2, <2>3
<1> QED BY <1>3, <1>4 DEF Connect!OtherMoves

\* Every step of the script, and of the network, keeps the invariant.
LEMMA ConnectNext == ConnectInv /\ [Connect!Next]_connectVars => ConnectInv'
<1> SUFFICES ASSUME ConnectInv, [Connect!Next]_connectVars PROVE ConnectInv'
  OBVIOUS
<1>1. CASE Connect!CountFrom \/ Connect!CountTo
  BY <1>1, CountKeeps
<1>2. CASE Connect!AddNode
  BY <1>2, AddNodeKeeps
<1>3. CASE Connect!WaitOver
  BY <1>3, WaitOverKeeps
<1>4. CASE Connect!WaitTimeout \/ Connect!PeerIds \/ Connect!Disconnect \/ Connect!Disconnected
  BY <1>4, DisconnectKeeps
<1>5. ASSUME NEW e \in Connect!Ends, Connect!LinkAdvances(e) \/ Connect!LinkCloses(e)
      PROVE  ConnectInv'
  BY <1>5, LinkMovesKeep
<1>6. ASSUME NEW e \in Connect!Ends, NEW o \in Others, Connect!OtherMoves(e, o)
      PROVE  ConnectInv'
  BY <1>6, OtherMovesKeep
<1>7. CASE UNCHANGED connectVars
  BY <1>7 DEF connectVars, ConnectInv, LinkTypes, ExpectsOneMore, LinkFitsStep, PeersOf
<1> QED BY <1>1, <1>2, <1>3, <1>4, <1>5, <1>6, <1>7
     DEF Connect!Next, Connect!Script, Connect!Network

-----------------------------------------------------------------------------
(* The helpers together *)

\* A step of one helper is a step of that helper and a stutter of the others.
LEMMA NextKeeps == IInv /\ [AnyNext]_allVars => IInv'
<1> SUFFICES ASSUME IInv, [AnyNext]_allVars PROVE IInv'
  OBVIOUS
<1>1. /\ [Next]_vars /\ [Processes!Next]_processVars
      /\ [Rpc!Next]_rpcVars /\ [Connect!Next]_connectVars
  BY DEF AnyNext, allVars
<1> QED BY <1>1, SyncNext, ProcessesNext, RpcNext, ConnectNext DEF IInv

\* The inductive invariants of the four helpers hold in every behaviour.
THEOREM InductiveInvariant == AnySpec => []IInv
<1>1. AnyInit => IInv
  BY SyncInit, ProcessesInit, RpcInit, ConnectInit DEF AnyInit, IInv
<1> QED BY <1>1, NextKeeps, PTL DEF AnySpec

\* Every helper's variables keep their types.
THEOREM TypeCorrect == AnySpec => [](TypeOK /\ ProcessTypes /\ RpcTypes /\ LinkTypes)
<1>1. IInv => TypeOK /\ ProcessTypes /\ RpcTypes /\ LinkTypes
  BY DEF IInv, SyncInv, ProcessesInv, RpcInv, ConnectInv
<1> QED BY <1>1, InductiveInvariant, PTL

\* When a sync of blocks ends, all nodes of its list have one tip.
THEOREM SyncedTips == AnySpec => []TipsAgreeOnReturn
<1>1. IInv => TipsAgreeOnReturn
  BY DEF IInv, SyncInv
<1> QED BY <1>1, InductiveInvariant, PTL

\* When sync_all returns, all nodes of its list have one mempool.
THEOREM SyncedMempools == AnySpec => []MempoolsAgreeAfterSyncAll
<1>1. IInv => MempoolsAgreeAfterSyncAll
  BY DEF IInv, SyncInv
<1> QED BY <1>1, InductiveInvariant, PTL

\* TestNode: at no time is a bitcoind alive that its node does not refer to, and
\* none outlives the test (the destructor kills what is referred to).
THEOREM NoProcessLeftBehind == AnySpec => []NothingLeftBehind
<1>1. IInv => NothingLeftBehind
  BY DEF IInv, ProcessesInv, RunningRefers, OrphansExited,
         NothingLeftBehind, Processes!NothingLeftBehind
<1> QED BY <1>1, InductiveInvariant, PTL

\* wait_for_rpc_connection: a node that is connected has loaded its blocks and
\* its mempool, whatever ends or is restarted after.
THEOREM Loaded == AnySpec => []ConnectedMeansLoaded
<1>1. IInv => ConnectedMeansLoaded
  BY DEF IInv, ProcessesInv, ConnectionsLoaded,
         ConnectedMeansLoaded, Processes!ConnectedMeansLoaded, Processes!State
<1> QED BY <1>1, InductiveInvariant, PTL

\* auth_proxy_request: with a new connection for every call no thread gets the
\* answer to another call, though two calls may have the same id.
THEOREM OwnAnswer == AnySpec => []AnswerIsOwn
<1>1. IInv => AnswerIsOwn
  <2> SUFFICES ASSUME IInv, NEW t \in Threads
               PROVE  /\ outcome[t].how # "CannotSendRequest"
                      /\ outcome[t].how \in {"result", "JSONRPCException"} =>
                           /\ outcome[t].id = id[t]
                           /\ conns[conn[t]].answers = <<>> /\ conns[conn[t]].asked = <<>>
    BY DEF AnswerIsOwn, Rpc!AnswerIsOwn
  <2>1. outcome[t] \in Outcomes /\ CallAlone(t)
    BY DEF IInv, RpcInv, RpcTypes
  <2>2. outcome[t].how # "CannotSendRequest"
    BY <2>1 DEF Outcomes
  <2> QED BY <2>1, <2>2 DEF CallAlone
<1> QED BY <1>1, InductiveInvariant, PTL

\* connect_nodes and disconnect_nodes: when they return both ends have finished
\* the handshake, or neither has the link.
THEOREM LinkReturned == AnySpec => []LinkIsAsAsked
<1>1. IInv => LinkIsAsAsked
  <2>1. \A e \in Connect!Ends : e \in {"from", "to"}
    BY DEF Connect!Ends
  <2> QED BY <2>1 DEF IInv, ConnectInv, LinkFitsStep, LinkIsAsAsked, Connect!LinkIsAsAsked
<1> QED BY <1>1, InductiveInvariant, PTL
=============================================================================
