----------------------------- MODULE MinerFunds -----------------------------
(***************************************************************************)
(* The coins behind check_net_bandwidth.py: mine_blocks mines what it      *)
(* thinks gives the miner n usable coins, create_txs spends n of them, each*)
(* into four outputs, and the next iteration starts from what is left.     *)
(***************************************************************************)
EXTENDS Integers, Sequences, FiniteSets, Bags, FiniteSetsExt

CONSTANTS
  N,                  \* --tx_count
  Iterations,         \* --n
  Maturity,           \* blocks before a coinbase can be spent, 100
  HalvingInterval,    \* 150 on regtest
  Subsidy,
  MIN_UTXO_VALUE,
  Fee,
  MaxHeight           \* bound on the chain the scenario starts with

VARIABLES
  pc,          \* "mine_blocks", "create_txs", "done", "not_enough"
  iteration,
  height,      \* miner.getblockcount()
  own,         \* heights whose coinbase pays the miner
  coins,       \* bag of amounts: outputs of its transactions that are confirmed
  pending,     \* those that are not
  spent        \* heights whose coinbase was spent

vars == <<pc, iteration, height, own, coins, pending, spent>>

Quarter(amount) == amount \div 4        \* satoshi_round(amount / 4)
Reward(h) == Subsidy \div 2 ^ (h \div HalvingInterval)

\* Outputs of generate_transaction: the last one is dropped when it is small.
Outputs(amount) ==
  LET q == Quarter(amount)
  IN <<q, q, q>> \o (IF q > 2 * Fee THEN <<q - Fee>> ELSE <<>>)

\* The coins of the wallet, each an amount, an origin and a number.
Coinbases == {<<Reward(h), "coinbase", h>> : h \in {x \in own \ spent : x + Maturity <= height}}
OneByOne(bag) == UNION {{<<a, "output", k>> : k \in 1 .. bag[a]} : a \in BagToSet(bag)}

\* listunspent(1): mature coinbases and confirmed outputs, of some value.
Utxos == {u \in Coinbases \cup OneByOne(coins) : u[1] >= MIN_UTXO_VALUE}
utxo_count == Cardinality(Utxos)

\* The bag of the values of f.
BagOf(f) == [a \in {f[x] : x \in DOMAIN f} |-> Cardinality({x \in DOMAIN f : f[x] = a})]

Init ==
  /\ pc = "mine_blocks"
  /\ iteration = 1
  /\ height \in 0 .. MaxHeight
  /\ own \in {{}, 1 .. height}       \* blocks of another wallet, or of this one
  /\ coins = EmptyBag /\ pending = EmptyBag
  /\ spent = {}

\* Faulty variant: maturity forgotten.
BlocksToMineNoMaturity ==
  IF utxo_count >= N THEN 1 ELSE N - utxo_count

BlocksToMine ==
  IF utxo_count >= N THEN 1
  ELSE IF height > Maturity THEN N - utxo_count
  ELSE Maturity + (N - utxo_count)

\* mine_blocks: the first block confirms what is pending.
MineBlocks ==
  /\ pc = "mine_blocks"
  /\ height' = height + BlocksToMine
  /\ own' = own \cup (height + 1 .. height + BlocksToMine)
  /\ coins' = coins (+) pending
  /\ pending' = EmptyBag
  /\ pc' = "create_txs"
  /\ UNCHANGED <<iteration, spent>>

\* utxos[:n], whatever order the wallet lists them in, and a transaction for
\* each of them.
CreateTxs ==
  /\ pc = "create_txs" /\ utxo_count >= N
  /\ \E inputs \in kSubset(N, Utxos) :
       /\ pending' = BagOf([o \in UNION {{u} \X DOMAIN Outputs(u[1]) : u \in inputs} |->
                             Outputs(o[1][1])[o[2]]])
       /\ spent' = spent \cup {u[3] : u \in {i \in inputs : i[2] = "coinbase"}}
       /\ coins' = coins (-) BagOf([u \in {i \in inputs : i[2] = "output"} |-> u[1]])
  /\ IF iteration = Iterations
       THEN pc' = "done" /\ UNCHANGED iteration
       ELSE pc' = "mine_blocks" /\ iteration' = iteration + 1
  /\ UNCHANGED <<height, own>>

\* ValueError("Not enough UTXOs")
NotEnough ==
  /\ pc = "create_txs" /\ utxo_count < N
  /\ pc' = "not_enough"
  /\ UNCHANGED <<iteration, height, own, coins, pending, spent>>

Next == MineBlocks \/ CreateTxs \/ NotEnough

Spec == Init /\ [][Next]_vars

-----------------------------------------------------------------------------
(* Properties *)

\* "Mine enough blocks to have n available utxos" (check_net_bandwidth.py:114):
\* it does as long as the coinbases that mature are the miner's and worth
\* MIN_UTXO_VALUE; the count is exact up to that.
FundsSufficeWhileRewardsDo ==
  pc = "not_enough" =>
    \E h \in 1 .. height - Maturity : ~(h \in own /\ Reward(h) >= MIN_UTXO_VALUE)
=============================================================================
