------------------------- MODULE CheckEclipseProofs -------------------------
(***************************************************************************)
(* check_eclipse.py implements an isolation test, and its three results do *)
(* not contradict each other, for every number of honest nodes, of         *)
(* blackholes, of transactions and of links that break.                    *)
(***************************************************************************)
EXTENDS CheckEclipse, FiniteSetTheorems, TLAPS

-----------------------------------------------------------------------------
(* The inductive invariant *)

\* Before and after the block that the victim is judged by.
Early == {"connect", "baseline", "link", "feed", "sync", "drop", "seal", "mine"}
Late == {"mesh_block", "victim_block", "send", "mesh_txs", "victim_txs", "count", "reported"}

TypeOK ==
  /\ extras \subseteq Honest /\ lookalikes \subseteq Blackholes \cup extras /\ leaky = FALSE
  /\ listed \subseteq Links /\ closing \subseteq Links /\ opened \subseteq extras /\ lost \in Nat
  /\ tip \in [Tanks -> 0 .. 2]
  /\ pool \in [Tanks -> SUBSET Txs]
  /\ pc \in Early \cup Late \cup {"failed"}
  /\ baseline \in Nat /\ received \in Nat
  /\ visit \subseteq Links /\ dropped \subseteq Links
  /\ sent \subseteq Txs
  /\ victimSynced \in BOOLEAN /\ gotAll \in BOOLEAN

\* Nobody is ahead of the miner, and nobody holds what the script has not sent.
MinerLeads ==
  /\ \A n \in Tanks : tip[n] <= tip[Miner]
  /\ pc \in Early => tip[Miner] <= 1
  /\ pc \in Late => tip[Miner] = 2
  /\ \A n \in Tanks : pool[n] \subseteq sent
  /\ sent # {} => tip[Miner] = 2

\* In the control arm the loop that drops the temporary link leaves the victim
\* with nothing but blackholes, and they do not forward.
LoopSeals ==
  extras = {} =>
    /\ pc = "drop" => Live \subseteq Blackholes \cup visit
    /\ pc \in {"seal", "mine"} \/ tip[Miner] = 2 => Live \subseteq Blackholes

\* What the waits on the mesh have established, and what the polls have seen.
ResultsStand ==
  /\ victimSynced => tip[Victim] = 2
  /\ pc \in Late \ {"mesh_block"} => \A n \in Honest : tip[n] = 2
  /\ pc \in {"mesh_txs", "victim_txs", "count", "reported"} => sent = Txs
  /\ pc \in {"victim_txs", "count", "reported"} => \A n \in Honest : pool[n] = Txs
  /\ pc \in {"count", "reported"} /\ gotAll => Txs \subseteq pool[Victim]
  /\ pc = "reported" /\ gotAll => received = TxCount

IInv == TypeOK /\ MinerLeads /\ LoopSeals /\ ResultsStand

-----------------------------------------------------------------------------
(* Facts about the network *)

\* Who is who.
LEMMA TankFacts ==
  /\ Miner \in Honest /\ Miner \in Tanks /\ Victim \in Tanks /\ Miner # Victim
  /\ Victim \notin Honest /\ Honest \subseteq Tanks /\ Blackholes \subseteq Tanks
BY NetworkAssumption DEF Tanks

\* Counting links and transactions gives a number.
LEMMA Counting ==
  ASSUME TypeOK
  PROVE  /\ Cardinality(listed) \in Nat
         /\ \A S \in SUBSET Txs : Cardinality(S) \in Nat
         /\ Cardinality(Txs) = TxCount
<1>1. IsFiniteSet(listed)
  <2>1. IsFiniteSet(Blackholes) /\ IsFiniteSet(extras) /\ IsFiniteSet({"temporary"})
    BY NetworkAssumption, FS_Subset, FS_Singleton DEF TypeOK
  <2>2. IsFiniteSet(Blackholes \cup extras)
    BY <2>1, FS_Union
  <2>3. IsFiniteSet(Links)
    BY <2>1, <2>2, FS_Union DEF Links
  <2>4. QED
    BY <2>3, FS_Subset DEF TypeOK
<1>2. IsFiniteSet(Txs) /\ Cardinality(Txs) = TxCount
  <2>1. TxCount \in Int /\ 1 \in Int /\ ~(1 > TxCount) /\ TxCount - 1 + 1 = TxCount
    BY NetworkAssumption
  <2>2. QED
    BY <2>1, FS_Interval DEF Txs
<1>3. \A S \in SUBSET Txs : IsFiniteSet(S)
  BY <1>2, FS_Subset
<1>4. QED
  BY <1>1, <1>2, <1>3, FS_CardinalityType

\* A node hears from tanks, and a victim that is sealed in from nobody.
LEMMA SourceFacts ==
  ASSUME TypeOK
  PROVE  /\ \A n \in Tanks : Sources(n) \subseteq Tanks
         /\ Live \subseteq Blackholes => Sources(Victim) = {}
<1>1. \A l \in Live : Remote(l) \in Tanks
  BY TankFacts DEF TypeOK, Live, Links, Remote
<1>2. QED
  BY <1>1, TankFacts DEF Sources, TypeOK

-----------------------------------------------------------------------------
(* The network *)

\* A link that comes up, is removed or breaks preserves the invariant.
LEMMA LinksInv ==
  ASSUME IInv, UNCHANGED scriptVars,
         \/ \E b \in Blackholes : OpenBaseline(b)
         \/ \E e \in extras : OpenExtra(e)
         \/ \E l \in Links : Remove(l) \/ Lose(l)
  PROVE  IInv'
<1> USE DEF scriptVars
<1>1. UNCHANGED <<wiring, dataVars>>
  BY DEF OpenBaseline, OpenExtra, Remove, Lose
<1>2. TypeOK'
  <2>1. listed' \subseteq Links /\ closing' \subseteq Links /\ opened' \subseteq extras /\ lost' \in Nat
    BY DEF IInv, TypeOK, OpenBaseline, OpenExtra, Remove, Lose, Links
  <2>2. QED
    BY <1>1, <2>1 DEF IInv, TypeOK, wiring, dataVars, Links
<1>3. MinerLeads' /\ ResultsStand'
  BY <1>1 DEF IInv, MinerLeads, ResultsStand, dataVars
<1>4. LoopSeals'
  <2>1. extras = {} => Live' \subseteq Live \cup Blackholes
    BY DEF OpenBaseline, OpenExtra, Remove, Lose, Live
  <2>2. QED
    BY <1>1, <2>1 DEF IInv, LoopSeals, wiring, dataVars
<1>5. QED
  BY <1>2, <1>3, <1>4 DEF IInv

\* A block that a node hears of preserves the invariant: the miner is ahead.
LEMMA HearBlockInv ==
  ASSUME IInv, UNCHANGED scriptVars, NEW n \in Tanks, HearBlock(n)
  PROVE  IInv'
<1> USE DEF scriptVars, HearBlock, wiring, linkVars
<1>1. PICK s \in Tanks : tip[s] > tip[n]
  BY SourceFacts DEF IInv
<1>2. /\ \A m \in Tanks : tip[m] \in 0 .. 2 /\ tip[m] <= tip[Miner]
      /\ \A m \in Tanks : tip'[m] = IF m = n THEN tip[n] + 1 ELSE tip[m]
  BY DEF IInv, TypeOK, MinerLeads
<1>3. n # Miner /\ tip[n] + 1 \in 0 .. 2 /\ tip[n] + 1 <= tip[Miner] /\ tip'[Miner] = tip[Miner]
  BY <1>1, <1>2, TankFacts
<1>4. TypeOK'
  BY <1>3 DEF IInv, TypeOK, Links
<1>5. MinerLeads'
  BY <1>2, <1>3 DEF IInv, MinerLeads
<1>6. LoopSeals'
  BY <1>3 DEF IInv, LoopSeals, Live
<1>7. ResultsStand'
  <2>1. \A m \in Tanks : tip[m] = 2 => tip'[m] = 2
    BY <1>2, <1>3
  <2>2. QED
    BY <2>1, TankFacts DEF IInv, ResultsStand
<1>8. QED
  BY <1>4, <1>5, <1>6, <1>7 DEF IInv

\* A transaction that a node hears of preserves the invariant.
LEMMA HearTxInv ==
  ASSUME IInv, UNCHANGED scriptVars, NEW n \in Tanks, NEW tx \in Txs, HearTx(n, tx)
  PROVE  IInv'
<1> USE DEF scriptVars, HearTx, wiring, linkVars
<1>1. /\ \A m \in Tanks : pool'[m] = IF m = n THEN pool[n] \cup {tx} ELSE pool[m]
      /\ pool' \in [Tanks -> SUBSET Txs]
  BY DEF IInv, TypeOK
<1>2. tx \in sent
  BY SourceFacts DEF IInv, MinerLeads
<1>3. TypeOK'
  BY <1>1 DEF IInv, TypeOK, Links
<1>4. MinerLeads'
  BY <1>1, <1>2 DEF IInv, MinerLeads
<1>5. LoopSeals'
  BY DEF IInv, LoopSeals, Live
<1>6. ResultsStand'
  <2>1. \A m \in Honest : pool[m] = Txs => pool'[m] = Txs
    BY <1>1, TankFacts
  <2>2. Txs \subseteq pool[Victim] => Txs \subseteq pool'[Victim]
    BY <1>1, TankFacts
  <2>3. QED
    BY <2>1, <2>2 DEF IInv, ResultsStand
<1>7. QED
  BY <1>3, <1>4, <1>5, <1>6 DEF IInv

-----------------------------------------------------------------------------
(* The script *)

\* The steps that only move on, and those that only note what they see.
LEMMA WaitsInv ==
  ASSUME IInv,
         \/ Connected \/ NoteBaseline \/ Dropped \/ Sealed \/ MeshHasBlock \/ PollVictimBlock
         \/ SentAll \/ MeshHasTxs \/ PollVictimTxs \/ CountReceived \/ Timeout
  PROVE  IInv'
<1> USE DEF Early, Late
<1>1. UNCHANGED <<wiring, linkVars, dataVars, visit, dropped, sent>>
  BY DEF Connected, NoteBaseline, Dropped, Sealed, MeshHasBlock, PollVictimBlock, SentAll,
         MeshHasTxs, PollVictimTxs, CountReceived, Timeout, Fail
<1>2. TypeOK'
  <2>1. baseline' \in Nat /\ received' \in Nat /\ victimSynced' \in BOOLEAN /\ gotAll' \in BOOLEAN
    <3>1. TypeOK /\ Cardinality(listed) \in Nat /\ Cardinality(sent \cap pool[Victim]) \in Nat
      BY Counting DEF IInv, TypeOK
    <3>2. baseline' \in {baseline, Cardinality(listed)}
      BY DEF Connected, NoteBaseline, Dropped, Sealed, MeshHasBlock, PollVictimBlock, SentAll,
             MeshHasTxs, PollVictimTxs, CountReceived, Timeout, Fail
    <3>3. received' \in {received, Cardinality(sent \cap pool[Victim])}
      BY DEF Connected, NoteBaseline, Dropped, Sealed, MeshHasBlock, PollVictimBlock, SentAll,
             MeshHasTxs, PollVictimTxs, CountReceived, Timeout, Fail
    <3>4. /\ victimSynced' = victimSynced \/ PollVictimBlock
          /\ gotAll' = gotAll \/ PollVictimTxs
      BY DEF Connected, NoteBaseline, Dropped, Sealed, MeshHasBlock, SentAll, MeshHasTxs,
             PollVictimBlock, PollVictimTxs, CountReceived, Timeout, Fail
    <3>5. victimSynced' \in BOOLEAN
      <4>1. (tip[Victim] >= 2) \in BOOLEAN
        OBVIOUS
      <4>2. QED
        BY <3>1, <3>4, <4>1 DEF TypeOK, PollVictimBlock
    <3>6. gotAll' \in BOOLEAN
      BY <3>1, <3>4 DEF TypeOK, PollVictimTxs
    <3>7. QED
      BY <3>1, <3>2, <3>3, <3>5, <3>6 DEF TypeOK
  <2>2. pc' \in Early \cup Late \cup {"failed"}
    BY DEF Goto, Connected, NoteBaseline, Dropped, Sealed, MeshHasBlock, PollVictimBlock,
         SentAll, MeshHasTxs, PollVictimTxs, CountReceived, Timeout, Fail
  <2>3. QED
    BY <1>1, <2>1, <2>2 DEF IInv, TypeOK, wiring, linkVars, dataVars, Links
<1>3. /\ pc' \in Early => pc \in Early
      /\ pc' \in Late => pc \in Late
  BY DEF Goto, Connected, NoteBaseline, Dropped, Sealed, MeshHasBlock, PollVictimBlock,
         SentAll, MeshHasTxs, PollVictimTxs, CountReceived, Timeout, Fail
<1>4. MinerLeads'
  BY <1>1, <1>3 DEF IInv, MinerLeads, dataVars
<1>5. LoopSeals'
  <2>1. /\ pc' # "drop"
        /\ pc' = "seal" => pc = "drop" /\ visit = {}
        /\ pc' = "mine" => pc = "seal"
    BY DEF Goto, Connected, NoteBaseline, Dropped, Sealed, MeshHasBlock, PollVictimBlock,
         SentAll, MeshHasTxs, PollVictimTxs, CountReceived, Timeout, Fail
  <2>2. QED
    BY <1>1, <2>1 DEF IInv, LoopSeals, Live, wiring, linkVars, dataVars
<1>6. ResultsStand'
  <2>1. CASE MeshHasBlock
    <3>1. \A n \in Honest : tip[n] = 2
      BY <2>1, TankFacts DEF IInv, TypeOK, MeshHasBlock
    <3>2. QED
      BY <1>1, <2>1, <3>1 DEF IInv, ResultsStand, MeshHasBlock, Goto, dataVars
  <2>2. CASE PollVictimBlock
    <3>1. tip[Victim] >= 2 => tip[Victim] = 2
      BY TankFacts DEF IInv, TypeOK
    <3>2. QED
      BY <1>1, <2>2, <3>1 DEF IInv, ResultsStand, PollVictimBlock, Goto, dataVars
  <2>3. CASE SentAll
    BY <1>1, <2>3 DEF IInv, ResultsStand, SentAll, Goto, dataVars
  <2>4. CASE MeshHasTxs
    <3>1. \A n \in Honest : pool[n] = Txs
      BY <2>4, TankFacts DEF IInv, TypeOK, ResultsStand, MeshHasTxs
    <3>2. QED
      BY <1>1, <2>4, <3>1 DEF IInv, ResultsStand, MeshHasTxs, Goto, dataVars
  <2>5. CASE PollVictimTxs
    BY <1>1, <2>5 DEF IInv, ResultsStand, PollVictimTxs, Goto, dataVars
  <2>6. CASE CountReceived
    <3>1. gotAll => sent \cap pool[Victim] = Txs
      BY <2>6 DEF IInv, ResultsStand, CountReceived
    <3>2. gotAll => received' = TxCount
      BY <2>6, <3>1, Counting DEF IInv, CountReceived
    <3>3. QED
      BY <1>1, <2>6, <3>2 DEF IInv, ResultsStand, CountReceived, Goto, dataVars
  <2>7. CASE Timeout
    BY <1>1, <2>7 DEF IInv, ResultsStand, Timeout, Fail, Goto, dataVars
  <2>8. CASE Connected \/ NoteBaseline \/ Dropped \/ Sealed
    BY <1>1, <2>8 DEF IInv, ResultsStand, Connected, NoteBaseline, Dropped, Sealed, Goto, dataVars
  <2>9. QED
    BY <2>1, <2>2, <2>3, <2>4, <2>5, <2>6, <2>7, <2>8
<1>7. QED
  BY <1>2, <1>4, <1>5, <1>6 DEF IInv

\* addnode onetry happens before anything is judged.
LEMMA LinkVictimInv ==
  ASSUME IInv, LinkVictim
  PROVE  IInv'
<1> USE DEF LinkVictim, OneTry, Goto, Early, Late
<1>1. TypeOK'
  BY DEF IInv, TypeOK, wiring, dataVars, Links
<1>2. MinerLeads' /\ ResultsStand'
  BY DEF IInv, MinerLeads, ResultsStand, dataVars
<1>3. LoopSeals'
  BY TankFacts DEF IInv, TypeOK, MinerLeads, LoopSeals, dataVars
<1>4. QED
  BY <1>1, <1>2, <1>3 DEF IInv

\* The first blocks.
LEMMA FeedInv ==
  ASSUME IInv, Feed
  PROVE  IInv'
<1> USE DEF Feed, Goto, Early, Late
<1>1. /\ \A n \in Tanks : tip[n] \in 0 .. 1
      /\ \A n \in Tanks : tip'[n] = IF n = Miner THEN 1 ELSE tip[n]
      /\ tip' \in [Tanks -> 0 .. 2]
  BY TankFacts DEF IInv, TypeOK, MinerLeads
<1>2. TypeOK'
  BY <1>1 DEF IInv, TypeOK, wiring, linkVars, Links
<1>3. MinerLeads'
  BY <1>1, TankFacts DEF IInv, MinerLeads
<1>4. LoopSeals'
  BY <1>1, TankFacts DEF IInv, LoopSeals
<1>5. ResultsStand'
  BY <1>1, TankFacts DEF IInv, ResultsStand
<1>6. QED
  BY <1>2, <1>3, <1>4, <1>5 DEF IInv

\* The end of sync_all: every tank has the chain, and every link that is listed is visited.
LEMMA SyncedInv ==
  ASSUME IInv, Synced
  PROVE  IInv'
<1> USE DEF Synced, Goto, Early, Late, wiring, linkVars, dataVars
<1>1. TypeOK' /\ MinerLeads' /\ ResultsStand'
  BY DEF IInv, TypeOK, MinerLeads, ResultsStand, Links
<1>2. LoopSeals'
  BY TankFacts DEF LoopSeals, Live
<1>3. QED
  BY <1>1, <1>2 DEF IInv

\* The dropping loop: in the control arm it passes over no link but those to the
\* blackholes.
LEMMA DropInv ==
  ASSUME IInv, NEW link \in Links, Drop(link)
  PROVE  IInv'
<1> USE DEF Drop, Disconnect, Early, Late
<1>1. UNCHANGED <<wiring, dataVars, opened, lost, listed>> /\ pc = "drop" /\ pc' \in {"drop", "failed"}
  BY DEF linkVars
<1>2. TypeOK'
  BY <1>1 DEF IInv, TypeOK, wiring, dataVars, linkVars, Links
<1>3. MinerLeads' /\ ResultsStand'
  BY <1>1 DEF IInv, MinerLeads, ResultsStand, dataVars
<1>4. LoopSeals'
  <2> SUFFICES ASSUME extras = {}, pc' = "drop"
               PROVE  Live' \subseteq Blackholes \cup visit'
    BY <1>1, TankFacts DEF IInv, MinerLeads, TypeOK, LoopSeals, wiring, dataVars
  <2>1. Live \subseteq Blackholes \cup visit
    BY <1>1 DEF IInv, LoopSeals
  <2>2. link \in Live' => link \in Blackholes
    BY <1>1 DEF Live, Matches, Links
  <2>3. Live' \subseteq Live
    BY <1>1 DEF Live, linkVars
  <2>4. QED
    BY <2>1, <2>2, <2>3
<1>5. QED
  BY <1>2, <1>3, <1>4 DEF IInv

\* The block that the victim is judged by.
LEMMA MineOneInv ==
  ASSUME IInv, MineOne
  PROVE  IInv'
<1> USE DEF MineOne, Goto, Early, Late
<1>1. /\ \A n \in Tanks : tip'[n] = IF n = Miner THEN 2 ELSE tip[n]
      /\ tip' \in [Tanks -> 0 .. 2]
  BY TankFacts DEF IInv, TypeOK
<1>2. TypeOK'
  BY <1>1 DEF IInv, TypeOK, wiring, linkVars, Links
<1>3. MinerLeads'
  BY <1>1, TankFacts DEF IInv, MinerLeads, TypeOK
<1>4. LoopSeals'
  BY DEF IInv, LoopSeals, Live, wiring, linkVars
<1>5. ResultsStand'
  BY <1>1, TankFacts DEF IInv, ResultsStand
<1>6. QED
  BY <1>2, <1>3, <1>4, <1>5 DEF IInv

\* The transactions that the victim is judged by.
LEMMA SendTxInv ==
  ASSUME IInv, NEW tx \in Txs, SendTx(tx)
  PROVE  IInv'
<1> USE DEF SendTx, Early, Late
<1>1. /\ \A n \in Tanks : pool'[n] = IF n = Miner THEN pool[n] \cup {tx} ELSE pool[n]
      /\ pool' \in [Tanks -> SUBSET Txs]
  BY TankFacts DEF IInv, TypeOK
<1>2. TypeOK'
  BY <1>1 DEF IInv, TypeOK, wiring, linkVars, Links
<1>3. MinerLeads'
  BY <1>1 DEF IInv, MinerLeads
<1>4. LoopSeals' /\ ResultsStand'
  BY DEF IInv, LoopSeals, ResultsStand, Live, wiring, linkVars
<1>5. QED
  BY <1>2, <1>3, <1>4 DEF IInv

-----------------------------------------------------------------------------
(* The invariant *)

\* The invariant holds initially.
LEMMA InitInv == Init => IInv
<1> SUFFICES ASSUME Init PROVE IInv
  OBVIOUS
<1> USE TankFacts DEF Init, NetworkInit, Early, Late
<1>1. TypeOK
  <2>1. tip \in [Tanks -> 0 .. 2] /\ pool \in [Tanks -> SUBSET Txs]
    OBVIOUS
  <2>2. extras \subseteq Honest /\ lookalikes \subseteq Blackholes \cup extras
    OBVIOUS
  <2>3. QED
    BY <2>1, <2>2 DEF TypeOK
<1>2. MinerLeads /\ LoopSeals /\ ResultsStand
  BY DEF MinerLeads, LoopSeals, ResultsStand
<1>3. QED
  BY <1>1, <1>2 DEF IInv

\* Every step preserves the invariant.
LEMMA NextInv == IInv /\ [Next]_vars => IInv'
<1> SUFFICES ASSUME IInv, [Next]_vars PROVE IInv'
  OBVIOUS
<1>1. CASE UNCHANGED vars
  BY <1>1 DEF IInv, TypeOK, MinerLeads, LoopSeals, ResultsStand, Links, Live,
       vars, wiring, linkVars, dataVars, scriptVars
<1>2. CASE Script
  BY <1>2, WaitsInv, LinkVictimInv, FeedInv, SyncedInv, DropInv, MineOneInv, SendTxInv DEF Script
<1>3. CASE Timeout
  BY <1>3, WaitsInv
<1>4. CASE Network /\ UNCHANGED scriptVars
  BY <1>4, LinksInv, HearBlockInv, HearTxInv DEF Network
<1>5. QED
  BY <1>1, <1>2, <1>3, <1>4 DEF Next

\* Every conjunct of the inductive invariant holds in every reachable state.
THEOREM InductiveInvariant == Spec => []IInv
BY InitInv, NextInv, PTL DEF Spec

\* Every variable keeps its type.
THEOREM TypeCorrect == Spec => []TypeOK
BY InductiveInvariant, PTL DEF IInv

\* When the victim is asked, the mesh has the block and every transaction, and
\* victim_synced, got_all and the count, read at three times, agree.
THEOREM Verdict == Spec => []VerdictIsConsistent
<1>1. IInv => VerdictIsConsistent
  BY DEF IInv, ResultsStand, VerdictIsConsistent, Late
<1>2. QED
  BY <1>1, InductiveInvariant, PTL

-----------------------------------------------------------------------------
(* The refinement *)

\* The script begins as an isolation test does.
LEMMA TestInit == Init => Test!Init
BY TankFacts DEF Init, NetworkInit, Test!Init

\* What the network does is hearing, or nothing the test knows of.
LEMMA TestNetwork ==
  ASSUME IInv, Network, UNCHANGED scriptVars
  PROVE  [Test!Next]_Test!vars
<1> USE DEF scriptVars
<1>1. CASE UNCHANGED dataVars
  <2>1. UNCHANGED extras
    BY DEF Network, OpenBaseline, OpenExtra, Remove, Lose, HearBlock, HearTx, wiring
  <2>2. UNCHANGED Test!vars
    BY <1>1, <2>1 DEF dataVars, Test!vars
  <2>3. QED
    BY <2>2
<1>2. ASSUME NEW n \in Tanks, HearBlock(n)
      PROVE  [Test!Next]_Test!vars
  <2>1. PICK s \in Sources(n) : s \in Tanks /\ tip[s] > tip[n]
    BY <1>2, SourceFacts DEF IInv, HearBlock
  <2>2. /\ n # Miner /\ tip'[Miner] = tip[Miner]
        /\ tip'[Victim] = IF n = Victim THEN tip[Victim] + 1 ELSE tip[Victim]
        /\ tip[s] <= tip[Miner] /\ \A m \in Tanks : tip[m] \in 0 .. 2
    BY <1>2, <2>1, TankFacts DEF IInv, TypeOK, MinerLeads, HearBlock
  <2>3. CASE n = Victim /\ tip'[Victim] = 2
    <3>1. tip[Miner] = 2
      BY <2>1, <2>2, <2>3, TankFacts
    <3>2. extras # {}
      BY <2>1, <2>3, <3>1, SourceFacts DEF IInv, LoopSeals
    <3>3. Test!Hear
      BY <1>2, <2>2, <2>3, <3>1, <3>2 DEF Test!Hear, HearBlock, wiring
    <3>4. QED
      BY <3>3 DEF Test!Next
  <2>4. CASE ~(n = Victim /\ tip'[Victim] = 2)
    <3>1. tip'[Victim] = 2 <=> tip[Victim] = 2
      BY <2>1, <2>2, <2>4, TankFacts
    <3>2. UNCHANGED Test!vars
      BY <1>2, <2>2, <3>1 DEF Test!vars, HearBlock, wiring
    <3>3. QED
      BY <3>2
  <2>5. QED
    BY <2>3, <2>4
<1>3. ASSUME NEW n \in Tanks, NEW tx \in Txs, HearTx(n, tx)
      PROVE  [Test!Next]_Test!vars
  <2>1. PICK s \in Sources(n) : s \in Tanks /\ tx \in pool[s]
    BY <1>3, SourceFacts DEF IInv, HearTx
  <2>2. pool'[Victim] = IF n = Victim THEN pool[Victim] \cup {tx} ELSE pool[Victim]
    BY <1>3, TankFacts DEF IInv, TypeOK, HearTx
  <2>3. CASE n = Victim
    <3>1. tip[Miner] = 2
      BY <2>1 DEF IInv, MinerLeads
    <3>2. extras # {}
      BY <2>1, <2>3, <3>1, SourceFacts DEF IInv, LoopSeals
    <3>3. Test!Hear
      BY <1>3, <2>2, <2>3, <3>1, <3>2 DEF Test!Hear, HearTx, wiring
    <3>4. QED
      BY <3>3 DEF Test!Next
  <2>4. CASE n # Victim
    <3>1. UNCHANGED Test!vars
      BY <1>3, <2>2, <2>4 DEF Test!vars, HearTx, wiring
    <3>2. QED
      BY <3>1
  <2>5. QED
    BY <2>3, <2>4
<1>4. QED
  BY <1>1, <1>2, <1>3 DEF Network, OpenBaseline, OpenExtra, Remove, Lose

\* The script isolates the victim when the number of peers is the noted one and
\* judges it when it has counted; its other steps are none of the test's.
LEMMA TestScript ==
  ASSUME IInv, Script \/ Timeout
  PROVE  [Test!Next]_Test!vars
<1> USE DEF Goto
<1>1. CASE Sealed
  <2>1. tip[Miner] <= 1 /\ tip[Miner] \in 0 .. 2
    BY <1>1, TankFacts DEF IInv, TypeOK, MinerLeads, Sealed, Early
  <2>2. Test!Isolate
    BY <1>1, <2>1 DEF Test!Isolate, Sealed, wiring, linkVars, dataVars
  <2>3. QED
    BY <2>2 DEF Test!Next
<1>2. CASE CountReceived
  <2>1. tip[Miner] = 2
    BY <1>2 DEF IInv, MinerLeads, CountReceived, Late
  <2>2. received' > 0 => pool[Victim] # {}
    <3>1. pool[Victim] = {} => sent \cap pool[Victim] = {}
      OBVIOUS
    <3>2. QED
      BY <1>2, <3>1, FS_EmptySet DEF CountReceived
  <2>3. victimSynced => tip[Victim] = 2
    BY DEF IInv, ResultsStand
  <2>4. Test!Judge
    BY <1>2, <2>1, <2>2, <2>3 DEF Test!Judge, CountReceived, wiring, dataVars
  <2>5. QED
    BY <2>4 DEF Test!Next
<1>3. CASE ~Sealed /\ ~CountReceived
  <2>1. pc # "reported" /\ pc' # "reported" /\ UNCHANGED extras
    BY <1>3 DEF Script, Timeout, Fail, Connected, NoteBaseline, LinkVictim, OneTry, Feed, Synced,
         Drop, Disconnect, Dropped, MineOne, MeshHasBlock, PollVictimBlock, SendTx, SentAll,
         MeshHasTxs, PollVictimTxs, wiring
  <2>2. (tip[Miner] = 2 \/ pc = "mine") <=> (tip'[Miner] = 2 \/ pc' = "mine")
    <3>1. CASE Feed
      BY <3>1, TankFacts DEF IInv, TypeOK, MinerLeads, Early, Feed
    <3>2. CASE MineOne
      BY <3>2, TankFacts DEF IInv, TypeOK, MineOne
    <3>3. CASE ~Feed /\ ~MineOne
      BY <1>3, <3>3 DEF Script, Timeout, Fail, Connected, NoteBaseline, LinkVictim, OneTry, Synced,
         Drop, Disconnect, Dropped, MeshHasBlock, PollVictimBlock, SendTx, SentAll,
         MeshHasTxs, PollVictimTxs, wiring, dataVars, linkVars
    <3>4. QED
      BY <3>1, <3>2, <3>3
  <2>3. tip'[Victim] = tip[Victim] /\ pool'[Victim] = pool[Victim]
    <3>1. CASE Feed \/ MineOne
      BY <3>1, TankFacts DEF IInv, TypeOK, Feed, MineOne
    <3>2. CASE \E tx \in Txs : SendTx(tx)
      BY <3>2, TankFacts DEF IInv, TypeOK, SendTx
    <3>3. CASE ~Feed /\ ~MineOne /\ ~\E tx \in Txs : SendTx(tx)
      BY <1>3, <3>3 DEF Script, Timeout, Fail, Connected, NoteBaseline, LinkVictim, OneTry, Synced,
         Drop, Disconnect, Dropped, MeshHasBlock, PollVictimBlock, SentAll,
         MeshHasTxs, PollVictimTxs, wiring, dataVars, linkVars
    <3>4. QED
      BY <3>1, <3>2, <3>3
  <2>4. UNCHANGED Test!vars
    BY <2>1, <2>2, <2>3 DEF Test!vars
  <2>5. QED
    BY <2>4
<1>4. QED
  BY <1>1, <1>2, <1>3

\* check_eclipse.py is an isolation test: a victim without extra links hears
\* nothing once it is sealed in, and is found reached only if it was.
THEOREM Refinement == Spec => ImplementsIsolationTest
<1>1. IInv /\ [Next]_vars => [Test!Next]_Test!vars
  <2>1. CASE UNCHANGED vars
    BY <2>1 DEF Test!vars, vars, wiring, linkVars, dataVars, scriptVars
  <2>2. QED
    BY <2>1, TestNetwork, TestScript DEF Next
<1>2. QED
  BY <1>1, TestInit, InductiveInvariant, PTL DEF Spec, ImplementsIsolationTest, Test!Spec
=============================================================================
