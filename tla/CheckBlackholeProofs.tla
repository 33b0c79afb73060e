------------------------ MODULE CheckBlackholeProofs ------------------------
(***************************************************************************)
(* check_blackhole.py implements an isolation test, and its last assertion *)
(* never fires, for every number of relays, of blackholes and of links     *)
(* that break.                                                             *)
(***************************************************************************)
EXTENDS CheckBlackhole, TLAPS

-----------------------------------------------------------------------------
(* The inductive invariant *)

\* Before and after the block that the victim must not hear of.
Early == {"connect", "link", "feed", "sync", "drop", "isolate", "mine"}
Late == {"control_block", "send", "spread", "check_block", "check_tx", "check_kept",
         "forwarded", "not_kept", "passed"}

TypeOK ==
  /\ extras = {} /\ lookalikes \subseteq Blackholes /\ leaky \in BOOLEAN
  /\ listed \subseteq Links /\ closing \subseteq Links /\ opened = {} /\ lost \in Nat
  /\ tip \in [Tanks -> 0 .. 2]
  /\ pool \in [Tanks -> SUBSET {txid}]
  /\ pc \in Early \cup Late \cup {"failed"}
  /\ visit \subseteq Links /\ waiting \subseteq Tanks

\* Nobody is ahead of the miner, and only the test proper sends a transaction.
MinerLeads ==
  /\ \A n \in Tanks : tip[n] <= tip[Miner]
  /\ pc \in Early => tip[Miner] <= 1
  /\ pc \in Late => tip[Miner] = 2
  /\ \A n \in Tanks : pool[n] # {} => tip[Miner] = 2
  /\ pc \in Late => tip[Victim] >= 1
  /\ pc \in {"drop", "isolate", "mine"} => tip[Victim] >= 1

\* The loop that drops the temporary link leaves the victim with nothing but
\* blackholes.
LoopSeals ==
  /\ pc = "drop" => Live \subseteq Blackholes \cup visit
  /\ pc \in {"isolate", "mine"} \/ tip[Miner] = 2 => Live \subseteq Blackholes

\* A tank is taken off the list of those to wait for when it has the
\* transaction, and the raised alarm has its reason.
AssertionsStand ==
  /\ pc = "spread" => \A b \in Blackholes : b \in waiting \/ txid \in pool[b]
  /\ pc \in {"check_block", "check_tx", "check_kept"} => \A b \in Blackholes : txid \in pool[b]
  /\ pc = "forwarded" => tip[Victim] = 2 \/ pool[Victim] # {}

IInv == TypeOK /\ MinerLeads /\ LoopSeals /\ AssertionsStand /\ BlackholeKeepsTx

-----------------------------------------------------------------------------
(* Facts about the network *)

\* Who is who.
LEMMA TankFacts ==
  /\ Miner \in Tanks /\ Victim \in Tanks /\ Miner # Victim
  /\ Relays \subseteq Tanks /\ Blackholes \subseteq Tanks
  /\ txid \in Txs
BY NetworkAssumption DEF Tanks, Relays, Txs, txid

\* A node hears from tanks, and a victim that is sealed in from nobody unless
\* the blackholes leak.
LEMMA SourceFacts ==
  ASSUME TypeOK
  PROVE  /\ \A n \in Tanks : Sources(n) \subseteq Tanks
         /\ Live \subseteq Blackholes /\ ~leaky => Sources(Victim) = {}
<1>1. \A l \in Live : Remote(l) \in Tanks
  BY TankFacts DEF TypeOK, Live, Links, Remote
<1>2. Honest \subseteq Tanks
  BY DEF Tanks
<1>3. QED
  BY <1>1, <1>2 DEF Sources

-----------------------------------------------------------------------------
(* The network *)

\* A link that comes up, is removed or breaks preserves the invariant.
LEMMA LinksInv ==
  ASSUME IInv, UNCHANGED scriptVars,
         (\E b \in Blackholes : OpenBaseline(b)) \/ (\E l \in Links : Remove(l) \/ Lose(l))
  PROVE  IInv'
<1> USE DEF scriptVars
<1>1. UNCHANGED <<wiring, dataVars, opened>>
  BY DEF OpenBaseline, Remove, Lose
<1>2. TypeOK'
  <2>1. listed' \subseteq Links /\ closing' \subseteq Links /\ lost' \in Nat
    BY DEF IInv, TypeOK, OpenBaseline, Remove, Lose, Links
  <2>2. QED
    BY <1>1, <2>1 DEF IInv, TypeOK, wiring, dataVars, Links
<1>3. MinerLeads' /\ AssertionsStand' /\ BlackholeKeepsTx'
  BY <1>1 DEF IInv, MinerLeads, AssertionsStand, BlackholeKeepsTx, dataVars
<1>4. LoopSeals'
  <2>1. Live' \subseteq Live \cup Blackholes
    BY DEF OpenBaseline, Remove, Lose, Live
  <2>2. QED
    BY <1>1, <2>1 DEF IInv, LoopSeals, wiring, dataVars
<1>5. QED
  BY <1>2, <1>3, <1>4 DEF IInv

\* A block that a node hears of preserves the invariant: the miner is ahead.
LEMMA HearBlockInv ==
  ASSUME IInv, UNCHANGED scriptVars, NEW n \in Tanks, HearBlock(n)
  PROVE  IInv'
<1> USE DEF scriptVars, HearBlock, wiring, linkVars
<1>1. PICK s \in Tanks : tip[s] > tip[n]
  BY SourceFacts DEF IInv
<1>2. /\ \A m \in Tanks : tip[m] \in 0 .. 2 /\ tip[m] <= tip[Miner]
      /\ \A m \in Tanks : tip'[m] = IF m = n THEN tip[n] + 1 ELSE tip[m]
  BY DEF IInv, TypeOK, MinerLeads
<1>3. n # Miner /\ tip[n] + 1 \in 0 .. 2 /\ tip[n] + 1 <= tip[Miner] /\ tip'[Miner] = tip[Miner]
  BY <1>1, <1>2, TankFacts
<1>4. tip'[Victim] >= tip[Victim] /\ tip'[Victim] \in 0 .. 2 /\ tip[Victim] \in 0 .. 2
  BY <1>2, <1>3, TankFacts
<1>5. TypeOK'
  BY <1>3 DEF IInv, TypeOK, Links
<1>6. MinerLeads'
  BY <1>2, <1>3, <1>4 DEF IInv, MinerLeads
<1>7. LoopSeals' /\ BlackholeKeepsTx'
  BY <1>3 DEF IInv, LoopSeals, BlackholeKeepsTx, Live
<1>8. AssertionsStand'
  BY <1>4 DEF IInv, AssertionsStand
<1>9. QED
  BY <1>5, <1>6, <1>7, <1>8 DEF IInv

\* A transaction that a node hears of preserves the invariant.
LEMMA HearTxInv ==
  ASSUME IInv, UNCHANGED scriptVars, NEW n \in Tanks, NEW tx \in Txs, HearTx(n, tx)
  PROVE  IInv'
<1> USE DEF scriptVars, HearTx, wiring, linkVars
<1>1. PICK s \in Tanks : tx \in pool[s]
  BY SourceFacts DEF IInv
<1>2. tx = txid /\ tip[Miner] = 2
  BY <1>1 DEF IInv, TypeOK, MinerLeads
<1>3. /\ \A m \in Tanks : pool'[m] = IF m = n THEN pool[n] \cup {tx} ELSE pool[m]
      /\ pool' \in [Tanks -> SUBSET {txid}]
  BY <1>2 DEF IInv, TypeOK
<1>4. TypeOK'
  BY <1>3 DEF IInv, TypeOK, Links
<1>5. MinerLeads'
  BY <1>2, <1>3 DEF IInv, MinerLeads
<1>6. LoopSeals' /\ BlackholeKeepsTx'
  BY DEF IInv, LoopSeals, BlackholeKeepsTx, Live
<1>7. AssertionsStand'
  BY <1>3, TankFacts DEF IInv, AssertionsStand
<1>8. QED
  BY <1>4, <1>5, <1>6, <1>7 DEF IInv

-----------------------------------------------------------------------------
(* The script *)

\* The steps that only look and move on.
LEMMA WaitsInv ==
  ASSUME IInv,
         Connected \/ Dropped \/ Isolated \/ ControlHasBlock \/ CheckBlock \/ CheckTx \/ CheckKept \/ Timeout
  PROVE  IInv'
<1> USE DEF Step, Goto, Early, Late, Connected, Dropped, Isolated, ControlHasBlock, CheckBlock,
            CheckTx, CheckKept, Timeout
<1>1. UNCHANGED <<wiring, linkVars, dataVars, visit, waiting>>
  OBVIOUS
<1>2. /\ pc' \in Early \cup Late \cup {"failed"}
      /\ pc' \in Early => pc \in Early
      /\ pc' \in Late => pc \in Late
      /\ pc' \in {"isolate", "mine"} => pc \in {"drop", "isolate"}
      /\ pc' \notin {"drop", "spread", "check_block"}
      /\ pc' = "isolate" => pc = "drop" /\ visit = {}
      /\ pc' = "mine" => pc = "isolate"
      /\ pc' \in {"check_tx", "check_kept"} => pc \in {"check_block", "check_tx"}
  OBVIOUS
<1>3. TypeOK'
  BY <1>1, <1>2 DEF IInv, TypeOK, wiring, linkVars, dataVars, Links
<1>4. MinerLeads'
  BY <1>1, <1>2 DEF IInv, MinerLeads, dataVars
<1>5. LoopSeals'
  BY <1>1, <1>2 DEF IInv, LoopSeals, Live, linkVars, dataVars
<1>6. AssertionsStand'
  <2>1. pc' = "forwarded" => tip[Victim] = 2 \/ pool[Victim] # {}
    BY TankFacts DEF IInv, TypeOK, MinerLeads, AssertionsStand
  <2>2. QED
    BY <1>1, <1>2, <2>1 DEF IInv, AssertionsStand, dataVars
<1>7. BlackholeKeepsTx'
  BY DEF IInv, BlackholeKeepsTx, AssertionsStand
<1>8. QED
  BY <1>3, <1>4, <1>5, <1>6, <1>7 DEF IInv

\* addnode onetry happens before anything is judged.
LEMMA LinkVictimInv ==
  ASSUME IInv, LinkVictim
  PROVE  IInv'
<1> USE DEF LinkVictim, OneTry, Step, Goto, Early, Late
<1>1. TypeOK'
  BY DEF IInv, TypeOK, wiring, dataVars, Links
<1>2. MinerLeads' /\ AssertionsStand' /\ BlackholeKeepsTx'
  BY DEF IInv, MinerLeads, AssertionsStand, BlackholeKeepsTx, dataVars
<1>3. LoopSeals'
  BY TankFacts DEF IInv, TypeOK, MinerLeads, LoopSeals, dataVars
<1>4. QED
  BY <1>1, <1>2, <1>3 DEF IInv

\* The first blocks.
LEMMA FeedInv ==
  ASSUME IInv, Feed
  PROVE  IInv'
<1> USE DEF Feed, Step, Goto, Early, Late
<1>1. /\ \A n \in Tanks : tip[n] \in 0 .. 1
      /\ \A n \in Tanks : tip'[n] = IF n = Miner THEN 1 ELSE tip[n]
      /\ tip' \in [Tanks -> 0 .. 2]
  BY TankFacts DEF IInv, TypeOK, MinerLeads
<1>2. TypeOK'
  BY <1>1 DEF IInv, TypeOK, wiring, linkVars, Links
<1>3. MinerLeads'
  BY <1>1, TankFacts DEF IInv, MinerLeads
<1>4. LoopSeals' /\ AssertionsStand' /\ BlackholeKeepsTx'
  BY <1>1, TankFacts DEF IInv, LoopSeals, AssertionsStand, BlackholeKeepsTx
<1>5. QED
  BY <1>2, <1>3, <1>4 DEF IInv

\* The end of sync_all: every tank has the chain, the victim included.
LEMMA SyncedInv ==
  ASSUME IInv, Synced
  PROVE  IInv'
<1> USE DEF Synced, Step, Goto, Early, Late, wiring, linkVars, dataVars
<1>1. TypeOK' /\ MinerLeads' /\ AssertionsStand' /\ BlackholeKeepsTx'
  BY TankFacts DEF IInv, TypeOK, MinerLeads, AssertionsStand, BlackholeKeepsTx, Links
<1>2. LoopSeals'
  BY TankFacts DEF LoopSeals, Live
<1>3. QED
  BY <1>1, <1>2 DEF IInv

\* The dropping loop: it passes over no link but those to the blackholes.
LEMMA DropInv ==
  ASSUME IInv, NEW link \in Links, Drop(link)
  PROVE  IInv'
<1> USE DEF Drop, Disconnect, Early, Late
<1>1. UNCHANGED <<wiring, dataVars, opened, lost, listed>> /\ pc = "drop" /\ pc' \in {"drop", "failed"}
  BY DEF linkVars
<1>2. TypeOK'
  BY <1>1 DEF IInv, TypeOK, wiring, dataVars, linkVars, Links
<1>3. MinerLeads' /\ AssertionsStand' /\ BlackholeKeepsTx'
  BY <1>1 DEF IInv, MinerLeads, AssertionsStand, BlackholeKeepsTx, dataVars
<1>4. LoopSeals'
  <2> SUFFICES ASSUME pc' = "drop"
               PROVE  Live' \subseteq Blackholes \cup visit'
    BY <1>1, TankFacts DEF IInv, MinerLeads, TypeOK, LoopSeals, wiring, dataVars
  <2>1. Live \subseteq Blackholes \cup visit
    BY <1>1 DEF IInv, LoopSeals
  <2>2. link \in Live' => link \in Blackholes
    BY <1>1 DEF IInv, TypeOK, Live, Matches, Links
  <2>3. Live' \subseteq Live
    BY <1>1 DEF Live, linkVars
  <2>4. QED
    BY <2>1, <2>2, <2>3
<1>5. QED
  BY <1>2, <1>3, <1>4 DEF IInv

\* The block that the victim must not hear of.
LEMMA MineOneInv ==
  ASSUME IInv, MineOne
  PROVE  IInv'
<1> USE DEF MineOne, Step, Goto, Early, Late
<1>1. /\ \A n \in Tanks : tip'[n] = IF n = Miner THEN 2 ELSE tip[n]
      /\ tip' \in [Tanks -> 0 .. 2]
  BY TankFacts DEF IInv, TypeOK
<1>2. TypeOK'
  BY <1>1 DEF IInv, TypeOK, wiring, linkVars, Links
<1>3. MinerLeads'
  BY <1>1, TankFacts DEF IInv, MinerLeads, TypeOK
<1>4. LoopSeals' /\ AssertionsStand' /\ BlackholeKeepsTx'
  BY DEF IInv, LoopSeals, AssertionsStand, BlackholeKeepsTx, Live, wiring, linkVars
<1>5. QED
  BY <1>2, <1>3, <1>4 DEF IInv

\* The transaction that the victim must not hear of, and the waits for it.
LEMMA SendTxInv ==
  ASSUME IInv, SendTx
  PROVE  IInv'
<1> USE DEF SendTx, Step, Goto, Early, Late
<1>1. /\ \A n \in Tanks : pool'[n] = IF n = Miner THEN pool[n] \cup {txid} ELSE pool[n]
      /\ pool' \in [Tanks -> SUBSET {txid}]
  BY TankFacts DEF IInv, TypeOK
<1>2. TypeOK'
  BY <1>1, TankFacts DEF IInv, TypeOK, wiring, linkVars, Links
<1>3. MinerLeads'
  BY <1>1 DEF IInv, MinerLeads
<1>4. LoopSeals' /\ AssertionsStand' /\ BlackholeKeepsTx'
  BY DEF IInv, LoopSeals, AssertionsStand, BlackholeKeepsTx, Live, wiring, linkVars
<1>5. QED
  BY <1>2, <1>3, <1>4 DEF IInv

\* A tank that has the transaction is waited for no longer.
LEMMA SpreadToInv ==
  ASSUME IInv, NEW n \in Tanks, SpreadTo(n)
  PROVE  IInv'
<1> USE DEF SpreadTo, Early, Late
<1>1. UNCHANGED <<wiring, linkVars, dataVars, visit>> /\ pc = "spread" /\ pc' \in {"spread", "check_block"}
  OBVIOUS
<1>2. TypeOK'
  BY <1>1 DEF IInv, TypeOK, wiring, linkVars, dataVars, Links
<1>3. MinerLeads' /\ LoopSeals' /\ BlackholeKeepsTx'
  BY <1>1 DEF IInv, MinerLeads, LoopSeals, BlackholeKeepsTx, Live, linkVars, dataVars
<1>4. AssertionsStand'
  BY <1>1 DEF IInv, AssertionsStand, dataVars
<1>5. QED
  BY <1>2, <1>3, <1>4 DEF IInv

-----------------------------------------------------------------------------
(* The invariant *)

\* The invariant holds initially.
LEMMA InitInv == Init => IInv
<1> SUFFICES ASSUME Init PROVE IInv
  OBVIOUS
<1> USE TankFacts DEF Init, NetworkInit, Early, Late
<1>1. TypeOK
  <2>1. tip \in [Tanks -> 0 .. 2] /\ pool \in [Tanks -> SUBSET {txid}]
    OBVIOUS
  <2>2. QED
    BY <2>1 DEF TypeOK
<1>2. MinerLeads /\ LoopSeals /\ AssertionsStand /\ BlackholeKeepsTx
  BY DEF MinerLeads, LoopSeals, AssertionsStand, BlackholeKeepsTx
<1>3. QED
  BY <1>1, <1>2 DEF IInv

\* Every step preserves the invariant.
LEMMA NextInv == IInv /\ [Next]_vars => IInv'
<1> SUFFICES ASSUME IInv, [Next]_vars PROVE IInv'
  OBVIOUS
<1>1. CASE UNCHANGED vars
  BY <1>1 DEF IInv, TypeOK, MinerLeads, LoopSeals, AssertionsStand, BlackholeKeepsTx, Links, Live,
       vars, wiring, linkVars, dataVars, scriptVars
<1>2. CASE Script
  BY <1>2, WaitsInv, LinkVictimInv, FeedInv, SyncedInv, DropInv, MineOneInv, SendTxInv, SpreadToInv
     DEF Script
<1>3. CASE Timeout
  BY <1>3, WaitsInv
<1>4. CASE Network /\ UNCHANGED scriptVars
  <2>1. extras = {}
    BY DEF IInv, TypeOK
  <2>2. QED
    BY <1>4, <2>1, LinksInv, HearBlockInv, HearTxInv DEF Network
<1>5. QED
  BY <1>1, <1>2, <1>3, <1>4 DEF Next

\* Every conjunct of the inductive invariant holds in every reachable state.
THEOREM InductiveInvariant == Spec => []IInv
BY InitInv, NextInv, PTL DEF Spec

\* Every variable keeps its type.
THEOREM TypeCorrect == Spec => []TypeOK
BY InductiveInvariant, PTL DEF IInv

\* The assertion that the blackhole kept the transaction never fires: the wait
\* before it ends only when the blackhole has it, and nothing takes it away.
THEOREM Keeps == Spec => []BlackholeKeepsTx
BY InductiveInvariant, PTL DEF IInv

-----------------------------------------------------------------------------
(* The refinement *)

\* The script begins as an isolation test does.
LEMMA TestInit == Init => Test!Init
BY TankFacts DEF Init, NetworkInit, Test!Init

\* What the network does is hearing, or nothing the test knows of.
LEMMA TestNetwork ==
  ASSUME IInv, Network, UNCHANGED scriptVars
  PROVE  [Test!Next]_Test!vars
<1> USE DEF scriptVars
<1>1. CASE UNCHANGED dataVars
  <2>1. UNCHANGED leaky
    BY DEF Network, OpenBaseline, OpenExtra, Remove, Lose, HearBlock, HearTx, wiring
  <2>2. UNCHANGED Test!vars
    BY <1>1, <2>1 DEF dataVars, Test!vars
  <2>3. QED
    BY <2>2
<1>2. ASSUME NEW n \in Tanks, HearBlock(n)
      PROVE  [Test!Next]_Test!vars
  <2>1. PICK s \in Sources(n) : s \in Tanks /\ tip[s] > tip[n]
    BY <1>2, SourceFacts DEF IInv, HearBlock
  <2>2. /\ n # Miner /\ tip'[Miner] = tip[Miner]
        /\ tip'[Victim] = IF n = Victim THEN tip[Victim] + 1 ELSE tip[Victim]
        /\ tip[s] <= tip[Miner] /\ \A m \in Tanks : tip[m] \in 0 .. 2
    BY <1>2, <2>1, TankFacts DEF IInv, TypeOK, MinerLeads, HearBlock
  <2>3. CASE n = Victim /\ tip'[Victim] = 2
    <3>1. tip[Miner] = 2
      BY <2>1, <2>2, <2>3, TankFacts
    <3>2. leaky
      BY <2>1, <2>3, <3>1, SourceFacts DEF IInv, LoopSeals
    <3>3. Test!Hear
      BY <1>2, <2>2, <2>3, <3>1, <3>2 DEF Test!Hear, HearBlock, wiring
    <3>4. QED
      BY <3>3 DEF Test!Next
  <2>4. CASE ~(n = Victim /\ tip'[Victim] = 2)
    <3>1. tip'[Victim] = 2 <=> tip[Victim] = 2
      BY <2>1, <2>2, <2>4, TankFacts
    <3>2. UNCHANGED Test!vars
      BY <1>2, <2>2, <3>1 DEF Test!vars, HearBlock, wiring
    <3>3. QED
      BY <3>2
  <2>5. QED
    BY <2>3, <2>4
<1>3. ASSUME NEW n \in Tanks, NEW tx \in Txs, HearTx(n, tx)
      PROVE  [Test!Next]_Test!vars
  <2>1. PICK s \in Sources(n) : s \in Tanks /\ tx \in pool[s]
    BY <1>3, SourceFacts DEF IInv, HearTx
  <2>2. pool'[Victim] = IF n = Victim THEN pool[Victim] \cup {tx} ELSE pool[Victim]
    BY <1>3, TankFacts DEF IInv, TypeOK, HearTx
  <2>3. CASE n = Victim
    <3>1. tip[Miner] = 2
      BY <2>1 DEF IInv, MinerLeads
    <3>2. leaky
      BY <2>1, <2>3, <3>1, SourceFacts DEF IInv, LoopSeals
    <3>3. Test!Hear
      BY <1>3, <2>2, <2>3, <3>1, <3>2 DEF Test!Hear, HearTx, wiring
    <3>4. QED
      BY <3>3 DEF Test!Next
  <2>4. CASE n # Victim
    <3>1. UNCHANGED Test!vars
      BY <1>3, <2>2, <2>4 DEF Test!vars, HearTx, wiring
    <3>2. QED
      BY <3>1
  <2>5. QED
    BY <2>3, <2>4
<1>4. QED
  BY <1>1, <1>2, <1>3 DEF Network, OpenBaseline, OpenExtra, Remove, Lose

\* The script isolates the victim when one peer is left, and judges it when an
\* assertion fails or all have passed; its other steps are none of the test's.
LEMMA TestScript ==
  ASSUME IInv, Script \/ Timeout
  PROVE  [Test!Next]_Test!vars
<1> USE DEF Step, Goto
<1>1. CASE Isolated
  <2>1. tip[Miner] <= 1 /\ tip[Miner] \in 0 .. 2
    BY <1>1, TankFacts DEF IInv, TypeOK, MinerLeads, Isolated, Early
  <2>2. Test!Isolate
    BY <1>1, <2>1 DEF Test!Isolate, Isolated, wiring, linkVars, dataVars
  <2>3. QED
    BY <2>2 DEF Test!Next
<1>2. CASE CheckBlock \/ CheckTx \/ CheckKept
  <2>1. tip[Miner] = 2 /\ pc \notin {"forwarded", "passed", "not_kept"}
    BY <1>2 DEF IInv, MinerLeads, CheckBlock, CheckTx, CheckKept, Late
  <2>2. UNCHANGED <<leaky, tip, pool>>
    BY <1>2 DEF CheckBlock, CheckTx, CheckKept, wiring, dataVars
  <2>3. CASE pc' = "forwarded"
    <3>1. tip[Victim] = 2 \/ pool[Victim] # {}
      BY <1>2, <2>3, TankFacts DEF IInv, TypeOK, MinerLeads, CheckBlock, CheckTx, CheckKept, Late
    <3>2. Test!Judge
      BY <2>1, <2>2, <2>3, <3>1 DEF Test!Judge
    <3>3. QED
      BY <3>2 DEF Test!Next
  <2>4. CASE pc' \in {"passed", "not_kept"}
    <3>1. Test!Judge
      BY <2>1, <2>2, <2>4 DEF Test!Judge
    <3>2. QED
      BY <3>1 DEF Test!Next
  <2>5. CASE pc' \notin {"forwarded", "passed", "not_kept"}
    <3>1. UNCHANGED Test!vars
      BY <2>1, <2>2, <2>5 DEF Test!vars
    <3>2. QED
      BY <3>1
  <2>6. QED
    BY <2>3, <2>4, <2>5
<1>3. CASE ~(Isolated \/ CheckBlock \/ CheckTx \/ CheckKept)
  <2>1. /\ pc \notin {"forwarded", "passed", "not_kept"}
        /\ pc' \notin {"forwarded", "passed", "not_kept"}
        /\ UNCHANGED leaky
    BY <1>3 DEF Script, Timeout, Connected, LinkVictim, OneTry, Feed, Synced, Drop, Disconnect,
         Dropped, MineOne, ControlHasBlock, SendTx, SpreadTo, wiring
  <2>2. (tip[Miner] = 2 \/ pc = "mine") <=> (tip'[Miner] = 2 \/ pc' = "mine")
    <3>1. CASE Feed
      BY <3>1, TankFacts DEF IInv, TypeOK, MinerLeads, Early, Feed
    <3>2. CASE MineOne
      BY <3>2, TankFacts DEF IInv, TypeOK, MineOne
    <3>3. CASE ~Feed /\ ~MineOne
      BY <1>3, <3>3 DEF Script, Timeout, Connected, LinkVictim, OneTry, Synced, Drop, Disconnect,
         Dropped, ControlHasBlock, SendTx, SpreadTo, wiring, dataVars, linkVars
    <3>4. QED
      BY <3>1, <3>2, <3>3
  <2>3. tip'[Victim] = tip[Victim] /\ pool'[Victim] = pool[Victim]
    <3>1. CASE Feed \/ MineOne
      BY <3>1, TankFacts DEF IInv, TypeOK, Feed, MineOne
    <3>2. CASE SendTx
      BY <3>2, TankFacts DEF IInv, TypeOK, SendTx
    <3>3. CASE ~Feed /\ ~MineOne /\ ~SendTx
      BY <1>3, <3>3 DEF Script, Timeout, Connected, LinkVictim, OneTry, Synced, Drop, Disconnect,
         Dropped, ControlHasBlock, SpreadTo, wiring, dataVars, linkVars
    <3>4. QED
      BY <3>1, <3>2, <3>3
  <2>4. UNCHANGED Test!vars
    BY <2>1, <2>2, <2>3 DEF Test!vars
  <2>5. QED
    BY <2>4
<1>4. QED
  BY <1>1, <1>2, <1>3

\* check_blackhole.py is an isolation test: it raises "the blackhole forwarded"
\* only if the victim heard something after it was isolated, and it hears it
\* only from a blackhole that leaks.
THEOREM Refinement == Spec => ImplementsIsolationTest
<1>1. IInv /\ [Next]_vars => [Test!Next]_Test!vars
  <2>1. CASE UNCHANGED vars
    BY <2>1 DEF Test!vars, vars, wiring, linkVars, dataVars, scriptVars
  <2>2. QED
    BY <2>1, TestNetwork, TestScript DEF Next
<1>2. QED
  BY <1>1, TestInit, InductiveInvariant, PTL DEF Spec, ImplementsIsolationTest, Test!Spec
=============================================================================
