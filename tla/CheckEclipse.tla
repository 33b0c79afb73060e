---------------------------- MODULE CheckEclipse ----------------------------
(***************************************************************************)
(* scenarios/check_eclipse.py: does a victim whose baseline peers are all   *)
(* blackholes survive on its extra links?  The script notes how many peers  *)
(* the victim has, links it to the miner until it has the chain, drops that *)
(* link, waits until the number of peers is the noted one, and only then    *)
(* mines the block and sends the transactions the victim is judged by.      *)
(*                                                                         *)
(* The links the victim has are the network's business (VictimNetwork): an  *)
(* extra may come up before or after any step of the script.                *)
(***************************************************************************)
EXTENDS VictimNetwork

VARIABLES
  pc,
  baseline,      \* baseline_peers
  visit,         \* the peers the dropping loop has still to look at
  dropped,       \* history: the links it called disconnectnode for
  sent,          \* txids
  victimSynced,  \* victim_synced
  gotAll,        \* got_all
  received       \* the number of txids found in the victim's mempool

scriptVars == <<pc, baseline, visit, dropped, sent, victimSynced, gotAll, received>>
vars == <<wiring, linkVars, dataVars, scriptVars>>

Init ==
  /\ extras \in SUBSET Honest
  /\ lookalikes \in SUBSET (Blackholes \cup extras)
  /\ leaky = FALSE
  /\ NetworkInit
  /\ pc = "connect" /\ baseline = 0 /\ visit = {} /\ dropped = {} /\ sent = {}
  /\ victimSynced = FALSE /\ gotAll = FALSE /\ received = 0

Goto(next) == pc' = next
Fail == Goto("failed") /\ UNCHANGED <<baseline, visit, dropped, sent, victimSynced, gotAll, received>>

\* wait_for_tanks_connected counts the manual peers only.
Connected ==
  /\ pc = "connect"
  /\ Blackholes \subseteq listed
  /\ Goto("baseline")
  /\ UNCHANGED <<wiring, linkVars, dataVars, baseline, visit, dropped, sent, victimSynced, gotAll, received>>

NoteBaseline ==
  /\ pc = "baseline"
  /\ baseline' = Cardinality(listed)
  /\ Goto("link")
  /\ UNCHANGED <<wiring, linkVars, dataVars, visit, dropped, sent, victimSynced, gotAll, received>>

LinkVictim ==
  /\ pc = "link"
  /\ OneTry
  /\ Goto("feed")
  /\ UNCHANGED <<baseline, visit, dropped, sent, victimSynced, gotAll, received>>

\* generatetoaddress(miner_node, 120, addr) ...
Feed ==
  /\ pc = "feed"
  /\ tip' = [tip EXCEPT ![Miner] = 1]
  /\ Goto("sync")
  /\ UNCHANGED <<pool, wiring, linkVars, baseline, visit, dropped, sent, victimSynced, gotAll, received>>

\* ... with its sync_all over every tank, blackholes and victim included; then
\* the loop that drops the link iterates over one getpeerinfo.
Synced ==
  /\ pc = "sync"
  /\ \A n \in Tanks : tip[n] = 1
  /\ Goto("drop")
  /\ visit' = listed
  /\ UNCHANGED <<wiring, linkVars, dataVars, baseline, dropped, sent, victimSynced, gotAll, received>>

\* Faulty variant: the loop breaks at the first match.
DropFirst(link) ==
  /\ pc = "drop"
  /\ link \in visit
  /\ visit' = IF Matches(link) THEN {} ELSE visit \ {link}
  /\ IF Matches(link) /\ link \in listed
       THEN Disconnect(link) /\ dropped' = dropped \cup {link} /\ UNCHANGED pc
       ELSE /\ UNCHANGED <<dropped, linkVars, wiring, dataVars>>
            /\ pc' = IF Matches(link) THEN "failed" ELSE pc
  /\ UNCHANGED <<baseline, sent, victimSynced, gotAll, received>>

\* disconnectnode raises for a peer that has left since it was listed.
Drop(link) ==
  /\ pc = "drop"
  /\ link \in visit
  /\ visit' = visit \ {link}
  /\ IF Matches(link) /\ link \in listed
       THEN Disconnect(link) /\ dropped' = dropped \cup {link} /\ UNCHANGED pc
       ELSE /\ UNCHANGED <<dropped, linkVars, wiring, dataVars>>
            /\ pc' = IF Matches(link) THEN "failed" ELSE pc
  /\ UNCHANGED <<baseline, sent, victimSynced, gotAll, received>>

Dropped ==
  /\ pc = "drop"
  /\ visit = {}
  /\ Goto("seal")
  /\ UNCHANGED <<wiring, linkVars, dataVars, baseline, visit, dropped, sent, victimSynced, gotAll, received>>

\* len(victim.getpeerinfo()) == baseline_peers
Sealed ==
  /\ pc = "seal"
  /\ Cardinality(listed) = baseline
  /\ Goto("mine")
  /\ UNCHANGED <<wiring, linkVars, dataVars, baseline, visit, dropped, sent, victimSynced, gotAll, received>>

MineOne ==
  /\ pc = "mine"
  /\ tip' = [tip EXCEPT ![Miner] = 2]
  /\ Goto("mesh_block")
  /\ UNCHANGED <<pool, wiring, linkVars, baseline, visit, dropped, sent, victimSynced, gotAll, received>>

MeshHasBlock ==
  /\ pc = "mesh_block"
  /\ \A n \in Honest : tip[n] >= 2
  /\ Goto("victim_block")
  /\ UNCHANGED <<wiring, linkVars, dataVars, baseline, visit, dropped, sent, victimSynced, gotAll, received>>

\* poll() ends when the predicate holds or, once the time is over, with the
\* value it has then.
PollVictimBlock ==
  /\ pc = "victim_block"
  /\ victimSynced' = (tip[Victim] >= 2)
  /\ Goto("send")
  /\ UNCHANGED <<wiring, linkVars, dataVars, baseline, visit, dropped, sent, gotAll, received>>

SendTx(tx) ==
  /\ pc = "send"
  /\ tx \in Txs \ sent
  /\ sent' = sent \cup {tx}
  /\ pool' = [pool EXCEPT ![Miner] = @ \cup {tx}]
  /\ UNCHANGED <<tip, wiring, linkVars, pc, baseline, visit, dropped, victimSynced, gotAll, received>>

SentAll ==
  /\ pc = "send"
  /\ sent = Txs
  /\ Goto("mesh_txs")
  /\ UNCHANGED <<wiring, linkVars, dataVars, baseline, visit, dropped, sent, victimSynced, gotAll, received>>

\* Faulty variant: the wait asks the miner only.
MinerHasTxs ==
  /\ pc = "mesh_txs"
  /\ sent \subseteq pool[Miner]
  /\ Goto("victim_txs")
  /\ UNCHANGED <<wiring, linkVars, dataVars, baseline, visit, dropped, sent, victimSynced, gotAll, received>>

MeshHasTxs ==
  /\ pc = "mesh_txs"
  /\ \A n \in Honest : sent \subseteq pool[n]
  /\ Goto("victim_txs")
  /\ UNCHANGED <<wiring, linkVars, dataVars, baseline, visit, dropped, sent, victimSynced, gotAll, received>>

PollVictimTxs ==
  /\ pc = "victim_txs"
  /\ gotAll' = (sent \subseteq pool[Victim])
  /\ Goto("count")
  /\ UNCHANGED <<wiring, linkVars, dataVars, baseline, visit, dropped, sent, victimSynced, received>>

\* The mempool is read again for the count.
CountReceived ==
  /\ pc = "count"
  /\ received' = Cardinality(sent \cap pool[Victim])
  /\ Goto("reported")
  /\ UNCHANGED <<wiring, linkVars, dataVars, baseline, visit, dropped, sent, victimSynced, gotAll>>

\* Faulty variant: the wait for the seal has no deadline.
TimeoutButSeal ==
  /\ \/ pc = "sync" /\ \E n \in Tanks : tip[n] # 1
     \/ pc = "mesh_block" /\ \E n \in Honest : tip[n] < 2
     \/ pc = "mesh_txs" /\ \E n \in Honest : ~(sent \subseteq pool[n])
  /\ Fail
  /\ UNCHANGED <<wiring, linkVars, dataVars>>

\* wait_until and sync_all raise when their time is over.
Timeout ==
  /\ \/ pc = "sync" /\ \E n \in Tanks : tip[n] # 1
     \/ pc = "seal" /\ Cardinality(listed) # baseline
     \/ pc = "mesh_block" /\ \E n \in Honest : tip[n] < 2
     \/ pc = "mesh_txs" /\ \E n \in Honest : ~(sent \subseteq pool[n])
  /\ Fail
  /\ UNCHANGED <<wiring, linkVars, dataVars>>

Script ==
  \/ Connected
  \/ NoteBaseline
  \/ LinkVictim
  \/ Feed
  \/ Synced
  \/ \E link \in Links : Drop(link)
  \/ Dropped
  \/ Sealed
  \/ MineOne
  \/ MeshHasBlock
  \/ PollVictimBlock
  \/ \E tx \in Txs : SendTx(tx)
  \/ SentAll
  \/ MeshHasTxs
  \/ PollVictimTxs
  \/ CountReceived

Next == Script \/ Timeout \/ (Network /\ UNCHANGED scriptVars)

Spec == Init /\ [][Next]_vars

\* The script is scheduled again, and a wait that goes on finds its time over.
FairSpec == Spec /\ WF_vars(Script) /\ SF_vars(Timeout)

-----------------------------------------------------------------------------
(* Properties *)

\* The victim is measured against a mesh that has everything, and the three
\* results, read at three different times, do not contradict each other.
VerdictIsConsistent ==
  /\ pc \in {"victim_txs", "count", "reported"} =>
       \A n \in Honest : tip[n] = 2 /\ pool[n] = Txs
  /\ pc = "reported" => (gotAll => received = TxCount)

\* Every run ends once the baseline stands long enough to be seen.
Terminates == <>[](Blackholes \subseteq listed) => <>(pc \in {"reported", "failed"})

\* An isolation test, in all three arms.  In the control arm ("no extras ->
\* victim is fully eclipsed") the victim hears nothing after the seal, whichever
\* addresses look alike and whichever links break or come back while the script
\* drops, waits and counts; in the others it is found reached only if it was.
Test == INSTANCE IsolationTest WITH
  porous <- extras # {},
  isolated <- tip[Miner] = 2 \/ pc = "mine",
  heard <- tip[Victim] = 2 \/ pool[Victim] # {},
  verdict <- IF pc # "reported" THEN "none"
             ELSE IF victimSynced \/ received > 0 THEN "reached" ELSE "isolated"

ImplementsIsolationTest == Test!Spec

\* "Dropping the temporary link to seal the eclipse" (line 76): no other link.
OnlyTemporaryLinkDropped == dropped \subseteq {"temporary"}
=============================================================================
