--------------------------- MODULE CheckBlackhole ---------------------------
(***************************************************************************)
(* scenarios/check_blackhole.py: does a -blackhole node really forward     *)
(* nothing?  The victim's one peer is the blackhole.  The script feeds it   *)
(* the chain over a temporary link to the source, drops the link, waits     *)
(* until one peer is left, and asserts that neither the block it mines then *)
(* nor the transaction it sends reaches the victim.                        *)
(***************************************************************************)
EXTENDS VictimNetwork

VARIABLES
  pc,
  visit,     \* the peers the dropping loop has still to look at
  waiting    \* the tanks still to be asked for the transaction

scriptVars == <<pc, visit, waiting>>
vars == <<wiring, linkVars, dataVars, scriptVars>>

txid == 1
Relays == Honest \ {Miner}   \* tank-0003 and, behind it, the control node

Init ==
  /\ extras = {}
  /\ lookalikes \in SUBSET Blackholes
  /\ leaky \in BOOLEAN
  /\ NetworkInit
  /\ pc = "connect" /\ visit = {} /\ waiting = {}

Goto(next) == pc' = next
Step(from, to) == pc = from /\ Goto(to)

Connected ==
  /\ Blackholes \subseteq listed
  /\ Step("connect", "link")
  /\ UNCHANGED <<wiring, linkVars, dataVars, visit, waiting>>

LinkVictim ==
  /\ Step("link", "feed")
  /\ OneTry
  /\ UNCHANGED <<visit, waiting>>

Feed ==
  /\ Step("feed", "sync")
  /\ tip' = [tip EXCEPT ![Miner] = 1]
  /\ UNCHANGED <<pool, wiring, linkVars, visit, waiting>>

Synced ==
  /\ \A n \in Tanks : tip[n] = 1
  /\ Step("sync", "drop")
  /\ visit' = listed
  /\ UNCHANGED <<wiring, linkVars, dataVars, waiting>>

\* Faulty variant: the loop breaks at the first match.
DropFirst(link) ==
  /\ pc = "drop"
  /\ link \in visit
  /\ visit' = IF Matches(link) THEN {} ELSE visit \ {link}
  /\ IF Matches(link) /\ link \in listed
       THEN Disconnect(link) /\ UNCHANGED pc
       ELSE /\ UNCHANGED <<linkVars, wiring, dataVars>>
            /\ pc' = IF Matches(link) THEN "failed" ELSE pc
  /\ UNCHANGED waiting

\* disconnectnode raises for a peer that has left since it was listed.
Drop(link) ==
  /\ pc = "drop"
  /\ link \in visit
  /\ visit' = visit \ {link}
  /\ IF Matches(link) /\ link \in listed
       THEN Disconnect(link) /\ UNCHANGED pc
       ELSE /\ UNCHANGED <<linkVars, wiring, dataVars>>
            /\ pc' = IF Matches(link) THEN "failed" ELSE pc
  /\ UNCHANGED waiting

Dropped ==
  /\ visit = {}
  /\ Step("drop", "isolate")
  /\ UNCHANGED <<wiring, linkVars, dataVars, visit, waiting>>

\* len(victim.getpeerinfo()) == 1
Isolated ==
  /\ Cardinality(listed) = 1
  /\ Step("isolate", "mine")
  /\ UNCHANGED <<wiring, linkVars, dataVars, visit, waiting>>

MineOne ==
  /\ Step("mine", "control_block")
  /\ tip' = [tip EXCEPT ![Miner] = 2]
  /\ UNCHANGED <<pool, wiring, linkVars, visit, waiting>>

\* Only the control node, the last of the relay path, is waited for.
ControlHasBlock ==
  /\ \A n \in Relays : tip[n] >= 2
  /\ Step("control_block", "send")
  /\ UNCHANGED <<wiring, linkVars, dataVars, visit, waiting>>

SendTx ==
  /\ Step("send", "spread")
  /\ pool' = [pool EXCEPT ![Miner] = @ \cup {txid}]
  /\ waiting' = Blackholes \cup Relays
  /\ UNCHANGED <<tip, wiring, linkVars, visit>>

\* Faulty variant: nobody checks that the blackhole received the transaction.
SpreadToRelays(n) ==
  /\ pc = "spread" /\ n \in waiting
  /\ txid \in pool[n] \/ n \in Blackholes
  /\ waiting' = waiting \ {n}
  /\ pc' = IF waiting' = {} THEN "check_block" ELSE pc
  /\ UNCHANGED <<wiring, linkVars, dataVars, visit>>

SpreadTo(n) ==
  /\ pc = "spread" /\ n \in waiting
  /\ txid \in pool[n]
  /\ waiting' = waiting \ {n}
  /\ pc' = IF waiting' = {} THEN "check_block" ELSE pc
  /\ UNCHANGED <<wiring, linkVars, dataVars, visit>>

\* The three assertions at the end, after the settle time.
CheckBlock ==
  /\ pc = "check_block"
  /\ Goto(IF tip[Victim] # 1 THEN "forwarded" ELSE "check_tx")
  /\ UNCHANGED <<wiring, linkVars, dataVars, visit, waiting>>

CheckTx ==
  /\ pc = "check_tx"
  /\ Goto(IF txid \in pool[Victim] THEN "forwarded" ELSE "check_kept")
  /\ UNCHANGED <<wiring, linkVars, dataVars, visit, waiting>>

CheckKept ==
  /\ pc = "check_kept"
  /\ Goto(IF \E b \in Blackholes : txid \notin pool[b] THEN "not_kept" ELSE "passed")
  /\ UNCHANGED <<wiring, linkVars, dataVars, visit, waiting>>

\* Faulty variant: the wait for isolation has no deadline.
TimeoutButIsolate ==
  /\ \/ pc = "sync" /\ \E n \in Tanks : tip[n] # 1
     \/ pc = "control_block" /\ \E n \in Relays : tip[n] < 2
     \/ pc = "spread" /\ \E n \in waiting : txid \notin pool[n]
  /\ Goto("failed")
  /\ UNCHANGED <<wiring, linkVars, dataVars, visit, waiting>>

\* wait_until and sync_all raise when their time is over.
Timeout ==
  /\ \/ pc = "sync" /\ \E n \in Tanks : tip[n] # 1
     \/ pc = "isolate" /\ Cardinality(listed) # 1
     \/ pc = "control_block" /\ \E n \in Relays : tip[n] < 2
     \/ pc = "spread" /\ \E n \in waiting : txid \notin pool[n]
  /\ Goto("failed")
  /\ UNCHANGED <<wiring, linkVars, dataVars, visit, waiting>>

Script ==
  \/ Connected
  \/ LinkVictim
  \/ Feed
  \/ Synced
  \/ \E link \in Links : Drop(link)
  \/ Dropped
  \/ Isolated
  \/ MineOne
  \/ ControlHasBlock
  \/ SendTx
  \/ \E n \in Tanks : SpreadTo(n)
  \/ CheckBlock
  \/ CheckTx
  \/ CheckKept

Next == Script \/ Timeout \/ (Network /\ UNCHANGED scriptVars)

Spec == Init /\ [][Next]_vars

\* The script is scheduled again, and a wait that goes on finds its time over.
FairSpec == Spec /\ WF_vars(Script) /\ SF_vars(Timeout)

-----------------------------------------------------------------------------
(* Properties *)

\* The last assertion never fires: what the blackhole received it keeps, and
\* the script goes on only when it has received it.
BlackholeKeepsTx == pc # "not_kept"

\* Every run ends once the baseline stands long enough to be seen.
Terminates == <>[](Blackholes \subseteq listed) => <>(pc \in {"passed", "forwarded", "not_kept", "failed"})

\* An isolation test: the alarm "the blackhole forwarded" is raised only if
\* the victim heard something after it was isolated, and it can only hear it
\* from a blackhole that leaks, never over what is left of the temporary link.
Test == INSTANCE IsolationTest WITH
  porous <- leaky,
  isolated <- tip[Miner] = 2 \/ pc = "mine",
  heard <- tip[Victim] = 2 \/ pool[Victim] # {},
  verdict <- CASE pc = "forwarded" -> "reached"
               [] pc \in {"passed", "not_kept"} -> "isolated"
               [] OTHER -> "none"

ImplementsIsolationTest == Test!Spec
=============================================================================
