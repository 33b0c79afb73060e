--------------------------- MODULE VictimNetwork ---------------------------
(***************************************************************************)
(* The network around an isolated node, as scenarios/check_eclipse.py and  *)
(* scenarios/check_blackhole.py see it over RPC: a mesh of honest nodes, a  *)
(* victim whose baseline peers are blackholes (they receive and keep, but  *)
(* forward nothing), its extra links to honest nodes, and the temporary    *)
(* link through which both scripts feed it the chain.                      *)
(*                                                                         *)
(* bitcoind is external: which links exist and who relays what to whom is  *)
(* left to it, within the rules stated at each action.                     *)
(***************************************************************************)
EXTENDS Integers, FiniteSets

CONSTANTS
  Honest,        \* the tanks of the mesh
  Miner,         \* the one that mines and sends
  Blackholes,    \* the victim's baseline peers
  Victim,
  TxCount,       \* transactions sent once the victim is isolated
  MaxLost        \* bound on the victim's links that break by themselves

ASSUME NetworkAssumption ==
  /\ Miner \in Honest
  /\ Honest \cap Blackholes = {} /\ Victim \notin Honest \cup Blackholes
  /\ IsFiniteSet(Honest) /\ IsFiniteSet(Blackholes)
  /\ TxCount \in Nat \ {0} /\ MaxLost \in Nat

Tanks == Honest \cup Blackholes \cup {Victim}
Txs == 1 .. TxCount

VARIABLES
  \* how the network was deployed
  extras,       \* the honest nodes the victim is wired to by addconnection
  lookalikes,   \* the nodes listed with an address that contains the miner's host
  leaky,        \* the blackholes forward after all
  \* the victim's links
  listed,       \* what getpeerinfo lists; "temporary" is the link to the miner
  closing,      \* those disconnectnode was called for
  opened,       \* the extras addconnection has been called for
  lost,         \* links that broke by themselves
  \* what the nodes have
  tip,          \* 0, 1 after the first blocks are mined, 2 after the last one
  pool          \* the transactions in the mempool of a node

wiring == <<extras, lookalikes, leaky>>
linkVars == <<listed, closing, opened, lost>>
dataVars == <<tip, pool>>

Links == Blackholes \cup extras \cup {"temporary"}
Remote(link) == IF link = "temporary" THEN Miner ELSE link
Live == listed \ closing

\* What the victim may hear from: an honest peer, or a blackhole that leaks.
Sources(n) ==
  IF n = Victim
    THEN {Remote(l) : l \in {l \in Live : l \notin Blackholes \/ leaky}}
    ELSE Honest

NetworkInit ==
  /\ listed = {} /\ closing = {} /\ opened = {} /\ lost = 0
  /\ tip = [n \in Tanks |-> 0]
  /\ pool = [n \in Tanks |-> {}]

\* A link of the baseline comes up, at deployment or after it broke: nodes
\* connect to their addnode peers again and again.
OpenBaseline(b) ==
  /\ b \in Blackholes \ listed
  /\ listed' = listed \cup {b}
  /\ UNCHANGED <<closing, opened, lost, wiring, dataVars>>

\* A node opens no second link to a peer it knows by the same address.
Duplicate(n) == \E l \in listed : Remote(l) = n

\* addconnection is called once for each extra, some time after deployment.
OpenExtra(e) ==
  /\ e \in extras \ opened
  /\ opened' = opened \cup {e}
  /\ \/ Duplicate(e) /\ UNCHANGED listed
     \/ (Duplicate(e) => Miner \notin lookalikes) /\ listed' = listed \cup {e}
  /\ UNCHANGED <<closing, lost, wiring, dataVars>>

\* addnode(miner_p2p, "onetry") makes one attempt, which may fail.
OneTry ==
  /\ \/ (Duplicate(Miner) => Miner \notin lookalikes) /\ listed' = listed \cup {"temporary"}
     \/ UNCHANGED listed
  /\ UNCHANGED <<closing, opened, lost, wiring, dataVars>>

\* The peers both scripts drop: miner_node.rpchost in p["addr"].
Matches(link) == link = "temporary" \/ Remote(link) \in lookalikes

\* disconnectnode only marks the link: nothing passes through it any more, but
\* it stays listed until the node's socket thread removes it.
Disconnect(l) == closing' = closing \cup {l} /\ UNCHANGED <<listed, opened, lost, wiring, dataVars>>

Remove(l) ==
  /\ l \in closing
  /\ listed' = listed \ {l} /\ closing' = closing \ {l}
  /\ UNCHANGED <<opened, lost, wiring, dataVars>>

\* A link breaks.
Lose(l) ==
  /\ l \in listed /\ lost < MaxLost
  /\ lost' = lost + 1
  /\ listed' = listed \ {l} /\ closing' = closing \ {l}
  /\ UNCHANGED <<opened, wiring, dataVars>>

\* Relay.  The honest mesh is connected and the blackholes listen to it.
HearBlock(n) ==
  /\ \E s \in Sources(n) : tip[s] > tip[n]
  /\ tip' = [tip EXCEPT ![n] = @ + 1]
  /\ UNCHANGED <<pool, wiring, linkVars>>

HearTx(n, tx) ==
  /\ tx \notin pool[n]
  /\ \E s \in Sources(n) : tx \in pool[s]
  /\ pool' = [pool EXCEPT ![n] = @ \cup {tx}]
  /\ UNCHANGED <<tip, wiring, linkVars>>

Network ==
  \/ \E b \in Blackholes : OpenBaseline(b)
  \/ \E e \in extras : OpenExtra(e)
  \/ \E l \in Links : Remove(l) \/ Lose(l)
  \/ \E n \in Tanks : HearBlock(n) \/ \E tx \in Txs : HearTx(n, tx)

=============================================================================
