--------------------------- MODULE MCDeployment ----------------------------
(***************************************************************************)
(* What goes on around a deployment, in one run: the network files are     *)
(* generated (TwinArms), the miner's coins are prepared (MinerFunds), an   *)
(* activity is launched (SimlnPlugin), and a scenario calls lnd            *)
(* (LndClient).  They share no state: a behaviour is one of them, chosen   *)
(* at the start, while the others stay as they begin.                      *)
(***************************************************************************)
EXTENDS MCTwinArms

CONSTANTS
  N, Iterations, Maturity, HalvingInterval, Subsidy, MIN_UTXO_VALUE, Fee, MaxHeight,   \* MinerFunds
  Launches, MaxTime,                                                                    \* SimlnPlugin
  MaxFaults                                                                             \* LndClient

ASSUME FundsAssumption ==
  /\ {N, Iterations, Maturity, HalvingInterval, Subsidy, MIN_UTXO_VALUE, Fee, MaxHeight} \subseteq Nat
  /\ N > 0 /\ HalvingInterval > 0 /\ Fee > 0 /\ MIN_UTXO_VALUE > 8 * Fee

ASSUME MaxTimeAssumption == MaxTime \in Nat

VARIABLES
  part,
  funds_pc, iteration, height, own, coins, pending, spent,
  simln_pc, now, began, stamp, pod, ran,
  lnd_pc, call, conn, exchange, done, resent, outcome, faults

Funds == INSTANCE MinerFunds WITH pc <- funds_pc
Simln == INSTANCE SimlnPlugin WITH pc <- simln_pc
Lnd == INSTANCE LndClient WITH pc <- lnd_pc

fundsVars == <<funds_pc, iteration, height, own, coins, pending, spent>>
simlnVars == <<simln_pc, now, began, stamp, pod, ran>>
lndVars == <<lnd_pc, call, conn, exchange, done, resent, outcome, faults>>
allVars == <<part, vars, fundsVars, simlnVars, lndVars>>

AnyInit ==
  /\ part \in {"arms", "funds", "simln", "lnd"}
  /\ Init /\ Funds!Init /\ Simln!Init /\ Lnd!Init
  /\ part # "arms" => seed = CHOOSE s \in Seeds : TRUE
  /\ part # "funds" => height = 0
  /\ part # "lnd" => call = "graph"

AnyNext ==
  /\ UNCHANGED part
  /\ \/ part = "arms" /\ Next /\ UNCHANGED <<fundsVars, simlnVars, lndVars>>
     \/ part = "funds" /\ Funds!Next /\ UNCHANGED <<vars, simlnVars, lndVars>>
     \/ part = "simln" /\ Simln!Next /\ UNCHANGED <<vars, fundsVars, lndVars>>
     \/ part = "lnd" /\ Lnd!Next /\ UNCHANGED <<vars, fundsVars, simlnVars>>

\* The fairness each module states, for the part that runs.
AnySpec ==
  /\ AnyInit /\ [][AnyNext]_allVars
  /\ \A l \in Launches : WF_simlnVars(part = "simln" /\ Simln!Launch(l))
  /\ \A t \in Simln!Times : WF_simlnVars(part = "simln" /\ Simln!InitEnds(t))
  /\ WF_lndVars(part = "lnd" /\ Lnd!Client)

-----------------------------------------------------------------------------
(* Properties, stated where the part is modelled *)

\* mine_blocks suffices while the miner's rewards do.
FundsSufficeWhileRewardsDo == Funds!FundsSufficeWhileRewardsDo

\* Activities launched in different seconds run, and do not disturb each other.
LaunchesAreSeparate == Simln!LaunchesAreSeparate

\* lnd repeats a call only after a loss the client has seen.
RepeatedOnlyAfterLoss == Lnd!RepeatedOnlyAfterLoss

\* A call returns, a get whole, unless the connection is left Request-sent.
ReturnsOrWedges == Lnd!ReturnsOrWedges
=============================================================================
