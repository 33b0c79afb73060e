-------------------------- MODULE DeploymentProofs -------------------------
(***************************************************************************)
(* What goes on around a deployment, for all values of the constants: lnd's *)
(* client repeats a call only after a loss, launches of activities do not  *)
(* disturb each other, the miner's coins suffice while its rewards do, and *)
(* the arms of the experiment are twins.                                   *)
(***************************************************************************)
EXTENDS MCDeployment, WellFoundedInduction, FiniteSetTheorems, SequenceTheorems, TLAPS

-----------------------------------------------------------------------------
(* The Lightning client *)

LndTypes ==
  /\ lnd_pc \in {"idle", "request", "response", "body", "sleep"}
  /\ call \in Lnd!Calls
  /\ conn \in {"Idle", "Request-sent"}
  /\ exchange \in {"none", "asked", "done", "answered", "lost"}
  /\ done \in Nat /\ resent \in Nat
  /\ outcome \in {"none", "whole", "truncated"}

\* lnd may only have a request before it that the client has not given up, or
\* that holds the connection: the client cannot send another one then.
LndHasOneRequest ==
  /\ lnd_pc \in {"request", "sleep"} /\ conn = "Idle" => exchange \notin {"asked", "done"}
  /\ lnd_pc = "response" => conn = "Request-sent"
  /\ lnd_pc \in {"idle", "body"} => conn = "Idle" /\ exchange \notin {"asked", "done"}

\* What lnd has carried out, against the losses the client has seen.
DoneAfterLosses ==
  /\ done <= 1 + resent
  /\ exchange \in {"none", "asked"} => done <= resent
  /\ lnd_pc \in {"request", "sleep"} /\ conn = "Idle" => done <= resent

\* get asks again instead of returning a part of an answer.
GetsWhole == call \in Lnd!Gets => outcome # "truncated"

LndInv == LndTypes /\ LndHasOneRequest /\ DoneAfterLosses /\ GetsWhole

-----------------------------------------------------------------------------
(* The SimLN plugin *)

SimlnTypes ==
  /\ now \in Simln!Times
  /\ simln_pc \in [Launches -> {"idle", "helm", "wait_for_init", "write", "launched", "PluginError"}]
  /\ began \in [Launches -> Nat]
  /\ stamp \in [Launches -> Simln!Times]
  /\ pod \in [Simln!Times -> [phase : {"absent", "pending", "init", "running"},
                              file : Launches \cup {Simln!None}]]
  /\ ran \in [Simln!Times -> Launches \cup {Simln!None}]

\* A launch is stamped with the second it begins in.
StampsAreSeconds == \A l \in Launches : simln_pc[l] # "idle" => stamp[l] = began[l]

\* An activity in a pod, or running in it, is one whose launch made that pod's
\* name and has succeeded.
FilesAreLaunched ==
  \A t \in Simln!Times :
    /\ pod[t].file # Simln!None => simln_pc[pod[t].file] = "launched" /\ stamp[pod[t].file] = t
    /\ ran[t] # Simln!None => simln_pc[ran[t]] = "launched" /\ stamp[ran[t]] = t

SimlnInv == SimlnTypes /\ StampsAreSeconds /\ FilesAreLaunched

-----------------------------------------------------------------------------
(* The Lightning client: the steps *)

\* No call has been made.
LEMMA LndInit == Lnd!Init => LndInv
BY DEF Lnd!Init, LndInv, LndTypes, LndHasOneRequest, DoneAfterLosses, GetsWhole

\* A call begins with nothing at lnd: the one before it was answered or lost.
LEMMA LndCallKeeps ==
  ASSUME LndInv, NEW c \in Lnd!Calls, Lnd!Call(c)
  PROVE  LndInv'
BY DEF Lnd!Call, LndInv, LndTypes, LndHasOneRequest, DoneAfterLosses, GetsWhole

\* A request is only sent on a connection that is free, and so after a loss.
LEMMA LndRequestKeeps ==
  ASSUME LndInv, Lnd!Request \/ Lnd!RequestRefused \/ Lnd!RequestNotSent \/ Lnd!Retry
  PROVE  LndInv'
<1>1. CASE Lnd!Request
  BY <1>1 DEF Lnd!Request, LndInv, LndTypes, LndHasOneRequest, DoneAfterLosses, GetsWhole
<1>2. CASE Lnd!RequestRefused
  BY <1>2 DEF Lnd!RequestRefused, LndInv, LndTypes, LndHasOneRequest, DoneAfterLosses, GetsWhole
<1>3. CASE Lnd!RequestNotSent
  BY <1>3 DEF Lnd!RequestNotSent, LndInv, LndTypes, LndHasOneRequest, DoneAfterLosses, GetsWhole
<1>4. CASE Lnd!Retry
  BY <1>4 DEF Lnd!Retry, LndInv, LndTypes, LndHasOneRequest, DoneAfterLosses, GetsWhole
<1> QED BY <1>1, <1>2, <1>3, <1>4

\* The answer comes, the connection breaks, or the wait ends with the connection
\* taken.
LEMMA LndResponseKeeps ==
  ASSUME LndInv,
         Lnd!Response \/ Lnd!ResponseLost \/ Lnd!ResponseTimeout \/ Lnd!Body \/ Lnd!BodyBreaks
  PROVE  LndInv'
<1>1. CASE Lnd!Response
  BY <1>1 DEF Lnd!Response, LndInv, LndTypes, LndHasOneRequest, DoneAfterLosses, GetsWhole
<1>2. CASE Lnd!ResponseLost
  BY <1>2 DEF Lnd!ResponseLost, LndInv, LndTypes, LndHasOneRequest, DoneAfterLosses, GetsWhole
<1>3. CASE Lnd!ResponseTimeout
  BY <1>3 DEF Lnd!ResponseTimeout, LndInv, LndTypes, LndHasOneRequest, DoneAfterLosses, GetsWhole
<1>4. CASE Lnd!Body
  BY <1>4 DEF Lnd!Body, Lnd!Return, LndInv, LndTypes, LndHasOneRequest, DoneAfterLosses, GetsWhole
<1>5. CASE Lnd!BodyBreaks
  <2>1. CASE call \in Lnd!Posts /\ Lnd!Return("truncated") /\ UNCHANGED resent
    <3>1. call \notin Lnd!Gets
      BY <2>1 DEF Lnd!Posts, Lnd!Gets
    <3> QED BY <1>5, <2>1, <3>1 DEF Lnd!BodyBreaks, Lnd!Return, LndInv, LndTypes,
                                    LndHasOneRequest, DoneAfterLosses, GetsWhole
  <2>2. CASE /\ lnd_pc' = "sleep" /\ resent' = resent + 1
             /\ UNCHANGED <<call, conn, exchange, done, outcome>>
    BY <1>5, <2>2 DEF Lnd!BodyBreaks, LndInv, LndTypes,
                      LndHasOneRequest, DoneAfterLosses, GetsWhole
  <2> QED BY <1>5, <2>1, <2>2 DEF Lnd!BodyBreaks
<1> QED BY <1>1, <1>2, <1>3, <1>4, <1>5

\* lnd carries out the one request it has.
LEMMA LndActsKeeps == ASSUME LndInv, Lnd!Lnd PROVE LndInv'
<1>1. CASE Lnd!LndActs
  BY <1>1 DEF Lnd!LndActs, LndInv, LndTypes, LndHasOneRequest, DoneAfterLosses, GetsWhole
<1>2. CASE Lnd!LndAnswers
  BY <1>2 DEF Lnd!LndAnswers, LndInv, LndTypes, LndHasOneRequest, DoneAfterLosses, GetsWhole
<1>3. CASE Lnd!LndLost
  BY <1>3 DEF Lnd!LndLost, LndInv, LndTypes, LndHasOneRequest, DoneAfterLosses, GetsWhole
<1> QED BY <1>1, <1>2, <1>3 DEF Lnd!Lnd

\* Every step of the client, and of lnd, keeps the invariant.
LEMMA LndNext == LndInv /\ [Lnd!Next]_lndVars => LndInv'
<1> SUFFICES ASSUME LndInv, [Lnd!Next]_lndVars PROVE LndInv'
  OBVIOUS
<1>1. CASE UNCHANGED lndVars
  BY <1>1 DEF lndVars, LndInv, LndTypes, LndHasOneRequest, DoneAfterLosses, GetsWhole
<1> QED BY <1>1, LndCallKeeps, LndRequestKeeps, LndResponseKeeps, LndActsKeeps
     DEF Lnd!Next, Lnd!Client

-----------------------------------------------------------------------------
(* The SimLN plugin: the steps *)

\* No activity has been launched.
LEMMA SimlnInit == Simln!Init => SimlnInv
<1>1. 0 \in Simln!Times
  BY MaxTimeAssumption DEF Simln!Times
<1> QED BY <1>1, MaxTimeAssumption DEF Simln!Init, SimlnInv, SimlnTypes, StampsAreSeconds, FilesAreLaunched

\* The clock moves on; a launch is stamped, its release made, its wait over.
LEMMA SimlnBeginKeeps ==
  ASSUME SimlnInv,
         Simln!Tick \/ \E l \in Launches : Simln!Stamp(l) \/ Simln!WaitForInit(l)
  PROVE  SimlnInv'
<1> USE DEF SimlnInv
<1>1. CASE Simln!Tick
  BY <1>1, MaxTimeAssumption DEF Simln!Tick, SimlnTypes, Simln!Times, StampsAreSeconds, FilesAreLaunched
<1>2. ASSUME NEW l \in Launches, Simln!Stamp(l) PROVE SimlnInv'
  <2>1. /\ simln_pc[l] = "idle" /\ UNCHANGED <<now, pod, ran>>
        /\ began' \in [Launches -> Nat] /\ stamp' \in [Launches -> Simln!Times]
        /\ simln_pc' = [simln_pc EXCEPT ![l] = "helm"]
        /\ began'[l] = stamp'[l]
        /\ \A k \in Launches \ {l} : began'[k] = began[k] /\ stamp'[k] = stamp[k]
    BY <1>2, MaxTimeAssumption DEF Simln!Stamp, SimlnTypes, Simln!Times
  <2>2. SimlnTypes' /\ StampsAreSeconds'
    BY <2>1 DEF SimlnTypes, StampsAreSeconds
  <2>3. FilesAreLaunched'
    BY <2>1 DEF SimlnTypes, FilesAreLaunched
  <2> QED BY <2>2, <2>3
<1>3. ASSUME NEW l \in Launches, Simln!WaitForInit(l) PROVE SimlnInv'
  BY <1>3 DEF Simln!WaitForInit, SimlnTypes, StampsAreSeconds, FilesAreLaunched
<1> QED BY <1>1, <1>2, <1>3

\* A pod is made only where there is none; its phase does not touch its file.
LEMMA SimlnPodKeeps ==
  ASSUME SimlnInv, (\E l \in Launches : Simln!Helm(l)) \/ (\E t \in Simln!Times : Simln!PodStarts(t))
  PROVE  SimlnInv'
<1> USE DEF SimlnInv
<1>1. ASSUME NEW l \in Launches, Simln!Helm(l) PROVE SimlnInv'
  <2>1. /\ simln_pc[l] = "helm" /\ UNCHANGED <<now, began, stamp, ran>>
        /\ simln_pc' = [simln_pc EXCEPT ![l] = "wait_for_init"]
        /\ pod' \in [Simln!Times -> [phase : {"absent", "pending", "init", "running"},
                                     file : Launches \cup {Simln!None}]]
        /\ \A t \in Simln!Times : pod'[t].file \in {pod[t].file, Simln!None}
    BY <1>1 DEF Simln!Helm, SimlnTypes
  <2>2. SimlnTypes' /\ StampsAreSeconds'
    BY <2>1 DEF SimlnTypes, StampsAreSeconds
  <2>3. FilesAreLaunched'
    BY <2>1 DEF SimlnTypes, FilesAreLaunched
  <2> QED BY <2>2, <2>3
<1>2. ASSUME NEW t \in Simln!Times, Simln!PodStarts(t) PROVE SimlnInv'
  <2>1. /\ UNCHANGED <<now, simln_pc, began, stamp, ran>>
        /\ pod' \in [Simln!Times -> [phase : {"absent", "pending", "init", "running"},
                                     file : Launches \cup {Simln!None}]]
        /\ \A u \in Simln!Times : pod'[u].file = pod[u].file
    BY <1>2 DEF Simln!PodStarts, SimlnTypes
  <2> QED BY <2>1 DEF SimlnTypes, StampsAreSeconds, FilesAreLaunched
<1> QED BY <1>1, <1>2

\* A launch that has written its file has succeeded; one that cannot has not.
LEMMA SimlnWriteKeeps ==
  ASSUME SimlnInv, NEW l \in Launches, Simln!WriteActivity(l)
  PROVE  SimlnInv'
<1> USE DEF SimlnInv
<1>1. simln_pc[l] = "write" /\ UNCHANGED <<now, began, stamp, ran>> /\ stamp[l] \in Simln!Times
  BY DEF Simln!WriteActivity, SimlnTypes
<1>2. CASE /\ pod' = [pod EXCEPT ![stamp[l]].file = l]
           /\ simln_pc' = [simln_pc EXCEPT ![l] = "launched"]
  <2>1. /\ pod' \in [Simln!Times -> [phase : {"absent", "pending", "init", "running"},
                                     file : Launches \cup {Simln!None}]]
        /\ \A t \in Simln!Times : pod'[t].file = IF t = stamp[l] THEN l ELSE pod[t].file
    BY <1>1, <1>2 DEF SimlnTypes
  <2>2. SimlnTypes' /\ StampsAreSeconds'
    BY <1>1, <1>2, <2>1 DEF SimlnTypes, StampsAreSeconds
  <2>3. FilesAreLaunched'
    BY <1>1, <1>2, <2>1 DEF SimlnTypes, FilesAreLaunched
  <2> QED BY <2>2, <2>3
<1>3. CASE simln_pc' = [simln_pc EXCEPT ![l] = "PluginError"] /\ UNCHANGED pod
  BY <1>1, <1>3 DEF SimlnTypes, StampsAreSeconds, FilesAreLaunched
<1> QED BY <1>2, <1>3 DEF Simln!WriteActivity

\* What runs in a pod is the activity that was written into it.
LEMMA SimlnRunKeeps ==
  ASSUME SimlnInv, NEW t \in Simln!Times, Simln!InitEnds(t)
  PROVE  SimlnInv'
<1> USE DEF SimlnInv
<1>1. /\ UNCHANGED <<now, simln_pc, began, stamp>>
      /\ pod' \in [Simln!Times -> [phase : {"absent", "pending", "init", "running"},
                                   file : Launches \cup {Simln!None}]]
      /\ \A u \in Simln!Times : pod'[u].file = pod[u].file
      /\ ran' \in [Simln!Times -> Launches \cup {Simln!None}]
      /\ \A u \in Simln!Times : ran'[u] = IF u = t THEN pod[t].file ELSE ran[u]
  BY DEF Simln!InitEnds, SimlnTypes
<1>2. SimlnTypes' /\ StampsAreSeconds'
  BY <1>1 DEF SimlnTypes, StampsAreSeconds
<1>3. FilesAreLaunched'
  BY <1>1 DEF SimlnTypes, FilesAreLaunched
<1> QED BY <1>2, <1>3

\* Every step of a launch, and of a pod, keeps the invariant.
LEMMA SimlnNext == SimlnInv /\ [Simln!Next]_simlnVars => SimlnInv'
<1> SUFFICES ASSUME SimlnInv, [Simln!Next]_simlnVars PROVE SimlnInv'
  OBVIOUS
<1>1. CASE UNCHANGED simlnVars
  BY <1>1 DEF simlnVars, SimlnInv, SimlnTypes, StampsAreSeconds, FilesAreLaunched
<1> QED BY <1>1, SimlnBeginKeeps, SimlnPodKeeps, SimlnWriteKeeps, SimlnRunKeeps
     DEF Simln!Next, Simln!Launch

-----------------------------------------------------------------------------
(* The miner's coins *)

\* The cardinality MinerFunds means is that of FiniteSets.
LEMMA SameCount == \A S : Funds!Cardinality(S) = Cardinality(S)
BY DEF Funds!Cardinality, Cardinality

\* The values of a function are as finite as its domain.
LEMMA FiniteValues ==
  ASSUME NEW f, f = [x \in DOMAIN f |-> f[x]], IsFiniteSet(DOMAIN f)
  PROVE  IsFiniteSet({f[x] : x \in DOMAIN f})
<1> DEFINE T == {f[x] : x \in DOMAIN f}
<1>1. f \in Surjection(DOMAIN f, T)
  BY DEF Surjection
<1> HIDE DEF T
<1>2. IsFiniteSet(T)
  BY <1>1, FS_Surjection
<1> QED BY <1>2 DEF T

\* A bag of coins: finitely many amounts, and how many coins of each.
IsCoinBag(b) == IsFiniteSet(DOMAIN b) /\ b \in [DOMAIN b -> Nat]

\* A finite bag has finitely many coins.
LEMMA FiniteCoins ==
  ASSUME NEW b, IsCoinBag(b)
  PROVE  IsFiniteSet(Funds!OneByOne(b))
<1> DEFINE of == [a \in DOMAIN b |-> {<<a, "output", k>> : k \in 1 .. b[a]}]
<1>1. IsFiniteSet({of[a] : a \in DOMAIN of})
  <2>1. of = [a \in DOMAIN of |-> of[a]] /\ IsFiniteSet(DOMAIN of)
    BY DEF IsCoinBag
  <2> HIDE DEF of
  <2> QED BY <2>1, FiniteValues
<1>2. ASSUME NEW a \in DOMAIN b PROVE IsFiniteSet(of[a])
  <2> DEFINE f == [k \in 1 .. b[a] |-> <<a, "output", k>>]
  <2>1. b[a] \in Nat
    BY DEF IsCoinBag
  <2>2. IsFiniteSet(DOMAIN f) /\ f = [k \in DOMAIN f |-> f[k]]
    BY <2>1, FS_Interval
  <2>3. of[a] = {f[k] : k \in DOMAIN f}
    OBVIOUS
  <2> HIDE DEF f, of
  <2> QED BY <2>2, <2>3, FiniteValues
<1>3. \A s \in {of[a] : a \in DOMAIN of} : IsFiniteSet(s)
  BY <1>2
<1>4. Funds!OneByOne(b) = UNION {of[a] : a \in DOMAIN of}
  BY DEF Funds!OneByOne, Funds!BagToSet
<1> HIDE DEF of
<1> QED BY <1>1, <1>3, <1>4, FS_UNION

\* The values of a finite function make a bag of coins.
LEMMA BagOfType ==
  ASSUME NEW f, f = [x \in DOMAIN f |-> f[x]], IsFiniteSet(DOMAIN f)
  PROVE  IsCoinBag(Funds!BagOf(f))
<1> DEFINE T == {f[x] : x \in DOMAIN f}
<1>1. IsFiniteSet(T)
  BY FiniteValues
<1>2. \A a \in T : Cardinality({x \in DOMAIN f : f[x] = a}) \in Nat
  BY FS_Subset, FS_CardinalityType
<1> HIDE DEF T
<1>3. Funds!BagOf(f) = [a \in T |-> Cardinality({x \in DOMAIN f : f[x] = a})]
  BY SameCount DEF Funds!BagOf, T
<1> QED BY <1>1, <1>2, <1>3 DEF IsCoinBag

\* A bag to which coins are added keeps those it has.
LEMMA BagGrows ==
  ASSUME NEW b, NEW c, IsCoinBag(b), IsCoinBag(c), NEW sum, sum = Funds!(+)(b, c)
  PROVE  IsCoinBag(sum) /\ Funds!OneByOne(b) \subseteq Funds!OneByOne(sum)
<1>1. sum = [e \in DOMAIN b \cup DOMAIN c |-> (IF e \in DOMAIN b THEN b[e] ELSE 0)
                                               + (IF e \in DOMAIN c THEN c[e] ELSE 0)]
  BY DEF Funds!(+)
<1>2. IsFiniteSet(DOMAIN b \cup DOMAIN c)
  BY FS_Union DEF IsCoinBag
<1>3. /\ DOMAIN sum = DOMAIN b \cup DOMAIN c /\ sum \in [DOMAIN sum -> Nat]
      /\ \A e \in DOMAIN b : b[e] \in Nat /\ sum[e] \in Nat /\ b[e] <= sum[e]
  BY <1>1 DEF IsCoinBag
<1>4. ASSUME NEW e \in DOMAIN b, NEW k \in 1 .. b[e]
      PROVE  <<e, "output", k>> \in Funds!OneByOne(sum)
  <2>1. e \in DOMAIN sum /\ k \in 1 .. sum[e]
    BY <1>3
  <2> QED BY <2>1 DEF Funds!OneByOne, Funds!BagToSet
<1> QED BY <1>2, <1>3, <1>4 DEF IsCoinBag, Funds!OneByOne, Funds!BagToSet

\* A bag from which coins are taken is a bag.
LEMMA BagShrinks ==
  ASSUME NEW b, NEW c, IsCoinBag(b), IsCoinBag(c), NEW rest, rest = Funds!(-)(b, c)
  PROVE  IsCoinBag(rest)
<1> DEFINE left == [e \in DOMAIN b |-> IF e \in DOMAIN c THEN b[e] - c[e] ELSE b[e]]
           D == {d \in DOMAIN b : left[d] > 0}
<1>1. rest = [e \in D |-> left[e]]
  BY DEF Funds!(-)
<1>2. \A e \in D : left[e] \in Nat
  BY DEF IsCoinBag
<1>3. IsFiniteSet(D)
  BY FS_Subset DEF IsCoinBag
<1> HIDE DEF left, D
<1> QED BY <1>1, <1>2, <1>3 DEF IsCoinBag

\* The miner's rewards do: every coinbase that matures is its own and of some value.
RewardsDo == \A h \in 1 .. height - Maturity : h \in own /\ Funds!Reward(h) >= MIN_UTXO_VALUE

FundsTypes ==
  /\ height \in Nat /\ own \subseteq 1 .. height /\ spent \subseteq 1 .. height - Maturity
  /\ IsCoinBag(coins) /\ IsCoinBag(pending)

\* After mine_blocks there are n coins, if the rewards do.
FundsInv ==
  /\ FundsTypes
  /\ funds_pc = "create_txs" /\ RewardsDo => Funds!utxo_count >= N
  /\ funds_pc = "not_enough" => ~RewardsDo

\* A wallet without coins.
LEMMA EmptyIsBag == IsCoinBag(Funds!EmptyBag)
<1>1. DOMAIN Funds!EmptyBag = {} /\ Funds!EmptyBag \in [{} -> Nat]
  BY DEF Funds!EmptyBag, Funds!SetToBag
<1> QED BY <1>1, FS_EmptySet DEF IsCoinBag

LEMMA FundsInit == Funds!Init => FundsInv
<1> SUFFICES ASSUME Funds!Init PROVE FundsInv
  OBVIOUS
<1>1. height \in Nat /\ own \subseteq 1 .. height /\ spent = {}
  BY FundsAssumption DEF Funds!Init
<1> QED BY <1>1, EmptyIsBag DEF Funds!Init, FundsInv, FundsTypes

\* The coins of the wallet are finitely many.
LEMMA FiniteUtxos ==
  ASSUME FundsTypes
  PROVE  IsFiniteSet(Funds!Utxos)
<1> DEFINE H == {x \in own \ spent : x + Maturity <= height}
           f == [h \in H |-> <<Funds!Reward(h), "coinbase", h>>]
<1>1. IsFiniteSet(H)
  <2>1. IsFiniteSet(1 .. height)
    BY FS_Interval DEF FundsTypes
  <2>2. H \in SUBSET (1 .. height)
    BY DEF FundsTypes
  <2> HIDE DEF H
  <2> QED BY <2>1, <2>2, FS_Subset
<1>2. Funds!Coinbases = {f[h] : h \in DOMAIN f}
  BY DEF Funds!Coinbases
<1>3. f = [h \in DOMAIN f |-> f[h]] /\ DOMAIN f = H
  OBVIOUS
<1>4. IsFiniteSet(Funds!Coinbases)
  <2> HIDE DEF f, H
  <2> QED BY <1>1, <1>2, <1>3, FiniteValues
<1>5. IsFiniteSet(Funds!OneByOne(coins))
  BY FiniteCoins DEF FundsTypes
<1>6. IsFiniteSet(Funds!Coinbases \cup Funds!OneByOne(coins))
  BY <1>4, <1>5, FS_Union
<1>7. Funds!Utxos \in SUBSET (Funds!Coinbases \cup Funds!OneByOne(coins))
  BY DEF Funds!Utxos
<1> QED BY <1>6, <1>7, FS_Subset

\* A chain of blocks mined for the miner adds as many coins as it matures
\* coinbases, and takes none away.
LEMMA MineAdds ==
  ASSUME FundsTypes, FundsTypes', RewardsDo', UNCHANGED spent,
         own \subseteq own', height <= height',
         Funds!OneByOne(coins) \subseteq Funds!OneByOne(coins)',
         NEW a \in Nat \ {0}, NEW z \in Nat, z + 1 >= a,
         a + Maturity > height, a <= z => z + Maturity <= height'
  PROVE  Cardinality(Funds!Utxos') >= Cardinality(Funds!Utxos) + (z - a + 1)
<1> DEFINE f == [h \in a .. z |-> <<Funds!Reward(h), "coinbase", h>>]
           New == {<<Funds!Reward(h), "coinbase", h>> : h \in a .. z}
<1>1. Maturity \in Nat /\ height \in Nat /\ height' \in Nat
  BY FundsAssumption DEF FundsTypes
<1>2. ASSUME NEW h \in a .. z
      PROVE  <<Funds!Reward(h), "coinbase", h>> \in Funds!Utxos'
  <2>1. h \in 1 .. height' - Maturity /\ h \notin 1 .. height - Maturity
    <3> DEFINE m == Maturity
               x == height
               y == height'
    <3>1. h \in Nat /\ a <= h /\ h <= z /\ a + m > x /\ z + m <= y /\ a >= 1
      OBVIOUS
    <3>2. m \in Nat /\ x \in Nat /\ y \in Nat
      BY <1>1
    <3> HIDE DEF m, x, y
    <3>3. h \in 1 .. y - m /\ h \notin 1 .. x - m
      BY <3>1, <3>2
    <3> QED BY <3>3 DEF m, x, y
  <2>2. h \in own' /\ Funds!Reward(h) >= MIN_UTXO_VALUE
    BY <2>1 DEF RewardsDo, Funds!Reward
  <2>3. h \notin spent' /\ h + Maturity <= height'
    BY <1>1, <2>1 DEF FundsTypes
  <2>4. <<Funds!Reward(h), "coinbase", h>> \in Funds!Coinbases'
    BY <2>2, <2>3 DEF Funds!Coinbases, Funds!Reward
  <2> QED BY <2>2, <2>4 DEF Funds!Utxos
<1>3. New \subseteq Funds!Utxos'
  BY <1>2
<1>4. Funds!Utxos \subseteq Funds!Utxos'
  <2>1. Funds!Coinbases \subseteq Funds!Coinbases'
    BY <1>1 DEF Funds!Coinbases, FundsTypes, Funds!Reward
  <2> QED BY <2>1 DEF Funds!Utxos
<1>5. New \cap Funds!Utxos = {}
  <2> SUFFICES ASSUME NEW h \in a .. z, <<Funds!Reward(h), "coinbase", h>> \in Funds!Utxos
               PROVE  FALSE
    OBVIOUS
  <2>1. <<Funds!Reward(h), "coinbase", h>> \in Funds!Coinbases
    BY DEF Funds!Utxos, Funds!OneByOne
  <2>2. h + Maturity <= height
    BY <2>1 DEF Funds!Coinbases
  <2> QED BY <1>1, <2>2
<1>6. IsFiniteSet(Funds!Utxos) /\ IsFiniteSet(Funds!Utxos')
  <2>1. IsFiniteSet(Funds!Utxos)'
    BY FiniteUtxos, PTL
  <2> QED BY <2>1, FiniteUtxos
<1>7. IsFiniteSet(New) /\ Cardinality(New) = z - a + 1
  <2>1. IsFiniteSet(a .. z) /\ Cardinality(a .. z) = z - a + 1
    <3>1. a \in Int /\ z \in Int /\ (a > z => z - a + 1 = 0)
      OBVIOUS
    <3> HIDE DEF f, New
    <3> QED BY <3>1, FS_Interval
  <2>2. f \in Bijection(a .. z, New)
    <3>1. f \in [a .. z -> New] /\ \A t \in New : \E h \in a .. z : f[h] = t
      OBVIOUS
    <3>2. \A h, i \in a .. z : f[h] = f[i] => h = i
      OBVIOUS
    <3> HIDE DEF f, New
    <3> QED BY <3>1, <3>2 DEF Bijection, Injection, Surjection, IsInjective
  <2> HIDE DEF f, New
  <2> QED BY <2>1, <2>2, FS_Bijection DEF ExistsBijection
<1>8. Cardinality(Funds!Utxos \cup New) = Cardinality(Funds!Utxos) + (z - a + 1)
  <2> HIDE DEF New
  <2>1. Funds!Utxos \cap New = {}
    BY <1>5
  <2>2. Cardinality(Funds!Utxos) \in Nat
    BY <1>6, FS_CardinalityType
  <2>3. /\ Cardinality(Funds!Utxos \cup New)
             = Cardinality(Funds!Utxos) + Cardinality(New) - Cardinality(Funds!Utxos \cap New)
        /\ Cardinality(Funds!Utxos \cap New) = 0
    BY <1>6, <1>7, <2>1, FS_Union, FS_EmptySet
  <2> QED BY <1>7, <2>2, <2>3
<1>9. Cardinality(Funds!Utxos \cup New) <= Cardinality(Funds!Utxos')
  BY <1>3, <1>4, <1>6, FS_Subset
<1> QED BY <1>8, <1>9, <1>6, FS_CardinalityType

\* mine_blocks mines what is missing: it keeps the coins there are, and the
\* blocks it adds mature a coinbase for each that is missing.
LEMMA MineKeeps == ASSUME FundsInv, Funds!MineBlocks PROVE FundsInv'
<1> DEFINE b == Funds!BlocksToMine
           u == Funds!utxo_count
<1>1. /\ N \in Nat /\ Maturity \in Nat /\ N > 0 /\ height \in Nat
      /\ height' = height + b /\ spent' = spent /\ funds_pc' = "create_txs"
      /\ own' = own \cup (height + 1 .. height + b)
  BY FundsAssumption DEF FundsInv, FundsTypes, Funds!MineBlocks
<1>2. u = Cardinality(Funds!Utxos) /\ u' = Cardinality(Funds!Utxos') /\ u \in Nat
  <2>1. u = Cardinality(Funds!Utxos) /\ u' = Cardinality(Funds!Utxos')
    BY SameCount DEF Funds!utxo_count
  <2> HIDE DEF u
  <2> QED BY <2>1, FiniteUtxos, FS_CardinalityType DEF FundsInv
<1>3. \/ u >= N /\ b = 1
      \/ u < N /\ height > Maturity /\ b = N - u
      \/ u < N /\ height <= Maturity /\ b = Maturity + (N - u)
  <2>1. b = IF u >= N THEN 1 ELSE IF height > Maturity THEN N - u ELSE Maturity + (N - u)
    BY DEF Funds!BlocksToMine
  <2> HIDE DEF b, u
  <2> QED BY <1>1, <1>2, <2>1
<1> HIDE DEF b, u
<1>4. b \in Nat \ {0}
  BY <1>1, <1>2, <1>3
<1>5. /\ IsCoinBag(coins') /\ IsCoinBag(pending')
      /\ Funds!OneByOne(coins) \subseteq Funds!OneByOne(coins')
  BY BagGrows, EmptyIsBag DEF Funds!MineBlocks, FundsInv, FundsTypes
<1>6. FundsTypes'
  <2>1. own' \subseteq 1 .. height'
    BY <1>1, <1>4 DEF FundsInv, FundsTypes
  <2>2. spent' \subseteq 1 .. height' - Maturity
    BY <1>1, <1>4 DEF FundsInv, FundsTypes
  <2> QED BY <1>1, <1>4, <1>5, <2>1, <2>2 DEF FundsTypes
<1>7. ASSUME RewardsDo' PROVE u' >= N
  <2>1. Funds!OneByOne(coins) \subseteq Funds!OneByOne(coins)'
    BY <1>5 DEF Funds!OneByOne, Funds!BagToSet
  <2>2. ASSUME NEW a \in Nat \ {0}, NEW z \in Nat,
               z + 1 >= a, a + Maturity > height, a <= z => z + Maturity <= height'
        PROVE  u' >= u + (z - a + 1)
    BY <1>1, <1>2, <1>4, <1>6, <1>7, <2>1, <2>2, MineAdds DEF FundsInv
  <2>3. u' \in Nat
    <3>1. IsFiniteSet(Funds!Utxos)'
      BY <1>6, FiniteUtxos, PTL
    <3> QED BY <1>2, <3>1, FS_CardinalityType
  <2>4. CASE u >= N
    <3> DEFINE a == IF height > Maturity THEN height - Maturity + 1 ELSE 1
    <3>1. /\ a \in Nat \ {0} /\ a - 1 \in Nat /\ (a - 1) + 1 >= a /\ a + Maturity > height
          /\ ~(a <= a - 1)
      BY <1>1
    <3> HIDE DEF a
    <3>2. u' >= u + ((a - 1) - a + 1)
      BY <2>2, <3>1
    <3> QED BY <1>1, <1>2, <2>3, <2>4, <3>1, <3>2
  <2>5. CASE u < N /\ height > Maturity /\ b = N - u
    <3> DEFINE a == height - Maturity + 1
               z == height - Maturity + b
    <3>1. /\ a \in Nat \ {0} /\ z \in Nat /\ z + 1 >= a /\ a + Maturity > height
          /\ z + Maturity <= height' /\ z - a + 1 = N - u
      BY <1>1, <1>2, <1>4, <2>5
    <3> HIDE DEF a, z
    <3>2. u' >= u + (z - a + 1)
      BY <2>2, <3>1
    <3> QED BY <1>1, <1>2, <2>3, <3>1, <3>2
  <2>6. CASE u < N /\ height <= Maturity /\ b = Maturity + (N - u)
    <3> DEFINE z == height + (N - u)
    <3>1. /\ 1 \in Nat \ {0} /\ z \in Nat /\ z + 1 >= 1 /\ 1 + Maturity > height
          /\ z + Maturity <= height' /\ z - 1 + 1 >= N - u
      BY <1>1, <1>2, <1>4, <2>6
    <3> HIDE DEF z
    <3>2. u' >= u + (z - 1 + 1)
      BY <2>2, <3>1
    <3> QED BY <1>1, <1>2, <2>3, <3>1, <3>2
  <2> QED BY <1>3, <2>4, <2>5, <2>6
<1> QED BY <1>1, <1>2, <1>6, <1>7 DEF FundsInv, u

\* create_txs takes coins out and leaves bags.
LEMMA CreateKeeps == ASSUME FundsInv, Funds!CreateTxs PROVE FundsInv'
<1>1. PICK inputs \in Funds!kSubset(N, Funds!Utxos) :
        /\ pending' = Funds!BagOf([o \in UNION {{u} \X DOMAIN Funds!Outputs(u[1]) : u \in inputs} |->
                                    Funds!Outputs(o[1][1])[o[2]]])
        /\ spent' = spent \cup {u[3] : u \in {i \in inputs : i[2] = "coinbase"}}
        /\ coins' = Funds!(-)(coins, Funds!BagOf([u \in {i \in inputs : i[2] = "output"} |-> u[1]]))
  BY DEF Funds!CreateTxs
<1>2. inputs \subseteq Funds!Utxos /\ IsFiniteSet(inputs)
  <2>1. inputs \in SUBSET Funds!Utxos
    BY DEF Funds!kSubset
  <2> QED BY <2>1, FiniteUtxos, FS_Subset DEF FundsInv
<1>3. IsCoinBag(coins')
  <2> DEFINE f == [u \in {i \in inputs : i[2] = "output"} |-> u[1]]
  <2>1. IsFiniteSet({i \in inputs : i[2] = "output"})
    BY <1>2, FS_Subset
  <2>2. IsFiniteSet(DOMAIN f) /\ f = [u \in DOMAIN f |-> f[u]]
    BY <2>1
  <2>3. coins' = Funds!(-)(coins, Funds!BagOf(f))
    BY <1>1
  <2> HIDE DEF f
  <2>4. IsCoinBag(Funds!BagOf(f)) /\ IsCoinBag(coins)
    BY <2>2, BagOfType DEF FundsInv, FundsTypes
  <2> QED BY <2>3, <2>4, BagShrinks
<1>4. IsCoinBag(pending')
  <2> DEFINE of == [u \in inputs |-> {u} \X DOMAIN Funds!Outputs(u[1])]
             D == UNION {of[u] : u \in DOMAIN of}
             f == [o \in D |-> Funds!Outputs(o[1][1])[o[2]]]
  <2>1. ASSUME NEW u \in inputs PROVE IsFiniteSet({u} \X DOMAIN Funds!Outputs(u[1]))
    <3> DEFINE q == Funds!Quarter(u[1])
               r == q - Fee
               s == <<q, q, q>>
               t == IF q > 2 * Fee THEN <<r>> ELSE <<>>
    <3>1. Funds!Outputs(u[1]) = s \o t
      BY DEF Funds!Outputs
    <3> HIDE DEF q, r
    <3>2. s \in Seq({q, r}) /\ <<r>> \in Seq({q, r}) /\ <<>> \in Seq({q, r})
      OBVIOUS
    <3> HIDE DEF s
    <3>3. t \in Seq({q, r})
      BY <3>2, Zenon
    <3> HIDE DEF t
    <3>4. DOMAIN (s \o t) = 1 .. Len(s \o t) /\ Len(s \o t) \in Nat
      BY <3>2, <3>3, ConcatProperties, LenProperties
    <3>5. IsFiniteSet(DOMAIN Funds!Outputs(u[1]))
      BY <3>1, <3>4, FS_Interval
    <3> QED BY <3>5, FS_Singleton, FS_Product
  <2>2. IsFiniteSet({of[u] : u \in DOMAIN of})
    <3>1. of = [u \in DOMAIN of |-> of[u]] /\ IsFiniteSet(DOMAIN of)
      BY <1>2
    <3> HIDE DEF of
    <3> QED BY <3>1, FiniteValues
  <2>3. \A s \in {of[u] : u \in DOMAIN of} : IsFiniteSet(s)
    BY <2>1
  <2>4. IsFiniteSet(D)
    <3> HIDE DEF of
    <3> QED BY <2>2, <2>3, FS_UNION
  <2>5. D = UNION {{u} \X DOMAIN Funds!Outputs(u[1]) : u \in inputs}
    OBVIOUS
  <2> HIDE DEF D
  <2>6. IsFiniteSet(DOMAIN f) /\ f = [o \in DOMAIN f |-> f[o]]
    BY <2>4
  <2>7. pending' = Funds!BagOf(f)
    BY <1>1, <2>5
  <2> HIDE DEF f
  <2> QED BY <2>6, <2>7, BagOfType
<1>5. spent' \subseteq 1 .. height' - Maturity
  <2> SUFFICES ASSUME NEW u \in inputs, u[2] = "coinbase"
               PROVE  u[3] \in 1 .. height - Maturity
    BY <1>1 DEF FundsInv, FundsTypes, Funds!CreateTxs
  <2>1. u \in Funds!Coinbases
    BY <1>2 DEF Funds!Utxos, Funds!OneByOne
  <2>2. u[3] \in own /\ u[3] + Maturity <= height
    BY <2>1 DEF Funds!Coinbases
  <2> DEFINE h == u[3]
  <2>3. h \in 1 .. height /\ h + Maturity <= height /\ height \in Nat /\ Maturity \in Nat
    BY <2>2, FundsAssumption DEF FundsInv, FundsTypes
  <2> HIDE DEF h
  <2>4. h \in 1 .. height - Maturity
    BY <2>3
  <2> QED BY <2>4 DEF h
<1>6. UNCHANGED <<height, own>> /\ funds_pc' \in {"done", "mine_blocks"}
  BY DEF Funds!CreateTxs
<1> QED BY <1>3, <1>4, <1>5, <1>6 DEF FundsInv, FundsTypes

\* Every step of the miner's coins keeps the invariant.
LEMMA FundsNext == FundsInv /\ [Funds!Next]_fundsVars => FundsInv'
<1> SUFFICES ASSUME FundsInv, [Funds!Next]_fundsVars PROVE FundsInv'
  OBVIOUS
<1>1. CASE UNCHANGED fundsVars
  <2>1. Funds!utxo_count' = Funds!utxo_count /\ RewardsDo' = RewardsDo
    BY <1>1 DEF fundsVars, RewardsDo, Funds!utxo_count, Funds!Utxos, Funds!Coinbases, Funds!OneByOne,
       Funds!BagToSet, Funds!Reward
  <2> QED BY <1>1, <2>1 DEF fundsVars, FundsInv, FundsTypes
<1>2. CASE Funds!NotEnough
  <2>1. RewardsDo' = RewardsDo
    BY <1>2 DEF Funds!NotEnough, RewardsDo, Funds!Reward
  <2>2. ~RewardsDo
    <3>1. N \in Nat /\ Funds!utxo_count \in Nat
      BY FiniteUtxos, FS_CardinalityType, SameCount, FundsAssumption DEF FundsInv, Funds!utxo_count
    <3>2. Funds!utxo_count < N /\ funds_pc = "create_txs"
      BY <1>2 DEF Funds!NotEnough
    <3> QED BY <3>1, <3>2 DEF FundsInv
  <2> QED BY <1>2, <2>1, <2>2 DEF Funds!NotEnough, FundsInv, FundsTypes
<1> QED BY <1>1, <1>2, MineKeeps, CreateKeeps DEF Funds!Next

-----------------------------------------------------------------------------
(* The arms: what a mesh is, pass by pass and attempt by attempt *)

\* A nonempty set of numbers has a least element, the form in which the proofs
\* below use induction.
LEMMA NatMin ==
  ASSUME NEW T \in SUBSET Nat, T # {}
  PROVE  \E x \in T : \A y \in T : x <= y
<1> DEFINE R == OpToRel(<, Nat)
<1>1. IsWellFoundedOn(R, Nat)
  BY NatLessThanWellFounded
<1>2. \E x \in T : \A y \in T : ~ (<<y, x>> \in R)
  <2> HIDE DEF R
  <2> QED BY <1>1, WFMin
<1>3. \A x, y \in Nat : y < x => <<y, x>> \in R
  BY DEF OpToRel
<1>4. PICK x \in T : \A y \in T : ~ (<<y, x>> \in R)
  BY <1>2
<1>5. \A y \in T : x <= y
  <2> TAKE y \in T
  <2>1. x \in Nat /\ y \in Nat
    OBVIOUS
  <2>2. ~(y < x)
    BY <2>1, <1>3, <1>4
  <2> QED BY <2>1, <2>2
<1> QED BY <1>5

\* build_network: the empty mesh of an attempt, and the attempt from a draw on.
NewMesh(pos) == [ok |-> TRUE, pos |-> pos, addnode |-> {}, addconnection |-> {}]
AttemptAt(tape, extras, pos) ==
  FoldLeft(LAMBDA mesh, step : Draw(tape, extras, mesh, step), NewMesh(pos), Passes)

\* What the fold over the passes is as a function of sets of passes.
IterBody(tape, extras, pos, f, n) ==
  [s \in SUBSET (1 .. n) |->
     IF s = {} THEN NewMesh(pos)
     ELSE Draw(tape, extras, f[s \ {Max(s)}], Passes[Max(s)])]

\* An attempt is that function, of all passes.
LEMMA AttemptIter ==
  ASSUME NEW tape, NEW extras, NEW pos
  PROVE  AttemptAt(tape, extras, pos) =
           (CHOOSE f : f = IterBody(tape, extras, pos, f, 2 * Honest))[1 .. 2 * Honest]
<1>1. DOMAIN Passes = 1 .. 2 * Honest
  BY DEF Passes
<1> QED BY <1>1 DEF AttemptAt, FoldLeft, MapThenFoldSet, IterBody

\* The last of a set that holds the pass n + 1 is that pass.
LEMMA TopOfSet ==
  ASSUME NEW n \in Nat, NEW s \in SUBSET (1 .. n + 1), n + 1 \in s
  PROVE  Max(s) = n + 1
<1>1. n + 1 \in s /\ \A y \in s : n + 1 >= y
  OBVIOUS
<1>2. \A x \in s : (\A y \in s : x >= y) => x = n + 1
  OBVIOUS
<1> QED BY <1>1, <1>2, Zenon DEF Max

\* Every nonempty set of passes has a last one.
LEMMA TopExists ==
  ASSUME NEW n \in Nat, NEW s \in SUBSET (1 .. n), s # {}
  PROVE  Max(s) \in s /\ \A y \in s : Max(s) >= y
<1> DEFINE T == {n - x : x \in s}
<1>1. T \in SUBSET Nat /\ T # {}
  <2>1. \A x \in s : n - x \in Nat /\ n - x \in T
    OBVIOUS
  <2>2. PICK x \in s : TRUE
    OBVIOUS
  <2>3. T # {}
    BY <2>1, <2>2
  <2> QED BY <2>1, <2>3
<1>2. PICK m \in T : \A y \in T : m <= y
  BY <1>1, NatMin
<1>3. PICK x \in s : m = n - x
  BY <1>2
<1>4. \A y \in s : n - y \in T /\ y \in Int
  OBVIOUS
<1>5. \A y \in s : x >= y
  <2> TAKE y \in s
  <2>1. m <= n - y
    BY <1>2, <1>4
  <2> HIDE DEF T
  <2> QED BY <2>1, <1>3
<1> QED BY <1>5, Zenon DEF Max

\* The fold is defined: a function over the sets of the first n passes extends
\* to the next pass.
LEMMA IterExtends ==
  ASSUME NEW tape, NEW extras, NEW pos, NEW n \in Nat,
         NEW f, f = IterBody(tape, extras, pos, f, n)
  PROVE  \E g : g = IterBody(tape, extras, pos, g, n + 1)
<1> DEFINE g == [s \in SUBSET (1 .. n + 1) |->
                   IF n + 1 \in s THEN Draw(tape, extras, f[s \ {n + 1}], Passes[n + 1]) ELSE f[s]]
<1>1. ASSUME NEW s \in SUBSET (1 .. n + 1)
      PROVE  g[s] = IF s = {} THEN NewMesh(pos)
                    ELSE Draw(tape, extras, g[s \ {Max(s)}], Passes[Max(s)])
  <2>1. CASE n + 1 \in s
    <3>1. Max(s) = n + 1
      BY <2>1, TopOfSet
    <3>2. n + 1 \notin s \ {n + 1} /\ s \ {n + 1} \in SUBSET (1 .. n + 1)
      OBVIOUS
    <3>3. g[s \ {n + 1}] = f[s \ {n + 1}]
      BY <3>2
    <3> QED BY <2>1, <3>1, <3>3
  <2>2. CASE n + 1 \notin s
    <3>1. s \in SUBSET (1 .. n)
      BY <2>2
    <3>2. g[s] = f[s]
      BY <2>2
    <3>3. f[s] = IF s = {} THEN NewMesh(pos)
                 ELSE Draw(tape, extras, f[s \ {Max(s)}], Passes[Max(s)])
      BY <3>1, Zenon DEF IterBody
    <3>4. s # {} => g[s \ {Max(s)}] = f[s \ {Max(s)}]
      BY <2>2
    <3> QED BY <3>2, <3>3, <3>4
  <2> QED BY <2>1, <2>2
<1>2. g = [s \in SUBSET (1 .. n + 1) |-> g[s]]
  OBVIOUS
<1>3. g = IterBody(tape, extras, pos, g, n + 1)
  <2> HIDE DEF g
  <2> QED BY <1>1, <1>2, Zenon DEF IterBody
<1> QED BY <1>3

\* The fold is defined for all passes.
LEMMA IterExists ==
  ASSUME NEW tape, NEW extras, NEW pos, NEW n \in Nat
  PROVE  \E f : f = IterBody(tape, extras, pos, f, n)
<1> DEFINE T == {i \in Nat : ~ \E f : f = IterBody(tape, extras, pos, f, i)}
<1> SUFFICES ASSUME T # {} PROVE FALSE
  OBVIOUS
<1>1. PICK m \in T : \A i \in T : m <= i
  BY NatMin
<1>2. CASE m = 0
  <2> DEFINE f == [s \in {{}} |-> NewMesh(pos)]
  <2>1. SUBSET (1 .. 0) = {{}}
    OBVIOUS
  <2>2. f = IterBody(tape, extras, pos, f, 0)
    BY <2>1 DEF IterBody
  <2> QED BY <1>1, <1>2, <2>2
<1>3. CASE m # 0
  <2>1. m \in Nat /\ m - 1 \in Nat /\ (m - 1) + 1 = m /\ ~(m <= m - 1)
    BY <1>3
  <2>2. PICK f : f = IterBody(tape, extras, pos, f, m - 1)
    BY <1>1, <2>1
  <2>3. \E g : g = IterBody(tape, extras, pos, g, m)
    BY <2>1, <2>2, IterExtends
  <2> QED BY <1>1, <2>3
<1> QED BY <1>2, <1>3

\* f[k] is the mesh of an attempt after k draws.
FoldOf(tape, extras, pos, f) ==
  /\ f[0] = NewMesh(pos)
  /\ \A k \in 1 .. 2 * Honest : f[k] = Draw(tape, extras, f[k - 1], Passes[k])
  /\ f[2 * Honest] = AttemptAt(tape, extras, pos)

\* An attempt makes one draw after the other.
LEMMA AttemptSteps ==
  ASSUME NEW tape, NEW extras, NEW pos
  PROVE  \E f : FoldOf(tape, extras, pos, f)
<1> DEFINE n == 2 * Honest
           iter == CHOOSE f : f = IterBody(tape, extras, pos, f, n)
           g == [k \in 0 .. n |-> iter[1 .. k]]
<1>1. n \in Nat
  BY CommandLine
<1>2. iter = IterBody(tape, extras, pos, iter, n)
  BY <1>1, IterExists
<1>3. AttemptAt(tape, extras, pos) = iter[1 .. n]
  BY AttemptIter
<1> HIDE DEF iter
<1>4. g[n] = AttemptAt(tape, extras, pos)
  BY <1>1, <1>3
<1>5. \A s \in SUBSET (1 .. n) :
        iter[s] = IF s = {} THEN NewMesh(pos)
                  ELSE Draw(tape, extras, iter[s \ {Max(s)}], Passes[Max(s)])
  <2> HIDE DEF n
  <2> QED BY <1>2, Zenon DEF IterBody
<1>6. g[0] = NewMesh(pos)
  <2>1. 1 .. 0 = {} /\ {} \in SUBSET (1 .. n) /\ 0 \in 0 .. n
    BY <1>1
  <2>2. iter[{}] = NewMesh(pos)
    BY <1>5, <2>1
  <2> QED BY <2>1, <2>2
<1>7. ASSUME NEW k \in 1 .. n PROVE g[k] = Draw(tape, extras, g[k - 1], Passes[k])
  <2> HIDE DEF n
  <2>1. /\ 1 .. k \in SUBSET (1 .. n) /\ 1 .. k # {} /\ k \in 0 .. n /\ k - 1 \in 0 .. n
        /\ k - 1 \in Nat /\ (k - 1) + 1 = k /\ k \in 1 .. k
        /\ (1 .. k) \ {k} = 1 .. k - 1
    BY <1>1
  <2>2. Max(1 .. k) = k
    BY <2>1, TopOfSet
  <2>3. iter[1 .. k] = Draw(tape, extras, iter[1 .. k - 1], Passes[k])
    BY <1>5, <2>1, <2>2
  <2> QED BY <2>1, <2>3
<1> QED BY <1>4, <1>6, <1>7 DEF FoldOf

\* The fields of a mesh.
MeshFields == {"ok", "pos", "addnode", "addconnection"}

\* A manual draw does not look at --extras; one that is not manual leaves the
\* manual edges alone.
LEMMA DrawManual ==
  ASSUME NEW tape, NEW e1, NEW e2, NEW mesh, NEW step, step.manual
  PROVE  Draw(tape, e1, mesh, step) = Draw(tape, e2, mesh, step)
BY DEF Draw

\* Every draw gives a mesh again; only a manual one changes the manual edges.
LEMMA DrawFields ==
  ASSUME NEW tape, NEW e, NEW mesh, NEW step, DOMAIN mesh = MeshFields
  PROVE  /\ DOMAIN Draw(tape, e, mesh, step) = MeshFields
         /\ ~step.manual => Draw(tape, e, mesh, step).addnode = mesh.addnode
<1> DEFINE d == Draw(tape, e, mesh, step)
<1>1. \/ d = [mesh EXCEPT !.ok = FALSE]
      \/ step.manual /\ \E a, p : d = [mesh EXCEPT !.addnode = a, !.pos = p]
      \/ \E a, p : d = [mesh EXCEPT !.addconnection = a, !.pos = p]
  BY DEF Draw
<1> HIDE DEF d
<1>2. ASSUME d = [mesh EXCEPT !.ok = FALSE]
      PROVE  DOMAIN d = MeshFields /\ d.addnode = mesh.addnode
  <2>1. DOMAIN d = DOMAIN mesh
    BY <1>2
  <2>2. "addnode" \in DOMAIN mesh /\ "addnode" # "ok"
    BY DEF MeshFields
  <2>3. d.addnode = mesh.addnode
    BY <1>2, <2>2
  <2> QED BY <2>1, <2>3
<1>3. ASSUME step.manual, NEW a, NEW p, d = [mesh EXCEPT !.addnode = a, !.pos = p]
      PROVE  DOMAIN d = MeshFields
  BY <1>3 DEF MeshFields
<1>4. ASSUME NEW a, NEW p, d = [mesh EXCEPT !.addconnection = a, !.pos = p]
      PROVE  DOMAIN d = MeshFields /\ d.addnode = mesh.addnode
  BY <1>4 DEF MeshFields
<1>5. DOMAIN d = MeshFields /\ (~step.manual => d.addnode = mesh.addnode)
  BY <1>1, <1>2, <1>3, <1>4
<1> QED BY <1>5 DEF d

\* The manual edges of an attempt do not depend on --extras.
LEMMA BaselineIgnoresExtras ==
  ASSUME NEW tape, NEW e1, NEW e2, NEW pos
  PROVE  AttemptAt(tape, e1, pos).addnode = AttemptAt(tape, e2, pos).addnode
<1>1. PICK f : FoldOf(tape, e1, pos, f)
  BY AttemptSteps
<1>2. PICK g : FoldOf(tape, e2, pos, g)
  BY AttemptSteps
<1> DEFINE Same(k) == /\ k <= Honest => f[k] = g[k]
                      /\ DOMAIN f[k] = MeshFields /\ DOMAIN g[k] = MeshFields
                      /\ f[k].addnode = g[k].addnode
           T == {k \in 0 .. 2 * Honest : ~ Same(k)}
<1>3. Honest \in Nat
  BY CommandLine
<1>4. T = {}
  <2> SUFFICES ASSUME T # {} PROVE FALSE
    OBVIOUS
  <2>1. T \in SUBSET Nat
    BY <1>3
  <2>2. PICK k \in T : \A i \in T : k <= i
    BY <2>1, NatMin
  <2>3. Same(0)
    <3>1. f[0] = NewMesh(pos) /\ g[0] = NewMesh(pos)
      BY <1>1, <1>2 DEF FoldOf
    <3>2. DOMAIN NewMesh(pos) = MeshFields
      BY DEF NewMesh, MeshFields
    <3> QED BY <3>1, <3>2
  <2>4. k \in 1 .. 2 * Honest /\ k - 1 \in 0 .. 2 * Honest /\ ~(k <= k - 1) /\ ~Same(k)
    BY <1>3, <2>2, <2>3
  <2>5. Same(k - 1)
    BY <2>2, <2>4
  <2>6. f[k] = Draw(tape, e1, f[k - 1], Passes[k]) /\ g[k] = Draw(tape, e2, g[k - 1], Passes[k])
    BY <1>1, <1>2, <2>4 DEF FoldOf
  <2>7. Passes[k].manual = (k <= Honest)
    BY <2>4 DEF Passes
  <2>8. DOMAIN f[k] = MeshFields /\ DOMAIN g[k] = MeshFields
    BY <2>5, <2>6, DrawFields
  <2>9. CASE k <= Honest
    <3>1. k - 1 <= Honest
      BY <1>3, <2>4, <2>9
    <3>2. f[k - 1] = g[k - 1] /\ Passes[k].manual
      BY <2>5, <2>7, <2>9, <3>1
    <3>3. f[k] = g[k]
      BY <2>6, <3>2, DrawManual
    <3> QED BY <2>4, <2>8, <3>3
  <2>10. CASE ~(k <= Honest)
    <3>1. ~ Passes[k].manual
      BY <2>7, <2>10
    <3>2. f[k].addnode = f[k - 1].addnode
      BY <2>5, <2>6, <3>1, DrawFields
    <3>3. g[k].addnode = g[k - 1].addnode
      BY <2>5, <2>6, <3>1, DrawFields
    <3> QED BY <2>4, <2>5, <2>8, <2>10, <3>2, <3>3
  <2> QED BY <2>9, <2>10
<1>5. Same(2 * Honest)
  BY <1>3, <1>4
<1> QED BY <1>1, <1>2, <1>5 DEF FoldOf

\* build_network keeps a mesh that is complete and in one piece.
GoodMesh(mesh) == mesh.ok /\ Connected(mesh.addnode \cup mesh.addconnection, Honest)

\* The attempts of build_network as a function of their number.
UptoBody(tape, start, extras, f, n) ==
  [i \in 1 .. n |->
     IF i = 1 THEN [mesh |-> AttemptAt(tape, extras, start), attempts |-> 1]
     ELSE IF GoodMesh(f[i - 1].mesh) THEN f[i - 1]
     ELSE [mesh |-> AttemptAt(tape, extras, f[i - 1].mesh.pos), attempts |-> i]]

\* That function is defined.
LEMMA UptoExists ==
  ASSUME NEW tape, NEW start, NEW extras, NEW n \in Nat \ {0}
  PROVE  \E f : f = UptoBody(tape, start, extras, f, n)
<1> DEFINE T == {i \in Nat \ {0} : ~ \E f : f = UptoBody(tape, start, extras, f, i)}
<1> SUFFICES ASSUME T # {} PROVE FALSE
  OBVIOUS
<1>1. PICK m \in T : \A i \in T : m <= i
  BY NatMin
<1>2. CASE m = 1
  <2> DEFINE f == [i \in 1 .. 1 |-> [mesh |-> AttemptAt(tape, extras, start), attempts |-> 1]]
  <2>1. \A i \in 1 .. 1 : i = 1
    OBVIOUS
  <2>2. f = UptoBody(tape, start, extras, f, 1)
    BY <2>1 DEF UptoBody
  <2> QED BY <1>1, <1>2, <2>2
<1>3. CASE m # 1
  <2>1. m \in Nat /\ m - 1 \in Nat \ {0} /\ ~(m <= m - 1)
    BY <1>3
  <2>2. PICK f : f = UptoBody(tape, start, extras, f, m - 1)
    BY <1>1, <2>1
  <2> DEFINE g == [i \in 1 .. m |->
                     IF i < m THEN f[i]
                     ELSE IF GoodMesh(f[m - 1].mesh) THEN f[m - 1]
                     ELSE [mesh |-> AttemptAt(tape, extras, f[m - 1].mesh.pos), attempts |-> m]]
  <2>3. ASSUME NEW i \in 1 .. m
        PROVE  g[i] = IF i = 1 THEN [mesh |-> AttemptAt(tape, extras, start), attempts |-> 1]
                      ELSE IF GoodMesh(g[i - 1].mesh) THEN g[i - 1]
                      ELSE [mesh |-> AttemptAt(tape, extras, g[i - 1].mesh.pos), attempts |-> i]
    <3>1. CASE i = m
      <4>1. g[i - 1] = f[m - 1] /\ i # 1
        BY <1>3, <2>1, <3>1
      <4>2. g[i] = IF GoodMesh(f[m - 1].mesh) THEN f[m - 1]
                   ELSE [mesh |-> AttemptAt(tape, extras, f[m - 1].mesh.pos), attempts |-> m]
        BY <2>1, <3>1
      <4> HIDE DEF g
      <4> QED BY <3>1, <4>1, <4>2
    <3>2. CASE i # m
      <4>1. i \in 1 .. m - 1 /\ g[i] = f[i]
        BY <2>1, <3>2
      <4>2. f[i] = IF i = 1 THEN [mesh |-> AttemptAt(tape, extras, start), attempts |-> 1]
                   ELSE IF GoodMesh(f[i - 1].mesh) THEN f[i - 1]
                   ELSE [mesh |-> AttemptAt(tape, extras, f[i - 1].mesh.pos), attempts |-> i]
        BY <2>2, <4>1, Zenon DEF UptoBody
      <4>3. i # 1 => g[i - 1] = f[i - 1]
        BY <2>1, <4>1
      <4> HIDE DEF g
      <4> QED BY <4>1, <4>2, <4>3
    <3> QED BY <3>1, <3>2
  <2>4. g = [i \in 1 .. m |-> g[i]]
    OBVIOUS
  <2>5. g = UptoBody(tape, start, extras, g, m)
    <3> HIDE DEF g
    <3> QED BY <2>3, <2>4, Zenon DEF UptoBody
  <2> QED BY <1>1, <2>5
<1> QED BY <1>2, <1>3

\* A mesh that took one attempt is what the generator gives from its start.
LEMMA FirstAttempt ==
  ASSUME NEW tape, NEW start, NEW extras, BuildNetwork(tape, start, extras).attempts = 1
  PROVE  BuildNetwork(tape, start, extras).mesh = AttemptAt(tape, extras, start)
<1> DEFINE M == MaxAttempts
           upto == CHOOSE f : f = UptoBody(tape, start, extras, f, M)
<1>1. M \in Nat \ {0}
  BY CommandLine
<1>2. upto = UptoBody(tape, start, extras, upto, M)
  BY <1>1, UptoExists
<1>3. BuildNetwork(tape, start, extras) =
        [mesh |-> upto[M].mesh, attempts |-> upto[M].attempts, found |-> GoodMesh(upto[M].mesh)]
  BY DEF BuildNetwork, UptoBody, AttemptAt, NewMesh, GoodMesh
<1> HIDE DEF upto, M
<1>4. \A i \in 1 .. M :
        upto[i] = IF i = 1 THEN [mesh |-> AttemptAt(tape, extras, start), attempts |-> 1]
                  ELSE IF GoodMesh(upto[i - 1].mesh) THEN upto[i - 1]
                  ELSE [mesh |-> AttemptAt(tape, extras, upto[i - 1].mesh.pos), attempts |-> i]
  BY <1>2, Zenon DEF UptoBody
<1> DEFINE T == {i \in 1 .. M : /\ upto[i].attempts = 1
                               /\ upto[i].mesh # AttemptAt(tape, extras, start)}
<1>5. T = {}
  <2> SUFFICES ASSUME T # {} PROVE FALSE
    OBVIOUS
  <2>1. T \in SUBSET Nat
    BY <1>1
  <2>2. PICK i \in T : \A j \in T : i <= j
    BY <2>1, NatMin
  <2>3. i \in 1 .. M /\ upto[i].attempts = 1 /\ upto[i].mesh # AttemptAt(tape, extras, start)
    BY <2>2
  <2>4. i # 1
    <3>1. 1 \in 1 .. M
      BY <1>1
    <3>2. upto[1] = [mesh |-> AttemptAt(tape, extras, start), attempts |-> 1]
      BY <1>4, <3>1
    <3> QED BY <2>3, <3>2
  <2>5. i - 1 \in 1 .. M /\ ~(i <= i - 1)
    BY <1>1, <2>3, <2>4
  <2>6. CASE GoodMesh(upto[i - 1].mesh)
    <3>1. upto[i] = upto[i - 1]
      BY <1>4, <2>3, <2>4, <2>6
    <3> QED BY <2>2, <2>3, <2>5, <3>1
  <2>7. CASE ~GoodMesh(upto[i - 1].mesh)
    <3>1. upto[i] = [mesh |-> AttemptAt(tape, extras, upto[i - 1].mesh.pos), attempts |-> i]
      BY <1>4, <2>3, <2>4, <2>7
    <3> QED BY <2>3, <2>4, <3>1
  <2> QED BY <2>6, <2>7
<1>6. M \in 1 .. M
  BY <1>1
<1> QED BY <1>3, <1>5, <1>6

-----------------------------------------------------------------------------
(* The arms: the invariant *)

ArmNames == {"control", "relay", "recon"}

\* Every arm that is built is what build_network gives for the seed, from the
\* first draw of a generator of its own, and every file is of such an arm.
ArmsInv ==
  /\ pc \in ArmNames \cup {"done", "error"}
  /\ DOMAIN arms \subseteq ArmNames
  /\ \A arm \in DOMAIN arms : arms[arm] = BuildNetwork(seed.mesh, 0, ExtrasOf(arm))
  /\ \A arm \in DOMAIN files : arm \in DOMAIN arms /\ files[arm] = FileOf(arm)

\* The names of the arms, as a set.
LEMMA ArmsAreNames == ToSet(Arms) = ArmNames
<1>1. Arms = <<"control", "relay", "recon">> /\ DOMAIN Arms = 1 .. 3
  BY DEF Arms
<1>2. Arms[1] = "control" /\ Arms[2] = "relay" /\ Arms[3] = "recon"
  BY DEF Arms
<1>3. ToSet(Arms) = {Arms[1], Arms[2], Arms[3]}
  BY <1>1 DEF ToSet
<1> QED BY <1>2, <1>3 DEF ArmNames

\* No arm is built at first.
LEMMA ArmsInit == Init => ArmsInv
<1>1. DOMAIN <<>> = {}
  OBVIOUS
<1> QED BY <1>1 DEF Init, ArmsInv, ArmNames

\* An arm that is built is added to the arms; no file changes.
LEMMA BuildArmKeeps == ASSUME ArmsInv, BuildArm PROVE ArmsInv'
<1> DEFINE built == BuildNetwork(seed.mesh, 0, ExtrasOf(pc))
<1>1. /\ pc \in ArmNames /\ pc \notin DOMAIN arms
      /\ arms' = [arm \in DOMAIN arms \cup {pc} |-> IF arm = pc THEN built ELSE arms[arm]]
      /\ pc' \in ArmNames \cup {"error"}
      /\ UNCHANGED <<seed, files>>
  BY ArmsAreNames DEF BuildArm, Following, ArmNames
<1> HIDE DEF built
<1>2. /\ DOMAIN arms' = DOMAIN arms \cup {pc}
      /\ \A arm \in DOMAIN arms : arms'[arm] = arms[arm]
      /\ arms'[pc] = built
  BY <1>1
<1>3. \A arm \in DOMAIN arms' : arms'[arm] = BuildNetwork(seed'.mesh, 0, ExtrasOf(arm))
  BY <1>1, <1>2 DEF ArmsInv, built
<1>4. \A arm : OverlayEdges(arm)' = OverlayEdges(arm)
  BY <1>1 DEF OverlayEdges, Overlay
<1>5. \A arm \in DOMAIN arms : FileOf(arm)' = FileOf(arm)
  BY <1>2, <1>4 DEF FileOf
<1> QED BY <1>1, <1>2, <1>3, <1>5 DEF ArmsInv

\* A file that is written is of an arm that is built.
LEMMA WriteArmKeeps == ASSUME ArmsInv, WriteArm PROVE ArmsInv'
<1>1. /\ pc \in ArmNames /\ DOMAIN arms = ArmNames
      /\ files' = [arm \in DOMAIN files \cup {pc} |-> IF arm = pc THEN FileOf(pc) ELSE files[arm]]
      /\ pc' \in ArmNames \cup {"done"}
      /\ UNCHANGED <<seed, arms>>
  BY ArmsAreNames DEF WriteArm, Following, ArmNames, FileOf
<1>2. /\ DOMAIN files' = DOMAIN files \cup {pc}
      /\ \A arm \in DOMAIN files \ {pc} : files'[arm] = files[arm]
      /\ files'[pc] = FileOf(pc)
  BY <1>1
<1>3. \A arm : FileOf(arm)' = FileOf(arm)
  BY <1>1 DEF FileOf, OverlayEdges, Overlay
<1> QED BY <1>1, <1>2, <1>3 DEF ArmsInv

\* Every step of the script keeps the invariant.
LEMMA ArmsNext == ArmsInv /\ [Next]_vars => ArmsInv'
<1> SUFFICES ASSUME ArmsInv, [Next]_vars PROVE ArmsInv'
  OBVIOUS
<1>1. CASE UNCHANGED vars
  BY <1>1 DEF vars, ArmsInv, FileOf, OverlayEdges, Overlay
<1> QED BY <1>1, BuildArmKeeps, WriteArmKeeps DEF Next

\* The overlay has the same baseline in every arm, and relay and recon have the
\* same overlay.
LEMMA OverlaysAgree ==
  /\ \A arm1, arm2 : OverlayEdges(arm1).addnode = OverlayEdges(arm2).addnode
  /\ OverlayEdges("relay").addconnection = OverlayEdges("recon").addconnection
BY DEF OverlayEdges, Overlay

\* Arms that are built that way are twins.
LEMMA TwinsFollow == ArmsInv => ArmsAreTwins
<1> SUFFICES ASSUME ArmsInv PROVE ArmsAreTwins
  OBVIOUS
<1>1. ASSUME {"relay", "recon"} \subseteq DOMAIN files
      PROVE  /\ files["relay"].addnode = files["recon"].addnode
             /\ files["relay"].addconnection = files["recon"].addconnection
             /\ files["relay"].type # files["recon"].type
  <2>1. arms["relay"] = arms["recon"]
    BY <1>1 DEF ArmsInv, ExtrasOf
  <2>2. files["relay"] = FileOf("relay") /\ files["recon"] = FileOf("recon")
    BY <1>1 DEF ArmsInv
  <2>3. arm_type["relay"] # arm_type["recon"]
    BY DEF arm_type
  <2> QED BY <2>1, <2>2, <2>3, OverlaysAgree DEF FileOf
<1>2. ASSUME \A arm \in DOMAIN files : arms[arm].attempts = 1,
             NEW arm1 \in DOMAIN files, NEW arm2 \in DOMAIN files
      PROVE  files[arm1].addnode = files[arm2].addnode
  <2>1. /\ arms[arm1] = BuildNetwork(seed.mesh, 0, ExtrasOf(arm1))
        /\ arms[arm2] = BuildNetwork(seed.mesh, 0, ExtrasOf(arm2))
    BY DEF ArmsInv
  <2>2. /\ arms[arm1].mesh = AttemptAt(seed.mesh, ExtrasOf(arm1), 0)
        /\ arms[arm2].mesh = AttemptAt(seed.mesh, ExtrasOf(arm2), 0)
    BY <1>2, <2>1, FirstAttempt
  <2>3. arms[arm1].mesh.addnode = arms[arm2].mesh.addnode
    BY <2>2, BaselineIgnoresExtras
  <2>4. files[arm1] = FileOf(arm1) /\ files[arm2] = FileOf(arm2)
    BY DEF ArmsInv
  <2> QED BY <2>3, <2>4, OverlaysAgree DEF FileOf
<1> QED BY <1>1, <1>2 DEF ArmsAreTwins

-----------------------------------------------------------------------------
(* The deployment: one of the parts runs, the others stay as they begin. *)

\* The inductive invariant of the deployment.
IInv == LndInv /\ SimlnInv /\ FundsInv /\ ArmsInv

\* Every step keeps it.
LEMMA NextKeeps == IInv /\ [AnyNext]_allVars => IInv'
<1> SUFFICES ASSUME IInv, [AnyNext]_allVars PROVE IInv'
  OBVIOUS
<1>1. [Next]_vars /\ [Funds!Next]_fundsVars /\ [Simln!Next]_simlnVars /\ [Lnd!Next]_lndVars
  BY DEF AnyNext, allVars
<1> QED BY <1>1, ArmsNext, FundsNext, SimlnNext, LndNext DEF IInv

\* The invariant of the arms, the coins, the launches and the client holds throughout.
THEOREM InductiveInvariant == AnySpec => []IInv
<1>1. AnyInit => IInv
  BY ArmsInit, FundsInit, SimlnInit, LndInit DEF AnyInit, IInv
<1> QED BY <1>1, NextKeeps, PTL DEF AnySpec

\* LND: a call is carried out again only after the client saw its connection or
\* its answer break, however many connects are refused and answers are late.
THEOREM NoBlindRepeat == AnySpec => []RepeatedOnlyAfterLoss
<1>1. IInv => RepeatedOnlyAfterLoss
  BY DEF IInv, LndInv, DoneAfterLosses, RepeatedOnlyAfterLoss, Lnd!RepeatedOnlyAfterLoss
<1> QED BY <1>1, InductiveInvariant, PTL

\* LND.get: a call that only asks never returns a part of an answer.
THEOREM NoPartOfAnAnswer == AnySpec => []GetsWhole
<1>1. IInv => GetsWhole
  BY DEF IInv, LndInv
<1> QED BY <1>1, InductiveInvariant, PTL

\* The safety half of LaunchesAreSeparate: what runs under the name of a launch
\* that had its second to itself is its own activity, and an activity that runs
\* is one whose launcher was told so.
OwnActivityRuns ==
  /\ \A l \in Launches :
       (simln_pc[l] # "idle" /\ \A k \in Launches \ {l} : began[k] # began[l]) =>
         ran[stamp[l]] \in {l, Simln!None}
  /\ \A t \in Simln!Times : ran[t] # Simln!None => simln_pc[ran[t]] = "launched"

\* _launch_activity: launches in different seconds do not disturb each other,
\* and none runs after its launcher has raised PluginError.
THEOREM LaunchesDoNotMix == AnySpec => []OwnActivityRuns
<1>1. IInv => OwnActivityRuns
  <2> SUFFICES ASSUME IInv PROVE OwnActivityRuns
    OBVIOUS
  <2> USE DEF IInv, SimlnInv
  <2>1. \A t \in Simln!Times : ran[t] # Simln!None => simln_pc[ran[t]] = "launched"
    BY DEF FilesAreLaunched
  <2>2. ASSUME NEW l \in Launches, simln_pc[l] # "idle",
               \A k \in Launches \ {l} : began[k] # began[l]
        PROVE  ran[stamp[l]] \in {l, Simln!None}
    <3>1. stamp[l] \in Simln!Times /\ ran[stamp[l]] \in Launches \cup {Simln!None}
      BY DEF SimlnTypes
    <3>2. CASE ran[stamp[l]] # Simln!None
      <4> DEFINE k == ran[stamp[l]]
      <4>1. k \in Launches /\ simln_pc[k] = "launched" /\ stamp[k] = stamp[l]
        BY <3>1, <3>2 DEF FilesAreLaunched
      <4>2. began[k] = began[l]
        BY <2>2, <4>1 DEF StampsAreSeconds
      <4> QED BY <2>2, <4>1, <4>2
    <3> QED BY <3>2
  <2> QED BY <2>1, <2>2 DEF OwnActivityRuns
<1> QED BY <1>1, InductiveInvariant, PTL

\* create_eclipse_network.py: relay and recon have the same links, and differ in
\* the type of the added ones; all arms that took one attempt have the same
\* manual links, whatever the tapes, the sizes and --extras are.
THEOREM Twins == AnySpec => []ArmsAreTwins
<1>1. IInv => ArmsAreTwins
  BY TwinsFollow DEF IInv
<1> QED BY <1>1, InductiveInvariant, PTL

\* mine_blocks and create_txs: create_txs only raises "Not enough UTXOs" when a
\* coinbase that has matured is not the miner's, or is worth too little, however
\* many transactions, iterations and halvings there are.
THEOREM FundsSuffice == AnySpec => []FundsSufficeWhileRewardsDo
<1>1. IInv => FundsSufficeWhileRewardsDo
  BY DEF IInv, FundsInv, RewardsDo, FundsSufficeWhileRewardsDo, Funds!FundsSufficeWhileRewardsDo
<1> QED BY <1>1, InductiveInvariant, PTL
=============================================================================
