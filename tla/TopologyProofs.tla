--------------------------- MODULE TopologyProofs ---------------------------
(***************************************************************************)
(* Safety of the network generator for every command line.  The inductive  *)
(* invariant IInv says what each pass has drawn so far; that validate_graph *)
(* cannot fail follows from it.  A second part proves that validate_args    *)
(* lets through exactly the requests that some network answers.            *)
(***************************************************************************)
EXTENDS Topology, FiniteSetTheorems, WellFoundedInduction, TLAPS

-----------------------------------------------------------------------------
(* What adding the sampled edges of one node does to the graph queries of  *)
(* PeerGraph: node n draws the set T of targets.                            *)

\* There are size nodes: any set of nodes is finite.
LEMMA NodeSetsAreFinite ==
  ASSUME NEW size \in Int, NEW S \in SUBSET NodeIds(size)
  PROVE  IsFiniteSet(S) /\ Cardinality(S) \in Nat
<1>1. IsFiniteSet(NodeIds(size))
  BY FS_Interval DEF NodeIds
<1>2. IsFiniteSet(S)
  BY <1>1, FS_Subset
<1>3. QED
  BY <1>2, FS_CardinalityType

\* DiGraph.add_edge for each target takes at most one slot of a target and none of the others.
LEMMA InDegreeAfterDraw ==
  ASSUME NEW size \in Int, NEW g, NEW n \in NodeIds(size),
         NEW T \in SUBSET NodeIds(size), NEW r \in NodeIds(size)
  PROVE  /\ InDegree(g, size, r) \in Nat
         /\ InDegree(g \cup ({n} \X T), size, r) \in Nat
         /\ InDegree(g \cup ({n} \X T), size, r) <=
              IF r \in T THEN InDegree(g, size, r) + 1 ELSE InDegree(g, size, r)
<1> DEFINE P == Predecessors(g, size, r)
<1>1. P \in SUBSET NodeIds(size) /\ P \cup {n} \in SUBSET NodeIds(size)
  BY DEF Predecessors
<1>2. IsFiniteSet(P) /\ Cardinality(P) \in Nat /\ Cardinality(P \cup {n}) \in Nat
  BY <1>1, NodeSetsAreFinite
<1>3. Cardinality(P \cup {n}) <= Cardinality(P) + 1
  <2> HIDE DEF P
  <2>1. Cardinality(P \cup {n}) = IF n \in P THEN Cardinality(P) ELSE Cardinality(P) + 1
    BY <1>2, FS_AddElement
  <2>2. QED
    BY <1>2, <2>1
<1>4. Predecessors(g \cup ({n} \X T), size, r) = IF r \in T THEN P \cup {n} ELSE P
  <2>1. \A m : <<m, r>> \in {n} \X T <=> m = n /\ r \in T
    OBVIOUS
  <2>2. QED
    BY <2>1 DEF Predecessors
<1>5. QED
  BY <1>2, <1>3, <1>4 DEF InDegree

\* A node that had no edge gets exactly the sampled ones.
LEMMA OutDegreeAfterDraw ==
  ASSUME NEW size \in Int, NEW g, NEW n \in NodeIds(size),
         NEW T \in SUBSET NodeIds(size), NEW m \in NodeIds(size),
         Cardinality(Successors(g, size, n)) = 0
  PROVE  Cardinality(Successors(g \cup ({n} \X T), size, m)) =
           IF m = n THEN Cardinality(T) ELSE Cardinality(Successors(g, size, m))
<1>1. IsFiniteSet(Successors(g, size, n))
  BY NodeSetsAreFinite DEF Successors
<1>2. Successors(g, size, n) = {}
  BY <1>1, FS_EmptySet
<1>3. \A r : <<m, r>> \in {n} \X T <=> m = n /\ r \in T
  OBVIOUS
<1>4. CASE m = n
  <2>1. Successors(g \cup ({n} \X T), size, m) = T
    BY <1>2, <1>3, <1>4 DEF Successors
  <2>2. QED
    BY <1>4, <2>1
<1>5. CASE m # n
  <2>1. Successors(g \cup ({n} \X T), size, m) = Successors(g, size, m)
    BY <1>3, <1>5 DEF Successors
  <2>2. QED
    BY <1>5, <2>1
<1>6. QED
  BY <1>4, <1>5

\* Two disjoint sets of edges: the degrees add up.
LEMMA DegreesAddUp ==
  ASSUME NEW size \in Int, NEW g, NEW h, g \cap h = {}, NEW n \in NodeIds(size)
  PROVE  Cardinality(Successors(g \cup h, size, n)) =
           Cardinality(Successors(g, size, n)) + Cardinality(Successors(h, size, n))
<1> DEFINE S == Successors(g, size, n)
           U == Successors(h, size, n)
<1>1. IsFiniteSet(S) /\ IsFiniteSet(U) /\ Cardinality(S) \in Nat /\ Cardinality(U) \in Nat
  BY NodeSetsAreFinite DEF Successors
<1>2. S \cap U = {} /\ Successors(g \cup h, size, n) = S \cup U
  BY DEF Successors
<1>3. Cardinality(S \cup U) = Cardinality(S) + Cardinality(U) - Cardinality({})
  BY <1>1, <1>2, FS_Union
<1>4. Cardinality(S \cup U) = Cardinality(S) + Cardinality(U)
  <2> HIDE DEF S, U
  <2>1. QED
    BY <1>1, <1>3, FS_EmptySet
<1>5. QED
  BY <1>2, <1>4, Zenon

\* The empty graph has no edge to count.
LEMMA EmptyGraph ==
  ASSUME NEW size \in Int, NEW n \in NodeIds(size)
  PROVE  /\ Successors({}, size, n) = {}
         /\ Cardinality(Successors({}, size, n)) = 0
         /\ InDegree({}, size, n) = 0
<1>1. Successors({}, size, n) = {} /\ Predecessors({}, size, n) = {}
  BY DEF Successors, Predecessors
<1>2. QED
  BY <1>1, FS_EmptySet DEF InDegree

\* Drawing towards candidates keeps the graph simple.
LEMMA DrawKeepsPeeringSimple ==
  ASSUME NEW size \in Int, NEW reachable \in Int, NEW g, NEW n \in NodeIds(size),
         NEW T \in SUBSET NodeIds(size),
         SimplePeering(g, size, reachable),
         \A r \in T : r # n /\ r < reachable /\ <<n, r>> \notin g /\ <<r, n>> \notin g
  PROVE  SimplePeering(g \cup ({n} \X T), size, reachable)
<1> DEFINE h == g \cup ({n} \X T)
<1>1. \A m, r : <<m, r>> \in h <=> <<m, r>> \in g \/ (m = n /\ r \in T)
  OBVIOUS
<1> HIDE DEF h
<1>2. SUFFICES ASSUME NEW m \in NodeIds(size), NEW r \in NodeIds(size), <<m, r>> \in h
               PROVE  r # m /\ r < reachable /\ <<r, m>> \notin h
  BY <1>2 DEF SimplePeering, Successors, h
<1>3. CASE <<m, r>> \in g
  BY <1>1, <1>3 DEF SimplePeering, Successors
<1>4. CASE m = n /\ r \in T
  BY <1>1, <1>4
<1>5. QED
  BY <1>1, <1>2, <1>3, <1>4

-----------------------------------------------------------------------------
(* The generator *)

\* The types of the arguments, and that a checked request leaves some slot.
LEMMA ArgsAreIntegers ==
  ASSUME NEW a \in ArgSpace
  PROVE  /\ a.size \in Int /\ a.reachable \in Int /\ a.outbound \in Int
         /\ a.recon \in Int /\ a.maxInbound \in Int /\ a.maxAttempts \in Int
         /\ ArgsAccepted(a) => a.maxInbound > 0
<1>1. a \in ArgType
  BY ArgSpaceAssumption
<1>2. ASSUME ArgsAccepted(a) PROVE a.maxInbound > 0
  <2>1. \A r, m \in Int : r > 0 /\ r * m > 0 => m > 0
    OBVIOUS
  <2>2. \A s, t \in Int : s > 0 /\ t > 0 => s * t > 0
    OBVIOUS
  <2>3. a.size * (a.outbound + a.recon) > 0
    BY <1>1, <1>2, <2>2 DEF ArgType, ArgsAccepted
  <2>4. a.reachable * a.maxInbound > 0
    <3>1. a.size * (a.outbound + a.recon) \in Int /\ a.reachable * a.maxInbound \in Int
      BY <1>1 DEF ArgType
    <3>2. QED
      BY <1>2, <2>3, <3>1 DEF ArgsAccepted
  <2>5. QED
    BY <1>1, <1>2, <2>1, <2>4 DEF ArgType, ArgsAccepted
<1>3. QED
  BY <1>1, <1>2 DEF ArgType

\* A state with no edge drawn, before the first attempt, between two attempts
\* or after the last one.
Undrawn ==
  /\ TypeOK
  /\ Checked
  /\ addnode = {} /\ addconnection = {} /\ manual /\ node = 0
  /\ pc \in {"validate_args", "rejected", "build", "gave_up"}

\* Such a state satisfies the invariant.
LEMMA UndrawnInv == Undrawn => IInv
<1> SUFFICES ASSUME Undrawn PROVE IInv
  OBVIOUS
<1> USE DEF Undrawn
<1>1. args \in ArgSpace /\ graph = {}
  BY DEF TypeOK, graph
<1>2. args.size \in Int /\ args.maxInbound \in Int /\ (ArgsAccepted(args) => args.maxInbound > 0)
  BY <1>1, ArgsAreIntegers
<1>3. \A n \in NodeIds(args.size) :
        /\ Successors({}, args.size, n) = {}
        /\ Cardinality(Successors({}, args.size, n)) = 0
        /\ InDegree({}, args.size, n) = 0
  BY <1>2, EmptyGraph
<1>4. PartialGraphIsSound
  BY <1>1, <1>2, <1>3 DEF PartialGraphIsSound, SimplePeering
<1>5. PassesAreExact
  <2>1. pc = "build" => 0 \in NodeIds(args.size)
    BY <1>2 DEF Checked, ArgsAccepted, NodeIds
  <2>2. \A n \in NodeIds(args.size) : n >= node
    BY <1>2 DEF NodeIds
  <2>3. QED
    BY <1>1, <1>3, <2>1, <2>2 DEF PassesAreExact
<1>6. QED
  BY <1>1, <1>4, <1>5 DEF IInv, ValidationNeverFails

\* The generator starts there ...
LEMMA InitInv == Init => IInv
<1> SUFFICES ASSUME Init PROVE IInv
  OBVIOUS
<1>1. TypeOK /\ Checked
  BY DEF Init, TypeOK, Checked, Running
<1>2. QED
  BY <1>1, UndrawnInv DEF Init, Undrawn

\* ... and every attempt starts or gives up there.
LEMMA NextAttemptInv ==
  ASSUME TypeOK, NextAttempt, UNCHANGED args, ArgsAccepted(args)
  PROVE  IInv'
<1>1. args.maxAttempts \in Int
  BY ArgsAreIntegers DEF TypeOK
<1>2. TypeOK' /\ Checked'
  BY <1>1 DEF TypeOK, NextAttempt, Checked, Running, Ended
<1>3. Undrawn'
  BY <1>2 DEF NextAttempt, Undrawn
<1>4. (Undrawn => IInv)'
  BY UndrawnInv, PTL
<1>5. QED
  BY <1>3, <1>4

\* The step that matters: a node samples its targets.
LEMMA ConnectNodeInv ==
  ASSUME IInv, ConnectNode
  PROVE  IInv'
<1>1. PICK T \in SUBSET Candidates(node) :
        /\ Cardinality(T) = degree
        /\ IF manual
             THEN addnode' = addnode \cup ({node} \X T) /\ UNCHANGED addconnection
             ELSE addconnection' = addconnection \cup ({node} \X T) /\ UNCHANGED addnode
  BY DEF ConnectNode
<1>2. /\ args' = args /\ attempt' = attempt /\ pc = "build" /\ Advance
      /\ TypeOK /\ PassesAreExact /\ PartialGraphIsSound /\ ArgsAccepted(args)
      /\ args.size \in Int /\ args.reachable \in Int /\ args.outbound \in Int
      /\ args.recon \in Int /\ args.maxInbound \in Int
      /\ node \in NodeIds(args.size)
  BY ArgsAreIntegers DEF ConnectNode, IInv, TypeOK, Checked, PassesAreExact
<1>20. \/ /\ node < args.size - 1 /\ node' = node + 1
         /\ pc' = "build" /\ manual' = manual
      \/ /\ node = args.size - 1 /\ node' = 0
         /\ pc' = (IF manual THEN "build" ELSE "check") /\ manual' = FALSE
  BY <1>2 DEF Advance
<1>3. T \in SUBSET NodeIds(args.size)
  <2>1. \A r \in T : r \in 0 .. args.reachable - 1
    BY DEF Candidates
  <2>2. args.reachable <= args.size
    BY <1>2 DEF ArgsAccepted
  <2>3. QED
    BY <1>2, <2>1, <2>2 DEF NodeIds
<1>4. graph' = graph \cup ({node} \X T)
  BY <1>1 DEF graph
<1>5. TypeOK'
  <2>1. {node} \X T \subseteq NodeIds(args.size) \X NodeIds(args.size)
    BY <1>2, <1>3
  <2>2. node' \in Nat /\ manual' \in BOOLEAN /\ pc' \in {"build", "check"}
    <3>1. node \in Nat /\ manual \in BOOLEAN
      BY <1>2 DEF TypeOK
    <3>2. pc' \in {"build", "check"}
      BY <1>20
    <3>3. node' \in Nat
      BY <1>20, <3>1
    <3>4. manual' \in BOOLEAN
      BY <1>20, <3>1, Zenon
    <3>5. QED
      BY <3>2, <3>3, <3>4
  <2>3. QED
    BY <1>1, <1>2, <2>1, <2>2 DEF TypeOK, Running
<1>6. PartialGraphIsSound'
  <2>1. SimplePeering(graph', args.size, args.reachable)
    <3>1. \A r \in T : r # node /\ r < args.reachable /\ <<node, r>> \notin graph /\ <<r, node>> \notin graph
      BY <1>2 DEF Candidates
    <3>2. SimplePeering(graph, args.size, args.reachable)
      BY <1>2 DEF PartialGraphIsSound
    <3>3. SimplePeering(graph \cup ({node} \X T), args.size, args.reachable)
      BY <1>2, <1>3, <3>1, <3>2, DrawKeepsPeeringSimple
    <3>4. QED
      BY <1>4, <3>3
  <2>2. ASSUME NEW r \in NodeIds(args.size)
        PROVE  InDegree(graph', args.size, r) <= args.maxInbound
    <3>1. /\ InDegree(graph, args.size, r) \in Nat
          /\ InDegree(graph', args.size, r) \in Nat
          /\ InDegree(graph', args.size, r) <=
               IF r \in T THEN InDegree(graph, args.size, r) + 1 ELSE InDegree(graph, args.size, r)
      BY <1>2, <1>3, <1>4, InDegreeAfterDraw
    <3>2. r \in T => InDegree(graph, args.size, r) < args.maxInbound
      BY DEF Candidates
    <3>3. InDegree(graph, args.size, r) <= args.maxInbound
      BY <1>2 DEF PartialGraphIsSound
    <3>4. QED
      BY <1>2, <3>1, <3>2, <3>3
  <2>3. QED
    BY <1>2, <2>1, <2>2 DEF PartialGraphIsSound
<1>7. PassesAreExact'
  <2>1. addnode' \cap addconnection' = {}
    <3>1. \A r \in T : <<node, r>> \notin graph
      BY DEF Candidates
    <3>2. ({node} \X T) \cap graph = {}
      BY <3>1
    <3>3. QED
      BY <1>1, <1>2, <3>2 DEF PassesAreExact, graph
  <2>2. /\ manual' => addconnection' = {}
        /\ pc' = "build" => node' \in NodeIds(args.size)
        /\ pc' = "check" => ~manual'
    BY <1>1, <1>2, <1>20 DEF PassesAreExact, NodeIds, TypeOK
  <2>3. ASSUME NEW n \in NodeIds(args.size)
        PROVE  /\ Cardinality(Successors(addnode', args.size, n)) =
                    IF manual' /\ n >= node' THEN 0 ELSE args.outbound
               /\ Cardinality(Successors(addconnection', args.size, n)) =
                    IF manual' \/ (pc' = "build" /\ n >= node') THEN 0 ELSE args.recon
    <3>1. /\ Cardinality(Successors(addnode, args.size, n)) =
               IF manual /\ n >= node THEN 0 ELSE args.outbound
          /\ Cardinality(Successors(addconnection, args.size, n)) =
               IF manual \/ n >= node THEN 0 ELSE args.recon
      BY <1>2 DEF PassesAreExact
    <3>2. n \in Int /\ node \in Int /\ n >= 0 /\ n < args.size
      BY <1>2 DEF NodeIds
    <3>3. CASE manual
      <4>1. Cardinality(Successors(addnode, args.size, node)) = 0
        BY <1>2, <3>2, <3>3 DEF PassesAreExact
      <4>2. Cardinality(Successors(addnode', args.size, n)) =
              IF n = node THEN args.outbound ELSE Cardinality(Successors(addnode, args.size, n))
        BY <1>1, <1>2, <1>3, <3>3, <4>1, OutDegreeAfterDraw DEF degree
      <4>3. addconnection' = addconnection
        BY <1>1, <3>3
      <4>4. /\ Cardinality(Successors(addnode', args.size, n)) =
                 IF n > node THEN 0 ELSE args.outbound
            /\ Cardinality(Successors(addconnection', args.size, n)) = 0
        BY <3>1, <3>2, <3>3, <4>2, <4>3
      <4>5. CASE node < args.size - 1 /\ node' = node + 1 /\ pc' = "build" /\ manual' = manual
        <5>1. manual'
          BY <3>3, <4>5
        <5>2. n >= node' <=> n > node
          BY <3>2, <4>5
        <5>3. QED
          BY <4>4, <5>1, <5>2
      <4>6. CASE node = args.size - 1 /\ node' = 0 /\ pc' = "build" /\ ~manual'
        <5>1. n >= node' /\ ~(n > node)
          BY <1>2, <3>2, <4>6
        <5>2. QED
          BY <4>4, <4>6, <5>1
      <4>7. QED
        BY <1>20, <3>3, <4>5, <4>6
    <3>4. CASE ~manual
      <4>1. Cardinality(Successors(addconnection, args.size, node)) = 0
        BY <1>2, <3>2, <3>4 DEF PassesAreExact
      <4>2. Cardinality(Successors(addconnection', args.size, n)) =
              IF n = node THEN args.recon ELSE Cardinality(Successors(addconnection, args.size, n))
        BY <1>1, <1>2, <1>3, <3>4, <4>1, OutDegreeAfterDraw DEF degree
      <4>3. addnode' = addnode
        BY <1>1, <3>4
      <4>4. /\ Cardinality(Successors(addnode', args.size, n)) = args.outbound
            /\ Cardinality(Successors(addconnection', args.size, n)) =
                 IF n > node THEN 0 ELSE args.recon
        BY <3>1, <3>2, <3>4, <4>2, <4>3
      <4>5. QED
        BY <1>20, <1>2, <3>2, <3>4, <4>4
    <3>5. QED
      BY <3>3, <3>4
  <2>4. pc' \in {"build", "check"}
    BY <1>20
  <2>5. QED
    BY <1>2, <2>1, <2>2, <2>3, <2>4 DEF PassesAreExact
<1>8. QED
  <2>1. pc' \in {"build", "check"}
    BY <1>20
  <2>2. QED
    BY <1>2, <1>5, <1>6, <1>7, <2>1 DEF IInv, Checked, ValidationNeverFails

\* A graph that satisfies the invariant and is in one piece passes every
\* assertion of validate_graph.
LEMMA KeptGraphIsValid ==
  ASSUME IInv, pc = "validate_graph"
  PROVE  IsPeerNetwork(addnode, addconnection, args)
<1>1. /\ args.size \in Int /\ args.outbound \in Int /\ args.recon \in Int
      /\ ArgsAccepted(args) /\ PassesAreExact /\ PartialGraphIsSound
      /\ Connected(graph, args.size) /\ ~manual
  BY ArgsAreIntegers DEF IInv, TypeOK, Checked, PassesAreExact
<1>2. ASSUME NEW n \in NodeIds(args.size)
      PROVE  /\ Cardinality(Successors(graph, args.size, n)) = args.outbound + args.recon
             /\ Cardinality(Successors(addconnection, args.size, n)) = args.recon
  <2>1. /\ Cardinality(Successors(addnode, args.size, n)) = args.outbound
        /\ Cardinality(Successors(addconnection, args.size, n)) = args.recon
        /\ addnode \cap addconnection = {}
    BY <1>1 DEF PassesAreExact
  <2>2. QED
    BY <1>1, <2>1, DegreesAddUp DEF graph
<1>3. QED
  BY <1>1, <1>2 DEF IsPeerNetwork, DegreesMatch, PartialGraphIsSound, graph

\* Every step preserves the invariant.
LEMMA StepInv == IInv /\ [Next]_vars => IInv'
<1> SUFFICES ASSUME IInv, [Next]_vars PROVE IInv'
  OBVIOUS
<1>1. CASE RejectArgs
  BY <1>1 DEF RejectArgs, IInv, TypeOK, Checked, PassesAreExact, PartialGraphIsSound,
              ValidationNeverFails, graph, Ended
<1>2. CASE AcceptArgs
  BY <1>2, NextAttemptInv DEF AcceptArgs, IInv
<1>3. CASE ConnectNode
  BY <1>3, ConnectNodeInv
<1>4. CASE Deadlock
  BY <1>4, NextAttemptInv DEF Deadlock, IInv, Checked
<1>5. CASE CheckConnected
  <2>1. ArgsAccepted(args)
    BY <1>5 DEF CheckConnected, IInv, Checked
  <2>2. CASE NextAttempt
    BY <1>5, <2>1, <2>2, NextAttemptInv DEF CheckConnected, IInv
  <2>3. CASE Connected(graph, args.size)
    BY <1>5, <2>1, <2>3 DEF CheckConnected, IInv, TypeOK, Checked, PassesAreExact,
       PartialGraphIsSound, ValidationNeverFails, graph, Running
  <2>4. QED
    BY <1>5, <2>2, <2>3 DEF CheckConnected
<1>6. CASE ValidateAndWrite
  <2>1. IsPeerNetwork(addnode, addconnection, args)
    BY <1>6, KeptGraphIsValid DEF ValidateAndWrite
  <2>2. QED
    BY <1>6, <2>1 DEF ValidateAndWrite, IInv, TypeOK, Checked, PassesAreExact,
       PartialGraphIsSound, ValidationNeverFails, graph, Ended
<1>7. CASE UNCHANGED vars
  BY <1>7 DEF vars, IInv, TypeOK, Checked, PassesAreExact, PartialGraphIsSound,
              ValidationNeverFails, graph
<1>8. QED
  BY <1>1, <1>2, <1>3, <1>4, <1>5, <1>6, <1>7 DEF Next

\* The inductive invariant holds in every state of every run of the generator.
THEOREM InductiveInvariant == Spec => []IInv
<1>1. QED
  BY InitInv, StepInv, PTL DEF Spec

\* Every variable keeps its type, whatever the arguments.
THEOREM TypeCorrect == Spec => []TypeOK
<1>1. IInv => TypeOK
  BY DEF IInv
<1>2. QED
  BY <1>1, InductiveInvariant, PTL

\* No graph that build_network returns fails an assertion of validate_graph,
\* for any size, degree, number of slots or attempts.
THEOREM AssertionsNeverFail == Spec => []ValidationNeverFails
<1>1. IInv => ValidationNeverFails
  BY DEF IInv
<1>2. QED
  BY <1>1, InductiveInvariant, PTL

\* Every partial graph is simple and within the inbound slots.
THEOREM PartialGraphsAreSound == Spec => []PartialGraphIsSound
<1>1. IInv => PartialGraphIsSound
  BY DEF IInv
<1>2. QED
  BY <1>1, InductiveInvariant, PTL

-----------------------------------------------------------------------------
(* validate_args is exact.  A network for the request has S * d edges, with *)
(* d = outbound + recon: they all take one of the R * M slots of the        *)
(* reachable nodes, and the R * d edges among the reachable nodes, their    *)
(* mirrors and the diagonal do not overlap in a square of R * R.  The other *)
(* way, a ring answers every request within those two bounds: a reachable   *)
(* node connects to the d nodes that follow it, and the unreachable nodes   *)
(* deal their edges out to the ring in turn.                                *)

\* A set of naturals has a least element: the induction the lemmas below use.
LEMMA NatMin ==
  ASSUME NEW T \in SUBSET Nat, T # {}
  PROVE  \E x \in T : \A y \in T : x <= y
<1> DEFINE R == OpToRel(<, Nat)
<1>1. IsWellFoundedOn(R, Nat)
  BY NatLessThanWellFounded
<1>2. \E x \in T : \A y \in T : ~ (<<y, x>> \in R)
  <2> HIDE DEF R
  <2> QED BY <1>1, WFMin
<1>3. \A x, y \in Nat : y < x => <<y, x>> \in R
  BY DEF OpToRel
<1>4. PICK x \in T : \A y \in T : ~ (<<y, x>> \in R)
  BY <1>2
<1>5. \A y \in T : x <= y
  <2> TAKE y \in T
  <2>1. x \in Nat /\ y \in Nat
    OBVIOUS
  <2>2. ~(y < x)
    BY <2>1, <1>3, <1>4
  <2> QED BY <2>1, <2>2
<1> QED BY <1>5

\* The edges that leave the first n nodes, when F[i] is where node i connects.
EdgesFrom(F, n) == UNION {{i} \X F[i] : i \in 0 .. n - 1}

\* One more node adds its own edges.
LEMMA OneMoreNode ==
  ASSUME NEW F, NEW n \in Nat, IsFiniteSet(EdgesFrom(F, n)), IsFiniteSet(F[n])
  PROVE  /\ IsFiniteSet(EdgesFrom(F, n + 1))
         /\ Cardinality(EdgesFrom(F, n + 1)) = Cardinality(EdgesFrom(F, n)) + Cardinality(F[n])
<1> DEFINE old == EdgesFrom(F, n)
           new == {n} \X F[n]
<1>1. EdgesFrom(F, n + 1) = old \cup new
  <2>1. 0 .. (n + 1) - 1 = (0 .. n - 1) \cup {n}
    OBVIOUS
  <2>2. EdgesFrom(F, n + 1) = UNION {{i} \X F[i] : i \in (0 .. n - 1) \cup {n}}
    BY <2>1 DEF EdgesFrom
  <2>3. UNION {{i} \X F[i] : i \in (0 .. n - 1) \cup {n}} = (UNION {{i} \X F[i] : i \in 0 .. n - 1}) \cup new
    OBVIOUS
  <2> QED BY <2>2, <2>3 DEF EdgesFrom
<1>2. old \cap new = {}
  <2>1. n \notin 0 .. n - 1
    OBVIOUS
  <2> QED BY <2>1 DEF EdgesFrom
<1>3. IsFiniteSet(new) /\ Cardinality(new) = Cardinality(F[n])
  <2>1. IsFiniteSet({n}) /\ Cardinality({n}) = 1 /\ Cardinality(F[n]) \in Nat
    BY FS_Singleton, FS_CardinalityType
  <2>2. IsFiniteSet(new) /\ Cardinality(new) = Cardinality({n}) * Cardinality(F[n])
    BY <2>1, FS_Product
  <2> QED BY <2>1, <2>2
<1> HIDE DEF old, new
<1>4. IsFiniteSet(old \cup new)
      /\ Cardinality(old \cup new) = Cardinality(old) + Cardinality(new) - Cardinality(old \cap new)
  BY <1>3, FS_Union DEF old
<1>5. Cardinality(old \cap new) = 0 /\ Cardinality(old) \in Nat /\ Cardinality(new) \in Nat
  BY <1>2, <1>3, FS_EmptySet, FS_CardinalityType DEF old
<1>6. Cardinality(old \cup new) = Cardinality(old) + Cardinality(new)
  BY <1>4, <1>5
<1> QED BY <1>1, <1>3, <1>4, <1>6 DEF old

\* Counting edges node by node.
LEMMA EdgesCount ==
  ASSUME NEW n \in Nat, NEW k \in Nat, NEW F, \A i \in 0 .. n - 1 : IsFiniteSet(F[i])
  PROVE  /\ IsFiniteSet(EdgesFrom(F, n))
         /\ (\A i \in 0 .. n - 1 : Cardinality(F[i]) = k) => Cardinality(EdgesFrom(F, n)) = n * k
         /\ (\A i \in 0 .. n - 1 : Cardinality(F[i]) <= k) => Cardinality(EdgesFrom(F, n)) <= n * k
<1> DEFINE Counted(m) ==
             /\ IsFiniteSet(EdgesFrom(F, m))
             /\ (\A i \in 0 .. n - 1 : Cardinality(F[i]) = k) => Cardinality(EdgesFrom(F, m)) = m * k
             /\ (\A i \in 0 .. n - 1 : Cardinality(F[i]) <= k) => Cardinality(EdgesFrom(F, m)) <= m * k
           T == {m \in 0 .. n : ~Counted(m)}
<1> SUFFICES ASSUME T # {} PROVE FALSE
  OBVIOUS
<1>1. PICK m \in T : \A j \in T : m <= j
  <2>1. T \in SUBSET Nat
    OBVIOUS
  <2> HIDE DEF T
  <2> QED BY <2>1, NatMin
<1>2. CASE m = 0
  <2>1. EdgesFrom(F, 0) = {}
    BY DEF EdgesFrom
  <2>2. 0 * k = 0 /\ IsFiniteSet(EdgesFrom(F, 0)) /\ Cardinality(EdgesFrom(F, 0)) = 0
    <3>1. 0 * k = 0
      OBVIOUS
    <3> QED BY <2>1, <3>1, FS_EmptySet, Zenon
  <2>3. Counted(0)
    BY <2>2
  <2> QED BY <1>1, <1>2, <2>3
<1>3. CASE m # 0
  <2> DEFINE p == m - 1
  <2>1. p \in Nat /\ p + 1 = m /\ p \in 0 .. n - 1 /\ p \in 0 .. n /\ p \notin T
    BY <1>1, <1>3
  <2>2. Counted(p)
    BY <2>1
  <2> HIDE DEF p
  <2>3. /\ IsFiniteSet(EdgesFrom(F, m))
        /\ Cardinality(EdgesFrom(F, m)) = Cardinality(EdgesFrom(F, p)) + Cardinality(F[p])
    BY <2>1, <2>2, OneMoreNode
  <2>4. Cardinality(EdgesFrom(F, p)) \in Nat /\ Cardinality(F[p]) \in Nat
    BY <2>1, <2>2, FS_CardinalityType
  <2>5. m * k = p * k + k /\ p * k \in Nat
    BY <2>1
  <2>6. (\A i \in 0 .. n - 1 : Cardinality(F[i]) = k) => Cardinality(EdgesFrom(F, m)) = m * k
    BY <2>1, <2>2, <2>3, <2>4, <2>5
  <2>7. (\A i \in 0 .. n - 1 : Cardinality(F[i]) <= k) => Cardinality(EdgesFrom(F, m)) <= m * k
    BY <2>1, <2>2, <2>3, <2>4, <2>5
  <2> QED BY <1>1, <2>3, <2>6, <2>7
<1> QED BY <1>2, <1>3

\* Turning every edge round keeps their number.
LEMMA MirrorCount ==
  ASSUME NEW E, NEW A, NEW B, E \subseteq A \X B, IsFiniteSet(E), NEW Q, Q = {<<e[2], e[1]>> : e \in E}
  PROVE  IsFiniteSet(Q) /\ Cardinality(Q) = Cardinality(E)
<1> DEFINE f == [e \in E |-> <<e[2], e[1]>>]
<1>1. \A e \in E : e = <<e[1], e[2]>>
  OBVIOUS
<1>2. f \in [E -> Q] /\ (\A q \in Q : \E e \in E : f[e] = q) /\ \A e, h \in E : f[e] = f[h] => e = h
  BY <1>1
<1>3. f \in Bijection(E, Q)
  <2> HIDE DEF f
  <2> QED BY <1>2 DEF Bijection, Injection, Surjection, IsInjective
<1> QED BY <1>3, FS_Bijection DEF ExistsBijection

\* Membership in EdgesFrom.
LEMMA EdgesFromMember ==
  ASSUME NEW F, NEW n \in Int
  PROVE  /\ \A i, r : <<i, r>> \in EdgesFrom(F, n) <=> i \in 0 .. n - 1 /\ r \in F[i]
         /\ \A e \in EdgesFrom(F, n) : e = <<e[1], e[2]>> /\ e[1] \in 0 .. n - 1 /\ e[2] \in F[e[1]]
<1>1. \A e : e \in EdgesFrom(F, n) <=> \E i \in 0 .. n - 1 : e \in {i} \X F[i]
  BY DEF EdgesFrom
<1>2. \A i, j, r : <<i, r>> \in {j} \X F[j] <=> i = j /\ r \in F[j]
  OBVIOUS
<1>3. ASSUME NEW i, NEW r
      PROVE  <<i, r>> \in EdgesFrom(F, n) <=> i \in 0 .. n - 1 /\ r \in F[i]
  <2>1. <<i, r>> \in EdgesFrom(F, n) <=> \E j \in 0 .. n - 1 : <<i, r>> \in {j} \X F[j]
    BY <1>1
  <2> QED BY <1>2, <2>1
<1>4. ASSUME NEW e \in EdgesFrom(F, n)
      PROVE  e = <<e[1], e[2]>> /\ e[1] \in 0 .. n - 1 /\ e[2] \in F[e[1]]
  <2>1. PICK i \in 0 .. n - 1 : e \in {i} \X F[i]
    BY <1>1
  <2>2. PICK r \in F[i] : e = <<i, r>>
    BY <2>1
  <2>3. e[1] = i /\ e[2] = r
    BY <2>2
  <2> QED BY <2>2, <2>3
<1> QED BY <1>3, <1>4, Zenon

\* Three disjoint parts of a finite set.
LEMMA ThreeParts ==
  ASSUME NEW A, NEW B, NEW C, NEW U, IsFiniteSet(U), A \subseteq U, B \subseteq U, C \subseteq U,
         A \cap B = {}, A \cap C = {}, B \cap C = {}
  PROVE  /\ Cardinality(A) + Cardinality(B) + Cardinality(C) <= Cardinality(U)
         /\ Cardinality(A) \in Nat /\ Cardinality(B) \in Nat /\ Cardinality(C) \in Nat
<1>1. /\ IsFiniteSet(A) /\ IsFiniteSet(B) /\ IsFiniteSet(C)
      /\ Cardinality(A) \in Nat /\ Cardinality(B) \in Nat /\ Cardinality(C) \in Nat
  BY FS_Subset, FS_CardinalityType
<1>2. IsFiniteSet(A \cup B) /\ Cardinality(A \cup B) = Cardinality(A) + Cardinality(B)
  <2>1. IsFiniteSet(A \cup B) /\ Cardinality(A \cup B) = Cardinality(A) + Cardinality(B) - Cardinality(A \cap B)
    BY <1>1, FS_Union
  <2>2. Cardinality(A \cap B) = 0
    BY FS_EmptySet
  <2> QED BY <1>1, <2>1, <2>2
<1>3. /\ IsFiniteSet((A \cup B) \cup C)
      /\ Cardinality((A \cup B) \cup C) = Cardinality(A) + Cardinality(B) + Cardinality(C)
  <2>1. /\ IsFiniteSet((A \cup B) \cup C)
        /\ Cardinality((A \cup B) \cup C) = Cardinality(A \cup B) + Cardinality(C) - Cardinality((A \cup B) \cap C)
    BY <1>1, <1>2, FS_Union
  <2>2. (A \cup B) \cap C = {}
    OBVIOUS
  <2>3. Cardinality((A \cup B) \cap C) = 0
    BY <2>2, FS_EmptySet
  <2> QED BY <1>1, <1>2, <2>1, <2>3
<1>4. Cardinality((A \cup B) \cup C) <= Cardinality(U)
  <2>1. (A \cup B) \cup C \in SUBSET U
    OBVIOUS
  <2> QED BY <2>1, FS_Subset
<1> QED BY <1>1, <1>3, <1>4

\* What Answerable says of a choice of targets, edge by edge.
LEMMA AnswerIsAGraph ==
  ASSUME NEW a \in ArgType, InRange(a), Answerable(a)
  PROVE  \E targets, preds :
           /\ \A n \in NodeIds(a.size) : /\ targets[n] \subseteq 0 .. a.reachable - 1
                                         /\ IsFiniteSet(targets[n])
                                         /\ Cardinality(targets[n]) = a.outbound + a.recon
           /\ \A n \in NodeIds(a.size) : \A r \in targets[n] : r # n /\ n \notin targets[r] /\ n \in preds[r]
           /\ \A r \in NodeIds(a.size) : IsFiniteSet(preds[r]) /\ Cardinality(preds[r]) <= a.maxInbound
<1>1. /\ a.size \in Int /\ a.reachable \in Int /\ a.outbound \in Int /\ a.recon \in Int /\ a.maxInbound \in Int
      /\ a.size > 0 /\ a.reachable > 0 /\ a.reachable <= a.size
  BY DEF ArgType, InRange
<1> DEFINE Choices == {T \in SUBSET (0 .. a.reachable - 1) : Cardinality(T) = a.outbound + a.recon}
           Edges(targets) == {e \in NodeIds(a.size) \X NodeIds(a.size) : e[2] \in targets[e[1]]}
<1>2. PICK targets \in [NodeIds(a.size) -> Choices] :
        /\ SimplePeering(Edges(targets), a.size, a.reachable)
        /\ \A r \in NodeIds(a.size) : InDegree(Edges(targets), a.size, r) <= a.maxInbound
  BY DEF Answerable
<1> DEFINE g == Edges(targets)
           preds == [r \in NodeIds(a.size) |-> Predecessors(g, a.size, r)]
<1>3. ASSUME NEW n \in NodeIds(a.size)
      PROVE  /\ targets[n] \subseteq 0 .. a.reachable - 1
             /\ IsFiniteSet(targets[n])
             /\ Cardinality(targets[n]) = a.outbound + a.recon
  <2>1. targets[n] \in Choices
    BY <1>2
  <2>2. IsFiniteSet(0 .. a.reachable - 1)
    BY <1>1, FS_Interval
  <2> QED BY <2>1, <2>2, FS_Subset
<1>4. \A n \in NodeIds(a.size) : \A r \in targets[n] : r \in NodeIds(a.size)
  BY <1>1, <1>3 DEF NodeIds
<1>5. \A n, r \in NodeIds(a.size) : <<n, r>> \in g <=> r \in targets[n]
  OBVIOUS
<1> HIDE DEF Edges
<1>6. ASSUME NEW n \in NodeIds(a.size), NEW r \in targets[n]
      PROVE  r # n /\ n \notin targets[r] /\ n \in preds[r]
  <2>1. r \in NodeIds(a.size)
    BY <1>4
  <2>2. <<n, r>> \in g
    BY <1>5, <2>1
  <2>3. r \in Successors(g, a.size, n)
    BY <2>1, <2>2 DEF Successors
  <2>4. r # n /\ <<r, n>> \notin g
    BY <1>2, <2>3 DEF SimplePeering
  <2>5. n \in preds[r]
    BY <2>1, <2>2 DEF Predecessors
  <2> QED BY <1>5, <2>1, <2>4, <2>5
<1>7. ASSUME NEW r \in NodeIds(a.size)
      PROVE  IsFiniteSet(preds[r]) /\ Cardinality(preds[r]) <= a.maxInbound
  <2>1. IsFiniteSet(NodeIds(a.size))
    BY <1>1, FS_Interval DEF NodeIds
  <2>2. preds[r] = Predecessors(g, a.size, r) /\ preds[r] \in SUBSET NodeIds(a.size)
    BY DEF Predecessors
  <2> QED BY <1>2, <2>1, <2>2, FS_Subset DEF InDegree
<1> QED BY <1>3, <1>6, <1>7

\* A request that some network answers passes validate_args.
LEMMA AnswerableIsAccepted ==
  ASSUME NEW a \in ArgType, InRange(a), Answerable(a)
  PROVE  ArgsAccepted(a)
<1> DEFINE S == a.size
           R == a.reachable
           d == a.outbound + a.recon
           M == a.maxInbound
           Square == (0 .. R - 1) \X (0 .. R - 1)
<1>1. S \in Nat /\ R \in Nat /\ R > 0 /\ R <= S /\ d \in Nat /\ M \in Int
  BY DEF ArgType, InRange
<1>2. PICK targets, preds :
           /\ \A n \in NodeIds(a.size) : /\ targets[n] \subseteq 0 .. a.reachable - 1
                                         /\ IsFiniteSet(targets[n])
                                         /\ Cardinality(targets[n]) = a.outbound + a.recon
           /\ \A n \in NodeIds(a.size) : \A r \in targets[n] : r # n /\ n \notin targets[r] /\ n \in preds[r]
           /\ \A r \in NodeIds(a.size) : IsFiniteSet(preds[r]) /\ Cardinality(preds[r]) <= a.maxInbound
  BY AnswerIsAGraph
<1> HIDE DEF S, R, d, M
<1>3. \A n \in 0 .. S - 1 : /\ targets[n] \subseteq 0 .. R - 1
                            /\ IsFiniteSet(targets[n])
                            /\ Cardinality(targets[n]) = d
  BY <1>2 DEF NodeIds, S, R, d
<1>4. \A n \in 0 .. S - 1 : \A r \in targets[n] : r # n /\ n \notin targets[r] /\ n \in preds[r]
  BY <1>2 DEF NodeIds, S
<1>5. \A r \in 0 .. S - 1 : IsFiniteSet(preds[r]) /\ Cardinality(preds[r]) <= M
  BY <1>2 DEF NodeIds, S, M
<1>6. 0 .. R - 1 \subseteq 0 .. S - 1
  BY <1>1
<1>7. R * M >= S * d
  <2> DEFINE E == EdgesFrom(targets, S)
             Q == {<<e[2], e[1]>> : e \in E}
             P == EdgesFrom(preds, R)
  <2>1. IsFiniteSet(E) /\ Cardinality(E) = S * d
    BY <1>1, <1>3, EdgesCount
  <2>2. \A e \in E : e = <<e[1], e[2]>> /\ e[1] \in 0 .. S - 1 /\ e[2] \in targets[e[1]]
    BY <1>1, EdgesFromMember
  <2>3. E \subseteq (0 .. S - 1) \X (0 .. R - 1)
    <3> HIDE DEF E
    <3>1. \A e \in E : e[2] \in 0 .. R - 1
      BY <2>2, <1>3
    <3> QED BY <2>2, <3>1
  <2>4. IsFiniteSet(Q) /\ Cardinality(Q) = Cardinality(E)
    <3> HIDE DEF E
    <3> QED BY <2>1, <2>3, MirrorCount
  <2>5. M \in Nat
    <3>1. 0 \in 0 .. S - 1
      BY <1>1
    <3>2. Cardinality(preds[0]) \in Nat /\ Cardinality(preds[0]) <= M
      BY <3>1, <1>5, FS_CardinalityType
    <3> QED BY <1>1, <3>2
  <2>6. IsFiniteSet(P) /\ Cardinality(P) <= R * M
    <3>1. \A r \in 0 .. R - 1 : IsFiniteSet(preds[r]) /\ Cardinality(preds[r]) <= M
      BY <1>5, <1>6
    <3> QED BY <1>1, <2>5, <3>1, EdgesCount
  <2>7. Q \in SUBSET P
    <3>1. SUFFICES ASSUME NEW e \in E PROVE <<e[2], e[1]>> \in P
      OBVIOUS
    <3>2. e[2] \in 0 .. R - 1 /\ e[1] \in preds[e[2]]
      <4> HIDE DEF E
      <4> QED BY <2>2, <1>3, <1>4
    <3> QED BY <1>1, <3>2, EdgesFromMember
  <2>8. Cardinality(Q) <= Cardinality(P) /\ Cardinality(P) \in Nat
    <3> HIDE DEF P, Q
    <3> QED BY <2>6, <2>7, FS_Subset, FS_CardinalityType
  <2>9. S * d \in Int /\ R * M \in Int
    BY <1>1
  <2> HIDE DEF P, Q, E
  <2> QED BY <2>1, <2>4, <2>6, <2>8, <2>9
<1>8. R >= 2 * d + 1
  <2> DEFINE E == EdgesFrom(targets, R)
             Q == {<<e[2], e[1]>> : e \in E}
             self == [i \in 0 .. R - 1 |-> {i}]
             D == EdgesFrom(self, R)
  <2>1. IsFiniteSet(E) /\ Cardinality(E) = R * d
    <3>1. \A r \in 0 .. R - 1 : IsFiniteSet(targets[r]) /\ Cardinality(targets[r]) = d
      BY <1>3, <1>6
    <3> QED BY <1>1, <3>1, EdgesCount
  <2>2. \A e \in E : e = <<e[1], e[2]>> /\ e[1] \in 0 .. R - 1 /\ e[2] \in targets[e[1]]
    BY <1>1, EdgesFromMember
  <2>3. \A e \in E : /\ e[2] \in 0 .. R - 1 /\ e[2] # e[1]
                     /\ e[1] \notin targets[e[2]]
    <3> HIDE DEF E
    <3> QED BY <2>2, <1>3, <1>4, <1>6
  <2>4. E \subseteq Square
    <3> HIDE DEF E
    <3> QED BY <2>2, <2>3
  <2>5. IsFiniteSet(Q) /\ Cardinality(Q) = Cardinality(E)
    <3> HIDE DEF E
    <3> QED BY <2>1, <2>4, MirrorCount
  <2>6. IsFiniteSet(D) /\ Cardinality(D) = R * 1
    <3>1. \A i \in 0 .. R - 1 : IsFiniteSet(self[i]) /\ Cardinality(self[i]) = 1
      BY FS_Singleton
    <3> HIDE DEF self
    <3> QED BY <1>1, <3>1, EdgesCount
  <2>7. \A e \in D : e = <<e[1], e[2]>> /\ e[1] \in 0 .. R - 1 /\ e[2] = e[1]
    <3>1. \A e \in D : e = <<e[1], e[2]>> /\ e[1] \in 0 .. R - 1 /\ e[2] \in self[e[1]]
      BY <1>1, EdgesFromMember
    <3> HIDE DEF D
    <3> QED BY <3>1
  <2>8. \A q \in Q : \E e \in E : q = <<e[2], e[1]>>
    OBVIOUS
  <2>9. IsFiniteSet(Square) /\ Cardinality(Square) = R * R
    <3>1. IsFiniteSet(0 .. R - 1) /\ Cardinality(0 .. R - 1) = R
      BY <1>1, FS_Interval
    <3> QED BY <3>1, FS_Product
  <2> HIDE DEF E, Q, D, self
  <2>10. Q \subseteq Square /\ D \subseteq Square
    BY <2>2, <2>3, <2>7, <2>8
  <2>11. E \cap Q = {}
    <3>1. SUFFICES ASSUME NEW q \in E, q \in Q PROVE FALSE
      OBVIOUS
    <3>2. PICK e \in E : q = <<e[2], e[1]>>
      BY <2>8, <3>1
    <3>3. q[1] = e[2] /\ q[2] = e[1]
      BY <3>2
    <3> QED BY <2>2, <2>3, <3>3
  <2>12. E \cap D = {}
    BY <2>3, <2>7
  <2>13. Q \cap D = {}
    <3>1. SUFFICES ASSUME NEW q \in Q, q \in D PROVE FALSE
      OBVIOUS
    <3>2. PICK e \in E : q = <<e[2], e[1]>>
      BY <2>8, <3>1
    <3>3. q[1] = e[2] /\ q[2] = e[1]
      BY <3>2
    <3> QED BY <2>3, <2>7, <3>1, <3>3
  <2>14. Cardinality(E) + Cardinality(Q) + Cardinality(D) <= Cardinality(Square)
    <3> HIDE DEF Square
    <3> QED BY <2>4, <2>9, <2>10, <2>11, <2>12, <2>13, ThreeParts
  <2>15. R * d + R * d + R * 1 <= R * R
    BY <2>1, <2>5, <2>6, <2>9, <2>14
  <2>16. R * (2 * d + 1) <= R * R
    <3>1. R * (2 * d + 1) = R * d + R * d + R * 1
      BY <1>1
    <3> QED BY <2>15, <3>1
  <2>17. \A x, y, z \in Int : z > 0 /\ z * x <= z * y => x <= y
    OBVIOUS
  <2>18. 2 * d + 1 \in Int /\ R \in Int
    BY <1>1
  <2>19. 2 * d + 1 <= R
    BY <1>1, <2>16, <2>17, <2>18
  <2> QED BY <2>18, <2>19
<1> QED BY <1>7, <1>8 DEF ArgsAccepted, InRange, S, R, d, M

\* Division with a remainder.
LEMMA Remainder ==
  ASSUME NEW x \in Int, NEW R \in Int, R > 0
  PROVE  /\ x % R \in 0 .. R - 1
         /\ \E q \in Int : x = R * q + (x % R)
<1>1. x % R \in 0 .. R - 1
  OBVIOUS
<1>2. x \div R \in Int
  OBVIOUS
<1>3. x = R * (x \div R) + (x % R)
  BY Z3
<1> QED BY <1>1, <1>2, <1>3

\* ... and the remainder is the only one.
LEMMA RemainderIsUnique ==
  ASSUME NEW R \in Int, R > 0, NEW q \in Int, NEW p \in Int,
         NEW x \in 0 .. R - 1, NEW y \in 0 .. R - 1, R * q + x = R * p + y
  PROVE  q = p /\ x = y
OBVIOUS

\* No multiple of R lies strictly between 0 and R, nor on the other side of 0.
LEMMA NoMultipleBetween ==
  ASSUME NEW R \in Int, R > 0, NEW q \in Int, -R < R * q, R * q < R
  PROVE  q = 0
OBVIOUS

\* d consecutive reachable nodes, from s on, around the ring of the R reachable ones.
Arc(R, d, s) == {r \in 0 .. R - 1 : \E j \in 0 .. d - 1, q \in Int : s + j = R * q + r}

\* An arc has d nodes, as long as it does not bite its tail.
LEMMA ArcCount ==
  ASSUME NEW R \in Int, R > 0, NEW d \in Nat, d <= R, NEW s \in Int
  PROVE  /\ Arc(R, d, s) \subseteq 0 .. R - 1
         /\ IsFiniteSet(Arc(R, d, s)) /\ Cardinality(Arc(R, d, s)) = d
<1> DEFINE J == 0 .. d - 1
           f == [j \in J |-> (s + j) % R]
           A == Arc(R, d, s)
<1>1. A \subseteq 0 .. R - 1
  BY DEF Arc
<1>2. ASSUME NEW j \in J
      PROVE  f[j] \in A
  <2>1. s + j \in Int
    OBVIOUS
  <2>2. (s + j) % R \in 0 .. R - 1 /\ \E q \in Int : s + j = R * q + ((s + j) % R)
    BY <2>1, Remainder
  <2> QED BY <2>2 DEF Arc
<1>7. ASSUME NEW r \in A
      PROVE  \E j \in J : f[j] = r
  <2>1. PICK j \in J, q \in Int : s + j = R * q + r
    BY DEF Arc
  <2>2. s + j \in Int /\ r \in 0 .. R - 1
    BY <1>1
  <2>3. (s + j) % R \in 0 .. R - 1
    BY <2>2, Remainder
  <2>4. PICK p \in Int : s + j = R * p + ((s + j) % R)
    BY <2>2, Remainder
  <2> DEFINE t == (s + j) % R
  <2>5. t \in 0 .. R - 1 /\ R * q + r = R * p + t
    BY <2>1, <2>3, <2>4
  <2> HIDE DEF t
  <2>6. r = t
    BY <2>2, <2>5, RemainderIsUnique
  <2> QED BY <2>6 DEF t
<1>3. ASSUME NEW j \in J, NEW k \in J, f[j] = f[k] PROVE j = k
  <2> DEFINE t == (s + j) % R
  <2>1. t = (s + k) % R /\ t \in 0 .. R - 1
    BY <1>1, <1>2, <1>3
  <2>2. s + j \in Int /\ s + k \in Int
    OBVIOUS
  <2>3. PICK q \in Int : s + j = R * q + t
    BY <2>2, Remainder
  <2>4. PICK p \in Int : s + k = R * p + t
    BY <2>1, <2>2, Remainder
  <2> HIDE DEF t
  <2>5. j - k = R * q - R * p
    BY <2>1, <2>3, <2>4
  <2>6. R * (q - p) = j - k
    <3>1. R * (q - p) = R * q - R * p
      OBVIOUS
    <3> QED BY <2>5, <3>1
  <2>7. -R < j - k /\ j - k < R
    OBVIOUS
  <2>8. q - p = 0
    BY <2>6, <2>7, NoMultipleBetween
  <2>9. R * q = R * p
    BY <2>8
  <2> QED BY <2>5, <2>9
<1>4. IsFiniteSet(J) /\ Cardinality(J) = d
  BY FS_Interval
<1> HIDE DEF f, J, A
<1>5. f \in Bijection(J, A)
  <2>1. f \in [J -> A]
    BY <1>2 DEF f
  <2> QED BY <2>1, <1>3, <1>7 DEF Bijection, Injection, Surjection, IsInjective
<1>6. IsFiniteSet(A) /\ Cardinality(A) = d
  BY <1>4, <1>5, FS_Bijection DEF ExistsBijection
<1> QED BY <1>1, <1>6 DEF A

\* A node of the ring begins the arc that starts there.
LEMMA ArcBeginsAtItsStart ==
  ASSUME NEW R \in Int, NEW d \in Nat, d > 0, NEW s \in 0 .. R - 1
  PROVE  s \in Arc(R, d, s)
<1>1. s + 0 = R * 0 + s
  <2>1. R * 0 = 0
    OBVIOUS
  <2> QED BY <2>1
<1>2. 0 \in 0 .. d - 1 /\ 0 \in Int
  OBVIOUS
<1>3. \E j \in 0 .. d - 1, q \in Int : s + j = R * q + s
  BY <1>1, <1>2, Zenon
<1> QED BY <1>3 DEF Arc

\* Where the arc of node i starts: a reachable node connects to the nodes that
\* follow it, the others share the ring out in turn.
ArcStart(R, d, i) == IF i < R THEN i + 1 ELSE (i - R) * d
RingTargets(S, R, d) == [i \in 0 .. S - 1 |-> Arc(R, d, ArcStart(R, d, i))]

\* Every node connects to d reachable nodes.
LEMMA RingOutDegree ==
  ASSUME NEW S \in Nat, NEW R \in Nat, R > 0, NEW d \in Nat, d <= R, NEW i \in 0 .. S - 1
  PROVE  /\ RingTargets(S, R, d)[i] \subseteq 0 .. R - 1
         /\ IsFiniteSet(RingTargets(S, R, d)[i]) /\ Cardinality(RingTargets(S, R, d)[i]) = d
         /\ ArcStart(R, d, i) \in Int
         /\ RingTargets(S, R, d)[i] = Arc(R, d, ArcStart(R, d, i))
<1>1. ArcStart(R, d, i) \in Int
  <2>1. (i - R) * d \in Int /\ i + 1 \in Int
    OBVIOUS
  <2> QED BY <2>1 DEF ArcStart
<1>2. RingTargets(S, R, d)[i] = Arc(R, d, ArcStart(R, d, i))
  BY DEF RingTargets
<1> QED BY <1>1, <1>2, ArcCount

\* With 2d + 1 nodes on the ring no arc reaches back.
LEMMA RingIsSimple ==
  ASSUME NEW S \in Nat, NEW R \in Nat, R > 0, R <= S, NEW d \in Nat, 2 * d + 1 <= R,
         NEW i \in 0 .. S - 1, NEW r \in RingTargets(S, R, d)[i]
  PROVE  r # i /\ r \in 0 .. R - 1 /\ i \notin RingTargets(S, R, d)[r]
<1>1. d <= R
  OBVIOUS
<1>2. r \in 0 .. R - 1 /\ r \in 0 .. S - 1
  BY <1>1, RingOutDegree
<1>3. CASE i >= R
  <2>1. RingTargets(S, R, d)[r] \subseteq 0 .. R - 1
    BY <1>1, <1>2, RingOutDegree
  <2> QED BY <1>2, <1>3, <2>1
<1>4. CASE i < R
  <2>1. ArcStart(R, d, i) = i + 1 /\ ArcStart(R, d, r) = r + 1
    BY <1>2, <1>4 DEF ArcStart
  <2>2. RingTargets(S, R, d)[i] = Arc(R, d, i + 1) /\ RingTargets(S, R, d)[r] = Arc(R, d, r + 1)
    <3>1. RingTargets(S, R, d)[i] = Arc(R, d, ArcStart(R, d, i))
      BY <1>1, RingOutDegree
    <3>2. RingTargets(S, R, d)[r] = Arc(R, d, ArcStart(R, d, r))
      BY <1>1, <1>2, RingOutDegree
    <3> QED BY <2>1, <3>1, <3>2
  <2>3. PICK j \in 0 .. d - 1, q \in Int : (i + 1) + j = R * q + r
    <3> DEFINE s == i + 1
    <3>1. s \in Int /\ R \in Int /\ r \in Arc(R, d, s)
      BY <2>2
    <3> HIDE DEF s
    <3>2. \E j \in 0 .. d - 1, q \in Int : s + j = R * q + r
      BY <3>1 DEF Arc
    <3> QED BY <3>2 DEF s
  <2>4. r # i
    <3>1. SUFFICES ASSUME r = i PROVE FALSE
      OBVIOUS
    <3>2. R * q = 1 + j /\ R * q \in Int
      BY <2>3, <3>1, <1>2
    <3>3. -R < R * q /\ R * q < R
      BY <3>2
    <3>4. q = 0
      BY <3>3, NoMultipleBetween
    <3>5. R * q = 0
      BY <3>4
    <3> QED BY <3>2, <3>5
  <2>5. i \notin Arc(R, d, r + 1)
    <3>1. SUFFICES ASSUME i \in Arc(R, d, r + 1) PROVE FALSE
      OBVIOUS
    <3>2. PICK k \in 0 .. d - 1, p \in Int : (r + 1) + k = R * p + i
      <4> DEFINE s == r + 1
      <4>1. s \in Int /\ R \in Int /\ i \in Arc(R, d, s)
        BY <1>2, <3>1
      <4> HIDE DEF s
      <4>2. \E k \in 0 .. d - 1, p \in Int : s + k = R * p + i
        BY <4>1 DEF Arc
      <4> QED BY <4>2 DEF s
    <3>3. R * q + R * p = 2 + j + k
      <4>1. R * q \in Int /\ R * p \in Int
        OBVIOUS
      <4> QED BY <1>2, <2>3, <3>2, <4>1
    <3>4. R * (q + p) = R * q + R * p
      OBVIOUS
    <3>5. -R < R * (q + p) /\ R * (q + p) < R /\ q + p \in Int
      BY <3>3, <3>4
    <3>6. q + p = 0
      BY <3>5, NoMultipleBetween
    <3>7. R * (q + p) = 0
      BY <3>6
    <3> QED BY <3>3, <3>4, <3>7
  <2> QED BY <1>2, <2>2, <2>4, <2>5
<1> QED BY <1>3, <1>4

\* The reachable nodes that connect to r are among the d nodes before it.
LEMMA RingPredecessors ==
  ASSUME NEW S \in Nat, NEW R \in Nat, R > 0, R <= S, NEW d \in Nat, d <= R,
         NEW r \in 0 .. R - 1, NEW A, A = {i \in 0 .. R - 1 : r \in RingTargets(S, R, d)[i]}
  PROVE  IsFiniteSet(A) /\ Cardinality(A) <= d /\ Cardinality(A) \in Nat
<1> DEFINE Gap(i, k) == \E q \in Int : i + k = R * q + r
           f == [i \in A |-> CHOOSE k \in 1 .. d : Gap(i, k)]
<1>1. ASSUME NEW i \in A
      PROVE  f[i] \in 1 .. d /\ Gap(i, f[i])
  <2>1. i \in 0 .. R - 1 /\ i \in 0 .. S - 1 /\ ArcStart(R, d, i) = i + 1
    BY DEF ArcStart
  <2>2. r \in Arc(R, d, ArcStart(R, d, i))
    <3>1. RingTargets(S, R, d)[i] = Arc(R, d, ArcStart(R, d, i))
      BY <2>1, RingOutDegree
    <3> QED BY <3>1
  <2>3. PICK j \in 0 .. d - 1, q \in Int : (i + 1) + j = R * q + r
    BY <2>1, <2>2 DEF Arc
  <2>4. j + 1 \in 1 .. d /\ i + (j + 1) = R * q + r
    BY <2>1, <2>3
  <2>5. \E k \in 1 .. d : Gap(i, k)
    BY <2>4
  <2> HIDE DEF Gap
  <2> QED BY <2>5
<1> HIDE DEF f
<1>2. ASSUME NEW i \in A, NEW h \in A, f[i] = f[h]
      PROVE  i = h
  <2>1. i \in 0 .. R - 1 /\ h \in 0 .. R - 1 /\ f[i] \in Int
    BY <1>1
  <2>2. PICK q \in Int : i + f[i] = R * q + r
    BY <1>1
  <2>3. PICK p \in Int : h + f[i] = R * p + r
    BY <1>1, <1>2
  <2>4. i - h = R * q - R * p
    BY <2>1, <2>2, <2>3
  <2>5. R * (q - p) = i - h
    <3>1. R * (q - p) = R * q - R * p
      OBVIOUS
    <3> QED BY <2>4, <3>1
  <2>6. -R < i - h /\ i - h < R
    BY <2>1
  <2>7. q - p = 0
    BY <2>5, <2>6, NoMultipleBetween
  <2>8. R * (q - p) = 0
    BY <2>7
  <2> QED BY <2>1, <2>5, <2>8
<1>3. f \in Injection(A, 1 .. d)
  <2>1. f \in [A -> 1 .. d]
    BY <1>1 DEF f
  <2> QED BY <1>2, <2>1 DEF Injection, IsInjective
<1>4. IsFiniteSet(1 .. d) /\ Cardinality(1 .. d) = d
  BY FS_Interval
<1> QED BY <1>3, <1>4, FS_Injection, FS_CardinalityType

\* Enough slots for every edge, and enough reachable nodes for d arcs.
RingFits(S, R, d, M) ==
  /\ S \in Nat /\ R \in Nat /\ R > 0 /\ R <= S
  /\ d \in Nat /\ d > 0 /\ 2 * d + 1 <= R /\ d <= R
  /\ M \in Int /\ R * M >= S * d

\* The unreachable nodes share the slots that are left: at most M - d of them,
\* when R * M slots are enough for S * d edges, connect to the same node.
LEMMA RoundRobinPredecessors ==
  ASSUME NEW S, NEW R, NEW d, NEW M, RingFits(S, R, d, M),
         NEW r \in 0 .. R - 1, NEW B, B = {i \in R .. S - 1 : r \in RingTargets(S, R, d)[i]}
  PROVE  IsFiniteSet(B) /\ Cardinality(B) <= M - d /\ Cardinality(B) \in Nat
<1> DEFINE Round(i, q) == \E j \in 0 .. d - 1 : (i - R) * d + j = R * q + r
           f == [i \in B |-> CHOOSE q \in 0 .. (M - d) - 1 : Round(i, q)]
<1> S \in Nat /\ R \in Nat /\ R > 0 /\ R <= S /\ d \in Nat /\ d > 0 /\ d <= R /\ M \in Int /\ R * M >= S * d
  BY DEF RingFits
<1>1. R * (M - d) >= S * d - R * d
  BY Z3
<1>2. M >= d
  <2>1. S * d >= R * d
    <3>1. S * d - R * d = (S - R) * d
      OBVIOUS
    <3>2. (S - R) * d >= 0
      OBVIOUS
    <3> QED BY <3>1, <3>2
  <2>2. R * d <= R * M
    BY <2>1
  <2> QED BY <2>2
<1>3. ASSUME NEW i \in B
      PROVE  f[i] \in 0 .. (M - d) - 1 /\ Round(i, f[i])
  <2>1. i \in R .. S - 1 /\ i \in 0 .. S - 1 /\ ArcStart(R, d, i) = (i - R) * d
    BY DEF ArcStart
  <2>2. r \in Arc(R, d, ArcStart(R, d, i))
    <3>1. RingTargets(S, R, d)[i] = Arc(R, d, ArcStart(R, d, i))
      BY <2>1, RingOutDegree
    <3> QED BY <3>1
  <2>3. PICK j \in 0 .. d - 1, q \in Int : (i - R) * d + j = R * q + r
    BY <2>1, <2>2 DEF Arc
  <2>4. (i - R) * d \in Int /\ 0 <= (i - R) * d /\ (i - R) * d <= S * d - R * d - d
    <3>1. i - R \in Nat /\ (S - 1) - i \in Nat
      BY <2>1
    <3>2. (i - R) * d \in Nat /\ ((S - 1) - i) * d \in Nat
      BY <3>1
    <3>3. (i - R) * d + ((S - 1) - i) * d = S * d - R * d - d
      BY <2>1
    <3>4. S * d \in Int /\ R * d \in Int
      OBVIOUS
    <3> QED BY <3>2, <3>3, <3>4
  <2>5. R * q + r < R * (M - d) /\ R * q > -R
    <3>1. R * q \in Int /\ S * d \in Int /\ R * d \in Int /\ R * (M - d) \in Int
      OBVIOUS
    <3> QED BY <1>1, <2>3, <2>4, <3>1
  <2>6. q < M - d
    BY <2>5
  <2>7. q >= 0
    BY <2>5
  <2>8. q \in 0 .. (M - d) - 1 /\ Round(i, q)
    BY <2>3, <2>6, <2>7
  <2> HIDE DEF Round
  <2> QED BY <2>8
<1> HIDE DEF f
<1>4. ASSUME NEW i \in B, NEW h \in B, f[i] = f[h]
      PROVE  i = h
  <2>1. i \in Int /\ h \in Int /\ f[i] \in Int /\ i - R \in Int /\ h - R \in Int
    BY <1>3
  <2>2. PICK j \in 0 .. d - 1 : (i - R) * d + j = R * f[i] + r
    BY <1>3
  <2>3. PICK k \in 0 .. d - 1 : (h - R) * d + k = R * f[i] + r
    BY <1>3, <1>4
  <2>4. d * (i - R) + j = d * (h - R) + k
    <3>1. (i - R) * d = d * (i - R) /\ (h - R) * d = d * (h - R)
      BY <2>1
    <3> QED BY <2>2, <2>3, <3>1
  <2>5. i - R = h - R
    BY <2>1, <2>4, RemainderIsUnique
  <2> QED BY <2>1, <2>5
<1>5. f \in Injection(B, 0 .. (M - d) - 1)
  <2>1. f \in [B -> 0 .. (M - d) - 1]
    BY <1>3 DEF f
  <2> QED BY <1>4, <2>1 DEF Injection, IsInjective
<1>6. IsFiniteSet(0 .. (M - d) - 1) /\ Cardinality(0 .. (M - d) - 1) = M - d
  <2>1. \A n \in Nat : IsFiniteSet(0 .. n - 1) /\ Cardinality(0 .. n - 1) = n
    BY FS_Interval
  <2>2. M - d \in Nat
    BY <1>2
  <2> QED BY <2>1, <2>2
<1> QED BY <1>5, <1>6, FS_Injection, FS_CardinalityType

\* No cut separates the nodes of the ring.
LEMMA RingIsInOnePiece ==
  ASSUME NEW S \in Nat, NEW R \in Nat, R > 0, R <= S, NEW d \in Nat, d > 0, d <= R,
         NEW g, \A i, r \in 0 .. S - 1 : <<i, r>> \in g <=> r \in RingTargets(S, R, d)[i]
  PROVE  Connected(g, S)
<1> SUFFICES ASSUME NEW part \in SUBSET NodeIds(S),
                    \A i \in part, r \in NodeIds(S) \ part : <<i, r>> \notin g /\ <<r, i>> \notin g
             PROVE  part \in {{}, NodeIds(S)}
  BY DEF Connected
<1>1. ASSUME NEW i \in 0 .. S - 1, NEW r \in RingTargets(S, R, d)[i]
      PROVE  r \in 0 .. S - 1 /\ (i \in part <=> r \in part)
  <2>1. r \in 0 .. S - 1
    BY RingOutDegree
  <2>2. <<i, r>> \in g
    BY <2>1
  <2> QED BY <2>1, <2>2 DEF NodeIds
<1>2. \A i \in 0 .. R - 1 : i \in part <=> 0 \in part
  <2> DEFINE T == {i \in 0 .. R - 1 : ~(i \in part <=> 0 \in part)}
  <2> SUFFICES ASSUME T # {} PROVE FALSE
    OBVIOUS
  <2>1. PICK m \in T : \A j \in T : m <= j
    <3>1. T \in SUBSET Nat
      OBVIOUS
    <3> HIDE DEF T
    <3> QED BY <3>1, NatMin
  <2> DEFINE p == m - 1
  <2>2. p \in 0 .. R - 1 /\ p + 1 = m /\ p \in 0 .. S - 1 /\ m \in 0 .. R - 1
    BY <2>1
  <2>3. p \in part <=> 0 \in part
    BY <2>1, <2>2
  <2>4. m \in RingTargets(S, R, d)[p]
    <3>1. m \in Arc(R, d, m)
      BY <2>2, ArcBeginsAtItsStart
    <3>2. ArcStart(R, d, p) = m
      BY <2>2 DEF ArcStart
    <3> HIDE DEF p
    <3>3. RingTargets(S, R, d)[p] = Arc(R, d, ArcStart(R, d, p))
      BY <2>2, RingOutDegree, SMTT(30)
    <3> QED BY <3>1, <3>2, <3>3
  <2>5. p \in part <=> m \in part
    BY <1>1, <2>2, <2>4
  <2> QED BY <2>1, <2>3, <2>5
<1>3. \A i \in 0 .. S - 1 : i \in part <=> 0 \in part
  <2>1. SUFFICES ASSUME NEW i \in 0 .. S - 1 PROVE i \in part <=> 0 \in part
    OBVIOUS
  <2>2. RingTargets(S, R, d)[i] # {} /\ RingTargets(S, R, d)[i] \subseteq 0 .. R - 1
    <3>1. Cardinality(RingTargets(S, R, d)[i]) = d
      BY RingOutDegree, SMTT(30)
    <3>2. RingTargets(S, R, d)[i] \subseteq 0 .. R - 1
      BY RingOutDegree, SMTT(30)
    <3>3. Cardinality({}) = 0 /\ d # 0
      BY FS_EmptySet
    <3> QED BY <3>1, <3>2, <3>3
  <2>3. PICK r \in RingTargets(S, R, d)[i] : r \in 0 .. R - 1
    BY <2>2
  <2> QED BY <1>1, <1>2, <2>3
<1> QED BY <1>3 DEF NodeIds

\* A request that passes validate_args is answered by the ring.
LEMMA AcceptedIsAnswerable ==
  ASSUME NEW a \in ArgType, ArgsAccepted(a)
  PROVE  Answerable(a)
<1> DEFINE S == a.size
           R == a.reachable
           d == a.outbound + a.recon
           M == a.maxInbound
           targets == RingTargets(S, R, d)
           g == {e \in NodeIds(S) \X NodeIds(S) : e[2] \in targets[e[1]]}
<1>0. RingFits(S, R, d, M)
  BY DEF ArgType, ArgsAccepted, RingFits
<1> HIDE DEF S, R, d, M
<1>1. /\ S \in Nat /\ R \in Nat /\ R > 0 /\ R <= S /\ d \in Nat /\ d > 0 /\ 2 * d + 1 <= R /\ d <= R
      /\ M \in Int /\ R * M >= S * d
  BY <1>0 DEF RingFits
<1>2. targets \in [NodeIds(S) -> {T \in SUBSET (0 .. R - 1) : Cardinality(T) = d}]
  <2>1. \A i \in 0 .. S - 1 : targets[i] \subseteq 0 .. R - 1 /\ Cardinality(targets[i]) = d
    BY <1>1, RingOutDegree
  <2>2. targets = [i \in NodeIds(S) |-> targets[i]]
    BY DEF NodeIds, RingTargets
  <2> HIDE DEF targets
  <2> QED BY <2>1, <2>2 DEF NodeIds
<1>3. \A i, r \in 0 .. S - 1 : <<i, r>> \in g <=> r \in targets[i]
  BY DEF NodeIds
<1> HIDE DEF g
<1>4. \A i \in 0 .. S - 1 : \A r \in targets[i] : r # i /\ r \in 0 .. R - 1 /\ i \notin targets[r]
  BY <1>1, RingIsSimple
<1>5. SimplePeering(g, S, R)
  <2>1. SUFFICES ASSUME NEW n \in 0 .. S - 1, NEW r \in 0 .. S - 1, <<n, r>> \in g
                 PROVE  r # n /\ r < R /\ <<r, n>> \notin g
    BY DEF SimplePeering, Successors, NodeIds
  <2>2. r \in targets[n]
    BY <1>3, <2>1
  <2> HIDE DEF targets
  <2>3. r # n /\ r \in 0 .. R - 1 /\ n \notin targets[r]
    BY <1>4, <2>2
  <2>4. <<r, n>> \notin g
    BY <1>3, <2>3
  <2> QED BY <1>1, <2>3, <2>4
<1>6. \A r \in NodeIds(S) : InDegree(g, S, r) <= M
  <2>1. SUFFICES ASSUME NEW r \in 0 .. S - 1 PROVE InDegree(g, S, r) <= M
    BY DEF NodeIds
  <2> DEFINE P == Predecessors(g, S, r)
             A == {i \in 0 .. R - 1 : r \in targets[i]}
             B == {i \in R .. S - 1 : r \in targets[i]}
  <2>2. P = {i \in 0 .. S - 1 : r \in targets[i]}
    BY <1>3 DEF Predecessors, NodeIds
  <2>3. CASE r < R
    <3>1. P = A \cup B
      <4>1. 0 .. S - 1 = (0 .. R - 1) \cup (R .. S - 1)
        BY <1>1
      <4> HIDE DEF P, targets
      <4> QED BY <2>2, <4>1
    <3>2. r \in 0 .. R - 1
      BY <1>1, <2>3
    <3>3. IsFiniteSet(A) /\ Cardinality(A) <= d /\ Cardinality(A) \in Nat
      <4> HIDE DEF A
      <4>1. A = {i \in 0 .. R - 1 : r \in RingTargets(S, R, d)[i]}
        BY DEF A
      <4> QED BY <1>1, <3>2, <4>1, RingPredecessors
    <3>4. IsFiniteSet(B) /\ Cardinality(B) <= M - d /\ Cardinality(B) \in Nat
      <4> HIDE DEF B
      <4>1. B = {i \in R .. S - 1 : r \in RingTargets(S, R, d)[i]}
        BY DEF B
      <4>2. \A C : C = {i \in R .. S - 1 : r \in RingTargets(S, R, d)[i]} =>
                     IsFiniteSet(C) /\ Cardinality(C) <= M - d /\ Cardinality(C) \in Nat
        BY <1>0, <3>2, RoundRobinPredecessors
      <4> QED BY <4>1, <4>2
    <3> HIDE DEF A, B, P
    <3>5. Cardinality(A \cup B) = Cardinality(A) + Cardinality(B) - Cardinality(A \cap B)
          /\ Cardinality(A \cap B) \in Nat
      <4>1. IsFiniteSet(A \cap B)
        BY <3>3, FS_Intersection
      <4> QED BY <3>3, <3>4, <4>1, FS_Union, FS_CardinalityType
    <3> QED BY <1>1, <3>1, <3>3, <3>4, <3>5 DEF InDegree, P
  <2>4. CASE r >= R
    <3>1. P = {}
      BY <1>4, <2>2, <2>4, <1>1
    <3>2. M >= 0
      <4>1. S * d >= 0 /\ S * d \in Int
        BY <1>1
      <4>2. R * M >= 0
        BY <1>1, <4>1
      <4> QED BY <1>1, <4>2
    <3> QED BY <3>1, <3>2, FS_EmptySet DEF InDegree
  <2> QED BY <1>1, <2>3, <2>4
<1>7. Connected(g, S)
  BY <1>1, <1>3, RingIsInOnePiece
<1> QED BY <1>2, <1>5, <1>6, <1>7 DEF Answerable, g, S, R, d, M

\* A request in the documented ranges has a network exactly when validate_args
\* lets it through, for every size, degree and number of slots.
THEOREM AcceptedIffAnswerable ==
  ASSUME NEW a \in ArgType, InRange(a)
  PROVE  ArgsAccepted(a) <=> Answerable(a)
BY AnswerableIsAccepted, AcceptedIsAnswerable

\* A run ends in "rejected" only with arguments that were refused.
Refused == pc = "rejected" => ~ArgsAccepted(args)

\* No other step leads there.
LEMMA RefusedInv == Spec => []Refused
<1>1. Init => Refused
  BY DEF Init, Refused
<1>2. Refused /\ [Next]_vars => Refused'
  BY DEF Refused, Next, vars, RejectArgs, AcceptArgs, NextAttempt, ConnectNode, Advance,
         Deadlock, CheckConnected, ValidateAndWrite
<1>3. QED
  BY <1>1, <1>2, PTL DEF Spec

\* validate_args refuses nothing that has an answer and lets nothing through that
\* has none: a run rejects its arguments only when no network exists, and one that
\* starts to draw can succeed.
THEOREM ArgumentsCheckedExactly == Spec => []ArgumentCheckIsExact
<1>1. IInv /\ Refused => ArgumentCheckIsExact
  <2>1. SUFFICES ASSUME IInv, Refused PROVE ArgumentCheckIsExact
    OBVIOUS
  <2>2. args \in ArgType
    BY <2>1, ArgSpaceAssumption DEF IInv, TypeOK
  <2>3. ASSUME pc = "rejected", InRange(args) PROVE ~Answerable(args)
    BY <2>1, <2>2, <2>3, AnswerableIsAccepted DEF Refused
  <2>4. ASSUME pc = "build" PROVE Answerable(args)
    BY <2>1, <2>2, <2>4, AcceptedIsAnswerable DEF IInv, Checked
  <2>5. QED
    BY <2>3, <2>4 DEF ArgumentCheckIsExact
<1>2. QED
  BY <1>1, InductiveInvariant, RefusedInv, PTL

-----------------------------------------------------------------------------
(* The contract *)

\* One step of the generator is one step of its contract, or none.
LEMMA StepRefines == IInv /\ [Next]_vars => [Contract!Next]_(Contract!vars)
<1> SUFFICES ASSUME IInv, [Next]_vars PROVE [Contract!Next]_(Contract!vars)
  OBVIOUS
<1> USE DEF Contract!vars
<1>1. CASE RejectArgs
  BY <1>1 DEF RejectArgs, Contract!Next, Contract!Refuse
<1>2. CASE AcceptArgs
  BY <1>2 DEF AcceptArgs, NextAttempt, Contract!Next, Contract!Refuse
<1>3. CASE ConnectNode
  <2>1. pc = "build" /\ pc' \in {"build", "check"} /\ args' = args
    BY <1>3 DEF ConnectNode, Advance
  <2>2. QED
    BY <2>1
<1>4. CASE Deadlock
  BY <1>4 DEF Deadlock, NextAttempt, Contract!Next, Contract!Refuse
<1>5. CASE CheckConnected
  BY <1>5 DEF CheckConnected, NextAttempt, Contract!Next, Contract!Refuse
<1>6. CASE ValidateAndWrite
  <2>1. IsPeerNetwork(addnode, addconnection, args)
    BY <1>6, KeptGraphIsValid DEF ValidateAndWrite
  <2>2. /\ pc = "validate_graph" /\ pc' = "written" /\ args' = args
        /\ addnode' = addnode /\ addconnection' = addconnection
    BY <1>6, <2>1 DEF ValidateAndWrite
  <2>3. Contract!Publish
    BY <2>1, <2>2 DEF Contract!Publish
  <2>4. QED
    BY <2>3 DEF Contract!Next
<1>7. CASE UNCHANGED vars
  BY <1>7 DEF vars
<1>8. QED
  BY <1>1, <1>2, <1>3, <1>4, <1>5, <1>6, <1>7 DEF Next

\* The generator implements its contract: one answer per run, and a network that
\* was published satisfies every assertion of validate_graph.
THEOREM GeneratorImplementsContract == Spec => ImplementsContract
<1>1. Init => Contract!Init
  BY DEF Init, Contract!Init, Contract!NoNetwork
<1>2. QED
  BY <1>1, StepRefines, InductiveInvariant, PTL DEF Spec, ImplementsContract, Contract!Spec
=============================================================================
