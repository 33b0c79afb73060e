------------------------------ MODULE Topology ------------------------------
(***************************************************************************)
(* utils/create_network.py: one run of the network generator.  The process *)
(* checks its arguments, makes up to max_attempts randomised attempts at a *)
(* graph, validates the graph it keeps and writes it.  Random sampling is  *)
(* a nondeterministic choice of targets.                                   *)
(*                                                                         *)
(* An attempt connects the nodes in order, twice: the first pass opens     *)
(* `outbound` manual edges per node (addnode), the second `recon` edges    *)
(* (addconnection).  Both passes share one simple graph.                   *)
(***************************************************************************)
EXTENDS PeerGraph

CONSTANT ArgSpace   \* the command lines the generator may be run with

ArgType == [size : Int, reachable : Int, outbound : Int, recon : Int,
            maxInbound : Int, maxAttempts : Int]

ASSUME ArgSpaceAssumption == ArgSpace \subseteq ArgType

VARIABLES
  args,           \* the command line of this run
  pc,             \* where main() is
  attempt,        \* the loop variable of build_network
  manual,         \* TRUE in the addnode pass, FALSE in the addconnection pass
  node,           \* node_id, the node that connects next
  addnode,        \* the edges drawn with manual=True
  addconnection   \* the edges drawn with manual=False

vars == <<args, pc, attempt, manual, node, addnode, addconnection>>

Running == {"validate_args", "build", "check", "validate_graph"}
Ended == {"written", "rejected", "gave_up", "assertion_error"}

graph == addnode \cup addconnection
degree == IF manual THEN args.outbound ELSE args.recon

\* Faulty variant: the two pigeonhole bounds confused for one.
ArgsAcceptedLoose(a) ==
  /\ a.size > 0 /\ a.outbound > 0 /\ a.recon >= 0
  /\ 0 < a.reachable /\ a.reachable <= a.size
  /\ a.reachable >= 2 * (a.outbound + a.recon)
  /\ a.reachable * a.maxInbound >= a.size * (a.outbound + a.recon)

\* validate_args: the combinations it lets through.
ArgsAccepted(a) ==
  /\ a.size > 0
  /\ a.outbound > 0
  /\ a.recon >= 0
  /\ 0 < a.reachable /\ a.reachable <= a.size
  /\ a.reachable >= 2 * (a.outbound + a.recon) + 1
  /\ a.reachable * a.maxInbound >= a.size * (a.outbound + a.recon)

\* Faulty variant: the mirrored edge is not looked up.
CandidatesForgetMirror(n) ==
  {r \in 0 .. args.reachable - 1 :
     /\ r # n /\ <<n, r>> \notin graph
     /\ InDegree(graph, args.size, r) < args.maxInbound}

\* Reachable peers with a free slot that node n has no edge with yet.
Candidates(n) ==
  {r \in 0 .. args.reachable - 1 :
     /\ r # n
     /\ <<n, r>> \notin graph
     /\ <<r, n>> \notin graph
     /\ InDegree(graph, args.size, r) < args.maxInbound}

-----------------------------------------------------------------------------

Init ==
  /\ args \in ArgSpace
  /\ pc = "validate_args"
  /\ attempt = 0
  /\ manual = TRUE
  /\ node = 0
  /\ addnode = {}
  /\ addconnection = {}

\* Faulty variants: the attempts are not counted; the last graph is returned
\* when they are used up.
NextAttemptUncounted ==
  /\ manual' = TRUE /\ node' = 0 /\ addnode' = {} /\ addconnection' = {}
  /\ IF attempt < args.maxAttempts
       THEN pc' = "build" /\ UNCHANGED attempt
       ELSE pc' = "gave_up" /\ UNCHANGED attempt

NextAttemptReturnsLast ==
  IF attempt < args.maxAttempts
    THEN /\ manual' = TRUE /\ node' = 0 /\ addnode' = {} /\ addconnection' = {}
         /\ pc' = "build" /\ attempt' = attempt + 1
    ELSE pc' = "written" /\ UNCHANGED <<attempt, manual, node, addnode, addconnection>>

\* A fresh DiGraph, or InfeasibleNetwork once the attempts are used up.
NextAttempt ==
  /\ manual' = TRUE
  /\ node' = 0
  /\ addnode' = {}
  /\ addconnection' = {}
  /\ IF attempt < args.maxAttempts
       THEN pc' = "build" /\ attempt' = attempt + 1
       ELSE pc' = "gave_up" /\ UNCHANGED attempt

RejectArgs ==
  /\ pc = "validate_args"
  /\ ~ArgsAccepted(args)
  /\ pc' = "rejected"
  /\ UNCHANGED <<args, attempt, manual, node, addnode, addconnection>>

AcceptArgs ==
  /\ pc = "validate_args"
  /\ ArgsAccepted(args)
  /\ NextAttempt
  /\ UNCHANGED args

\* The pass moves to the next node, the first pass to the second one.
Advance ==
  \/ /\ node < args.size - 1
     /\ node' = node + 1
     /\ UNCHANGED <<pc, manual>>
  \/ /\ node = args.size - 1
     /\ node' = 0
     /\ manual' = FALSE
     /\ pc' = IF manual THEN pc ELSE "check"

\* rng.sample(candidates, degree) and the edges it adds.
ConnectNode ==
  /\ pc = "build"
  /\ \E targets \in SUBSET Candidates(node) :
       /\ Cardinality(targets) = degree
       /\ IF manual
            THEN addnode' = addnode \cup ({node} \X targets) /\ UNCHANGED addconnection
            ELSE addconnection' = addconnection \cup ({node} \X targets) /\ UNCHANGED addnode
  /\ Advance
  /\ UNCHANGED <<args, attempt>>

\* Too few candidates: try_build_graph returns None.
Deadlock ==
  /\ pc = "build"
  /\ Cardinality(Candidates(node)) < degree
  /\ NextAttempt
  /\ UNCHANGED args

\* Faulty variant: only `graph is not None` is tested.
CheckConnectedSkipped ==
  /\ pc = "check"
  /\ pc' = "validate_graph"
  /\ UNCHANGED <<args, attempt, manual, node, addnode, addconnection>>

\* build_network returns the graph only if it is in one piece.
CheckConnected ==
  /\ pc = "check"
  /\ IF Connected(graph, args.size)
       THEN /\ pc' = "validate_graph"
            /\ UNCHANGED <<attempt, manual, node, addnode, addconnection>>
       ELSE NextAttempt
  /\ UNCHANGED args

\* The assertions of validate_graph; the file is opened only after them.
ValidateAndWrite ==
  /\ pc = "validate_graph"
  /\ pc' = IF IsPeerNetwork(addnode, addconnection, args) THEN "written" ELSE "assertion_error"
  /\ UNCHANGED <<args, attempt, manual, node, addnode, addconnection>>

Next ==
  \/ RejectArgs
  \/ AcceptArgs
  \/ ConnectNode
  \/ Deadlock
  \/ CheckConnected
  \/ ValidateAndWrite

Spec == Init /\ [][Next]_vars

\* One thread, no wait in it: it is always scheduled again.
FairSpec == Spec /\ WF_vars(Next)

-----------------------------------------------------------------------------
(* Properties *)

\* Every variable keeps the kind of value the script gives it.
TypeOK ==
  /\ args \in ArgSpace
  /\ pc \in Running \cup Ended
  /\ attempt \in Nat
  /\ manual \in BOOLEAN
  /\ node \in Nat
  /\ addnode \subseteq NodeIds(args.size) \X NodeIds(args.size)
  /\ addconnection \subseteq NodeIds(args.size) \X NodeIds(args.size)

\* The assertions of validate_graph are dead code: no sequence of samples,
\* retries and passes leads build_network to return a graph that fails one.
ValidationNeverFails == pc # "assertion_error"

\* While it is being built, the graph never has a self-loop, a mirrored edge or
\* an edge to an unreachable node, and no node has more peers than slots, even
\* though the second pass draws against edges the first one left.
PartialGraphIsSound ==
  /\ SimplePeering(graph, args.size, args.reachable)
  /\ \A r \in NodeIds(args.size) :
       ArgsAccepted(args) => InDegree(graph, args.size, r) <= args.maxInbound

\* What is true of every reachable state, whatever the requests are.
\* The arguments were checked before anything is drawn.
Checked ==
  pc \notin {"validate_args", "rejected"} => ArgsAccepted(args)

\* Nodes have their whole degree in the passes behind them and nothing in the
\* passes ahead, and the two passes never draw the same edge.
PassesAreExact ==
  /\ addnode \cap addconnection = {}
  /\ manual => addconnection = {}
  /\ pc = "build" => node \in NodeIds(args.size)
  /\ pc \in {"check", "validate_graph", "written"} => ~manual
  /\ \A n \in NodeIds(args.size) :
       /\ Cardinality(Successors(addnode, args.size, n)) =
            IF manual /\ n >= node THEN 0 ELSE args.outbound
       /\ Cardinality(Successors(addconnection, args.size, n)) =
            IF manual \/ (pc = "build" /\ n >= node) THEN 0 ELSE args.recon

\* The inductive invariant behind the safety properties.
IInv ==
  /\ TypeOK
  /\ Checked
  /\ pc \in {"validate_args", "rejected", "gave_up"} => graph = {} /\ manual /\ node = 0
  /\ PassesAreExact
  /\ PartialGraphIsSound
  /\ pc \in {"validate_graph", "written"} => Connected(graph, args.size)
  /\ ValidationNeverFails

\* Some network answers the request: a choice of targets for each node, some
\* of them drawn in the second pass.
Answerable(a) ==
  \E targets \in [NodeIds(a.size) ->
                   {T \in SUBSET (0 .. a.reachable - 1) :
                      Cardinality(T) = a.outbound + a.recon}] :
    LET g == {e \in NodeIds(a.size) \X NodeIds(a.size) : e[2] \in targets[e[1]]}
    IN /\ SimplePeering(g, a.size, a.reachable)
       /\ \A r \in NodeIds(a.size) : InDegree(g, a.size, r) <= a.maxInbound
       /\ Connected(g, a.size)

\* The documented ranges of the arguments, one by one.
InRange(a) ==
  /\ a.size > 0 /\ a.outbound > 0 /\ a.recon >= 0
  /\ 0 < a.reachable /\ a.reachable <= a.size

\* validate_args is exact: a combination it rejects has no network at all ("can
\* never produce a valid graph", create_network.py:30), and every one it lets
\* through has at least one, so retrying is not hopeless.
ArgumentCheckIsExact ==
  /\ (pc = "rejected" /\ InRange(args)) => ~Answerable(args)
  /\ (pc = "build" /\ graph = {} /\ attempt = 1) => Answerable(args)

\* The retry loop is bounded: every run ends, in a file or in an error.
Terminates == <>(pc \in Ended)

\* The generator implements its contract: nothing is published before the end,
\* what is published satisfies every assertion, and a run answers once.
Contract == INSTANCE NetworkContract WITH
  IsPeerNetwork <- IsPeerNetwork,
  request <- args,
  status <- IF pc = "written" THEN "written"
            ELSE IF pc \in {"rejected", "gave_up"} THEN "error" ELSE "pending",
  published <- IF pc = "written"
                 THEN [addnode |-> addnode, addconnection |-> addconnection]
                 ELSE [addnode |-> {}, addconnection |-> {}]

ImplementsContract == Contract!Spec
=============================================================================
