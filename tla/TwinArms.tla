------------------------------ MODULE TwinArms ------------------------------
(***************************************************************************)
(* utils/create_eclipse_network.py: three networks for one experiment,     *)
(* control, relay and recon.  Each is an honest mesh of create_network.py  *)
(* drawn with a generator of its own that starts from the same seed, and   *)
(* an overlay of blackholes and a victim drawn once, from the next seed.   *)
(*                                                                         *)
(* A seed is a tape of numbers and a draw uses the next one: what matters  *)
(* of random.Random is that a sample depends on the seed, on the number of *)
(* draws before it and on what it is drawn from.                           *)
(***************************************************************************)
EXTENDS PeerGraph, SequencesExt

CONSTANTS
  Honest, Reachable,     \* --honest, --reachable
  Outbound, Extras,      \* --outbound, --extras
  MaxInbound,            \* the 125 slots honest_mesh validates against
  MaxAttempts,           \* its 500 attempts
  Seeds                  \* [mesh, overlay]: the tapes of --seed and of its successor

ASSUME CommandLine ==
  /\ {Honest, Reachable, Outbound, Extras, MaxInbound, MaxAttempts} \subseteq Nat
  /\ Outbound \in 1 .. 8 /\ MaxAttempts > 0
  /\ 2 * (Outbound + Extras) + 1 <= Reachable /\ Reachable <= Honest
  /\ Reachable * MaxInbound >= Honest * (Outbound + Extras)

VARIABLES
  seed,
  pc,         \* the arm that is built or written next, then "done" or "error"
  rng,        \* draws taken from the generator honest_mesh was given
  arms,       \* the honest mesh of each arm: its edges and the attempts it took
  files       \* the network.yaml of each arm, as edges between names

vars == <<seed, pc, rng, arms, files>>

Arms == <<"control", "relay", "recon">>
arm_type == [control |-> "none", relay |-> "outbound-full-relay", recon |-> "outbound-full-recon"]
ExtrasOf(arm) == IF arm = "control" THEN 0 ELSE Extras
blackhole(i) == Honest + i - 1
victim == Honest + Outbound
AllNodes == 0 .. victim

\* Random.sample, in the order it returns the members.
Sample(tape, i, pool, k) ==
  LET member[rank \in 0 .. Cardinality(pool) - 1] ==
        CHOOSE r \in pool : Cardinality({q \in pool : q < r}) = rank
  IN [j \in 1 .. k |-> member[(tape[(i % Len(tape)) + 1] + j) % Cardinality(pool)]]

\* try_build_graph, node after node: first the manual edges, then the others.
Draw(tape, extras, mesh, step) ==
  LET graph == mesh.addnode \cup mesh.addconnection
      pool == {r \in 0 .. Reachable - 1 :
                 /\ r # step.node /\ <<step.node, r>> \notin graph /\ <<r, step.node>> \notin graph
                 /\ InDegree(graph, Honest, r) < MaxInbound}
      k == IF step.manual THEN Outbound ELSE extras
      edges == {step.node} \X ToSet(Sample(tape, mesh.pos, pool, k))
  IN IF ~mesh.ok \/ Cardinality(pool) < k
       THEN [mesh EXCEPT !.ok = FALSE]
     ELSE IF step.manual
       THEN [mesh EXCEPT !.addnode = @ \cup edges, !.pos = @ + 1]
       ELSE [mesh EXCEPT !.addconnection = @ \cup edges, !.pos = @ + 1]

\* Faulty variant: both kinds of edges of a node before the next node.
PassesByNode ==
  [i \in 1 .. 2 * Honest |-> [node |-> (i - 1) \div 2, manual |-> i % 2 = 1]]

Passes ==
  [i \in 1 .. 2 * Honest |-> [node |-> (i - 1) % Honest, manual |-> i <= Honest]]

\* build_network: attempts on one generator until a graph is in one piece.
BuildNetwork(tape, start, extras) ==
  LET Attempt(pos) ==
        FoldLeft(LAMBDA mesh, step : Draw(tape, extras, mesh, step),
                 [ok |-> TRUE, pos |-> pos, addnode |-> {}, addconnection |-> {}], Passes)
      Good(mesh) == mesh.ok /\ Connected(mesh.addnode \cup mesh.addconnection, Honest)
      upto[n \in 1 .. MaxAttempts] ==
        IF n = 1 THEN [mesh |-> Attempt(start), attempts |-> 1]
        ELSE IF Good(upto[n - 1].mesh) THEN upto[n - 1]
        ELSE [mesh |-> Attempt(upto[n - 1].mesh.pos), attempts |-> n]
      last == upto[MaxAttempts]
  IN [mesh |-> last.mesh, attempts |-> last.attempts, found |-> Good(last.mesh)]

Init ==
  /\ seed \in Seeds
  /\ pc = "control"
  /\ rng = 0
  /\ arms = <<>>
  /\ files = <<>>

Following(arm) == IF arm = "recon" THEN "recon" ELSE IF arm = "relay" THEN "recon" ELSE "relay"

\* honest_mesh(..., Random(args.seed)) of one arm; InfeasibleNetwork ends the run.
BuildArm ==
  /\ pc \in ToSet(Arms) /\ pc \notin DOMAIN arms
  /\ LET built == BuildNetwork(seed.mesh, 0, ExtrasOf(pc))
     IN /\ rng' = built.mesh.pos
        /\ arms' = [arm \in DOMAIN arms \cup {pc} |-> IF arm = pc THEN built ELSE arms[arm]]
        /\ pc' = IF ~built.found THEN "error" ELSE IF pc = "recon" THEN "control" ELSE Following(pc)
  /\ UNCHANGED <<seed, files>>

\* bh_targets and victim_extra, the same for every arm.
Overlay(arm) ==
  [targets |-> [i \in 1 .. Outbound |->
                  Sample(seed.overlay, i, 0 .. Reachable - 1, Outbound + Extras)],
   lifeline |-> Sample(seed.overlay, Outbound + 1, 0 .. Reachable - 1, Extras)]

\* The blackholes' links into the mesh, and the victim's: the baseline to the
\* blackholes, the lifeline to honest nodes except in the control arm.
OverlayEdges(arm) ==
  LET o == Overlay(arm)
      first(i) == {o.targets[i][j] : j \in 1 .. Outbound}
      rest(i) == {o.targets[i][j] : j \in Outbound + 1 .. Outbound + Extras}
  IN [addnode |-> UNION {{blackhole(i)} \X first(i) : i \in 1 .. Outbound}
                    \cup ({victim} \X {blackhole(i) : i \in 1 .. Outbound}),
      addconnection |->
        IF arm = "control" THEN {}
        ELSE UNION {{blackhole(i)} \X rest(i) : i \in 1 .. Outbound}
               \cup ({victim} \X ToSet(o.lifeline))]

\* write_network_yaml, of an arm that is built.
FileOf(arm) ==
  [addnode |-> arms[arm].mesh.addnode \cup OverlayEdges(arm).addnode,
   addconnection |-> arms[arm].mesh.addconnection \cup OverlayEdges(arm).addconnection,
   type |-> arm_type[arm]]

WriteArm ==
  /\ pc \in ToSet(Arms) /\ DOMAIN arms = ToSet(Arms)
  /\ files' = [arm \in DOMAIN files \cup {pc} |->
                 IF arm = pc THEN FileOf(pc) ELSE files[arm]]
  /\ pc' = IF pc = "recon" THEN "done" ELSE Following(pc)
  /\ UNCHANGED <<seed, rng, arms>>

Next == BuildArm \/ WriteArm

Spec == Init /\ [][Next]_vars

-----------------------------------------------------------------------------
(* Properties *)

\* "relay and recon share the honest graph and wiring, differing only in link
\* type" (create_eclipse_network.py:11), however many attempts the mesh takes;
\* the control arm is theirs without the extras as long as no mesh had to be
\* drawn again: only a retry makes the arms differ in their baseline.
ArmsAreTwins ==
  /\ {"relay", "recon"} \subseteq DOMAIN files =>
       /\ files["relay"].addnode = files["recon"].addnode
       /\ files["relay"].addconnection = files["recon"].addconnection
       /\ files["relay"].type # files["recon"].type
  /\ (\A arm \in DOMAIN files : arms[arm].attempts = 1) =>
       \A arm1, arm2 \in DOMAIN files : files[arm1].addnode = files[arm2].addnode
=============================================================================
