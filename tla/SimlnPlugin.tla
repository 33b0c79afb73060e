---------------------------- MODULE SimlnPlugin ----------------------------
(***************************************************************************)
(* plugins/simln: processes that launch activities at the same time.  A    *)
(* launch names its helm release after the second it starts in; the chart  *)
(* makes one pod of it, whose init container waits for the file sim.json   *)
(* that the launch writes into it.                                         *)
(***************************************************************************)
EXTENDS Naturals

CONSTANTS Launches, MaxTime   \* bound on the clock

VARIABLES
  now,       \* int(time.time())
  pc,        \* per launch: where _launch_activity is
  began,     \* per launch: the second it starts in, or MaxTime + 1
  stamp,     \* per launch: its timestamp
  pod,       \* per timestamp: [phase, file], the pod simln-<timestamp>
  ran        \* per timestamp: the activity sim-cli was started with

vars == <<now, pc, began, stamp, pod, ran>>

Times == 0 .. MaxTime
None == "none"

Init ==
  /\ now = 0
  /\ pc = [l \in Launches |-> "idle"]
  /\ began = [l \in Launches |-> MaxTime + 1]
  /\ stamp = [l \in Launches |-> 0]
  /\ pod = [t \in Times |-> [phase |-> "absent", file |-> None]]
  /\ ran = [t \in Times |-> None]

Tick ==
  /\ now < MaxTime /\ now' = now + 1
  /\ UNCHANGED <<pc, began, stamp, pod, ran>>

Stamp(l) ==
  /\ pc[l] = "idle"
  /\ began' = [began EXCEPT ![l] = now]
  /\ stamp' = [stamp EXCEPT ![l] = now]
  /\ pc' = [pc EXCEPT ![l] = "helm"]
  /\ UNCHANGED <<now, pod, ran>>

\* helm upgrade --install: an upgrade of the same chart leaves its pod alone.
Helm(l) ==
  /\ pc[l] = "helm"
  /\ pod' = IF pod[stamp[l]].phase = "absent"
              THEN [pod EXCEPT ![stamp[l]] = [phase |-> "pending", file |-> None]] ELSE pod
  /\ pc' = [pc EXCEPT ![l] = "wait_for_init"]
  /\ UNCHANGED <<now, began, stamp, ran>>

PodStarts(t) ==
  /\ pod[t].phase = "pending"
  /\ pod' = [pod EXCEPT ![t].phase = "init"]
  /\ UNCHANGED <<now, pc, began, stamp, ran>>

\* Its result is not looked at: the wait may end without an init container.
WaitForInit(l) ==
  /\ pc[l] = "wait_for_init"
  /\ pc' = [pc EXCEPT ![l] = "write"]
  /\ UNCHANGED <<now, began, stamp, pod, ran>>

\* Faulty variant: the result of the write is not looked at.
WriteActivityUnchecked(l) ==
  /\ pc[l] = "write"
  /\ pod' = IF pod[stamp[l]].phase = "init" THEN [pod EXCEPT ![stamp[l]].file = l] ELSE pod
  /\ pc' = [pc EXCEPT ![l] = "launched"]
  /\ UNCHANGED <<now, began, stamp, ran>>

\* write_file_to_container into "init": the name is returned, or PluginError
\* raised when that container cannot be written to.
WriteActivity(l) ==
  /\ pc[l] = "write"
  /\ \/ /\ pod[stamp[l]].phase = "init"
        /\ pod' = [pod EXCEPT ![stamp[l]].file = l]
        /\ pc' = [pc EXCEPT ![l] = "launched"]
     \/ /\ pod[stamp[l]].phase # "init"
        /\ pc' = [pc EXCEPT ![l] = "PluginError"] /\ UNCHANGED pod
  /\ UNCHANGED <<now, began, stamp, ran>>

\* The init container finds sim.json and ends; sim-cli starts with it.
InitEnds(t) ==
  /\ pod[t].phase = "init" /\ pod[t].file # None
  /\ pod' = [pod EXCEPT ![t].phase = "running"]
  /\ ran' = [ran EXCEPT ![t] = pod[t].file]
  /\ UNCHANGED <<now, pc, began, stamp>>

Launch(l) == Stamp(l) \/ Helm(l) \/ WaitForInit(l) \/ WriteActivity(l)

Next == Tick \/ (\E l \in Launches : Launch(l)) \/ (\E t \in Times : PodStarts(t) \/ InitEnds(t))

Spec ==
  /\ Init /\ [][Next]_vars
  /\ \A l \in Launches : WF_vars(Launch(l))
  /\ \A t \in Times : WF_vars(InitEnds(t))

-----------------------------------------------------------------------------
(* Properties *)

\* Launches that start in different seconds never disturb each other, an
\* activity never runs behind the back of its launcher, and a launcher that is
\* told a name finds an activity running under it in the end.
LaunchesAreSeparate ==
  /\ [](\A l \in Launches :
         (pc[l] # "idle" /\ \A k \in Launches \ {l} : began[k] # began[l]) =>
           ran[stamp[l]] \in {l, None})
  /\ [](\A t \in Times : ran[t] # None => pc[ran[t]] = "launched")
  /\ \A l \in Launches : pc[l] = "launched" ~> ran[stamp[l]] # None
=============================================================================
