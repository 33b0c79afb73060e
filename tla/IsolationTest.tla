--------------------------- MODULE IsolationTest ---------------------------
(***************************************************************************)
(* What check_eclipse.py and check_blackhole.py both promise: they isolate *)
(* a victim, judge it once, and only find it reached if it heard something *)
(* after it was isolated, which takes a hole in the isolation.             *)
(***************************************************************************)
VARIABLES
  porous,    \* the victim has a peer that can tell it something
  isolated,  \* the temporary link is gone and the test proper has begun
  heard,     \* the victim has a block or transaction of the test proper
  verdict    \* "none", "isolated" or "reached"

vars == <<porous, isolated, heard, verdict>>

Init == porous \in BOOLEAN /\ ~isolated /\ ~heard /\ verdict = "none"

Isolate ==
  /\ ~isolated
  /\ isolated' = TRUE
  /\ UNCHANGED <<porous, heard, verdict>>

Hear ==
  /\ isolated /\ porous
  /\ heard' = TRUE
  /\ UNCHANGED <<porous, isolated, verdict>>

\* The victim may hear of something just after the last look at it.
Judge ==
  /\ isolated /\ verdict = "none"
  /\ verdict' \in {"isolated"} \cup IF heard THEN {"reached"} ELSE {}
  /\ UNCHANGED <<porous, isolated, heard>>

Next == Isolate \/ Hear \/ Judge

Spec == Init /\ [][Next]_vars
=============================================================================
