---------------------- MODULE ScenarioLifecycleProofs ----------------------
(***************************************************************************)
(* What the exit code of a scenario means, for every number of signals and *)
(* wherever they interrupt setup, the test or a shutdown.                  *)
(***************************************************************************)
EXTENDS ScenarioLifecycle, TLAPS

-----------------------------------------------------------------------------
(* The inductive invariant *)

TypeOK ==
  /\ phase \in {"setup", "start_network", "setup_done", "run", "join", "finally", "exit", "gone"}
  /\ owner \in {"main", "handler", "nobody"}
  /\ step \in {"none", "begin", "wait", "close", "join", "forget", "report"}
  /\ success \in {"unset", "PASSED", "FAILED"}
  /\ assigned \in BOOLEAN /\ loop \in {"none", "open", "closed"} /\ stopQueued \in BOOLEAN
  /\ network \in {"unstarted", "started", "running", "ended"}
  /\ helpers \in {"none", "running", "ended"}
  /\ sigterms \in Nat
  /\ interrupted \in {"none", "setup", "start_network", "setup_done", "run", "join", "finally"}
  /\ raised \in BOOLEAN
  /\ exitCode \in {-1, 0, 1}

\* There is a shutdown as long as somebody runs it, main's only in the finally
\* clause, the handler's only after a signal, none once there is an exit code.
ShutdownHasOwner ==
  /\ step = "none" <=> owner = "nobody"
  /\ owner = "main" => phase = "finally"
  /\ owner = "handler" => (InTry \/ phase = "finally") /\ sigterms > 0
  /\ phase = "finally" => owner # "nobody"
  /\ phase \in {"exit", "gone"} <=> exitCode # -1

\* An error of setup or of the test is on record until the end.
ErrorIsRecorded == raised => success = "FAILED" /\ ~InTry

\* A shutdown that has come so far has told the loop to stop, and one that
\* reports has closed it.
CloseInOrder ==
  /\ step \in {"wait", "close", "join", "forget", "report"} => stopQueued
  /\ step = "report" => loop = "none"

IInv ==
  /\ TypeOK
  /\ ShutdownHasOwner
  /\ ErrorIsRecorded
  /\ CloseInOrder
  /\ ErrorNeverExitsZero
  /\ ZeroMeansNetworkClosed

-----------------------------------------------------------------------------
(* An exception *)

\* An exception preserves the invariant wherever it leaves setup, the test or a
\* shutdown: as an error always, and as SystemExit from the end of a shutdown.
LEMMA RaiseInv ==
  ASSUME IInv, NEW kind \in {"error", "exit"}, Raise(kind), owner # "nobody" \/ InTry,
         kind = "exit" => sigterms > 0 /\ step = "report",
         raised' \in BOOLEAN, raised' = raised \/ (kind = "error" /\ InTry),
         UNCHANGED <<loopVars, network, helpers, sigterms, interrupted>>
  PROVE  IInv'
<1> USE DEF loopVars
<1>1. CASE InTry
  <2>1. /\ phase' = "finally" /\ owner' = "main" /\ step' = "begin" /\ exitCode' = exitCode
        /\ success' = IF kind = "error" THEN "FAILED" ELSE success
    BY <1>1 DEF Raise
  <2>2. exitCode = -1
    BY <1>1 DEF IInv, TypeOK, ShutdownHasOwner, InTry
  <2>3. TypeOK'
    BY <2>1 DEF IInv, TypeOK
  <2>4. ShutdownHasOwner'
    BY <2>1, <2>2 DEF ShutdownHasOwner, InTry
  <2>5. ErrorIsRecorded'
    BY <1>1, <2>1 DEF IInv, ErrorIsRecorded, InTry
  <2>6. CloseInOrder' /\ ErrorNeverExitsZero' /\ ZeroMeansNetworkClosed'
    BY <2>1, <2>2 DEF CloseInOrder, ErrorNeverExitsZero, ZeroMeansNetworkClosed
  <2>7. QED
    BY <2>3, <2>4, <2>5, <2>6 DEF IInv
<1>2. CASE ~InTry
  <2>1. /\ phase' = "exit" /\ owner' = "nobody" /\ step' = "none" /\ success' = success
        /\ exitCode' = IF kind = "error" THEN 1 ELSE 0
        /\ raised' = raised
    BY <1>2 DEF Raise
  <2>2. TypeOK'
    BY <2>1 DEF IInv, TypeOK
  <2>3. ShutdownHasOwner'
    BY <2>1 DEF ShutdownHasOwner, InTry
  <2>4. ErrorIsRecorded'
    BY <2>1 DEF IInv, ErrorIsRecorded, InTry
  <2>5. CloseInOrder' /\ ErrorNeverExitsZero' /\ ZeroMeansNetworkClosed'
    BY <2>1 DEF IInv, TypeOK, CloseInOrder, ErrorNeverExitsZero, ZeroMeansNetworkClosed
  <2>6. QED
    BY <2>2, <2>3, <2>4, <2>5 DEF IInv
<1>3. QED
  BY <1>1, <1>2

-----------------------------------------------------------------------------
(* The steps *)

\* The steps of main before its shutdown preserve the invariant: there is no
\* exit code yet and no shutdown.
LEMMA MainInv ==
  ASSUME IInv, BuildLoop \/ StartNetwork \/ MarkPassed \/ WaitForTanks \/ TanksJoined \/ TestReturns
  PROVE  IInv'
<1> USE DEF BuildLoop, StartNetwork, MarkPassed, WaitForTanks, TanksJoined, TestReturns,
            Working, InTry, loopVars, signalVars
<1>1. owner = "nobody" /\ step = "none" /\ exitCode = -1 /\ exitCode' = -1 /\ ~raised
  BY DEF IInv, TypeOK, ShutdownHasOwner, ErrorIsRecorded
<1>2. TypeOK'
  BY DEF IInv, TypeOK
<1>3. ShutdownHasOwner'
  BY <1>1 DEF IInv, ShutdownHasOwner
<1>4. ErrorIsRecorded' /\ CloseInOrder' /\ ErrorNeverExitsZero' /\ ZeroMeansNetworkClosed'
  BY <1>1 DEF ErrorIsRecorded, CloseInOrder, ErrorNeverExitsZero, ZeroMeansNetworkClosed
<1>5. QED
  BY <1>2, <1>3, <1>4 DEF IInv

\* An error of setup or of the test preserves the invariant.
LEMMA TestRaisesInv ==
  ASSUME IInv, TestRaises
  PROVE  IInv'
BY RaiseInv DEF IInv, TypeOK, TestRaises, Working, InTry, loopVars

\* A signal preserves the invariant: whatever it interrupts, its handler begins
\* a shutdown of its own.
LEMMA SigtermInv ==
  ASSUME IInv, Sigterm
  PROVE  IInv'
<1> USE DEF Sigterm, InTry, loopVars
<1>1. /\ sigterms' = sigterms + 1 /\ sigterms \in Nat /\ exitCode' = exitCode /\ exitCode = -1
      /\ owner' = "handler" /\ step' = "begin"
  BY DEF IInv, TypeOK, ShutdownHasOwner
<1>2. sigterms' \in Nat /\ sigterms' > 0
  BY <1>1
<1>3. TypeOK'
  BY <1>2 DEF IInv, TypeOK
<1>4. ShutdownHasOwner'
  BY <1>1, <1>2 DEF ShutdownHasOwner
<1>5. ErrorIsRecorded' /\ CloseInOrder' /\ ErrorNeverExitsZero' /\ ZeroMeansNetworkClosed'
  BY <1>1 DEF IInv, ErrorIsRecorded, CloseInOrder, ErrorNeverExitsZero, ZeroMeansNetworkClosed
<1>6. QED
  BY <1>3, <1>4, <1>5 DEF IInv

\* A step of a shutdown that raises nothing and does not report preserves the
\* invariant if it keeps to the order of the steps.
LEMMA GotoInv ==
  ASSUME IInv, NEW next \in {"wait", "close", "join", "forget", "report"}, Goto(next),
         owner # "nobody", stopQueued' = TRUE, loop' \in {"none", "open", "closed"},
         next = "report" => loop' = "none",
         UNCHANGED <<assigned, network, helpers, signalVars>>
  PROVE  IInv'
<1> USE DEF Goto, signalVars
<1>1. exitCode' = -1
  BY DEF IInv, TypeOK, ShutdownHasOwner, InTry
<1>2. TypeOK'
  BY DEF IInv, TypeOK
<1>3. ShutdownHasOwner' /\ ErrorIsRecorded'
  BY DEF IInv, ShutdownHasOwner, ErrorIsRecorded, InTry
<1>4. CloseInOrder' /\ ErrorNeverExitsZero' /\ ZeroMeansNetworkClosed'
  BY <1>1 DEF CloseInOrder, ErrorNeverExitsZero, ZeroMeansNetworkClosed
<1>5. QED
  BY <1>2, <1>3, <1>4 DEF IInv

\* The steps of shutdown and NetworkThread.close preserve the invariant.
LEMMA CloseInv ==
  ASSUME IInv, Begin \/ AwaitLoop \/ CloseLoop \/ JoinNetwork \/ ForgetLoop
  PROVE  IInv'
<1> USE DEF loopVars, signalVars
<1>1. /\ owner # "nobody" /\ stopQueued \in BOOLEAN /\ loop \in {"none", "open", "closed"}
      /\ step # "begin" => stopQueued = TRUE
      /\ raised \in BOOLEAN
  BY DEF IInv, TypeOK, ShutdownHasOwner, CloseInOrder, Begin, AwaitLoop, CloseLoop, JoinNetwork,
         ForgetLoop
<1>2. CASE Begin
  BY <1>1, <1>2, GotoInv, RaiseInv DEF Begin
<1>3. CASE AwaitLoop
  BY <1>1, <1>3, GotoInv, RaiseInv DEF AwaitLoop
<1>4. CASE CloseLoop
  BY <1>1, <1>4, GotoInv, RaiseInv DEF CloseLoop
<1>5. CASE JoinNetwork
  BY <1>1, <1>5, GotoInv, RaiseInv DEF JoinNetwork
<1>6. CASE ForgetLoop
  BY <1>1, <1>6, GotoInv DEF ForgetLoop
<1>7. QED
  BY <1>2, <1>3, <1>4, <1>5, <1>6

\* The report preserves the invariant: 0 comes from a status that is PASSED or
\* from the handler of a signal, and the loop is closed.
LEMMA ReportInv ==
  ASSUME IInv, Report
  PROVE  IInv'
<1> USE DEF loopVars, signalVars
<1>1. step = "report" /\ loop = "none" /\ stopQueued
  BY DEF IInv, CloseInOrder, Report
<1>2. CASE owner = "handler"
  BY <1>1, <1>2, RaiseInv DEF IInv, TypeOK, ShutdownHasOwner, Report
<1>3. CASE owner # "handler"
  <2>1. /\ exitCode' = IF success = "PASSED" THEN 0 ELSE 1
        /\ phase' = "exit" /\ owner' = "nobody" /\ step' = "none"
        /\ UNCHANGED <<success, loopVars, network, helpers, signalVars>>
    BY <1>3 DEF Report
  <2>2. TypeOK'
    BY <2>1 DEF IInv, TypeOK
  <2>3. ShutdownHasOwner' /\ CloseInOrder'
    BY <2>1 DEF ShutdownHasOwner, CloseInOrder, InTry
  <2>4. ErrorIsRecorded' /\ ErrorNeverExitsZero'
    BY <2>1 DEF IInv, ErrorIsRecorded, ErrorNeverExitsZero, InTry
  <2>5. ZeroMeansNetworkClosed'
    BY <1>1, <2>1 DEF ZeroMeansNetworkClosed
  <2>6. QED
    BY <2>2, <2>3, <2>4, <2>5 DEF IInv
<1>4. QED
  BY <1>2, <1>3

\* The other threads and the end of the process preserve the invariant.
LEMMA OthersInv ==
  ASSUME IInv, NetworkThread \/ TanksConnect \/ ProcessEnds
  PROVE  IInv'
<1> USE DEF NetworkThread, NetworkRun, NetworkStop, TanksConnect, ProcessEnds,
            mainVars, loopVars, signalVars
<1>1. TypeOK'
  BY DEF IInv, TypeOK
<1>2. ShutdownHasOwner' /\ ErrorIsRecorded'
  BY DEF IInv, ShutdownHasOwner, ErrorIsRecorded, InTry
<1>3. CloseInOrder' /\ ErrorNeverExitsZero' /\ ZeroMeansNetworkClosed'
  BY DEF IInv, CloseInOrder, ErrorNeverExitsZero, ZeroMeansNetworkClosed
<1>4. QED
  BY <1>1, <1>2, <1>3 DEF IInv

-----------------------------------------------------------------------------
(* The invariant and the properties *)

\* The invariant holds initially.
LEMMA InitInv == Init => IInv
<1> SUFFICES ASSUME Init PROVE IInv
  OBVIOUS
<1>1. TypeOK
  BY DEF Init, TypeOK
<1>2. ShutdownHasOwner /\ ErrorIsRecorded
  BY DEF Init, ShutdownHasOwner, ErrorIsRecorded, InTry
<1>3. CloseInOrder /\ ErrorNeverExitsZero /\ ZeroMeansNetworkClosed
  BY DEF Init, CloseInOrder, ErrorNeverExitsZero, ZeroMeansNetworkClosed
<1>4. QED
  BY <1>1, <1>2, <1>3 DEF IInv

\* Every step preserves the invariant.
LEMMA NextInv == IInv /\ [Next]_vars => IInv'
<1> SUFFICES ASSUME IInv, [Next]_vars PROVE IInv'
  OBVIOUS
<1>1. CASE UNCHANGED vars
  BY <1>1 DEF IInv, TypeOK, ShutdownHasOwner, ErrorIsRecorded, CloseInOrder, ErrorNeverExitsZero,
       ZeroMeansNetworkClosed, InTry, vars
<1>2. CASE MainThread
  BY <1>2, MainInv, TestRaisesInv, CloseInv, ReportInv, OthersInv DEF MainThread
<1>3. CASE NetworkThread \/ TanksConnect
  BY <1>3, OthersInv
<1>4. CASE Sigterm
  BY <1>4, SigtermInv
<1>5. QED
  BY <1>1, <1>2, <1>3, <1>4 DEF Next

\* Every conjunct of the inductive invariant holds in every reachable state.
THEOREM InductiveInvariant == Spec => []IInv
BY InitInv, NextInv, PTL DEF Spec

\* Every variable keeps its type.
THEOREM TypeCorrect == Spec => []TypeOK
BY InductiveInvariant, PTL DEF IInv

\* A scenario that failed exits with another status than 0 unless a signal came,
\* however far its shutdown got.
THEOREM NoFalseSuccess == Spec => []ErrorNeverExitsZero
BY InductiveInvariant, PTL DEF IInv

\* A scenario that exits with 0 has closed the loop of its network thread,
\* whatever signals interrupted the closing.
THEOREM CleanExit == Spec => []ZeroMeansNetworkClosed
BY InductiveInvariant, PTL DEF IInv
=============================================================================
