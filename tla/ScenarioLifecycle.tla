------------------------- MODULE ScenarioLifecycle -------------------------
(***************************************************************************)
(* One scenario process from Commander.setup to its exit code:             *)
(* BitcoinTestFramework.main, setup and shutdown, the NetworkThread that    *)
(* shutdown must close, the helper threads of wait_for_tanks_connected, and *)
(* SIGTERM, whose handler calls shutdown from wherever the main thread is. *)
(*                                                                         *)
(* Two facts of Python shape the model.  The handler always leaves by an   *)
(* exception, its own SystemExit or an error of shutdown, so whatever it   *)
(* interrupted is never resumed: the exception unwinds to main().  And the *)
(* interpreter waits for every thread that is not a daemon.                *)
(***************************************************************************)
EXTENDS Integers

CONSTANT MaxSigterms   \* bound on the signals the process receives

ASSUME MaxSigtermsAssumption == MaxSigterms \in Nat

VARIABLES
  phase,        \* where main() is
  owner,        \* who runs shutdown(): main's finally, the handler or nobody
  step,         \* where that shutdown() is
  success,      \* self.success, unset until setup ends
  assigned,     \* self.network_thread is not None
  loop,         \* NetworkThread.network_event_loop
  stopQueued,   \* loop.stop has been scheduled on it
  network,      \* the NetworkThread
  helpers,      \* the threads of wait_for_tanks_connected
  sigterms,     \* signals received so far
  interrupted,  \* history: the phase the first signal came in
  raised,       \* history: setup or the test raised an error
  exitCode      \* of the process, -1 before it has one

vars == <<phase, owner, step, success, assigned, loop, stopQueued, network, helpers, sigterms,
          interrupted, raised, exitCode>>
mainVars == <<phase, owner, step, success, exitCode>>
loopVars == <<assigned, loop, stopQueued>>
signalVars == <<sigterms, interrupted, raised>>

InTry == phase \in {"setup", "start_network", "setup_done", "run", "join"}
Working == InTry /\ owner = "nobody"

Init ==
  /\ phase = "setup" /\ owner = "nobody" /\ step = "none"
  /\ success = "unset"
  /\ assigned = FALSE /\ loop = "none" /\ stopQueued = FALSE
  /\ network = "unstarted" /\ helpers = "none"
  /\ sigterms = 0 /\ interrupted = "none" /\ raised = FALSE /\ exitCode = -1

-----------------------------------------------------------------------------
(* main: setup and run_test *)

\* Faulty variant: the except clauses log and leave the status alone.
RaiseLogged(kind) ==
  IF InTry
    THEN /\ phase' = "finally" /\ owner' = "main" /\ step' = "begin"
         /\ UNCHANGED <<success, exitCode>>
    ELSE /\ phase' = "exit" /\ owner' = "nobody" /\ step' = "none"
         /\ exitCode' = IF kind = "error" THEN 1 ELSE 0
         /\ UNCHANGED success

\* An exception reaches main().  In its try, an error becomes FAILED, SystemExit
\* passes, and the finally clause shuts down; in the finally clause it ends the
\* process, with traceback and status 1 or with the status of sys.exit(0).
Raise(kind) ==
  IF InTry
    THEN /\ phase' = "finally" /\ owner' = "main" /\ step' = "begin"
         /\ success' = IF kind = "error" THEN "FAILED" ELSE success
         /\ UNCHANGED exitCode
    ELSE /\ phase' = "exit" /\ owner' = "nobody" /\ step' = "none"
         /\ exitCode' = IF kind = "error" THEN 1 ELSE 0
         /\ UNCHANGED success

\* setup() after signal.signal: the tanks, the directory, then NetworkThread().
BuildLoop ==
  /\ Working /\ phase = "setup"
  /\ assigned' = TRUE /\ loop' = "open"
  /\ phase' = "start_network"
  /\ UNCHANGED <<owner, step, success, exitCode, stopQueued, network, helpers, signalVars>>

StartNetwork ==
  /\ Working /\ phase = "start_network"
  /\ network' = "started"
  /\ phase' = "setup_done"
  /\ UNCHANGED <<owner, step, success, exitCode, loopVars, helpers, signalVars>>

MarkPassed ==
  /\ Working /\ phase = "setup_done"
  /\ success' = "PASSED"
  /\ phase' = "run"
  /\ UNCHANGED <<owner, step, exitCode, loopVars, network, helpers, signalVars>>

\* wait_for_tanks_connected: start the helpers, then join them.
WaitForTanks ==
  /\ Working /\ phase = "run" /\ helpers = "none"
  /\ helpers' = "running"
  /\ phase' = "join"
  /\ UNCHANGED <<owner, step, success, exitCode, loopVars, network, signalVars>>

TanksJoined ==
  /\ Working /\ phase = "join" /\ helpers = "ended"
  /\ phase' = "run"
  /\ UNCHANGED <<owner, step, success, exitCode, loopVars, network, helpers, signalVars>>

\* run_test returns, or something in the try clause raises.
TestReturns ==
  /\ Working /\ phase = "run"
  /\ phase' = "finally" /\ owner' = "main" /\ step' = "begin"
  /\ UNCHANGED <<success, exitCode, loopVars, network, helpers, signalVars>>

TestRaises ==
  /\ Working /\ phase # "join"
  /\ Raise("error")
  /\ raised' = TRUE
  /\ UNCHANGED <<loopVars, network, helpers, sigterms, interrupted>>

\* handle_sigterm interrupts the main thread, even in a shutdown.
Sigterm ==
  /\ InTry \/ phase = "finally"
  /\ sigterms < MaxSigterms
  /\ sigterms' = sigterms + 1
  /\ interrupted' = IF sigterms = 0 THEN phase ELSE interrupted
  /\ owner' = "handler" /\ step' = "begin"
  /\ UNCHANGED <<phase, success, exitCode, loopVars, network, helpers, raised>>

-----------------------------------------------------------------------------
(* shutdown() and NetworkThread.close() *)

Goto(next) == step' = next /\ UNCHANGED <<phase, owner, success, exitCode>>

\* Faulty variants: the loop is not told to stop; it is taken for closed.
BeginWithoutStop ==
  /\ step = "begin"
  /\ IF success = "unset" \/ ~assigned \/ loop # "open"
       THEN Raise("error")
       ELSE Goto("wait")
  /\ UNCHANGED <<loopVars, network, helpers, signalVars>>

BeginSkipsClose ==
  /\ step = "begin"
  /\ IF success = "unset" THEN Raise("error") ELSE Goto("report")
  /\ UNCHANGED <<loopVars, network, helpers, signalVars>>

\* self.success, self.network_thread.close and call_soon_threadsafe: each fails
\* on an attribute that is missing, None, or a loop that is closed.
Begin ==
  /\ step = "begin"
  /\ IF success = "unset" \/ ~assigned \/ loop # "open"
       THEN Raise("error") /\ UNCHANGED stopQueued
       ELSE Goto("wait") /\ stopQueued' = TRUE
  /\ UNCHANGED <<assigned, loop, network, helpers, signalVars>>

\* wait_until_helper_internal: not running, or ten seconds over.
AwaitLoop ==
  /\ step = "wait"
  /\ \/ network # "running" /\ Goto("close")
     \/ network = "running" /\ Raise("error")
  /\ UNCHANGED <<loopVars, network, helpers, signalVars>>

\* loop.close() refuses a running loop: the thread may have reached
\* run_forever after the wait found the loop idle.
CloseLoop ==
  /\ step = "close"
  /\ IF network = "running"
       THEN Raise("error") /\ UNCHANGED loop
       ELSE Goto("join") /\ loop' = "closed"
  /\ UNCHANGED <<assigned, stopQueued, network, helpers, signalVars>>

\* self.join(timeout) gives up silently, but not on a thread never started.
JoinNetwork ==
  /\ step = "join"
  /\ IF network = "unstarted" THEN Raise("error") ELSE Goto("forget")
  /\ UNCHANGED <<loopVars, network, helpers, signalVars>>

ForgetLoop ==
  /\ step = "forget"
  /\ loop' = "none"
  /\ Goto("report")
  /\ UNCHANGED <<assigned, stopQueued, network, helpers, signalVars>>

\* The rest of shutdown: no tank is stopped (node.running is never set), the
\* status becomes an exit code.  The handler drops it and calls sys.exit(0).
Report ==
  /\ step = "report"
  /\ IF owner = "handler"
       THEN Raise("exit")
       ELSE /\ exitCode' = IF success = "PASSED" THEN 0 ELSE 1
            /\ phase' = "exit" /\ owner' = "nobody" /\ step' = "none"
            /\ UNCHANGED success
  /\ UNCHANGED <<loopVars, network, helpers, signalVars>>

-----------------------------------------------------------------------------
(* The other threads and the end of the process *)

\* NetworkThread.run: run_forever on an open loop, an exception on any other.
NetworkRun ==
  /\ network = "started"
  /\ network' = IF loop = "open" THEN "running" ELSE "ended"
  /\ UNCHANGED <<mainVars, loopVars, helpers, signalVars>>

NetworkStop ==
  /\ network = "running" /\ stopQueued
  /\ network' = "ended"
  /\ UNCHANGED <<mainVars, loopVars, helpers, signalVars>>

\* Every tank has its manual peers.
TanksConnect ==
  /\ helpers = "running"
  /\ helpers' = "ended"
  /\ UNCHANGED <<mainVars, loopVars, network, signalVars>>

ProcessEnds ==
  /\ phase = "exit"
  /\ network \in {"unstarted", "ended"}
  /\ helpers # "running"
  /\ phase' = "gone"
  /\ UNCHANGED <<owner, step, success, exitCode, loopVars, network, helpers, signalVars>>

MainThread ==
  \/ BuildLoop
  \/ StartNetwork
  \/ MarkPassed
  \/ WaitForTanks
  \/ TanksJoined
  \/ TestReturns
  \/ TestRaises
  \/ Begin
  \/ AwaitLoop
  \/ CloseLoop
  \/ JoinNetwork
  \/ ForgetLoop
  \/ Report
  \/ ProcessEnds

NetworkThread == NetworkRun \/ NetworkStop

Next == MainThread \/ NetworkThread \/ TanksConnect \/ Sigterm

Spec == Init /\ [][Next]_vars

\* Threads are scheduled again.  Nothing is assumed of the tanks.
FairSpec == Spec /\ WF_vars(MainThread) /\ WF_vars(NetworkThread)

-----------------------------------------------------------------------------
(* Properties *)

\* An error in setup or in the test is never reported as 0, unless a signal cuts
\* into the shutdown that follows.
ErrorNeverExitsZero == exitCode = 0 => ~raised \/ sigterms > 0

\* A process that exits with 0 went through a whole NetworkThread.close, with
\* or without signals on the way.
ZeroMeansNetworkClosed == exitCode = 0 => loop = "none" /\ stopQueued

\* However shutdown is interrupted, restarted or fails half-way, the network
\* thread never keeps the process from ending.  Only tanks that never connect
\* do: the threads of wait_for_tanks_connected have no deadline.
Terminates == []<>(helpers # "running") => <>(phase = "gone")

\* handle_sigterm shuts down and calls sys.exit(0) (commander.py:146-149): one
\* signal to a running test, followed by a shutdown that goes through, ends the
\* process with status 0.
SigtermExitsZero ==
  (phase = "gone" /\ interrupted = "run" /\ sigterms = 1 /\ loop = "none") => exitCode = 0
=============================================================================
