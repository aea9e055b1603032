----------------------------- MODULE AgentRunner -----------------------------
(***************************************************************************)
(* run_agent (agent_runner.py): the claude process, the two threads that   *)
(* drain its pipes, the watchdog, and the main thread, which polls a queue, *)
(* enforces the timeout and cleans up.                                     *)
(*                                                                         *)
(* Output is counted in lines: stdout lines 1..written went into the pipe, *)
(* 1..drained into the queue and 1..taken to the main thread, in that      *)
(* order.  The clock is one bit: late says that timeout_s has passed since *)
(* start.  A wait with a timeout of its own may give up while what it      *)
(* waits for is not there.  A process that is exiting ends within any of   *)
(* these timeouts.                                                         *)
(***************************************************************************)
EXTENDS Naturals

CONSTANTS
  MaxOut,        \* bound: stdout lines
  MaxErr,        \* bound: stderr lines
  Capacity,      \* lines a pipe holds
  MaxInterrupts  \* bound: KeyboardInterrupt and SystemExit in the main thread

ASSUME BoundsAssumption ==
  /\ MaxOut \in Nat /\ MaxErr \in Nat /\ MaxInterrupts \in Nat
  /\ Capacity \in Nat \ {0}

VARIABLES
  (* the agent and its pipes *)
  agent,       \* "none", "running", "exiting" or "dead"
  exit,        \* how it ended: "none", "ok", "error", "term" or "kill"
  signal,      \* the strongest signal it was sent: "none", "term" or "kill"
  closed,      \* it closed its stdout while running
  held,        \* a child of it holds the pipes open
  written, errWritten,
  (* the threads *)
  drained, eof,         \* stdout drainer: lines and the None put on the queue
  errDrained, errDone,  \* stderr drainer
  watchdog,    \* "off", "waiting" or "firing"
  cancelled,   \* the event _timed_out
  (* the main thread *)
  pc,
  taken,       \* lines taken from the queue
  raising,     \* exception on its way: "none", "timeout", "line" or "interrupt"
  result,      \* "none", "ok", "error", or the exception that left run_agent
  late,        \* elapsed >= timeout_s
  interrupts,
  (* history *)
  stray,       \* an interrupt came outside the try block
  fired        \* the watchdog signalled a running agent

process == <<agent, exit, signal, closed, held, written, errWritten>>
threads == <<drained, eof, errDrained, errDone, watchdog, cancelled>>
main    == <<pc, taken, raising, result, interrupts, stray>>
vars    == <<process, threads, main, late, fired>>

Ended   == agent \in {"exiting", "dead"}
Looping == {"check", "get", "poll", "term_wait", "kill_wait"}
Finally == {"cleanup", "cleanup_wait", "cleanup_kill", "cancel", "join_err", "join_out"}
-----------------------------------------------------------------------------
Init ==
  /\ agent = "none" /\ exit = "none" /\ signal = "none"
  /\ closed = FALSE /\ held = FALSE
  /\ written = 0 /\ errWritten = 0
  /\ drained = 0 /\ eof = FALSE /\ errDrained = 0 /\ errDone = FALSE
  /\ watchdog = "off" /\ cancelled = FALSE
  /\ pc = "popen" /\ taken = 0 /\ raising = "none" /\ result = "none"
  /\ late = FALSE /\ interrupts = 0 /\ stray = FALSE /\ fired = FALSE

(* The agent, whose progress nothing guarantees *)

WriteOut ==
  /\ agent = "running" /\ ~closed
  /\ written < MaxOut /\ written - drained < Capacity
  /\ written' = written + 1
  /\ UNCHANGED <<agent, exit, signal, closed, held, errWritten, threads, main, late, fired>>

WriteErr ==
  /\ agent = "running"
  /\ errWritten < MaxErr /\ errWritten - errDrained < Capacity
  /\ errWritten' = errWritten + 1
  /\ UNCHANGED <<agent, exit, signal, closed, held, written, threads, main, late, fired>>

CloseStdout ==
  /\ agent = "running"
  /\ closed' = TRUE
  /\ UNCHANGED <<agent, exit, signal, held, written, errWritten, threads, main, late, fired>>

Spawn ==
  /\ agent = "running"
  /\ held' = TRUE
  /\ UNCHANGED <<agent, exit, signal, closed, written, errWritten, threads, main, late, fired>>

ChildEnds ==
  /\ held
  /\ held' = FALSE
  /\ UNCHANGED <<agent, exit, signal, closed, written, errWritten, threads, main, late, fired>>

\* It exits by itself, or dies of a signal it does not handle.
Exits ==
  /\ agent = "running"
  /\ agent' = "exiting"
  /\ exit' \in {"ok", "error"} \cup ({signal} \ {"none"})
  /\ UNCHANGED <<signal, closed, held, written, errWritten, threads, main, late, fired>>

Dies ==
  /\ agent = "exiting"
  /\ agent' = "dead"
  /\ UNCHANGED <<exit, signal, closed, held, written, errWritten, threads, main, late, fired>>

Clock ==
  /\ ~late /\ pc \notin {"popen", "launched"}
  /\ late' = TRUE
  /\ UNCHANGED <<process, threads, main, fired>>

\* Popen.terminate, Popen.kill: an ended process is not signalled.
Send(s) ==
  /\ signal' = IF agent = "running" /\ signal # "kill" THEN s ELSE signal
  /\ UNCHANGED <<agent, exit, closed, held, written, errWritten>>
-----------------------------------------------------------------------------
(* The threads *)

DrainStdout ==
  /\ pc \notin {"popen", "launched"} /\ ~eof
  /\ \/ drained < written /\ drained' = drained + 1 /\ UNCHANGED eof
     \/ /\ drained = written /\ ~held /\ (closed \/ Ended)
        /\ eof' = TRUE /\ UNCHANGED drained
  /\ UNCHANGED <<process, errDrained, errDone, watchdog, cancelled, main, late, fired>>

\* Slip: stderr is read when the agent has ended.
DrainStderrAtEnd ==
  /\ pc \notin {"popen", "launched"} /\ ~errDone /\ Ended
  /\ \/ errDrained < errWritten /\ errDrained' = errDrained + 1 /\ UNCHANGED errDone
     \/ errDrained = errWritten /\ ~held /\ errDone' = TRUE /\ UNCHANGED errDrained
  /\ UNCHANGED <<process, drained, eof, watchdog, cancelled, main, late, fired>>

DrainStderr ==
  /\ pc \notin {"popen", "launched"} /\ ~errDone
  /\ \/ errDrained < errWritten /\ errDrained' = errDrained + 1 /\ UNCHANGED errDone
     \/ /\ errDrained = errWritten /\ ~held /\ Ended
        /\ errDone' = TRUE /\ UNCHANGED errDrained
  /\ UNCHANGED <<process, drained, eof, watchdog, cancelled, main, late, fired>>

\* Slip: the wait returns before its timeout.
WatchdogWakesEarly ==
  /\ watchdog = "waiting"
  /\ watchdog' = IF cancelled THEN "off" ELSE "firing"
  /\ UNCHANGED <<process, drained, eof, errDrained, errDone, cancelled, main, late, fired>>

\* _timed_out.wait(timeout_s): set, or not set in time.
WatchdogWakes ==
  /\ watchdog = "waiting" /\ (cancelled \/ late)
  /\ watchdog' = IF cancelled THEN "off" ELSE "firing"
  /\ UNCHANGED <<process, drained, eof, errDrained, errDone, cancelled, main, late, fired>>

WatchdogFires ==
  /\ watchdog = "firing"
  /\ Send("term")
  /\ fired' = (fired \/ agent = "running")
  /\ watchdog' = "off"
  /\ UNCHANGED <<drained, eof, errDrained, errDone, cancelled, main, late>>
-----------------------------------------------------------------------------
(* The main thread *)

Launch ==
  /\ pc = "popen"
  /\ agent' = "running" /\ pc' = "launched"
  /\ UNCHANGED <<exit, signal, closed, held, written, errWritten, threads,
                 taken, raising, result, interrupts, stray, late, fired>>

\* Threads and watchdog are started; the try block begins.
Enter ==
  /\ pc = "launched"
  /\ watchdog' = "waiting" /\ pc' = "check"
  /\ UNCHANGED <<process, drained, eof, errDrained, errDone, cancelled,
                 taken, raising, result, interrupts, stray, late, fired>>

Goto(place) ==
  /\ pc' = place
  /\ UNCHANGED <<taken, raising, result, interrupts, stray, late, fired>>

\* Slip: the head of the loop leaves the timeout to the watchdog.
CheckNothing == pc = "check" /\ Goto("get") /\ UNCHANGED <<process, threads>>

CheckTimeout ==
  /\ pc = "check"
  /\ \/ ~late /\ Goto("get") /\ UNCHANGED process
     \/ late /\ Goto("term_wait") /\ Send("term")
  /\ UNCHANGED threads

\* Slip: an empty queue yields a line.
TakeAny ==
  /\ pc = "get"
  /\ taken' = taken + 1 /\ pc' = "check"
  /\ UNCHANGED <<process, threads, raising, result, interrupts, stray, late, fired>>

TakeLine ==
  /\ pc = "get" /\ taken < drained
  /\ taken' = taken + 1
  /\ \/ pc' = "check" /\ UNCHANGED raising
     \/ pc' = "cleanup" /\ raising' = "line"      \* handling it raises
  /\ UNCHANGED <<process, threads, result, interrupts, stray, late, fired>>

TakeEof ==
  /\ pc = "get" /\ taken = drained /\ eof
  /\ Goto("cleanup")
  /\ UNCHANGED <<process, threads>>

Empty ==
  /\ pc = "get" /\ taken = drained /\ ~eof
  /\ Goto("poll")
  /\ UNCHANGED <<process, threads>>

Poll ==
  /\ pc = "poll"
  /\ Goto(IF agent = "dead" THEN "cleanup" ELSE "check")
  /\ UNCHANGED <<process, threads>>

\* _enforce_timeout after SIGTERM: wait, kill, wait, raise AgentTimeout.
TermWait ==
  /\ pc = "term_wait"
  /\ \/ /\ agent = "dead"
        /\ pc' = "cleanup" /\ raising' = "timeout" /\ UNCHANGED process
     \/ /\ agent = "running"
        /\ pc' = "kill_wait" /\ Send("kill") /\ UNCHANGED raising
  /\ UNCHANGED <<threads, taken, result, interrupts, stray, late, fired>>

KillWait ==
  /\ pc = "kill_wait" /\ agent \in {"dead", "running"}
  /\ pc' = "cleanup" /\ raising' = "timeout"
  /\ UNCHANGED <<process, threads, taken, result, interrupts, stray, late, fired>>

\* except KeyboardInterrupt: wait, kill.
InterruptWait ==
  /\ pc = "interrupt_wait"
  /\ \/ agent = "dead" /\ UNCHANGED process
     \/ agent = "running" /\ Send("kill")
  /\ Goto("cleanup")
  /\ UNCHANGED threads

\* Slip: finally without the escalation to SIGKILL.
CleanupTermOnly ==
  /\ pc = "cleanup_wait"
  /\ agent \in {"dead", "running"}
  /\ Goto("cancel")
  /\ UNCHANGED <<process, threads>>

Cleanup ==
  /\ pc = "cleanup"
  /\ \/ agent = "dead" /\ Goto("cancel") /\ UNCHANGED process
     \/ agent # "dead" /\ Goto("cleanup_wait") /\ Send("term")
  /\ UNCHANGED threads

CleanupWait ==
  /\ pc = "cleanup_wait"
  /\ \/ agent = "dead" /\ Goto("cancel") /\ UNCHANGED process
     \/ agent = "running" /\ Goto("cleanup_kill") /\ Send("kill")
  /\ UNCHANGED threads

CleanupKill ==
  /\ pc = "cleanup_kill" /\ agent \in {"dead", "running"}
  /\ Goto("cancel")
  /\ UNCHANGED <<process, threads>>

Cancel ==
  /\ pc = "cancel"
  /\ cancelled' = TRUE
  /\ Goto("join_err")
  /\ UNCHANGED <<process, drained, eof, errDrained, errDone, watchdog>>

\* The join of a thread returns, or gives up while it is alive.
JoinStderr == pc = "join_err" /\ Goto("join_out") /\ UNCHANGED <<process, threads>>

JoinStdout ==
  /\ pc = "join_out"
  /\ \/ raising = "none" /\ pc' = "final" /\ UNCHANGED result
     \/ raising # "none" /\ pc' = "done" /\ result' = raising
  /\ UNCHANGED <<process, threads, taken, raising, interrupts, stray, late, fired>>

\* Slip: the exit code alone decides.
FinalByCode ==
  /\ pc = "final" /\ agent = "dead"
  /\ pc' = "done"
  /\ result' = IF exit = "ok" THEN "ok" ELSE "error"
  /\ UNCHANGED <<process, threads, taken, raising, interrupts, stray, late, fired>>

\* The last wait, AgentTimeout by the clock, _parse_agent_output.
Final ==
  /\ pc = "final"
  /\ \/ agent = "dead" /\ UNCHANGED process
     \/ agent = "running" /\ Send("kill")
  /\ pc' = "done"
  /\ result' = IF late THEN "timeout"
               ELSE IF agent = "dead" /\ exit = "ok" THEN "ok" ELSE "error"
  /\ UNCHANGED <<threads, taken, raising, interrupts, stray, late, fired>>

\* KeyboardInterrupt (Ctrl-C) or SystemExit (the SIGTERM handler).
InterruptInTry ==
  /\ interrupts < MaxInterrupts
  /\ interrupts' = interrupts + 1
  /\ raising' = "interrupt"
  /\ \/ pc \in Looping /\ pc' = "interrupt_wait" /\ Send("term")
     \/ pc \in Looping \cup {"interrupt_wait"} /\ pc' = "cleanup" /\ UNCHANGED process
  /\ UNCHANGED <<threads, taken, result, stray, late, fired>>

InterruptOutside ==
  /\ interrupts < MaxInterrupts
  /\ pc \in Finally \cup {"launched", "final"}
  /\ interrupts' = interrupts + 1
  /\ pc' = "done" /\ result' = "interrupt" /\ stray' = TRUE
  /\ UNCHANGED <<process, threads, taken, raising, late, fired>>

-----------------------------------------------------------------------------
Agent == WriteOut \/ WriteErr \/ CloseStdout \/ Spawn \/ ChildEnds \/ Exits

Main ==
  \/ Launch \/ Enter \/ CheckTimeout \/ TakeLine \/ TakeEof \/ Empty \/ Poll
  \/ TermWait \/ KillWait \/ InterruptWait
  \/ Cleanup \/ CleanupWait \/ CleanupKill \/ Cancel \/ JoinStderr \/ JoinStdout \/ Final

Next ==
  \/ Agent \/ Dies \/ Clock
  \/ DrainStdout \/ DrainStderr \/ WatchdogWakes \/ WatchdogFires
  \/ Main \/ InterruptInTry \/ InterruptOutside

(* The threads are scheduled, and a process that is exiting ends.  The      *)
(* agent may hang, and the clock is a premise of the properties.            *)
Fairness ==
  /\ WF_vars(Main) /\ WF_vars(DrainStdout) /\ WF_vars(DrainStderr)
  /\ WF_vars(WatchdogWakes) /\ WF_vars(WatchdogFires) /\ WF_vars(Dies)

Spec == Init /\ [][Next]_vars /\ Fairness
-----------------------------------------------------------------------------
(* Every variable has its type; no line is taken before it was queued, nor  *)
(* queued before it was written.                                            *)
TypeOK ==
  /\ agent \in {"none", "running", "exiting", "dead"}
  /\ exit \in {"none", "ok", "error", "term", "kill"}
  /\ signal \in {"none", "term", "kill"}
  /\ closed \in BOOLEAN /\ held \in BOOLEAN /\ eof \in BOOLEAN /\ errDone \in BOOLEAN
  /\ {taken, drained, written, errDrained, errWritten, interrupts} \subseteq Nat
  /\ taken <= drained /\ drained <= written /\ errDrained <= errWritten
  /\ watchdog \in {"off", "waiting", "firing"} /\ cancelled \in BOOLEAN
  /\ pc \in Looping \cup Finally \cup {"popen", "launched", "interrupt_wait", "final", "done"}
  /\ raising \in {"none", "timeout", "line", "interrupt"}
  /\ result \in {"none", "ok", "error", "timeout", "line", "interrupt"}
  /\ late \in BOOLEAN /\ stray \in BOOLEAN /\ fired \in BOOLEAN

(* When run_agent is left, the agent is dead or was sent SIGKILL, whatever  *)
(* it does with SIGTERM and however the try block was left                  *)
(* (agent_runner.py:650-670).                                               *)
NoAgentLeft == pc = "done" /\ ~stray => agent = "dead" \/ signal = "kill"

(* A run whose agent the watchdog signalled is reported as a timeout, not   *)
(* by the exit code SIGTERM left (agent_runner.py:696-703).                 *)
WatchdogMeansTimeout ==
  pc = "done" /\ fired => result \notin {"ok", "error"}

(* Success and failure are the agent's own: an error is never the exit code *)
(* of a signal run_agent sent, unless the agent closed its stdout before it *)
(* ended (agent_runner.py:614-624, 658-669).                                *)
OutcomeIsTheAgents ==
  /\ result = "ok" => exit = "ok"
  /\ result = "error" /\ ~closed => exit = "error"

(* Once the timeout has passed, run_agent returns: also with a hanging      *)
(* agent, one that ignores SIGTERM, or pipes held open by its children.     *)
RunReturns == <>late => <>(pc = "done")

(* A full pipe is drained while the agent runs, so an agent with much to    *)
(* say on stderr does not hang until the timeout (agent_runner.py:5-6).     *)
Full == \/ written - drained = Capacity \/ errWritten - errDrained = Capacity
NoPipeDeadlock == []~late => [](agent = "running" /\ pc # "launched" /\ Full => <>~Full)
=============================================================================
