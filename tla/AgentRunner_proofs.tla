------------------------- MODULE AgentRunner_proofs -------------------------
(***************************************************************************)
(* Theorems about AgentRunner, for any number of lines, pipe capacity and  *)
(* number of interrupts.                                                   *)
(***************************************************************************)
EXTENDS AgentRunner, TLAPS

\* The agent exists from Popen on, and has an exit exactly when it ended.
AgentLife ==
  /\ pc = "popen" <=> agent = "none"
  /\ exit = "none" <=> agent \in {"none", "running"}
  /\ exit \in {"term", "kill"} => signal # "none"

\* Past the cleanup the agent is dead or was sent SIGKILL.
Escalated ==
  /\ pc = "cleanup_kill" => signal = "kill"
  /\ pc \in {"cancel", "join_err", "join_out", "final"} => agent = "dead" \/ signal = "kill"

\* run_agent's outcome is decided at the end, with the watchdog cancelled.
Undecided ==
  /\ pc # "done" => result = "none" /\ ~stray
  /\ pc \in {"join_err", "join_out", "final"} => cancelled
  /\ pc = "final" => raising = "none"
  /\ pc = "interrupt_wait" => raising = "interrupt"
  /\ result \in {"ok", "error"} => cancelled /\ watchdog # "firing" /\ ~fired

\* The timeout is enforced only when it has passed.
OnlyWhenLate ==
  watchdog = "firing" \/ fired \/ pc \in {"term_wait", "kill_wait"} => late

\* The loop is left without an exception only when the agent has ended or has
\* closed its stdout, so no signal of run_agent decides its exit code.
LeftAlone ==
  ~closed =>
    /\ eof => Ended
    /\ pc \in Finally \cup {"final"} /\ raising = "none" => Ended
    /\ ~late /\ raising = "none" => signal = "none"

AgentInv ==
  /\ TypeOK
  /\ AgentLife
  /\ Escalated
  /\ NoAgentLeft
  /\ Undecided
  /\ OnlyWhenLate
  /\ LeftAlone
  /\ OutcomeIsTheAgents
-----------------------------------------------------------------------------
LEMMA InitAgent == Init => AgentInv
<1> SUFFICES ASSUME Init PROVE AgentInv
  OBVIOUS
<1>1. /\ {closed, held, eof, errDone} \subseteq BOOLEAN
      /\ {cancelled, late, stray, fired} \subseteq BOOLEAN
  BY DEF Init
<1>2. TypeOK
  BY <1>1 DEF Init, TypeOK, Looping, Finally
<1>3. AgentLife /\ Escalated /\ NoAgentLeft /\ Undecided /\ OnlyWhenLate
  BY DEF Init, AgentLife, Escalated, NoAgentLeft, Undecided, OnlyWhenLate
<1>4. LeftAlone /\ OutcomeIsTheAgents
  BY DEF Init, LeftAlone, OutcomeIsTheAgents, Ended, Finally
<1> QED
  BY <1>2, <1>3, <1>4 DEF AgentInv

LEMMA NextAgent == AgentInv /\ [Next]_vars => AgentInv'
<1> SUFFICES ASSUME AgentInv, [Next]_vars PROVE AgentInv'
  OBVIOUS
<1> USE BoundsAssumption DEF AgentInv, TypeOK, Looping, Finally, Ended, process, threads, main
<1>1. CASE WriteOut
  <2>1. TypeOK'
    BY <1>1 DEF WriteOut
  <2>2. AgentLife' /\ Escalated' /\ NoAgentLeft'
    BY <1>1 DEF WriteOut, AgentLife, Escalated, NoAgentLeft, Undecided
  <2>3. Undecided' /\ OnlyWhenLate'
    BY <1>1 DEF WriteOut, AgentLife, Undecided, OnlyWhenLate
  <2>4. LeftAlone' /\ OutcomeIsTheAgents'
    BY <1>1 DEF WriteOut, AgentLife, Undecided, OnlyWhenLate, LeftAlone, OutcomeIsTheAgents
  <2> QED
    BY <2>1, <2>2, <2>3, <2>4
<1>2. CASE WriteErr
  <2>1. TypeOK'
    BY <1>2 DEF WriteErr
  <2>2. AgentLife' /\ Escalated' /\ NoAgentLeft'
    BY <1>2 DEF WriteErr, AgentLife, Escalated, NoAgentLeft, Undecided
  <2>3. Undecided' /\ OnlyWhenLate'
    BY <1>2 DEF WriteErr, AgentLife, Undecided, OnlyWhenLate
  <2>4. LeftAlone' /\ OutcomeIsTheAgents'
    BY <1>2 DEF WriteErr, AgentLife, Undecided, OnlyWhenLate, LeftAlone, OutcomeIsTheAgents
  <2> QED
    BY <2>1, <2>2, <2>3, <2>4
<1>3. CASE CloseStdout
  <2>1. TypeOK'
    BY <1>3 DEF CloseStdout
  <2>2. AgentLife' /\ Escalated' /\ NoAgentLeft'
    BY <1>3 DEF CloseStdout, AgentLife, Escalated, NoAgentLeft, Undecided
  <2>3. Undecided' /\ OnlyWhenLate'
    BY <1>3 DEF CloseStdout, AgentLife, Undecided, OnlyWhenLate
  <2>4. LeftAlone' /\ OutcomeIsTheAgents'
    BY <1>3 DEF CloseStdout, AgentLife, Undecided, OnlyWhenLate, LeftAlone, OutcomeIsTheAgents
  <2> QED
    BY <2>1, <2>2, <2>3, <2>4
<1>4. CASE Spawn
  <2>1. TypeOK'
    BY <1>4 DEF Spawn
  <2>2. AgentLife' /\ Escalated' /\ NoAgentLeft'
    BY <1>4 DEF Spawn, AgentLife, Escalated, NoAgentLeft, Undecided
  <2>3. Undecided' /\ OnlyWhenLate'
    BY <1>4 DEF Spawn, AgentLife, Undecided, OnlyWhenLate
  <2>4. LeftAlone' /\ OutcomeIsTheAgents'
    BY <1>4 DEF Spawn, AgentLife, Undecided, OnlyWhenLate, LeftAlone, OutcomeIsTheAgents
  <2> QED
    BY <2>1, <2>2, <2>3, <2>4
<1>5. CASE ChildEnds
  <2>0. held' \in BOOLEAN
    BY <1>5, Zenon DEF ChildEnds
  <2>1. TypeOK'
    BY <1>5, <2>0 DEF ChildEnds
  <2>2. AgentLife' /\ Escalated' /\ NoAgentLeft'
    BY <1>5 DEF ChildEnds, AgentLife, Escalated, NoAgentLeft, Undecided
  <2>3. Undecided' /\ OnlyWhenLate'
    BY <1>5 DEF ChildEnds, AgentLife, Undecided, OnlyWhenLate
  <2>4. LeftAlone' /\ OutcomeIsTheAgents'
    BY <1>5 DEF ChildEnds, AgentLife, Undecided, OnlyWhenLate, LeftAlone, OutcomeIsTheAgents
  <2> QED
    BY <2>1, <2>2, <2>3, <2>4
<1>6. CASE Exits
  <2>1. TypeOK'
    BY <1>6 DEF Exits
  <2>2. AgentLife' /\ Escalated' /\ NoAgentLeft'
    BY <1>6 DEF Exits, AgentLife, Escalated, NoAgentLeft, Undecided
  <2>3. Undecided' /\ OnlyWhenLate'
    BY <1>6 DEF Exits, AgentLife, Undecided, OnlyWhenLate
  <2>4. LeftAlone' /\ OutcomeIsTheAgents'
    BY <1>6 DEF Exits, AgentLife, Undecided, OnlyWhenLate, LeftAlone, OutcomeIsTheAgents
  <2> QED
    BY <2>1, <2>2, <2>3, <2>4
<1>7. CASE Dies
  <2>1. TypeOK'
    BY <1>7 DEF Dies
  <2>2. AgentLife' /\ Escalated' /\ NoAgentLeft'
    BY <1>7 DEF Dies, AgentLife, Escalated, NoAgentLeft, Undecided
  <2>3. Undecided' /\ OnlyWhenLate'
    BY <1>7 DEF Dies, AgentLife, Undecided, OnlyWhenLate
  <2>4. LeftAlone' /\ OutcomeIsTheAgents'
    BY <1>7 DEF Dies, AgentLife, Undecided, OnlyWhenLate, LeftAlone, OutcomeIsTheAgents
  <2> QED
    BY <2>1, <2>2, <2>3, <2>4
<1>8. CASE Clock
  <2>1. TypeOK'
    BY <1>8 DEF Clock
  <2>2. AgentLife' /\ Escalated' /\ NoAgentLeft'
    BY <1>8 DEF Clock, AgentLife, Escalated, NoAgentLeft, Undecided
  <2>3. Undecided' /\ OnlyWhenLate'
    BY <1>8 DEF Clock, AgentLife, Undecided, OnlyWhenLate
  <2>4. LeftAlone' /\ OutcomeIsTheAgents'
    BY <1>8 DEF Clock, AgentLife, Undecided, OnlyWhenLate, LeftAlone, OutcomeIsTheAgents
  <2> QED
    BY <2>1, <2>2, <2>3, <2>4
<1>9. CASE DrainStdout
  <2>0. eof' \in BOOLEAN
    BY <1>9, Zenon DEF DrainStdout
  <2>1. TypeOK'
    BY <1>9, <2>0 DEF DrainStdout
  <2>2. AgentLife' /\ Escalated' /\ NoAgentLeft'
    BY <1>9 DEF DrainStdout, AgentLife, Escalated, NoAgentLeft, Undecided
  <2>3. Undecided' /\ OnlyWhenLate'
    BY <1>9 DEF DrainStdout, AgentLife, Undecided, OnlyWhenLate
  <2>4. LeftAlone' /\ OutcomeIsTheAgents'
    BY <1>9 DEF DrainStdout, AgentLife, Undecided, OnlyWhenLate, LeftAlone, OutcomeIsTheAgents
  <2> QED
    BY <2>1, <2>2, <2>3, <2>4
<1>10. CASE DrainStderr
  <2>0. errDone' \in BOOLEAN
    BY <1>10, Zenon DEF DrainStderr
  <2>1. TypeOK'
    BY <1>10, <2>0 DEF DrainStderr
  <2>2. AgentLife' /\ Escalated' /\ NoAgentLeft'
    BY <1>10 DEF DrainStderr, AgentLife, Escalated, NoAgentLeft, Undecided
  <2>3. Undecided' /\ OnlyWhenLate'
    BY <1>10 DEF DrainStderr, AgentLife, Undecided, OnlyWhenLate
  <2>4. LeftAlone' /\ OutcomeIsTheAgents'
    BY <1>10 DEF DrainStderr, AgentLife, Undecided, OnlyWhenLate, LeftAlone, OutcomeIsTheAgents
  <2> QED
    BY <2>1, <2>2, <2>3, <2>4
<1>11. CASE WatchdogWakes
  <2>1. TypeOK'
    BY <1>11 DEF WatchdogWakes
  <2>2. AgentLife' /\ Escalated' /\ NoAgentLeft'
    BY <1>11 DEF WatchdogWakes, AgentLife, Escalated, NoAgentLeft, Undecided
  <2>3. Undecided' /\ OnlyWhenLate'
    BY <1>11 DEF WatchdogWakes, AgentLife, Undecided, OnlyWhenLate
  <2>4. LeftAlone' /\ OutcomeIsTheAgents'
    BY <1>11 DEF WatchdogWakes, AgentLife, Undecided, OnlyWhenLate, LeftAlone, OutcomeIsTheAgents
  <2> QED
    BY <2>1, <2>2, <2>3, <2>4
<1>12. CASE WatchdogFires
  <2>1. TypeOK'
    BY <1>12 DEF WatchdogFires, Send
  <2>2. AgentLife' /\ Escalated' /\ NoAgentLeft'
    BY <1>12 DEF WatchdogFires, Send, AgentLife, Escalated, NoAgentLeft, Undecided
  <2>3. Undecided' /\ OnlyWhenLate'
    BY <1>12 DEF WatchdogFires, Send, AgentLife, Undecided, OnlyWhenLate
  <2>4. LeftAlone' /\ OutcomeIsTheAgents'
    BY <1>12 DEF WatchdogFires, Send, AgentLife, Undecided, OnlyWhenLate, LeftAlone, OutcomeIsTheAgents
  <2> QED
    BY <2>1, <2>2, <2>3, <2>4
<1>13. CASE Launch
  <2>1. TypeOK'
    BY <1>13 DEF Launch
  <2>2. AgentLife' /\ Escalated' /\ NoAgentLeft'
    BY <1>13 DEF Launch, AgentLife, Escalated, NoAgentLeft, Undecided
  <2>3. Undecided' /\ OnlyWhenLate'
    BY <1>13 DEF Launch, AgentLife, Undecided, OnlyWhenLate
  <2>4. LeftAlone' /\ OutcomeIsTheAgents'
    BY <1>13 DEF Launch, AgentLife, Undecided, OnlyWhenLate, LeftAlone, OutcomeIsTheAgents
  <2> QED
    BY <2>1, <2>2, <2>3, <2>4
<1>14. CASE Enter
  <2>1. TypeOK'
    BY <1>14 DEF Enter
  <2>2. AgentLife' /\ Escalated' /\ NoAgentLeft'
    BY <1>14 DEF Enter, AgentLife, Escalated, NoAgentLeft, Undecided
  <2>3. Undecided' /\ OnlyWhenLate'
    BY <1>14 DEF Enter, AgentLife, Undecided, OnlyWhenLate
  <2>4. LeftAlone' /\ OutcomeIsTheAgents'
    BY <1>14 DEF Enter, AgentLife, Undecided, OnlyWhenLate, LeftAlone, OutcomeIsTheAgents
  <2> QED
    BY <2>1, <2>2, <2>3, <2>4
<1>15. CASE CheckTimeout
  <2>1. TypeOK'
    BY <1>15 DEF CheckTimeout, Goto, Send
  <2>2. AgentLife' /\ Escalated' /\ NoAgentLeft'
    BY <1>15 DEF CheckTimeout, Goto, Send, AgentLife, Escalated, NoAgentLeft, Undecided
  <2>3. Undecided' /\ OnlyWhenLate'
    BY <1>15 DEF CheckTimeout, Goto, Send, AgentLife, Undecided, OnlyWhenLate
  <2>4. LeftAlone' /\ OutcomeIsTheAgents'
    BY <1>15 DEF CheckTimeout, Goto, Send, AgentLife, Undecided, OnlyWhenLate, LeftAlone, OutcomeIsTheAgents
  <2> QED
    BY <2>1, <2>2, <2>3, <2>4
<1>16. CASE TakeLine
  <2>1. TypeOK'
    BY <1>16 DEF TakeLine
  <2>2. AgentLife' /\ Escalated' /\ NoAgentLeft'
    BY <1>16 DEF TakeLine, AgentLife, Escalated, NoAgentLeft, Undecided
  <2>3. Undecided' /\ OnlyWhenLate'
    BY <1>16 DEF TakeLine, AgentLife, Undecided, OnlyWhenLate
  <2>4. LeftAlone' /\ OutcomeIsTheAgents'
    BY <1>16 DEF TakeLine, AgentLife, Undecided, OnlyWhenLate, LeftAlone, OutcomeIsTheAgents
  <2> QED
    BY <2>1, <2>2, <2>3, <2>4
<1>17. CASE TakeEof
  <2>1. TypeOK'
    BY <1>17 DEF TakeEof, Goto
  <2>2. AgentLife' /\ Escalated' /\ NoAgentLeft'
    BY <1>17 DEF TakeEof, Goto, AgentLife, Escalated, NoAgentLeft, Undecided
  <2>3. Undecided' /\ OnlyWhenLate'
    BY <1>17 DEF TakeEof, Goto, AgentLife, Undecided, OnlyWhenLate
  <2>4. LeftAlone' /\ OutcomeIsTheAgents'
    BY <1>17 DEF TakeEof, Goto, AgentLife, Undecided, OnlyWhenLate, LeftAlone, OutcomeIsTheAgents
  <2> QED
    BY <2>1, <2>2, <2>3, <2>4
<1>18. CASE Empty
  <2>1. TypeOK'
    BY <1>18 DEF Empty, Goto
  <2>2. AgentLife' /\ Escalated' /\ NoAgentLeft'
    BY <1>18 DEF Empty, Goto, AgentLife, Escalated, NoAgentLeft, Undecided
  <2>3. Undecided' /\ OnlyWhenLate'
    BY <1>18 DEF Empty, Goto, AgentLife, Undecided, OnlyWhenLate
  <2>4. LeftAlone' /\ OutcomeIsTheAgents'
    BY <1>18 DEF Empty, Goto, AgentLife, Undecided, OnlyWhenLate, LeftAlone, OutcomeIsTheAgents
  <2> QED
    BY <2>1, <2>2, <2>3, <2>4
<1>19. CASE Poll
  <2>1. TypeOK'
    BY <1>19 DEF Poll, Goto
  <2>2. AgentLife' /\ Escalated' /\ NoAgentLeft'
    BY <1>19 DEF Poll, Goto, AgentLife, Escalated, NoAgentLeft, Undecided
  <2>3. Undecided' /\ OnlyWhenLate'
    BY <1>19 DEF Poll, Goto, AgentLife, Undecided, OnlyWhenLate
  <2>4. LeftAlone' /\ OutcomeIsTheAgents'
    BY <1>19 DEF Poll, Goto, AgentLife, Undecided, OnlyWhenLate, LeftAlone, OutcomeIsTheAgents
  <2> QED
    BY <2>1, <2>2, <2>3, <2>4
<1>20. CASE TermWait
  <2>1. TypeOK'
    BY <1>20 DEF TermWait, Send
  <2>2. AgentLife' /\ Escalated' /\ NoAgentLeft'
    BY <1>20 DEF TermWait, Send, AgentLife, Escalated, NoAgentLeft, Undecided
  <2>3. Undecided' /\ OnlyWhenLate'
    BY <1>20 DEF TermWait, Send, AgentLife, Undecided, OnlyWhenLate
  <2>4. LeftAlone' /\ OutcomeIsTheAgents'
    BY <1>20 DEF TermWait, Send, AgentLife, Undecided, OnlyWhenLate, LeftAlone, OutcomeIsTheAgents
  <2> QED
    BY <2>1, <2>2, <2>3, <2>4
<1>21. CASE KillWait
  <2>1. TypeOK'
    BY <1>21 DEF KillWait
  <2>2. AgentLife' /\ Escalated' /\ NoAgentLeft'
    BY <1>21 DEF KillWait, AgentLife, Escalated, NoAgentLeft, Undecided
  <2>3. Undecided' /\ OnlyWhenLate'
    BY <1>21 DEF KillWait, AgentLife, Undecided, OnlyWhenLate
  <2>4. LeftAlone' /\ OutcomeIsTheAgents'
    BY <1>21 DEF KillWait, AgentLife, Undecided, OnlyWhenLate, LeftAlone, OutcomeIsTheAgents
  <2> QED
    BY <2>1, <2>2, <2>3, <2>4
<1>22. CASE InterruptWait
  <2>1. TypeOK'
    BY <1>22 DEF InterruptWait, Goto, Send
  <2>2. AgentLife' /\ Escalated' /\ NoAgentLeft'
    BY <1>22 DEF InterruptWait, Goto, Send, AgentLife, Escalated, NoAgentLeft, Undecided
  <2>3. Undecided' /\ OnlyWhenLate'
    BY <1>22 DEF InterruptWait, Goto, Send, AgentLife, Undecided, OnlyWhenLate
  <2>4. LeftAlone' /\ OutcomeIsTheAgents'
    BY <1>22 DEF InterruptWait, Goto, Send, AgentLife, Undecided, OnlyWhenLate, LeftAlone, OutcomeIsTheAgents
  <2> QED
    BY <2>1, <2>2, <2>3, <2>4
<1>23. CASE Cleanup
  <2>1. TypeOK'
    BY <1>23 DEF Cleanup, Goto, Send
  <2>2. AgentLife' /\ Escalated' /\ NoAgentLeft'
    BY <1>23 DEF Cleanup, Goto, Send, AgentLife, Escalated, NoAgentLeft, Undecided
  <2>3. Undecided' /\ OnlyWhenLate'
    BY <1>23 DEF Cleanup, Goto, Send, AgentLife, Undecided, OnlyWhenLate
  <2>4. LeftAlone' /\ OutcomeIsTheAgents'
    BY <1>23 DEF Cleanup, Goto, Send, AgentLife, Undecided, OnlyWhenLate, LeftAlone, OutcomeIsTheAgents
  <2> QED
    BY <2>1, <2>2, <2>3, <2>4
<1>24. CASE CleanupWait
  <2>1. TypeOK'
    BY <1>24 DEF CleanupWait, Goto, Send
  <2>2. AgentLife' /\ Escalated' /\ NoAgentLeft'
    BY <1>24 DEF CleanupWait, Goto, Send, AgentLife, Escalated, NoAgentLeft, Undecided
  <2>3. Undecided' /\ OnlyWhenLate'
    BY <1>24 DEF CleanupWait, Goto, Send, AgentLife, Undecided, OnlyWhenLate
  <2>4. LeftAlone' /\ OutcomeIsTheAgents'
    BY <1>24 DEF CleanupWait, Goto, Send, AgentLife, Undecided, OnlyWhenLate, LeftAlone, OutcomeIsTheAgents
  <2> QED
    BY <2>1, <2>2, <2>3, <2>4
<1>25. CASE CleanupKill
  <2>1. TypeOK'
    BY <1>25 DEF CleanupKill, Goto
  <2>2. AgentLife' /\ Escalated' /\ NoAgentLeft'
    BY <1>25 DEF CleanupKill, Goto, AgentLife, Escalated, NoAgentLeft, Undecided
  <2>3. Undecided' /\ OnlyWhenLate'
    BY <1>25 DEF CleanupKill, Goto, AgentLife, Undecided, OnlyWhenLate
  <2>4. LeftAlone' /\ OutcomeIsTheAgents'
    BY <1>25 DEF CleanupKill, Goto, AgentLife, Undecided, OnlyWhenLate, LeftAlone, OutcomeIsTheAgents
  <2> QED
    BY <2>1, <2>2, <2>3, <2>4
<1>26. CASE Cancel
  <2>1. TypeOK'
    BY <1>26 DEF Cancel, Goto
  <2>2. AgentLife' /\ Escalated' /\ NoAgentLeft'
    BY <1>26 DEF Cancel, Goto, AgentLife, Escalated, NoAgentLeft, Undecided
  <2>3. Undecided' /\ OnlyWhenLate'
    BY <1>26 DEF Cancel, Goto, AgentLife, Undecided, OnlyWhenLate
  <2>4. LeftAlone' /\ OutcomeIsTheAgents'
    BY <1>26 DEF Cancel, Goto, AgentLife, Undecided, OnlyWhenLate, LeftAlone, OutcomeIsTheAgents
  <2> QED
    BY <2>1, <2>2, <2>3, <2>4
<1>27. CASE JoinStderr
  <2>1. TypeOK'
    BY <1>27 DEF JoinStderr, Goto
  <2>2. AgentLife' /\ Escalated' /\ NoAgentLeft'
    BY <1>27 DEF JoinStderr, Goto, AgentLife, Escalated, NoAgentLeft, Undecided
  <2>3. Undecided' /\ OnlyWhenLate'
    BY <1>27 DEF JoinStderr, Goto, AgentLife, Undecided, OnlyWhenLate
  <2>4. LeftAlone' /\ OutcomeIsTheAgents'
    BY <1>27 DEF JoinStderr, Goto, AgentLife, Undecided, OnlyWhenLate, LeftAlone, OutcomeIsTheAgents
  <2> QED
    BY <2>1, <2>2, <2>3, <2>4
<1>28. CASE JoinStdout
  <2>1. TypeOK'
    BY <1>28 DEF JoinStdout
  <2>2. AgentLife' /\ Escalated' /\ NoAgentLeft'
    BY <1>28 DEF JoinStdout, AgentLife, Escalated, NoAgentLeft, Undecided
  <2>3. Undecided' /\ OnlyWhenLate'
    BY <1>28 DEF JoinStdout, AgentLife, Undecided, OnlyWhenLate
  <2>4. LeftAlone' /\ OutcomeIsTheAgents'
    BY <1>28 DEF JoinStdout, AgentLife, Undecided, OnlyWhenLate, LeftAlone, OutcomeIsTheAgents
  <2> QED
    BY <2>1, <2>2, <2>3, <2>4
<1>29. CASE Final
  <2>1. TypeOK'
    BY <1>29 DEF Final, Send
  <2>2. AgentLife' /\ Escalated' /\ NoAgentLeft'
    BY <1>29 DEF Final, Send, AgentLife, Escalated, NoAgentLeft, Undecided
  <2>3. Undecided' /\ OnlyWhenLate'
    BY <1>29 DEF Final, Send, AgentLife, Undecided, OnlyWhenLate
  <2>4. LeftAlone' /\ OutcomeIsTheAgents'
    BY <1>29 DEF Final, Send, AgentLife, Undecided, OnlyWhenLate, LeftAlone, OutcomeIsTheAgents
  <2> QED
    BY <2>1, <2>2, <2>3, <2>4
<1>30. CASE InterruptInTry
  <2>1. TypeOK'
    BY <1>30 DEF InterruptInTry, Send
  <2>2. AgentLife' /\ Escalated' /\ NoAgentLeft'
    BY <1>30 DEF InterruptInTry, Send, AgentLife, Escalated, NoAgentLeft, Undecided
  <2>3. Undecided' /\ OnlyWhenLate'
    BY <1>30 DEF InterruptInTry, Send, AgentLife, Undecided, OnlyWhenLate
  <2>4. LeftAlone' /\ OutcomeIsTheAgents'
    BY <1>30 DEF InterruptInTry, Send, AgentLife, Undecided, OnlyWhenLate, LeftAlone, OutcomeIsTheAgents
  <2> QED
    BY <2>1, <2>2, <2>3, <2>4
<1>31. CASE InterruptOutside
  <2>1. TypeOK'
    BY <1>31 DEF InterruptOutside
  <2>2. AgentLife' /\ Escalated' /\ NoAgentLeft'
    BY <1>31 DEF InterruptOutside, AgentLife, Escalated, NoAgentLeft, Undecided
  <2>3. Undecided' /\ OnlyWhenLate'
    BY <1>31 DEF InterruptOutside, AgentLife, Undecided, OnlyWhenLate
  <2>4. LeftAlone' /\ OutcomeIsTheAgents'
    BY <1>31 DEF InterruptOutside, AgentLife, Undecided, OnlyWhenLate, LeftAlone, OutcomeIsTheAgents
  <2> QED
    BY <2>1, <2>2, <2>3, <2>4
<1>32. CASE UNCHANGED vars
  BY <1>32 DEF vars, AgentLife, Escalated, NoAgentLeft, Undecided, OnlyWhenLate, LeftAlone,
           OutcomeIsTheAgents
<1> QED
  BY <1>1, <1>2, <1>3, <1>4, <1>5, <1>6, <1>7, <1>8, <1>9, <1>10, <1>11, <1>12, <1>13, <1>14, <1>15, <1>16, <1>17, <1>18, <1>19, <1>20, <1>21, <1>22, <1>23, <1>24, <1>25, <1>26, <1>27, <1>28, <1>29, <1>30, <1>31, <1>32
  DEF Next, Agent, Main

LEMMA AgentInvariant == Spec => []AgentInv
<1>1. Init => AgentInv
  BY InitAgent
<1>2. AgentInv /\ [Next]_vars => AgentInv'
  BY NextAgent
<1> QED
  BY <1>1, <1>2, PTL DEF Spec

(* Types, and lines are taken in the order written -> drained -> taken:     *)
(* nothing reaches the main thread that the agent did not write.            *)
THEOREM TypeCorrect == Spec => []TypeOK
<1>1. AgentInv => TypeOK
  BY DEF AgentInv
<1> QED
  BY <1>1, AgentInvariant, PTL

(* However run_agent's try block is left, its cleanup leaves no agent that  *)
(* was not sent SIGKILL (agent_runner.py:650-670).                          *)
THEOREM AgentIsGone == Spec => []NoAgentLeft
<1>1. AgentInv => NoAgentLeft
  BY DEF AgentInv
<1> QED
  BY <1>1, AgentInvariant, PTL

(* The watchdog's SIGTERM is never reported as the agent's own outcome      *)
(* (agent_runner.py:574-581, 696-703).                                      *)
THEOREM TimeoutIsReported == Spec => []WatchdogMeansTimeout
<1>1. AgentInv => WatchdogMeansTimeout
  BY DEF AgentInv, Undecided, WatchdogMeansTimeout
<1> QED
  BY <1>1, AgentInvariant, PTL

(* A success or an error that run_agent reports is the exit code the agent  *)
(* chose, unless it closed its stdout first (agent_runner.py:614-624).      *)
THEOREM OutcomeIsItsOwn == Spec => []OutcomeIsTheAgents
<1>1. AgentInv => OutcomeIsTheAgents
  BY DEF AgentInv
<1> QED
  BY <1>1, AgentInvariant, PTL
=============================================================================
