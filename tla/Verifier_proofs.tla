-------------------------- MODULE Verifier_proofs --------------------------
(***************************************************************************)
(* Theorems about Verifier, for all repositories, arguments, numbers of    *)
(* processes and of rounds.                                                *)
(***************************************************************************)
EXTENDS Verifier, TLAPS

LEMMA PlanTypes ==
  /\ VerifyPlan(call) \subseteq Checks
  /\ \A present : PathsPlan(call, repo, present) \subseteq Checks
BY DEF VerifyPlan, PathsPlan, Checks

LEMMA CustomIsACheck == "custom" \in Checks /\ "syntax" \in Checks
BY DEF Checks

\* What outlives its check, by its end or by an interrupt.
LEMMA LeftTypes ==
  ASSUME kids \subseteq Kid
  PROVE  \A b \in BOOLEAN :
           {[inGroup |-> k.inGroup, timedOut |-> b] : k \in kids} \subseteq Stray
BY DEF Kid, Stray

LEMMA OutliveTypes ==
  ASSUME TypeOK, NEW b \in BOOLEAN, Outlive(b)
  PROVE  strays' \subseteq Stray /\ kids' = {} /\ leader' = "none"
BY LeftTypes DEF TypeOK, Outlive

LEMMA TypesInit == Init => TypeOK
<1> SUFFICES ASSUME Init PROVE TypeOK
  OBVIOUS
<1>1. MaxRounds \in Nat /\ "syntax" \in Checks
  BY VerifierAssumption, CustomIsACheck
<1>2. result \in [Checks -> {"none", "pass", "skip", "fail"}]
  BY DEF Init
<1>3. round \in 0..MaxRounds
  BY <1>1 DEF Init
<1>4. /\ pc = "idle" /\ call \in Calls /\ repo \in Repos
      /\ tree \in [Files -> Content] /\ verdict = "none"
      /\ leader = "none" /\ kids = {} /\ strays = {} /\ src = {} /\ files = {}
      /\ listed = {} /\ todo = {} /\ okExit = {} /\ written = {}
      /\ errs = FALSE /\ strayWrote = FALSE /\ cur = "syntax"
  BY DEF Init
<1> QED
  BY <1>1, <1>2, <1>3, <1>4 DEF TypeOK, Resting

LEMMA TypesKept ==
  ASSUME TypeOK, [Next]_vars
  PROVE  TypeOK'
<1> USE VerifierAssumption DEF job, scan, procs, world, out, Resting
<1>1. ASSUME Begin PROVE TypeOK'
  <2>1. todo' \subseteq Checks
    BY <1>1, PlanTypes DEF Begin
  <2>2. round' \in 0..MaxRounds
    BY <1>1 DEF Begin, TypeOK
  <2>3. result' \in [Checks -> {"none", "pass", "skip", "fail"}]
    BY <1>1 DEF Begin
  <2>4. listed' \subseteq Files /\ leader' = "none" /\ kids' = {} /\ pc' = "next"
    BY <1>1 DEF Begin, TypeOK
  <2> QED
    BY <1>1, <2>1, <2>2, <2>3, <2>4 DEF Begin, TypeOK
<1>2. ASSUME RejectCommand PROVE TypeOK'
  BY <1>2, CustomIsACheck DEF RejectCommand, Report, TypeOK, Current
<1>3. ASSUME EndScan PROVE TypeOK'
  BY <1>3 DEF EndScan, Report, TypeOK
<1>4. ASSUME SyntaxOverTime PROVE TypeOK'
  BY <1>4 DEF SyntaxOverTime, TypeOK
<1>5. ASSUME Finish PROVE TypeOK'
  BY <1>5 DEF Finish, TypeOK
<1>6. ASSUME NEW k \in Checks, SkipCheck(k) PROVE TypeOK'
  BY <1>6 DEF SkipCheck, Report, TypeOK, Current
<1>7. ASSUME NEW k \in Checks, Missing(k) PROVE TypeOK'
  BY <1>7 DEF Missing, Report, TypeOK, Check, TestsCheck, LintCheck, CoverageCheck,
    AuditCheck, PlaywrightCheck, CustomCheck, Current, Runs
<1>8. ASSUME NEW k \in Checks, SpawnRaises(k) PROVE TypeOK'
  BY <1>8 DEF SpawnRaises, Raise, TypeOK, Current, Runs
<1>9. ASSUME NEW k \in Checks, Spawn(k) PROVE TypeOK'
  BY <1>9 DEF Spawn, TypeOK, Current, Runs
<1>10. ASSUME NEW k \in Checks, StartScan(k) PROVE TypeOK'
  BY <1>10 DEF StartScan, TypeOK, Current
<1>11. ASSUME NEW f \in Files, Compile(f) PROVE TypeOK'
  BY <1>11 DEF Compile, ReadOn, TypeOK
<1>12. ASSUME NEW f \in Files, CompileUnreadable(f) PROVE TypeOK'
  BY <1>12 DEF CompileUnreadable, TypeOK
<1>13. ASSUME NEW f \in Files, CompilerMissing(f) PROVE TypeOK'
  BY <1>13 DEF CompilerMissing, Report, TypeOK
<1>14. ASSUME NEW f \in Files, ScanFile(f) PROVE TypeOK'
  BY <1>14 DEF ScanFile, ReadOn, TypeOK, Findings
<1>15. ASSUME NEW f \in Files, ScanRaises(f) PROVE TypeOK'
  BY <1>15 DEF ScanRaises, Raise, TypeOK
<1>16. ASSUME Collect PROVE TypeOK'
  BY <1>16, OutliveTypes DEF Collect, AfterCall, Report, TypeOK
<1>17. ASSUME CollectRaises PROVE TypeOK'
  BY <1>17, OutliveTypes DEF CollectRaises, Raise, TypeOK
<1>18. ASSUME TimesOut PROVE TypeOK'
  BY <1>18 DEF TimesOut, TypeOK
<1>19. ASSUME KillGroup PROVE TypeOK'
  BY <1>19 DEF KillGroup, TypeOK
<1>20. ASSUME Drain PROVE TypeOK'
  BY <1>20, OutliveTypes DEF Drain, AfterCall, Report, TypeOK
<1>21. ASSUME Fix PROVE TypeOK'
  BY <1>21 DEF Fix, TypeOK
<1>22. ASSUME LeaderExits PROVE TypeOK'
  BY <1>22 DEF LeaderExits, TypeOK
<1>23. ASSUME NEW k \in Kid, Fork(k) PROVE TypeOK'
  BY <1>23 DEF Fork, TypeOK, OwnCode
<1>24. ASSUME NEW k \in kids, LeavesSession(k) PROVE TypeOK'
  BY <1>24 DEF LeavesSession, TypeOK, Kid
<1>25. ASSUME NEW k \in kids, KidEnds(k) PROVE TypeOK'
  BY <1>25 DEF KidEnds, TypeOK
<1>26. ASSUME NEW p \in strays, StrayEnds(p) PROVE TypeOK'
  BY <1>26 DEF StrayEnds, TypeOK
<1>27. ASSUME NEW f \in Files, NEW c \in Leaves, WriteFile(f, c) PROVE TypeOK'
  BY <1>27 DEF WriteFile, TypeOK
<1>28. ASSUME Interrupt PROVE TypeOK'
  <2>1. strays' \subseteq Stray
    <3>1. {[inGroup |-> k.inGroup, timedOut |-> FALSE] : k \in kids} \subseteq Stray
      BY LeftTypes DEF TypeOK
    <3>2. {[inGroup |-> TRUE, timedOut |-> FALSE] : l \in {leader} \cap {"running"}} \subseteq Stray
      BY DEF Stray
    <3> QED
      BY <1>28, <3>1, <3>2 DEF Interrupt, TypeOK
  <2> QED
    BY <1>28, <2>1 DEF Interrupt, TypeOK
<1>29. CASE UNCHANGED vars
  BY <1>29 DEF TypeOK, vars, job, scan, procs, world, out
<1> QED
  BY <1>1, <1>2, <1>3, <1>4, <1>5, <1>6, <1>7, <1>8, <1>9, <1>10, <1>11, <1>12, <1>13,
    <1>14, <1>15, <1>16, <1>17, <1>18, <1>19, <1>20, <1>21, <1>22, <1>23, <1>24, <1>25,
    <1>26, <1>27, <1>28, <1>29 DEF Next, Main, Processes

(* The variables stay within their types, and a subprocess or child of a     *)
(* check exists only while that check waits for it (verifier.py:40-53).      *)
THEOREM TypeCorrect == Spec => []TypeOK
BY TypesInit, TypesKept, PTL DEF Spec
-----------------------------------------------------------------------------
(* No timed-out process group lives on *)

\* Once the group was signalled no process is left in it to fork another.
Signalled == pc = "drain" => \A k \in kids : ~k.inGroup

GroupInv == Signalled /\ TimedOutGroupIsGone

LEMMA GroupInit == Init => GroupInv
BY DEF Init, GroupInv, Signalled, TimedOutGroupIsGone

LEMMA GroupKept ==
  ASSUME TypeOK, GroupInv, [Next]_vars
  PROVE  GroupInv'
<1> USE DEF job, scan, procs, world, out, Resting
<1>1. ASSUME Begin PROVE GroupInv'
  BY <1>1 DEF Begin, world, GroupInv, Signalled, TimedOutGroupIsGone, TypeOK
<1>2. ASSUME RejectCommand PROVE GroupInv'
  BY <1>2 DEF RejectCommand, Report, Current, GroupInv, Signalled, TimedOutGroupIsGone,
    TypeOK
<1>3. ASSUME EndScan PROVE GroupInv'
  BY <1>3 DEF EndScan, Report, GroupInv, Signalled, TimedOutGroupIsGone, TypeOK
<1>4. ASSUME SyntaxOverTime PROVE GroupInv'
  BY <1>4 DEF SyntaxOverTime, GroupInv, Signalled, TimedOutGroupIsGone, TypeOK
<1>5. ASSUME Finish PROVE GroupInv'
  BY <1>5 DEF Finish, GroupInv, Signalled, TimedOutGroupIsGone, TypeOK
<1>6. ASSUME NEW k \in Checks, SkipCheck(k) PROVE GroupInv'
  BY <1>6 DEF SkipCheck, Report, Current, GroupInv, Signalled, TimedOutGroupIsGone,
    TypeOK
<1>7. ASSUME NEW k \in Checks, Missing(k) PROVE GroupInv'
  BY <1>7 DEF Missing, Report, Current, Runs, GroupInv, Signalled, TimedOutGroupIsGone,
    TypeOK
<1>8. ASSUME NEW k \in Checks, SpawnRaises(k) PROVE GroupInv'
  BY <1>8 DEF SpawnRaises, Raise, Current, Runs, GroupInv, Signalled,
    TimedOutGroupIsGone, TypeOK
<1>9. ASSUME NEW k \in Checks, Spawn(k) PROVE GroupInv'
  BY <1>9 DEF Spawn, Current, Runs, GroupInv, Signalled, TimedOutGroupIsGone, TypeOK
<1>10. ASSUME NEW k \in Checks, StartScan(k) PROVE GroupInv'
  BY <1>10 DEF StartScan, Current, GroupInv, Signalled, TimedOutGroupIsGone, TypeOK
<1>11. ASSUME NEW f \in Files, Compile(f) PROVE GroupInv'
  BY <1>11 DEF Compile, ReadOn, GroupInv, Signalled, TimedOutGroupIsGone, TypeOK
<1>12. ASSUME NEW f \in Files, CompileUnreadable(f) PROVE GroupInv'
  BY <1>12 DEF CompileUnreadable, GroupInv, Signalled, TimedOutGroupIsGone, TypeOK
<1>13. ASSUME NEW f \in Files, CompilerMissing(f) PROVE GroupInv'
  BY <1>13 DEF CompilerMissing, Report, GroupInv, Signalled, TimedOutGroupIsGone, TypeOK
<1>14. ASSUME NEW f \in Files, ScanFile(f) PROVE GroupInv'
  BY <1>14 DEF ScanFile, ReadOn, GroupInv, Signalled, TimedOutGroupIsGone, TypeOK
<1>15. ASSUME NEW f \in Files, ScanRaises(f) PROVE GroupInv'
  BY <1>15 DEF ScanRaises, Raise, GroupInv, Signalled, TimedOutGroupIsGone, TypeOK
<1>16. ASSUME Collect PROVE GroupInv'
  BY <1>16 DEF Collect, AfterCall, Report, Outlive, Silent, GroupInv, Signalled,
    TimedOutGroupIsGone, TypeOK
<1>17. ASSUME CollectRaises PROVE GroupInv'
  BY <1>17 DEF CollectRaises, Raise, Outlive, Silent, GroupInv, Signalled,
    TimedOutGroupIsGone, TypeOK
<1>18. ASSUME TimesOut PROVE GroupInv'
  BY <1>18 DEF TimesOut, GroupInv, Signalled, TimedOutGroupIsGone, TypeOK
<1>19. ASSUME KillGroup PROVE GroupInv'
  BY <1>19 DEF KillGroup, GroupInv, Signalled, TimedOutGroupIsGone, TypeOK
<1>20. ASSUME Drain PROVE GroupInv'
  BY <1>20 DEF Drain, AfterCall, Report, Outlive, GroupInv, Signalled,
    TimedOutGroupIsGone, TypeOK
<1>21. ASSUME Fix PROVE GroupInv'
  BY <1>21 DEF Fix, GroupInv, Signalled, TimedOutGroupIsGone, TypeOK
<1>22. ASSUME LeaderExits PROVE GroupInv'
  BY <1>22 DEF LeaderExits, GroupInv, Signalled, TimedOutGroupIsGone, TypeOK
<1>23. ASSUME NEW k \in Kid, Fork(k) PROVE GroupInv'
  BY <1>23 DEF Fork, OwnCode, GroupInv, Signalled, TimedOutGroupIsGone, TypeOK, Kid
<1>24. ASSUME NEW k \in kids, LeavesSession(k) PROVE GroupInv'
  BY <1>24 DEF LeavesSession, GroupInv, Signalled, TimedOutGroupIsGone, TypeOK, Kid
<1>25. ASSUME NEW k \in kids, KidEnds(k) PROVE GroupInv'
  BY <1>25 DEF KidEnds, GroupInv, Signalled, TimedOutGroupIsGone, TypeOK, Kid
<1>26. ASSUME NEW p \in strays, StrayEnds(p) PROVE GroupInv'
  BY <1>26 DEF StrayEnds, GroupInv, Signalled, TimedOutGroupIsGone, TypeOK
<1>27. ASSUME NEW f \in Files, NEW c \in Leaves, WriteFile(f, c) PROVE GroupInv'
  BY <1>27 DEF WriteFile, OwnCode, GroupInv, Signalled, TimedOutGroupIsGone, TypeOK
<1>28. ASSUME Interrupt PROVE GroupInv'
  BY <1>28 DEF Interrupt, GroupInv, Signalled, TimedOutGroupIsGone, TypeOK
<1>29. CASE UNCHANGED vars
  BY <1>29 DEF GroupInv, Signalled, TimedOutGroupIsGone, TypeOK, vars, job, scan, procs,
    world, out
<1> QED
  BY <1>1, <1>2, <1>3, <1>4, <1>5, <1>6, <1>7, <1>8, <1>9, <1>10, <1>11, <1>12, <1>13,
    <1>14, <1>15, <1>16, <1>17, <1>18, <1>19, <1>20, <1>21, <1>22, <1>23, <1>24, <1>25,
    <1>26, <1>27, <1>28, <1>29 DEF Next, Main, Processes

(* After a timeout nothing in the process group of the check runs, however   *)
(* its processes fork and leave the session before the signal reaches them.  *)
THEOREM NoGroupSurvives == Spec => []TimedOutGroupIsGone
<1>1. TypeOK /\ GroupInv /\ [Next]_vars => GroupInv'
  BY GroupKept
<1>2. GroupInv => TimedOutGroupIsGone
  BY DEF GroupInv
<1> QED
  BY <1>1, <1>2, GroupInit, TypeCorrect, PTL DEF Spec
-----------------------------------------------------------------------------
(* A pass is earned *)

Excused(k) == ~Scoped /\ (k \in Optional \/ (k = "tests" /\ ~repo.tests))

\* Every check of the plan that is done has a result with a reason.
Accounted ==
  pc # "idle" =>
    \A k \in Planned \ todo :
      /\ result[k] # "none"
      /\ result[k] = "pass" => k \in okExit \/ InProcess(k)
      /\ result[k] = "skip" => Excused(k)

\* What the running check is, and that an exit with 0 was seen.
Waiting ==
  /\ pc = "scan" => InProcess(cur)
  /\ pc \in {"wait", "kill", "drain"} =>
       IF Scoped THEN cur # "syntax" ELSE cur # "security"
  /\ leader = "zero" => cur \in okExit

Decided ==
  verdict = "pass" => pc = "done" /\ todo = {} /\ \A k \in Checks : result[k] # "fail"

EarnedInv == Accounted /\ Waiting /\ Decided

LEMMA EarnedInit == Init => EarnedInv
BY DEF Init, EarnedInv, Accounted, Waiting, Decided

\* Only what Order lists is ever run.
LEMMA SyntaxIsUnscoped ==
  ASSUME Current("syntax") PROVE ~Scoped
BY DEF Current, Order

LEMMA ArgumentsKept ==
  ASSUME [Next]_vars
  PROVE  /\ call' = call /\ repo' = repo
         /\ Scoped' = Scoped /\ EngineCall' = EngineCall
         /\ pc # "idle" => listed' = listed /\ Planned' = Planned
         /\ \A k : InProcess(k)' = InProcess(k) /\ Excused(k)' = Excused(k)
<1>1. call' = call /\ repo' = repo
  BY DEF Next, Main, Processes, vars, job, Begin, RejectCommand, EndScan,
    SyntaxOverTime,
     Finish, SkipCheck, Missing, SpawnRaises, Spawn, StartScan, Compile, ReadOn,
     CompileUnreadable, CompilerMissing, ScanFile, ScanRaises, Collect, CollectRaises,
     TimesOut, KillGroup, Drain, AfterCall, Report, Raise, Fix, LeaderExits, Fork,
     LeavesSession, KidEnds, StrayEnds, WriteFile, Interrupt
<1>2. pc # "idle" => listed' = listed
  BY DEF Next, Main, Processes, vars, job, Begin, RejectCommand, EndScan,
    SyntaxOverTime,
     Finish, SkipCheck, Missing, SpawnRaises, Spawn, StartScan, Compile, ReadOn,
     CompileUnreadable, CompilerMissing, ScanFile, ScanRaises, Collect, CollectRaises,
     TimesOut, KillGroup, Drain, AfterCall, Report, Raise, Fix, LeaderExits, Fork,
     LeavesSession, KidEnds, StrayEnds, WriteFile, Interrupt
<1> QED
  BY <1>1, <1>2
  DEF Scoped, ScopedCall, Planned, PathsPlan, VerifyPlan, EngineCall, InProcess, Excused

LEMMA EarnedKept ==
  ASSUME TypeOK, EarnedInv, [Next]_vars
  PROVE  EarnedInv'
<1> USE DEF job, scan, procs, world, out, Resting
<1>0. /\ Scoped' = Scoped /\ (pc # "idle" => Planned' = Planned)
      /\ \A k : InProcess(k)' = InProcess(k) /\ Excused(k)' = Excused(k)
  BY ArgumentsKept
<1>1. ASSUME Begin PROVE EarnedInv'
  <2>1. todo' = Planned'
    BY <1>1, ArgumentsKept DEF Begin, Planned
  <2> QED
    BY <1>0, <1>1, <2>1 DEF Begin, world, EarnedInv, Accounted, Waiting, Decided, TypeOK
<1>2. ASSUME RejectCommand PROVE EarnedInv'
  BY <1>2, <1>0 DEF RejectCommand, Report, Current, EarnedInv, Accounted, Waiting,
    Decided, TypeOK
<1>3. ASSUME EndScan PROVE EarnedInv'
  BY <1>3, <1>0 DEF EndScan, Report, EarnedInv, Accounted, Waiting, Decided, TypeOK
<1>4. ASSUME SyntaxOverTime PROVE EarnedInv'
  BY <1>4, <1>0 DEF SyntaxOverTime, EarnedInv, Accounted, Waiting, Decided, TypeOK
<1>5. ASSUME Finish PROVE EarnedInv'
  BY <1>5, <1>0 DEF Finish, EarnedInv, Accounted, Waiting, Decided, TypeOK
<1>6. ASSUME NEW k \in Checks, SkipCheck(k) PROVE EarnedInv'
  <2>1. Excused(k)
    <3>1. ~Scoped /\ ~InProcess(k) /\ Check(k).skips
      BY <1>6 DEF SkipCheck, Skips
    <3>2. k \in Optional \/ k \in {"tests", "syntax", "security", "custom"}
      BY <1>6 DEF Checks, Optional
    <3>3. k \notin {"syntax", "security"}
      BY <3>1 DEF InProcess
    <3>4. k # "custom"
      BY <3>1 DEF Check, CustomCheck
    <3>5. k = "tests" => ~repo.tests
      BY <3>1 DEF Check, TestsCheck
    <3> QED
      BY <3>1, <3>2, <3>3, <3>4, <3>5 DEF Excused
  <2>2. Accounted'
    BY <1>0, <1>6, <2>1 DEF SkipCheck, Report, Current, Accounted, EarnedInv, TypeOK
  <2>3. Waiting'
    BY <1>0, <1>6 DEF SkipCheck, Report, Current, Waiting, EarnedInv, TypeOK
  <2>4. Decided'
    BY <1>0, <1>6 DEF SkipCheck, Report, Current, Decided, EarnedInv, TypeOK
  <2> QED
    BY <2>2, <2>3, <2>4 DEF EarnedInv
<1>7. ASSUME NEW k \in Checks, Missing(k) PROVE EarnedInv'
  BY <1>7, <1>0 DEF Missing, Report, Current, Runs, EarnedInv, Accounted, Waiting,
    Decided, TypeOK, Excused, Optional, Check, TestsCheck, LintCheck, CoverageCheck,
    AuditCheck, PlaywrightCheck, CustomCheck
<1>8. ASSUME NEW k \in Checks, SpawnRaises(k) PROVE EarnedInv'
  BY <1>8, <1>0 DEF SpawnRaises, Raise, Current, Runs, EarnedInv, Accounted, Waiting,
    Decided, TypeOK
<1>9. ASSUME NEW k \in Checks, Spawn(k) PROVE EarnedInv'
  <2>1. IF Scoped THEN k # "syntax" ELSE k # "security"
    BY <1>9, SyntaxIsUnscoped DEF Spawn, Runs, InProcess
  <2> QED
    BY <1>0, <1>9, <2>1 DEF Spawn, Runs, Current, EarnedInv, Accounted, Waiting,
      Decided, TypeOK
<1>10. ASSUME NEW k \in Checks, StartScan(k) PROVE EarnedInv'
  BY <1>10, <1>0 DEF StartScan, Current, EarnedInv, Accounted, Waiting, Decided, TypeOK,
    InProcess
<1>11. ASSUME NEW f \in Files, Compile(f) PROVE EarnedInv'
  BY <1>11, <1>0 DEF Compile, ReadOn, EarnedInv, Accounted, Waiting, Decided, TypeOK
<1>12. ASSUME NEW f \in Files, CompileUnreadable(f) PROVE EarnedInv'
  BY <1>12, <1>0 DEF CompileUnreadable, EarnedInv, Accounted, Waiting, Decided, TypeOK,
    InProcess
<1>13. ASSUME NEW f \in Files, CompilerMissing(f) PROVE EarnedInv'
  BY <1>13, <1>0 DEF CompilerMissing, Report, EarnedInv, Accounted, Waiting, Decided,
    TypeOK
<1>14. ASSUME NEW f \in Files, ScanFile(f) PROVE EarnedInv'
  BY <1>14, <1>0 DEF ScanFile, ReadOn, EarnedInv, Accounted, Waiting, Decided, TypeOK
<1>15. ASSUME NEW f \in Files, ScanRaises(f) PROVE EarnedInv'
  BY <1>15, <1>0 DEF ScanRaises, Raise, EarnedInv, Accounted, Waiting, Decided, TypeOK
<1>16. ASSUME Collect PROVE EarnedInv'
  <2>1. CASE cur = "syntax"
    <3>1. InProcess(cur)'
      BY <1>0, <1>16, <2>1 DEF Collect, AfterCall, EarnedInv, Waiting, InProcess
    <3>2. pc' = "scan" /\ UNCHANGED <<cur, todo, result, verdict, okExit>> /\ leader' = "none"
      BY <1>16, <2>1 DEF Collect, AfterCall, Outlive
    <3>3. pc # "idle" /\ pc # "done"
      BY <1>16 DEF Collect
    <3> QED
      BY <1>0, <3>1, <3>2, <3>3 DEF EarnedInv, Accounted, Waiting, Decided
  <2>2. CASE cur # "syntax"
    <3>1. /\ pc' = "next" /\ UNCHANGED <<verdict, okExit>> /\ leader' = "none"
          /\ todo' = todo \ {cur} /\ \E r \in {"pass", "fail"} :
               /\ result' = [result EXCEPT ![cur] = r]
               /\ r = "pass" => cur \in okExit
      BY <1>16, <2>2 DEF Collect, AfterCall, Report, Outlive, EarnedInv, Waiting
    <3>2. pc # "idle" /\ pc # "done"
      BY <1>16 DEF Collect
    <3> QED
      BY <1>0, <3>1, <3>2 DEF EarnedInv, Accounted, Waiting, Decided, TypeOK
  <2> QED
    BY <2>1, <2>2
<1>17. ASSUME CollectRaises PROVE EarnedInv'
  BY <1>17, <1>0 DEF CollectRaises, Raise, Outlive, Silent, EarnedInv, Accounted,
    Waiting, Decided, TypeOK
<1>18. ASSUME TimesOut PROVE EarnedInv'
  BY <1>18, <1>0 DEF TimesOut, EarnedInv, Accounted, Waiting, Decided, TypeOK
<1>19. ASSUME KillGroup PROVE EarnedInv'
  BY <1>19, <1>0 DEF KillGroup, EarnedInv, Accounted, Waiting, Decided, TypeOK
<1>20. ASSUME Drain PROVE EarnedInv'
  <2>1. CASE cur = "syntax"
    <3>1. InProcess(cur)'
      BY <1>0, <1>20, <2>1 DEF Drain, AfterCall, EarnedInv, Waiting, InProcess
    <3>2. pc' = "scan" /\ UNCHANGED <<cur, todo, result, verdict, okExit>> /\ leader' = "none"
      BY <1>20, <2>1 DEF Drain, AfterCall, Outlive
    <3>3. pc # "idle" /\ pc # "done"
      BY <1>20 DEF Drain
    <3> QED
      BY <1>0, <3>1, <3>2, <3>3 DEF EarnedInv, Accounted, Waiting, Decided
  <2>2. CASE cur # "syntax"
    <3>1. /\ pc' = "next" /\ UNCHANGED <<verdict, okExit>> /\ leader' = "none"
          /\ todo' = todo \ {cur} /\ \E r \in {"pass", "fail"} :
               /\ result' = [result EXCEPT ![cur] = r]
               /\ r = "pass" => cur \in okExit
      BY <1>20, <2>2 DEF Drain, AfterCall, Report, Outlive, EarnedInv, Waiting
    <3>2. pc # "idle" /\ pc # "done"
      BY <1>20 DEF Drain
    <3> QED
      BY <1>0, <3>1, <3>2 DEF EarnedInv, Accounted, Waiting, Decided, TypeOK
  <2> QED
    BY <2>1, <2>2
<1>21. ASSUME Fix PROVE EarnedInv'
  BY <1>21, <1>0 DEF Fix, EarnedInv, Accounted, Waiting, Decided, TypeOK
<1>22. ASSUME LeaderExits PROVE EarnedInv'
  BY <1>22, <1>0 DEF LeaderExits, EarnedInv, Accounted, Waiting, Decided, TypeOK
<1>23. ASSUME NEW k \in Kid, Fork(k) PROVE EarnedInv'
  BY <1>23, <1>0 DEF Fork, OwnCode, EarnedInv, Accounted, Waiting, Decided, TypeOK
<1>24. ASSUME NEW k \in kids, LeavesSession(k) PROVE EarnedInv'
  BY <1>24, <1>0 DEF LeavesSession, EarnedInv, Accounted, Waiting, Decided, TypeOK
<1>25. ASSUME NEW k \in kids, KidEnds(k) PROVE EarnedInv'
  BY <1>25, <1>0 DEF KidEnds, EarnedInv, Accounted, Waiting, Decided, TypeOK
<1>26. ASSUME NEW p \in strays, StrayEnds(p) PROVE EarnedInv'
  BY <1>26, <1>0 DEF StrayEnds, EarnedInv, Accounted, Waiting, Decided, TypeOK
<1>27. ASSUME NEW f \in Files, NEW c \in Leaves, WriteFile(f, c) PROVE EarnedInv'
  BY <1>27, <1>0 DEF WriteFile, OwnCode, EarnedInv, Accounted, Waiting, Decided, TypeOK
<1>28. ASSUME Interrupt PROVE EarnedInv'
  BY <1>28, <1>0 DEF Interrupt, EarnedInv, Accounted, Waiting, Decided, TypeOK
<1>29. CASE UNCHANGED vars
  BY <1>29, <1>0 DEF EarnedInv, Accounted, Waiting, Decided, TypeOK, vars, job, scan,
    procs, world, out
<1> QED
  BY <1>1, <1>2, <1>3, <1>4, <1>5, <1>6, <1>7, <1>8, <1>9, <1>10, <1>11, <1>12, <1>13,
    <1>14, <1>15, <1>16, <1>17, <1>18, <1>19, <1>20, <1>21, <1>22, <1>23, <1>24, <1>25,
    <1>26, <1>27, <1>28, <1>29 DEF Next, Main, Processes

(* The verdict is never a pass because a planned check was cut short, lost   *)
(* its program, raised or was left out: of verify_paths each ran to an exit  *)
(* with 0, of verify each but the skipped optional ones and absent tests.    *)
THEOREM PassMeansExitZero == Spec => []PassIsEarned
<1>1. TypeOK /\ EarnedInv /\ [Next]_vars => EarnedInv'
  BY EarnedKept
<1>2. TypeOK /\ EarnedInv => PassIsEarned
  BY DEF EarnedInv, Accounted, Decided, PassIsEarned, Planned, Excused, TypeOK,
    VerifyPlan, PathsPlan, Checks
<1> QED
  BY <1>1, <1>2, EarnedInit, TypeCorrect, PTL DEF Spec
-----------------------------------------------------------------------------
(* A quiet pass is clean, and what tests write is scanned *)

Same == Files \ written
Compiles(f) == tree[f] \in {"good", "unsafe"}

\* What was listed, and not written since, is there.
ListedIsThere == pc # "idle" => \A f \in Same : f \in listed <=> tree[f] # "absent"

\* Files neither written nor still in the hands of the syntax check compile.
SyntaxSoFar ==
  ~Scoped /\ cur = "syntax" /\ ~errs =>
    /\ pc = "scan" => \A f \in (listed \cap Same) \ files : Compiles(f)
    /\ pc \in {"wait", "kill", "drain"} =>
         \A f \in (listed \cap Same) \ (files \cup src) : Compiles(f)
    /\ leader = "zero" => \A f \in src \cap Same : Compiles(f)
SyntaxDone ==
  ~Scoped /\ pc # "idle" /\ result["syntax"] = "pass" =>
    \A f \in listed \cap Same : Compiles(f)

SecuritySoFar ==
  ~Scoped /\ cur = "security" /\ pc = "scan" /\ ~errs =>
    \A f \in (listed \cap Same) \ files : tree[f] # "unsafe"
SecurityDone ==
  ~Scoped /\ pc # "idle" /\ result["security"] = "pass" =>
    \A f \in listed \cap Same : tree[f] # "unsafe"

QuietInv == ListedIsThere /\ SyntaxSoFar /\ SyntaxDone /\ SecuritySoFar /\ SecurityDone

\* The check that runs is still to be done, and comes before all that are.
InPlan ==
  pc # "idle" =>
    /\ ~Scoped => todo \subseteq VerifyPlan(call)
    /\ pc \in {"scan", "wait", "kill", "drain"} => cur \in todo

\* For the engines the security scan is the last check: no program runs beside it.
ScanIsLast ==
  ~Scoped /\ EngineCall =>
    /\ pc = "scan" /\ cur = "security" =>
         /\ todo = {"security"}
         /\ ~errs /\ ~strayWrote => \A f \in listed \ files : tree[f] # "unsafe"
    /\ pc # "idle" /\ result["security"] = "pass" =>
         /\ todo = {}
         /\ ~strayWrote => \A f \in listed : tree[f] # "unsafe"

SlipInv == InPlan /\ ScanIsLast
LEMMA QuietInit == Init => QuietInv
BY DEF Init, QuietInv, ListedIsThere, SyntaxSoFar, SyntaxDone, SecuritySoFar, SecurityDone

LEMMA QuietKept ==
  ASSUME TypeOK, EarnedInv, QuietInv, [Next]_vars
  PROVE  QuietInv'
<1> USE DEF job, scan, procs, world, out, Resting
<1>0. /\ Scoped' = Scoped /\ EngineCall' = EngineCall /\ call' = call
      /\ \A k : InProcess(k)' = InProcess(k)
  BY ArgumentsKept
<1>1. ASSUME Begin PROVE QuietInv'
  <2>1. pc' = "next" /\ written' = {} /\ tree' = tree /\ listed' = {f \in Files : tree[f] # "absent"}
    BY <1>1 DEF Begin
  <2>2. result'["syntax"] = "none" /\ result'["security"] = "none" /\ leader' = "none"
    BY <1>1 DEF Begin, Checks, TypeOK
  <2> QED
    BY <2>1, <2>2 DEF QuietInv, ListedIsThere, SyntaxSoFar, SyntaxDone, SecuritySoFar,
      SecurityDone, Same
<1>2. ASSUME RejectCommand PROVE QuietInv'
  BY <1>0, <1>2 DEF RejectCommand, Report, Current, QuietInv, ListedIsThere,
    SyntaxSoFar, SyntaxDone, SecuritySoFar, SecurityDone, Same, Compiles, TypeOK,
    Waiting, EarnedInv
<1>3. ASSUME EndScan PROVE QuietInv'
  BY <1>0, <1>3 DEF EndScan, Report, QuietInv, ListedIsThere, SyntaxSoFar, SyntaxDone,
    SecuritySoFar, SecurityDone, Same, Compiles, TypeOK, Waiting, EarnedInv
<1>4. ASSUME SyntaxOverTime PROVE QuietInv'
  BY <1>0, <1>4 DEF SyntaxOverTime, QuietInv, ListedIsThere, SyntaxSoFar, SyntaxDone,
    SecuritySoFar, SecurityDone, Same, Compiles, TypeOK, Waiting, EarnedInv
<1>5. ASSUME Finish PROVE QuietInv'
  BY <1>0, <1>5 DEF Finish, QuietInv, ListedIsThere, SyntaxSoFar, SyntaxDone,
    SecuritySoFar, SecurityDone, Same, Compiles, TypeOK, Waiting, EarnedInv
<1>6. ASSUME NEW k \in Checks, SkipCheck(k) PROVE QuietInv'
  BY <1>0, <1>6 DEF SkipCheck, Report, Current, QuietInv, ListedIsThere, SyntaxSoFar,
    SyntaxDone, SecuritySoFar, SecurityDone, Same, Compiles, TypeOK, Waiting, EarnedInv
<1>7. ASSUME NEW k \in Checks, Missing(k) PROVE QuietInv'
  BY <1>0, <1>7 DEF Missing, Report, Current, Runs, InProcess, QuietInv, ListedIsThere,
    SyntaxSoFar, SyntaxDone, SecuritySoFar, SecurityDone, Same, Compiles, TypeOK,
    Waiting, EarnedInv
<1>8. ASSUME NEW k \in Checks, SpawnRaises(k) PROVE QuietInv'
  BY <1>0, <1>8 DEF SpawnRaises, Raise, Current, Runs, QuietInv, ListedIsThere,
    SyntaxSoFar, SyntaxDone, SecuritySoFar, SecurityDone, Same, Compiles, TypeOK,
    Waiting, EarnedInv
<1>9. ASSUME NEW k \in Checks, Spawn(k) PROVE QuietInv'
  BY <1>0, <1>9 DEF Spawn, Current, Runs, InProcess, QuietInv, ListedIsThere,
    SyntaxSoFar, SyntaxDone, SecuritySoFar, SecurityDone, Same, Compiles, TypeOK,
    Waiting, EarnedInv
<1>10. ASSUME NEW k \in Checks, StartScan(k) PROVE QuietInv'
  BY <1>0, <1>10 DEF StartScan, Current, InProcess, QuietInv, ListedIsThere,
    SyntaxSoFar, SyntaxDone, SecuritySoFar, SecurityDone, Same, Compiles, TypeOK,
    Waiting, EarnedInv
<1>11. ASSUME NEW f \in Files, Compile(f) PROVE QuietInv'
  BY <1>0, <1>11 DEF Compile, ReadOn, QuietInv, ListedIsThere, SyntaxSoFar, SyntaxDone,
    SecuritySoFar, SecurityDone, Same, Compiles, TypeOK, Waiting, EarnedInv
<1>12. ASSUME NEW f \in Files, CompileUnreadable(f) PROVE QuietInv'
  BY <1>0, <1>12 DEF CompileUnreadable, QuietInv, ListedIsThere, SyntaxSoFar,
    SyntaxDone, SecuritySoFar, SecurityDone, Same, Compiles, TypeOK, Waiting, EarnedInv
<1>13. ASSUME NEW f \in Files, CompilerMissing(f) PROVE QuietInv'
  BY <1>0, <1>13 DEF CompilerMissing, Report, QuietInv, ListedIsThere, SyntaxSoFar,
    SyntaxDone, SecuritySoFar, SecurityDone, Same, Compiles, TypeOK, Waiting, EarnedInv
<1>14. ASSUME NEW f \in Files, ScanFile(f) PROVE QuietInv'
  BY <1>0, <1>14 DEF ScanFile, ReadOn, Findings, QuietInv, ListedIsThere, SyntaxSoFar,
    SyntaxDone, SecuritySoFar, SecurityDone, Same, Compiles, TypeOK, Waiting, EarnedInv
<1>15. ASSUME NEW f \in Files, ScanRaises(f) PROVE QuietInv'
  BY <1>0, <1>15 DEF ScanRaises, Raise, QuietInv, ListedIsThere, SyntaxSoFar,
    SyntaxDone, SecuritySoFar, SecurityDone, Same, Compiles, TypeOK, Waiting, EarnedInv
<1>16. ASSUME Collect PROVE QuietInv'
  <2>1. /\ UNCHANGED <<call, repo, cur, files, listed, tree, written>> /\ leader' = "none"
        /\ pc = "wait" /\ pc' \in {"next", "scan"}
    BY <1>16 DEF Collect, AfterCall, Report, Outlive
  <2>2. ListedIsThere' /\ SecuritySoFar'
    BY <1>0, <1>16, <2>1 DEF Collect, AfterCall, Report, QuietInv, ListedIsThere, SecuritySoFar, Same,
      EarnedInv, Waiting
  <2>3. SyntaxSoFar'
    <3>1. SUFFICES ASSUME ~Scoped, cur = "syntax", ~errs', pc' = "scan",
                          NEW f \in (listed \cap Same) \ files
                   PROVE  Compiles(f)
      BY <1>0, <2>1 DEF SyntaxSoFar, Same, Compiles
    <3>2. ~errs /\ leader = "zero"
      BY <1>16, <3>1 DEF Collect, AfterCall
    <3> QED
      BY <2>1, <3>1, <3>2 DEF QuietInv, SyntaxSoFar
  <2>4. SyntaxDone' /\ SecurityDone'
    <3>1. \A k \in {"syntax", "security"} : ~Scoped => result'[k] = result[k]
      BY <1>16, <2>1 DEF Collect, AfterCall, Report, EarnedInv, Waiting, TypeOK, Checks
    <3> QED
      BY <1>0, <2>1, <3>1 DEF QuietInv, SyntaxDone, SecurityDone, Same, Compiles
  <2> QED
    BY <2>2, <2>3, <2>4 DEF QuietInv
<1>17. ASSUME CollectRaises PROVE QuietInv'
  BY <1>0, <1>17 DEF CollectRaises, Raise, Outlive, QuietInv, ListedIsThere,
    SyntaxSoFar, SyntaxDone, SecuritySoFar, SecurityDone, Same, Compiles, TypeOK,
    Waiting, EarnedInv
<1>18. ASSUME TimesOut PROVE QuietInv'
  BY <1>0, <1>18 DEF TimesOut, QuietInv, ListedIsThere, SyntaxSoFar, SyntaxDone,
    SecuritySoFar, SecurityDone, Same, Compiles, TypeOK, Waiting, EarnedInv
<1>19. ASSUME KillGroup PROVE QuietInv'
  BY <1>0, <1>19 DEF KillGroup, QuietInv, ListedIsThere, SyntaxSoFar, SyntaxDone,
    SecuritySoFar, SecurityDone, Same, Compiles, TypeOK, Waiting, EarnedInv
<1>20. ASSUME Drain PROVE QuietInv'
  <2>1. /\ UNCHANGED <<call, repo, cur, files, listed, tree, written>> /\ leader' = "none"
        /\ pc = "drain" /\ pc' \in {"next", "scan"}
    BY <1>20 DEF Drain, AfterCall, Report, Outlive
  <2>2. ListedIsThere' /\ SecuritySoFar'
    BY <1>0, <1>20, <2>1 DEF Drain, AfterCall, Report, QuietInv, ListedIsThere, SecuritySoFar, Same,
      EarnedInv, Waiting
  <2>3. SyntaxSoFar'
    BY <1>0, <1>20, <2>1 DEF Drain, AfterCall, Report, SyntaxSoFar
  <2>4. SyntaxDone' /\ SecurityDone'
    <3>1. \A k \in {"syntax", "security"} : ~Scoped => result'[k] = result[k]
      BY <1>20, <2>1 DEF Drain, AfterCall, Report, EarnedInv, Waiting, TypeOK, Checks
    <3> QED
      BY <1>0, <2>1, <3>1 DEF QuietInv, SyntaxDone, SecurityDone, Same, Compiles
  <2> QED
    BY <2>2, <2>3, <2>4 DEF QuietInv
<1>21. ASSUME Fix PROVE QuietInv'
  BY <1>0, <1>21 DEF Fix, QuietInv, ListedIsThere, SyntaxSoFar, SyntaxDone,
    SecuritySoFar, SecurityDone, Same, Compiles, TypeOK, Waiting, EarnedInv
<1>22. ASSUME LeaderExits PROVE QuietInv'
  BY <1>0, <1>22 DEF LeaderExits, QuietInv, ListedIsThere, SyntaxSoFar, SyntaxDone,
    SecuritySoFar, SecurityDone, Same, Compiles, TypeOK, Waiting, EarnedInv
<1>23. ASSUME NEW k \in Kid, Fork(k) PROVE QuietInv'
  BY <1>0, <1>23 DEF Fork, OwnCode, QuietInv, ListedIsThere, SyntaxSoFar, SyntaxDone,
    SecuritySoFar, SecurityDone, Same, Compiles, TypeOK, Waiting, EarnedInv
<1>24. ASSUME NEW k \in kids, LeavesSession(k) PROVE QuietInv'
  BY <1>0, <1>24 DEF LeavesSession, QuietInv, ListedIsThere, SyntaxSoFar, SyntaxDone,
    SecuritySoFar, SecurityDone, Same, Compiles, TypeOK, Waiting, EarnedInv
<1>25. ASSUME NEW k \in kids, KidEnds(k) PROVE QuietInv'
  BY <1>0, <1>25 DEF KidEnds, QuietInv, ListedIsThere, SyntaxSoFar, SyntaxDone,
    SecuritySoFar, SecurityDone, Same, Compiles, TypeOK, Waiting, EarnedInv
<1>26. ASSUME NEW p \in strays, StrayEnds(p) PROVE QuietInv'
  BY <1>0, <1>26 DEF StrayEnds, QuietInv, ListedIsThere, SyntaxSoFar, SyntaxDone,
    SecuritySoFar, SecurityDone, Same, Compiles, TypeOK, Waiting, EarnedInv
<1>27. ASSUME NEW f \in Files, NEW c \in Leaves, WriteFile(f, c) PROVE QuietInv'
  BY <1>0, <1>27 DEF WriteFile, OwnCode, QuietInv, ListedIsThere, SyntaxSoFar,
    SyntaxDone, SecuritySoFar, SecurityDone, Same, Compiles, TypeOK, Waiting, EarnedInv
<1>28. ASSUME Interrupt PROVE QuietInv'
  BY <1>0, <1>28 DEF Interrupt, QuietInv, ListedIsThere, SyntaxSoFar, SyntaxDone,
    SecuritySoFar, SecurityDone, Same, Compiles, TypeOK, Waiting, EarnedInv
<1>29. CASE UNCHANGED vars
  BY <1>0, <1>29 DEF vars, QuietInv, ListedIsThere, SyntaxSoFar, SyntaxDone,
    SecuritySoFar, SecurityDone, Same, Compiles, TypeOK, Waiting, EarnedInv
<1> QED
  BY <1>1, <1>2, <1>3, <1>4, <1>5, <1>6, <1>7, <1>8, <1>9, <1>10, <1>11, <1>12, <1>13,
    <1>14, <1>15, <1>16, <1>17, <1>18, <1>19, <1>20, <1>21, <1>22, <1>23, <1>24, <1>25,
    <1>26, <1>27, <1>28, <1>29 DEF Next, Main, Processes

LEMMA SyntaxAndSecurityPassed ==
  ASSUME TypeOK, EarnedInv, verdict = "pass", ~Scoped
  PROVE  result["syntax"] = "pass" /\ result["security"] = "pass"
<1>1. {"syntax", "security"} \subseteq Planned /\ {"syntax", "security"} \subseteq Checks
  BY DEF Planned, VerifyPlan, Checks
<1>2. \A k \in {"syntax", "security"} : result[k] # "none" /\ result[k] # "fail"
  BY <1>1 DEF EarnedInv, Accounted, Decided
<1>3. \A k \in {"syntax", "security"} : ~Excused(k)
  BY DEF Excused, Optional
<1>4. \A k \in {"syntax", "security"} : result[k] # "skip"
  BY <1>1, <1>3 DEF EarnedInv, Accounted, Decided
<1> QED
  BY <1>1, <1>2, <1>4 DEF TypeOK

(* A tree that passed verify, and was written by nobody meanwhile, has only  *)
(* files that compile, can be read and have no finding: what one of the two  *)
(* scans passes over the other reports.                                      *)
THEOREM QuietPass == Spec => []QuietPassIsClean
<1>1. TypeOK /\ EarnedInv /\ QuietInv /\ [Next]_vars => QuietInv'
  BY QuietKept
<1>2. ASSUME TypeOK, EarnedInv, QuietInv PROVE QuietPassIsClean
  <2>1. SUFFICES ASSUME verdict = "pass", ~Scoped, NEW f \in Files \ written
                 PROVE  tree[f] \in {"good", "absent"}
    BY DEF QuietPassIsClean
  <2>2. result["syntax"] = "pass" /\ result["security"] = "pass" /\ pc = "done"
    BY <1>2, <2>1, SyntaxAndSecurityPassed DEF EarnedInv, Decided
  <2> QED
    BY <1>2, <2>1, <2>2 DEF QuietInv, ListedIsThere, SyntaxDone, SecurityDone, Same, Compiles
<1>3. TypeOK /\ EarnedInv /\ [Next]_vars => EarnedInv'
  BY EarnedKept
<1> QED
  BY <1>1, <1>2, <1>3, QuietInit, EarnedInit, TypeCorrect, PTL DEF Spec

LEMMA SlipInit == Init => SlipInv
BY DEF Init, SlipInv, InPlan, ScanIsLast

\* In the order of verify, nothing the engines ask for comes after the scan.
LEMMA SecurityComesLast ==
  ASSUME ~Scoped, EngineCall, todo \subseteq VerifyPlan(call), Current("security")
  PROVE  todo = {"security"}
<1>1. VerifyPlan(call) = {"syntax", "tests", "security"}
  BY DEF VerifyPlan, EngineCall
<1>2. Order[1] = "syntax" /\ Order[2] = "tests" /\ Order[3] = "security"
      /\ DOMAIN Order = 1..8
      /\ Order[4] = "lint" /\ Order[5] = "coverage" /\ Order[6] = "pip_audit"
      /\ Order[7] = "playwright" /\ Order[8] = "custom"
  BY DEF Order
<1>3. \A d \in todo : d = "security"
  BY <1>1, <1>2 DEF Current
<1> QED
  BY <1>3 DEF Current

LEMMA SlipKept ==
  ASSUME TypeOK, EarnedInv, SlipInv, [Next]_vars
  PROVE  SlipInv'
<1> USE DEF job, scan, procs, world, out, Resting
<1>0. /\ Scoped' = Scoped /\ EngineCall' = EngineCall /\ call' = call
      /\ \A k : InProcess(k)' = InProcess(k)
  BY ArgumentsKept
<1>1. ASSUME Begin PROVE SlipInv'
  <2>1. /\ pc' = "next" /\ call' = call /\ result'["security"] = "none"
        /\ ~Scoped => todo' = VerifyPlan(call)
    BY <1>1 DEF Begin, Checks
  <2> QED
    BY <1>0, <2>1 DEF SlipInv, InPlan, ScanIsLast, VerifyPlan
<1>2. ASSUME RejectCommand PROVE SlipInv'
  BY <1>0, <1>2 DEF RejectCommand, Report, Current, SlipInv, InPlan, ScanIsLast, TypeOK,
    Waiting, EarnedInv
<1>3. ASSUME EndScan PROVE SlipInv'
  BY <1>0, <1>3 DEF EndScan, Report, SlipInv, InPlan, ScanIsLast, TypeOK, Waiting,
    EarnedInv
<1>4. ASSUME SyntaxOverTime PROVE SlipInv'
  BY <1>0, <1>4 DEF SyntaxOverTime, SlipInv, InPlan, ScanIsLast, TypeOK, Waiting,
    EarnedInv
<1>5. ASSUME Finish PROVE SlipInv'
  BY <1>0, <1>5 DEF Finish, SlipInv, InPlan, ScanIsLast, TypeOK, Waiting, EarnedInv
<1>6. ASSUME NEW k \in Checks, SkipCheck(k) PROVE SlipInv'
  BY <1>0, <1>6 DEF SkipCheck, Report, Current, SlipInv, InPlan, ScanIsLast, TypeOK,
    Waiting, EarnedInv
<1>7. ASSUME NEW k \in Checks, Missing(k) PROVE SlipInv'
  BY <1>0, <1>7 DEF Missing, Report, Current, Runs, InProcess, SlipInv, InPlan,
    ScanIsLast, TypeOK, Waiting, EarnedInv
<1>8. ASSUME NEW k \in Checks, SpawnRaises(k) PROVE SlipInv'
  BY <1>0, <1>8 DEF SpawnRaises, Raise, Current, Runs, SlipInv, InPlan, ScanIsLast,
    TypeOK, Waiting, EarnedInv
<1>9. ASSUME NEW k \in Checks, Spawn(k) PROVE SlipInv'
  BY <1>0, <1>9 DEF Spawn, Current, Runs, InProcess, SlipInv, InPlan, ScanIsLast,
    TypeOK, Waiting, EarnedInv
<1>10. ASSUME NEW k \in Checks, StartScan(k) PROVE SlipInv'
  <2>1. /\ UNCHANGED <<call, repo, todo, listed, result, tree, strayWrote>>
        /\ pc = "next" /\ pc' = "scan" /\ cur' = k /\ files' = listed /\ k \in todo /\ Current(k)
    BY <1>10 DEF StartScan, Current
  <2>2. InPlan'
    BY <1>0, <2>1 DEF SlipInv, InPlan, VerifyPlan
  <2>3. ~Scoped /\ EngineCall /\ k = "security" => todo = {"security"}
    BY <2>1, SecurityComesLast DEF SlipInv, InPlan
  <2>4. ScanIsLast'
    BY <1>0, <2>1, <2>3 DEF SlipInv, ScanIsLast
  <2> QED
    BY <2>2, <2>4 DEF SlipInv
<1>11. ASSUME NEW f \in Files, Compile(f) PROVE SlipInv'
  BY <1>0, <1>11 DEF Compile, ReadOn, SlipInv, InPlan, ScanIsLast, TypeOK, Waiting,
    EarnedInv
<1>12. ASSUME NEW f \in Files, CompileUnreadable(f) PROVE SlipInv'
  BY <1>0, <1>12 DEF CompileUnreadable, SlipInv, InPlan, ScanIsLast, TypeOK, Waiting,
    EarnedInv
<1>13. ASSUME NEW f \in Files, CompilerMissing(f) PROVE SlipInv'
  BY <1>0, <1>13 DEF CompilerMissing, Report, SlipInv, InPlan, ScanIsLast, TypeOK,
    Waiting, EarnedInv
<1>14. ASSUME NEW f \in Files, ScanFile(f) PROVE SlipInv'
  <2>1. /\ UNCHANGED <<pc, call, repo, cur, todo, listed, result, tree, strayWrote>>
        /\ pc = "scan" /\ cur = "security" /\ files' = files \ {f}
        /\ ~errs' => ~errs /\ tree[f] # "unsafe"
    BY <1>14 DEF ScanFile, ReadOn, Findings, TypeOK
  <2>2. InPlan'
    BY <1>0, <2>1 DEF SlipInv, InPlan, VerifyPlan
  <2>3. ScanIsLast'
    BY <1>0, <2>1 DEF SlipInv, ScanIsLast
  <2> QED
    BY <2>2, <2>3 DEF SlipInv
<1>15. ASSUME NEW f \in Files, ScanRaises(f) PROVE SlipInv'
  BY <1>0, <1>15 DEF ScanRaises, Raise, SlipInv, InPlan, ScanIsLast, TypeOK, Waiting,
    EarnedInv
<1>16. ASSUME Collect PROVE SlipInv'
  <2>1. /\ UNCHANGED <<call, repo, cur, files, listed, tree, strayWrote>>
        /\ pc = "wait" /\ pc' \in {"next", "scan"} /\ cur \in todo
        /\ IF cur = "syntax" THEN UNCHANGED <<todo, result>> /\ pc' = "scan"
           ELSE /\ todo' = todo \ {cur} /\ pc' = "next"
                /\ \E r : result' = [result EXCEPT ![cur] = r]
    BY <1>16 DEF Collect, AfterCall, Report, SlipInv, InPlan
  <2>2. InPlan'
    BY <1>0, <2>1 DEF SlipInv, InPlan, VerifyPlan
  <2>3. ScanIsLast'
    BY <1>0, <2>1 DEF SlipInv, ScanIsLast, EarnedInv, Waiting, TypeOK, Checks
  <2> QED
    BY <2>2, <2>3 DEF SlipInv
<1>17. ASSUME CollectRaises PROVE SlipInv'
  BY <1>0, <1>17 DEF CollectRaises, Raise, Outlive, SlipInv, InPlan, ScanIsLast, TypeOK,
    Waiting, EarnedInv
<1>18. ASSUME TimesOut PROVE SlipInv'
  BY <1>0, <1>18 DEF TimesOut, SlipInv, InPlan, ScanIsLast, TypeOK, Waiting, EarnedInv
<1>19. ASSUME KillGroup PROVE SlipInv'
  BY <1>0, <1>19 DEF KillGroup, SlipInv, InPlan, ScanIsLast, TypeOK, Waiting, EarnedInv
<1>20. ASSUME Drain PROVE SlipInv'
  <2>1. /\ UNCHANGED <<call, repo, cur, files, listed, tree, strayWrote>>
        /\ pc = "drain" /\ pc' \in {"next", "scan"} /\ cur \in todo
        /\ IF cur = "syntax" THEN UNCHANGED <<todo, result>> /\ pc' = "scan"
           ELSE /\ todo' = todo \ {cur} /\ pc' = "next"
                /\ \E r : result' = [result EXCEPT ![cur] = r]
    BY <1>20 DEF Drain, AfterCall, Report, SlipInv, InPlan
  <2>2. InPlan'
    BY <1>0, <2>1 DEF SlipInv, InPlan, VerifyPlan
  <2>3. ScanIsLast'
    BY <1>0, <2>1 DEF SlipInv, ScanIsLast, EarnedInv, Waiting, TypeOK, Checks
  <2> QED
    BY <2>2, <2>3 DEF SlipInv
<1>21. ASSUME Fix PROVE SlipInv'
  BY <1>0, <1>21 DEF Fix, SlipInv, InPlan, ScanIsLast, TypeOK, Waiting, EarnedInv
<1>22. ASSUME LeaderExits PROVE SlipInv'
  BY <1>0, <1>22 DEF LeaderExits, SlipInv, InPlan, ScanIsLast, TypeOK, Waiting,
    EarnedInv
<1>23. ASSUME NEW k \in Kid, Fork(k) PROVE SlipInv'
  BY <1>0, <1>23 DEF Fork, OwnCode, SlipInv, InPlan, ScanIsLast, TypeOK, Waiting,
    EarnedInv
<1>24. ASSUME NEW k \in kids, LeavesSession(k) PROVE SlipInv'
  BY <1>0, <1>24 DEF LeavesSession, SlipInv, InPlan, ScanIsLast, TypeOK, Waiting,
    EarnedInv
<1>25. ASSUME NEW k \in kids, KidEnds(k) PROVE SlipInv'
  BY <1>0, <1>25 DEF KidEnds, SlipInv, InPlan, ScanIsLast, TypeOK, Waiting, EarnedInv
<1>26. ASSUME NEW p \in strays, StrayEnds(p) PROVE SlipInv'
  BY <1>0, <1>26 DEF StrayEnds, SlipInv, InPlan, ScanIsLast, TypeOK, Waiting, EarnedInv
<1>27. ASSUME NEW f \in Files, NEW c \in Leaves, WriteFile(f, c) PROVE SlipInv'
  BY <1>0, <1>27 DEF WriteFile, OwnCode, SlipInv, InPlan, ScanIsLast, TypeOK, Waiting,
    EarnedInv
<1>28. ASSUME Interrupt PROVE SlipInv'
  BY <1>0, <1>28 DEF Interrupt, SlipInv, InPlan, ScanIsLast, TypeOK, Waiting, EarnedInv
<1>29. CASE UNCHANGED vars
  BY <1>0, <1>29 DEF vars, SlipInv, InPlan, ScanIsLast, TypeOK, Waiting, EarnedInv
<1> QED
  BY <1>1, <1>2, <1>3, <1>4, <1>5, <1>6, <1>7, <1>8, <1>9, <1>10, <1>11, <1>12, <1>13,
    <1>14, <1>15, <1>16, <1>17, <1>18, <1>19, <1>20, <1>21, <1>22, <1>23, <1>24, <1>25,
    <1>26, <1>27, <1>28, <1>29 DEF Next, Main, Processes

(* Whatever the tests write into a listed file, the engines' scan sees it,   *)
(* since it comes after them and nothing but a stray runs beside it.         *)
THEOREM ScanSeesTheTests == Spec => []TestsCannotSlipUnsafe
<1>1. TypeOK /\ EarnedInv /\ SlipInv /\ [Next]_vars => SlipInv'
  BY SlipKept
<1>2. ASSUME TypeOK, EarnedInv, SlipInv PROVE TestsCannotSlipUnsafe
  BY <1>2, SyntaxAndSecurityPassed
     DEF TestsCannotSlipUnsafe, SlipInv, ScanIsLast, EarnedInv, Decided
<1>3. TypeOK /\ EarnedInv /\ [Next]_vars => EarnedInv'
  BY EarnedKept
<1> QED
  BY <1>1, <1>2, <1>3, SlipInit, EarnedInit, TypeCorrect, PTL DEF Spec
=============================================================================
