------------------------------ MODULE Verifier ------------------------------
(***************************************************************************)
(* The verification of a chunk (verifier.py): verify and verify_paths run  *)
(* their checks one after the other, two of them in the process itself     *)
(* and the others as subprocesses with a timeout, and the engine turns the *)
(* results, or an exception, into one verdict.                             *)
(*                                                                         *)
(* A check runs the repository's own code, which may start children, let   *)
(* them leave its session, leave them behind, and write any file.          *)
(***************************************************************************)
EXTENDS Naturals, Sequences, FiniteSets

CONSTANTS
  Files,      \* Python files of the repository
  Calls,      \* the arguments a verification may be called with
  Repos,      \* what it may find: test and e2e directories, tools
  Leaves,     \* what a process of a check may leave in a file
  MaxKids,    \* bound: children of one check, and processes left behind
  MaxRounds   \* verifications of one chunk: the first, and after each fix

\* "broken" does not compile or is too large, "garbled" is not UTF-8 or makes
\* compile() raise ValueError, "unsafe" compiles but has a finding.
Content  == {"good", "broken", "unsafe", "garbled", "unreadable", "absent"}
Tools    == {"ruff", "eslint", "bandit", "pip-audit", "playwright", "pytest-cov"}
Linted   == {"python", "typescript", "javascript"}
Checks   == {"syntax", "tests", "security", "lint", "coverage", "pip_audit",
             "playwright", "custom"}

\* detect_languages sees the web in the dependencies of a package.json only.
Languages == {l \in SUBSET (Linted \cup {"web"}) : "web" \in l => "javascript" \in l}

Call == [paths : SUBSET Files, extended : BOOLEAN, tools : SUBSET Tools,
         languages : Languages, threshold : BOOLEAN,
         final : BOOLEAN, command : {"none", "rejected", "runs"}]
Repo == [tests : BOOLEAN, e2e : BOOLEAN, mapped : SUBSET Files,
         path : SUBSET Tools]

ASSUME VerifierAssumption ==
  /\ Calls \subseteq Call /\ Repos \subseteq Repo
  /\ Leaves \subseteq Content /\ MaxKids \in Nat /\ MaxRounds \in Nat

VARIABLES
  pc,
  call, repo,   \* arguments and surroundings of this verification
  listed,       \* py_files: found once, before the first check
  todo, cur,    \* checks still to run, the one running
  files, errs,  \* a check in the process: files left, errors or findings so far
  src,          \* the file in the hands of py_compile, if any
  result,       \* the CheckResults
  verdict,      \* what the engine is told: "pass", "fail" or "none" yet
  round,        \* verifications begun
  leader,       \* the subprocess: "none", "running", or its exit: "zero", "nonzero"
  kids,         \* its descendants that run
  strays,       \* processes that outlived their check
  tree,         \* contents of the files
  okExit,       \* history: checks whose subprocess exited with 0
  written,      \* history: files some process wrote since this round began
  strayWrote    \* history: a process wrote outside its own check

job   == <<call, repo, listed, round>>
scan  == <<files, errs, src>>
procs == <<leader, kids, strays>>
world == <<tree, written, strayWrote>>
out   == <<todo, result, verdict>>
vars  == <<pc, job, cur, scan, out, procs, world, okExit>>

\* A descendant: still in the session of its check, and holding its pipes?
Kid   == [inGroup : BOOLEAN, pipe : BOOLEAN]
Stray == [inGroup : BOOLEAN, timedOut : BOOLEAN]

Resting == {"idle", "done", "gone"}
-----------------------------------------------------------------------------
(* Which checks, in which order *)

\* _map_src_to_tests finds a test module: only then are the checks scoped.
ScopedCall(c, r) == c.paths \cap r.mapped # {}
Scoped == ScopedCall(call, repo)

\* What the engines pass: nothing but the chunk's files.
EngineCall == ~call.extended /\ ~call.threshold /\ call.command = "none"

Linter(c) == IF "python" \in c.languages THEN "ruff" ELSE "eslint"

\* verify: three checks always, four if the caller gives tools and languages.
VerifyPlan(c) ==
  {"syntax", "tests", "security"} \cup
  {k \in {"lint", "coverage", "pip_audit", "playwright"} : c.extended /\
     CASE k = "lint"       -> c.languages \cap Linted # {}
       [] k = "coverage"   -> c.threshold /\ "python" \in c.languages
       [] k = "pip_audit"  -> "python" \in c.languages
       [] k = "playwright" -> "web" \in c.languages}
  \cup {k \in {"custom"} : c.command # "none"}

\* verify_paths: ruff and bandit where they are installed, and the mapped tests.
PathsPlan(c, r, present) ==
  {k \in {"lint"} : "ruff" \in r.path /\ c.paths \cap present # {}}
  \cup {k \in {"security"} : "bandit" \in r.path}
  \cup {"tests"}

Planned == IF Scoped THEN PathsPlan(call, repo, listed) ELSE VerifyPlan(call)

\* Slip: the scan before the tests.
OrderScanFirst ==
  IF Scoped THEN <<"lint", "security", "tests">>
  ELSE <<"syntax", "security", "tests", "lint", "coverage", "pip_audit",
         "playwright", "custom">>
Order ==
  IF Scoped THEN <<"lint", "security", "tests">>
  ELSE <<"syntax", "tests", "security", "lint", "coverage", "pip_audit",
         "playwright", "custom">>

Current(k) ==
  /\ pc = "next" /\ k \in todo
  /\ \A d \in todo : \E i, j \in DOMAIN Order : i <= j /\ Order[i] = k /\ Order[j] = d

InProcess(k) == ~Scoped /\ k \in {"syntax", "security"}

\* The check_ functions that run a program: when they pass without running it,
\* and what they report if it is not found. A timeout or an exit other than 0 is
\* a failure of each.
TestsCheck    == [skips |-> ~repo.tests, missing |-> "fail"]
LintCheck     == [skips |-> Linter(call) \notin call.tools, missing |-> "skip"]
CoverageCheck == [skips |-> "pytest-cov" \notin repo.path \/ ~repo.tests, missing |-> "skip"]
AuditCheck    == [skips |-> "pip-audit" \notin call.tools, missing |-> "skip"]
CustomCheck   == [skips |-> FALSE, missing |-> "fail"]
PlaywrightCheck ==
  [skips |-> ~call.final \/ "playwright" \notin call.tools \/ ~repo.e2e, missing |-> "skip"]

Check(k) ==
  CASE k = "tests"      -> TestsCheck
    [] k = "lint"       -> LintCheck
    [] k = "coverage"   -> CoverageCheck
    [] k = "pip_audit"  -> AuditCheck
    [] k = "playwright" -> PlaywrightCheck
    [] OTHER            -> CustomCheck

Skips(k) == ~Scoped /\ ~InProcess(k) /\ Check(k).skips
-----------------------------------------------------------------------------
Init ==
  /\ pc = "idle" /\ call \in Calls /\ repo \in Repos /\ round = 0
  /\ listed = {} /\ todo = {} /\ cur = "syntax" /\ files = {} /\ errs = FALSE /\ src = {}
  /\ result = [k \in Checks |-> "none"] /\ verdict = "none"
  /\ leader = "none" /\ kids = {} /\ strays = {}
  /\ tree \in [Files -> Content]
  /\ okExit = {} /\ written = {} /\ strayWrote = FALSE

\* The engine calls verify, or verify_paths with the chunk's files.
Begin ==
  /\ pc = "idle" /\ round < MaxRounds
  /\ round' = round + 1 /\ UNCHANGED <<call, repo>>
  /\ listed' = {f \in Files : tree[f] # "absent"}
  /\ todo' = IF Scoped THEN PathsPlan(call, repo, listed') ELSE VerifyPlan(call)
  /\ result' = [k \in Checks |-> "none"] /\ verdict' = "none"
  /\ okExit' = {} /\ written' = {} /\ strayWrote' = FALSE
  /\ pc' = "next"
  /\ UNCHANGED <<cur, scan, procs, tree>>

\* Slip: children are not told from those of the next check.
OutliveWith(timedOut) ==
  /\ strays' = strays \cup {[inGroup |-> k.inGroup, timedOut |-> timedOut] : k \in kids}
  /\ leader' = "none" /\ UNCHANGED kids
\* What still runs of the current check is on its own from now on.
Outlive(timedOut) ==
  /\ strays' = strays \cup {[inGroup |-> k.inGroup, timedOut |-> timedOut] : k \in kids}
  /\ kids' = {} /\ leader' = "none"

\* An exception no check catches: the engine reports it as a failure.
Raise ==
  /\ pc' = "done" /\ verdict' = "fail"
  /\ UNCHANGED <<job, cur, scan, todo, result, world, okExit>>

Report(k, r) ==
  /\ result' = [result EXCEPT ![k] = r] /\ todo' = todo \ {k} /\ pc' = "next"
  /\ UNCHANGED <<job, verdict, world, okExit>>

\* A check passes as skipped, or the custom command is refused.
SkipCheck(k) ==
  /\ Current(k) /\ Skips(k)
  /\ Report(k, "skip")
  /\ UNCHANGED <<cur, scan, procs>>

RejectCommand ==
  /\ Current("custom") /\ call.command = "rejected"
  /\ Report("custom", "fail")
  /\ UNCHANGED <<cur, scan, procs>>

Runs(k) ==
  /\ Current(k) /\ ~InProcess(k) /\ ~Skips(k)
  /\ k = "custom" => call.command = "runs"

\* The program of a check is not found.
Missing(k) ==
  /\ Runs(k) /\ ~Scoped
  /\ Report(k, Check(k).missing)
  /\ UNCHANGED <<cur, scan, procs>>

\* Popen raises what the check does not catch; verify_paths catches nothing.
SpawnRaises(k) == Runs(k) /\ Raise /\ UNCHANGED procs

Spawn(k) ==
  /\ Runs(k)
  /\ cur' = k /\ leader' = "running" /\ pc' = "wait"
  /\ UNCHANGED <<job, scan, out, kids, strays, world, okExit>>
-----------------------------------------------------------------------------
(* Syntax and security: file by file, in the process *)

StartScan(k) ==
  /\ Current(k) /\ InProcess(k)
  /\ cur' = k /\ files' = listed /\ errs' = FALSE /\ pc' = "scan"
  /\ UNCHANGED <<job, src, out, procs, world, okExit>>

ReadOn(f, e) ==
  /\ files' = files \ {f} /\ errs' = (errs \/ e)
  /\ UNCHANGED <<pc, job, cur, src, out, procs, world, okExit>>

\* Slip: files that cannot be read are left to the security scan.
CompileReadable(f) ==
  /\ pc = "scan" /\ cur = "syntax" /\ f \in files
  /\ tree[f] # "garbled"
  /\ ReadOn(f, tree[f] = "broken")
\* compile() in the process: a syntax error or a file too large is an error.
Compile(f) ==
  /\ pc = "scan" /\ cur = "syntax" /\ f \in files
  /\ tree[f] \in {"good", "unsafe", "broken"}
  /\ ReadOn(f, tree[f] = "broken")

\* A file that cannot be read, or is gone: py_compile in a subprocess.
CompileUnreadable(f) ==
  /\ pc = "scan" /\ cur = "syntax" /\ f \in files
  /\ tree[f] \in {"unreadable", "absent"}
  /\ files' = files \ {f} /\ src' = {f} /\ leader' = "running" /\ pc' = "wait"
  /\ UNCHANGED <<job, cur, errs, out, kids, strays, world, okExit>>

\* No interpreter: check_syntax returns at once.
CompilerMissing(f) ==
  /\ pc = "scan" /\ cur = "syntax" /\ f \in files
  /\ tree[f] \in {"unreadable", "absent"}
  /\ Report("syntax", "fail")
  /\ UNCHANGED <<cur, scan, procs>>

\* The aggregate timeout: an error, and no further file.
SyntaxOverTime ==
  /\ pc = "scan" /\ cur = "syntax" /\ files # {}
  /\ files' = {} /\ errs' = TRUE
  /\ UNCHANGED <<pc, job, cur, src, out, procs, world, okExit>>

\* What check_security finds in a file; it passes over those it cannot read or
\* decode, and text that does not compile may match a pattern or not.
Findings(c) == IF c = "broken" THEN BOOLEAN ELSE {c = "unsafe"}

ScanFile(f) ==
  /\ pc = "scan" /\ cur = "security" /\ f \in files
  /\ \E e \in Findings(tree[f]) : ReadOn(f, e)

\* Neither check catches every error of what it calls on such a file.
ScanRaises(f) ==
  /\ pc = "scan" /\ f \in files
  /\ \/ cur = "syntax" /\ tree[f] = "garbled"
     \/ cur = "security" /\ tree[f] = "broken"
  /\ Raise /\ UNCHANGED procs

EndScan ==
  /\ pc = "scan" /\ files = {}
  /\ Report(cur, IF errs THEN "fail" ELSE "pass")
  /\ errs' = FALSE
  /\ UNCHANGED <<cur, files, src, procs>>
-----------------------------------------------------------------------------
(* A subprocess: _run_with_pgroup_kill *)

\* A process check is over; py_compile only adds to the errors of check_syntax.
AfterCall(r) ==
  IF cur = "syntax"
    THEN /\ errs' = (errs \/ r = "fail") /\ src' = {} /\ pc' = "scan"
         /\ UNCHANGED <<job, cur, files, out, world, okExit>>
    ELSE Report(cur, r) /\ UNCHANGED <<cur, scan>>

Silent == \A k \in kids : ~k.pipe

\* communicate has seen the end of both pipes and the exit.
Collect ==
  /\ pc = "wait" /\ leader \in {"zero", "nonzero"} /\ Silent
  /\ AfterCall(IF leader = "zero" THEN "pass" ELSE "fail")
  /\ Outlive(FALSE)

\* verify_paths decodes strictly: output that is not UTF-8 raises.
CollectRaises ==
  /\ pc = "wait" /\ leader \in {"zero", "nonzero"} /\ Silent /\ Scoped
  /\ Raise /\ Outlive(FALSE)

TimesOut ==
  /\ pc = "wait" /\ pc' = "kill"
  /\ UNCHANGED <<job, cur, scan, out, procs, world, okExit>>

\* Slip: only the immediate child is killed.
KillLeader ==
  /\ pc = "kill" /\ pc' = "drain" /\ leader' = "none"
  /\ UNCHANGED <<job, cur, scan, out, kids, strays, world, okExit>>
KillGroup ==
  /\ pc = "kill" /\ pc' = "drain"
  /\ leader' = "none" /\ kids' = {k \in kids : ~k.inGroup}
  /\ UNCHANGED <<job, cur, scan, out, strays, world, okExit>>

\* Slip: the output of the killed check is awaited without a limit.
DrainForever ==
  /\ pc = "drain" /\ Silent
  /\ AfterCall("fail") /\ Outlive(TRUE)
\* Slip: verify_paths goes on without a linter that timed out.
DrainSkips ==
  /\ pc = "drain"
  /\ AfterCall(IF Scoped /\ cur # "tests" THEN "skip" ELSE "fail") /\ Outlive(TRUE)
\* The pipes are closed, or 5 s later are not.
Drain ==
  /\ pc = "drain"
  /\ AfterCall("fail") /\ Outlive(TRUE)

\* No check is left: _enforce_coverage_floor compares the first percentage in
\* the output, which need not be the total, and may only demote.
Finish ==
  /\ pc = "next" /\ todo = {}
  /\ \E below \in BOOLEAN :
       /\ below => call.threshold /\ result["coverage"] = "pass"
       /\ result' = [result EXCEPT !["coverage"] = IF below THEN "fail" ELSE @]
  /\ verdict' = IF \E k \in Checks : result'[k] = "fail" THEN "fail" ELSE "pass"
  /\ pc' = "done"
  /\ UNCHANGED <<job, cur, scan, todo, procs, world, okExit>>

\* Ctrl-C or SIGTERM: the subprocess is in a session of its own and is left.
Interrupt ==
  /\ pc \notin Resting /\ pc' = "gone"
  /\ strays' = strays \cup {[inGroup |-> k.inGroup, timedOut |-> FALSE] : k \in kids}
                 \cup {[inGroup |-> TRUE, timedOut |-> FALSE] : l \in {leader} \cap {"running"}}
  /\ leader' = "none" /\ kids' = {}
  /\ UNCHANGED <<job, cur, scan, out, world, okExit>>

\* The engine's fix: it may write anything, and the chunk is verified again.
Fix ==
  /\ pc = "done" /\ verdict = "fail" /\ round < MaxRounds /\ EngineCall
  /\ tree' \in [Files -> Content] /\ pc' = "idle"
  /\ UNCHANGED <<job, cur, scan, out, procs, written, strayWrote, okExit>>
-----------------------------------------------------------------------------
(* The processes *)

\* py_compile reads its file; any other program does as it likes.
LeaderExits ==
  /\ leader = "running"
  /\ \E code \in {"zero", "nonzero"} :
       /\ cur = "syntax" => (code = "zero") = (\A f \in src : tree[f] \in {"good", "unsafe"})
       /\ leader' = code
       /\ okExit' = IF code = "zero" THEN okExit \cup {cur} ELSE okExit
  /\ UNCHANGED <<pc, job, cur, scan, out, kids, strays, world>>

OwnCode == cur # "syntax" /\ (leader = "running" \/ kids # {})

\* A child is in the group of its parent, and may have let go of the pipes.
Fork(k) ==
  /\ OwnCode /\ Cardinality(kids) + Cardinality(strays) < MaxKids
  /\ \/ leader = "running"
     \/ \E parent \in kids : (k.inGroup => parent.inGroup) /\ (k.pipe => parent.pipe)
  /\ kids' = kids \cup {k}
  /\ UNCHANGED <<pc, job, cur, scan, out, leader, strays, world, okExit>>

LeavesSession(k) ==
  /\ k.inGroup
  /\ kids' = (kids \ {k}) \cup {[k EXCEPT !.inGroup = FALSE]}
  /\ UNCHANGED <<pc, job, cur, scan, out, leader, strays, world, okExit>>

KidEnds(k) ==
  /\ kids' = kids \ {k}
  /\ UNCHANGED <<pc, job, cur, scan, out, leader, strays, world, okExit>>

StrayEnds(p) ==
  /\ strays' = strays \ {p}
  /\ UNCHANGED <<pc, job, cur, scan, out, leader, kids, world, okExit>>

\* What they write while nothing is verified is part of Fix.
WriteFile(f, c) ==
  /\ pc \notin Resting /\ tree[f] # c
  /\ \/ OwnCode /\ UNCHANGED strayWrote
     \/ strays # {} /\ strayWrote' = TRUE
  /\ tree' = [tree EXCEPT ![f] = c] /\ written' = written \cup {f}
  /\ UNCHANGED <<pc, job, cur, scan, out, procs, okExit>>

Main ==
  \/ Begin \/ RejectCommand \/ EndScan \/ SyntaxOverTime \/ Finish
  \/ \E k \in Checks : SkipCheck(k) \/ Missing(k) \/ SpawnRaises(k) \/ Spawn(k) \/ StartScan(k)
  \/ \E f \in Files : \/ Compile(f) \/ CompileUnreadable(f) \/ CompilerMissing(f)
                      \/ ScanFile(f) \/ ScanRaises(f)
  \/ Collect \/ CollectRaises \/ TimesOut \/ KillGroup \/ Drain
  \/ Fix

Processes ==
  \/ LeaderExits
  \/ \E k \in Kid : Fork(k)
  \/ \E k \in kids : LeavesSession(k) \/ KidEnds(k)
  \/ \E p \in strays : StrayEnds(p)
  \/ \E f \in Files, c \in Leaves : WriteFile(f, c)

Next == Main \/ Processes \/ Interrupt

\* The main thread is scheduled, and its clock runs: Main includes the timeouts.
Spec == Init /\ [][Next]_vars /\ WF_vars(Main)
-----------------------------------------------------------------------------
(* Properties *)

TypeOK ==
  /\ pc \in Resting \cup {"next", "scan", "wait", "kill", "drain"}
  /\ call \in Calls /\ repo \in Repos /\ listed \subseteq Files /\ round \in 0..MaxRounds
  /\ todo \subseteq Checks /\ cur \in Checks
  /\ files \subseteq Files /\ errs \in BOOLEAN /\ src \subseteq Files
  /\ result \in [Checks -> {"none", "pass", "skip", "fail"}]
  /\ verdict \in {"none", "pass", "fail"}
  /\ leader \in {"none", "running", "zero", "nonzero"}
  /\ kids \subseteq Kid /\ strays \subseteq Stray
  /\ tree \in [Files -> Content]
  /\ okExit \subseteq Checks /\ written \subseteq Files /\ strayWrote \in BOOLEAN
  /\ (leader # "none" => pc \in {"wait", "kill"}) /\ (kids # {} => pc \in {"wait", "kill", "drain"})

(* The docstring of _run_with_pgroup_kill (verifier.py:27-34): nothing of a  *)
(* timed-out check's process group lives on, to write to the tree while      *)
(* later checks read it or to hold a port they need; only what left the      *)
(* session does. Children may fork and leave until the signal comes.         *)
TimedOutGroupIsGone ==
  \A p \in strays : p.timedOut => ~p.inGroup

Optional == {"lint", "coverage", "pip_audit", "playwright"}

(* A pass is earned: every check planned when the verification began ran,    *)
(* and each that is a program exited with 0. Only verify, not verify_paths,  *)
(* may pass over one, and only over one of the optional four or the tests    *)
(* where there are none; an interrupted wait, a timeout or an exception      *)
(* never counts as a pass (verifier.py:678-733, 1263-1491).                  *)
PassIsEarned ==
  verdict = "pass" =>
    \A k \in Planned :
      \/ k \in okExit
      \/ InProcess(k) /\ result[k] = "pass"
      \/ ~Scoped /\ result[k] = "skip" /\ (k \in Optional \/ (k = "tests" /\ ~repo.tests))

(* verify reads every file: if nothing was written while it ran, each file   *)
(* of a tree that passed compiles, can be read and has no finding. The       *)
(* security scan ignores files it cannot read and the syntax check stops at  *)
(* its timeout, so each relies on the other to fail.                         *)
QuietPassIsClean ==
  verdict = "pass" /\ ~Scoped =>
    \A f \in Files \ written : tree[f] \in {"good", "absent"}

(* The tests run before the scan: what they write into a listed file cannot  *)
(* slip past it, as long as only checks that still run write, and no check   *)
(* an extended call adds comes after (verifier.py:1417-1424).                *)
TestsCannotSlipUnsafe ==
  verdict = "pass" /\ ~Scoped /\ ~strayWrote /\ EngineCall =>
    \A f \in listed : tree[f] # "unsafe"

(* Every verification comes to an end, whatever its subprocesses do: hang,   *)
(* leave the session with the pipes in hand, or fork for ever.               *)
VerificationEnds == (pc \notin Resting) ~> (pc \in Resting)
=============================================================================
