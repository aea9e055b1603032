# Codelicious in TLA+

Codelicious reads Markdown specs with checkboxes, asks a coding agent to build
each box, verifies, commits, pushes, checks the box and keeps a draft pull
request per spec. This directory holds the specification of that program:
what its parts promise each other, checked by TLC on small instances and, for
every invariant, action property and refinement that holds, proved with TLAPS
for every instance.

Paths below are relative to `src/src/codelicious/`.

## 1. The system

| Component | State it keeps | Operations |
|---|---|---|
| Chunk loop (`orchestrator.py`) | chunk list, ledger in memory, engine list, `result`, `pr_number`, `all_chunks_ok` | one pass per chunk: ledger gate, deadline gate, execute and failover, verify, fix, commit, push, mark, record, or revert and record |
| Ledger (`orchestrator.py`) | `.codelicious/state/<spec>.json`, chunk id -> status | load, set, save (temp file and rename) |
| Spec files (`spec_discovery.py`, `parser.py`, `chunker.py`) | the checkboxes in the working tree | discover, parse, chunk, mark a box |
| Git and forge (`git/git_orchestrator.py`) | HEAD, index, working tree, origin, pull requests | branch, stage, commit, push with retries, revert, open or find a PR, mark it ready, split it |
| Engines (`engines/`) | none between calls (Claude), a message list (HuggingFace) | `execute_chunk`, `verify_chunk`, `fix_chunk` |
| Agent runner (`agent_runner.py`) | a subprocess, two drainer threads, a watchdog, a queue | `run_agent` |
| Verifier (`verifier.py`) | the results of one verification, a subprocess per check | `verify`, `verify_paths`, the `check_` functions |
| Tools (`tools/`, `sandbox.py`) | per-iteration call count, created-file quota, audit files | `dispatch`, `write_file`, log lines |
| Caches (`context/`) | `cache.json`, `state.json`, the SQLite index | read, modify, flush |
| Command line (`cli.py`) | `run.lock`, the engine, the specs of a cycle | checks at startup, credential probes, lock, signals, one run or continuous cycles |
| The rest | configuration, prompts, planner, log formatting | no state over time |

How they interact: `cli.py` takes the run lock, discovers the incomplete specs
and hands them to `Orchestrator.run`, which is sequential; it calls the engine
and `GitManager` one call at a time. What makes it hard is everything those
calls leave behind: the working tree, the index, HEAD, origin, the forge, the
spec's boxes and the ledger are seven stores written in a fixed order with no
transaction around them, any call may fail or time out half-way, the process
may be killed between any two, and the next process starts from what it finds.
Real concurrency is in three places: several processes on one repository (the
lock), the threads of the agent runner, and the processes a check of the
verifier starts, which run the repository's own code. The tool threads of the
HuggingFace engine are waited for one by one.

What makes each part correct:

* ledger: never claims more than git holds; a recorded id is not built again;
* chunk loop: unverified or failed work does not reach a commit (it does in two
  ways, see 3); a spec is complete only if every chunk is merged; the run ends;
* box marking: every merged chunk checks exactly one open box, none is
  checked without a commit;
* lock: one run at a time, and a dead run never blocks a later one;
* pull requests: one per branch, numbers and pushes about the branch checked
  out, all work pushed and in main or under review after a run without a failed call;
* agent runner: ends by the timeout, loses no outcome, leaves no process;
* tools: call limits and quotas hold, whatever fails;
* verifier: a pass is never the result of a check that was cut short, says
  something of the files, and leaves no process of a timed-out check behind;
* chunker: cutting a chunk to its token budget keeps ids apart and files whole;
* campaign: exit code 0 means built or on record as built, no cycle starts without
  its keys or goes on after a rate limit of `execute_chunk`, and continuous mode ends.

## 2. Modules

| Module | What it is |
|---|---|
| `SpecBuild` | `Orchestrator.run` building one spec, over several processes |
| `ChunkLedger` | what the ledger promises, abstractly; `SpecBuild` implements it |
| `MCSpecBuild` | outlines, titles and engine lists for TLC |
| `SpecBuild_proofs` | nine theorems about `SpecBuild` |
| `PullRequests` | branches, pushes, draft PRs, splits and review over several specs, cycles and runs |
| `MCPullRequests` | box counts and branch names for TLC |
| `ReviewFlow` | what origin and the forge may be made to do, abstractly; `PullRequests` implements it |
| `PullRequests_proofs` | seven theorems about `PullRequests` |
| `AgentRunner` | `run_agent`: the agent process, its pipes, two drainers, the watchdog and the main thread |
| `AgentRunner_proofs` | four theorems about `AgentRunner` |
| `HfEngine` | `execute_chunk` of the HuggingFace engine: loop, tool calls, reflection, verification, nested fixes |
| `Sandbox` | the quota of files a sandbox may create; `HfEngine` extends it |
| `HfEngine_proofs` | four theorems about `HfEngine` and `Sandbox` |
| `Verifier` | `verify` and `verify_paths`, their checks, and the processes these start |
| `MCVerifier` | the calls the engines make, and the opt-in ones, for TLC |
| `Verifier_proofs` | five theorems about `Verifier` |
| `WorkChunks` | the chunks of several specs, the token budget's halves, the box a mark goes to |
| `WorkChunks_proofs` | lemmas about its operators: walk, plan, halves, pieces, marks |
| `Campaign` | `main`: startup, credentials, cycles over several specs, exit code; extends `WorkChunks` |
| `MCCampaign` | outlines, command lines and hosts for TLC |
| `Campaign_proofs` | six theorems about `Campaign` |
| `RunLock` | `_run_lock`, system call by system call |
| `MCRunLock` | its symmetry for TLC |
| `RunLock_proofs` | three theorems about `RunLock` |

The modules share no variables; they meet at the calls between the components.
`SpecBuild` takes the verdict that `Verifier` is about and the engine outcomes
that `HfEngine` and `AgentRunner` are about as free choices. `PullRequests` and
`Campaign` take a chunk of `SpecBuild` as one step with its outcomes, the one
for what git and the forge are left with, the other for boxes, ledgers and the
exit code.

A definition marked `Slip` is a plausible mistake in the code it precedes (a
dropped guard, a missing reset): no specification uses it. It is there to be
put in place of the definition that follows it, and some property must then
fail. This is how each property was shown to be about the code.

### SpecBuild and the code

The spec is its outline: lines `1..N`, some of which (`Tasks`) are
checkboxes, the others headings. `ChunkSpec` is `chunk_spec`: one chunk per
open box, and a prose chunk for a section that has none. The number in a chunk
id is its position among the chunks of *this* run (`ChunkNo`), as in
`chunker.py:115`, which is what makes resuming delicate.

The working tree is what differs from HEAD. For each outline line the engine
may change a tracked file (`<<"edit", i>>`) and create one (`<<"new", i>>`);
the difference matters since only tracked changes are listed by `git diff` and
undone by `git checkout`, and only created files are removed by `git clean`.
Line 0 stands for the files the orchestrator itself writes when it starts
(`.gitignore` and `.claude/`). The spec file is a tracked file as well, and
its checked boxes are what it differs by: `specTree` in the tree, `specHead`
in HEAD.

`pc` names the place in the loop body; each action is the code from one place
to the next, including every store it writes:

| `pc` | Actions | `orchestrator.py` |
|---|---|---|
| `idle` | `StartRun` | 273-341 |
| `loop` | `SkipMerged`, `DeadlineStops`, `BeginChunk`, `SpecComplete`, `SpecIncomplete` | 342-398, 587-595 |
| `execute` | `ExecuteSucceeds`, `ExecuteFails`, `ExecuteRateLimited`, `EngineRaises` | 399-408 |
| `verify`, `fix`, `reverify` | `Verify`, `FixSucceeds`, `FixFails`, `EngineRaises`, `Reverify` | 411-427 |
| `commit` | `CommitChunk`, `CommitNothing` | 430-461, 495-508 |
| `push` | `Push` | 471-494 |
| `mark`, `save` | `MarkChunkComplete`, `SaveMerged` | 509-529 |
| `nodiff` | `SaveNoDiff` | 530-544 |
| `revert`, `failed` | `RevertChunkChanges`, `SaveFailed` | 545-584 |
| `review` | `TransitionPrToReview` | 590-591 |
| any | `Interrupt` | SIGTERM, SIGKILL, Ctrl-C |

What is given to `commit_chunk` (`Given`) are the files the engine named or, when
it named none, what git lists (`Collected`). A chunk of which nothing is
committed is recorded as failed with the reason "no-diff", and is not reverted:
`CommitNothing` leaves its files in the tree, and with `list`, `stage` or
`commit` in `Faults` there may be such files.

`Faults` names the calls that may fail in a run: `setup` (.gitignore or .claude/
not written), `list` (one or both listings of the modified files fail or raise),
`stage` (`git add` refuses a file, or all of them), `commit` (a hook, the
sensitive-file check, or `rev-parse` after the commit), `mark`, `save`, `clean`,
`checkout`. Push and forge failures are always possible. An engine's outcome is
always free: it may write any part of the chunk's work before it succeeds,
fails, is rate limited or raises.

Assumed: the spec and `.gitignore` are tracked files, `.gitignore` lacks
`.codelicious/` at first; one spec, parsed without error, every chunk within the
token budget; `push_pr` is true, as `cli.py` always passes it; PR caps are not
reached (they are in `PullRequests`); a `git reset` that fails after a failed
commit is not modelled; an agent writes files but makes no commits of its own.

### PullRequests and the code

Where `SpecBuild` looks into one chunk, `PullRequests` looks at what surrounds
it: `main()` with its cycles (`Start`, `EndCycle`, `Exit`), the start and end
of a spec (`BeginSpec`, `EndSpec`, `Review`), the head of the chunk loop with
the size caps (`SkipMerged`, `Deadline`, `BeginChunk`), the split
(`SplitReady`, `SplitBranch`, `SplitPush`, `SplitDraft`: the calls of
`_split_pr_and_continue` in their order), and push and lazy PR creation after
a commit (`PushChunk`, `DraftPr`). A chunk merges, fails, is rate limited or,
in a resumed spec, is skipped.

A branch is the set of commits it has beyond the first `main`, on origin
(`origin`) and in the repository (`local`). A forge takes one open PR per
branch, so a PR is named by its head and `pr_number` (`prNo`) is that name. The
helpers are `GitManager`'s methods and constrain the next state: `SafeBranch`
(`assert_safe_branch`), `CheckOut`, `EnsureDraft`, `TransitionPrToReview`;
`Found` is `_find_existing_pr`, and `PrCommitCount` and `PrDiffLoc` are the
counts, with every commit one line. Two environment actions: `Merge`, by which a
reviewer merges a ready PR at any moment, and `BackToMain`, by which the
operator returns to `main` between runs.

`SplitBranch` is `create_continuation_branch`: a new branch at HEAD or, when the
probes for the name failed and `git checkout -b` then refuses it, the branch that
has the name already, with its older head (`git_orchestrator.py:1253-1258`).

`Faults`: `checkout` (a checkout fails), `probe` (the two probes of
`_disambiguate_branch` fail, so that a taken name seems free), `push` (a push fails
after its retries), `count` (the forge or git cannot count), `forge` (no CLI or
authentication, a call of `gh` or `glab` fails or times out, before or after it
took effect). A push that is not a fast-forward is rejected without a fault.

`ReviewFlow` is what all of this may look like from outside: `Push`, `Draft`,
`Ready` and `Merge` of a branch, over `origin` and the states of the PRs alone.
`trouble` is the set of the kinds of call that failed in the run; a failed checkout is
its `failed`. One member of `trouble` is no failure: `orphan`, that the run pushed
commits after its own PR had been merged, and has not looked for a PR since.

Each cycle of each process counts towards `MaxCycles`.

Assumed: a non-empty diff for every commit; a PR is not closed unmerged; merges
keep the commits (no squash). Marking the box and saving the ledger is one step
here, since what happens between them is `SpecBuild`'s subject.

### RunLock and the code

The file name `run.lock` and the file behind it are kept apart: `link` is the
inode the name refers to, `owner` who holds `flock` on each inode, `fd` what
each process has open. `Open`, `Lock` or `Refuse`, `Unlock` and `RemoveFile`
are the system calls of `_run_lock` (`cli.py:183-230`) in their order; `Kill`
is an exit that runs no handler. `CleanDeletesLock` is the one interaction
with the rest: `git clean -fd` after a failed chunk deletes `.codelicious/`
when `.gitignore` does not hold it.

### AgentRunner and the code

One action per blocking call or step of each thread of `run_agent`
(`agent_runner.py:517-714`). The agent (`WriteOut`, `WriteErr`, `CloseStdout`,
`Spawn`, `ChildEnds`, `Exits`) does as it likes: it may hang, ignore SIGTERM,
close its stdout and go on, or leave children that hold its pipes. The threads
are `DrainStdout`, `DrainStderr` and the watchdog (`WatchdogWakes`,
`WatchdogFires`; between the two the cancelling may come too late). The main
thread's `pc` is the place in the loop (`check`, `get`, `poll`), in
`_enforce_timeout` (`term_wait`, `kill_wait`), in the `except` and `finally`
blocks, and in the last wait; a wait with a timeout either sees the agent dead
or gives up. Lines are counted, not named: `taken <= drained <= written`. The
clock is one bit, `late`: `timeout_s` has passed. `InterruptInTry` is Ctrl-C or
the `SystemExit` of the SIGTERM handler in the loop, `InterruptOutside` the same
where no code expects it, which `stray` records.

A signalled process may still exit by itself. A process that is `exiting` has
its exit code and closed its pipes, and is reaped by `Dies`.

### HfEngine, Sandbox and the code

`pc` is the place in `execute_chunk` (`huggingface_engine.py:48-290`): the head
of the loop, the LLM call (`ask`), the tool calls of an answer (`tools`),
`reflect` and its tool calls, `verify`, `fix`. `AskFails` to `AskComplete` are
what an answer, or its absence, leads to. An exception other than an `OSError`
leaves `execute_chunk` and, since `fix_chunk` catches nothing, every call of it
that waits (`Raise`).

`fix_chunk` is `execute_chunk` again, with a registry, a sandbox, a deadline and
counters of its own. `Fix` therefore starts all of them anew and pushes the one
local that the waiting call still reads, `retries_used`, on `stack`; `Return`
pops it. The history variables `run` and `made` are of the running call as well.

`ToolRegistry.dispatch` counts a call before anything else (`Refuse`, or
`Dispatch` and what the tool does). It is one step: the pool of its 60 s timeout
is left only when the tool has ended. A tool reads, writes a file through
`Sandbox.write_file`, or runs a command that may create and delete any file.

`Sandbox` keeps the files on disk, `_files_created_count` and `_written_paths`.
`write_file` holds `_write_lock` throughout, so a write is one step with four
outcomes: no room, written, failed with the slot given back (`WriteFails`), and
failed between the reservation and the `try` block that gives it back
(`MkdirFails`), which keeps the slot although no file was made.

The verdict of `verify_chunk` is a free choice each time; `verified` records
that the last one passed and nothing was written since. The branch for
`LLMRateLimitError` is left out, as nothing in the repository raises it.

### Verifier and the code

`Begin` is the call of `verify` or, when the chunk's files map to test modules
(`ScopedCall`), of `verify_paths`; `VerifyPlan` and `PathsPlan` are the checks
each makes and `Order` their order. Syntax and security are done in the process,
file by file (`StartScan`, `Compile`, `CompileUnreadable`, `ScanFile`, `EndScan`,
and `SyntaxOverTime` for the aggregate timeout). The content of a file is one
of six classes, as finely as the two scans tell files apart. Every other check is a
subprocess: `Check(k)` says when its `check_` function passes without running it
and what it reports if the program is missing; `Spawn`, `Collect`, `TimesOut`,
`KillGroup` and `Drain` are `_run_with_pgroup_kill` (`verifier.py:27-87`).
`Raise` is any exception that leaves the verifier, which the engine reports as a
failed verification. `Finish` is the verdict, with the coverage floor.

The processes of a check (`Fork`, `LeavesSession`, `KidEnds`, `WriteFile`) run
the repository's code: they fork, leave their session, keep the pipes open, and
write files, also after their check is over (`strays`). `Fix` is the engine's
answer to a failure and may write anything.

Abstracted: what the tools print and how it is parsed, and the patterns of
`check_security`, which are two classes of content. What the model shows besides
its properties: the tests may break a file after the syntax check passed it
(syntax runs first; the scan that follows the tests looks for findings), files
the tests create are not in `py_files`, and `verify_paths` has no syntax check at
all. The engines pass neither a coverage threshold nor the tools and languages
that four of the checks need, so from the chunk loop only syntax, tests and
security run, or lint, security and the mapped tests. SIGTERM or Ctrl-C during
a check leaves its processes running, as they have a session of their own.

### Campaign, WorkChunks and the code

`Campaign` is `main()` (`cli.py`) in its order: `CheckArguments`,
`ValidateDependencies`, `AuthPreflight`, `ProbeCredentials` with `Prompt`,
`KeyReady` and `StillLocked` for each key, `SelectEngine`, `Discover`, the cycle,
and `LastCycle` or `Rediscover`. A cycle is `Orchestrator.run`'s outer loop
(`StartRun` to `EndRun`) with a chunk as one step: `ChunkMerges`, `EngineFails`,
`RateLimited`, `EngineRaises`. A mark is in the tree before it is in a commit, so
`boxes` and `saved` are kept apart and a revert takes the later ones back.

Two histories serve the properties. `due` is what the cycle was given, first by
spec, then by chunk, and loses a chunk only when it is committed (`ChunkMerges`),
not when it is skipped. `limited` is the last call that met Claude's limit:
`execute_chunk` (`RateLimited`) or `fix_chunk` (`FixMayMeetLimit`), of which `run`
does not look at the result.

`WorkChunks` has what the chunks are: `ChunkSpec` as in `SpecBuild`, but for
several specs and with the files a box names, `enforce_token_budget` step by step
(`Dispatched`, `Halves`, driven by `BudgetKeeps` and `BudgetSplits`), and
`mark_chunk_complete` (`BoxFor`). File sizes change while chunks are built.

Assumed: boxes unchecked at first, specs and the `.gitignore` line committed; a
mark never fails and the ledger is its merged ids (`SpecBuild` has the faults);
dependencies of chunks are left out, as nothing reads them; `--help` too.

What the module shows of the code besides its properties:

* `cli.py:1098` compares `engine.name` with `"claude"`, but that engine calls
  itself `"Claude Code CLI"` (`claude_engine.py:39-40`): the list for failover never
  has a second engine. The chunker looks its token budget up by the same name
  and so always takes the default of 24,000.
* Head and tail of a chunk that was cut share a title, so the tail's mark goes to
  another task's box by the fallback. If the deadline or a rate limit then stops
  the cycle, that box stays checked for a task never built, and a later
  continuous cycle may exit with 0.
* Continuous mode with the ledger on can repeat itself for ever: after a partial
  cycle the open box gets the id of a merged one and is skipped each time
  (`SkipsOnlyMergedWork` below). A spec without boxes is never complete, so
  continuous mode builds it in every cycle. `CampaignEnds` excludes both by name
  (`Ending`).
* `--spec` holds for the first cycle only (`cli.py:1245-1247`); `--dry-run` stops
  behind the branch, lock and cache setup; ledgers are named by the file's stem,
  so two specs of that name share one.
* A `git config` call of the credential probe that fails reads as "key not
  needed". With `Faults = {"git"}` TLC refutes `KeysSeenBeforeCycle`; the
  theorem has the assumption that it does not fail. The probe is before the
  pause between cycles, so a key may expire in it.

## 3. Runs

| Run | Module | Question | Result |
|---|---|---|---|
| `build_resume` | `MCSpecBuild` | do ledger, boxes and git agree across two interruptible processes while stagings, commits, marks, saves and reverts fail? | holds |
| `build_fresh_run` | `MCSpecBuild` | does a run without a ledger check every box, keep reverted work out of commits, and end? | holds |
| `doc_resume_skips` | `MCSpecBuild` | is a chunk skipped as merged only if its work is in git? | refuted |
| `doc_verified` | `MCSpecBuild` | are only verified chunks committed? | refuted |
| `pr_split` | `MCPullRequests` | is every number, split and push about the branch checked out, does no work get lost or, without a failed call, miss origin and the PRs, and do origin and the forge move as `ReviewFlow` says? | holds |
| `doc_pr_ready` | `MCPullRequests` | does a PR become ready only through its own spec? | refuted |
| `agent_ends` | `AgentRunner` | does `run_agent` return by its timeout, with the agent's own outcome, no agent left and no pipe stuck? | holds |
| `hf_chunk` | `HfEngine` | is only verified work a success, do the limits hold, and does a chunk end? | holds |
| `verify_ends` | `MCVerifier` | is a pass earned and true of the files, does no timed-out group live on, and does every verification end? | holds |
| `campaign` | `MCCampaign` | does exit code 0 mean built or on record, are keys there and limits of `execute_chunk` heeded, do pieces tile the spec, does a success close every box, and does the process end? | holds |
| `lock_kills` | `MCRunLock` | does a killed run block or share the lock? | holds |
| `doc_lock_release` | `MCRunLock` | can two runs overlap? | refuted |

Properties of the runs that hold:

* `MergedHasCommit`, `LedgerPromise`: the ledger on disk and in memory never
  says merged of an id no commit names, and implements `ChunkLedger`: an id the
  file records as merged is not committed again (unless `--no-resume`).
* `CompleteMeansAllMerged`: the PR goes to review only when every chunk of the
  plan is merged, whatever ended the loop.
* `EveryMarkPaidByACommit`: there are never more checked boxes than commits.
* `FreshRunChecksEveryBox`: a run that knows no ledger, the first one or one
  with `--no-resume`, and completes leaves no open box, although titles are
  truncated, match other boxes, or are those of headings.
* `RevertedWorkNeverCommitted`: files of a chunk that failed in its engine or its
  verification in this run, and was reverted, do not enter a later commit, when
  the revert itself does not fail. It says nothing of a chunk recorded as failed
  for "no-diff", which is not reverted: after a failed listing, `git add` or
  commit its files do enter the next commit. That without these failures such
  a chunk leaves nothing is the theorem `NoDiffLeavesNothing`.
* `PrNumberIsOurs`: while chunks are built, `pr_number` is that of the PR of the
  branch checked out, through splits, failed calls, merges and several specs.
* `RunKeepsItsWork`: no split or checkout leaves a commit of the run behind. The
  one exception is a split whose probes failed and which falls back to an
  older branch: the branch checked out lacks the commits then, and they are on
  origin, unless a push failed as well.
* `WorkIsUnderReview`: when a run of which no call failed is done with a spec and
  has committed something, its branch is on origin, also what an earlier run
  committed and could not push, and is in main or on heads of open PRs. The
  second half leaves one case out (`orphan`): if a reviewer merges the run's own
  PR while it goes on, `pr_number` stays set (`orchestrator.py:480`) and the
  commits pushed after the merge get no PR until the run looks for one again,
  for another part or spec. TLC refutes the property without this exception.
  Runs of which a call failed are outside it.
* `ReviewPromise`: branches on origin only gain commits, a PR is opened as a draft
  for a branch main lacks something of and made ready later, and main gains
  commits only by the merge of a PR that was made ready, unless a call failed.
* `RunEnds`: from any place the loop comes back.
* `NoAgentLeft`: however the try block of `run_agent` is left, the agent is dead
  or was sent SIGKILL (interrupts outside the block excepted, see 5).
* `WatchdogMeansTimeout`, `OutcomeIsTheAgents`: the exit code that a signal of
  `run_agent` caused is never reported as the agent's own success or error,
  except of an agent that closed its stdout and went on.
* `RunReturns`: once the timeout has passed, `run_agent` returns.
* `NoPipeDeadlock`: before the timeout, a full pipe of a running agent is
  drained again.
* `SuccessIsVerified`: a chunk is a success only if the verification passed and
  no reflection, fix or fix of a fix wrote anything after it.
* `CallsWithinLimit`: one `execute_chunk` runs at most `max_calls_per_iteration`
  tool calls. The counter is meant to be reset between iterations
  (`registry.py:61-66`), but this engine never does, so the limit is per chunk.
* `QuotaHolds`: no sandbox creates more files than its quota, whatever fails
  and whatever commands delete beside it.
* `ChunkEnds`: `execute_chunk` comes to an end whatever the model answers, if
  only by the interpreter's recursion limit.
* `TimedOutGroupIsGone`: after a timeout nothing of the check's process group
  runs on; only what left the session does.
* `PassIsEarned`: a verification passes only if each check planned when it began ran
  to an exit code of 0 or scanned everything and found nothing. `verify` may pass over
  four optional checks, and the tests where there are none; `verify_paths` over none.
* `QuietPassIsClean`: a tree that passed `verify` and was written by nobody
  meanwhile has only files that compile, can be read and have no finding:
  what one scan passes over, the other reports.
* `TestsCannotSlipUnsafe`: an unsafe file the tests leave behind does not pass,
  as the scan comes after them.
* `VerificationEnds`: a check that hangs, forks or keeps its pipes open does
  not keep the verifier.
* `ExitZeroMeansBuilt`: exit code 0 after a build means that each chunk the last
  cycle was given was committed and recorded in it or, without `--no-resume`,
  skipped because the ledger on disk holds its id; that nothing was left out because it
  failed, could not be read or came too late; and in continuous mode that no spec is
  open. It does not mean that a skipped chunk is built: the ledger may be wrong about
  an id (`SkipsOnlyMergedWork`), and a resumed run then exits with 0 and an open box.
* `KeysSeenBeforeCycle`: in continuous mode each cycle starts only after a
  probe found every key git needs.
* `NoCallAfterExecuteLimit`: after a rate limit reported by `execute_chunk` no chunk
  is executed in the cycle. A limit that `fix_chunk` meets is no such end, see below.
* `PiecesTileTheSpec`: the pieces a spec is cut into name the files of its planned
  lines once each, in order, and no two of them have the same id.
* `SuccessClosesEveryBox`: a cycle that succeeds with `--no-resume` leaves no box of
  its specs open, although marks go by titles and heads and tails share them.
* `CampaignEnds`: the process ends; in continuous mode under `Ending`.
* `OwnersRun`, `OneRunUntilRemoval`: no stale lock; one run at a time until
  the lock file is first removed.

What the refuted ones show:

* `SkipsOnlyMergedWork`. First run: chunk 1 is merged and its box checked, the
  deadline stops the rest. Second run: the plan is the one open box, which is
  now number 1; the ledger says id 1 is merged; the chunk is skipped and, all
  chunks being "merged", the spec is reported complete. `orchestrator.py:335`
  promises that only merged chunks are skipped.
* `CommitsAreVerified`. `result` is replaced only if the fix succeeded, so
  after a failed fix, or a failed verification without a message, the commit
  goes on (`orchestrator.py:414-430`).
* `ReadyByOwnSpec`. `main()` calls `assert_safe_branch()` without a spec id
  (`cli.py:1107`), so the run sits on `codelicious/auto-build` and the later
  calls with an id keep it there. The second spec finds no PR of its own, `gh
  pr create` is refused as the branch has one, and its transition runs `gh pr
  ready` without a number: the draft PR of the first, unfinished spec is
  ready. The repository's README (84-85) has one draft PR per spec, ready when
  all verification passes.
* `MutualExclusion`. `_release` unlocks before it unlinks (`cli.py:220-228`).

Eight more disagreements show in the models without a run of their own:

* A part of a split starts at HEAD and its PR is against `main`, so until
  the part before is merged it holds that part's commits too: it is over the
  cap with its first commit, and every later chunk splits again. The
  repository's README (148) has "8 commits max per PR".
* `fix_chunk` runs `execute_chunk`, whose own verification asks for fixes with a
  count that starts at 0: the cap of two (`huggingface_engine.py:261-262`) holds
  per level only. The test of the cap replaces `fix_chunk` by a mock.
* `assert_safe_branch` logs a failed checkout and returns
  (`git_orchestrator.py:491`), after which chunks are built on `main` although
  its docstring (457) excludes that.
* A chunk of which nothing was committed because a listing, every `git add` or the
  commit failed is recorded as failed for "no-diff" and not reverted
  (`orchestrator.py:530-544`), so its files enter the commit of a later
  chunk. `commit_chunk` is to "Commit exactly one chunk's changes"
  (`git_orchestrator.py:996`).
* `_disambiguate_branch` is there "so a stale branch from a previous run doesn't get
  silently re-checked-out" (`git_orchestrator.py:1246-1247`), but a probe that fails
  reads as a free name, and the fallback (1253-1258) then does just that.
* After a merge of the run's PR, later commits of the same part and spec get no PR
  (`orchestrator.py:478-488`: it is opened only while `pr_number` is unset).
* A rate limit that `fix_chunk` meets (`claude_engine.py:240-249`) is a failed
  `fix_result`, which `orchestrator.py:416-427` ignores: the chunk is committed and the
  next one calls the engine again, against "every subsequent agent call will fail
  the same way. Abort the run" (575-578).
* `run_agent` takes the elapsed time after it has joined its threads
  (`agent_runner.py:699`), so an agent that finished in time may be reported as
  timed out.

### Bounds

`build_resume` (11.6 million states, two minutes) has two boxes and two
processes: an id can be merged in the first and met again in the second, with a
different line behind it, and each of the seven stores can be lost or left
behind in between. A third box adds no new relation between two ids. It uses the
HuggingFace engine, whose file list is the weaker one and which alone raises out
of the loop. `build_fresh_run` has a heading and two boxes, so that a failed
chunk can be followed by a chunk that commits while another is still to come,
and two processes, so that the second meets boxes that the first left checked;
box 2's title matches nothing and box 3's title is part of box 2 too; its engine
list fails over from Claude to HuggingFace. A listing that fails in it makes
files stay behind without a revert; failing stagings, commits and reverts are in
`build_resume`. `pr_split` has two specs of two boxes, two cycles, which are one
continuous run of two or two runs, and a cap of one commit: a run can split,
fail, meet its earlier PR again or find it merged, fall back to a part that an
earlier cycle left, and a spec can follow another on its branch (4.7 million
states). Two names for continuation branches let a run split twice; they are
interchangeable, which makes the symmetry sound. A third split that would need
another name stops there. In `lock_kills` five processes and three inodes allow
a stale file, a removal and a new file with two contenders on each; symmetry
under permutations of processes and inodes is sound as no property names one.
Inodes are used once, so a run of the model stops when they are used up.

`agent_ends` has two lines of stdout, one of stderr and pipes of one line: stdout
and stderr can each be full, and a line can be in the pipe, in the queue and
taken. Two interrupts let one hit the handling of the other.

`hf_chunk` has three iterations, so that an error can be followed by a success
and another error (two in a row end the loop), a limit of three tool calls
met by one answer or by three, one free slot for two paths, and three calls of
`execute_chunk` on the stack: the innermost cannot fix, the middle one returns
to a call that has fixes left. The code's 50 iterations, 5 errors and recursion
limit differ in number only.

`verify_ends` has one Python file, which is in every class of content at
first and may become unsafe at any time, two processes beside the one of the check
(one that leaves its session and one that does not, or one that outlived an
earlier check), and two rounds: the first verification and the one after a fix.
Its calls are those of the engines with and without mapped tests, a Python
and a web repository with the opt-in checks, and a refused custom command; the two
repositories have all that the checks look for, and nothing of it. The scans
treat files one by one, so a second file adds nothing but interleavings.

`campaign` has three specs, of which the process finds two or none: one with two
boxes, the first naming four files and titled so that its mark falls back, one with
a heading and a box, and one with nothing to build. Budgets and sizes make a
chunk fit, split once, or split again and stop at one file. Five command lines and
three hosts take every branch of startup. It explores 3.7 million states, in
about three minutes.

Deadlock is not checked: a system with no incomplete spec, with `MaxRuns`
processes started or `MaxCycles` begun, or with its one call returned has
nothing more to do; so has one whose process is over.

### Fairness

`RunEnds` needs weak fairness of `Step`: the running process takes its next
step. Every subprocess has a timeout (15 to 120 s for git, `gh` and `glab`,
the agent timeout for Claude) and the HuggingFace engine ends by `ChunkEnds`, so
every call returns. Nothing is assumed of the operator: `StartRun` and
`Interrupt` have no fairness.

`AgentRunner` assumes that the main thread and the daemon threads are scheduled
(weak fairness of each of them) and that a process that is exiting is gone in
the end. The agent and the clock have no fairness: `RunReturns` is about runs in
which the timeout passes, `NoPipeDeadlock` about those in which it does not.

`ChunkEnds` assumes that the engine takes its next step: an LLM call makes at
most four attempts with a timeout of 120 s, a command is killed after 120 s, and
the other tools and the verifier are bounded. The deadline has no fairness, the
iterations bound the loop without it.

`Verifier` and `Campaign` assume weak fairness of `Main`, the next step of the main
thread. In `Verifier` it includes the timeout of the wait (`TimesOut`) and of
the drain after the kill, so it stands for a clock that runs; the processes of a
check have no fairness. In `Campaign` every call main makes (git, `gh`, `ssh-add`,
the engines) has a timeout and the pause between cycles is bounded. Neither keys
nor engines are assumed to behave; for continuous mode `Ending` says what
`CampaignEnds` needs.

## 4. Proofs

`SpecBuild_proofs` proves, for every outline, title relation, engine list, set
of faults and number of runs that satisfy the assumptions of `SpecBuild`:

| Theorem | States |
|---|---|
| `TypeCorrect` | `Spec => []TypeOK` |
| `LedgerOnlyClaimsCommits` | `Spec => []MergedHasCommit` |
| `ReviewMeansAllMerged` | `Spec => []CompleteMeansAllMerged` |
| `ResumeNeverRecommits` | `Spec => NeverRecommitMerged` |
| `LedgerImplementsPromise` | `Spec => LedgerPromise` |
| `MarksArePaid` | `Spec => []EveryMarkPaidByACommit` |
| `FreshRunIsComplete` | `Spec => []FreshRunChecksEveryBox`, if `"mark" \notin Faults` |
| `RevertedWorkStaysOut` | `Spec => RevertedWorkNeverCommitted`, if `NoResume \/ MaxRuns <= 1` and `clean` and `checkout` do not fail |
| `NoDiffLeavesNothing` | `Spec => []NoDiffIsTrue`, if `list`, `stage` and `commit` do not fail |

`MergedHasCommit` alone is not inductive: `SaveMerged` records the current
chunk, so one must know that a commit for it landed on the way to `save`
(`RecordedIsLanded`). `NeverRecommitMerged` looks at the ledger *file* while
the loop consults the one in memory, so one must know that the file claims
nothing the memory does not (`FileIsKnown`) and that the current chunk was not
merged when it began (`CurIsOpen`). `CompleteMeansAllMerged` needs that every
chunk of the plan is still to come, current, or merged as long as
`all_chunks_ok` holds (`NoneLeftBehind`). `LedgerInv` is their conjunction;
each part has its lemma, and `Next` is split once into the end of a process,
a ledger record, a commit and the steps that touch neither.

`NeverRecommitMerged` is stated with its proof; the run checks it as the part of
`LedgerPromise` it is.

`MarksArePaid` needs that, when a mark is due, one commit is not yet spoken for
(`Paid`): at `mark` the boxes are fewer than the commits. A mark checks one box
at most (`MarkChecksOne`), a commit is one more (`LandMakesOne`), and a revert
only takes boxes back, as those of HEAD are among those of the tree.

`FreshRunIsComplete` cannot say which box a mark goes to, since titles may match
any of them, so its invariant counts: the open boxes are never more than the
chunks that still owe a mark (`BoxesOwed`, over `Owed`), and each mark pays
exactly one while any is open (`MarkPaysOne`). Such a run starts from an empty
ledger (`NothingYet`, `Fresh`), so a chunk is skipped only if it merged in this
run; for that the ids must differ (`IdsDiffer`, from `ChunkNoGrows`: positions
are strictly monotone). Without the assumption a chunk whose box could not be
written is merged and its box open. `RevertedWorkStaysOut` needs that the tree
never holds a file of another chunk recorded as failed in this run
(`NoRevertedWork`) and that the revert leaves nothing (`RevertedIsClean`), which
takes with it what a "no-diff" chunk left before. Both assumptions are needed: a
failed revert, or a process killed before it, leaves such files for the next
commit. `NoDiffLeavesNothing` is the other half: a chunk recorded as "no-diff"
changed nothing, as the engine reports changes only (`ReportIsTrue`), if no
listing, staging or commit fails. With such a failure it is false, and its files
go into a later commit.

`RunLock_proofs` proves `TypeCorrect` (`Spec => []TypeOK`), `NoStaleLock` (`Spec => []OwnersRun`) and
`ExclusionUntilRemoval` (`Spec => []OneRunUntilRemoval`) for any set of
processes and inodes. The strengthening is that every running process owns the
inode it has open, and that as long as the name was never removed every open
descriptor is of the linked inode (`OneFileUntilRemoval`).

`PullRequests_proofs` proves `TypeCorrect` (`Spec => []TypeOK`), `NumberIsOurs`
(`Spec => []PrNumberIsOurs`), `WorkIsKept` (`Spec => []RunKeepsItsWork`),
`WorkEndsUnderReview`, `ReviewersCanRely` (`Spec => ReviewPromise`),
`RunLeavesMain` and `OneSpecReadiesItsOwn` for all specs, branch names, caps and
faults such that `main` is not the name of a feature branch. `PrNumberIsOurs` is
inductive given the types, because a number is set only by `EnsureDraft`, on the
branch checked out, and is dropped before a chunk is built on another one.
`RunKeepsItsWork` needs that a process starts without commits of its own, that
the branch is pushed before it is split off, unless a push failed (`WorkKept`),
and that a checkout changes no branch but a new one, which starts at HEAD
(`CheckOutRefs`, `SafeBranchRefs`).

`WorkEndsUnderReview` (`Spec => []WorkIsUnderReview`) follows the commits of a
run of which no call failed: it is off `main` (`OffMain`), everywhere but between a
commit and its push the branch is on origin (`AllPushed`), and, but before a PR is
opened and unless the run's PR was merged under it, within main and the open PRs
(`AllSeen`). The set
`Reviewed` only grows: a push adds to it, `gh pr create` is refused only for a
branch that is in it already (`EnsureDraftReviews`), and a merge moves
commits from a PR to main (`MergeKeepsReviewed`). `PrNumberIsOurs` is what makes
the PR of the number the one that was pushed to.

`ReviewersCanRely` shows the refinement step by step, with one lemma per call that
reaches origin or the forge (`PushIsPromised`, `DraftIsPromised` and so on), each
a step of `ReviewFlow` or none. It rests on `OwnBranch`, that a process sits on
`main` only after a call of it failed, and on `MainHasNoPr`. From the first
follows `RunLeavesMain`: if `"checkout" \notin Faults`, no run is ever on `main`.
The assumption is needed, as a failed checkout is only logged.
`OneSpecReadiesItsOwn` assumes a single spec and proves the property that
`doc_pr_ready` refutes for two: `PrsHaveSpecs` is all it takes, so what the
refutation needs is a second spec on the branch and nothing else.

`AgentRunner_proofs` proves `TypeCorrect`, `AgentIsGone` (`Spec => []NoAgentLeft`),
`TimeoutIsReported` (`Spec => []WatchdogMeansTimeout`) and `OutcomeIsItsOwn`
(`Spec => []OutcomeIsTheAgents`) for any number of lines, pipe capacity and
number of interrupts. `AgentInv` adds what the three need: the agent is past
SIGKILL at each place behind the escalation (`Escalated`); the watchdog fires
only when it is late, and is cancelled and not firing once an outcome of the
agent is reported (`OnlyWhenLate`, `Undecided`); and the loop is left without an
exception only when the agent has ended or closed its stdout, so that the
cleanup's SIGTERM decides nothing (`LeftAlone`).

`HfEngine_proofs` proves `TypeCorrect` (`Spec => []TypeOK`), `OnlyVerifiedSuccess`
(`Spec => []SuccessIsVerified`), `CallLimit` (`Spec => []CallsWithinLimit`) and
`FileQuota` (`Spec => []QuotaHolds`) for all limits, paths and depths of recursion.
The quota rests on `Slots`: the count is that of the reserved paths, which include
every path made and may include, after a failed `mkdir`, one that was not; it is
shown for `Sandbox` alone (`SlotsKept`). The types need that a fix is asked for
below the cap only, and `Counted` that no call runs uncounted.

`Verifier_proofs` proves, for all files, calls, repositories and numbers of
processes and rounds, `TypeCorrect`, `NoGroupSurvives` (`Spec =>
[]TimedOutGroupIsGone`), `PassMeansExitZero` (`Spec => []PassIsEarned`),
`QuietPass` (`Spec => []QuietPassIsClean`) and `ScanSeesTheTests` (`Spec =>
[]TestsCannotSlipUnsafe`). The first rests on `Signalled`: between the kill and
the drain no descendant is in the group, since a process outside it has no child
inside. The second says of every check planned at the beginning (`Planned`) that
it is still to come, being waited for, or has a result it earned (`Accounted`,
`Waiting`, `Decided`). The third splits the files nobody wrote into those that a
scan has passed and those still in its hands (`SyntaxSoFar`, `SyntaxDone`,
`SecuritySoFar`, `SecurityDone`) and needs that the list made at the start is
right about them (`ListedIsThere`). The fourth needs that the scan is still to
come while tests run (`ScanIsLast`, from `InPlan`).

`Campaign_proofs` proves, for all specs, budgets, command lines, hosts and
sizes, `TypeCorrect`, `NoCallOnceLimited` (`Spec => []NoCallAfterExecuteLimit`),
`NoCycleWithoutKeys` (`Spec => []KeysSeenBeforeCycle`, if `Faults = {}`),
`ExitZeroIsHonest` (`Spec => []ExitZeroMeansBuilt`), `PiecesTile` (`Spec =>
[]PiecesTileTheSpec`) and `SuccessClosesAll` (`Spec =>
[]SuccessClosesEveryBox`). `LimitInv` relates the history to the abort flag and
to the position behind the last chunk. `KeysInv` says, along the order probe,
ssh, gpg, which keys were seen. `ExitInv` bounds what is due and not on record
(`Rest`) by what is still to come: the specs not begun, the chunks from the
current one on (`ChunksToCome`), and nothing for a spec that counts as
completed; that the counters say so is in the types (`Counted`). A chunk that is
skipped is on record since the ledger in memory is the one on disk
(`LedgerInv`), which only grows in a cycle; and with `--no-resume` none is
skipped (`SkippedIsOnRecord`, from the two invariants below).

`PiecesTile` takes the chunks kept and those still queued as one sequence, which
tiles the plan at every step of `enforce_token_budget` (`TilingInv`): a cut
replaces one piece by two that adjoin (`HalvesAdjoin`, `CutTiles`). That ids
stay apart is not inductive by itself. What is (`Apart`) is that an entry of the
queue has taken one letter per cut, so a later tail of it extends no id
already given (`CutApart`); it needs that a letter is never used up, which holds
as `_MAX_CHUNK_SPLIT_DEPTH` (3) is at most the number of letters (9), the
assumption `MaxDepth \in 0..Letters`.

`SuccessClosesAll` counts, as the titles may send a mark to any box: a spec has
never more open boxes than pieces still to come while none has failed
(`ClosedInv`). It starts so because a cut only adds pieces (`CutsTwoOrMore`),
each mark closes one open box (`MarkTakesOne`), and a piece is skipped only if
its id is that of an earlier one, which `TilingInv` excludes. A spec that is done
with none failed stays closed (`Closed`): only a failure reverts, and then the
cycle is none that succeeds. A resumed cycle is left out: `SkipsOnlyMergedWork` is refuted.

`WorkChunks_proofs` holds what these need of the operators: the walk and the
plan list each spec and line once and in order (`RankGrows`, `WalkGivesAll`,
`PlanInOrder`), and the facts about halves, pieces and marks named above.

Only model-checked: `RunEnds`, `RunReturns`, `NoPipeDeadlock`, `ChunkEnds`,
`VerificationEnds` and `CampaignEnds`, which are liveness under fairness. Every
other property of a run that passes is a theorem.

## 5. Not modelled

* Walking the repository for specs, parsing Markdown and building prompts: text,
  of which `SpecBuild` takes the outline as given.
* `chunk_spec_with_llm`, the planner, the legacy `BuildLoop` and the cache
  manager's operations: nothing on the path from the command line calls them.
  `truncate_history` is a pure function of messages whose content is abstracted.
* The audit log: it is written for a reader outside the program, and nothing
  reads it back.
* The RAG index: numeric ranking.
* Configuration, logging, prompts and constants.
* In `AgentRunner`, what the lines say and what their loss means for the
  rate-limit search; an interrupt between `Popen` and the try block, or inside
  the `finally` block, does leave the agent running, and the properties leave it
  out since the code does not try to handle it.

* In `HfEngine`, the four attempts of an LLM call and the branch for
  `LLMRateLimitError`, which nothing raises; in `PullRequests`, the legacy
  `commit_verified_changes`, PR texts and reviewers.

SIGTERM is modelled as an interrupt like any other: the code writes no ledger
entry for it. What would add most from here is an agent that makes commits of its
own in `SpecBuild`, and squash merges in `PullRequests`.
