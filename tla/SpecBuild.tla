------------------------------ MODULE SpecBuild ------------------------------
(***************************************************************************)
(* Orchestrator.run (orchestrator.py) building ONE spec: the chunk loop    *)
(* with its engine calls, the git working tree, the spec's checkboxes, the *)
(* chunk-status ledger and the draft pull request, over several processes  *)
(* that may be interrupted and started again.                              *)
(*                                                                         *)
(* A spec is its outline: lines 1..N in document order, of which Tasks are *)
(* checkbox lines and the others headings of sections with a body.  The    *)
(* working tree is reduced to what can differ from HEAD: for every outline *)
(* line, whether the engine changed a tracked file (<<"edit", i>>) or      *)
(* created one (<<"new", i>>) for it.  Line 0 stands for the files the     *)
(* orchestrator itself writes when a run starts: the line appended to      *)
(* .gitignore (<<"edit", 0>>) and the scaffolded .claude/ (<<"new", 0>>).  *)
(* The spec file is SpecFile; it differs from HEAD by its checked boxes.   *)
(*                                                                         *)
(* The PR caps are taken not to be reached here: see PullRequests.         *)
(***************************************************************************)
EXTENDS Integers, Sequences, FiniteSets

CONSTANTS
  N,         \* lines of the spec's outline
  Tasks,     \* the lines that are checkboxes; the others are headings
  TitleIn,   \* TitleIn[i]: the boxes whose text contains the title of chunk i
  Engines,   \* the engine list: "claude" or "huggingface", in failover order
  NoResume,  \* --no-resume
  Faults,    \* the git and file-system calls that may fail
  Interrupts,\* may SIGTERM, SIGKILL or Ctrl-C end a run?
  MaxRuns    \* bound: processes started

Items == 1..N
EngineKinds == {"claude", "huggingface"}
FaultKinds  == {"setup", "list", "stage", "commit", "mark", "save", "clean", "checkout"}

ASSUME OutlineAssumption ==
  /\ N \in Nat \ {0}
  /\ Tasks \subseteq Items
  /\ TitleIn \in [Items -> SUBSET Tasks]
ASSUME EnginesAssumption ==
  Engines \in Seq(EngineKinds) /\ Len(Engines) > 0
ASSUME SwitchAssumption ==
  /\ NoResume \in BOOLEAN /\ Interrupts \in BOOLEAN /\ MaxRuns \in Nat
  /\ Faults \subseteq FaultKinds

VARIABLES
  (* what survives the process *)
  specTree,  \* boxes checked in the working tree's copy of the spec
  specHead,  \* boxes checked in the committed spec
  tree,      \* paths of the working tree that differ from HEAD (spec excepted)
  head,      \* paths whose change is committed
  commits,   \* commits[n]: commits whose subject names chunk id n
  pushed,    \* chunk ids whose commits are on origin
  disk,      \* .codelicious/state/<spec>.json: chunk id -> status
  forge,     \* the branch's pull request: "none", "draft" or "ready"
  runs,      \* processes started
  (* the process *)
  pc,
  plan,      \* outline lines chunk_spec turned into chunks
  todo,      \* those the loop has not come to
  cur,       \* the chunk being built, 0 outside a chunk
  ledger,    \* the ledger in memory
  files,     \* result.files_modified
  verdict,   \* the last verification of the chunk
  engine,    \* index of self._engines[0] in Engines
  prKnown,   \* pr_number is not None
  allOk      \* all_chunks_ok

durable == <<specTree, specHead, tree, head, commits, pushed, disk, forge, runs>>
process == <<pc, plan, todo, cur, ledger, files, verdict, engine, prKnown, allOk>>
vars    == <<durable, process>>

-----------------------------------------------------------------------------
(* Files and chunks *)

WorkOf(i) == {<<"edit", i>>, <<"new", i>>}
Setup     == WorkOf(0)
Path      == {"edit", "new"} \X (0..N)
SpecFile  == <<"spec", 0>>

\* `git diff HEAD` together with `git ls-files --others`, and its tracked part.
Changed(t) == t \cup (IF specTree = specHead THEN {} ELSE {SpecFile})
Tracked(t) == {p \in Changed(t) : p[1] # "new"}

\* files_modified as each engine's execute_chunk collects it: Claude lists every
\* change; HuggingFace only tracked files, and before its own fix cycle.
Report(final, early) ==
  IF Engines[engine] = "claude" THEN Changed(final) ELSE Tracked(early)

Headings == Items \ Tasks
SectionTasks(h) == {t \in Tasks : t > h /\ \A g \in Headings : g <= h \/ g > t}

\* One chunk per unchecked box; a section with none left is one prose chunk.
ChunkSpec(checked) ==
  (Tasks \ checked) \cup {h \in Headings : SectionTasks(h) \subseteq checked}

\* The number in the id spec-<id>-chunk-<n>: the chunk's position in the plan.
ChunkNo(i) == Cardinality({j \in plan : j <= i})

ChunkIds == Items
\* "failed" with the reason "no-diff" is a status of its own: such a chunk is
\* not reverted.
Status   == {"none", "failed", "no-diff", "merged"}
NoLedger == [n \in ChunkIds |-> "none"]

\* discover_incomplete_specs: an unchecked box, or no checked box at all.
Incomplete == Tasks \ specTree # {} \/ specTree = {}

\* The box mark_chunk_complete checks: the first unchecked one that contains
\* the title, else the first unchecked one.
First(i, S) == i \in S /\ \A j \in S : i <= j
\* Slip: without the fallback to the first open box.
BoxForByTitle(i) ==
  {b \in Tasks : First(b, (Tasks \ specTree) \cap TitleIn[i])}

BoxFor(i) ==
  LET open  == Tasks \ specTree
      named == open \cap TitleIn[i]
  IN  {b \in Tasks : First(b, IF named = {} THEN open ELSE named)}

Implemented(i) == WorkOf(i) \cap head # {}

-----------------------------------------------------------------------------
Init ==
  /\ specTree = {} /\ specHead = {}
  /\ tree = {} /\ head = {}
  /\ commits = [n \in ChunkIds |-> 0]
  /\ pushed = {}
  /\ disk = NoLedger
  /\ forge = "none"
  /\ runs = 0
  /\ pc = "idle" /\ plan = {} /\ todo = {} /\ cur = 0
  /\ ledger = NoLedger
  /\ files = {} /\ verdict = "none"
  /\ engine = 1 /\ prKnown = FALSE /\ allOk = FALSE

ProcessEnds ==
  /\ pc' = "idle" /\ plan' = {} /\ todo' = {} /\ cur' = 0
  /\ ledger' = NoLedger
  /\ files' = {} /\ verdict' = "none"
  /\ engine' = 1 /\ prKnown' = FALSE /\ allOk' = FALSE

StartRun ==
  /\ pc = "idle" /\ runs < MaxRuns /\ Incomplete
  /\ \/ tree' = tree \cup (Setup \ head)
     \/ "setup" \in Faults /\ tree' = tree
  /\ plan' = ChunkSpec(specTree) /\ todo' = plan'
  /\ ledger' = IF NoResume THEN NoLedger ELSE disk
  /\ pc' = "loop" /\ allOk' = TRUE
  /\ runs' = runs + 1
  /\ UNCHANGED <<specTree, specHead, head, commits, pushed, disk, forge,
                 cur, files, verdict, engine, prKnown>>

-----------------------------------------------------------------------------
(* The head of the chunk loop *)

SkipMerged ==
  /\ pc = "loop"
  /\ \E i \in todo :
        /\ First(i, todo)
        /\ ledger[ChunkNo(i)] = "merged"
        /\ todo' = todo \ {i}
  /\ UNCHANGED <<durable, pc, plan, cur, ledger, files, verdict, engine, prKnown, allOk>>

\* Slip: the deadline leaves the loop without clearing all_chunks_ok.
DeadlineStopsQuietly ==
  /\ pc = "loop"
  /\ \E i \in todo : First(i, todo) /\ ledger[ChunkNo(i)] # "merged"
  /\ todo' = {}
  /\ UNCHANGED <<durable, pc, plan, cur, ledger, files, verdict, engine, prKnown, allOk>>

DeadlineStops ==
  /\ pc = "loop"
  /\ \E i \in todo : First(i, todo) /\ ledger[ChunkNo(i)] # "merged"
  /\ todo' = {} /\ allOk' = FALSE
  /\ UNCHANGED <<durable, pc, plan, cur, ledger, files, verdict, engine, prKnown>>

\* Slip: the loop builds a chunk without asking the ledger.
BeginAnyChunk ==
  /\ pc = "loop"
  /\ \E i \in todo :
        /\ First(i, todo)
        /\ cur' = i
        /\ todo' = todo \ {i}
  /\ pc' = "execute"
  /\ UNCHANGED <<durable, plan, ledger, files, verdict, engine, prKnown, allOk>>

BeginChunk ==
  /\ pc = "loop"
  /\ \E i \in todo :
        /\ First(i, todo)
        /\ ledger[ChunkNo(i)] # "merged"
        /\ cur' = i
        /\ todo' = todo \ {i}
  /\ pc' = "execute"
  /\ UNCHANGED <<durable, plan, ledger, files, verdict, engine, prKnown, allOk>>

-----------------------------------------------------------------------------
(* Engine calls.  The agent may write before it reports any outcome. *)

ExecuteSucceeds ==
  /\ pc = "execute"
  /\ \E made \in SUBSET WorkOf(cur), early \in SUBSET WorkOf(cur) :
        /\ early \subseteq made
        /\ tree' = tree \cup made
        /\ \/ files' = Report(tree \cup made, tree \cup early)
           \/ "list" \in Faults /\ files' = {}
  /\ pc' = "verify"
  /\ UNCHANGED <<specTree, specHead, head, commits, pushed, disk, forge, runs,
                 plan, todo, cur, ledger, verdict, engine, prKnown, allOk>>

ExecuteFails ==
  /\ pc = "execute"
  /\ \E made \in SUBSET WorkOf(cur) : tree' = tree \cup made
  /\ pc' = "revert"
  /\ UNCHANGED <<specTree, specHead, head, commits, pushed, disk, forge, runs,
                 plan, todo, cur, ledger, files, verdict, engine, prKnown, allOk>>

\* A rate limit moves on to the next engine; on the last one the chunk fails
\* and the loop is left.
ExecuteRateLimited ==
  /\ pc = "execute" /\ Engines[engine] = "claude"
  /\ \E made \in SUBSET WorkOf(cur) : tree' = tree \cup made
  /\ \/ /\ engine < Len(Engines)
        /\ engine' = engine + 1
        /\ UNCHANGED <<pc, todo>>
     \/ /\ engine = Len(Engines)
        /\ pc' = "revert" /\ todo' = {}
        /\ UNCHANGED engine
  /\ UNCHANGED <<specTree, specHead, head, commits, pushed, disk, forge, runs,
                 plan, cur, ledger, files, verdict, prKnown, allOk>>

\* The HuggingFace engine lets LLM errors out of execute_chunk, and fix_chunk
\* calls it: the exception leaves run() and ends the process.
EngineRaises ==
  /\ pc \in {"execute", "fix"} /\ Engines[engine] = "huggingface"
  /\ \E made \in SUBSET WorkOf(cur) : tree' = tree \cup made
  /\ ProcessEnds
  /\ UNCHANGED <<specTree, specHead, head, commits, pushed, disk, forge, runs>>

\* "silent": success is False and the message is empty, so no fix is tried.
Verify ==
  /\ pc = "verify"
  /\ verdict' \in {"passed", "failed", "silent"}
  /\ pc' = IF verdict' = "failed" THEN "fix" ELSE "commit"
  /\ UNCHANGED <<durable, plan, todo, cur, ledger, files, engine, prKnown, allOk>>

FixSucceeds ==
  /\ pc = "fix"
  /\ \E made \in SUBSET WorkOf(cur), early \in SUBSET WorkOf(cur) :
        /\ early \subseteq made
        /\ Engines[engine] = "claude" => early = made
        /\ tree' = tree \cup made
        /\ \/ files' = files \cup Tracked(tree \cup early)
           \/ "list" \in Faults /\ files' = files
  /\ pc' = "reverify"
  /\ UNCHANGED <<specTree, specHead, head, commits, pushed, disk, forge, runs,
                 plan, todo, cur, ledger, verdict, engine, prKnown, allOk>>

FixFails ==
  /\ pc = "fix"
  /\ \E made \in SUBSET WorkOf(cur) : tree' = tree \cup made
  /\ pc' = "commit"
  /\ UNCHANGED <<specTree, specHead, head, commits, pushed, disk, forge, runs,
                 plan, todo, cur, ledger, files, verdict, engine, prKnown, allOk>>

\* Slip: fixing is repeated until the verification passes.
ReverifyUntilPassed ==
  /\ pc = "reverify"
  /\ verdict' \in {"passed", "failed", "silent"}
  /\ pc' = IF verdict' = "passed" THEN "commit" ELSE "fix"
  /\ UNCHANGED <<durable, plan, todo, cur, ledger, files, engine, prKnown, allOk>>

Reverify ==
  /\ pc = "reverify"
  /\ verdict' \in {"passed", "failed", "silent"}
  /\ pc' = IF verdict' = "passed" THEN "commit" ELSE "revert"
  /\ UNCHANGED <<durable, plan, todo, cur, ledger, files, engine, prKnown, allOk>>

-----------------------------------------------------------------------------
(* Commit, push, mark, record *)

\* What Orchestrator.run collects itself when the engine listed nothing: each
\* of the two git calls may fail, and the list then lacks what it would add.
Collected ==
  {Changed(tree)} \cup
  (IF "list" \in Faults THEN {{}, Tracked(tree), Changed(tree) \ Tracked(tree)} ELSE {})

\* The lists commit_chunk may be given, reduced to what differs from HEAD.
Given == IF files = {} THEN Collected ELSE {Changed(tree) \cap files}

\* One commit of what git add staged: a file it fails on is left out.
Land(staged) ==
  /\ staged # {}
  /\ head' = head \cup (staged \ {SpecFile})
  /\ tree' = tree \ staged
  /\ specHead' = IF SpecFile \in staged THEN specTree ELSE specHead
  /\ commits' = [commits EXCEPT ![ChunkNo(cur)] = @ + 1]

LandGiven ==
  \E given \in Given : \E staged \in SUBSET given :
    ("stage" \in Faults \/ staged = given) /\ Land(staged)

CommitChunk ==
  /\ pc = "commit"
  /\ LandGiven
  /\ pc' = "push"
  /\ UNCHANGED <<specTree, pushed, disk, forge, runs,
                 plan, todo, cur, ledger, files, verdict, engine, prKnown, allOk>>

\* Slip: a commit that did not happen leaves files_str as it was.
CommitNothingIsSuccess ==
  /\ pc = "commit"
  /\ {} \in Given \/ {"stage", "commit"} \cap Faults # {}
  /\ pc' = "mark"
  /\ UNCHANGED <<durable, plan, todo, cur, ledger, files, verdict, engine, prKnown, allOk>>

\* Nothing was listed, every `git add` failed, or commit_chunk did: the hook or
\* sensitive-file check refused it, or it landed and `git rev-parse` failed
\* after it.  Nothing is reverted: what the chunk wrote stays in the tree.
CommitNothing ==
  /\ pc = "commit"
  /\ \/ /\ {} \in Given \/ {"stage", "commit"} \cap Faults # {}
        /\ UNCHANGED <<head, tree, specHead, commits>>
     \/ "commit" \in Faults /\ LandGiven
  /\ pc' = "nodiff"
  /\ UNCHANGED <<specTree, pushed, disk, forge, runs,
                 plan, todo, cur, ledger, files, verdict, engine, prKnown, allOk>>

CommittedIds == {n \in ChunkIds : commits[n] > 0}

\* push_to_origin and, after a first successful push, ensure_draft_pr_exists,
\* which returns None (or raises) when the forge call fails.
Push ==
  /\ pc = "push"
  /\ \/ /\ pushed' = CommittedIds
        /\ \/ ~prKnown /\ forge' = (IF forge = "none" THEN "draft" ELSE forge) /\ prKnown' = TRUE
           \/ UNCHANGED <<forge, prKnown>>
     \/ UNCHANGED <<pushed, forge, prKnown>>
  /\ pc' = "mark"
  /\ UNCHANGED <<specTree, specHead, tree, head, commits, disk, runs,
                 plan, todo, cur, ledger, files, verdict, engine, allOk>>

MarkChunkComplete ==
  /\ pc = "mark"
  /\ \/ specTree' = specTree \cup BoxFor(cur)
     \/ "mark" \in Faults /\ UNCHANGED specTree
  /\ pc' = "save"
  /\ UNCHANGED <<specHead, tree, head, commits, pushed, disk, forge, runs,
                 plan, todo, cur, ledger, files, verdict, engine, prKnown, allOk>>

\* Slip: the next chunk starts with the last one still current.
NextChunkKeepsCur == pc' = "loop" /\ cur' = cur /\ files' = {} /\ verdict' = "none"

NextChunk == pc' = "loop" /\ cur' = 0 /\ files' = {} /\ verdict' = "none"

RecordStatus(s) ==
  /\ ledger' = [ledger EXCEPT ![ChunkNo(cur)] = s]
  /\ \/ disk' = ledger'
     \/ "save" \in Faults /\ disk' = disk

SaveMerged ==
  /\ pc = "save"
  /\ RecordStatus("merged")
  /\ NextChunk
  /\ UNCHANGED <<specTree, specHead, tree, head, commits, pushed, forge, runs,
                 plan, todo, engine, prKnown, allOk>>

SaveFailed ==
  /\ pc = "failed"
  /\ RecordStatus("failed")
  /\ allOk' = FALSE
  /\ NextChunk
  /\ UNCHANGED <<specTree, specHead, tree, head, commits, pushed, forge, runs,
                 plan, todo, engine, prKnown>>

SaveNoDiff ==
  /\ pc = "nodiff"
  /\ RecordStatus("no-diff")
  /\ allOk' = FALSE
  /\ NextChunk
  /\ UNCHANGED <<specTree, specHead, tree, head, commits, pushed, forge, runs,
                 plan, todo, engine, prKnown>>

\* Slip: a revert without git clean.
RevertTrackedOnly ==
  /\ pc = "revert"
  /\ specTree' = specHead
  /\ tree' = {p \in tree : p[1] = "new"}
  /\ pc' = "failed"
  /\ UNCHANGED <<specHead, head, commits, pushed, disk, forge, runs,
                 plan, todo, cur, ledger, files, verdict, engine, prKnown, allOk>>

\* git reset; git checkout -- .; git clean -fd.  The checkout also undoes what
\* the orchestrator wrote: the boxes since the last commit and the .gitignore
\* line, without which the clean deletes .codelicious/, the ledger with it.
RevertChunkChanges ==
  /\ pc = "revert"
  /\ \/ /\ specTree' = specHead
        /\ \/ /\ tree' = {}
              /\ disk' = IF <<"edit", 0>> \in head THEN disk ELSE NoLedger
           \/ /\ "clean" \in Faults                          \* git clean fails unnoticed
              /\ tree' = {p \in tree : p[1] = "new"}
              /\ disk' = disk
     \/ "checkout" \in Faults /\ UNCHANGED <<specTree, tree, disk>>
  /\ pc' = "failed"
  /\ UNCHANGED <<specHead, head, commits, pushed, forge, runs,
                 plan, todo, cur, ledger, files, verdict, engine, prKnown, allOk>>

-----------------------------------------------------------------------------
(* The end of the spec *)

SpecIncomplete ==
  /\ pc = "loop" /\ todo = {} /\ ~allOk
  /\ ProcessEnds
  /\ UNCHANGED durable

SpecComplete ==
  /\ pc = "loop" /\ todo = {} /\ allOk
  /\ pc' = "review"
  /\ UNCHANGED <<durable, plan, todo, cur, ledger, files, verdict, engine, prKnown, allOk>>

\* transition_pr_to_review: a final push, then `gh pr ready`; each may fail.
TransitionPrToReview ==
  /\ pc = "review"
  /\ pushed' \in {pushed, CommittedIds}
  /\ forge' \in {forge, IF forge = "draft" THEN "ready" ELSE forge}
  /\ ProcessEnds
  /\ UNCHANGED <<specTree, specHead, tree, head, commits, disk, runs>>

Interrupt ==
  /\ Interrupts /\ pc # "idle"
  /\ ProcessEnds
  /\ UNCHANGED durable

Step ==
  \/ SkipMerged \/ DeadlineStops \/ BeginChunk
  \/ ExecuteSucceeds \/ ExecuteFails \/ ExecuteRateLimited \/ EngineRaises
  \/ Verify \/ FixSucceeds \/ FixFails \/ Reverify
  \/ CommitChunk \/ CommitNothing \/ Push \/ MarkChunkComplete
  \/ SaveMerged \/ SaveFailed \/ SaveNoDiff \/ RevertChunkChanges
  \/ SpecIncomplete \/ SpecComplete \/ TransitionPrToReview

Next == StartRun \/ Step \/ Interrupt

Spec == Init /\ [][Next]_vars

(* Every engine and git call has a timeout, so a run always takes a next    *)
(* step; nobody promises to start a run.                                    *)
FairSpec == Spec /\ WF_vars(Step)
-----------------------------------------------------------------------------
(* Properties *)

PCs == {"idle", "loop", "execute", "verify", "fix", "reverify", "commit", "push",
        "mark", "save", "nodiff", "failed", "revert", "review"}

(* Every variable has its type, and a chunk is being built exactly in the   *)
(* states of the loop body.                                                 *)
TypeOK ==
  /\ specTree \subseteq Tasks /\ specHead \subseteq Tasks
  /\ tree \subseteq Path /\ head \subseteq Path
  /\ commits \in [ChunkIds -> Nat]
  /\ pushed \subseteq ChunkIds
  /\ disk \in [ChunkIds -> Status] /\ ledger \in [ChunkIds -> Status]
  /\ forge \in {"none", "draft", "ready"}
  /\ runs \in Nat
  /\ pc \in PCs
  /\ plan \subseteq Items /\ todo \subseteq plan
  /\ cur \in plan \cup {0}
  /\ (cur = 0) <=> pc \in {"idle", "loop", "review"}
  /\ files \subseteq Path \cup {SpecFile}
  /\ verdict \in {"none", "passed", "failed", "silent"}
  /\ engine \in 1..Len(Engines)
  /\ prKnown \in BOOLEAN /\ allOk \in BOOLEAN

(* An id is "merged", in memory or in the ledger file, only if a commit     *)
(* naming it landed: no crash, failed commit or empty diff ever leaves a    *)
(* record of work that is not in git (orchestrator.py:484-535).             *)
MergedHasCommit ==
  \A n \in ChunkIds : "merged" \in {disk[n], ledger[n]} => commits[n] > 0

(* A spec is reported complete, and its PR sent to review, only if every    *)
(* chunk of the plan is merged: none failed, was cut off by the deadline or *)
(* lost to a rate limit (orchestrator.py:341, 361, 533, 563, 587).          *)
CompleteMeansAllMerged ==
  pc = "review" => \A i \in plan : ledger[ChunkNo(i)] = "merged"

(* When a run that knows no ledger, the first one or one with --no-resume,  *)
(* completes a spec, no box is left unchecked, although titles are          *)
(* truncated, match several boxes, or belong to headings: each merged chunk *)
(* checks exactly one open box (spec_discovery.py:174-229).                 *)
FreshRunChecksEveryBox ==
  pc = "review" /\ (runs = 1 \/ NoResume) => specTree = Tasks

(* A box is only ever checked against a commit: there are never more        *)
(* checked boxes than commits, over all runs, interrupts and reverts        *)
(* (orchestrator.py:509-510).                                               *)
Made == UNION {{n} \X (1..commits[n]) : n \in ChunkIds}
EveryMarkPaidByACommit == Cardinality(specTree) <= Cardinality(Made)

(* A commit never carries work of another chunk that failed in its engine   *)
(* or its verification in this run: its revert leaves nothing behind for    *)
(* the commits of later chunks, although each starts from whatever the last *)
(* one left (orchestrator.py:545-570, git_orchestrator.py:1165-1187).  This *)
(* is about reverted work only: a chunk recorded as failed for "no-diff" is *)
(* not reverted, and when that came from a failed listing, `git add` or     *)
(* commit, its files do enter a later commit.                               *)
RevertedWorkNeverCommitted ==
  [][\A p \in head' \ head :
        p[2] \in plan \ {cur} => ledger[ChunkNo(p[2])] # "failed"]_vars

(* A run ends: whatever engines, verifier, git and the forge answer, the    *)
(* chunk loop comes back to the operator.                                   *)
RunEnds == pc # "idle" ~> pc = "idle"

(* The ledger keeps the abstract promise of ChunkLedger.                    *)
L == INSTANCE ChunkLedger WITH
       Ids <- ChunkIds, Redo <- NoResume,
       recorded <- {n \in ChunkIds : disk[n] = "merged"}
LedgerPromise == L!Spec

-----------------------------------------------------------------------------
(* What the repository's documents and comments say and the code does not   *)
(* keep; each is refuted by a run of its own.                               *)

(* A chunk is committed only after its last verification passed             *)
(* (docs/specs/27_codelicious_v2_rewrite.md:206).                           *)
CommitsAreVerified == [][head' # head => verdict = "passed"]_vars

(* A chunk skipped as already merged has its work in git                    *)
(* (orchestrator.py:335).                                                   *)
SkipsOnlyMergedWork ==
  pc = "loop" => \A i \in todo :
    First(i, todo) /\ ledger[ChunkNo(i)] = "merged" => Implemented(i)
=============================================================================
