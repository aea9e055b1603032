----------------------------- MODULE PullRequests -----------------------------
(***************************************************************************)
(* Branches, pushes and pull requests (git_orchestrator.py) as main()      *)
(* (cli.py) and Orchestrator.run drive them over several specs and cycles: *)
(* the feature branch, the lazily opened draft PR, the PR size caps with   *)
(* the split into parts, and the transition to review.  How one chunk is   *)
(* built is SpecBuild's matter: here it is skipped, merges, fails or is     *)
(* rate limited.                                                           *)
(*                                                                         *)
(* A branch is the set of its commits that main did not have at first.  A  *)
(* forge has at most one open PR per branch, so a PR is named by its head. *)
(***************************************************************************)
EXTENDS Integers, FiniteSets

CONSTANTS
  Specs,      \* spec ids, numbers in the order they are built
  Boxes,      \* Boxes[s]: checkboxes of spec s
  Main,       \* the forbidden branch the operator starts on
  AutoBuild,  \* codelicious/auto-build
  SpecBranch, \* SpecBranch[s]: codelicious/spec-<s>
  Parts,      \* bound: names for continuation branches, see SplitBranch
  NoPr,       \* no PR number
  Cap,        \* --max-commits-per-pr
  LocCap,     \* --max-loc-per-pr, every commit being one line
  Continuous, \* --continuous
  Faults,     \* the calls that may fail
  MaxCycles   \* bound: cycles of all processes, every process has at least one

FaultKinds == {"checkout", "probe", "push", "count", "forge"}
Branches   == {Main, AutoBuild} \cup {SpecBranch[s] : s \in Specs} \cup Parts

ASSUME SpecsAssumption ==
  /\ Specs \subseteq Nat
  /\ Boxes \in [Specs -> Nat \ {0}]
ASSUME BranchAssumption ==
  /\ Main \notin Parts \cup {AutoBuild} \cup {SpecBranch[s] : s \in Specs}
  /\ NoPr \notin Branches
ASSUME BoundsAssumption ==
  /\ Cap \in Nat /\ LocCap \in Nat /\ MaxCycles \in Nat
  /\ Continuous \in BOOLEAN /\ Faults \subseteq FaultKinds

VARIABLES
  (* the repository, origin and the forge *)
  branch,   \* the branch checked out
  exists,   \* branches that exist locally
  local,    \* local[b]: commits of branch b
  origin,   \* origin[b]: the same on origin
  pr,       \* pr[b]: the open PR with head b: [state, spec]
  boxes,    \* boxes[s]: boxes of spec s still open
  top,      \* commits made so far; they are numbered
  cycles,   \* cycles begun
  (* the process *)
  pc,
  todo,     \* specs of this cycle still to come
  spec,     \* the spec being built
  left,     \* its chunks still to come
  late,     \* the deadline of this cycle has passed
  resumed,  \* the ledger had merged chunks of this spec when it was loaded
  prNo,     \* pr_number: the head of the PR whose number it is, or NoPr
  allOk,    \* all_chunks_ok
  made,     \* history: commits of this process
  trouble   \* history: what went wrong in this process, see Troubles

repo == <<branch, exists, local, origin, pr, boxes, top, cycles>>
proc == <<pc, todo, spec, left, late, resumed, prNo, allOk, made, trouble>>
vars == <<repo, proc>>

\* The calls that failed, with "probe" for a part put on a branch that existed
\* before; and "orphan" while commits lie on a branch whose PR was merged
\* under the run, since when it looked for no other.
Troubles == {"checkout", "probe", "push", "forge", "orphan"}

Open(b)    == pr[b].state # "none"
OpenSpecs  == {s \in Specs : boxes[s] > 0}
NoOpenPr   == [state |-> "none", spec |-> 0]
First(s, S) == s \in S /\ \A t \in S : s <= t
-----------------------------------------------------------------------------
Init ==
  /\ branch = Main /\ exists = {Main}
  /\ local = [b \in Branches |-> {}] /\ origin = [b \in Branches |-> {}]
  /\ pr = [b \in Branches |-> NoOpenPr]
  /\ boxes = Boxes
  /\ top = 0 /\ cycles = 0
  /\ pc = "idle" /\ todo = {} /\ spec = 0 /\ left = 0
  /\ late = FALSE /\ resumed = FALSE
  /\ prNo = NoPr /\ allOk = FALSE /\ made = {} /\ trouble = {}

ProcessEnds ==
  /\ pc' = "idle" /\ todo' = {} /\ spec' = 0 /\ left' = 0
  /\ late' = FALSE /\ resumed' = FALSE
  /\ prNo' = NoPr /\ allOk' = FALSE /\ made' = {} /\ trouble' = {}

\* Slip: git checkout without the git checkout -b for a new branch.
CheckOutOnly(b) == branch' = b /\ UNCHANGED <<exists, local>>

\* git checkout, or git checkout -b from HEAD if there is no such branch.
CheckOut(b) ==
  /\ branch' = b
  /\ exists' = exists \cup {b}
  /\ local' = IF b \in exists THEN local ELSE [local EXCEPT ![b] = local[branch]]

\* Slip: assert_safe_branch only looks at the branch.
SafeBranchLooks(b) == b \in Branches /\ UNCHANGED <<branch, exists, local, trouble>>
\* assert_safe_branch: a failed checkout is logged, and the run goes on.
SafeBranch(b) ==
  \/ branch # Main /\ UNCHANGED <<branch, exists, local, trouble>>
  \/ branch = Main /\ CheckOut(b) /\ UNCHANGED trouble
  \/ branch = Main /\ "checkout" \in Faults
     /\ UNCHANGED <<branch, exists, local>> /\ trouble' = trouble \cup {"checkout"}

Start ==
  /\ pc = "idle" /\ cycles < MaxCycles /\ OpenSpecs # {}
  /\ SafeBranch(AutoBuild)
  /\ todo' = OpenSpecs
  /\ pc' = "spec"
  /\ cycles' = cycles + 1
  /\ UNCHANGED <<origin, pr, boxes, top, spec, left, late, resumed, prNo, allOk, made>>

BeginSpec ==
  /\ pc = "spec"
  /\ \E s \in todo :
        /\ First(s, todo)
        /\ SafeBranch(SpecBranch[s])
        /\ spec' = s /\ left' = boxes[s]
        /\ resumed' = (boxes[s] < Boxes[s])
        /\ todo' = todo \ {s}
  /\ prNo' = NoPr /\ allOk' = TRUE
  /\ pc' = "chunk"
  /\ UNCHANGED <<origin, pr, boxes, top, cycles, late, made>>

\* The end of a cycle: continuous mode discovers the open specs again.
EndCycle ==
  /\ pc = "spec" /\ todo = {}
  /\ \/ /\ Continuous /\ OpenSpecs # {} /\ cycles < MaxCycles
        /\ todo' = OpenSpecs /\ cycles' = cycles + 1 /\ UNCHANGED pc
     \/ /\ ~Continuous \/ OpenSpecs = {}
        /\ todo' = {} /\ pc' = "exit" /\ UNCHANGED cycles
  /\ late' = FALSE
  /\ UNCHANGED <<branch, exists, local, origin, pr, boxes, top, spec, left, resumed, prNo, allOk, made, trouble>>

Exit == pc = "exit" /\ ProcessEnds /\ UNCHANGED repo

-----------------------------------------------------------------------------
(* Calls on origin and the forge; each step makes them through operators    *)
(* that constrain origin', pr', prNo' and trouble'.                         *)

\* push_to_origin: nothing to push is a success; a branch that is behind is
\* rejected.
CanPush ==
  origin[branch] \subseteq local[branch] \/ local[branch] \subseteq origin[branch]
Pushed  == [origin EXCEPT ![branch] = @ \cup local[branch]]

\* _find_existing_pr: an open PR of the spec whose head is this branch.
\* Slip: without comparing the head.
FoundByPrefix == {h \in Branches : Open(h) /\ pr[h].spec = spec}
Found == {h \in Branches : Open(h) /\ pr[h].spec = spec /\ h = branch}

\* gh pr create is refused for a branch that has an open PR or nothing new.
CanCreate == ~Open(branch) /\ ~(origin[branch] \subseteq origin[Main])
Created   == [pr EXCEPT ![branch] = [state |-> "draft", spec |-> spec]]

EnsureDraft ==
  \/ /\ branch # Main /\ Found # {}
     /\ prNo' \in Found /\ UNCHANGED pr /\ trouble' = trouble \ {"orphan"}
  \/ /\ branch # Main /\ Found = {} /\ CanCreate
     /\ pr' = Created /\ prNo' = branch /\ trouble' = trouble \ {"orphan"}
  \/ /\ branch = Main \/ (Found = {} /\ ~CanCreate)
     /\ prNo' = NoPr /\ UNCHANGED pr /\ trouble' = trouble \ {"orphan"}
  \/ /\ "forge" \in Faults         \* no CLI or auth, a call failed or timed out
     /\ \/ pr' = pr
        \/ branch # Main /\ CanCreate /\ pr' = Created
     /\ prNo' = NoPr /\ trouble' = trouble \cup {"forge"}

\* transition_pr_to_review: with or without the number, gh pr ready finds the
\* open PR of the current branch.
MadeReady == IF Open(branch) THEN [pr EXCEPT ![branch].state = "ready"] ELSE pr

TransitionPrToReview ==
  \/ CanPush /\ origin' = Pushed /\ pr' = MadeReady /\ UNCHANGED trouble
  \/ /\ "push" \in Faults \/ ~CanPush
     /\ origin' = origin /\ pr' = MadeReady /\ trouble' = trouble \cup {"push"}
  \/ /\ "forge" \in Faults /\ CanPush
     /\ origin' = Pushed /\ pr' = pr /\ trouble' = trouble \cup {"forge"}

-----------------------------------------------------------------------------
(* The head of the chunk loop: ledger, deadline and caps *)

\* The ledger has this chunk's id as merged: by SpecBuild, in a resumed spec.
SkipMerged ==
  /\ pc = "chunk" /\ left > 0 /\ resumed
  /\ left' = left - 1
  /\ UNCHANGED <<repo, pc, todo, spec, late, resumed, prNo, allOk, made, trouble>>

Deadline ==
  /\ pc = "chunk" /\ left > 0
  /\ late' = TRUE
  /\ left' = 0 /\ allOk' = FALSE
  /\ UNCHANGED <<repo, pc, todo, spec, resumed, prNo, made, trouble>>

Ahead == Cardinality(local[branch] \ local[Main])

\* get_pr_commit_count asks the forge, then git log, then answers 0; a merged
\* PR keeps the count it had, which is some number up to the branch's.
PrCommitCount ==
  (IF Open(prNo) THEN {Cardinality(origin[prNo] \ origin[Main])} ELSE 0..Ahead)
  \cup (IF "count" \in Faults THEN {Ahead, 0} ELSE {})

PrDiffLoc == {Ahead} \cup (IF "count" \in Faults THEN {0} ELSE {})

OverCap(commits, loc) ==
  (Cap > 0 /\ commits >= Cap) \/ (LocCap > 0 /\ loc >= LocCap)

BeginChunk ==
  /\ pc = "chunk" /\ left > 0 /\ ~late
  /\ left' = left - 1
  /\ pc' \in {IF prNo # NoPr /\ OverCap(n, l) THEN "ready" ELSE "build" :
                n \in IF prNo = NoPr THEN {0} ELSE PrCommitCount, l \in PrDiffLoc}
  /\ UNCHANGED <<repo, todo, spec, late, resumed, prNo, allOk, made, trouble>>

SplitReady ==
  /\ pc = "ready"
  /\ TransitionPrToReview
  /\ pc' = "branch"
  /\ UNCHANGED <<branch, exists, local, boxes, top, cycles,
                 todo, spec, left, late, resumed, prNo, allOk, made>>

\* Slip: the next part starts from main.
SplitBranchFromMain ==
  /\ pc = "branch"
  /\ \E b \in Parts \ exists :
        /\ branch' = b /\ exists' = exists \cup {b}
        /\ local' = [local EXCEPT ![b] = local[Main]]
  /\ pc' = "part"
  /\ UNCHANGED <<origin, pr, boxes, top, cycles,
                 todo, spec, left, late, resumed, prNo, allOk, made, trouble>>

\* create_continuation_branch: spec-<s>-part-<n>, or that name with a suffix if
\* it is taken.  A probe that fails reads as "not taken": `git checkout -b` then
\* fails on the name, and the branch that has it is checked out as it is.
SplitBranch ==
  /\ pc = "branch"
  /\ \/ (\E b \in Parts \ exists : CheckOut(b)) /\ UNCHANGED trouble
     \/ /\ "probe" \in Faults
        /\ \E b \in Parts \cap exists : CheckOut(b)
        /\ trouble' = trouble \cup {"probe"}
  /\ pc' = "part"
  /\ UNCHANGED <<origin, pr, boxes, top, cycles,
                 todo, spec, left, late, resumed, prNo, allOk, made>>

\* git checkout -b fails or times out: the exception leaves run().
SplitBranchRaises ==
  /\ pc = "branch" /\ "checkout" \in Faults
  /\ ProcessEnds
  /\ UNCHANGED repo

\* Slip: the number of the part before stays.
SplitPushKeepsNumber ==
  /\ pc = "part"
  /\ CanPush /\ origin' = Pushed
  /\ pc' = "build"
  /\ UNCHANGED <<branch, exists, local, pr, boxes, top, cycles,
                 todo, spec, left, late, resumed, prNo, allOk, made, trouble>>

SplitPush ==
  /\ pc = "part"
  /\ \/ CanPush /\ origin' = Pushed /\ pc' = "part_pr" /\ UNCHANGED trouble
     \/ /\ "push" \in Faults \/ ~CanPush
        /\ origin' = origin /\ pc' = "build" /\ trouble' = trouble \cup {"push"}
  /\ prNo' = NoPr
  /\ UNCHANGED <<branch, exists, local, pr, boxes, top, cycles,
                 todo, spec, left, late, resumed, allOk, made>>

SplitDraft ==
  /\ pc = "part_pr"
  /\ EnsureDraft
  /\ pc' = "build"
  /\ UNCHANGED <<branch, exists, local, origin, boxes, top, cycles,
                 todo, spec, left, late, resumed, allOk, made>>

-----------------------------------------------------------------------------
(* One chunk *)

ChunkCommits ==
  /\ pc = "build"
  /\ top' = top + 1
  /\ local' = [local EXCEPT ![branch] = @ \cup {top'}]
  /\ made' = made \cup {top'}
  /\ pc' = "push"
  /\ UNCHANGED <<branch, exists, origin, pr, boxes, cycles,
                 todo, spec, left, late, resumed, prNo, allOk, trouble>>

ChunkFails ==
  /\ pc = "build"
  /\ allOk' = FALSE
  /\ pc' = "chunk"
  /\ UNCHANGED <<repo, todo, spec, left, late, resumed, prNo, made, trouble>>

\* The last engine is rate limited: the remaining specs are not built.
ChunkRateLimited ==
  /\ pc = "build"
  /\ allOk' = FALSE /\ left' = 0 /\ todo' = {}
  /\ pc' = "chunk"
  /\ UNCHANGED <<repo, spec, late, resumed, prNo, made, trouble>>

\* With a number nothing more is asked of the forge, also if that PR is merged
\* meanwhile: the pushed commits then have no PR.
PushChunk ==
  /\ pc = "push"
  /\ \/ /\ CanPush /\ origin' = Pushed
        /\ pc' = IF prNo = NoPr THEN "draft" ELSE "mark"
        /\ trouble' = trouble \cup (IF prNo # NoPr /\ ~Open(prNo) THEN {"orphan"} ELSE {})
     \/ /\ "push" \in Faults \/ ~CanPush
        /\ origin' = origin /\ trouble' = trouble \cup {"push"} /\ pc' = "mark"
  /\ UNCHANGED <<branch, exists, local, pr, boxes, top, cycles,
                 todo, spec, left, late, resumed, prNo, allOk, made>>

DraftPr ==
  /\ pc = "draft"
  /\ EnsureDraft
  /\ pc' = "mark"
  /\ UNCHANGED <<branch, exists, local, origin, boxes, top, cycles,
                 todo, spec, left, late, resumed, allOk, made>>

MarkBox ==
  /\ pc = "mark"
  /\ boxes' = [boxes EXCEPT ![spec] = IF @ = 0 THEN 0 ELSE @ - 1]
  /\ pc' = "chunk"
  /\ UNCHANGED <<branch, exists, local, origin, pr, top, cycles,
                 todo, spec, left, late, resumed, prNo, allOk, made, trouble>>

EndSpec ==
  /\ pc = "chunk" /\ left = 0
  /\ pc' = IF allOk THEN "review" ELSE "spec"
  /\ UNCHANGED <<repo, todo, spec, left, late, resumed, prNo, allOk, made, trouble>>

Review ==
  /\ pc = "review"
  /\ TransitionPrToReview
  /\ pc' = "spec"
  /\ UNCHANGED <<branch, exists, local, boxes, top, cycles,
                 todo, spec, left, late, resumed, prNo, allOk, made>>

-----------------------------------------------------------------------------
(* Around the process *)

Interrupt == pc # "idle" /\ ProcessEnds /\ UNCHANGED repo

\* A reviewer merges a PR that is ready, also while a run goes on.
Merge(b) ==
  /\ pr[b].state = "ready"
  /\ origin' = [origin EXCEPT ![Main] = @ \cup origin[b]]
  /\ pr' = [pr EXCEPT ![b] = NoOpenPr]
  /\ UNCHANGED <<branch, exists, local, boxes, top, cycles, proc>>

\* Between two runs the operator goes back to main, and may pull.
BackToMain ==
  /\ pc = "idle" /\ branch # Main
  /\ branch' = Main
  /\ \/ local' = [local EXCEPT ![Main] = @ \cup origin[Main]]
     \/ local' = local
  /\ UNCHANGED <<exists, origin, pr, boxes, top, cycles, proc>>

Step ==
  \/ BeginSpec \/ EndCycle \/ Exit
  \/ SkipMerged \/ Deadline \/ BeginChunk \/ SplitReady \/ SplitBranch \/ SplitBranchRaises
  \/ SplitPush \/ SplitDraft
  \/ ChunkCommits \/ ChunkFails \/ ChunkRateLimited
  \/ PushChunk \/ DraftPr \/ MarkBox \/ EndSpec \/ Review

Next ==
  \/ Start \/ Step \/ Interrupt \/ BackToMain
  \/ \E b \in Branches : Merge(b)

Spec == Init /\ [][Next]_vars
-----------------------------------------------------------------------------
(* Every variable has its type; only branches that exist are checked out or *)
(* have commits.                                                            *)
TypeOK ==
  /\ exists \subseteq Branches /\ branch \in exists
  /\ local \in [Branches -> SUBSET Nat] /\ origin \in [Branches -> SUBSET Nat]
  /\ pr \in [Branches -> [state : {"none", "draft", "ready"}, spec : Nat]]
  /\ boxes \in [Specs -> Nat]
  /\ top \in Nat /\ cycles \in Nat
  /\ pc \in {"idle", "spec", "exit", "chunk", "ready", "branch", "part", "part_pr",
             "build", "push", "draft", "mark", "review"}
  /\ todo \subseteq Specs /\ spec \in Specs \cup {0} /\ left \in Nat
  /\ pc \notin {"idle", "spec", "exit"} => spec \in Specs
  /\ prNo \in Branches \cup {NoPr}
  /\ made \subseteq 1..top
  /\ late \in BOOLEAN /\ resumed \in BOOLEAN /\ allOk \in BOOLEAN
  /\ trouble \subseteq Troubles

(* While chunks are built, pr_number is the number of a PR whose head is    *)
(* the branch checked out: commit counts, splits and pushes are about the   *)
(* same PR, through splits, failures and specs (git_orchestrator.py:803).   *)
PrNumberIsOurs ==
  pc \in {"chunk", "build", "push", "draft", "mark"} /\ prNo # NoPr => prNo = branch

(* A run never leaves its own work behind: whatever it splits or checks     *)
(* out, the branch it is on has every commit it made, but for those a       *)
(* failed checkout let it put on main.  The exception is a split whose      *)
(* probes failed and which fell back to an older branch of that name        *)
(* (git_orchestrator.py:1253-1258): its commits are then on origin, unless  *)
(* a push failed too (orchestrator.py:237-239).                             *)
OnBranch == local[branch] \cup local[Main]
OnOrigin == UNION {origin[b] : b \in Branches}
RunKeepsItsWork ==
  /\ "probe" \notin trouble => made \subseteq OnBranch
  /\ "push" \notin trouble => made \subseteq OnBranch \cup OnOrigin

(* Whenever a run of which no call failed is done with a spec and has       *)
(* committed something, all work of its branch is on origin, also what an   *)
(* earlier run could not push, and in main or on the head of an open PR.    *)
(* Only the first half holds if its own PR was merged while it went on:     *)
(* pr_number stays set, so the commits pushed after the merge get no PR,    *)
(* unless the run looks for one again for a later part or spec              *)
(* (orchestrator.py:471-488).                                               *)
WorkIsUnderReview ==
  pc \in {"spec", "exit"} /\ made # {} /\ trouble \subseteq {"orphan"} =>
    /\ local[branch] \subseteq origin[branch]
    /\ "orphan" \notin trouble =>
         local[branch] \subseteq
           origin[Main] \cup UNION {origin[b] : b \in {h \in Branches : Open(h)}}

(* Git and pull requests keep the promise of ReviewFlow to the reviewers:   *)
(* main on origin gets a run's work by the merge of a PR that was a draft   *)
(* before it was ready, or not at all, unless the checkout that was to      *)
(* leave main failed (git_orchestrator.py:456-489, 683-830).                *)
R == INSTANCE ReviewFlow WITH
       state <- [b \in Branches |-> pr[b].state], failed <- "checkout" \in trouble
ReviewPromise == R!Spec

-----------------------------------------------------------------------------
(* A PR becomes ready only through its own spec (README.md:84-85: one draft *)
(* PR per spec, ready when all verification passes).                        *)
ReadyByOwnSpec ==
  [][\A b \in Branches :
        pr[b].state = "draft" /\ pr'[b].state = "ready" => pr[b].spec = spec]_vars
=============================================================================
