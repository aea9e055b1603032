------------------------- MODULE PullRequests_proofs -------------------------
(***************************************************************************)
(* Theorems about PullRequests, for every set of specs, branch names, caps *)
(* and faults and any number of runs: its types, that pr_number names the  *)
(* PR of the branch checked out, that a run keeps its own work, what of it *)
(* is under review when no call failed, and the promise of ReviewFlow.     *)
(***************************************************************************)
EXTENDS PullRequests, TLAPS

PCs == {"idle", "spec", "exit", "chunk", "ready", "branch", "part", "part_pr",
        "build", "push", "draft", "mark", "review"}
PrType == [state : {"none", "draft", "ready"}, spec : Nat]

(* What the calls on git leave: existing branches with commits.             *)
RefsOK(h, e, l) ==
  e \subseteq Branches /\ h \in e /\ Main \in e /\ l \in [Branches -> SUBSET Nat]

-----------------------------------------------------------------------------
(* Types *)

(* A checkout ends on a branch that exists; no other branch changes, and a  *)
(* new branch holds what the one left held.                                 *)
LEMMA CheckOutRefs ==
  ASSUME RefsOK(branch, exists, local), NEW b \in Branches, CheckOut(b)
  PROVE  /\ RefsOK(branch', exists', local')
         /\ \A c \in Branches \ {b} : local'[c] = local[c]
         /\ b \notin exists => local'[b] = local[branch]
BY DEF RefsOK, CheckOut

LEMMA SafeBranchRefs ==
  ASSUME RefsOK(branch, exists, local), trouble \subseteq Troubles,
         NEW b \in Branches \ {Main}, SafeBranch(b)
  PROVE  /\ RefsOK(branch', exists', local') /\ trouble' \subseteq Troubles
         /\ local'[Main] = local[Main]
         /\ branch # Main => branch' = branch /\ local' = local
<1>1. CASE CheckOut(b) /\ branch = Main /\ UNCHANGED trouble
  BY <1>1, CheckOutRefs DEF RefsOK, Branches
<1>2. CASE UNCHANGED <<branch, exists, local>> /\ trouble' \subseteq Troubles
  BY <1>2
<1> QED
  BY <1>1, <1>2 DEF SafeBranch, Troubles

(* Opening a draft PR yields the number of the branch's own PR, or none.    *)
LEMMA EnsureDraftTypes ==
  ASSUME branch \in Branches, pr \in [Branches -> PrType], spec \in Nat,
         trouble \subseteq Troubles, EnsureDraft
  PROVE  /\ pr' \in [Branches -> PrType] /\ trouble' \subseteq Troubles
         /\ prNo' \in {branch, NoPr}
<1>1. Created \in [Branches -> PrType]
  BY DEF Created, PrType
<1>2. Found \subseteq {branch}
  BY DEF Found
<1>3. trouble' \subseteq Troubles
  BY DEF EnsureDraft, Troubles
<1> QED
  BY <1>1, <1>2, <1>3 DEF EnsureDraft

LEMMA TransitionTypes ==
  ASSUME branch \in Branches, pr \in [Branches -> PrType], trouble \subseteq Troubles,
         origin \in [Branches -> SUBSET Nat], local \in [Branches -> SUBSET Nat],
         TransitionPrToReview
  PROVE  /\ pr' \in [Branches -> PrType] /\ trouble' \subseteq Troubles
         /\ origin' \in [Branches -> SUBSET Nat]
<1>1. MadeReady \in [Branches -> PrType]
  BY DEF MadeReady, PrType
<1>2. Pushed \in [Branches -> SUBSET Nat]
  BY DEF Pushed
<1>3. trouble' \subseteq Troubles
  BY DEF TransitionPrToReview, Troubles
<1> QED
  BY <1>1, <1>2, <1>3 DEF TransitionPrToReview

(* TypeOK with main always among the branches.                              *)
Types == TypeOK /\ Main \in exists

LEMMA TypesRefs == Types => RefsOK(branch, exists, local)
BY DEF Types, TypeOK, RefsOK

LEMMA InitTypes == Init => Types
<1> SUFFICES ASSUME Init PROVE Types
  OBVIOUS
<1>1. /\ exists \subseteq Branches /\ branch \in exists /\ Main \in exists
      /\ local \in [Branches -> SUBSET Nat] /\ origin \in [Branches -> SUBSET Nat]
  BY DEF Init, Branches
<1>2. pr \in [Branches -> PrType]
  BY DEF Init, NoOpenPr, PrType
<1>3. boxes \in [Specs -> Nat]
  BY SpecsAssumption DEF Init
<1>4. /\ spec = 0 /\ left = 0 /\ top = 0 /\ cycles = 0 /\ pc = "idle"
      /\ todo = {} /\ made = {} /\ prNo = NoPr
      /\ ~late /\ ~resumed /\ ~allOk
      /\ late \in BOOLEAN /\ resumed \in BOOLEAN
      /\ allOk \in BOOLEAN /\ trouble \subseteq Troubles
  BY DEF Init
<1> QED
  BY <1>1, <1>2, <1>3, <1>4 DEF Types, TypeOK, PrType

LEMMA NextTypes == Types /\ [Next]_vars => Types'
<1> SUFFICES ASSUME Types, [Next]_vars PROVE Types'
  OBVIOUS
<1> USE DEF Types, repo, proc
<1>a. RefsOK(branch, exists, local) /\ branch \in Branches
  BY TypesRefs DEF RefsOK
<1>b. spec \in Nat /\ pr \in [Branches -> PrType]
  BY SpecsAssumption DEF TypeOK, PrType
<1>1. CASE Start
  <2>1. AutoBuild \in Branches \ {Main}
    BY BranchAssumption DEF Branches
  <2>2. RefsOK(branch', exists', local') /\ trouble' \subseteq Troubles
    BY <1>1, <1>a, <2>1, SafeBranchRefs DEF Start, TypeOK
  <2> QED
    BY <1>1, <2>2 DEF Start, TypeOK, RefsOK, OpenSpecs
<1>2. CASE BeginSpec
  <2>1. PICK s \in todo : /\ SafeBranch(SpecBranch[s])
                          /\ spec' = s /\ left' = boxes[s]
                          /\ resumed' = (boxes[s] < Boxes[s])
                          /\ todo' = todo \ {s}
    BY <1>2 DEF BeginSpec
  <2>2. SpecBranch[s] \in Branches \ {Main}
    BY BranchAssumption DEF Branches, TypeOK
  <2>3. RefsOK(branch', exists', local') /\ trouble' \subseteq Troubles
    BY <1>a, <2>1, <2>2, SafeBranchRefs DEF TypeOK
  <2>4. resumed' \in BOOLEAN /\ left' \in Nat
    BY <2>1 DEF TypeOK
  <2> QED
    BY <1>2, <2>1, <2>3, <2>4 DEF BeginSpec, TypeOK, RefsOK
<1>3. CASE EndCycle
  <2>1. todo' \subseteq Specs /\ pc' \in {"spec", "exit"} /\ cycles' \in Nat
    BY <1>3 DEF EndCycle, TypeOK, OpenSpecs
  <2> QED
    BY <1>3, <2>1 DEF EndCycle, TypeOK
<1>4. CASE Exit \/ Interrupt \/ SplitBranchRaises
  <2>1. ProcessEnds /\ UNCHANGED repo
    BY <1>4 DEF Exit, Interrupt, SplitBranchRaises
  <2> QED
    BY <2>1 DEF ProcessEnds, TypeOK
<1>5. CASE SkipMerged
  BY <1>5 DEF SkipMerged, TypeOK
<1>9. CASE Deadline
  BY <1>9 DEF Deadline, TypeOK
<1>6. CASE BeginChunk
  <2>1. pc' \in {"ready", "build"}
    BY <1>6 DEF BeginChunk
  <2> QED
    BY <1>6, <2>1 DEF BeginChunk, TypeOK
<1>7. CASE SplitReady \/ Review
  <2>1. /\ pr' \in [Branches -> PrType] /\ trouble' \subseteq Troubles
        /\ origin' \in [Branches -> SUBSET Nat]
    BY <1>7, <1>a, <1>b, TransitionTypes DEF SplitReady, Review, TypeOK
  <2> QED
    BY <1>7, <2>1 DEF SplitReady, Review, TypeOK, PrType
<1>8. CASE SplitBranch
  <2>1. PICK b \in Parts : CheckOut(b)
    BY <1>8 DEF SplitBranch
  <2>2. RefsOK(branch', exists', local')
    BY <1>a, <2>1, CheckOutRefs DEF Branches
  <2>3. trouble' \subseteq Troubles
    BY <1>8 DEF SplitBranch, TypeOK, Troubles
  <2> QED
    BY <1>8, <2>2, <2>3 DEF SplitBranch, TypeOK, RefsOK
<1>10. CASE SplitPush \/ PushChunk
  <2>1. Pushed \in [Branches -> SUBSET Nat]
    BY DEF Pushed, TypeOK
  <2>2. /\ origin' \in [Branches -> SUBSET Nat]
        /\ pc' \in {"part_pr", "build", "draft", "mark"}
    BY <1>10, <2>1 DEF SplitPush, PushChunk, TypeOK
  <2>3. trouble' \subseteq Troubles
    BY <1>10 DEF SplitPush, PushChunk, TypeOK, Troubles
  <2> QED
    BY <1>10, <2>2, <2>3 DEF SplitPush, PushChunk, TypeOK
<1>11. CASE SplitDraft \/ DraftPr
  <2>1. /\ pr' \in [Branches -> PrType] /\ trouble' \subseteq Troubles
        /\ prNo' \in {branch, NoPr}
    BY <1>11, <1>a, <1>b, EnsureDraftTypes DEF SplitDraft, DraftPr, TypeOK
  <2> QED
    BY <1>11, <1>a, <2>1 DEF SplitDraft, DraftPr, TypeOK, PrType
<1>12. CASE ChunkCommits
  BY <1>12 DEF ChunkCommits, TypeOK
<1>13. CASE ChunkFails
  BY <1>13 DEF ChunkFails, TypeOK
<1>19. CASE ChunkRateLimited
  BY <1>19 DEF ChunkRateLimited, TypeOK
<1>14. CASE MarkBox
  BY <1>14 DEF MarkBox, TypeOK
<1>15. CASE EndSpec
  BY <1>15 DEF EndSpec, TypeOK
<1>16. CASE BackToMain
  BY <1>16, <1>a DEF BackToMain, TypeOK, Branches
<1>17. CASE \E b \in Branches : Merge(b)
  BY <1>17 DEF Merge, TypeOK, Branches, NoOpenPr
<1>18. CASE UNCHANGED vars
  BY <1>18 DEF vars, TypeOK
<1> QED
  BY <1>1, <1>2, <1>3, <1>4, <1>5, <1>6, <1>7, <1>8, <1>9, <1>10, <1>11, <1>12,
     <1>13, <1>14, <1>15, <1>16, <1>17, <1>18, <1>19
  DEF Next, Step

(* Every variable keeps its type and only existing branches are checked out *)
(* (git_orchestrator.py:456-522).                                           *)
THEOREM TypeCorrect == Spec => []TypeOK
<1>1. Types => TypeOK
  BY DEF Types
<1> QED
  BY InitTypes, NextTypes, <1>1, PTL DEF Spec

-----------------------------------------------------------------------------
(* The number and the work of a run *)

(* PrNumberIsOurs is inductive: a number is only ever set to that of the    *)
(* branch checked out, and the branch changes only where it is dropped next *)
(* ("ready" to "part") or between specs.                                    *)
LEMMA NextNumber == Types /\ PrNumberIsOurs /\ [Next]_vars => PrNumberIsOurs'
<1> SUFFICES ASSUME Types, PrNumberIsOurs, [Next]_vars PROVE PrNumberIsOurs'
  OBVIOUS
<1> USE DEF PrNumberIsOurs, repo, proc
<1>1. CASE Start \/ EndCycle \/ Review
  BY <1>1 DEF Start, EndCycle, Review
<1>2. CASE BeginSpec
  BY <1>2 DEF BeginSpec
<1>3. CASE Exit \/ Interrupt \/ SplitBranchRaises
  <2>1. pc' = "idle"
    BY <1>3 DEF Exit, Interrupt, SplitBranchRaises, ProcessEnds
  <2> QED
    BY <2>1
<1>4. CASE SkipMerged \/ Deadline
  BY <1>4 DEF SkipMerged, Deadline
<1>5. CASE BeginChunk
  BY <1>5 DEF BeginChunk
<1>6. CASE SplitReady \/ SplitBranch
  <2>1. pc' \in {"branch", "part"}
    BY <1>6 DEF SplitReady, SplitBranch
  <2> QED
    BY <2>1
<1>7. CASE SplitPush
  BY <1>7 DEF SplitPush
<1>8. CASE SplitDraft \/ DraftPr
  <2>1. branch \in Branches /\ spec \in Nat /\ pr \in [Branches -> PrType]
    BY SpecsAssumption DEF Types, TypeOK, PrType
  <2>2. prNo' \in {branch, NoPr} /\ branch' = branch
    BY <1>8, <2>1, EnsureDraftTypes DEF SplitDraft, DraftPr, Types, TypeOK
  <2> QED
    BY <2>2
<1>9. CASE ChunkCommits \/ ChunkFails \/ ChunkRateLimited
  BY <1>9 DEF ChunkCommits, ChunkFails, ChunkRateLimited
<1>10. CASE PushChunk \/ MarkBox \/ EndSpec
  BY <1>10 DEF PushChunk, MarkBox, EndSpec
<1>11. CASE BackToMain \/ \E b \in Branches : Merge(b)
  BY <1>11 DEF BackToMain, Merge
<1>12. CASE UNCHANGED vars
  BY <1>12 DEF vars
<1> QED
  BY <1>1, <1>2, <1>3, <1>4, <1>5, <1>6, <1>7, <1>8, <1>9, <1>10, <1>11, <1>12
  DEF Next, Step

(* While chunks are built, pr_number is that of the PR of the branch        *)
(* checked out (git_orchestrator.py:803, orchestrator.py:481).              *)
THEOREM NumberIsOurs == Spec => []PrNumberIsOurs
<1>1. Init => PrNumberIsOurs
  BY DEF Init, PrNumberIsOurs
<1> QED
  BY InitTypes, NextTypes, <1>1, NextNumber, PTL DEF Spec

(* RunKeepsItsWork needs that a process starts with no commits of its own,  *)
(* and that a split pushes the branch it is about to leave.                 *)
WorkKept ==
  /\ RunKeepsItsWork
  /\ pc = "idle" => made = {}
  /\ pc = "branch" /\ "push" \notin trouble => local[branch] \subseteq origin[branch]

(* The work of a run stays where it was when nothing is taken back.         *)
LEMMA KeepsWork ==
  ASSUME RunKeepsItsWork, UNCHANGED made, OnBranch \subseteq OnBranch',
         \A b \in Branches : origin[b] \subseteq origin'[b],
         trouble \cap {"probe", "push"} \subseteq trouble'
  PROVE  RunKeepsItsWork'
<1>1. OnOrigin \subseteq OnOrigin'
  BY DEF OnOrigin
<1> QED
  BY <1>1 DEF RunKeepsItsWork

LEMMA PushGrows ==
  ASSUME Types, origin' = Pushed \/ origin' = origin
  PROVE  /\ \A b \in Branches : origin[b] \subseteq origin'[b]
         /\ origin' = Pushed => local[branch] \subseteq origin'[branch]
BY DEF Types, TypeOK, Pushed

LEMMA NextWork == Types /\ WorkKept /\ [Next]_vars => WorkKept'
<1> SUFFICES ASSUME Types, WorkKept, [Next]_vars PROVE WorkKept'
  OBVIOUS
<1> USE DEF WorkKept, repo, proc
<1>a. RefsOK(branch, exists, local) /\ Main \in Branches /\ branch \in Branches
  BY TypesRefs DEF RefsOK, Branches
<1>b. UNCHANGED <<branch, local>> => OnBranch \subseteq OnBranch'
  BY DEF OnBranch
<1>1. CASE Start
  <2>1. made' = {} /\ pc' = "spec"
    BY <1>1 DEF Start
  <2> QED
    BY <2>1 DEF RunKeepsItsWork
<1>2. CASE BeginSpec
  <2>1. PICK s \in todo : SafeBranch(SpecBranch[s])
    BY <1>2 DEF BeginSpec
  <2>2. SpecBranch[s] \in Branches \ {Main}
    BY BranchAssumption DEF Branches, Types, TypeOK
  <2>3. /\ local'[Main] = local[Main]
        /\ branch # Main => branch' = branch /\ local' = local
    BY <1>a, <2>1, <2>2, SafeBranchRefs DEF Types, TypeOK
  <2>4. pc' = "chunk" /\ UNCHANGED <<made, origin>> /\ trouble \subseteq trouble'
    BY <1>2, <2>1 DEF BeginSpec, SafeBranch
  <2>5. OnBranch \subseteq OnBranch'
    BY <2>3 DEF OnBranch
  <2> QED
    BY <2>4, <2>5, KeepsWork
<1>3. CASE Exit \/ Interrupt \/ SplitBranchRaises
  <2>1. made' = {} /\ pc' = "idle"
    BY <1>3 DEF Exit, Interrupt, SplitBranchRaises, ProcessEnds
  <2> QED
    BY <2>1 DEF RunKeepsItsWork
<1>4. CASE SplitBranch
  <2>1. PICK b \in Parts :
          /\ CheckOut(b)
          /\ b \notin exists => UNCHANGED trouble
          /\ b \in exists => trouble' = trouble \cup {"probe"}
    <3>1. CASE (\E b \in Parts \ exists : CheckOut(b)) /\ UNCHANGED trouble
      BY <3>1
    <3>2. CASE /\ \E b \in Parts \cap exists : CheckOut(b)
               /\ trouble' = trouble \cup {"probe"}
      BY <3>2
    <3> QED
      BY <1>4, <3>1, <3>2 DEF SplitBranch
  <2>2. b \in Branches /\ b # Main
    BY BranchAssumption DEF Branches
  <2>3. branch' = b /\ local'[Main] = local[Main]
    BY <1>a, <2>1, <2>2, CheckOutRefs DEF CheckOut
  <2>4. pc = "branch" /\ pc' = "part" /\ UNCHANGED <<made, origin>>
    BY <1>4 DEF SplitBranch
  <2>5. CASE b \notin exists
    <3>1. local'[b] = local[branch]
      BY <1>a, <2>1, <2>2, <2>5, CheckOutRefs
    <3>2. OnBranch \subseteq OnBranch'
      BY <2>3, <3>1 DEF OnBranch
    <3> QED
      BY <2>1, <2>4, <2>5, <3>2, KeepsWork
  <2>6. CASE b \in exists
    <3>1. trouble' = trouble \cup {"probe"}
      BY <2>1, <2>6
    <3>2. "push" \notin trouble => local[branch] \subseteq OnOrigin
      BY <1>a, <2>4 DEF OnOrigin
    <3>3. OnOrigin' = OnOrigin
      BY <2>4 DEF OnOrigin
    <3>4. "push" \notin trouble => OnBranch \cup OnOrigin \subseteq OnBranch' \cup OnOrigin'
      BY <2>3, <3>2, <3>3 DEF OnBranch
    <3> QED
      BY <2>4, <3>1, <3>4 DEF RunKeepsItsWork
  <2> QED
    BY <2>5, <2>6
<1>5. CASE ChunkCommits
  <2>1. local'[branch] = local[branch] \cup {top'} /\ local[Main] \subseteq local'[Main]
    BY <1>5, <1>a DEF ChunkCommits, RefsOK
  <2>2. /\ UNCHANGED <<branch, origin, trouble>> /\ pc' = "push"
        /\ made' = made \cup {top'}
    BY <1>5 DEF ChunkCommits
  <2>3. OnBranch \cup {top'} \subseteq OnBranch' /\ OnOrigin' = OnOrigin
    BY <2>1, <2>2 DEF OnBranch, OnOrigin
  <2> QED
    BY <2>2, <2>3 DEF RunKeepsItsWork
<1>6. CASE SplitReady \/ Review
  <2>1. /\ TransitionPrToReview
        /\ UNCHANGED <<branch, local, made>> /\ pc' \in {"branch", "spec"}
    BY <1>6 DEF SplitReady, Review
  <2>2. origin' = Pushed \/ (origin' = origin /\ trouble' = trouble \cup {"push"})
    BY <2>1 DEF TransitionPrToReview
  <2>3. trouble \subseteq trouble'
    BY <2>1 DEF TransitionPrToReview
  <2>4. \A b \in Branches : origin[b] \subseteq origin'[b]
    BY <2>2, PushGrows
  <2>5. RunKeepsItsWork'
    BY <1>b, <2>1, <2>4, <2>3, KeepsWork
  <2>6. "push" \notin trouble' => local'[branch'] \subseteq origin'[branch']
    BY <2>1, <2>2, PushGrows
  <2> QED
    BY <2>1, <2>5, <2>6
<1>7. CASE SplitPush \/ PushChunk
  <2>1. /\ UNCHANGED <<branch, local, made>> /\ pc' \notin {"idle", "branch"}
        /\ origin' = Pushed \/ origin' = origin
        /\ trouble \subseteq trouble'
    BY <1>7 DEF SplitPush, PushChunk
  <2> QED
    BY <1>b, <2>1, PushGrows, KeepsWork
<1>8. CASE SplitDraft \/ DraftPr
  <2>1. /\ UNCHANGED <<branch, local, made, origin>> /\ pc' \notin {"idle", "branch"}
        /\ trouble \ {"orphan"} \subseteq trouble'
    BY <1>8 DEF SplitDraft, DraftPr, EnsureDraft
  <2> QED
    BY <1>b, <2>1, KeepsWork
<1>9. CASE EndCycle \/ SkipMerged \/ Deadline \/ BeginChunk \/ EndSpec
  <2>1. /\ UNCHANGED <<branch, local, made, origin, trouble>>
        /\ pc' \notin {"idle", "branch"}
    BY <1>9 DEF EndCycle, SkipMerged, Deadline, BeginChunk, EndSpec
  <2> QED
    BY <1>b, <2>1, KeepsWork
<1>10. CASE ChunkFails \/ ChunkRateLimited \/ MarkBox
  <2>1. /\ UNCHANGED <<branch, local, made, origin, trouble>>
        /\ pc' \notin {"idle", "branch"}
    BY <1>10 DEF ChunkFails, ChunkRateLimited, MarkBox
  <2> QED
    BY <1>b, <2>1, KeepsWork
<1>11. CASE BackToMain
  <2>1. made' = {} /\ pc' = "idle"
    BY <1>11 DEF BackToMain
  <2> QED
    BY <2>1 DEF RunKeepsItsWork
<1>12. CASE \E b \in Branches : Merge(b)
  <2>1. /\ UNCHANGED <<branch, local, made, trouble, pc>>
        /\ \A b \in Branches : origin[b] \subseteq origin'[b]
    BY <1>12, <1>a DEF Merge, Types, TypeOK
  <2> QED
    BY <1>a, <1>b, <2>1, KeepsWork
<1>13. CASE UNCHANGED vars
  <2>1. UNCHANGED <<branch, local, made, trouble, pc, origin>>
    BY <1>13 DEF vars
  <2> QED
    BY <1>b, <2>1, KeepsWork
<1> QED
  BY <1>1, <1>2, <1>3, <1>4, <1>5, <1>6, <1>7, <1>8, <1>9, <1>10, <1>11, <1>12, <1>13
  DEF Next, Step

(* Whatever a run splits or checks out, its commits stay on the branch it   *)
(* is on, or on main after a failed checkout; a split that falls back to a  *)
(* branch that exists leaves them on origin, unless a push failed           *)
(* (orchestrator.py:237-239, git_orchestrator.py:1253-1258).                *)
THEOREM WorkIsKept == Spec => []RunKeepsItsWork
<1>1. Init => WorkKept
  BY DEF Init, WorkKept, RunKeepsItsWork
<1>2. WorkKept => RunKeepsItsWork
  BY DEF WorkKept
<1> QED
  BY InitTypes, NextTypes, <1>1, <1>2, NextWork, PTL DEF Spec

-----------------------------------------------------------------------------
(* The work under review *)

(* What is in main or on the head of an open PR.                            *)
Reviewed == origin[Main] \cup UNION {origin[b] : b \in {h \in Branches : Open(h)}}

(* A run of which no call failed has left main; what it committed goes from *)
(* its branch to origin and from there to a PR, unless its PR was merged    *)
(* under it.                                                                *)
OffMain   == branch # Main
AllPushed ==
  pc = "draft" \/ (made # {} /\ pc \notin {"push", "part"}) =>
    local[branch] \subseteq origin[branch]
AllSeen   ==
  made # {} /\ pc \notin {"push", "draft"} /\ "orphan" \notin trouble =>
    local[branch] \subseteq Reviewed
ReviewInv ==
  /\ pc = "idle" => made = {}
  /\ pc # "idle" /\ trouble \subseteq {"orphan"} => OffMain /\ AllPushed /\ AllSeen

(* Pushing and opening PRs takes nothing back.                              *)
LEMMA ReviewedGrows ==
  ASSUME Main \in Branches,
         \A b \in Branches : origin[b] \subseteq origin'[b],
         \A b \in Branches : Open(b) => Open(b)'
  PROVE  Reviewed \subseteq Reviewed'
BY DEF Reviewed

(* A merged PR leaves its commits in main.                                  *)
LEMMA MergeKeepsReviewed ==
  ASSUME Types, NEW b \in Branches, Merge(b)
  PROVE  /\ Reviewed \subseteq Reviewed'
         /\ \A c \in Branches : origin[c] \subseteq origin'[c]
         /\ \A c \in Branches \ {b} : Open(c) => Open(c)'
<1>1. /\ Main \in Branches /\ origin \in [Branches -> SUBSET Nat]
      /\ pr \in [Branches -> PrType]
  BY DEF Types, TypeOK, Branches, PrType
<1>2. /\ origin'[Main] = origin[Main] \cup origin[b]
      /\ \A c \in Branches \ {Main} : origin'[c] = origin[c]
      /\ \A c \in Branches \ {b} : pr'[c] = pr[c]
  BY <1>1 DEF Merge
<1>3. \A c \in Branches \ {b} : Open(c) => Open(c)'
  BY <1>2 DEF Open
<1>4. \A c \in Branches : origin[c] \subseteq origin'[c]
  BY <1>2
<1>5. ASSUME NEW x \in Reviewed PROVE x \in Reviewed'
  <2>1. CASE x \in origin[Main]
    BY <2>1, <1>2 DEF Reviewed
  <2>2. CASE x \notin origin[Main]
    <3>1. PICK h \in Branches : Open(h) /\ x \in origin[h]
      BY <2>2 DEF Reviewed
    <3>2. CASE h = b
      BY <3>1, <3>2, <1>2 DEF Reviewed
    <3>3. CASE h # b
      BY <3>1, <3>3, <1>3, <1>4 DEF Reviewed
    <3> QED
      BY <3>2, <3>3
  <2> QED
    BY <2>1, <2>2
<1> QED
  BY <1>3, <1>4, <1>5

(* Opening a draft closes no PR, and if no call fails what is on origin is  *)
(* then under review.                                                       *)
LEMMA EnsureDraftReviews ==
  ASSUME Types, OffMain, EnsureDraft, origin' = origin
  PROVE  /\ \A b \in Branches : Open(b) => Open(b)'
         /\ trouble \ {"orphan"} \subseteq trouble'
         /\ "forge" \notin trouble' => origin[branch] \subseteq Reviewed'
<1>1. /\ Main \in Branches /\ branch \in Branches
      /\ pr \in [Branches -> PrType]
  BY DEF Types, TypeOK, Branches, PrType
<1>2. /\ Created[branch].state = "draft"
      /\ \A b \in Branches \ {branch} : Created[b] = pr[b]
  BY <1>1 DEF Created
<1>3. pr' \in {pr, Created}
  BY DEF EnsureDraft
<1>4. \A b \in Branches : Open(b) => Open(b)'
  BY <1>2, <1>3 DEF Open
<1>5. trouble \ {"orphan"} \subseteq trouble'
  BY DEF EnsureDraft
<1>6. CASE Found # {} /\ pr' = pr
  <2>1. pr'[branch].state # "none"
    BY <1>6 DEF Found, Open
  <2>2. origin[branch] \subseteq Reviewed'
    BY <1>1, <2>1 DEF Reviewed, Open
  <2> QED
    BY <1>4, <1>5, <2>2
<1>7. CASE pr' = Created
  <2>1. pr'[branch].state # "none"
    BY <1>2, <1>7
  <2>2. origin[branch] \subseteq Reviewed'
    BY <1>1, <2>1 DEF Reviewed, Open
  <2> QED
    BY <1>4, <1>5, <2>2
<1>8. CASE ~CanCreate /\ pr' = pr
  <2>1. origin[branch] \subseteq Reviewed'
    BY <1>1, <1>8 DEF CanCreate, Reviewed, Open
  <2> QED
    BY <1>4, <1>5, <2>1
<1>9. CASE "forge" \in trouble'
  BY <1>4, <1>5, <1>9
<1> QED
  BY <1>6, <1>7, <1>8, <1>9 DEF EnsureDraft, OffMain

LEMMA TransitionReviews ==
  ASSUME Types, TransitionPrToReview
  PROVE  /\ \A b \in Branches : Open(b) => Open(b)'
         /\ \A b \in Branches : origin[b] \subseteq origin'[b]
         /\ trouble \subseteq trouble'
<1>1. pr \in [Branches -> PrType] /\ branch \in Branches
  BY DEF Types, TypeOK, PrType
<1>2. \A b \in Branches : pr[b].state # "none" => MadeReady[b].state # "none"
  BY <1>1 DEF MadeReady, Open
<1>3. pr' \in {pr, MadeReady} /\ (origin' = Pushed \/ origin' = origin)
  BY DEF TransitionPrToReview
<1>4. trouble \subseteq trouble'
  BY DEF TransitionPrToReview
<1> QED
  BY <1>2, <1>3, <1>4, PushGrows DEF Open

LEMMA NextReview == Types /\ PrNumberIsOurs /\ ReviewInv /\ [Next]_vars => ReviewInv'
<1> SUFFICES ASSUME Types, PrNumberIsOurs, ReviewInv, [Next]_vars PROVE ReviewInv'
  OBVIOUS
<1>a. RefsOK(branch, exists, local) /\ Main \in Branches /\ branch \in Branches
  BY TypesRefs DEF RefsOK, Branches
<1>1. CASE Start
  <2>1. AutoBuild \in Branches \ {Main}
    BY BranchAssumption DEF Branches
  <2>2. trouble' \subseteq {"orphan"} => branch' # Main
    BY <1>1, <2>1 DEF Start, SafeBranch, CheckOut
  <2>3. pc' = "spec" /\ made' = {}
    BY <1>1 DEF Start, ReviewInv
  <2> QED
    BY <2>2, <2>3 DEF ReviewInv, OffMain, AllPushed, AllSeen
<1>2. CASE BeginSpec
  <2>1. PICK s \in todo : SafeBranch(SpecBranch[s])
    BY <1>2 DEF BeginSpec
  <2>2. SpecBranch[s] \in Branches \ {Main}
    BY BranchAssumption DEF Branches, Types, TypeOK
  <2>3. pc = "spec" /\ pc' = "chunk" /\ UNCHANGED <<made, origin, pr>>
    BY <1>2 DEF BeginSpec
  <2>4. trouble \subseteq trouble'
    BY <2>1 DEF SafeBranch
  <2>5. ASSUME trouble' \subseteq {"orphan"} PROVE OffMain' /\ AllPushed' /\ AllSeen'
    <3>1. OffMain /\ AllPushed /\ AllSeen
      BY <2>3, <2>4, <2>5 DEF ReviewInv
    <3>2. branch' = branch /\ local' = local
      BY <2>1, <3>1 DEF SafeBranch, OffMain
    <3>3. Reviewed' = Reviewed
      BY <2>3 DEF Reviewed, Open
    <3> QED
      BY <2>3, <2>4, <3>1, <3>2, <3>3 DEF OffMain, AllPushed, AllSeen
  <2> QED
    BY <2>3, <2>5 DEF ReviewInv
<1>3. CASE Exit \/ Interrupt \/ SplitBranchRaises
  BY <1>3 DEF Exit, Interrupt, SplitBranchRaises, ProcessEnds, ReviewInv
<1>4. CASE EndCycle \/ SkipMerged \/ Deadline \/ BeginChunk \/ EndSpec
           \/ ChunkFails \/ ChunkRateLimited \/ MarkBox
  <2>1. /\ UNCHANGED <<branch, local, origin, pr, made, trouble>>
        /\ pc \notin {"idle", "push", "draft", "part"}
        /\ pc' \notin {"idle", "push", "draft", "part"}
    BY <1>4
    DEF EndCycle, SkipMerged, Deadline, BeginChunk, EndSpec, ChunkFails,
        ChunkRateLimited, MarkBox, repo, proc
  <2>2. Reviewed' = Reviewed
    BY <2>1 DEF Reviewed, Open
  <2> QED
    BY <2>1, <2>2 DEF ReviewInv, OffMain, AllPushed, AllSeen
<1>5. CASE SplitReady \/ Review
  <2>1. /\ UNCHANGED <<branch, local, made>>
        /\ pc \in {"ready", "review"} /\ pc' \in {"branch", "spec"}
        /\ TransitionPrToReview
    BY <1>5 DEF SplitReady, Review
  <2>2. /\ \A b \in Branches : Open(b) => Open(b)'
        /\ \A b \in Branches : origin[b] \subseteq origin'[b]
        /\ trouble \subseteq trouble'
    BY <2>1, TransitionReviews
  <2>3. Reviewed \subseteq Reviewed'
    BY <1>a, <2>2, ReviewedGrows
  <2>4. origin[branch] \subseteq origin'[branch]
    BY <1>a, <2>2
  <2> QED
    BY <2>1, <2>2, <2>3, <2>4 DEF ReviewInv, OffMain, AllPushed, AllSeen
<1>6. CASE SplitBranch
  <2>1. pc = "branch" /\ pc' = "part" /\ UNCHANGED <<origin, pr, made>>
    BY <1>6 DEF SplitBranch
  <2>2. ASSUME trouble' \subseteq {"orphan"} PROVE OffMain' /\ AllPushed' /\ AllSeen'
    <3>1. PICK b \in Parts \ exists : CheckOut(b) /\ trouble' = trouble
      BY <1>6, <2>2 DEF SplitBranch
    <3>2. b \in Branches /\ b # Main
      BY BranchAssumption DEF Branches
    <3>3. branch' = b /\ local'[b] = local[branch]
      BY <1>a, <3>1, <3>2, CheckOutRefs DEF CheckOut
    <3>4. AllSeen
      BY <2>1, <2>2, <3>1 DEF ReviewInv
    <3>5. Reviewed' = Reviewed
      BY <2>1 DEF Reviewed, Open
    <3> QED
      BY <2>1, <3>1, <3>2, <3>3, <3>4, <3>5 DEF OffMain, AllPushed, AllSeen
  <2> QED
    BY <2>1, <2>2 DEF ReviewInv
<1>7. CASE SplitPush
  <2>1. /\ UNCHANGED <<branch, local, pr, made>>
        /\ pc = "part" /\ pc' \in {"part_pr", "build"}
        /\ origin' = Pushed \/ origin' = origin
        /\ trouble \subseteq trouble'
    BY <1>7 DEF SplitPush
  <2>2. \A b \in Branches : origin[b] \subseteq origin'[b]
    BY <2>1, PushGrows
  <2>3. Reviewed \subseteq Reviewed'
    BY <1>a, <2>1, <2>2, ReviewedGrows DEF Open
  <2>4. trouble' \subseteq {"orphan"} => local[branch] \subseteq origin'[branch]
    BY <1>7, PushGrows DEF SplitPush
  <2> QED
    BY <2>1, <2>3, <2>4 DEF ReviewInv, OffMain, AllPushed, AllSeen
<1>8. CASE SplitDraft \/ DraftPr
  <2>1. /\ UNCHANGED <<branch, local, origin, made>> /\ EnsureDraft
        /\ pc \in {"part_pr", "draft"} /\ pc' \in {"build", "mark"}
    BY <1>8 DEF SplitDraft, DraftPr
  <2>2. ASSUME trouble' \subseteq {"orphan"} PROVE OffMain' /\ AllPushed' /\ AllSeen'
    <3>1. trouble \subseteq {"orphan"}
      BY <2>1, <2>2 DEF EnsureDraft
    <3>2. OffMain /\ AllPushed
      BY <2>1, <3>1 DEF ReviewInv
    <3>3. origin[branch] \subseteq Reviewed'
      BY <2>1, <2>2, <3>2, EnsureDraftReviews
    <3> QED
      BY <2>1, <3>2, <3>3 DEF OffMain, AllPushed, AllSeen
  <2> QED
    BY <2>1, <2>2 DEF ReviewInv
<1>9. CASE ChunkCommits
  BY <1>9 DEF ChunkCommits, ReviewInv, OffMain, AllPushed, AllSeen
<1>10. CASE PushChunk
  <2>1. /\ UNCHANGED <<branch, local, pr, prNo, made>>
        /\ pc = "push" /\ pc' \in {"draft", "mark"}
        /\ trouble \subseteq trouble'
    BY <1>10 DEF PushChunk
  <2>2. ASSUME trouble' \subseteq {"orphan"} PROVE OffMain' /\ AllPushed' /\ AllSeen'
    <3>1. /\ trouble \subseteq {"orphan"} /\ origin' = Pushed
          /\ prNo = NoPr => pc' = "draft"
          /\ prNo # NoPr /\ ~Open(prNo) => "orphan" \in trouble'
      BY <1>10, <2>1, <2>2 DEF PushChunk
    <3>2. OffMain
      BY <2>1, <3>1 DEF ReviewInv
    <3>3. local[branch] \subseteq origin'[branch]
      BY <3>1, PushGrows
    <3>4. prNo # NoPr => prNo = branch
      BY <2>1 DEF PrNumberIsOurs
    <3>5. Open(branch) => local[branch] \subseteq Reviewed'
      BY <1>a, <2>1, <3>3 DEF Reviewed, Open
    <3> QED
      BY <2>1, <3>1, <3>2, <3>3, <3>4, <3>5 DEF OffMain, AllPushed, AllSeen
  <2> QED
    BY <2>1, <2>2 DEF ReviewInv
<1>11. CASE BackToMain
  BY <1>11 DEF BackToMain, ReviewInv, proc
<1>12. CASE \E b \in Branches : Merge(b)
  <2>1. PICK b \in Branches : Merge(b)
    BY <1>12
  <2>2. /\ Reviewed \subseteq Reviewed'
        /\ \A c \in Branches : origin[c] \subseteq origin'[c]
    BY <2>1, MergeKeepsReviewed
  <2>3. UNCHANGED <<branch, local, made, pc, trouble>>
    BY <2>1 DEF Merge, proc
  <2>4. AllPushed => AllPushed'
    BY <1>a, <2>2, <2>3 DEF AllPushed
  <2>5. AllSeen => AllSeen'
    BY <2>2, <2>3 DEF AllSeen
  <2> QED
    BY <2>3, <2>4, <2>5 DEF ReviewInv, OffMain
<1>13. CASE UNCHANGED vars
  BY <1>13 DEF vars, repo, proc, ReviewInv, OffMain, AllPushed, AllSeen, Reviewed, Open
<1> QED
  BY <1>1, <1>2, <1>3, <1>4, <1>5, <1>6, <1>7, <1>8, <1>9, <1>10, <1>11, <1>12, <1>13
  DEF Next, Step

(* A run of which no call failed and that committed something has, after    *)
(* each spec, pushed all of its branch, and all of it is in main or on the  *)
(* head of an open PR, unless the run's own PR was merged while it went on  *)
(* and it has looked for no other since (orchestrator.py:471-488).          *)
THEOREM WorkEndsUnderReview == Spec => []WorkIsUnderReview
<1>1. Init => PrNumberIsOurs /\ ReviewInv
  BY DEF Init, PrNumberIsOurs, ReviewInv
<1>2. ReviewInv => WorkIsUnderReview
  BY DEF ReviewInv, AllPushed, AllSeen, WorkIsUnderReview, Reviewed
<1> QED
  BY InitTypes, NextTypes, <1>1, <1>2, NextNumber, NextReview, PTL DEF Spec

-----------------------------------------------------------------------------
(* Main. A process is on main only after a failed checkout, and main has no  *)
(* PR of its own.                                                            *)

LEMMA SafeBranchLeaves ==
  ASSUME NEW b \in Branches \ {Main}, SafeBranch(b)
  PROVE  /\ branch' = Main => "checkout" \in trouble' /\ "checkout" \in Faults
         /\ trouble \subseteq trouble'
BY DEF SafeBranch, CheckOut

OwnBranch == pc # "idle" /\ branch = Main => "checkout" \in trouble \cap Faults
MainHasNoPr == pr[Main].state = "none"

LEMMA NextOwnBranch == Types /\ OwnBranch /\ [Next]_vars => OwnBranch'
<1> SUFFICES ASSUME Types, OwnBranch, [Next]_vars PROVE OwnBranch'
  OBVIOUS
<1> USE DEF OwnBranch, repo, proc
<1>1. CASE Start
  <2>1. AutoBuild \in Branches \ {Main}
    BY BranchAssumption DEF Branches
  <2> QED
    BY <1>1, <2>1, SafeBranchLeaves DEF Start
<1>2. CASE BeginSpec
  <2>1. PICK s \in todo : SafeBranch(SpecBranch[s])
    BY <1>2 DEF BeginSpec
  <2>2. SpecBranch[s] \in Branches \ {Main}
    BY BranchAssumption DEF Branches, Types, TypeOK
  <2> QED
    BY <2>1, <2>2, SafeBranchLeaves
<1>3. CASE Exit \/ Interrupt \/ SplitBranchRaises
  BY <1>3 DEF Exit, Interrupt, SplitBranchRaises, ProcessEnds
<1>4. CASE SplitBranch
  <2>1. PICK b \in Parts : branch' = b
    BY <1>4 DEF SplitBranch, CheckOut
  <2>2. branch' # Main
    BY <2>1, BranchAssumption
  <2> QED
    BY <2>2
<1>5. CASE SplitReady \/ Review
  BY <1>5 DEF SplitReady, Review, TransitionPrToReview
<1>6. CASE SplitDraft \/ DraftPr
  BY <1>6 DEF SplitDraft, DraftPr, EnsureDraft
<1>7. CASE SplitPush \/ PushChunk
  BY <1>7 DEF SplitPush, PushChunk
<1>8. CASE EndCycle \/ SkipMerged \/ Deadline \/ BeginChunk \/ EndSpec
  BY <1>8 DEF EndCycle, SkipMerged, Deadline, BeginChunk, EndSpec
<1>9. CASE ChunkCommits \/ ChunkFails \/ ChunkRateLimited \/ MarkBox
  BY <1>9 DEF ChunkCommits, ChunkFails, ChunkRateLimited, MarkBox
<1>10. CASE BackToMain
  BY <1>10 DEF BackToMain
<1>11. ASSUME NEW b \in Branches, Merge(b) PROVE OwnBranch'
  BY <1>11 DEF Merge
<1>12. CASE UNCHANGED vars
  BY <1>12 DEF vars
<1> QED
  BY <1>1, <1>2, <1>3, <1>4, <1>5, <1>6, <1>7, <1>8, <1>9, <1>10, <1>11, <1>12 DEF Next, Step

LeavesMain == pc # "idle" => branch # Main

(* assert_safe_branch (git_orchestrator.py:456-489) keeps a run off main, at *)
(* every step of every spec and part, if no checkout fails: one that fails   *)
(* is only logged.                                                           *)
THEOREM RunLeavesMain ==
  ASSUME "checkout" \notin Faults
  PROVE  Spec => []LeavesMain
<1>1. Init => OwnBranch
  BY DEF Init, OwnBranch
<1>2. OwnBranch => LeavesMain
  BY DEF OwnBranch, LeavesMain
<1> QED
  BY <1>1, <1>2, InitTypes, NextTypes, NextOwnBranch, PTL DEF Spec

-----------------------------------------------------------------------------
(* The promise of ReviewFlow, call by call                                   *)

States == [b \in Branches |-> pr[b].state]

(* What a step does to origin and the PRs is a step of ReviewFlow, or none.  *)
Promised == R!Next \/ UNCHANGED <<origin, States>>

LEMMA PushIsPromised ==
  ASSUME Types, OwnBranch, pc # "idle", origin' = Pushed, UNCHANGED pr
  PROVE  Promised
<1>1. branch \in Branches /\ origin \in [Branches -> SUBSET Nat]
  BY DEF Types, TypeOK
<1>2. branch = Main => "checkout" \in trouble
  BY DEF OwnBranch
<1>3. R!Gains(branch) /\ States' = States
  BY <1>1 DEF Pushed, R!Gains, States
<1>4. R!Push(branch)
  BY <1>2, <1>3 DEF R!Push, States
<1> QED
  BY <1>1, <1>4 DEF Promised, R!Next

LEMMA DraftIsPromised ==
  ASSUME Types, EnsureDraft, UNCHANGED origin
  PROVE  Promised
<1>1. /\ branch \in Branches /\ pr \in [Branches -> PrType]
  BY DEF Types, TypeOK, PrType
<1>2. CASE pr' = pr
  BY <1>2 DEF Promised, States
<1>3. CASE branch # Main /\ CanCreate /\ pr' = Created
  <2>1. States[branch] = "none" /\ ~(origin[branch] \subseteq origin[Main])
    BY <1>1, <1>3 DEF CanCreate, Open, PrType, States
  <2>2. States' = [States EXCEPT ![branch] = "draft"]
    BY <1>1, <1>3 DEF Created, States, PrType
  <2>3. PICK b \in Branches : b = branch
    BY <1>1
  <2>4. R!Draft(b)
    BY <1>3, <2>1, <2>2, <2>3 DEF R!Draft, States
  <2>5. R!Next
    BY <2>4 DEF R!Next
  <2> QED
    BY <2>5 DEF Promised
<1> QED
  BY <1>2, <1>3 DEF EnsureDraft

LEMMA ReviewIsPromised ==
  ASSUME Types, OwnBranch, MainHasNoPr, pc # "idle", TransitionPrToReview
  PROVE  Promised
<1>1. /\ branch \in Branches /\ pr \in [Branches -> PrType]
      /\ origin \in [Branches -> SUBSET Nat]
  BY DEF Types, TypeOK, PrType
<1>2. /\ origin' \in {origin, Pushed} /\ pr' \in {pr, MadeReady}
  BY DEF TransitionPrToReview
<1>3. R!Gains(branch)
  BY <1>1, <1>2 DEF Pushed, R!Gains
<1>4. CASE States' = States
  <2>1. branch = Main => "checkout" \in trouble
    BY DEF OwnBranch
  <2>2. R!Push(branch)
    BY <1>3, <1>4, <2>1 DEF R!Push, States
  <2> QED
    BY <1>1, <2>2 DEF Promised, R!Next
<1>5. CASE States' # States
  <2>1. pr' = [pr EXCEPT ![branch].state = "ready"] /\ Open(branch)
    BY <1>2, <1>5 DEF MadeReady, States
  <2>2. States' = [States EXCEPT ![branch] = "ready"]
    BY <1>1, <2>1 DEF States, PrType
  <2>3. States[branch] = "draft"
    <3>1. pr[branch].state \in {"draft", "ready"}
      BY <1>1, <2>1 DEF Open, PrType
    <3>2. pr[branch].state # "ready"
      BY <1>1, <1>5, <2>2 DEF States
    <3> QED
      BY <1>1, <3>1, <3>2 DEF States
  <2>4. branch # Main
    BY <1>1, <2>3 DEF MainHasNoPr, States
  <2>5. PICK b \in Branches : b = branch
    BY <1>1
  <2>6. R!Ready(b)
    BY <1>3, <2>2, <2>3, <2>4, <2>5 DEF R!Ready, States
  <2>7. R!Next
    BY <2>6 DEF R!Next
  <2> QED
    BY <2>7 DEF Promised
<1> QED
  BY <1>4, <1>5

LEMMA MergeIsPromised ==
  ASSUME Types, NEW b \in Branches, Merge(b)
  PROVE  Promised
<1>1. pr \in [Branches -> PrType]
  BY DEF Types, TypeOK, PrType
<1>2. States[b] = "ready" /\ States' = [States EXCEPT ![b] = "none"]
  BY <1>1 DEF Merge, States, NoOpenPr
<1>3. R!Merge(b)
  BY <1>2 DEF Merge, R!Merge, States
<1> QED
  BY <1>3 DEF Promised, R!Next

LEMMA StepIsPromised == Types /\ OwnBranch /\ MainHasNoPr /\ [Next]_vars => Promised
<1> SUFFICES ASSUME Types, OwnBranch, MainHasNoPr, [Next]_vars PROVE Promised
  OBVIOUS
<1> USE DEF repo, proc
<1>1. CASE PushChunk \/ SplitPush
  <2>1. pc # "idle" /\ UNCHANGED pr /\ (origin' = Pushed \/ origin' = origin)
    BY <1>1 DEF PushChunk, SplitPush
  <2> QED
    BY <2>1, PushIsPromised DEF Promised, States
<1>2. CASE DraftPr \/ SplitDraft
  BY <1>2, DraftIsPromised DEF DraftPr, SplitDraft
<1>3. CASE Review \/ SplitReady
  BY <1>3, ReviewIsPromised DEF Review, SplitReady
<1>4. ASSUME NEW b \in Branches, Merge(b) PROVE Promised
  BY <1>4, MergeIsPromised
<1>5. CASE UNCHANGED <<origin, pr>>
  BY <1>5 DEF Promised, States
<1>6. CASE Start \/ BeginSpec \/ SplitBranch \/ Exit \/ Interrupt \/ SplitBranchRaises
  BY <1>5, <1>6 DEF Start, BeginSpec, SplitBranch, Exit, Interrupt, SplitBranchRaises
<1>7. CASE EndCycle \/ SkipMerged \/ Deadline \/ BeginChunk \/ EndSpec \/ BackToMain
  BY <1>5, <1>7 DEF EndCycle, SkipMerged, Deadline, BeginChunk, EndSpec, BackToMain
<1>8. CASE ChunkCommits \/ ChunkFails \/ ChunkRateLimited \/ MarkBox \/ UNCHANGED vars
  BY <1>5, <1>8 DEF ChunkCommits, ChunkFails, ChunkRateLimited, MarkBox, vars
<1> QED
  BY <1>1, <1>2, <1>3, <1>4, <1>6, <1>7, <1>8 DEF Next, Step

(* Main never gets a PR, as drafts are opened off main and only a draft can  *)
(* become ready.                                                             *)
LEMMA NextMainHasNoPr ==
  Types /\ OwnBranch /\ MainHasNoPr /\ [Next]_vars => MainHasNoPr'
<1> SUFFICES ASSUME Types, MainHasNoPr, Promised PROVE MainHasNoPr'
  BY StepIsPromised
<1>1. Main \in Branches /\ pr \in [Branches -> PrType]
  BY DEF Types, TypeOK, PrType, Branches
<1>2. States[Main] = "none"
  BY <1>1 DEF MainHasNoPr, States
<1>3. States'[Main] = "none"
  BY <1>1, <1>2 DEF Promised, R!Next, R!Push, R!Draft, R!Ready, R!Merge, States
<1> QED
  BY <1>1, <1>3 DEF MainHasNoPr, States

(* PullRequests implements ReviewFlow, for all specs, caps and faults and    *)
(* any number of runs and merges.                                            *)
THEOREM ReviewersCanRely == Spec => ReviewPromise
<1>1. Init => R!Init
  BY DEF Init, R!Init, NoOpenPr
<1>2. Init => OwnBranch /\ MainHasNoPr
  BY DEF Init, OwnBranch, MainHasNoPr, NoOpenPr, Branches
<1>3. Types /\ OwnBranch /\ MainHasNoPr /\ [Next]_vars =>
        [R!Next]_<<origin, [b \in Branches |-> pr[b].state]>>
  BY StepIsPromised DEF Promised, States
<1> QED
  BY <1>1, <1>2, <1>3, InitTypes, NextTypes, NextOwnBranch, NextMainHasNoPr, PTL
  DEF Spec, ReviewPromise, R!Spec

-----------------------------------------------------------------------------
(* A single spec. A PR belongs to the spec that was being built when it was  *)
(* opened, and the spec that makes one ready may be a later one: with one    *)
(* spec it is the same.                                                      *)

PrsHaveSpecs == \A b \in Branches : Open(b) => pr[b].spec \in Specs

LEMMA NextPrsHaveSpecs == Types /\ PrsHaveSpecs /\ [Next]_vars => PrsHaveSpecs'
<1> SUFFICES ASSUME Types, PrsHaveSpecs, [Next]_vars PROVE PrsHaveSpecs'
  OBVIOUS
<1> USE DEF repo, proc
<1>1. pr \in [Branches -> PrType] /\ branch \in Branches
  BY DEF Types, TypeOK, PrType
<1>2. CASE pr' = pr
  BY <1>2 DEF PrsHaveSpecs, Open
<1>3. CASE spec \in Specs /\ pr' = Created
  BY <1>1, <1>3 DEF PrsHaveSpecs, Open, Created, PrType
<1>4. CASE pr' = MadeReady
  BY <1>1, <1>4 DEF PrsHaveSpecs, Open, MadeReady, PrType
<1>5. ASSUME NEW b \in Branches, pr' = [pr EXCEPT ![b] = NoOpenPr] PROVE PrsHaveSpecs'
  BY <1>1, <1>5 DEF PrsHaveSpecs, Open, NoOpenPr, PrType
<1>6. CASE DraftPr \/ SplitDraft
  <2>1. spec \in Specs /\ pr' \in {pr, Created}
    BY <1>6 DEF DraftPr, SplitDraft, EnsureDraft, Types, TypeOK
  <2> QED
    BY <1>2, <1>3, <2>1
<1>7. CASE Review \/ SplitReady
  BY <1>2, <1>4, <1>7 DEF Review, SplitReady, TransitionPrToReview
<1>8. ASSUME NEW b \in Branches, Merge(b) PROVE PrsHaveSpecs'
  BY <1>5, <1>8 DEF Merge
<1>9. CASE Start \/ BeginSpec \/ SplitBranch \/ Exit \/ Interrupt \/ SplitBranchRaises
  BY <1>2, <1>9 DEF Start, BeginSpec, SplitBranch, Exit, Interrupt, SplitBranchRaises
<1>10. CASE EndCycle \/ SkipMerged \/ Deadline \/ BeginChunk \/ EndSpec \/ BackToMain
  BY <1>2, <1>10 DEF EndCycle, SkipMerged, Deadline, BeginChunk, EndSpec, BackToMain
<1>11. CASE \/ ChunkCommits \/ ChunkFails \/ ChunkRateLimited \/ MarkBox \/ PushChunk
            \/ SplitPush \/ UNCHANGED vars
  BY <1>2, <1>11
    DEF ChunkCommits, ChunkFails, ChunkRateLimited, MarkBox, PushChunk, SplitPush, vars
<1> QED
  BY <1>6, <1>7, <1>8, <1>9, <1>10, <1>11 DEF Next, Step

(* Who makes a PR ready: the end of a spec, or a split.                      *)
LEMMA OnlyTheseReady ==
  ASSUME Types, [Next]_vars, NEW b \in Branches, pr[b].state = "draft", pr'[b].state = "ready"
  PROVE  Review \/ SplitReady
<1> USE DEF repo, proc
<1>1. pr \in [Branches -> PrType]
  BY DEF Types, TypeOK, PrType
<1>2. CASE DraftPr \/ SplitDraft
  <2>1. pr' = Created
    BY <1>2 DEF DraftPr, SplitDraft, EnsureDraft
  <2> QED
    BY <1>1, <2>1 DEF Created, PrType
<1>3. ASSUME NEW c \in Branches, Merge(c) PROVE FALSE
  BY <1>1, <1>3 DEF Merge, NoOpenPr, PrType
<1>4. CASE pr' = pr
  BY <1>4
<1>5. Start \/ BeginSpec \/ SplitBranch \/ Exit \/ Interrupt \/ SplitBranchRaises => pr' = pr
  BY DEF Start, BeginSpec, SplitBranch, Exit, Interrupt, SplitBranchRaises
<1>6. EndCycle \/ SkipMerged \/ Deadline \/ BeginChunk \/ EndSpec \/ BackToMain => pr' = pr
  BY DEF EndCycle, SkipMerged, Deadline, BeginChunk, EndSpec, BackToMain
<1>7. \/ ChunkCommits \/ ChunkFails \/ ChunkRateLimited \/ MarkBox \/ PushChunk
      \/ SplitPush \/ UNCHANGED vars
      => pr' = pr
  BY DEF ChunkCommits, ChunkFails, ChunkRateLimited, MarkBox, PushChunk, SplitPush, vars
<1> QED
  BY <1>2, <1>3, <1>4, <1>5, <1>6, <1>7 DEF Next, Step

(* In a repository with one spec a PR becomes ready only through its own     *)
(* spec; with two the run doc_pr_ready shows how it becomes so otherwise.    *)
THEOREM OneSpecReadiesItsOwn ==
  ASSUME \A s, t \in Specs : s = t
  PROVE  Spec => ReadyByOwnSpec
<1>1. Init => PrsHaveSpecs
  BY DEF Init, PrsHaveSpecs, Open, NoOpenPr
<1>2. Types /\ PrsHaveSpecs /\ [Next]_vars =>
        [\A b \in Branches :
           pr[b].state = "draft" /\ pr'[b].state = "ready" => pr[b].spec = spec]_vars
  <2> SUFFICES ASSUME Types, PrsHaveSpecs, [Next]_vars, NEW b \in Branches,
                      pr[b].state = "draft", pr'[b].state = "ready"
               PROVE  pr[b].spec = spec
    OBVIOUS
  <2>1. pr[b].spec \in Specs
    BY DEF PrsHaveSpecs, Open
  <2>2. pc \in {"review", "ready"}
    BY OnlyTheseReady DEF Review, SplitReady
  <2>3. spec \in Specs
    BY <2>2 DEF Types, TypeOK
  <2> QED
    BY <2>1, <2>3
<1> QED
  BY <1>1, <1>2, InitTypes, NextTypes, NextPrsHaveSpecs, PTL DEF Spec, ReadyByOwnSpec
=============================================================================
