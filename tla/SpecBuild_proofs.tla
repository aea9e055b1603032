-------------------------- MODULE SpecBuild_proofs --------------------------
(***************************************************************************)
(* Theorems about SpecBuild, for every outline, engine list, set of faults *)
(* and number of runs: its types, the chunk-status ledger's invariants,    *)
(* that the ledger implements ChunkLedger, that a run without a ledger     *)
(* checks every box, that each checked box is paid for by a commit, and    *)
(* that reverted work stays out of commits, and what "no-diff" says.       *)
(***************************************************************************)
EXTENDS SpecBuild, FiniteSetTheorems, TLAPS

-----------------------------------------------------------------------------
(* Types *)

(* The id of a chunk of the plan is one of the ids 1..N: positions neither  *)
(* start at 0 nor pass the end of the outline (chunker.py:109-116).         *)
LEMMA PositionIsAnId ==
  ASSUME NEW P \in SUBSET Items, NEW i \in P
  PROVE  Cardinality({j \in P : j <= i}) \in ChunkIds
<1> DEFINE S == {j \in P : j <= i}
<1>1. IsFiniteSet(Items) /\ Cardinality(Items) = N
  BY FS_Interval, OutlineAssumption DEF Items
<1>2. S \in SUBSET Items
  OBVIOUS
<1>3. IsFiniteSet(S) /\ Cardinality(S) <= N
  BY <1>1, <1>2, FS_Subset
<1>4. i \in S
  BY DEF Items
<1>5. Cardinality(S) \in Nat /\ Cardinality(S) # 0
  BY <1>3, <1>4, FS_CardinalityType, FS_EmptySet
<1> QED
  BY <1>3, <1>5, OutlineAssumption DEF ChunkIds, Items

LEMMA ChunkNoIsAnId ==
  ASSUME plan \subseteq Items, NEW i \in plan
  PROVE  ChunkNo(i) \in ChunkIds
BY PositionIsAnId DEF ChunkNo

(* What the engines report, and what is given to commit_chunk, are paths of *)
(* the working tree.                                                        *)
LEMMA PathsOfTheTree ==
  ASSUME TypeOK, NEW i \in Items
  PROVE  /\ WorkOf(i) \subseteq Path
         /\ Setup \subseteq Path
         /\ \A t \in SUBSET Path : /\ Changed(t) \subseteq Path \cup {SpecFile}
                                   /\ Tracked(t) \subseteq Path \cup {SpecFile}
         /\ \A s, t \in SUBSET Path : Report(s, t) \subseteq Path \cup {SpecFile}
         /\ \A given \in Given : given \subseteq Path \cup {SpecFile}
<1>1. WorkOf(i) \subseteq Path /\ Setup \subseteq Path
  BY OutlineAssumption DEF WorkOf, Setup, Path, Items
<1>2. \A t \in SUBSET Path : /\ Changed(t) \subseteq Path \cup {SpecFile}
                             /\ Tracked(t) \subseteq Path \cup {SpecFile}
  BY DEF Changed, Tracked
<1>3. \A s, t \in SUBSET Path : Report(s, t) \subseteq Path \cup {SpecFile}
  BY <1>2 DEF Report
<1>4. \A given \in Given : given \subseteq Path \cup {SpecFile}
  BY <1>2 DEF Given, Collected, TypeOK
<1> QED
  BY <1>1, <1>2, <1>3, <1>4

(* A commit keeps the types: only working-tree paths become committed, and  *)
(* the committed boxes are the checked ones.                                *)
LEMMA LandTypes ==
  ASSUME TypeOK, cur \in plan, plan \subseteq Items, LandGiven
  PROVE  /\ head' \subseteq Path /\ tree' \subseteq Path
         /\ specHead' \subseteq Tasks
         /\ commits' \in [ChunkIds -> Nat]
<1>1. PICK given \in Given : \E staged \in SUBSET given : Land(staged)
  BY DEF LandGiven
<1>2. PICK staged \in SUBSET given : Land(staged)
  BY <1>1
<1>3. staged \subseteq Path \cup {SpecFile}
  BY <1>1, <1>2, PathsOfTheTree, OutlineAssumption DEF Items
<1>4. ChunkNo(cur) \in ChunkIds
  BY ChunkNoIsAnId
<1> QED
  BY <1>2, <1>3, <1>4 DEF Land, TypeOK

(* The engine list has a head.                                              *)
LEMMA FirstEngine == Len(Engines) \in Nat /\ 1 \in 1..Len(Engines)
BY EnginesAssumption

LEMMA FreshLedger == NoLedger \in [ChunkIds -> Status]
BY DEF NoLedger, Status

LEMMA InitTypes == Init => TypeOK
<1> SUFFICES ASSUME Init PROVE TypeOK
  OBVIOUS
<1>1. commits \in [ChunkIds -> Nat]
  BY DEF Init
<1>2. pc \in PCs /\ ((cur = 0) <=> pc \in {"idle", "loop", "review"})
  BY DEF Init, PCs
<1> QED
  BY <1>1, <1>2, FreshLedger, FirstEngine DEF Init, TypeOK

(* The end of a process leaves only what the disk, git and the forge hold.  *)
LEMMA EndTypes ==
  ASSUME TypeOK, ProcessEnds,
         specTree' \subseteq Tasks, tree' \subseteq Path, pushed' \subseteq ChunkIds,
         forge' \in {"none", "draft", "ready"},
         UNCHANGED <<specHead, head, commits, disk, runs>>
  PROVE  TypeOK'
<1>1. pc' \in PCs /\ ((cur' = 0) <=> pc' \in {"idle", "loop", "review"})
  BY DEF ProcessEnds, PCs
<1>2. ledger' \in [ChunkIds -> Status]
  BY FreshLedger DEF ProcessEnds
<1> QED
  BY <1>1, <1>2, FirstEngine DEF ProcessEnds, TypeOK

LEMMA NextTypes == TypeOK /\ [Next]_vars => TypeOK'
<1> SUFFICES ASSUME TypeOK, [Next]_vars PROVE TypeOK'
  OBVIOUS
<1> USE DEF durable
<1>0. plan \subseteq Items /\ cur \in plan \cup {0} /\ todo \subseteq plan
  BY DEF TypeOK
<1>1. CASE StartRun
  <2>1. plan' \subseteq Items /\ todo' = plan'
    BY <1>1, OutlineAssumption DEF StartRun, ChunkSpec, Headings, Items
  <2>2. tree' \subseteq Path
    BY <1>1, OutlineAssumption DEF StartRun, TypeOK, Setup, WorkOf, Path
  <2>3. ledger' \in [ChunkIds -> Status]
    BY <1>1, FreshLedger DEF StartRun, TypeOK
  <2>4. cur = 0 /\ pc' = "loop"
    BY <1>1 DEF StartRun, TypeOK
  <2> QED
    BY <1>1, <2>1, <2>2, <2>3, <2>4 DEF StartRun, TypeOK, PCs
<1>2. CASE SkipMerged
  BY <1>2 DEF SkipMerged, TypeOK, PCs
<1>3. CASE DeadlineStops
  BY <1>3 DEF DeadlineStops, TypeOK, PCs
<1>4. CASE BeginChunk
  BY <1>0, <1>4, OutlineAssumption DEF BeginChunk, TypeOK, PCs, Items
<1>5. CASE ExecuteSucceeds
  <2>1. cur \in Items /\ cur # 0
    BY <1>0, <1>5 DEF ExecuteSucceeds, TypeOK
  <2>2. PICK made, early \in SUBSET WorkOf(cur) :
           /\ tree' = tree \cup made
           /\ \/ files' = Report(tree \cup made, tree \cup early)
              \/ files' = {}
    BY <1>5 DEF ExecuteSucceeds
  <2>3. tree' \subseteq Path /\ files' \subseteq Path \cup {SpecFile}
    BY <2>1, <2>2, PathsOfTheTree DEF TypeOK
  <2> QED
    BY <1>5, <2>1, <2>3 DEF ExecuteSucceeds, TypeOK, PCs
<1>6. CASE ExecuteFails
  <2>1. cur \in Items /\ cur # 0
    BY <1>0, <1>6 DEF ExecuteFails, TypeOK
  <2>2. tree' \subseteq Path
    BY <1>6, <2>1, PathsOfTheTree DEF ExecuteFails, TypeOK
  <2> QED
    BY <1>6, <2>1, <2>2 DEF ExecuteFails, TypeOK, PCs
<1>7. CASE ExecuteRateLimited
  <2>1. cur \in Items /\ cur # 0
    BY <1>0, <1>7 DEF ExecuteRateLimited, TypeOK
  <2>2. tree' \subseteq Path
    BY <1>7, <2>1, PathsOfTheTree DEF ExecuteRateLimited, TypeOK
  <2>3. engine' \in 1..Len(Engines)
    BY <1>7, FirstEngine DEF ExecuteRateLimited, TypeOK
  <2>4. /\ pc' \in {"execute", "revert"} /\ cur' = cur
        /\ todo' \subseteq plan' /\ plan' = plan
    BY <1>0, <1>7 DEF ExecuteRateLimited
  <2> QED
    BY <1>7, <2>1, <2>2, <2>3, <2>4 DEF ExecuteRateLimited, TypeOK, PCs
<1>8. CASE EngineRaises
  <2>1. cur \in Items
    BY <1>0, <1>8 DEF EngineRaises, TypeOK
  <2>2. tree' \subseteq Path
    BY <1>8, <2>1, PathsOfTheTree DEF EngineRaises, TypeOK
  <2> QED
    BY <1>8, <2>2, EndTypes DEF EngineRaises, TypeOK
<1>9. CASE Verify
  BY <1>9 DEF Verify, TypeOK, PCs
<1>10. CASE FixSucceeds
  <2>1. cur \in Items /\ cur # 0
    BY <1>0, <1>10 DEF FixSucceeds, TypeOK
  <2>2. PICK made, early \in SUBSET WorkOf(cur) :
           /\ tree' = tree \cup made
           /\ \/ files' = files \cup Tracked(tree \cup early)
              \/ files' = files
    BY <1>10 DEF FixSucceeds
  <2>3. tree' \subseteq Path /\ files' \subseteq Path \cup {SpecFile}
    BY <2>1, <2>2, PathsOfTheTree DEF TypeOK
  <2> QED
    BY <1>10, <2>1, <2>3 DEF FixSucceeds, TypeOK, PCs
<1>11. CASE FixFails
  <2>1. cur \in Items /\ cur # 0
    BY <1>0, <1>11 DEF FixFails, TypeOK
  <2>2. tree' \subseteq Path
    BY <1>11, <2>1, PathsOfTheTree DEF FixFails, TypeOK
  <2> QED
    BY <1>11, <2>1, <2>2 DEF FixFails, TypeOK, PCs
<1>12. CASE Reverify
  BY <1>12 DEF Reverify, TypeOK, PCs
<1>13. CASE CommitChunk
  <2>1. cur \in plan /\ cur # 0
    BY <1>0, <1>13 DEF CommitChunk, TypeOK
  <2>2. /\ head' \subseteq Path /\ tree' \subseteq Path /\ specHead' \subseteq Tasks
        /\ commits' \in [ChunkIds -> Nat]
    BY <1>0, <1>13, <2>1, LandTypes DEF CommitChunk
  <2> QED
    BY <1>13, <2>1, <2>2 DEF CommitChunk, TypeOK, PCs
<1>14. CASE CommitNothing
  <2>1. cur \in plan /\ cur # 0
    BY <1>0, <1>14 DEF CommitNothing, TypeOK
  <2>2. /\ head' \subseteq Path /\ tree' \subseteq Path /\ specHead' \subseteq Tasks
        /\ commits' \in [ChunkIds -> Nat]
    <3>1. CASE UNCHANGED <<head, tree, specHead, commits>>
      BY <3>1 DEF TypeOK
    <3>2. CASE LandGiven
      BY <1>0, <2>1, <3>2, LandTypes
    <3> QED
      BY <1>14, <3>1, <3>2 DEF CommitNothing
  <2> QED
    BY <1>14, <2>1, <2>2 DEF CommitNothing, TypeOK, PCs
<1>15. CASE Push
  <2>1. /\ pushed' \subseteq ChunkIds
        /\ forge' \in {"none", "draft", "ready"} /\ prKnown' \in BOOLEAN
    BY <1>15 DEF Push, TypeOK, CommittedIds
  <2> QED
    BY <1>15, <2>1 DEF Push, TypeOK, PCs
<1>16. CASE MarkChunkComplete
  <2>1. specTree' \subseteq Tasks
    BY <1>16 DEF MarkChunkComplete, TypeOK, BoxFor
  <2> QED
    BY <1>16, <2>1 DEF MarkChunkComplete, TypeOK, PCs
<1>17. CASE SaveMerged
  <2>1. ChunkNo(cur) \in ChunkIds
    BY <1>0, <1>17, ChunkNoIsAnId DEF SaveMerged, TypeOK
  <2>2. ledger' \in [ChunkIds -> Status] /\ disk' \in [ChunkIds -> Status]
    BY <1>17, <2>1 DEF SaveMerged, RecordStatus, TypeOK, Status
  <2> QED
    BY <1>17, <2>2 DEF SaveMerged, NextChunk, TypeOK, PCs
<1>18. CASE SaveFailed
  <2>1. ChunkNo(cur) \in ChunkIds
    BY <1>0, <1>18, ChunkNoIsAnId DEF SaveFailed, TypeOK
  <2>2. ledger' \in [ChunkIds -> Status] /\ disk' \in [ChunkIds -> Status]
    BY <1>18, <2>1 DEF SaveFailed, RecordStatus, TypeOK, Status
  <2> QED
    BY <1>18, <2>2 DEF SaveFailed, NextChunk, TypeOK, PCs
<1>19. CASE RevertChunkChanges
  <2>1. /\ specTree' \subseteq Tasks /\ tree' \subseteq Path
        /\ disk' \in [ChunkIds -> Status]
    BY <1>19, FreshLedger DEF RevertChunkChanges, TypeOK
  <2> QED
    BY <1>19, <2>1 DEF RevertChunkChanges, TypeOK, PCs
<1>20. CASE SpecIncomplete
  BY <1>20, EndTypes DEF SpecIncomplete, TypeOK
<1>21. CASE SpecComplete
  BY <1>21 DEF SpecComplete, TypeOK, PCs
<1>22. CASE TransitionPrToReview
  BY <1>22, EndTypes DEF TransitionPrToReview, TypeOK, CommittedIds
<1>23. CASE Interrupt
  BY <1>23, EndTypes DEF Interrupt, TypeOK
<1>24. CASE UNCHANGED vars
  BY <1>24 DEF vars, process, TypeOK
<1>25. CASE SaveNoDiff
  <2>1. ChunkNo(cur) \in ChunkIds
    BY <1>0, <1>25, ChunkNoIsAnId DEF SaveNoDiff, TypeOK
  <2>2. ledger' \in [ChunkIds -> Status] /\ disk' \in [ChunkIds -> Status]
    BY <1>25, <2>1 DEF SaveNoDiff, RecordStatus, TypeOK, Status
  <2> QED
    BY <1>25, <2>2 DEF SaveNoDiff, NextChunk, TypeOK, PCs
<1> QED
  BY <1>1, <1>2, <1>3, <1>4, <1>5, <1>6, <1>7, <1>8, <1>9, <1>10, <1>11, <1>12,
     <1>13, <1>14, <1>15, <1>16, <1>17, <1>18, <1>19, <1>20, <1>21, <1>22, <1>23,
     <1>24, <1>25
  DEF Next, Step

(* Every variable has its type in every state of every run.                 *)
THEOREM TypeCorrect == Spec => []TypeOK
<1>1. Init => TypeOK
  BY InitTypes
<1>2. TypeOK /\ [Next]_vars => TypeOK'
  BY NextTypes
<1> QED
  BY <1>1, <1>2, PTL DEF Spec

-----------------------------------------------------------------------------
(* The chunk-status ledger *)

\* Between the commit and the record of a chunk, its id has a commit.
RecordedIsLanded ==
  pc \in {"push", "mark", "save"} => commits[ChunkNo(cur)] > 0

\* The chunk being built is one the ledger in memory does not hold as merged.
CurIsOpen ==
  cur # 0 => ledger[ChunkNo(cur)] # "merged"

\* A process that resumes knows every merged id of the ledger file.
FileIsKnown ==
  NoResume \/ pc = "idle" \/ \A n \in ChunkIds : disk[n] = "merged" => ledger[n] = "merged"

\* While no chunk failed, those behind the loop are merged.
NoneLeftBehind ==
  allOk /\ pc \notin {"idle", "nodiff", "revert", "failed"} =>
     \A i \in plan \ todo : i = cur \/ ledger[ChunkNo(i)] = "merged"

\* The PR is sent to review from the end of the loop only.
ReviewIsDone ==
  pc = "review" => allOk /\ todo = {}

LedgerInv ==
  /\ TypeOK
  /\ MergedHasCommit
  /\ RecordedIsLanded
  /\ CurIsOpen
  /\ FileIsKnown
  /\ NoneLeftBehind
  /\ ReviewIsDone

LEMMA InitLedger == Init => LedgerInv
<1> SUFFICES ASSUME Init PROVE LedgerInv
  OBVIOUS
<1>1. TypeOK
  BY InitTypes
<1>2. MergedHasCommit
  BY DEF Init, MergedHasCommit, NoLedger
<1>3. RecordedIsLanded /\ CurIsOpen /\ FileIsKnown /\ NoneLeftBehind /\ ReviewIsDone
  BY DEF Init, RecordedIsLanded, CurIsOpen, FileIsKnown, NoneLeftBehind, ReviewIsDone
<1> QED
  BY <1>1, <1>2, <1>3 DEF LedgerInv

(* A commit adds one to the count of the current chunk's id and leaves the  *)
(* others alone.                                                            *)
LEMMA LandCounts ==
  ASSUME TypeOK, cur \in plan, LandGiven
  PROVE  /\ ChunkNo(cur) \in ChunkIds
         /\ commits' = [commits EXCEPT ![ChunkNo(cur)] = @ + 1]
         /\ commits'[ChunkNo(cur)] > 0
         /\ \A n \in ChunkIds : commits[n] > 0 => commits'[n] > 0
<1>1. ChunkNo(cur) \in ChunkIds
  BY ChunkNoIsAnId DEF TypeOK
<1>2. commits' = [commits EXCEPT ![ChunkNo(cur)] = @ + 1]
  BY DEF LandGiven, Land
<1> QED
  BY <1>1, <1>2 DEF TypeOK

(* The end of a process keeps the invariant: only the ledger file and the   *)
(* commits are left.                                                        *)
LEMMA EndLedger ==
  ASSUME LedgerInv, ProcessEnds, TypeOK', UNCHANGED <<commits, disk>>
  PROVE  LedgerInv'
<1>1. MergedHasCommit'
  BY DEF LedgerInv, MergedHasCommit, ProcessEnds, NoLedger
<1>2. RecordedIsLanded' /\ CurIsOpen' /\ FileIsKnown' /\ NoneLeftBehind' /\ ReviewIsDone'
  BY DEF ProcessEnds, RecordedIsLanded, CurIsOpen, FileIsKnown, NoneLeftBehind, ReviewIsDone
<1> QED
  BY <1>1, <1>2 DEF LedgerInv

(* A step that leaves ledger, file and plan alone and stays on one chunk,   *)
(* away from the commit, keeps the invariant.                               *)
LEMMA WorkLedger ==
  ASSUME LedgerInv, TypeOK',
         UNCHANGED <<commits, disk, ledger, plan, cur, allOk>>,
         pc # "idle",
         pc' \in {"push", "mark", "save"} => pc \in {"push", "mark", "save"},
         \/ pc' \in {"nodiff", "revert", "failed"}
         \/ pc \notin {"nodiff", "revert", "failed"} /\ todo' = todo,
         pc' # "review"
  PROVE  LedgerInv'
<1>1. \A i : ChunkNo(i)' = ChunkNo(i)
  BY DEF ChunkNo
<1>2. MergedHasCommit' /\ RecordedIsLanded' /\ CurIsOpen' /\ FileIsKnown'
  BY <1>1 DEF LedgerInv, MergedHasCommit, RecordedIsLanded, CurIsOpen, FileIsKnown
<1>3. NoneLeftBehind'
  BY <1>1 DEF LedgerInv, NoneLeftBehind
<1> QED
  BY <1>2, <1>3 DEF LedgerInv, ReviewIsDone

LEMMA NextLedger == LedgerInv /\ [Next]_vars => LedgerInv'
<1> SUFFICES ASSUME LedgerInv, [Next]_vars PROVE LedgerInv'
  OBVIOUS
<1> USE DEF durable
<1>0. TypeOK /\ TypeOK'
  BY NextTypes DEF LedgerInv
<1> USE <1>0
<1>1. CASE StartRun
  <2>1. cur' = 0 /\ pc' = "loop" /\ todo' = plan'
    BY <1>1 DEF StartRun, TypeOK
  <2>2. MergedHasCommit' /\ FileIsKnown'
    BY <1>1 DEF StartRun, LedgerInv, MergedHasCommit, FileIsKnown, NoLedger
  <2> QED
    BY <2>1, <2>2 DEF LedgerInv, RecordedIsLanded, CurIsOpen, NoneLeftBehind, ReviewIsDone
<1>2. CASE SkipMerged
  <2>1. \A i : ChunkNo(i)' = ChunkNo(i)
    BY <1>2 DEF SkipMerged, ChunkNo
  <2>2. MergedHasCommit' /\ RecordedIsLanded' /\ CurIsOpen' /\ FileIsKnown'
    BY <1>2, <2>1
    DEF SkipMerged, LedgerInv, MergedHasCommit, RecordedIsLanded, CurIsOpen, FileIsKnown
  <2>3. NoneLeftBehind'
    BY <1>2, <2>1 DEF SkipMerged, LedgerInv, NoneLeftBehind
  <2> QED
    BY <1>2, <2>2, <2>3 DEF LedgerInv, ReviewIsDone, SkipMerged
<1>3. CASE DeadlineStops
  <2>1. \A i : ChunkNo(i)' = ChunkNo(i)
    BY <1>3 DEF DeadlineStops, ChunkNo
  <2> QED
    BY <1>3, <2>1
    DEF DeadlineStops, LedgerInv, MergedHasCommit, RecordedIsLanded, CurIsOpen, FileIsKnown,
        NoneLeftBehind, ReviewIsDone
<1>4. CASE BeginChunk
  <2>1. \A i : ChunkNo(i)' = ChunkNo(i)
    BY <1>4 DEF BeginChunk, ChunkNo
  <2>2. MergedHasCommit' /\ RecordedIsLanded' /\ CurIsOpen' /\ FileIsKnown'
    BY <1>4, <2>1
    DEF BeginChunk, LedgerInv, MergedHasCommit, RecordedIsLanded, CurIsOpen, FileIsKnown
  <2>3. cur = 0 /\ 0 \notin plan
    BY <1>4 DEF BeginChunk, TypeOK, Items
  <2>4. PICK j \in todo : cur' = j /\ todo' = todo \ {j}
    BY <1>4 DEF BeginChunk
  <2>5. NoneLeftBehind'
    BY <1>4, <2>1, <2>3, <2>4 DEF BeginChunk, LedgerInv, NoneLeftBehind
  <2> QED
    BY <1>4, <2>2, <2>5 DEF LedgerInv, ReviewIsDone, BeginChunk
<1>5. CASE ExecuteSucceeds \/ ExecuteFails \/ ExecuteRateLimited
  BY <1>5, WorkLedger DEF ExecuteSucceeds, ExecuteFails, ExecuteRateLimited
<1>6. CASE Verify \/ FixSucceeds \/ FixFails \/ Reverify
  BY <1>6, WorkLedger DEF Verify, FixSucceeds, FixFails, Reverify
<1>7. CASE CommitChunk
  <2>1. cur \in plan
    BY <1>7 DEF CommitChunk, TypeOK
  <2>2. \A i : ChunkNo(i)' = ChunkNo(i)
    BY <1>7 DEF CommitChunk, ChunkNo
  <2>3. MergedHasCommit'
    BY <1>7, <2>1, LandCounts DEF CommitChunk, LedgerInv, MergedHasCommit
  <2>4. RecordedIsLanded'
    BY <1>7, <2>1, <2>2, LandCounts DEF CommitChunk, RecordedIsLanded
  <2>5. CurIsOpen' /\ FileIsKnown' /\ NoneLeftBehind'
    BY <1>7, <2>2 DEF CommitChunk, LedgerInv, CurIsOpen, FileIsKnown, NoneLeftBehind
  <2> QED
    BY <1>7, <2>3, <2>4, <2>5 DEF LedgerInv, ReviewIsDone, CommitChunk
<1>8. CASE CommitNothing
  <2>1. cur \in plan
    BY <1>8 DEF CommitNothing, TypeOK
  <2>2. \A i : ChunkNo(i)' = ChunkNo(i)
    BY <1>8 DEF CommitNothing, ChunkNo
  <2>3. MergedHasCommit'
    <3>1. CASE UNCHANGED commits
      BY <1>8, <3>1 DEF CommitNothing, LedgerInv, MergedHasCommit
    <3>2. CASE LandGiven
      BY <1>8, <2>1, <3>2, LandCounts DEF CommitNothing, LedgerInv, MergedHasCommit
    <3> QED
      BY <1>8, <3>1, <3>2 DEF CommitNothing
  <2>4. RecordedIsLanded' /\ CurIsOpen' /\ FileIsKnown' /\ NoneLeftBehind'
    BY <1>8, <2>2
    DEF CommitNothing, LedgerInv, RecordedIsLanded, CurIsOpen, FileIsKnown, NoneLeftBehind
  <2> QED
    BY <1>8, <2>3, <2>4 DEF LedgerInv, ReviewIsDone, CommitNothing
<1>9. CASE Push \/ MarkChunkComplete
  BY <1>9, WorkLedger DEF Push, MarkChunkComplete
<1>10. CASE SaveMerged
  <2>1. /\ cur \in plan /\ cur' = 0 /\ pc' = "loop"
        /\ ChunkNo(cur) \in ChunkIds /\ commits[ChunkNo(cur)] > 0
    BY <1>10, ChunkNoIsAnId DEF SaveMerged, NextChunk, TypeOK, LedgerInv, RecordedIsLanded
  <2>2. \A i : ChunkNo(i)' = ChunkNo(i)
    BY <1>10 DEF SaveMerged, ChunkNo
  <2>3. /\ ledger' = [ledger EXCEPT ![ChunkNo(cur)] = "merged"]
        /\ disk' \in {disk, ledger'}
        /\ UNCHANGED <<commits, plan, todo, allOk>>
    BY <1>10 DEF SaveMerged, RecordStatus
  <2>4. MergedHasCommit'
    BY <2>1, <2>3 DEF LedgerInv, MergedHasCommit, TypeOK
  <2>5. RecordedIsLanded' /\ CurIsOpen'
    BY <2>1 DEF RecordedIsLanded, CurIsOpen
  <2>6. FileIsKnown'
    BY <1>10, <2>1, <2>3 DEF SaveMerged, LedgerInv, FileIsKnown, TypeOK
  <2>7. NoneLeftBehind'
    <3>1. ledger'[ChunkNo(cur)] = "merged"
      BY <2>1, <2>3 DEF TypeOK
    <3>2. \A n \in ChunkIds : ledger[n] = "merged" => ledger'[n] = "merged"
      BY <2>1, <2>3 DEF TypeOK
    <3>3. \A i \in plan : ChunkNo(i) \in ChunkIds
      BY ChunkNoIsAnId DEF TypeOK
    <3> QED
      BY <1>10, <2>1, <2>2, <2>3, <3>1, <3>2, <3>3 DEF SaveMerged, LedgerInv, NoneLeftBehind
  <2> QED
    BY <2>1, <2>4, <2>5, <2>6, <2>7 DEF LedgerInv, ReviewIsDone
<1>11. CASE SaveFailed \/ SaveNoDiff
  <2>1. /\ cur \in plan /\ cur' = 0 /\ pc' = "loop"
        /\ ChunkNo(cur) \in ChunkIds /\ ledger[ChunkNo(cur)] # "merged"
    BY <1>11, ChunkNoIsAnId DEF SaveFailed, SaveNoDiff, NextChunk, TypeOK, LedgerInv, CurIsOpen
  <2>2. PICK s \in {"failed", "no-diff"} :
        /\ ledger' = [ledger EXCEPT ![ChunkNo(cur)] = s]
        /\ disk' \in {disk, ledger'}
        /\ UNCHANGED commits /\ allOk' = FALSE
    BY <1>11 DEF SaveFailed, SaveNoDiff, RecordStatus
  <2>3. MergedHasCommit'
    BY <2>1, <2>2 DEF LedgerInv, MergedHasCommit, TypeOK
  <2>4. RecordedIsLanded' /\ CurIsOpen' /\ NoneLeftBehind'
    BY <2>1, <2>2 DEF RecordedIsLanded, CurIsOpen, NoneLeftBehind
  <2>5. FileIsKnown'
    BY <1>11, <2>1, <2>2 DEF SaveFailed, SaveNoDiff, LedgerInv, FileIsKnown, TypeOK
  <2> QED
    BY <2>1, <2>3, <2>4, <2>5 DEF LedgerInv, ReviewIsDone
<1>12. CASE RevertChunkChanges
  <2>1. \A i : ChunkNo(i)' = ChunkNo(i)
    BY <1>12 DEF RevertChunkChanges, ChunkNo
  <2>2. /\ disk' \in {disk, NoLedger} /\ pc' = "failed"
        /\ UNCHANGED <<ledger, commits, cur>> /\ pc = "revert"
    BY <1>12 DEF RevertChunkChanges
  <2>3. MergedHasCommit' /\ FileIsKnown'
    BY <2>2 DEF LedgerInv, MergedHasCommit, FileIsKnown, NoLedger
  <2>4. RecordedIsLanded' /\ CurIsOpen' /\ NoneLeftBehind'
    BY <2>1, <2>2 DEF LedgerInv, RecordedIsLanded, CurIsOpen, NoneLeftBehind
  <2> QED
    BY <2>2, <2>3, <2>4 DEF LedgerInv, ReviewIsDone
<1>13. CASE EngineRaises \/ SpecIncomplete \/ TransitionPrToReview \/ Interrupt
  BY <1>13, EndLedger DEF EngineRaises, SpecIncomplete, TransitionPrToReview, Interrupt
<1>14. CASE SpecComplete
  <2>1. \A i : ChunkNo(i)' = ChunkNo(i)
    BY <1>14 DEF SpecComplete, ChunkNo
  <2> QED
    BY <1>14, <2>1
    DEF SpecComplete, LedgerInv, MergedHasCommit, RecordedIsLanded, CurIsOpen, FileIsKnown,
        NoneLeftBehind, ReviewIsDone
<1>15. CASE UNCHANGED vars
  <2>1. \A i : ChunkNo(i)' = ChunkNo(i)
    BY <1>15 DEF vars, process, ChunkNo
  <2> QED
    BY <1>15, <2>1
    DEF vars, process, LedgerInv, MergedHasCommit, RecordedIsLanded, CurIsOpen, FileIsKnown,
        NoneLeftBehind, ReviewIsDone
<1> QED
  BY <1>1, <1>2, <1>3, <1>4, <1>5, <1>6, <1>7, <1>8, <1>9, <1>10, <1>11, <1>12,
     <1>13, <1>14, <1>15
  DEF Next, Step

LEMMA LedgerInvariant == Spec => []LedgerInv
<1>1. Init => LedgerInv
  BY InitLedger
<1>2. LedgerInv /\ [Next]_vars => LedgerInv'
  BY NextLedger
<1> QED
  BY <1>1, <1>2, PTL DEF Spec

(* Only the two outcomes of commit_chunk create a commit, and they leave    *)
(* the ledger file alone.                                                   *)
LEMMA OnlyCommitsLand ==
  [Next]_vars => UNCHANGED commits \/ (LandGiven /\ pc = "commit" /\ UNCHANGED disk)
<1> SUFFICES ASSUME [Next]_vars
             PROVE  UNCHANGED commits \/ (LandGiven /\ pc = "commit" /\ UNCHANGED disk)
  OBVIOUS
<1> USE DEF durable
<1>1. CASE StartRun \/ SkipMerged \/ DeadlineStops \/ BeginChunk
  BY <1>1 DEF StartRun, SkipMerged, DeadlineStops, BeginChunk
<1>2. CASE ExecuteSucceeds \/ ExecuteFails \/ ExecuteRateLimited \/ EngineRaises
  BY <1>2 DEF ExecuteSucceeds, ExecuteFails, ExecuteRateLimited, EngineRaises
<1>3. CASE Verify \/ FixSucceeds \/ FixFails \/ Reverify
  BY <1>3 DEF Verify, FixSucceeds, FixFails, Reverify
<1>4. CASE CommitChunk \/ CommitNothing
  BY <1>4 DEF CommitChunk, CommitNothing
<1>5. CASE Push \/ MarkChunkComplete \/ SaveMerged \/ SaveFailed \/ SaveNoDiff
             \/ RevertChunkChanges
  BY <1>5 DEF Push, MarkChunkComplete, SaveMerged, SaveFailed, SaveNoDiff, RevertChunkChanges
<1>6. CASE SpecIncomplete \/ SpecComplete \/ TransitionPrToReview \/ Interrupt
  BY <1>6 DEF SpecIncomplete, SpecComplete, TransitionPrToReview, Interrupt
<1>7. CASE UNCHANGED vars
  BY <1>7 DEF vars
<1> QED
  BY <1>1, <1>2, <1>3, <1>4, <1>5, <1>6, <1>7 DEF Next, Step

(* The id a commit names is not recorded as merged in the ledger file.      *)
LEMMA LandMeetsTheFile ==
  ASSUME LedgerInv, LandGiven, pc = "commit"
  PROVE  /\ ChunkNo(cur) \in ChunkIds
         /\ commits' = [commits EXCEPT ![ChunkNo(cur)] = @ + 1]
         /\ NoResume \/ disk[ChunkNo(cur)] # "merged"
         /\ \A n \in ChunkIds :
               commits'[n] # commits[n] => NoResume \/ disk[n] # "merged"
<1>1. cur \in plan /\ cur # 0
  BY DEF LedgerInv, TypeOK
<1>2. ChunkNo(cur) \in ChunkIds /\ commits' = [commits EXCEPT ![ChunkNo(cur)] = @ + 1]
  BY <1>1, LandCounts DEF LedgerInv
<1>3. NoResume \/ disk[ChunkNo(cur)] # "merged"
  BY <1>1, <1>2 DEF LedgerInv, FileIsKnown, CurIsOpen
<1> QED
  BY <1>2, <1>3 DEF LedgerInv, TypeOK

(* No crash, failed commit, lost push or unsaved ledger leaves a record of  *)
(* merged work that has no commit.                                          *)
THEOREM LedgerOnlyClaimsCommits == Spec => []MergedHasCommit
<1>1. LedgerInv => MergedHasCommit
  BY DEF LedgerInv
<1> QED
  BY <1>1, LedgerInvariant, PTL

(* The PR is sent to review only when every chunk of the plan is merged.    *)
THEOREM ReviewMeansAllMerged == Spec => []CompleteMeansAllMerged
<1>1. LedgerInv => CompleteMeansAllMerged
  <2> SUFFICES ASSUME LedgerInv, pc = "review", NEW i \in plan
               PROVE  ledger[ChunkNo(i)] = "merged"
    BY DEF CompleteMeansAllMerged
  <2>1. allOk /\ todo = {} /\ cur = 0 /\ i # 0
    BY DEF LedgerInv, ReviewIsDone, TypeOK, Items
  <2> QED
    BY <2>1 DEF LedgerInv, NoneLeftBehind
<1> QED
  BY <1>1, LedgerInvariant, PTL

(* Resume is idempotent on ids: while the ledger file says an id is merged, *)
(* no process commits that id again, unless run with --no-resume            *)
(* (orchestrator.py:335-351).                                               *)
NeverRecommitMerged ==
  [][\A n \in ChunkIds :
        commits'[n] # commits[n] => NoResume \/ disk[n] # "merged"]_vars

(* Every process resumes so, over any number of runs, crashes and lost      *)
(* ledgers.                                                                 *)
THEOREM ResumeNeverRecommits == Spec => NeverRecommitMerged
<1> DEFINE Kept == \A n \in ChunkIds :
              commits'[n] # commits[n] => NoResume \/ disk[n] # "merged"
<1>1. LedgerInv /\ [Next]_vars => [Kept]_vars
  <2> SUFFICES ASSUME LedgerInv, [Next]_vars PROVE Kept
    OBVIOUS
  <2>1. CASE UNCHANGED commits
    BY <2>1
  <2>2. CASE LandGiven /\ pc = "commit"
    BY <2>2, LandMeetsTheFile
  <2> QED
    BY <2>1, <2>2, OnlyCommitsLand
<1> QED
  BY <1>1, LedgerInvariant, PTL DEF Spec, NeverRecommitMerged

(* The ledger, its file and the commits implement the abstract ledger.      *)
THEOREM LedgerImplementsPromise == Spec => LedgerPromise
<1> DEFINE recorded == {n \in ChunkIds : disk[n] = "merged"}
<1>1. Init => L!Init
  BY DEF Init, L!Init, NoLedger
<1>2. LedgerInv /\ LedgerInv' /\ [Next]_vars => [L!Next]_<<commits, recorded>>
  <2> SUFFICES ASSUME LedgerInv, LedgerInv', [Next]_vars
               PROVE  [L!Next]_<<commits, recorded>>
    OBVIOUS
  <2>1. CASE UNCHANGED commits
    <3>1. recorded' \in SUBSET {n \in ChunkIds : commits[n] > 0}
      BY <2>1 DEF LedgerInv, MergedHasCommit
    <3> QED
      BY <2>1, <3>1 DEF L!Next, L!Record
  <2>2. CASE LandGiven /\ pc = "commit" /\ UNCHANGED disk
    <3>1. /\ ChunkNo(cur) \in ChunkIds
          /\ commits' = [commits EXCEPT ![ChunkNo(cur)] = @ + 1]
          /\ NoResume \/ ChunkNo(cur) \notin recorded
      BY <2>2, LandMeetsTheFile
    <3>2. UNCHANGED recorded
      BY <2>2
    <3> QED
      BY <3>1, <3>2 DEF L!Next, L!Land
  <2> QED
    BY <2>1, <2>2, OnlyCommitsLand
<1> QED
  BY <1>1, <1>2, LedgerInvariant, PTL DEF Spec, LedgerPromise, L!Spec
-----------------------------------------------------------------------------
(* A run without a ledger checks every box *)

(* A set of lines has a first one.                                          *)
LEMMA FirstLine ==
  ASSUME NEW S \in SUBSET Items, S # {}
  PROVE  \E b \in S : First(b, S)
<1> DEFINE R == OpToRel(<, Nat)
<1>1. S \subseteq Nat
  BY OutlineAssumption DEF Items
<1>2. IsWellFoundedOn(R, Nat)
  BY NatLessThanWellFounded, Zenon
<1>3. \A x, y \in Nat : <<x, y>> \in R <=> x < y
  BY DEF OpToRel
<1> HIDE DEF R
<1>4. PICK b \in S : \A j \in S : <<j, b>> \notin R
  BY <1>1, <1>2, WFMin
<1>5. \A j \in S : ~(j < b)
  BY <1>1, <1>3, <1>4
<1>6. \A j \in S : b <= j
  BY <1>1, <1>5
<1> QED
  BY <1>6 DEF First

(* Two chunks of a plan have different ids.                                 *)
LEMMA ChunkNoGrows ==
  ASSUME plan \subseteq Items, NEW i \in plan, NEW j \in plan, i < j
  PROVE  ChunkNo(i) < ChunkNo(j)
<1> DEFINE S == {k \in plan : k <= i}
           T == {k \in plan : k <= j}
<1>1. IsFiniteSet(Items)
  BY FS_Interval, OutlineAssumption DEF Items
<1>2. IsFiniteSet(T) /\ S \in SUBSET T /\ j \in T /\ j \notin S
  <2>1. /\ T \in SUBSET Items /\ i \in Int /\ j \in Int
        /\ \A k \in plan : k \in Int
    <3>1. \A k \in Items : k \in Int
      BY OutlineAssumption DEF Items
    <3> QED
      BY <3>1
  <2>2. IsFiniteSet(T) /\ S \in SUBSET T
    <3>1. \A k \in plan : k <= i => k <= j
      BY <2>1
    <3> QED
      BY <1>1, <2>1, <3>1, FS_Subset
  <2> QED
    BY <2>1, <2>2
<1>3. Cardinality(S) <= Cardinality(T) /\ Cardinality(S) # Cardinality(T)
  BY <1>2, FS_Subset
<1>4. Cardinality(S) \in Nat /\ Cardinality(T) \in Nat
  BY <1>2, FS_Subset, FS_CardinalityType
<1> QED
  BY <1>3, <1>4 DEF ChunkNo

LEMMA IdsDiffer ==
  ASSUME plan \subseteq Items, NEW i \in plan, NEW j \in plan, i # j
  PROVE  ChunkNo(i) # ChunkNo(j)
<1>1. \A k \in plan : ChunkNo(k) \in ChunkIds /\ k \in Int
  BY ChunkNoIsAnId DEF Items
<1>2. i < j \/ j < i
  BY <1>1
<1> QED
  BY <1>1, <1>2, ChunkNoGrows DEF ChunkIds, Items

(* A mark checks one open box, whatever the title, as long as one is open.  *)
LEMMA MarkPaysOne ==
  ASSUME specTree \subseteq Tasks, specTree # Tasks, NEW i \in Items
  PROVE  \E b \in Tasks \ specTree : BoxFor(i) = {b}
<1> DEFINE open  == Tasks \ specTree
           named == open \cap TitleIn[i]
           pool  == IF named = {} THEN open ELSE named
<1>1. pool \in SUBSET Items /\ pool # {} /\ pool \subseteq open
  BY OutlineAssumption
<1>2. PICK b \in pool : First(b, pool)
  BY <1>1, FirstLine
<1>3. BoxFor(i) = {c \in Tasks : First(c, pool)}
  BY DEF BoxFor
<1>4. \A c \in Tasks : First(c, pool) <=> c = b
  BY <1>1, <1>2 DEF First, Items
<1> QED
  BY <1>1, <1>3, <1>4

Building == {"execute", "verify", "fix", "reverify", "commit", "push", "mark"}

\* Chunks whose mark is still to come.
Owed == todo \cup (IF pc \in Building THEN {cur} ELSE {})

NothingYet == runs = 0 => pc = "idle" /\ disk = NoLedger /\ specTree = {}

\* In a run that read no ledger, the first one or one with --no-resume, only
\* chunks behind the loop are recorded as merged.
Fresh ==
  (runs = 1 \/ NoResume) /\ pc # "idle" =>
    cur \notin todo /\ \A i \in todo : ledger[ChunkNo(i)] # "merged"

BoxesOwed ==
  (runs = 1 \/ NoResume) /\ allOk /\ pc \notin {"idle", "nodiff", "revert", "failed"} =>
    Cardinality(Tasks \ specTree) <= Cardinality(Owed)

FreshRunInv == NothingYet /\ Fresh /\ BoxesOwed

LEMMA FreshRunInit == Init => FreshRunInv
BY DEF Init, FreshRunInv, NothingYet, Fresh, BoxesOwed

\* A step that marks nothing and takes nothing off the plan.
LEMMA WorkOwes ==
  ASSUME FreshRunInv, TypeOK, UNCHANGED <<plan, cur, ledger, specTree, runs, allOk>>,
         todo' = todo, pc # "idle", pc' # "idle",
         \/ pc \notin {"nodiff", "revert", "failed"} /\ (pc \in Building <=> pc' \in Building)
         \/ pc' \in {"nodiff", "revert", "failed"}
  PROVE  FreshRunInv'
<1>1. \A i : ChunkNo(i)' = ChunkNo(i)
  BY DEF ChunkNo
<1>2. NothingYet' /\ Fresh'
  BY <1>1 DEF FreshRunInv, NothingYet, Fresh
<1>3. BoxesOwed'
  BY DEF FreshRunInv, BoxesOwed, Owed
<1> QED
  BY <1>2, <1>3 DEF FreshRunInv

LEMMA PlanIsFinite ==
  /\ IsFiniteSet(Items) /\ Tasks \in SUBSET Items
  /\ \A S \in SUBSET Items : IsFiniteSet(S) /\ Cardinality(S) \in Nat
<1>1. IsFiniteSet(Items) /\ Tasks \in SUBSET Items
  <2>1. 1 \in Int /\ N \in Int
    BY OutlineAssumption
  <2> QED
    BY <2>1, FS_Interval, OutlineAssumption DEF Items
<1> QED
  BY <1>1, FS_Subset, FS_CardinalityType

LEMMA OwedIsFinite ==
  ASSUME TypeOK
  PROVE  /\ Owed \in SUBSET Items /\ (Tasks \ specTree) \in SUBSET Items
         /\ IsFiniteSet(Owed) /\ IsFiniteSet(Tasks \ specTree)
<1>1. Owed \in SUBSET Items
  BY OutlineAssumption DEF TypeOK, Owed, Building
<1> QED
  BY <1>1, PlanIsFinite

LEMMA FreshRunKept ==
  ASSUME "mark" \notin Faults, TypeOK, TypeOK', FreshRunInv, [Next]_vars
  PROVE  FreshRunInv'
<1> USE DEF durable
<1>1. CASE StartRun
  <2>1. cur' = 0 /\ pc' = "loop" /\ todo' = plan' /\ runs' = runs + 1 /\ allOk' = TRUE
        /\ specTree' = specTree /\ 0 \notin Items
    BY <1>1 DEF StartRun, TypeOK, Items
  <2>2. SUFFICES ASSUME runs = 0 \/ NoResume PROVE FreshRunInv'
    BY <2>1, OutlineAssumption DEF FreshRunInv, NothingYet, Fresh, BoxesOwed, TypeOK
  <2>3. ledger' = NoLedger /\ Tasks \ specTree \subseteq plan'
    BY <1>1, <2>2 DEF StartRun, FreshRunInv, NothingYet, ChunkSpec
  <2>4. Fresh'
    <3>1. plan' \subseteq Items
      BY DEF TypeOK
    <3>2. \A i \in plan' : ChunkNo(i)' \in ChunkIds
      BY <3>1, PositionIsAnId DEF ChunkNo
    <3> QED
      BY <2>1, <2>3, <3>1, <3>2 DEF Fresh, NoLedger
  <2>5. BoxesOwed'
    <3>1. Owed' = plan' /\ plan' \in SUBSET Items
      BY <2>1 DEF Owed, Building, TypeOK
    <3>2. Cardinality(Tasks \ specTree) <= Cardinality(plan')
      BY <2>3, <3>1, PlanIsFinite, FS_Subset
    <3> QED
      BY <2>1, <3>1, <3>2 DEF BoxesOwed
  <2> QED
    BY <2>1, <2>4, <2>5 DEF FreshRunInv, NothingYet, TypeOK
<1>2. CASE SkipMerged
  <2>1. PICK i \in todo : ledger[ChunkNo(i)] = "merged" /\ todo' = todo \ {i}
    BY <1>2 DEF SkipMerged
  <2>2. ~(runs = 1 \/ NoResume) /\ runs # 0 /\ runs' = runs
    BY <1>2, <2>1 DEF SkipMerged, FreshRunInv, Fresh, NothingYet
  <2> QED
    BY <2>2 DEF FreshRunInv, NothingYet, Fresh, BoxesOwed
<1>3. CASE DeadlineStops
  BY <1>3 DEF DeadlineStops, FreshRunInv, NothingYet, Fresh, BoxesOwed
<1>4. CASE BeginChunk
  <2>1. PICK i \in todo : cur' = i /\ todo' = todo \ {i}
    BY <1>4 DEF BeginChunk
  <2>2. Owed' = Owed /\ pc = "loop" /\ pc' = "execute"
        /\ UNCHANGED <<plan, ledger, specTree, runs, allOk, disk>>
    BY <1>4, <2>1 DEF BeginChunk, Owed, Building
  <2>3. \A j : ChunkNo(j)' = ChunkNo(j)
    BY <2>2 DEF ChunkNo
  <2> QED
    BY <2>1, <2>2, <2>3 DEF FreshRunInv, NothingYet, Fresh, BoxesOwed
<1>5. CASE ExecuteSucceeds \/ ExecuteFails
  BY <1>5, WorkOwes DEF ExecuteSucceeds, ExecuteFails, Building
<1>6. CASE ExecuteRateLimited
  <2>1. CASE pc' = "execute"
    BY <1>6, <2>1, WorkOwes DEF ExecuteRateLimited, Building
  <2>2. CASE pc' # "execute"
    BY <1>6, <2>2 DEF ExecuteRateLimited, FreshRunInv, NothingYet, Fresh, BoxesOwed
  <2> QED
    BY <2>1, <2>2
<1>7. CASE Verify \/ FixSucceeds \/ FixFails \/ Reverify
  BY <1>7, WorkOwes DEF Verify, FixSucceeds, FixFails, Reverify, Building
<1>8. CASE CommitChunk \/ CommitNothing \/ Push
  BY <1>8, WorkOwes DEF CommitChunk, CommitNothing, Push, Building
<1>9. CASE MarkChunkComplete
  <2>1. /\ specTree' = specTree \cup BoxFor(cur) /\ pc = "mark" /\ pc' = "save"
        /\ UNCHANGED <<plan, todo, cur, ledger, runs, allOk>>
    BY <1>9 DEF MarkChunkComplete
  <2>2. NothingYet' /\ Fresh'
    <3>1. \A j : ChunkNo(j)' = ChunkNo(j)
      BY <2>1 DEF ChunkNo
    <3> QED
      BY <2>1, <3>1 DEF FreshRunInv, NothingYet, Fresh
  <2>3. BoxesOwed'
    <3>1. SUFFICES ASSUME runs = 1 \/ NoResume, allOk
                   PROVE  Cardinality(Tasks \ specTree') <= Cardinality(todo)
      BY <2>1 DEF BoxesOwed, Owed, Building
    <3>2. cur \notin todo /\ Owed = todo \cup {cur} /\ cur \in Items
      BY <2>1, <3>1 DEF FreshRunInv, Fresh, Owed, Building, TypeOK
    <3>3. IsFiniteSet(todo) /\ Cardinality(todo) \in Nat
      BY PlanIsFinite DEF TypeOK
    <3>4. Cardinality(Tasks \ specTree) <= Cardinality(todo) + 1
      <4>1. Cardinality(Owed) = Cardinality(todo) + 1
        BY <3>2, <3>3, FS_AddElement
      <4> QED
        BY <2>1, <3>1, <4>1 DEF FreshRunInv, BoxesOwed
    <3>5. CASE specTree = Tasks
      <4>1. Tasks \ specTree' = {}
        BY <2>1, <3>5
      <4> QED
        BY <3>3, <4>1, FS_EmptySet
    <3>6. CASE specTree # Tasks
      <4>1. PICK b \in Tasks \ specTree : BoxFor(cur) = {b}
        BY <3>2, <3>6, MarkPaysOne DEF TypeOK
      <4>2. Tasks \ specTree' = (Tasks \ specTree) \ {b}
        BY <2>1, <4>1
      <4>3. IsFiniteSet(Tasks \ specTree) /\ Cardinality(Tasks \ specTree) \in Nat
        BY OwedIsFinite, PlanIsFinite
      <4>4. Cardinality(Tasks \ specTree') = Cardinality(Tasks \ specTree) - 1
        BY <4>1, <4>2, <4>3, FS_RemoveElement
      <4> QED
        BY <3>3, <3>4, <4>3, <4>4
    <3> QED
      BY <3>5, <3>6
  <2> QED
    BY <2>2, <2>3 DEF FreshRunInv
<1>10. CASE SaveMerged
  <2>1. /\ pc' = "loop" /\ cur' = 0 /\ pc = "save" /\ cur \in plan
        /\ ledger' = [ledger EXCEPT ![ChunkNo(cur)] = "merged"]
        /\ UNCHANGED <<plan, todo, runs, allOk, specTree>>
    BY <1>10 DEF SaveMerged, NextChunk, RecordStatus, TypeOK
  <2>2. \A j : ChunkNo(j)' = ChunkNo(j)
    BY <2>1 DEF ChunkNo
  <2>3. Fresh'
    <3>1. SUFFICES ASSUME runs = 1 \/ NoResume, NEW i \in todo PROVE ledger'[ChunkNo(i)] # "merged"
      BY <2>1, <2>2, OutlineAssumption DEF Fresh, TypeOK, Items
    <3>2. i # cur /\ ledger[ChunkNo(i)] # "merged" /\ i \in plan /\ plan \subseteq Items
      BY <2>1, <3>1 DEF FreshRunInv, Fresh, TypeOK
    <3>3. ChunkNo(i) # ChunkNo(cur) /\ ChunkNo(i) \in ChunkIds
      BY <2>1, <3>2, IdsDiffer, ChunkNoIsAnId
    <3> QED
      BY <2>1, <3>2, <3>3 DEF TypeOK
  <2>4. BoxesOwed' /\ NothingYet'
    BY <2>1 DEF FreshRunInv, BoxesOwed, NothingYet, Owed, Building
  <2> QED
    BY <2>3, <2>4 DEF FreshRunInv
<1>11. CASE SaveFailed \/ SaveNoDiff
  <2>1. /\ pc' = "loop" /\ cur' = 0 /\ cur \in plan /\ pc # "idle" /\ allOk' = FALSE
        /\ UNCHANGED <<plan, todo, runs, specTree>>
        /\ \E s \in {"failed", "no-diff"} : ledger' = [ledger EXCEPT ![ChunkNo(cur)] = s]
    BY <1>11 DEF SaveFailed, SaveNoDiff, NextChunk, RecordStatus, TypeOK
  <2>2. \A j : ChunkNo(j)' = ChunkNo(j)
    BY <2>1 DEF ChunkNo
  <2>3. \A i \in todo : ChunkNo(i) \in ChunkIds
    BY ChunkNoIsAnId DEF TypeOK
  <2>4. Fresh'
    BY <2>1, <2>2, <2>3, OutlineAssumption DEF FreshRunInv, Fresh, TypeOK, Items
  <2> QED
    BY <2>1, <2>4 DEF FreshRunInv, BoxesOwed, NothingYet
<1>12. CASE RevertChunkChanges
  <2>1. /\ pc = "revert" /\ pc' = "failed" /\ UNCHANGED <<plan, todo, cur, ledger, runs, allOk>>
    BY <1>12 DEF RevertChunkChanges
  <2>2. \A j : ChunkNo(j)' = ChunkNo(j)
    BY <2>1 DEF ChunkNo
  <2> QED
    BY <2>1, <2>2 DEF FreshRunInv, NothingYet, Fresh, BoxesOwed
<1>13. CASE EngineRaises \/ SpecIncomplete \/ TransitionPrToReview \/ Interrupt
  <2>1. pc' = "idle" /\ UNCHANGED <<runs, specTree, disk>>
    BY <1>13 DEF EngineRaises, SpecIncomplete, TransitionPrToReview, Interrupt, ProcessEnds
  <2> QED
    BY <2>1 DEF FreshRunInv, NothingYet, Fresh, BoxesOwed
<1>14. CASE SpecComplete
  BY <1>14, WorkOwes DEF SpecComplete, Building
<1>15. CASE UNCHANGED vars
  <2>1. \A j : ChunkNo(j)' = ChunkNo(j)
    BY <1>15 DEF vars, process, ChunkNo
  <2> QED
    BY <1>15, <2>1 DEF vars, process, FreshRunInv, NothingYet, Fresh, BoxesOwed, Owed
<1> QED
  BY <1>1, <1>2, <1>3, <1>4, <1>5, <1>6, <1>7, <1>8, <1>9, <1>10, <1>11, <1>12,
     <1>13, <1>14, <1>15
  DEF Next, Step

(* A run that knows no ledger and completes leaves no box open, whatever    *)
(* titles match, as long as the spec file can be written when a box is      *)
(* marked.                                                                  *)
THEOREM FreshRunIsComplete ==
  ASSUME "mark" \notin Faults
  PROVE  Spec => []FreshRunChecksEveryBox
<1>1. TypeOK /\ TypeOK' /\ FreshRunInv /\ [Next]_vars => FreshRunInv'
  BY FreshRunKept
<1>2. ASSUME TypeOK, LedgerInv, FreshRunInv PROVE FreshRunChecksEveryBox
  <2>1. SUFFICES ASSUME pc = "review", runs = 1 \/ NoResume PROVE specTree = Tasks
    BY DEF FreshRunChecksEveryBox
  <2>2. allOk /\ Owed = {}
    BY <1>2, <2>1 DEF LedgerInv, ReviewIsDone, Owed, Building
  <2>3. Cardinality(Tasks \ specTree) <= 0
    BY <1>2, <2>1, <2>2, FS_EmptySet DEF FreshRunInv, BoxesOwed
  <2>4. Tasks \ specTree = {}
    BY <1>2, <2>3, OwedIsFinite, PlanIsFinite, FS_EmptySet
  <2> QED
    BY <1>2, <2>4 DEF TypeOK
<1> QED
  BY <1>1, <1>2, FreshRunInit, TypeCorrect, LedgerInvariant, PTL DEF Spec

-----------------------------------------------------------------------------
(* Every checked box is paid for by a commit *)

\* Committed boxes stay checked, and the commit of the chunk whose mark is
\* still to come is one more than the checked boxes need.
Paid ==
  /\ specHead \subseteq specTree
  /\ EveryMarkPaidByACommit
  /\ pc \in {"push", "mark"} => Cardinality(specTree) + 1 <= Cardinality(Made)

LEMMA InitPaid == Init => Paid
<1> SUFFICES ASSUME Init PROVE Paid
  OBVIOUS
<1>1. Made = {}
  BY DEF Init, Made
<1>2. specTree = {} /\ specHead = {} /\ pc = "idle" /\ Cardinality({}) = 0
  BY FS_EmptySet DEF Init
<1>3. Cardinality(specTree) <= Cardinality(Made)
  BY <1>1, <1>2
<1> QED
  BY <1>2, <1>3 DEF Paid, EveryMarkPaidByACommit

(* There are finitely many commits.                                         *)
LEMMA MadeIsFinite ==
  ASSUME TypeOK
  PROVE  IsFiniteSet(Made) /\ Cardinality(Made) \in Nat
<1> DEFINE Of(n) == {n} \X (1..commits[n])
           Parts == {Of(n) : n \in ChunkIds}
           f == [n \in ChunkIds |-> Of(n)]
<1>1. IsFiniteSet(Parts)
  <2>1. f \in Surjection(ChunkIds, Parts)
    BY DEF Surjection
  <2> HIDE DEF f, Parts, Of
  <2> QED
    BY <2>1, PlanIsFinite, FS_Surjection DEF ChunkIds
<1>2. ASSUME NEW n \in ChunkIds PROVE IsFiniteSet(Of(n))
  <2>1. 1 \in Int /\ commits[n] \in Int
    BY DEF TypeOK
  <2>2. IsFiniteSet(1..commits[n])
    BY <2>1, FS_Interval
  <2> QED
    BY <2>2, FS_Singleton, FS_Product
<1> HIDE DEF Of
<1>3. IsFiniteSet(UNION Parts)
  BY <1>1, <1>2, FS_UNION
<1> QED
  BY <1>3, FS_CardinalityType DEF Made, Of

(* A commit is one more.                                                    *)
LEMMA LandMakesOne ==
  ASSUME TypeOK, cur \in plan, LandGiven
  PROVE  Cardinality(Made') = Cardinality(Made) + 1
<1> DEFINE n   == ChunkNo(cur)
           new == <<n, commits[n] + 1>>
<1>1. n \in ChunkIds /\ commits' = [commits EXCEPT ![n] = @ + 1]
  BY LandCounts
<1>2. commits \in [ChunkIds -> Nat]
  BY DEF TypeOK
<1> HIDE DEF n
<1>3. new \notin Made
  BY <1>1, <1>2 DEF Made
<1>4. \A m \in ChunkIds : commits'[m] = IF m = n THEN commits[m] + 1 ELSE commits[m]
  BY <1>1, <1>2
<1>5. 1..(commits[n] + 1) = (1..commits[n]) \cup {commits[n] + 1}
  BY <1>1, <1>2
<1>6. Made' = Made \cup {new}
  <2>1. ASSUME NEW p \in Made' PROVE p \in Made \cup {new}
    <3>1. PICK m \in ChunkIds : p \in {m} \X (1..commits'[m])
      BY DEF Made
    <3> QED
      BY <1>4, <1>5, <3>1 DEF Made
  <2>2. ASSUME NEW p \in Made \cup {new} PROVE p \in Made'
    <3>1. CASE p = new
      BY <1>1, <1>4, <1>5, <3>1 DEF Made
    <3>2. CASE p \in Made
      <4>1. PICK m \in ChunkIds : p \in {m} \X (1..commits[m])
        BY <3>2 DEF Made
      <4> QED
        BY <1>4, <1>5, <4>1 DEF Made
    <3> QED
      BY <3>1, <3>2
  <2> QED
    BY <2>1, <2>2
<1> QED
  BY <1>3, <1>6, MadeIsFinite, FS_AddElement

(* Marking checks one box at most.                                          *)
LEMMA MarkChecksOne ==
  ASSUME TypeOK, cur \in Items
  PROVE  Cardinality(specTree \cup BoxFor(cur)) <= Cardinality(specTree) + 1
<1>1. IsFiniteSet(specTree) /\ Cardinality(specTree) \in Nat
  BY PlanIsFinite DEF TypeOK
<1>2. CASE specTree = Tasks
  <2>1. specTree \cup BoxFor(cur) = specTree
    BY <1>2 DEF BoxFor
  <2>2. Cardinality(specTree \cup BoxFor(cur)) = Cardinality(specTree)
    BY <2>1
  <2> QED
    BY <1>1, <2>2
<1>3. CASE specTree # Tasks
  <2>1. PICK b \in Tasks \ specTree : BoxFor(cur) = {b}
    BY <1>3, MarkPaysOne DEF TypeOK
  <2>2. Cardinality(specTree \cup {b}) = Cardinality(specTree) + 1
    BY <1>1, <2>1, FS_AddElement
  <2>3. Cardinality(specTree \cup BoxFor(cur)) = Cardinality(specTree) + 1
    BY <2>1, <2>2
  <2> QED
    BY <1>1, <2>3
<1> QED
  BY <1>2, <1>3

LEMMA PaidKept ==
  ASSUME TypeOK, TypeOK', Paid, [Next]_vars
  PROVE  Paid'
<1> USE DEF durable
<1>0. /\ IsFiniteSet(specTree) /\ Cardinality(specTree) \in Nat
      /\ Cardinality(Made) \in Nat
  BY PlanIsFinite, MadeIsFinite DEF TypeOK
<1>1. CASE /\ UNCHANGED <<specTree, specHead, commits>>
           /\ pc' # "push" /\ (pc' = "mark" => pc = "push")
  BY <1>1 DEF Paid, EveryMarkPaidByACommit, Made
<1>2. CASE UNCHANGED vars
  BY <1>2 DEF vars, process, Paid, EveryMarkPaidByACommit, Made
<1>3. CASE CommitChunk \/ (CommitNothing /\ LandGiven /\ pc' # "mark")
  <2>1. specTree' = specTree /\ cur \in plan /\ LandGiven /\ pc' # "mark"
    BY <1>3 DEF CommitChunk, CommitNothing, TypeOK
  <2>2. Cardinality(Made') = Cardinality(Made) + 1
    BY <2>1, LandMakesOne
  <2>3. specHead' \subseteq specTree'
    BY <2>1 DEF LandGiven, Land, Paid
  <2> QED
    BY <1>0, <2>1, <2>2, <2>3 DEF Paid, EveryMarkPaidByACommit
<1>4. CASE MarkChunkComplete
  <2>1. /\ specTree' \in {specTree, specTree \cup BoxFor(cur)}
        /\ cur \in Items /\ pc = "mark" /\ pc' = "save"
        /\ UNCHANGED <<specHead, commits>>
    BY <1>4, OutlineAssumption DEF MarkChunkComplete, TypeOK, Items
  <2>2. Cardinality(specTree') <= Cardinality(specTree) + 1
    BY <1>0, <2>1, MarkChecksOne
  <2>3. Cardinality(specTree') \in Nat
    BY PlanIsFinite DEF TypeOK
  <2> QED
    BY <1>0, <2>1, <2>2, <2>3 DEF Paid, EveryMarkPaidByACommit, Made
<1>5. CASE RevertChunkChanges
  <2>1. specTree' \in {specTree, specHead} /\ UNCHANGED <<specHead, commits>> /\ pc' = "failed"
    BY <1>5 DEF RevertChunkChanges
  <2>2. specTree' \in SUBSET specTree /\ specHead' \subseteq specTree'
    BY <2>1 DEF Paid
  <2>3. Cardinality(specTree') <= Cardinality(specTree) /\ Cardinality(specTree') \in Nat
    BY <1>0, <2>2, FS_Subset, FS_CardinalityType
  <2> QED
    BY <1>0, <2>1, <2>2, <2>3 DEF Paid, EveryMarkPaidByACommit, Made
<1>6. \/ UNCHANGED vars \/ CommitChunk \/ MarkChunkComplete \/ RevertChunkChanges
      \/ CommitNothing /\ LandGiven /\ pc' # "mark"
      \/ /\ UNCHANGED <<specTree, specHead, commits>>
         /\ pc' # "push" /\ (pc' = "mark" => pc = "push")
  <2>1. CASE StartRun \/ SkipMerged \/ DeadlineStops \/ BeginChunk
    BY <2>1 DEF StartRun, SkipMerged, DeadlineStops, BeginChunk
  <2>2. CASE ExecuteSucceeds \/ ExecuteFails \/ ExecuteRateLimited \/ Verify \/ FixSucceeds \/ FixFails
             \/ Reverify
    BY <2>2 DEF ExecuteSucceeds, ExecuteFails, ExecuteRateLimited, Verify, FixSucceeds, FixFails, Reverify
  <2>3. CASE CommitNothing
    BY <2>3 DEF CommitNothing
  <2>4. CASE Push \/ SaveMerged \/ SaveFailed \/ SaveNoDiff \/ SpecComplete
    BY <2>4 DEF Push, SaveMerged, SaveFailed, SaveNoDiff, SpecComplete, NextChunk
  <2>5. CASE EngineRaises \/ SpecIncomplete \/ TransitionPrToReview \/ Interrupt
    BY <2>5 DEF EngineRaises, SpecIncomplete, TransitionPrToReview, Interrupt, ProcessEnds
  <2> QED
    BY <2>1, <2>2, <2>3, <2>4, <2>5 DEF Next, Step
<1> QED
  BY <1>1, <1>2, <1>3, <1>4, <1>5, <1>6

(* Over any number of runs, crashes, reverts and failed calls, a spec never *)
(* has more boxes checked than commits were made for its chunks.            *)
THEOREM MarksArePaid == Spec => []EveryMarkPaidByACommit
<1>1. TypeOK /\ TypeOK' /\ Paid /\ [Next]_vars => Paid'
  BY PaidKept
<1>2. Paid => EveryMarkPaidByACommit
  BY DEF Paid
<1> QED
  BY <1>1, <1>2, InitPaid, TypeCorrect, PTL DEF Spec

-----------------------------------------------------------------------------
(* Failed work is not committed *)

\* What differs from HEAD is of no other chunk whose failure was reverted.
NoRevertedWork ==
  \A p \in tree : p[2] \in plan \ {cur} => ledger[ChunkNo(p[2])] # "failed"

\* A reverted chunk left nothing.
RevertedIsClean == pc = "failed" => tree = {}

RevertInv == NoRevertedWork /\ RevertedIsClean

LEMMA RevertInit == Init => RevertInv
BY DEF Init, RevertInv, NoRevertedWork, RevertedIsClean

LEMMA EndRevert == ASSUME ProcessEnds PROVE RevertInv'
BY DEF ProcessEnds, RevertInv, NoRevertedWork, RevertedIsClean

\* A step that writes what the current chunk may write.
LEMMA WorkOfCur ==
  ASSUME RevertInv, tree' \subseteq tree \cup WorkOf(cur), UNCHANGED <<plan, cur, ledger>>
  PROVE  NoRevertedWork'
<1>1. \A i : ChunkNo(i)' = ChunkNo(i)
  BY DEF ChunkNo
<1>2. \A p \in WorkOf(cur) : p[2] = cur
  BY DEF WorkOf
<1> QED
  BY <1>1, <1>2 DEF RevertInv, NoRevertedWork

LEMMA NothingYetKept ==
  ASSUME TypeOK, NothingYet, [Next]_vars
  PROVE  NothingYet'
<1>1. runs' = 0 => runs = 0 /\ (UNCHANGED vars \/ pc # "idle")
  BY DEF Next, Step, StartRun, SkipMerged, DeadlineStops, BeginChunk, ExecuteSucceeds, ExecuteFails,
     ExecuteRateLimited, EngineRaises, Verify, FixSucceeds, FixFails, Reverify, CommitChunk,
     CommitNothing, Push, MarkChunkComplete, SaveMerged, SaveFailed, SaveNoDiff, RevertChunkChanges,
     SpecIncomplete, SpecComplete, TransitionPrToReview, Interrupt, vars, durable, TypeOK
<1> QED
  BY <1>1 DEF NothingYet, vars, durable, process

(* A chunk's record changes no other chunk's, whose ids are its own.        *)
LEMMA RecordOfCur ==
  ASSUME RevertInv, TypeOK, NEW s, cur \in plan, cur' = 0,
         s = "failed" => tree = {},
         ledger' = [ledger EXCEPT ![ChunkNo(cur)] = s], UNCHANGED <<plan, tree>>
  PROVE  NoRevertedWork'
<1>1. \A i : ChunkNo(i)' = ChunkNo(i)
  BY DEF ChunkNo
<1>2. \A i \in plan : ChunkNo(i) \in ChunkIds
  BY ChunkNoIsAnId DEF TypeOK
<1> QED
  BY <1>1, <1>2 DEF RevertInv, NoRevertedWork, TypeOK

LEMMA RevertKept ==
  ASSUME NoResume \/ MaxRuns <= 1, Faults \cap {"clean", "checkout"} = {},
         TypeOK, NothingYet, RevertInv, [Next]_vars
  PROVE  RevertInv'
<1> USE DEF durable
<1>1. CASE StartRun
  <2>1. ledger' = NoLedger /\ pc' = "loop" /\ plan' \subseteq Items
    <3>1. plan' \subseteq Items
      BY <1>1, OutlineAssumption DEF StartRun, ChunkSpec, Headings
    <3>2. runs = 0 \/ NoResume
      BY <1>1, SwitchAssumption DEF StartRun, TypeOK
    <3> QED
      BY <1>1, <3>1, <3>2 DEF StartRun, NothingYet
  <2>2. \A i \in plan' : ChunkNo(i)' \in ChunkIds
    BY <2>1, PositionIsAnId DEF ChunkNo
  <2> QED
    BY <2>1, <2>2 DEF RevertInv, NoRevertedWork, RevertedIsClean, NoLedger
<1>2. CASE SkipMerged \/ DeadlineStops \/ SpecComplete
  BY <1>2, WorkOfCur DEF SkipMerged, DeadlineStops, SpecComplete, RevertInv, RevertedIsClean
<1>3. CASE BeginChunk
  <2>1. \A i : ChunkNo(i)' = ChunkNo(i)
    BY <1>3 DEF BeginChunk, ChunkNo
  <2>2. cur = 0 /\ 0 \notin plan /\ UNCHANGED <<plan, ledger, tree>>
    BY <1>3, OutlineAssumption DEF BeginChunk, TypeOK, Items
  <2> QED
    BY <1>3, <2>1, <2>2 DEF BeginChunk, RevertInv, NoRevertedWork, RevertedIsClean
<1>4. CASE ExecuteSucceeds \/ ExecuteFails \/ ExecuteRateLimited \/ FixSucceeds \/ FixFails
  <2>1. NoRevertedWork'
    BY <1>4, WorkOfCur
    DEF ExecuteSucceeds, ExecuteFails, ExecuteRateLimited, FixSucceeds, FixFails
  <2> QED
    BY <1>4, <2>1
    DEF ExecuteSucceeds, ExecuteFails, ExecuteRateLimited, FixSucceeds, FixFails, RevertInv,
        RevertedIsClean
<1>5. CASE Verify \/ Reverify \/ Push \/ MarkChunkComplete
  <2>1. NoRevertedWork'
    BY <1>5, WorkOfCur DEF Verify, Reverify, Push, MarkChunkComplete
  <2> QED
    BY <1>5, <2>1 DEF Verify, Reverify, Push, MarkChunkComplete, RevertInv, RevertedIsClean
<1>6. CASE CommitChunk \/ CommitNothing
  <2>1. tree' \subseteq tree /\ UNCHANGED <<plan, cur, ledger>> /\ pc' # "failed"
    BY <1>6 DEF CommitChunk, CommitNothing, LandGiven, Land
  <2>2. NoRevertedWork'
    BY <2>1, WorkOfCur
  <2> QED
    BY <2>1, <2>2 DEF RevertInv, RevertedIsClean
<1>7. CASE SaveMerged \/ SaveFailed \/ SaveNoDiff
  <2>1. PICK s \in {"merged", "failed", "no-diff"} :
        /\ s = "failed" => pc = "failed"
        /\ pc' = "loop" /\ cur' = 0 /\ cur \in plan
        /\ ledger' = [ledger EXCEPT ![ChunkNo(cur)] = s]
        /\ UNCHANGED <<plan, tree>>
    BY <1>7 DEF SaveMerged, SaveFailed, SaveNoDiff, NextChunk, RecordStatus, TypeOK
  <2>2. s = "failed" => tree = {}
    BY <2>1 DEF RevertInv, RevertedIsClean
  <2> QED
    BY <2>1, <2>2, RecordOfCur DEF RevertInv, RevertedIsClean
<1>8. CASE RevertChunkChanges
  <2>1. tree' = {}
    BY <1>8 DEF RevertChunkChanges
  <2> QED
    BY <2>1 DEF RevertInv, NoRevertedWork, RevertedIsClean
<1>9. CASE EngineRaises \/ SpecIncomplete \/ TransitionPrToReview \/ Interrupt
  BY <1>9, EndRevert DEF EngineRaises, SpecIncomplete, TransitionPrToReview, Interrupt
<1>10. CASE UNCHANGED vars
  <2>1. \A i : ChunkNo(i)' = ChunkNo(i)
    BY <1>10 DEF vars, process, ChunkNo
  <2> QED
    BY <1>10, <2>1 DEF vars, process, RevertInv, NoRevertedWork, RevertedIsClean
<1> QED
  BY <1>1, <1>2, <1>3, <1>4, <1>5, <1>6, <1>7, <1>8, <1>9, <1>10 DEF Next, Step

(* Only a commit changes HEAD, by what differs from it.                     *)
LEMMA OnlyTheTreeLands ==
  [Next]_vars => UNCHANGED head \/ (head' \ head) \subseteq tree
<1> SUFFICES ASSUME [Next]_vars, head' # head PROVE (head' \ head) \subseteq tree
  OBVIOUS
<1> USE DEF durable
<1>1. LandGiven
  BY DEF Next, Step, StartRun, SkipMerged, DeadlineStops, BeginChunk, ExecuteSucceeds, ExecuteFails,
     ExecuteRateLimited, EngineRaises, Verify, FixSucceeds, FixFails, Reverify, CommitChunk,
     CommitNothing, Push, MarkChunkComplete, SaveMerged, SaveFailed, SaveNoDiff, RevertChunkChanges,
     SpecIncomplete, SpecComplete, TransitionPrToReview, Interrupt, vars
<1>2. PICK given \in Given : \E staged \in SUBSET given : Land(staged)
  BY <1>1 DEF LandGiven
<1>3. given \subseteq tree \cup {SpecFile}
  BY <1>2 DEF Given, Collected, Changed, Tracked
<1> QED
  BY <1>2, <1>3 DEF Land

(* A chunk whose failure was reverted in this run leaves nothing for a later *)
(* commit as long as the revert's git calls work, whatever listing, staging  *)
(* and commits fail beside it; a resumed run is left out, which may find     *)
(* what a process killed before its revert left.                             *)
THEOREM RevertedWorkStaysOut ==
  ASSUME NoResume \/ MaxRuns <= 1,
         Faults \cap {"clean", "checkout"} = {}
  PROVE  Spec => RevertedWorkNeverCommitted
<1> DEFINE Kept == \A p \in head' \ head : p[2] \in plan \ {cur} => ledger[ChunkNo(p[2])] # "failed"
<1>1. TypeOK /\ NothingYet /\ [Next]_vars => NothingYet'
  BY NothingYetKept
<1>2. TypeOK /\ NothingYet /\ RevertInv /\ [Next]_vars => RevertInv'
  BY RevertKept
<1>3. RevertInv /\ [Next]_vars => [Kept]_vars
  BY OnlyTheTreeLands DEF RevertInv, NoRevertedWork
<1>4. Init => NothingYet
  BY DEF Init, NothingYet
<1> QED
  BY <1>1, <1>2, <1>3, <1>4, RevertInit, TypeCorrect, PTL DEF Spec, RevertedWorkNeverCommitted

-----------------------------------------------------------------------------
(* A chunk without a diff *)

\* What the engine reported did change.
ReportIsTrue == pc \in {"verify", "fix", "reverify", "commit"} => files \subseteq Changed(tree)

LEMMA ReportsAreChanges ==
  ASSUME NEW t, NEW u, u \subseteq t
  PROVE  /\ Changed(u) \subseteq Changed(t) /\ Tracked(u) \subseteq Changed(t)
         /\ Report(t, u) \subseteq Changed(t)
BY DEF Changed, Tracked, Report

(* A chunk is failed for "no-diff" only when the tree does not differ from  *)
(* HEAD at all, so that the log's "produced no source-file changes" is true *)
(* and nothing unreverted is left (orchestrator.py:498-508).                *)
NoDiffIsTrue == pc = "nodiff" => Changed(tree) = {}

LEMMA ReportKept ==
  ASSUME Faults \cap {"list", "stage", "commit"} = {},
         TypeOK, ReportIsTrue, NoDiffIsTrue, [Next]_vars
  PROVE  ReportIsTrue' /\ NoDiffIsTrue'
<1> USE DEF durable
<1>1. CASE ExecuteSucceeds
  <2>1. PICK made, early \in SUBSET WorkOf(cur) :
           /\ early \subseteq made /\ tree' = tree \cup made
           /\ files' \in {{}, Report(tree \cup made, tree \cup early)}
    BY <1>1 DEF ExecuteSucceeds
  <2>2. files' \subseteq Changed(tree \cup made)
    BY <2>1, ReportsAreChanges
  <2> QED
    BY <1>1, <2>1, <2>2 DEF ExecuteSucceeds, ReportIsTrue, NoDiffIsTrue, Changed
<1>2. CASE FixSucceeds \/ FixFails
  <2>1. PICK made, early \in SUBSET WorkOf(cur) :
           /\ early \subseteq made /\ tree' = tree \cup made
           /\ files' \in {files, files \cup Tracked(tree \cup early)}
    BY <1>2 DEF FixSucceeds, FixFails
  <2>2. files \subseteq Changed(tree)
    BY <1>2 DEF FixSucceeds, FixFails, ReportIsTrue
  <2>3. files' \subseteq Changed(tree \cup made)
    BY <2>1, <2>2, ReportsAreChanges
  <2> QED
    BY <1>2, <2>1, <2>3 DEF FixSucceeds, FixFails, ReportIsTrue, NoDiffIsTrue, Changed
<1>3. CASE Verify \/ Reverify
  BY <1>3 DEF Verify, Reverify, ReportIsTrue, NoDiffIsTrue, Changed
<1>4. CASE CommitNothing
  <2>1. pc = "commit" /\ pc' = "nodiff" /\ {} \in Given /\ UNCHANGED <<tree, specTree, specHead>>
    BY <1>4 DEF CommitNothing
  <2>2. Changed(tree) = {}
    BY <2>1 DEF ReportIsTrue, Given, Collected
  <2> QED
    BY <2>1, <2>2 DEF ReportIsTrue, NoDiffIsTrue, Changed
<1>5. CASE UNCHANGED vars
  BY <1>5 DEF vars, process, ReportIsTrue, NoDiffIsTrue, Changed
<1>6. CASE pc' \notin {"verify", "fix", "reverify", "commit", "nodiff"}
  BY <1>6 DEF ReportIsTrue, NoDiffIsTrue
<1>7. \/ ExecuteSucceeds \/ FixSucceeds \/ FixFails \/ Verify \/ Reverify \/ CommitNothing
      \/ UNCHANGED vars \/ pc' \notin {"verify", "fix", "reverify", "commit", "nodiff"}
  BY DEF Next, Step, StartRun, SkipMerged, DeadlineStops, BeginChunk, ExecuteFails,
     ExecuteRateLimited, EngineRaises, CommitChunk, Push, MarkChunkComplete, SaveMerged, SaveFailed,
     SaveNoDiff, NextChunk, RevertChunkChanges, SpecIncomplete, SpecComplete, TransitionPrToReview,
     Interrupt, ProcessEnds
<1> QED
  BY <1>1, <1>2, <1>3, <1>4, <1>5, <1>6, <1>7

(* While no listing, `git add` or commit fails, "no-diff" is said of an     *)
(* unchanged tree only, over all runs, interrupts and failed reverts.       *)
THEOREM NoDiffLeavesNothing ==
  ASSUME Faults \cap {"list", "stage", "commit"} = {}
  PROVE  Spec => []NoDiffIsTrue
<1>1. Init => ReportIsTrue /\ NoDiffIsTrue
  BY DEF Init, ReportIsTrue, NoDiffIsTrue
<1>2. TypeOK /\ ReportIsTrue /\ NoDiffIsTrue /\ [Next]_vars => ReportIsTrue' /\ NoDiffIsTrue'
  BY ReportKept
<1> QED
  BY <1>1, <1>2, TypeCorrect, PTL DEF Spec
=============================================================================
