-------------------------- MODULE Campaign_proofs --------------------------
(***************************************************************************)
(* Theorems about Campaign, for all specs, command lines, hosts, ledgers   *)
(* and file sizes.                                                         *)
(***************************************************************************)
EXTENDS Campaign, WorkChunks_proofs

LEMMA HostTypes == host \in Hosts => host.needs \subseteq Keys
BY CampaignAssumption DEF Host

LEMMA OptionTypes ==
  opts \in Options => /\ opts.engine \in {"auto"} \cup Engines
                      /\ opts.spec \in Specs \cup {NoSpec}
                      /\ opts.continuous \in BOOLEAN /\ opts.dryRun \in BOOLEAN
BY CampaignAssumption DEF Option

LEMMA OpenIsFound == found \in Found => Open \in SUBSET Specs
BY CampaignAssumption DEF Open

(* A mark goes to open boxes of the chunk's spec.                           *)
LEMMA MarksATask ==
  ASSUME NEW s, NEW i, NEW checked
  PROVE  BoxFor(s, i, checked) \subseteq Tasks[s]
BY DEF BoxFor, FirstOf

LEMMA TasksAreLines == \A s \in Specs : Tasks[s] \subseteq Nat
BY ChunksAssumption

-----------------------------------------------------------------------------
(* Types. A spec that is being built is not yet counted as completed.       *)

Counted ==
  /\ given \in Seq(Specs) /\ queue \in Seq(Entry) /\ chunks \in Seq(Chunk)
  /\ pc \in {"budget", "chunk", "execute"} => completed < idx

LEMMA ChunksHaveALength == Counted => Len(chunks) \in Nat
BY DEF Counted

(* What is built is a spec of the repository.                               *)
LEMMA SpecIsASpec ==
  TypeOK /\ Counted /\ pc \in {"budget", "chunk", "execute"} =>
    Spec1 \in Specs /\ idx \in 1..Len(given)
<1> SUFFICES ASSUME TypeOK, Counted, pc \in {"budget", "chunk", "execute"}
             PROVE  Spec1 \in Specs /\ idx \in 1..Len(given)
  OBVIOUS
<1>1. idx \in 0..Len(given) /\ idx > 0 /\ given \in Seq(Specs)
  BY DEF TypeOK, Counted
<1>2. idx \in 1..Len(given)
  BY <1>1
<1> QED
  BY <1>1, <1>2 DEF Spec1

LEMMA WalkOfOpen == found \in Found => Walk(Open) \in Seq(Specs)
<1> SUFFICES ASSUME found \in Found PROVE Walk(Open) \in Seq(Specs)
  OBVIOUS
<1>1. Open \in SUBSET Specs /\ Walk(Open) \in Seq(Open)
  BY OpenIsFound, WalkGivesAll
<1> HIDE DEF Open
<1> QED
  BY <1>1, SeqMonotonic

Flags ==
  /\ asked \in BOOLEAN /\ allOk \in BOOLEAN /\ abort \in BOOLEAN
  /\ late \in BOOLEAN

LEMMA TypesInit == Init => TypeOK /\ Counted
<1> SUFFICES ASSUME Init PROVE TypeOK /\ Counted
  OBVIOUS
<1>1. engine \in {"auto"} \cup Engines
  BY OptionTypes DEF Init
<1>2. boxes \in [Specs -> SUBSET Nat] /\ saved \in [Specs -> SUBSET Nat]
  BY DEF Init
<1>3. \A s \in Specs : boxes[s] \subseteq Tasks[s] /\ saved[s] \subseteq boxes[s]
  BY DEF Init
<1>4. given = <<>> /\ queue = <<>>
  BY DEF Init
<1>5. Flags
  BY Zenon DEF Init, Flags
<1>6. /\ pc = "args" /\ exit = 0 /\ opts \in Options /\ host \in Hosts /\ found \in Found
      /\ missing = {} /\ seen = {} /\ size \in Sizes /\ idx = 0 /\ at = 1
      /\ failed = 0 /\ completed = 0 /\ result = "none" /\ chunks = <<>>
      /\ limited = "no"
  BY DEF Init
<1> QED
  BY <1>1, <1>2, <1>3, <1>4, <1>5, <1>6 DEF Flags, TypeOK, PCs, Counted

LEMMA TypesKept ==
  ASSUME TypeOK, Counted, [Next]_vars
  PROVE  TypeOK' /\ Counted'
<1> USE DEF args, creds, repo, split, loop, tally, run, Exit
<1>1. ASSUME CheckArguments PROVE TypeOK' /\ Counted'
  BY <1>1 DEF CheckArguments, TypeOK, Counted, PCs
<1>2. ASSUME ValidateDependencies PROVE TypeOK' /\ Counted'
  BY <1>2 DEF ValidateDependencies, Engines, TypeOK, Counted, PCs
<1>3. ASSUME AuthPreflight PROVE TypeOK' /\ Counted'
  BY <1>3 DEF AuthPreflight, TypeOK, Counted, PCs
<1>4. ASSUME SelectEngine PROVE TypeOK' /\ Counted'
  BY <1>4 DEF SelectEngine, Engines, TypeOK, Counted, PCs
<1>5. ASSUME Discover PROVE TypeOK' /\ Counted'
  <2>1. given' \in Seq(Specs)
    <3>1. CASE opts.spec = NoSpec
      BY <1>5, <3>1, WalkOfOpen DEF Discover, TypeOK
    <3>2. CASE opts.spec # NoSpec
      BY <1>5, <3>2, OptionTypes DEF Discover, TypeOK
    <3> QED
      BY <3>1, <3>2
  <2> QED
    BY <1>5, <2>1 DEF Discover, TypeOK, Counted, PCs
<1>6. ASSUME ProbeCredentials PROVE TypeOK' /\ Counted'
  BY <1>6, HostTypes DEF ProbeCredentials, Probe, TypeOK, Counted, PCs
<1>7. ASSUME NEW k \in Keys, KeyReady(k) PROVE TypeOK' /\ Counted'
  BY <1>7 DEF KeyReady, NextKey, AfterProbe, Keys, TypeOK, Counted, PCs
<1>8. ASSUME NEW k \in Keys, Prompt(k) PROVE TypeOK' /\ Counted'
  BY <1>8, HostTypes DEF Prompt, Probe, Keys, TypeOK, Counted, PCs
<1>9. ASSUME NEW k \in Keys, PromptFails(k) PROVE TypeOK' /\ Counted'
  BY <1>9 DEF PromptFails, Keys, TypeOK, Counted, PCs
<1>10. ASSUME NEW k \in Keys, StillLocked(k) PROVE TypeOK' /\ Counted'
  <2>1. Flags'
    BY Zenon, <1>10 DEF StillLocked, NextKey, AfterProbe, Keys, TypeOK, Flags
  <2> QED
    BY <1>10, <2>1 DEF StillLocked, NextKey, AfterProbe, Keys, Flags, TypeOK, Counted,
      PCs
<1>11. ASSUME StartRun PROVE TypeOK' /\ Counted'
  <2>1. Flags'
    BY Zenon, <1>11 DEF StartRun, TypeOK, Flags
  <2> QED
    BY <1>11, <2>1 DEF StartRun, Flags, TypeOK, Counted, PCs
<1>12. ASSUME ChunkSpecRaises PROVE TypeOK' /\ Counted'
  BY <1>12 DEF ChunkSpecRaises, TypeOK, Counted, PCs
<1>13. ASSUME NextSpec PROVE TypeOK' /\ Counted'
  <2>1. given[idx'] \in Specs
    BY <1>13 DEF NextSpec, TypeOK, Counted
  <2>2. queue' \in Seq(Entry)
    BY <1>13, <2>1, QueueOfPlan DEF NextSpec, QueueOf
  <2>3. chunks' \in Seq(Chunk)
    BY <1>13 DEF NextSpec
  <2> QED
    BY <1>13, <2>2, <2>3 DEF NextSpec, TypeOK, Counted, PCs
<1>14. ASSUME BudgetKeeps PROVE TypeOK' /\ Counted'
  <2>1. queue' \in Seq(Entry) /\ chunks' \in Seq(Chunk)
    BY <1>14, KeepPieces DEF BudgetKeeps, Counted
  <2> QED
    BY <1>14, <2>1 DEF BudgetKeeps, TypeOK, Counted, PCs
<1>15. ASSUME BudgetSplits PROVE TypeOK' /\ Counted'
  <2>1. Head(queue) \in Entry /\ Names(Head(queue).chunk) > 1
    BY <1>15, HeadAndTail, CutsTwoOrMore DEF BudgetSplits, Counted
  <2>2. queue' \in Seq(Entry)
    BY <1>15, <2>1, HeadAndTail, HalvesAdjoin, TwoForOne DEF BudgetSplits, Counted
  <2> QED
    BY <1>15, <2>2 DEF BudgetSplits, TypeOK, Counted, PCs
<1>16. ASSUME NothingToBuild PROVE TypeOK' /\ Counted'
  BY <1>16 DEF NothingToBuild, TypeOK, Counted, PCs
<1>17. ASSUME LoadLedger PROVE TypeOK' /\ Counted'
  BY <1>17 DEF LoadLedger, TypeOK, Counted, PCs
<1>18. ASSUME SkipMerged PROVE TypeOK' /\ Counted'
  BY <1>18 DEF SkipMerged, AtChunk, TypeOK, Counted, PCs
<1>19. ASSUME DeadlineStops PROVE TypeOK' /\ Counted'
  <2>1. Flags'
    BY Zenon, <1>19 DEF DeadlineStops, AtChunk, TypeOK, Flags
  <2> QED
    BY <1>19, <2>1, ChunksHaveALength DEF DeadlineStops, AtChunk, Flags, TypeOK,
      Counted, PCs
<1>20. ASSUME Execute PROVE TypeOK' /\ Counted'
  BY <1>20 DEF Execute, AtChunk, TypeOK, Counted, PCs
<1>21. ASSUME ChunkMerges PROVE TypeOK' /\ Counted'
  <2>1. boxes' \in [Specs -> SUBSET Nat] /\ saved' \in [Specs -> SUBSET Nat]
    BY <1>21, MarksATask, TasksAreLines DEF ChunkMerges, TypeOK
  <2>2. \A s \in Specs : boxes'[s] \subseteq Tasks[s] /\ saved'[s] \subseteq boxes'[s]
    BY <1>21, MarksATask DEF ChunkMerges, TypeOK
  <2> QED
    BY <1>21, <2>1, <2>2 DEF ChunkMerges, FixMayMeetLimit, TypeOK, Counted, PCs
<1>22. ASSUME EngineFails PROVE TypeOK' /\ Counted'
  <2>1. Flags'
    BY Zenon, <1>22 DEF EngineFails, ChunkFails, TypeOK, Flags
  <2> QED
    BY <1>22, <2>1 DEF EngineFails, ChunkFails, FixMayMeetLimit, Flags, TypeOK, Counted, PCs
<1>23. ASSUME RateLimited PROVE TypeOK' /\ Counted'
  <2>1. Flags'
    BY Zenon, <1>23 DEF RateLimited, ChunkFails, TypeOK, Flags
  <2> QED
    BY <1>23, <2>1, ChunksHaveALength DEF RateLimited, ChunkFails, Flags, TypeOK,
      Counted, PCs
<1>24. ASSUME EngineRaises PROVE TypeOK' /\ Counted'
  BY <1>24 DEF EngineRaises, TypeOK, Counted, PCs
<1>25. ASSUME EndSpec PROVE TypeOK' /\ Counted'
  BY <1>25 DEF EndSpec, TypeOK, Counted, PCs
<1>26. ASSUME EndRun PROVE TypeOK' /\ Counted'
  <2>1. Flags'
    BY Zenon, <1>26 DEF EndRun, Return, TypeOK, Flags
  <2> QED
    BY <1>26, <2>1 DEF EndRun, Return, Flags, TypeOK, Counted, PCs
<1>27. ASSUME LastCycle PROVE TypeOK' /\ Counted'
  BY <1>27 DEF LastCycle, Code, TypeOK, Counted, PCs
<1>28. ASSUME Rediscover PROVE TypeOK' /\ Counted'
  <2>1. given' \in Seq(Specs)
    BY <1>28, WalkOfOpen DEF Rediscover, TypeOK
  <2> QED
    BY <1>28, <2>1 DEF Rediscover, Code, TypeOK, Counted, PCs
<1>29. ASSUME ReprobeCredentials PROVE TypeOK' /\ Counted'
  BY <1>29, HostTypes DEF ReprobeCredentials, Probe, TypeOK, Counted, PCs
<1>30. ASSUME Interrupt PROVE TypeOK' /\ Counted'
  BY <1>30 DEF Interrupt, TypeOK, Counted, PCs
<1>31. CASE UNCHANGED vars
  BY <1>31 DEF vars, TypeOK, Counted, PCs
<1> QED
  BY <1>1, <1>2, <1>3, <1>4, <1>5, <1>6, <1>7, <1>8, <1>9, <1>10, <1>11, <1>12, <1>13,
    <1>14, <1>15, <1>16, <1>17, <1>18, <1>19, <1>20, <1>21, <1>22, <1>23, <1>24, <1>25,
    <1>26, <1>27, <1>28, <1>29, <1>30, <1>31
    DEF Next, Main, Startup, Credentials, Build

(* The type invariant of Campaign.                                          *)
THEOREM TypeCorrect == Spec => []TypeOK
<1>1. TypeOK /\ Counted /\ [Next]_vars => TypeOK' /\ Counted'
  BY TypesKept
<1> QED
  BY <1>1, TypesInit, PTL DEF Spec

LEMMA AlwaysCounted == Spec => []Counted
<1>1. TypeOK /\ Counted /\ [Next]_vars => TypeOK' /\ Counted'
  BY TypesKept
<1> QED
  BY <1>1, TypesInit, PTL DEF Spec
-----------------------------------------------------------------------------
(* The rate limit. It is kept as the flag that stops the loops, and the     *)
(* chunk it was reported for was the last of its spec.                      *)

LimitInv ==
  /\ pc \in PCs
  /\ limited = "execute" => abort
  /\ pc \in {"budget", "execute"} => ~abort
  /\ pc = "chunk" /\ abort => at > Len(chunks)

LEMMA LimitKept ==
  ASSUME TypeOK, Counted, LimitInv, [Next]_vars
  PROVE  LimitInv'
<1> USE DEF args, creds, repo, split, loop, tally, run, Exit
<1>1. ASSUME CheckArguments PROVE LimitInv'
  BY <1>1 DEF CheckArguments, LimitInv, PCs, TypeOK
<1>2. ASSUME ValidateDependencies PROVE LimitInv'
  BY <1>2 DEF ValidateDependencies, Engines, LimitInv, PCs, TypeOK
<1>3. ASSUME AuthPreflight PROVE LimitInv'
  BY <1>3 DEF AuthPreflight, LimitInv, PCs, TypeOK
<1>4. ASSUME SelectEngine PROVE LimitInv'
  BY <1>4 DEF SelectEngine, Engines, LimitInv, PCs, TypeOK
<1>5. ASSUME Discover PROVE LimitInv'
  BY <1>5 DEF Discover, LimitInv, PCs, TypeOK
<1>6. ASSUME ProbeCredentials PROVE LimitInv'
  BY <1>6 DEF ProbeCredentials, Probe, LimitInv, PCs, TypeOK
<1>7. ASSUME NEW k \in Keys, KeyReady(k) PROVE LimitInv'
  BY <1>7 DEF KeyReady, NextKey, AfterProbe, Keys, LimitInv, PCs, TypeOK
<1>8. ASSUME NEW k \in Keys, Prompt(k) PROVE LimitInv'
  BY <1>8 DEF Prompt, Probe, Keys, LimitInv, PCs, TypeOK
<1>9. ASSUME NEW k \in Keys, PromptFails(k) PROVE LimitInv'
  BY <1>9 DEF PromptFails, Keys, LimitInv, PCs, TypeOK
<1>10. ASSUME NEW k \in Keys, StillLocked(k) PROVE LimitInv'
  BY <1>10 DEF StillLocked, NextKey, AfterProbe, Keys, LimitInv, PCs, TypeOK
<1>11. ASSUME StartRun PROVE LimitInv'
  BY <1>11 DEF StartRun, LimitInv, PCs, TypeOK
<1>12. ASSUME ChunkSpecRaises PROVE LimitInv'
  BY <1>12 DEF ChunkSpecRaises, LimitInv, PCs, TypeOK
<1>13. ASSUME NextSpec PROVE LimitInv'
  BY <1>13 DEF NextSpec, LimitInv, PCs, TypeOK
<1>14. ASSUME BudgetKeeps PROVE LimitInv'
  BY <1>14 DEF BudgetKeeps, LimitInv, PCs, TypeOK
<1>15. ASSUME BudgetSplits PROVE LimitInv'
  BY <1>15 DEF BudgetSplits, LimitInv, PCs, TypeOK
<1>16. ASSUME NothingToBuild PROVE LimitInv'
  BY <1>16 DEF NothingToBuild, LimitInv, PCs, TypeOK
<1>17. ASSUME LoadLedger PROVE LimitInv'
  BY <1>17 DEF LoadLedger, LimitInv, PCs, TypeOK
<1>18. ASSUME SkipMerged PROVE LimitInv'
  BY <1>18, ChunksHaveALength DEF SkipMerged, AtChunk, LimitInv, PCs, TypeOK
<1>19. ASSUME DeadlineStops PROVE LimitInv'
  BY <1>19, ChunksHaveALength DEF DeadlineStops, AtChunk, LimitInv, PCs, TypeOK
<1>20. ASSUME Execute PROVE LimitInv'
  BY <1>20, ChunksHaveALength DEF Execute, AtChunk, LimitInv, PCs, TypeOK
<1>21. ASSUME ChunkMerges PROVE LimitInv'
  BY <1>21 DEF ChunkMerges, FixMayMeetLimit, LimitInv, PCs, TypeOK
<1>22. ASSUME EngineFails PROVE LimitInv'
  BY <1>22 DEF EngineFails, ChunkFails, FixMayMeetLimit, LimitInv, PCs, TypeOK
<1>23. ASSUME RateLimited PROVE LimitInv'
  BY <1>23, ChunksHaveALength DEF RateLimited, ChunkFails, LimitInv, PCs, TypeOK
<1>24. ASSUME EngineRaises PROVE LimitInv'
  BY <1>24 DEF EngineRaises, LimitInv, PCs, TypeOK
<1>25. ASSUME EndSpec PROVE LimitInv'
  BY <1>25 DEF EndSpec, LimitInv, PCs, TypeOK
<1>26. ASSUME EndRun PROVE LimitInv'
  BY <1>26 DEF EndRun, Return, LimitInv, PCs, TypeOK
<1>27. ASSUME LastCycle PROVE LimitInv'
  BY <1>27 DEF LastCycle, Code, LimitInv, PCs, TypeOK
<1>28. ASSUME Rediscover PROVE LimitInv'
  BY <1>28 DEF Rediscover, Code, LimitInv, PCs, TypeOK
<1>29. ASSUME ReprobeCredentials PROVE LimitInv'
  BY <1>29 DEF ReprobeCredentials, Probe, LimitInv, PCs, TypeOK
<1>30. ASSUME Interrupt PROVE LimitInv'
  BY <1>30 DEF Interrupt, LimitInv, PCs, TypeOK
<1>31. CASE UNCHANGED vars
  BY <1>31 DEF vars, LimitInv, PCs, TypeOK
<1> QED
  BY <1>1, <1>2, <1>3, <1>4, <1>5, <1>6, <1>7, <1>8, <1>9, <1>10, <1>11, <1>12, <1>13,
    <1>14, <1>15, <1>16, <1>17, <1>18, <1>19, <1>20, <1>21, <1>22, <1>23, <1>24, <1>25,
    <1>26, <1>27, <1>28, <1>29, <1>30, <1>31
    DEF Next, Main, Startup, Credentials, Build

(* A rate limit stops every loop: the flag outlives the chunk loop only to   *)
(* keep the next spec from starting.                                         *)
THEOREM NoCallOnceLimited == Spec => []NoCallAfterExecuteLimit
<1>1. Init => LimitInv
  BY DEF Init, LimitInv, PCs
<1>2. TypeOK /\ Counted /\ LimitInv /\ [Next]_vars => LimitInv'
  BY LimitKept
<1>3. LimitInv => NoCallAfterExecuteLimit
  BY DEF LimitInv, NoCallAfterExecuteLimit
<1> QED
  BY <1>1, <1>2, <1>3, TypeCorrect, AlwaysCounted, PTL DEF Spec
-----------------------------------------------------------------------------
(* Keys. A probe has seen what it does not miss, and main passes a key only  *)
(* if it is not missed or, but not in continuous mode, after a warning.      *)

KeysInv ==
  /\ pc \in {"ssh", "gpg"} => host.needs \ missing \subseteq seen
  /\ pc = "gpg" /\ opts.continuous => host.needs \cap {"ssh"} \subseteq seen
  /\ pc \in {"select", "discover", "cycle"} /\ opts.continuous /\ ~opts.skipCred =>
       host.needs \subseteq seen

LEMMA KeysKept ==
  ASSUME Faults = {}, TypeOK, KeysInv, [Next]_vars
  PROVE  KeysInv'
<1> USE DEF args, creds, repo, split, loop, tally, run, Exit
<1>1. ASSUME CheckArguments PROVE KeysInv'
  BY <1>1 DEF CheckArguments, KeysInv, TypeOK, PCs
<1>2. ASSUME ValidateDependencies PROVE KeysInv'
  BY <1>2 DEF ValidateDependencies, Engines, KeysInv, TypeOK, PCs
<1>3. ASSUME AuthPreflight PROVE KeysInv'
  BY <1>3 DEF AuthPreflight, KeysInv, TypeOK, PCs
<1>4. ASSUME SelectEngine PROVE KeysInv'
  BY <1>4 DEF SelectEngine, Engines, KeysInv, TypeOK, PCs
<1>5. ASSUME Discover PROVE KeysInv'
  BY <1>5 DEF Discover, KeysInv, TypeOK, PCs
<1>6. ASSUME ProbeCredentials PROVE KeysInv'
  BY <1>6, HostTypes DEF ProbeCredentials, Probe, KeysInv, TypeOK, PCs
<1>7. ASSUME NEW k \in Keys, KeyReady(k) PROVE KeysInv'
  BY <1>7, HostTypes DEF KeyReady, NextKey, AfterProbe, Keys, KeysInv, TypeOK, PCs
<1>8. ASSUME NEW k \in Keys, Prompt(k) PROVE KeysInv'
  BY <1>8, HostTypes DEF Prompt, Probe, Keys, KeysInv, TypeOK, PCs
<1>9. ASSUME NEW k \in Keys, PromptFails(k) PROVE KeysInv'
  BY <1>9 DEF PromptFails, Keys, KeysInv, TypeOK, PCs
<1>10. ASSUME NEW k \in Keys, StillLocked(k) PROVE KeysInv'
  BY <1>10, HostTypes DEF StillLocked, NextKey, AfterProbe, Keys, KeysInv, TypeOK, PCs
<1>11. ASSUME StartRun PROVE KeysInv'
  BY <1>11 DEF StartRun, KeysInv, TypeOK, PCs
<1>12. ASSUME ChunkSpecRaises PROVE KeysInv'
  BY <1>12 DEF ChunkSpecRaises, KeysInv, TypeOK, PCs
<1>13. ASSUME NextSpec PROVE KeysInv'
  BY <1>13 DEF NextSpec, KeysInv, TypeOK, PCs
<1>14. ASSUME BudgetKeeps PROVE KeysInv'
  BY <1>14 DEF BudgetKeeps, KeysInv, TypeOK, PCs
<1>15. ASSUME BudgetSplits PROVE KeysInv'
  BY <1>15 DEF BudgetSplits, KeysInv, TypeOK, PCs
<1>16. ASSUME NothingToBuild PROVE KeysInv'
  BY <1>16 DEF NothingToBuild, KeysInv, TypeOK, PCs
<1>17. ASSUME LoadLedger PROVE KeysInv'
  BY <1>17 DEF LoadLedger, KeysInv, TypeOK, PCs
<1>18. ASSUME SkipMerged PROVE KeysInv'
  BY <1>18 DEF SkipMerged, AtChunk, KeysInv, TypeOK, PCs
<1>19. ASSUME DeadlineStops PROVE KeysInv'
  BY <1>19 DEF DeadlineStops, AtChunk, KeysInv, TypeOK, PCs
<1>20. ASSUME Execute PROVE KeysInv'
  BY <1>20 DEF Execute, AtChunk, KeysInv, TypeOK, PCs
<1>21. ASSUME ChunkMerges PROVE KeysInv'
  BY <1>21 DEF ChunkMerges, KeysInv, TypeOK, PCs
<1>22. ASSUME EngineFails PROVE KeysInv'
  BY <1>22 DEF EngineFails, ChunkFails, KeysInv, TypeOK, PCs
<1>23. ASSUME RateLimited PROVE KeysInv'
  BY <1>23 DEF RateLimited, ChunkFails, KeysInv, TypeOK, PCs
<1>24. ASSUME EngineRaises PROVE KeysInv'
  BY <1>24 DEF EngineRaises, KeysInv, TypeOK, PCs
<1>25. ASSUME EndSpec PROVE KeysInv'
  BY <1>25 DEF EndSpec, KeysInv, TypeOK, PCs
<1>26. ASSUME EndRun PROVE KeysInv'
  BY <1>26 DEF EndRun, Return, KeysInv, TypeOK, PCs
<1>27. ASSUME LastCycle PROVE KeysInv'
  BY <1>27 DEF LastCycle, Code, KeysInv, TypeOK, PCs
<1>28. ASSUME Rediscover PROVE KeysInv'
  BY <1>28 DEF Rediscover, Code, KeysInv, TypeOK, PCs
<1>29. ASSUME ReprobeCredentials PROVE KeysInv'
  BY <1>29, HostTypes DEF ReprobeCredentials, Probe, KeysInv, TypeOK, PCs
<1>30. ASSUME Interrupt PROVE KeysInv'
  BY <1>30 DEF Interrupt, KeysInv, TypeOK, PCs
<1>31. CASE UNCHANGED vars
  BY <1>31 DEF vars, KeysInv, TypeOK, PCs
<1> QED
  BY <1>1, <1>2, <1>3, <1>4, <1>5, <1>6, <1>7, <1>8, <1>9, <1>10, <1>11, <1>12, <1>13,
    <1>14, <1>15, <1>16, <1>17, <1>18, <1>19, <1>20, <1>21, <1>22, <1>23, <1>24, <1>25,
    <1>26, <1>27, <1>28, <1>29, <1>30, <1>31
    DEF Next, Main, Startup, Credentials, Build

(* In continuous mode no cycle starts before each key was seen, if no git    *)
(* config call of the probe fails: one that fails reads as a key that is     *)
(* not needed.                                                               *)
THEOREM NoCycleWithoutKeys == ASSUME Faults = {} PROVE Spec => []KeysSeenBeforeCycle
<1>1. Init => KeysInv
  BY DEF Init, KeysInv
<1>2. TypeOK /\ KeysInv /\ [Next]_vars => KeysInv'
  BY KeysKept
<1>3. KeysInv => KeysSeenBeforeCycle
  BY DEF KeysInv, KeysSeenBeforeCycle
<1> QED
  BY <1>1, <1>2, <1>3, TypeCorrect, PTL DEF Spec
-----------------------------------------------------------------------------
(* Pieces. The result of enforce_token_budget and its queue, one after the   *)
(* other, always tile the plan; and the ids given, with those the entries of *)
(* the queue may still give, are apart. A letter is always left, as a chunk  *)
(* is cut at most MaxDepth times.                                            *)

Building == {"budget", "chunk", "execute"}

(* What leads into the building of a spec, or goes on with it.               *)
LEMMA OnlyTheseBuild ==
  ASSUME TypeOK, [Next]_vars, pc' \in Building
  PROVE  \/ NextSpec \/ BudgetKeeps \/ BudgetSplits \/ LoadLedger \/ SkipMerged
         \/ DeadlineStops \/ Execute \/ ChunkMerges \/ EngineFails \/ RateLimited
         \/ UNCHANGED vars
<1> USE DEF Building, Exit
<1>1. Startup => pc' \notin Building
  BY DEF Startup, CheckArguments, ValidateDependencies, AuthPreflight, SelectEngine, Discover, TypeOK
<1>2. Credentials => pc' \notin Building
  BY DEF Credentials, ProbeCredentials, ReprobeCredentials, KeyReady, Prompt, PromptFails,
    StillLocked, NextKey, AfterProbe, Keys, TypeOK
<1>3. ChunkSpecRaises \/ StartRun \/ NothingToBuild \/ EngineRaises \/ EndSpec \/ EndRun =>
        pc' \notin Building
  BY DEF ChunkSpecRaises, StartRun, NothingToBuild, EngineRaises, EndSpec, EndRun
<1>4. LastCycle \/ Rediscover \/ Interrupt => pc' \notin Building
  BY DEF LastCycle, Rediscover, Interrupt
<1> QED
  BY <1>1, <1>2, <1>3, <1>4 DEF Next, Main, Build

TilingInv ==
  /\ pc = "budget" =>
       /\ Apart(chunks, queue)
       /\ Tiled(Spec1, Pieces(chunks, queue))
       /\ LinesOf(Pieces(chunks, queue)) = Planned(Spec1, boxes[Spec1])
       /\ \A n \in 1..Len(queue) : queue[n].seed = queue[n].depth
  /\ pc \in {"chunk", "execute"} =>
       /\ \A m, n \in 1..Len(chunks) : chunks[m].id = chunks[n].id => m = n
       /\ Tiled(Spec1, chunks)

LEMMA TilingKept ==
  ASSUME TypeOK, Counted, TilingInv, [Next]_vars
  PROVE  TilingInv'
<1> SUFFICES ASSUME pc' \in Building PROVE TilingInv'
  BY DEF TilingInv, Building
<1> USE DEF args, creds, repo, split, loop, tally, run
<1>1. ASSUME NextSpec PROVE TilingInv'
  <2>1. /\ pc' = "budget" /\ chunks' = <<>> /\ given' = given /\ boxes' = boxes
        /\ queue' = QueueOf(ChunkSpec(given[idx'], boxes[given[idx']]))
    BY <1>1 DEF NextSpec, QueueOf
  <2>2. given[idx'] \in Specs
    BY <1>1 DEF NextSpec, TypeOK, Counted
  <2>3. Spec1' = given[idx']
    BY <2>1 DEF Spec1
  <2> QED
    BY <2>1, <2>2, <2>3, QueueOfPlan DEF TilingInv
<1>2. ASSUME BudgetKeeps PROVE TilingInv'
  <2>1. /\ pc = "budget" /\ pc' = "budget" /\ queue # <<>> /\ Spec1' = Spec1 /\ boxes' = boxes
        /\ queue' = Tail(queue) /\ chunks' = Append(chunks, Head(queue).chunk)
    BY <1>2 DEF BudgetKeeps, Spec1
  <2>2. chunks \in Seq(Chunk) /\ queue \in Seq(Entry)
    BY DEF Counted
  <2>3. Pieces(chunks', queue') = Pieces(chunks, queue)
    BY <2>1, <2>2, KeepPieces
  <2>4. Apart(chunks', queue')
    BY <2>1, <2>2, KeepApart DEF TilingInv
  <2>5. \A n \in 1..Len(queue') : queue'[n].seed = queue'[n].depth
    <3>1. /\ Len(queue') = Len(queue) - 1 /\ Len(queue) \in Nat
          /\ \A n \in 1..(Len(queue) - 1) : queue'[n] = queue[n + 1]
      BY <2>1, <2>2, HeadAndTail
    <3> QED
      BY <2>1, <3>1 DEF TilingInv
  <2> QED
    BY <2>1, <2>3, <2>4, <2>5 DEF TilingInv
<1>3. ASSUME BudgetSplits PROVE TilingInv'
  <2>1. /\ pc = "budget" /\ pc' = "budget" /\ queue # <<>> /\ Spec1' = Spec1 /\ boxes' = boxes
        /\ queue' = Halves(Head(queue)) \o Tail(queue) /\ chunks' = chunks
        /\ ~Dispatched(Spec1, Head(queue), size, engine)
    BY <1>3 DEF BudgetSplits, Spec1
  <2>2. chunks \in Seq(Chunk) /\ queue \in Seq(Entry)
    BY DEF Counted
  <2>3. /\ Head(queue) = queue[1] /\ Head(queue) \in Entry /\ Len(queue) \in Nat \ {0}
    BY <2>1, <2>2, HeadAndTail
  <2>4. Names(Head(queue).chunk) > 1 /\ Head(queue).depth < MaxDepth
    BY <2>1, <2>3, CutsTwoOrMore
  <2>5. Head(queue).seed < Letters
    <3>1. Head(queue).seed = Head(queue).depth /\ Head(queue).depth \in Nat
      BY <2>1, <2>3 DEF TilingInv, Entry
    <3> QED
      BY <2>4, <3>1, ChunksAssumption DEF Letters
  <2>6. Apart(chunks', queue')
    BY <2>1, <2>2, <2>4, <2>5, CutApart DEF TilingInv
  <2>7. Tiled(Spec1, Pieces(chunks', queue')) /\ LinesOf(Pieces(chunks', queue')) = LinesOf(Pieces(chunks, queue))
    BY <2>1, <2>2, <2>4, CutPieces DEF TilingInv
  <2>8. ASSUME NEW n \in 1..Len(queue') PROVE queue'[n].seed = queue'[n].depth
    <3> DEFINE h == Halves(Head(queue))
    <3>1. /\ h \in Seq(Entry) /\ Len(h) = 2
          /\ h[1].depth = Head(queue).depth + 1 /\ h[1].seed = Head(queue).seed + 1
          /\ h[2].depth = Head(queue).depth + 1 /\ h[2].seed = Head(queue).seed + 1
      BY <2>3, <2>4, HalvesAdjoin
    <3>2. queue' = h \o Tail(queue)
      BY <2>1
    <3> HIDE DEF h
    <3>3. /\ Len(queue') = Len(queue) + 1 /\ queue'[1] = h[1] /\ queue'[2] = h[2]
          /\ \A i \in 3..Len(queue') : queue'[i] = queue[i - 1]
      BY <2>1, <2>2, <3>1, <3>2, TwoForOne
    <3>4. \A i \in 1..Len(queue) : queue[i].seed = queue[i].depth
      BY <2>1 DEF TilingInv
    <3>5. CASE n \in {1, 2}
      BY <2>3, <3>1, <3>3, <3>4, <3>5
    <3>6. CASE n \in 3..Len(queue')
      <4>1. n - 1 \in 1..Len(queue)
        BY <2>3, <3>3, <3>6
      <4> QED
        BY <3>3, <3>4, <3>6, <4>1
    <3> QED
      BY <2>3, <3>3, <3>5, <3>6
  <2> QED
    BY <2>1, <2>6, <2>7, <2>8 DEF TilingInv
<1>4. ASSUME LoadLedger PROVE TilingInv'
  <2>1. /\ pc = "budget" /\ pc' = "chunk" /\ queue = <<>> /\ Spec1' = Spec1 /\ chunks' = chunks
    BY <1>4 DEF LoadLedger, Spec1
  <2>2. Pieces(chunks, queue) = chunks
    BY <2>1, NothingQueued DEF Counted
  <2> QED
    BY <2>1, <2>2 DEF TilingInv, Apart
<1>5. ASSUME \/ SkipMerged \/ DeadlineStops \/ Execute \/ ChunkMerges \/ EngineFails
             \/ RateLimited
      PROVE TilingInv'
  <2>1. /\ pc \in {"chunk", "execute"} /\ pc' \in {"chunk", "execute"}
        /\ chunks' = chunks /\ given' = given /\ idx' = idx
    BY <1>5 DEF SkipMerged, DeadlineStops, Execute, AtChunk, ChunkMerges, EngineFails,
      RateLimited, ChunkFails
  <2> QED
    BY <2>1 DEF TilingInv, Spec1
<1>6. CASE UNCHANGED vars
  BY <1>6 DEF vars, TilingInv, Spec1
<1> QED
  BY <1>1, <1>2, <1>3, <1>4, <1>5, <1>6, OnlyTheseBuild

LEMMA AlwaysTiled == Spec => []TilingInv
<1>1. Init => TilingInv
  BY DEF Init, TilingInv
<1>2. TypeOK /\ Counted /\ TilingInv /\ [Next]_vars => TilingInv'
  BY TilingKept
<1> QED
  BY <1>1, <1>2, TypeCorrect, AlwaysCounted, PTL DEF Spec

(* For every spec, all paths its lines may name, every budget and every size   *)
(* the files have: the chunks built tile the plan and have ids of their own. *)
THEOREM PiecesTile == Spec => []PiecesTileTheSpec
<1>1. Counted /\ TilingInv => PiecesTileTheSpec
  BY NothingQueued DEF Counted, TilingInv, PiecesTileTheSpec
<1> QED
  BY <1>1, AlwaysCounted, AlwaysTiled, PTL
-----------------------------------------------------------------------------
(* Boxes. There are never more open ones in the spec being built than pieces *)
(* to come, and each piece that merges closes one, whichever it is. Without  *)
(* a ledger no piece is taken for one that merged before: the ids are apart. *)

OpenIn(s) == Tasks[s] \ boxes[s]
Closed(n) == \A i \in 1..n : Tasks[given[i]] \subseteq boxes[given[i]]

ClosedInv ==
  opts.noResume =>
    /\ pc = "spec" /\ completed = idx => Closed(idx)
    /\ pc = "budget" =>
         /\ completed + 1 = idx => Closed(idx - 1)
         /\ Cardinality(OpenIn(Spec1)) <= Len(chunks) + Len(queue)
    /\ pc \in {"chunk", "execute"} =>
         /\ \A x \in ledger : \E n \in 1..(at - 1) : n <= Len(chunks) /\ chunks[n].id = x
         /\ completed + 1 = idx /\ allOk => Closed(idx - 1)
         /\ allOk => Cardinality(OpenIn(Spec1)) <= Len(chunks) + 1 - at
    /\ pc = "report" /\ result = "success" => Closed(Len(given))

LEMMA OpenIsFinite ==
  ASSUME TypeOK, NEW s \in Specs
  PROVE  /\ IsFiniteSet(OpenIn(s)) /\ Cardinality(OpenIn(s)) \in Nat
         /\ Cardinality(OpenIn(s)) = 0 => Tasks[s] \subseteq boxes[s]
<1>1. IsFiniteSet(OpenIn(s))
  BY PlannedIsFinite DEF OpenIn
<1>2. Cardinality(OpenIn(s)) \in Nat /\ (Cardinality(OpenIn(s)) = 0 => OpenIn(s) = {})
  BY <1>1, FS_CardinalityType, FS_EmptySet
<1> QED
  BY <1>1, <1>2 DEF OpenIn

(* The specs before the one that is built are closed, and it is as well once *)
(* no box of it is open.                                                     *)
LEMMA OneMoreClosed ==
  ASSUME TypeOK, Counted, pc \in Building, completed + 1 = idx => Closed(idx - 1),
         completed + 1 = idx, Cardinality(OpenIn(Spec1)) <= 0
  PROVE  Closed(idx)
<1>1. Spec1 \in Specs /\ idx \in 1..Len(given) /\ Closed(idx - 1)
  BY SpecIsASpec DEF Building
<1>2. Tasks[Spec1] \subseteq boxes[Spec1]
  BY <1>1, OpenIsFinite
<1>3. \A i \in 1..idx : i = idx \/ i \in 1..(idx - 1)
  BY <1>1
<1> QED
  BY <1>1, <1>2, <1>3 DEF Closed, Spec1

LEMMA SpecBegins ==
  ASSUME TypeOK, Counted, ClosedInv, NextSpec, opts.noResume
  PROVE  ClosedInv'
<1>1. /\ pc = "spec" /\ pc' = "budget" /\ chunks' = <<>> /\ given' = given /\ boxes' = boxes
      /\ idx' = idx + 1 /\ completed' = completed /\ idx \in Nat /\ completed \in Nat
      /\ queue' = QueueOf(ChunkSpec(given[idx'], boxes[given[idx']]))
  BY DEF NextSpec, QueueOf, TypeOK, tally, repo
<1>2. given[idx'] \in Specs /\ Spec1' = given[idx']
  BY <1>1 DEF NextSpec, TypeOK, Counted, Spec1
<1>3. completed' + 1 = idx' => Closed(idx)
  BY <1>1 DEF ClosedInv
<1>4. completed' + 1 = idx' => Closed(idx - 1)'
  <2>1. Closed(idx - 1)' <=> \A i \in 1..(idx' - 1) : Tasks[given'[i]] \subseteq boxes'[given'[i]]
    BY DEF Closed
  <2>2. idx' - 1 = idx
    BY <1>1
  <2> QED
    BY <1>1, <1>3, <2>1, <2>2 DEF Closed
<1>5. Cardinality(OpenIn(Spec1)') <= Len(chunks') + Len(queue')
  <2> DEFINE s == given[idx']
             plan == Planned(s, boxes[s])
  <2>1. OpenIn(Spec1)' = Tasks[s] \ boxes[s]
    BY <1>1, <1>2 DEF OpenIn
  <2>2. s \in Specs
    BY <1>2
  <2>5. Len(queue') = Cardinality(plan) /\ Len(chunks') = 0
    BY <1>1, <2>2, QueueOfPlan
  <2> HIDE DEF s
  <2>3. IsFiniteSet(plan) /\ Tasks[s] \ boxes[s] \in SUBSET plan
    BY <2>2, PlannedIsFinite
  <2>4. Cardinality(Tasks[s] \ boxes[s]) <= Cardinality(plan)
    BY <2>3, FS_Subset
  <2>6. Cardinality(plan) \in Nat
    BY <2>3, FS_CardinalityType
  <2> QED
    BY <2>1, <2>4, <2>5, <2>6
<1> QED
  BY <1>1, <1>4, <1>5 DEF ClosedInv

(* A piece that merges closes one box, if any is open.                       *)
LEMMA MergeCloses ==
  ASSUME TypeOK, Counted, ClosedInv, ChunkMerges, opts.noResume
  PROVE  ClosedInv'
<1>1. /\ pc = "execute" /\ pc' = "chunk" /\ at' = at + 1 /\ at \in Nat \ {0} /\ at <= Len(chunks)
      /\ boxes' = [boxes EXCEPT ![Spec1] = @ \cup BoxFor(Spec1, This.line, @)]
      /\ ledger' = ledger \cup {chunks[at].id} /\ Spec1' = Spec1 /\ allOk' = allOk
      /\ given' = given /\ idx' = idx /\ chunks' = chunks /\ completed' = completed
  BY DEF ChunkMerges, This, Spec1, TypeOK, split
<1>2. Spec1 \in Specs /\ idx \in 1..Len(given) /\ Len(chunks) \in Nat
      /\ boxes \in [Specs -> SUBSET Nat]
  BY <1>1, SpecIsASpec, ChunksHaveALength DEF TypeOK
<1>3. ASSUME NEW x \in ledger'
      PROVE  \E n \in 1..(at' - 1) : n <= Len(chunks') /\ chunks'[n].id = x
  <2>1. CASE x \in ledger
    <3>1. PICK n \in 1..(at - 1) : n <= Len(chunks) /\ chunks[n].id = x
      BY <1>1, <2>1 DEF ClosedInv
    <3>2. n \in 1..(at' - 1)
      BY <1>1
    <3> QED
      BY <1>1, <3>1, <3>2
  <2>2. CASE x = chunks[at].id
    BY <1>1, <2>2
  <2> QED
    BY <1>1, <1>3, <2>1, <2>2
<1>4. \A s \in Specs : boxes[s] \subseteq boxes'[s]
  BY <1>1, <1>2
<1>5. completed' + 1 = idx' /\ allOk' => Closed(idx - 1)'
  <2>1. \A i \in 1..(idx - 1) : given[i] \in Specs
    BY <1>2 DEF Counted
  <2> QED
    BY <1>1, <1>4, <2>1 DEF ClosedInv, Closed
<1>6. ASSUME allOk' PROVE Cardinality(OpenIn(Spec1)') <= Len(chunks') + 1 - at'
  <2> DEFINE open == Tasks[Spec1] \ boxes[Spec1]
             B    == BoxFor(Spec1, This.line, boxes[Spec1])
  <2>1. /\ OpenIn(Spec1)' = open \ B /\ OpenIn(Spec1) = open
    BY <1>1, <1>2 DEF OpenIn
  <2>2. IsFiniteSet(open) /\ Cardinality(open) \in Nat
        /\ Cardinality(open) <= Len(chunks) + 1 - at
    BY <1>1, <1>2, <1>6, <2>1, OpenIsFinite DEF ClosedInv
  <2> HIDE DEF B
  <2>3. CASE open = {}
    <3>1. Cardinality(open \ B) = 0
      BY <2>3, FS_EmptySet
    <3> QED
      BY <1>1, <1>2, <2>1, <3>1
  <2>4. CASE open # {}
    <3>1. PICK b \in open : B = {b}
      BY <1>2, <2>4, MarkTakesOne DEF B
    <3>2. Cardinality(open \ {b}) = Cardinality(open) - 1
      BY <2>2, <3>1, FS_RemoveElement
    <3> QED
      BY <1>1, <1>2, <2>1, <2>2, <3>1, <3>2
  <2> QED
    BY <2>3, <2>4
<1> QED
  BY <1>1, <1>3, <1>5, <1>6 DEF ClosedInv

LEMMA OptionsStay == [Next]_vars => opts' = opts
<1> USE DEF args, Exit
<1>1. Startup => opts' = opts
  BY DEF Startup, CheckArguments, ValidateDependencies, AuthPreflight, SelectEngine, Discover
<1>2. Credentials => opts' = opts
  BY DEF Credentials, ProbeCredentials, ReprobeCredentials, KeyReady, Prompt, PromptFails,
    StillLocked
<1>3. StartRun \/ ChunkSpecRaises \/ NextSpec \/ BudgetKeeps \/ BudgetSplits \/ NothingToBuild
        \/ LoadLedger \/ SkipMerged => opts' = opts
  BY DEF StartRun, ChunkSpecRaises, NextSpec, BudgetKeeps, BudgetSplits, NothingToBuild,
    LoadLedger, SkipMerged
<1>4. DeadlineStops \/ Execute \/ ChunkMerges \/ EngineFails \/ RateLimited \/ EngineRaises
        \/ EndSpec \/ EndRun => opts' = opts
  BY DEF DeadlineStops, Execute, ChunkMerges, EngineFails, RateLimited, ChunkFails,
    EngineRaises, EndSpec, EndRun
<1>5. LastCycle \/ Rediscover \/ Interrupt \/ UNCHANGED vars => opts' = opts
  BY DEF LastCycle, Rediscover, Interrupt, vars
<1> QED
  BY <1>1, <1>2, <1>3, <1>4, <1>5 DEF Next, Main, Build

(* What ends the building of a spec, or of all of them.                      *)
LEMMA OnlyTheseEnd ==
  ASSUME TypeOK, [Next]_vars, pc' \in {"spec", "report"}
  PROVE  StartRun \/ ChunkSpecRaises \/ NothingToBuild \/ EndSpec \/ EndRun \/ UNCHANGED vars
<1> USE DEF Exit
<1>1. Startup => pc' \notin {"spec", "report"}
  BY DEF Startup, CheckArguments, ValidateDependencies, AuthPreflight, SelectEngine, Discover, TypeOK
<1>2. Credentials => pc' \notin {"spec", "report"}
  BY DEF Credentials, ProbeCredentials, ReprobeCredentials, KeyReady, Prompt, PromptFails,
    StillLocked, NextKey, AfterProbe, Keys, TypeOK
<1>3. NextSpec \/ BudgetKeeps \/ BudgetSplits \/ LoadLedger \/ SkipMerged \/ DeadlineStops
        \/ Execute \/ ChunkMerges \/ EngineFails \/ RateLimited \/ EngineRaises =>
      pc' \notin {"spec", "report"}
  BY DEF NextSpec, BudgetKeeps, BudgetSplits, LoadLedger, SkipMerged, DeadlineStops, AtChunk,
    Execute, ChunkMerges, EngineFails, RateLimited, ChunkFails, EngineRaises
<1>4. LastCycle \/ Rediscover \/ Interrupt => pc' \notin {"spec", "report"}
  BY DEF LastCycle, Rediscover, Interrupt
<1> QED
  BY <1>1, <1>2, <1>3, <1>4 DEF Next, Main, Build

LEMMA ClosedKept ==
  ASSUME TypeOK, Counted, TilingInv, ClosedInv, [Next]_vars
  PROVE  ClosedInv'
<1> USE DEF args, creds, repo, split, loop, tally, run
<1> SUFFICES ASSUME opts.noResume, pc' \in {"spec", "report"} \cup Building PROVE ClosedInv'
  BY OptionsStay DEF ClosedInv, Building
<1>1. CASE StartRun
  <2>1. pc' = "spec" /\ idx' = 0 /\ 1..0 = {}
    BY <1>1 DEF StartRun
  <2> QED
    BY <2>1 DEF ClosedInv, Closed
<1>2. CASE ChunkSpecRaises
  <2>1. pc' = "spec" /\ idx' = idx + 1 /\ completed' = completed /\ idx \in Nat /\ completed \in 0..idx
    BY <1>2 DEF ChunkSpecRaises, TypeOK
  <2> QED
    BY <2>1 DEF ClosedInv
<1>3. CASE NothingToBuild
  <2>1. /\ pc = "budget" /\ queue = <<>> /\ chunks = <<>> /\ pc' = "spec" /\ idx' = idx
        /\ completed' = completed + 1 /\ given' = given /\ boxes' = boxes
    BY <1>3 DEF NothingToBuild
  <2>2. Cardinality(OpenIn(Spec1)) <= 0
    BY <2>1 DEF ClosedInv
  <2>3. completed + 1 = idx => Closed(idx)
    BY <2>1, <2>2, OneMoreClosed DEF ClosedInv, Building
  <2>4. Closed(idx') <=> Closed(idx)'
    BY <2>1 DEF Closed
  <2> QED
    BY <2>1, <2>3 DEF ClosedInv, Closed
<1>4. CASE EndSpec
  <2>1. /\ pc = "chunk" /\ at > Len(chunks) /\ pc' = "spec" /\ idx' = idx
        /\ completed' = IF allOk THEN completed + 1 ELSE completed
        /\ given' = given /\ boxes' = boxes /\ completed < idx
    BY <1>4 DEF EndSpec, Counted
  <2>2. ASSUME allOk, completed + 1 = idx PROVE Closed(idx)
    <3>1. Spec1 \in Specs /\ Len(chunks) \in Nat /\ at \in Nat
      BY <2>1, SpecIsASpec, ChunksHaveALength DEF TypeOK
    <3>2. Cardinality(OpenIn(Spec1)) <= Len(chunks) + 1 - at /\ Cardinality(OpenIn(Spec1)) \in Nat
      BY <2>1, <2>2, <3>1, OpenIsFinite DEF ClosedInv
    <3>3. Cardinality(OpenIn(Spec1)) <= 0
      BY <2>1, <3>1, <3>2
    <3> QED
      BY <2>1, <2>2, <3>3, OneMoreClosed DEF ClosedInv, Building
  <2> QED
    BY <2>1, <2>2 DEF ClosedInv, Closed, TypeOK
<1>5. CASE EndRun
  <2>1. /\ pc = "spec" /\ pc' = "report" /\ given' = given /\ boxes' = boxes
        /\ result' = "success" => completed = Len(given)
        /\ completed \in 0..idx /\ idx \in 0..Len(given) /\ Len(given) \in Nat
    BY <1>5 DEF EndRun, TypeOK, Counted
  <2>2. result' = "success" => completed = idx /\ idx = Len(given)
    BY <2>1
  <2> QED
    BY <2>1, <2>2 DEF ClosedInv, Closed
<1>6. CASE NextSpec
  BY <1>6, SpecBegins
<1>7. CASE BudgetKeeps \/ BudgetSplits
  <2>1. /\ pc = "budget" /\ pc' = "budget" /\ given' = given /\ idx' = idx /\ boxes' = boxes
        /\ completed' = completed
    BY <1>7 DEF BudgetKeeps, BudgetSplits
  <2>2. Len(chunks) + Len(queue) <= Len(chunks') + Len(queue')
    <3>1. chunks \in Seq(Chunk) /\ queue \in Seq(Entry) /\ queue # <<>> /\ Head(queue) \in Entry
      BY <1>7, HeadAndTail DEF BudgetKeeps, BudgetSplits, Counted
    <3>2. Len(chunks) \in Nat /\ Len(queue) \in Nat \ {0}
      BY <3>1, HeadAndTail
    <3>3. CASE BudgetKeeps
      <4>1. Head(queue).chunk \in Chunk
        BY <3>1 DEF Entry
      <4>2. Len(chunks') = Len(chunks) + 1 /\ Len(queue') = Len(queue) - 1
        BY <3>1, <3>3, <4>1, HeadAndTail, AppendProperties DEF BudgetKeeps
      <4> QED
        BY <3>2, <4>2
    <3>4. CASE BudgetSplits
      <4>1. Names(Head(queue).chunk) > 1
        BY <3>1, <3>4, CutsTwoOrMore DEF BudgetSplits
      <4>2. Len(queue') = Len(queue) + 1 /\ chunks' = chunks
        BY <3>1, <3>4, <4>1, HalvesAdjoin, TwoForOne DEF BudgetSplits
      <4> QED
        BY <3>2, <4>2
    <3> QED
      BY <1>7, <3>3, <3>4
  <2>3. Cardinality(OpenIn(Spec1)) <= Len(chunks') + Len(queue')
    <3>1. /\ Cardinality(OpenIn(Spec1)) <= Len(chunks) + Len(queue)
          /\ Cardinality(OpenIn(Spec1)) \in Nat
      BY <2>1, SpecIsASpec, OpenIsFinite DEF ClosedInv
    <3>2. /\ Len(chunks) \in Nat /\ Len(queue) \in Nat
          /\ Len(chunks') \in Nat /\ Len(queue') \in Nat
      <4>1. Counted'
        BY TypesKept
      <4> QED
        BY <4>1 DEF Counted
    <3> QED
      BY <2>2, <3>1, <3>2
  <2>4. OpenIn(Spec1)' = OpenIn(Spec1) /\ Closed(idx - 1)' = Closed(idx - 1)
    BY <2>1 DEF OpenIn, Spec1, Closed
  <2> QED
    BY <2>1, <2>3, <2>4 DEF ClosedInv
<1>8. CASE LoadLedger
  <2>1. /\ pc = "budget" /\ pc' = "chunk" /\ queue = <<>> /\ at' = 1 /\ ledger' = {}
        /\ given' = given /\ idx' = idx /\ boxes' = boxes /\ completed' = completed
        /\ chunks' = chunks /\ opts' = opts
    BY <1>8 DEF LoadLedger
  <2>2. OpenIn(Spec1)' = OpenIn(Spec1) /\ Closed(idx - 1)' = Closed(idx - 1)
    BY <2>1 DEF OpenIn, Spec1, Closed
  <2>3. Cardinality(OpenIn(Spec1)) <= Len(chunks)
    BY <2>1, ChunksHaveALength DEF ClosedInv
  <2>4. Len(chunks) + 1 - 1 = Len(chunks)
    BY ChunksHaveALength
  <2> QED
    BY <2>1, <2>2, <2>3, <2>4 DEF ClosedInv
<1>9. CASE SkipMerged
  <2>1. pc = "chunk" /\ at \in 1..Len(chunks) /\ chunks[at].id \in ledger /\ Len(chunks) \in Nat
    BY <1>9, ChunksHaveALength DEF SkipMerged, AtChunk, This, TypeOK
  <2>2. PICK n \in 1..(at - 1) : n <= Len(chunks) /\ chunks[n].id = chunks[at].id
    BY <2>1 DEF ClosedInv
  <2>3. n \in 1..Len(chunks) /\ n # at
    BY <2>1
  <2> QED
    BY <2>1, <2>2, <2>3 DEF TilingInv
<1>10. CASE DeadlineStops \/ EngineFails \/ RateLimited
  <2>1. /\ pc \in {"chunk", "execute"} /\ pc' = "chunk" /\ allOk' = FALSE
        /\ chunks' = chunks /\ ledger' = ledger /\ at <= Len(chunks)
        /\ at' \in {at + 1, Len(chunks) + 1} /\ at \in Nat /\ Len(chunks) \in Nat
    <3>1. Len(chunks) \in Nat /\ at \in Nat
      BY ChunksHaveALength DEF TypeOK
    <3>2. CASE DeadlineStops
      BY <3>1, <3>2 DEF DeadlineStops, AtChunk
    <3>3. CASE EngineFails
      BY <3>1, <3>3 DEF EngineFails, ChunkFails, TypeOK
    <3>4. CASE RateLimited
      BY <3>1, <3>4 DEF RateLimited, ChunkFails, TypeOK
    <3> QED
      BY <1>10, <3>2, <3>3, <3>4
  <2>2. \A n \in 1..(at - 1) : n \in 1..(at' - 1)
    <3>1. at \in Nat /\ at' \in Nat /\ at' > at
      BY <2>1
    <3>2. \A i, j \in Nat : i < j => \A n \in 1..(i - 1) : n \in 1..(j - 1)
      OBVIOUS
    <3> QED
      BY <3>1, <3>2
  <2> QED
    BY <2>1, <2>2 DEF ClosedInv
<1>11. CASE Execute
  <2>1. /\ pc = "chunk" /\ pc' = "execute"
        /\ UNCHANGED <<given, idx, boxes, completed, chunks, at, ledger, allOk>>
    BY <1>11 DEF Execute, AtChunk
  <2> QED
    BY <2>1 DEF ClosedInv, OpenIn, Spec1, Closed
<1>12. CASE ChunkMerges
  BY <1>12, MergeCloses
<1>13. CASE UNCHANGED vars
  BY <1>13 DEF vars, ClosedInv, OpenIn, Spec1, Closed
<1> QED
  BY <1>1, <1>2, <1>3, <1>4, <1>5, <1>6, <1>7, <1>8, <1>9, <1>10, <1>11, <1>12, <1>13,
    OnlyTheseBuild, OnlyTheseEnd

LEMMA AlwaysClosed == Spec => []ClosedInv
<1>1. Init => ClosedInv
  BY DEF Init, ClosedInv
<1>2. TypeOK /\ Counted /\ TilingInv /\ ClosedInv /\ [Next]_vars => ClosedInv'
  BY ClosedKept
<1> QED
  BY <1>1, <1>2, TypeCorrect, AlwaysCounted, AlwaysTiled, PTL DEF Spec

(* A run that succeeds without a ledger has closed every box of every spec   *)
(* it was given, for any specs, titles, cuts and failures.                   *)
THEOREM SuccessClosesAll == Spec => []SuccessClosesEveryBox
<1>1. ClosedInv => SuccessClosesEveryBox
  BY DEF ClosedInv, SuccessClosesEveryBox, Closed
<1> QED
  BY <1>1, AlwaysClosed, PTL
-----------------------------------------------------------------------------
(* The ledger. While a spec is built the ledger in memory is the one on disk, *)
(* unless --no-resume is given: what is skipped is on record.                *)

LedgerInv ==
  /\ disk \in [Specs -> SUBSET Seq(Nat)] /\ ledger \in SUBSET Seq(Nat)
  /\ pc \in {"chunk", "execute"} /\ ~opts.noResume => ledger = disk[Stem[Spec1]]

(* The id of the chunk at hand is not empty.                                 *)
LEMMA ThisHasAnId ==
  ASSUME TypeOK, Counted, pc \in {"chunk", "execute"}, at <= Len(chunks)
  PROVE  This.id \in Seq(Nat) /\ This.id # <<>>
<1>1. This \in Chunk
  BY ChunksHaveALength DEF This, Counted, TypeOK
<1> QED
  BY <1>1 DEF Chunk

(* Only these touch a ledger, on disk or in memory.                          *)
LEMMA LedgersStay ==
  ASSUME TypeOK, [Next]_vars
  PROVE  \/ Discover \/ LoadLedger \/ ChunkMerges \/ EngineFails \/ RateLimited \/ EndRun
         \/ UNCHANGED <<disk, ledger, opts>> /\ pc' \notin {"chunk", "execute"}
         \/ UNCHANGED <<disk, ledger, opts, pc, given, idx>>
         \/ SkipMerged \/ DeadlineStops \/ Execute
<1> USE DEF args, creds, repo, split, loop, tally, run, Exit
<1> DEFINE away == UNCHANGED <<disk, ledger, opts>> /\ pc' \notin {"chunk", "execute"}
<1>1. Startup => Discover \/ away
  BY DEF Startup, CheckArguments, ValidateDependencies, AuthPreflight, SelectEngine
<1>2. Credentials => away
  BY DEF Credentials, ProbeCredentials, ReprobeCredentials, KeyReady, Prompt, PromptFails,
    StillLocked, NextKey, AfterProbe, Keys
<1>3. StartRun \/ ChunkSpecRaises \/ NextSpec \/ BudgetKeeps \/ BudgetSplits \/ NothingToBuild
        \/ EngineRaises \/ EndSpec => away
  BY DEF StartRun, ChunkSpecRaises, NextSpec, BudgetKeeps, BudgetSplits, NothingToBuild,
    EngineRaises, EndSpec
<1>4. LastCycle \/ Rediscover \/ Interrupt => away
  BY DEF LastCycle, Rediscover, Interrupt
<1>5. UNCHANGED vars => UNCHANGED <<disk, ledger, opts, pc, given, idx>>
  BY DEF vars
<1> QED
  BY <1>1, <1>2, <1>3, <1>4, <1>5 DEF Next, Main, Build

LEMMA LedgerKept ==
  ASSUME TypeOK, Counted, LedgerInv, [Next]_vars
  PROVE  LedgerInv'
<1> USE DEF args, split
<1>1. CASE Discover
  <2>1. /\ disk' \in {disk, [s \in Specs |-> {}]} /\ ledger' = ledger
        /\ pc' \notin {"chunk", "execute"}
    BY <1>1 DEF Discover, Exit, loop
  <2> QED
    BY <2>1 DEF LedgerInv
<1>2. CASE LoadLedger
  <2>1. /\ pc = "budget" /\ disk' = disk /\ opts' = opts /\ Spec1' = Spec1
        /\ ledger' = IF opts.noResume THEN {} ELSE disk[Stem[Spec1]]
    BY <1>2 DEF LoadLedger, repo, Spec1
  <2>2. Stem[Spec1] \in Specs
    BY <2>1, SpecIsASpec, ChunksAssumption
  <2> QED
    BY <2>1, <2>2 DEF LedgerInv
<1>3. CASE ChunkMerges \/ EngineFails \/ RateLimited
  <2>1. /\ pc = "execute" /\ opts' = opts /\ Spec1' = Spec1
        /\ ledger' \in {ledger, ledger \cup {This.id}}
        /\ disk' = [disk EXCEPT ![Stem[Spec1]] = ledger']
    BY <1>3 DEF ChunkMerges, EngineFails, RateLimited, ChunkFails, Spec1
  <2>2. Stem[Spec1] \in Specs /\ This.id \in Seq(Nat)
    BY <2>1, SpecIsASpec, ChunksAssumption, ThisHasAnId DEF TypeOK
  <2> QED
    BY <2>1, <2>2 DEF LedgerInv
<1>4. CASE EndRun
  BY <1>4 DEF EndRun, Return, repo, LedgerInv
<1>5. CASE SkipMerged \/ DeadlineStops \/ Execute
  <2>1. UNCHANGED <<disk, ledger, opts, given, idx>> /\ pc = "chunk"
    BY <1>5 DEF SkipMerged, DeadlineStops, Execute, AtChunk, repo, run, loop
  <2> QED
    BY <2>1 DEF LedgerInv, Spec1
<1>6. CASE UNCHANGED <<disk, ledger, opts>> /\ pc' \notin {"chunk", "execute"}
  BY <1>6 DEF LedgerInv
<1>7. CASE UNCHANGED <<disk, ledger, opts, pc, given, idx>>
  BY <1>7 DEF LedgerInv, Spec1
<1> QED
  BY <1>1, <1>2, <1>3, <1>4, <1>5, <1>6, <1>7, LedgersStay

LEMMA AlwaysLedger == Spec => []LedgerInv
<1>1. Init => LedgerInv
  BY CampaignAssumption DEF Init, LedgerInv
<1>2. TypeOK /\ Counted /\ LedgerInv /\ [Next]_vars => LedgerInv'
  BY LedgerKept
<1> QED
  BY <1>1, <1>2, TypeCorrect, AlwaysCounted, PTL DEF Spec
-----------------------------------------------------------------------------
(* The exit code. Rest is what is due and not on record. As long as every    *)
(* spec begun was completed, it belongs to specs to come or to chunks of     *)
(* this one to come; without a ledger nothing counts as on record.           *)

Rest == {d \in due : ~(~opts.noResume /\ d[1] \in Specs /\ OnRecord(d))}
ToCome(n) == {<<given[i], <<>>>> : i \in (n + 1)..Len(given)}
ChunksToCome == {<<Spec1, chunks[n].id>> : n \in at..Len(chunks)}

ExitInv ==
  /\ pc \in {"args", "deps", "auth", "select", "discover"} => result = "none"
  /\ pc \notin {"spec", "budget", "chunk", "execute", "report", "over"}
       /\ result = "none" => due = {}
  /\ pc = "spec" /\ completed = idx => Rest \subseteq ToCome(idx)
  /\ pc = "budget" /\ completed + 1 = idx => Rest \subseteq ToCome(idx - 1)
  /\ pc \in {"chunk", "execute"} /\ completed + 1 = idx /\ allOk =>
       Rest \subseteq ToCome(idx) \cup ChunksToCome
  /\ pc = "report" => result # "none" /\ (result = "success" => Rest = {})
  /\ pc = "over" /\ exit = 0 =>
       /\ Rest = {}
       /\ ~opts.dryRun /\ (opts.continuous \/ result = "none") => Open = {}

LEMMA NothingRests == due = {} => Rest = {}
BY DEF Rest

LEMMA RestStays == UNCHANGED <<due, disk, opts>> => Rest' = Rest
BY DEF Rest, OnRecord

LEMMA RestLoses ==
  ASSUME NEW d, UNCHANGED <<disk, opts>>, due' = due \ {d}
  PROVE  Rest' = Rest \ {d}
BY DEF Rest, OnRecord

(* A chunk that is skipped is on record, so it is no part of Rest; and       *)
(* without a ledger none is: the ids are apart.                              *)
LEMMA SkippedIsOnRecord ==
  ASSUME TypeOK, Counted, TilingInv, ClosedInv, LedgerInv, SkipMerged
  PROVE  <<Spec1, This.id>> \notin Rest
<1>1. /\ pc = "chunk" /\ at \in 1..Len(chunks) /\ chunks[at].id \in ledger /\ Len(chunks) \in Nat
      /\ This.id = chunks[at].id
  BY ChunksHaveALength DEF SkipMerged, AtChunk, This, TypeOK
<1>2. CASE opts.noResume
  <2>1. PICK n \in 1..(at - 1) : n <= Len(chunks) /\ chunks[n].id = chunks[at].id
    BY <1>1, <1>2 DEF ClosedInv
  <2>2. n \in 1..Len(chunks) /\ n # at
    BY <1>1
  <2> QED
    BY <1>1, <2>1, <2>2 DEF TilingInv
<1>3. CASE ~opts.noResume
  <2>1. Spec1 \in Specs /\ This.id # <<>>
    BY <1>1, SpecIsASpec, ThisHasAnId
  <2>2. This.id \in disk[Stem[Spec1]]
    BY <1>1, <1>3 DEF LedgerInv
  <2> QED
    BY <1>3, <2>1, <2>2 DEF Rest, OnRecord
<1> QED
  BY <1>2, <1>3

(* What is on record stays so when a chunk merges.                           *)
LEMMA MergeRecords ==
  ASSUME TypeOK, Counted, LedgerInv, ChunkMerges
  PROVE  Rest' \subseteq Rest \ {<<Spec1, This.id>>}
<1>1. /\ pc = "execute" /\ opts' = opts /\ due' = due \ {<<Spec1, This.id>>}
      /\ ledger' = ledger \cup {This.id} /\ disk' = [disk EXCEPT ![Stem[Spec1]] = ledger']
  BY DEF ChunkMerges, args
<1>2. Stem \in [Specs -> Specs] /\ disk \in [Specs -> SUBSET Seq(Nat)]
  BY ChunksAssumption DEF LedgerInv
<1>3. ASSUME ~opts.noResume, NEW s \in Specs
      PROVE  disk[Stem[s]] \subseteq disk'[Stem[s]]
  <2>1. ledger = disk[Stem[Spec1]] /\ Stem[s] \in Specs
    BY <1>1, <1>2, <1>3 DEF LedgerInv
  <2> QED
    BY <1>1, <1>2, <2>1
<1> QED
  BY <1>1, <1>3 DEF Rest, OnRecord

LEMMA ExitKept ==
  ASSUME TypeOK, Counted, TilingInv, ClosedInv, LedgerInv, ExitInv, [Next]_vars
  PROVE  ExitInv'
<1> USE DEF args, creds, repo, split, loop, tally, run, Exit
<1>1. ASSUME CheckArguments PROVE ExitInv'
  <2>1. Rest' = Rest
    BY <1>1, RestStays DEF CheckArguments
  <2> QED
    BY <1>1, <2>1 DEF CheckArguments, ExitInv
<1>2. ASSUME ValidateDependencies PROVE ExitInv'
  <2>1. Rest' = Rest
    BY <1>2, RestStays DEF ValidateDependencies
  <2> QED
    BY <1>2, <2>1 DEF ValidateDependencies, Engines, ExitInv
<1>3. ASSUME AuthPreflight PROVE ExitInv'
  <2>1. Rest' = Rest
    BY <1>3, RestStays DEF AuthPreflight
  <2> QED
    BY <1>3, <2>1 DEF AuthPreflight, ExitInv
<1>4. ASSUME SelectEngine PROVE ExitInv'
  <2>1. Rest' = Rest
    BY <1>4, RestStays DEF SelectEngine
  <2> QED
    BY <1>4, <2>1 DEF SelectEngine, Engines, ExitInv
<1>5. ASSUME Discover PROVE ExitInv'
  <2>1. given' = <<>> /\ opts.spec = NoSpec => Open = {}
    BY <1>5, WalkGivesAll, OpenIsFound DEF Discover, TypeOK
  <2>2. given' = <<>> => opts.spec = NoSpec
    BY <1>5 DEF Discover
  <2>3. Open' = Open /\ due = {} /\ result = "none" /\ UNCHANGED <<due, result, opts>>
    BY <1>5 DEF Discover, ExitInv, Open
  <2>4. Rest' = {}
    BY <2>3 DEF Rest
  <2> QED
    BY <1>5, <2>1, <2>2, <2>3, <2>4 DEF Discover, ExitInv
<1>6. ASSUME ProbeCredentials PROVE ExitInv'
  <2>1. Rest' = Rest
    BY <1>6, RestStays DEF ProbeCredentials
  <2> QED
    BY <1>6, <2>1 DEF ProbeCredentials, Probe, ExitInv
<1>7. ASSUME NEW k \in Keys, KeyReady(k) PROVE ExitInv'
  <2>1. Rest' = Rest
    BY <1>7, RestStays DEF KeyReady
  <2> QED
    BY <1>7, <2>1 DEF KeyReady, NextKey, AfterProbe, Keys, ExitInv
<1>8. ASSUME NEW k \in Keys, Prompt(k) PROVE ExitInv'
  <2>1. Rest' = Rest
    BY <1>8, RestStays DEF Prompt
  <2> QED
    BY <1>8, <2>1 DEF Prompt, Probe, Keys, ExitInv
<1>9. ASSUME NEW k \in Keys, PromptFails(k) PROVE ExitInv'
  <2>1. Rest' = Rest
    BY <1>9, RestStays DEF PromptFails
  <2> QED
    BY <1>9, <2>1 DEF PromptFails, Keys, ExitInv
<1>10. ASSUME NEW k \in Keys, StillLocked(k) PROVE ExitInv'
  <2>1. Rest' = Rest
    BY <1>10, RestStays DEF StillLocked
  <2> QED
    BY <1>10, <2>1 DEF StillLocked, NextKey, AfterProbe, Keys, ExitInv
<1>11. ASSUME StartRun PROVE ExitInv'
  <2>1. pc' = "spec" /\ completed' = 0 /\ idx' = 0 /\ given' = given
        /\ due' = {<<given[i], <<>>>> : i \in 1..Len(given)}
    BY <1>11 DEF StartRun
  <2>2. Rest' \subseteq due'
    BY DEF Rest
  <2>3. ToCome(idx)' = due'
    BY <2>1 DEF ToCome
  <2> QED
    BY <2>1, <2>2, <2>3 DEF ExitInv
<1>12. ASSUME ChunkSpecRaises PROVE ExitInv'
  BY <1>12 DEF ChunkSpecRaises, TypeOK, ExitInv
<1>13. ASSUME NextSpec PROVE ExitInv'
  <2>1. Rest' = Rest /\ pc = "spec" /\ pc' = "budget"
        /\ idx' = idx + 1 /\ UNCHANGED <<completed, given>>
    BY <1>13, RestStays DEF NextSpec
  <2>2. ToCome(idx - 1)' = ToCome(idx)
    BY <2>1 DEF ToCome, TypeOK
  <2> QED
    BY <2>1, <2>2 DEF ExitInv, TypeOK
<1>14. ASSUME BudgetKeeps PROVE ExitInv'
  <2>1. Rest' = Rest
    BY <1>14, RestStays DEF BudgetKeeps
  <2> QED
    BY <1>14, <2>1 DEF BudgetKeeps, ToCome, ExitInv
<1>15. ASSUME BudgetSplits PROVE ExitInv'
  <2>1. Rest' = Rest
    BY <1>15, RestStays DEF BudgetSplits
  <2> QED
    BY <1>15, <2>1 DEF BudgetSplits, ToCome, ExitInv
<1>16. ASSUME NothingToBuild PROVE ExitInv'
  <2>1. pc' = "spec" /\ completed' = completed + 1 /\ due' = due \ {<<Spec1, <<>>>>}
        /\ UNCHANGED <<idx, given, disk, opts>> /\ pc = "budget"
    BY <1>16 DEF NothingToBuild
  <2>2. Rest' = Rest \ {<<Spec1, <<>>>>}
    BY <2>1, RestLoses
  <2>3. ASSUME completed + 1 = idx PROVE Rest' \subseteq ToCome(idx)
    BY <2>1, <2>2, <2>3 DEF ExitInv, ToCome, Spec1, TypeOK, Counted
  <2> QED
    BY <2>1, <2>3 DEF ExitInv, ToCome
<1>17. ASSUME LoadLedger PROVE ExitInv'
  <2>1. pc' = "chunk" /\ at' = 1 /\ UNCHANGED <<idx, given, chunks, completed, disk, opts>>
        /\ pc = "budget"
        /\ due' = (due \ {<<Spec1, <<>>>>}) \cup {<<Spec1, chunks[n].id>> : n \in 1..Len(chunks)}
    BY <1>17 DEF LoadLedger
  <2>2. ASSUME completed + 1 = idx PROVE Rest \ {<<Spec1, <<>>>>} \subseteq ToCome(idx)
    BY <2>1, <2>2 DEF ExitInv, ToCome, Spec1, TypeOK, Counted
  <2>3. ToCome(idx)' = ToCome(idx)
    BY <2>1 DEF ToCome
  <2>4. ChunksToCome' = {<<Spec1, chunks[n].id>> : n \in 1..Len(chunks)}
    BY <2>1 DEF ChunksToCome, Spec1
  <2>5. Rest' \subseteq (Rest \ {<<Spec1, <<>>>>}) \cup ChunksToCome'
    BY <2>1, <2>4 DEF Rest, OnRecord
  <2> QED
    BY <2>1, <2>2, <2>3, <2>5 DEF ExitInv
<1>18. ASSUME SkipMerged PROVE ExitInv'
  <2>1. /\ pc \in {"chunk", "execute"} /\ pc' = "chunk" /\ at' = at + 1
        /\ Rest' = Rest /\ This = chunks[at]
        /\ UNCHANGED <<idx, given, chunks, completed, allOk>>
    BY <1>18, RestStays DEF SkipMerged, AtChunk, This
  <2>2. ChunksToCome \subseteq ChunksToCome' \cup {<<Spec1, chunks[at].id>>}
    BY <2>1, ChunksHaveALength DEF ChunksToCome, Spec1, TypeOK
  <2>3. ToCome(idx)' = ToCome(idx)
    BY <2>1 DEF ToCome
  <2>4. <<Spec1, chunks[at].id>> \notin Rest
    BY <1>18, <2>1, SkippedIsOnRecord
  <2> QED
    BY <2>1, <2>2, <2>3, <2>4 DEF ExitInv
<1>19. ASSUME DeadlineStops PROVE ExitInv'
  BY <1>19 DEF DeadlineStops, AtChunk, ExitInv
<1>20. ASSUME Execute PROVE ExitInv'
  <2>1. Rest' = Rest /\ pc = "chunk" /\ pc' = "execute"
        /\ UNCHANGED <<idx, given, chunks, at, completed, allOk>>
    BY <1>20, RestStays DEF Execute, AtChunk
  <2> QED
    BY <2>1 DEF ExitInv, ChunksToCome, Spec1, ToCome
<1>21. ASSUME ChunkMerges PROVE ExitInv'
  <2>1. /\ pc \in {"chunk", "execute"} /\ pc' = "chunk" /\ at' = at + 1
        /\ Rest' \subseteq Rest \ {<<Spec1, chunks[at].id>>}
        /\ UNCHANGED <<idx, given, chunks, completed, allOk>>
    BY <1>21, MergeRecords DEF ChunkMerges, This
  <2>2. ChunksToCome \subseteq ChunksToCome' \cup {<<Spec1, chunks[at].id>>}
    BY <2>1, ChunksHaveALength DEF ChunksToCome, Spec1, TypeOK
  <2>3. ToCome(idx)' = ToCome(idx)
    BY <2>1 DEF ToCome
  <2> QED
    BY <2>1, <2>2, <2>3 DEF ExitInv
<1>22. ASSUME EngineFails PROVE ExitInv'
  BY <1>22 DEF EngineFails, ChunkFails, ExitInv
<1>23. ASSUME RateLimited PROVE ExitInv'
  BY <1>23 DEF RateLimited, ChunkFails, ExitInv
<1>24. ASSUME EngineRaises PROVE ExitInv'
  BY <1>24 DEF EngineRaises, ExitInv
<1>25. ASSUME EndSpec PROVE ExitInv'
  <2>1. Rest' = Rest
    BY <1>25, RestStays DEF EndSpec
  <2> QED
    BY <1>25, <2>1 DEF EndSpec, TypeOK, Counted, ToCome, ChunksToCome, ExitInv
<1>26. ASSUME EndRun PROVE ExitInv'
  <2>1. Rest' = Rest
    BY <1>26, RestStays DEF EndRun
  <2> QED
    BY <1>26, <2>1 DEF EndRun, Return, ExitInv, TypeOK, Counted, ToCome
<1>27. ASSUME LastCycle PROVE ExitInv'
  <2>1. Rest' = Rest
    BY <1>27, RestStays DEF LastCycle
  <2> QED
    BY <1>27, <2>1 DEF LastCycle, Code, ExitInv
<1>28. ASSUME Rediscover PROVE ExitInv'
  <2>1. given' = <<>> => Open = {}
    BY <1>28, WalkGivesAll, OpenIsFound DEF Rediscover, TypeOK
  <2>2. Open' = Open /\ UNCHANGED <<due, disk, result, opts>>
    BY <1>28 DEF Rediscover, Open
  <2>3. Rest' = Rest
    BY <2>2, RestStays
  <2> QED
    BY <1>28, <2>1, <2>2, <2>3 DEF Rediscover, Code, ExitInv
<1>29. ASSUME ReprobeCredentials PROVE ExitInv'
  <2>1. Rest' = Rest
    BY <1>29, RestStays DEF ReprobeCredentials
  <2> QED
    BY <1>29, <2>1 DEF ReprobeCredentials, Probe, ExitInv
<1>30. ASSUME Interrupt PROVE ExitInv'
  BY <1>30 DEF Interrupt, ExitInv
<1>31. CASE UNCHANGED vars
  <2>1. Open' = Open /\ Rest' = Rest
    BY <1>31, RestStays DEF vars, Open
  <2>2. /\ ToCome(idx)' = ToCome(idx) /\ ToCome(idx - 1)' = ToCome(idx - 1)
        /\ ChunksToCome' = ChunksToCome
    BY <1>31 DEF vars, ToCome, ChunksToCome, Spec1
  <2> QED
    BY <1>31, <2>1, <2>2 DEF vars, ExitInv
<1> QED
  BY <1>1, <1>2, <1>3, <1>4, <1>5, <1>6, <1>7, <1>8, <1>9, <1>10, <1>11, <1>12, <1>13,
    <1>14, <1>15, <1>16, <1>17, <1>18, <1>19, <1>20, <1>21, <1>22, <1>23, <1>24, <1>25,
    <1>26, <1>27, <1>28, <1>29, <1>30, <1>31
    DEF Next, Main, Startup, Credentials, Build

(* Exit code 0 is given only when all that was due was built in the cycle or *)
(* is on record in a ledger file that was read, for any number of specs,     *)
(* chunks and cycles; without a ledger all of it was built.                  *)
THEOREM ExitZeroIsHonest == Spec => []ExitZeroMeansBuilt
<1>1. Init => ExitInv
  BY NothingRests DEF Init, ExitInv
<1>2. TypeOK /\ Counted /\ TilingInv /\ ClosedInv /\ LedgerInv /\ ExitInv /\ [Next]_vars
        => ExitInv'
  BY ExitKept
<1>3. ExitInv => ExitZeroMeansBuilt
  <2> SUFFICES ASSUME ExitInv, pc = "over" /\ exit = 0 PROVE ExitZeroMeansBuilt
    BY DEF ExitZeroMeansBuilt
  <2>1. Rest = {}
    BY DEF ExitInv
  <2>2. \A d \in due : ~opts.noResume /\ OnRecord(d)
    BY <2>1 DEF Rest
  <2> QED
    BY <2>2 DEF ExitInv, ExitZeroMeansBuilt
<1> QED
  BY <1>1, <1>2, <1>3, TypeCorrect, AlwaysCounted, AlwaysTiled, AlwaysClosed, AlwaysLedger,
    PTL DEF Spec
=============================================================================
