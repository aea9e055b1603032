--------------------------- MODULE HfEngine_proofs ---------------------------
(***************************************************************************)
(* Theorems about HfEngine and the quota of its sandbox, for all limits,   *)
(* paths, batches and depths of recursion.                                 *)
(***************************************************************************)
EXTENDS HfEngine, FiniteSetTheorems, SequenceTheorems, TLAPS

\* A slot is counted for each reserved path, and only for a free slot.
Slots ==
  /\ IsFiniteSet(reserved) /\ created = Cardinality(reserved)
  /\ created <= MaxFiles /\ made \subseteq reserved

\* The registry let no call through that it did not count, and a fix is asked
\* for below the cap only.
Counted ==
  /\ run <= calls /\ run <= MaxCalls
  /\ pc = "fix" => retries < MaxFixAttempts

\* A result is set once, and a success right after a passed verification.
Finished == (result # "none" => pc = "done") /\ SuccessIsVerified

EngineInv == TypeOK /\ Slots /\ Counted /\ Finished
-----------------------------------------------------------------------------
(* The quota of the sandbox *)

LEMMA SlotsInit == Init => Slots
BY FS_EmptySet, SandboxAssumption DEF Init, Slots

LEMMA SlotsKept ==
  ASSUME Slots, NEW p \in Paths, WriteFile(p), disk \subseteq Paths
  PROVE  Slots'
<1> USE DEF Slots
<1>1. ASSUME Allowed(p), Reserve(p) PROVE
        /\ IsFiniteSet(reserved') /\ created' = Cardinality(reserved')
        /\ created' <= MaxFiles /\ reserved \subseteq reserved'
        /\ p \notin disk => p \in reserved'
  <2>1. CASE IsNew(p)
    <3>1. Cardinality(reserved \cup {p}) = Cardinality(reserved) + 1
      BY <2>1, FS_AddElement DEF IsNew
    <3>2. IsFiniteSet(reserved \cup {p})
      BY FS_AddElement
    <3>3. Cardinality(reserved) \in Nat
      BY FS_CardinalityType
    <3> QED
      BY <1>1, <2>1, <3>1, <3>2, <3>3, SandboxAssumption DEF Allowed, Reserve
  <2>2. CASE ~IsNew(p)
    BY <1>1, <2>2 DEF Reserve, IsNew
  <2> QED
    BY <2>1, <2>2
<1>2. CASE Written(p)
  BY <1>1, <1>2 DEF Written
<1>3. CASE MkdirFails(p)
  BY <1>1, <1>3 DEF MkdirFails
<1>4. CASE UNCHANGED sandbox
  BY <1>4 DEF sandbox
<1> QED
  BY <1>2, <1>3, <1>4 DEF WriteFile, WriteFails

LEMMA SandboxTypes ==
  ASSUME TypeOK, NEW p \in Paths, WriteFile(p)
  PROVE  /\ disk' \subseteq Paths /\ reserved' \subseteq Paths /\ made' \subseteq Paths
         /\ created' \in Nat
<1>1. ASSUME Reserve(p) PROVE reserved' \subseteq Paths /\ created' \in Nat
  BY <1>1 DEF TypeOK, Reserve
<1>2. CASE Written(p)
  BY <1>1, <1>2 DEF TypeOK, Written
<1>3. CASE MkdirFails(p)
  BY <1>1, <1>3 DEF TypeOK, MkdirFails
<1>4. CASE UNCHANGED sandbox
  BY <1>4 DEF TypeOK, sandbox
<1> QED
  BY <1>2, <1>3, <1>4 DEF WriteFile, WriteFails
-----------------------------------------------------------------------------
(* The engine *)

\* Returning pops a frame whose retries_used is within its limit.
LEMMA ReturnTypes ==
  ASSUME TypeOK, NEW outcome \in {"success", "failure"}, Return(outcome)
  PROVE  /\ stack' \in Seq(0..MaxFixAttempts) /\ Len(stack') < RecursionLimit
         /\ retries' \in 0..MaxFixAttempts
<1>1. CASE stack = <<>>
  BY <1>1 DEF TypeOK, Return, frame
<1>2. CASE stack # <<>>
  <2>1. /\ Head(stack) \in 0..MaxFixAttempts /\ Tail(stack) \in Seq(0..MaxFixAttempts)
        /\ Len(Tail(stack)) = Len(stack) - 1
    BY <1>2, HeadTailProperties DEF TypeOK
  <2> QED
    BY <1>2, <2>1, LimitsAssumption DEF TypeOK, Return
<1> QED
  BY <1>1, <1>2

LEMMA InitEngine == Init => EngineInv
<1> SUFFICES ASSUME Init PROVE EngineInv
  OBVIOUS
<1>1. TypeOK
  <2>1. stack \in Seq(0..MaxFixAttempts) /\ Len(stack) = 0
    BY EmptySeq DEF Init
  <2>2. late \in BOOLEAN /\ verified \in BOOLEAN
    BY Zenon DEF Init
  <2> QED
    BY <2>1, <2>2, LimitsAssumption DEF Init, TypeOK
<1>2. Counted /\ Finished
  BY LimitsAssumption DEF Init, Counted, Finished, SuccessIsVerified
<1> QED
  BY <1>1, <1>2, SlotsInit DEF EngineInv

LEMMA NextEngine == EngineInv /\ [Next]_vars => EngineInv'
<1> SUFFICES ASSUME EngineInv, [Next]_vars PROVE EngineInv'
  OBVIOUS
<1> USE LimitsAssumption, SandboxAssumption
    DEF EngineInv, frame, loop, tools, sandbox
<1>1. CASE NextIteration
  <2>1. TypeOK'
    BY <1>1 DEF NextIteration, TypeOK
  <2>2. Slots'
    BY <1>1 DEF NextIteration, Slots
  <2>3. Counted' /\ Finished'
    BY <1>1 DEF NextIteration, TypeOK, Counted, Finished, SuccessIsVerified
  <2> QED
    BY <2>1, <2>2, <2>3
<1>2. CASE GiveUp
  <2>1. TypeOK'
    BY <1>2, ReturnTypes DEF GiveUp, Return, TypeOK
  <2>2. Slots'
    BY <1>2 DEF GiveUp, Return, Slots
  <2>3. Counted' /\ Finished'
    BY <1>2 DEF GiveUp, Return, TypeOK, Counted, Finished, SuccessIsVerified
  <2> QED
    BY <2>1, <2>2, <2>3
<1>3. CASE AskFails
  <2>1. TypeOK'
    BY <1>3 DEF AskFails, TypeOK
  <2>2. Slots'
    BY <1>3 DEF AskFails, Slots
  <2>3. Counted' /\ Finished'
    BY <1>3 DEF AskFails, TypeOK, Counted, Finished, SuccessIsVerified
  <2> QED
    BY <2>1, <2>2, <2>3
<1>4. CASE AskFailsForGood
  <2>1. TypeOK'
    BY <1>4, ReturnTypes DEF AskFailsForGood, Return, TypeOK
  <2>2. Slots'
    BY <1>4 DEF AskFailsForGood, Return, Slots
  <2>3. Counted' /\ Finished'
    BY <1>4 DEF AskFailsForGood, Return, TypeOK, Counted, Finished, SuccessIsVerified
  <2> QED
    BY <2>1, <2>2, <2>3
<1>5. CASE AskRaises
  <2>1. TypeOK'
    BY <1>5 DEF AskRaises, Raise, TypeOK
  <2>2. Slots'
    BY <1>5 DEF AskRaises, Raise, Slots
  <2>3. Counted' /\ Finished'
    BY <1>5 DEF AskRaises, Raise, TypeOK, Counted, Finished, SuccessIsVerified
  <2> QED
    BY <2>1, <2>2, <2>3
<1>6. CASE AskTalk
  <2>1. TypeOK'
    BY <1>6 DEF AskTalk, TypeOK
  <2>2. Slots'
    BY <1>6 DEF AskTalk, Slots
  <2>3. Counted' /\ Finished'
    BY <1>6 DEF AskTalk, TypeOK, Counted, Finished, SuccessIsVerified
  <2> QED
    BY <2>1, <2>2, <2>3
<1>7. CASE AskMalformed
  <2>1. TypeOK'
    BY <1>7, ReturnTypes DEF AskMalformed, Return, TypeOK
  <2>2. Slots'
    BY <1>7 DEF AskMalformed, Return, Slots
  <2>3. Counted' /\ Finished'
    BY <1>7 DEF AskMalformed, Return, TypeOK, Counted, Finished, SuccessIsVerified
  <2> QED
    BY <2>1, <2>2, <2>3
<1>8. CASE AskTools
  <2>1. TypeOK'
    BY <1>8 DEF AskTools, TypeOK
  <2>2. Slots'
    BY <1>8 DEF AskTools, Slots
  <2>3. Counted' /\ Finished'
    BY <1>8 DEF AskTools, TypeOK, Counted, Finished, SuccessIsVerified
  <2> QED
    BY <2>1, <2>2, <2>3
<1>9. CASE AskComplete
  <2>1. TypeOK'
    BY <1>9 DEF AskComplete, Goto, TypeOK
  <2>2. Slots'
    BY <1>9 DEF AskComplete, Goto, Slots
  <2>3. Counted' /\ Finished'
    BY <1>9 DEF AskComplete, Goto, TypeOK, Counted, Finished, SuccessIsVerified
  <2> QED
    BY <2>1, <2>2, <2>3
<1>10. CASE Reflect
  <2>1. TypeOK'
    BY <1>10 DEF Reflect, Goto, TypeOK
  <2>2. Slots'
    BY <1>10 DEF Reflect, Goto, Slots
  <2>3. Counted' /\ Finished'
    BY <1>10 DEF Reflect, Goto, TypeOK, Counted, Finished, SuccessIsVerified
  <2> QED
    BY <2>1, <2>2, <2>3
<1>11. CASE Malformed
  <2>1. TypeOK'
    BY <1>11 DEF Malformed, TakeCall, TypeOK
  <2>2. Slots'
    BY <1>11 DEF Malformed, TakeCall, Slots
  <2>3. Counted' /\ Finished'
    BY <1>11 DEF Malformed, TakeCall, TypeOK, Counted, Finished, SuccessIsVerified
  <2> QED
    BY <2>1, <2>2, <2>3
<1>12. CASE Refuse
  <2>1. TypeOK'
    BY <1>12 DEF Refuse, TakeCall, OverLimit, TypeOK
  <2>2. Slots'
    BY <1>12 DEF Refuse, TakeCall, OverLimit, Slots
  <2>3. Counted' /\ Finished'
    BY <1>12 DEF Refuse, TakeCall, OverLimit, TypeOK, Counted, Finished, SuccessIsVerified
  <2> QED
    BY <2>1, <2>2, <2>3
<1>13. CASE DispatchRead
  <2>1. TypeOK'
    BY <1>13 DEF DispatchRead, Dispatch, TakeCall, OverLimit, TypeOK
  <2>2. Slots'
    BY <1>13 DEF DispatchRead, Dispatch, TakeCall, OverLimit, Slots
  <2>3. Counted' /\ Finished'
    BY <1>13 DEF DispatchRead, Dispatch, TakeCall, OverLimit, TypeOK, Counted, Finished, SuccessIsVerified
  <2> QED
    BY <2>1, <2>2, <2>3
<1>14. CASE DispatchWrite
  <2>1. PICK p \in Paths : WriteFile(p)
    BY <1>14 DEF DispatchWrite
  <2>2. TypeOK'
    <3>1. /\ disk' \subseteq Paths /\ reserved' \subseteq Paths /\ made' \subseteq Paths
          /\ created' \in Nat
      BY <2>1, SandboxTypes
    <3>2. verified' \in BOOLEAN /\ verified' = FALSE
      BY <1>14, Zenon DEF DispatchWrite
    <3> QED
      BY <1>14, <3>1, <3>2 DEF DispatchWrite, Dispatch, TakeCall, OverLimit, TypeOK
  <2>3. Slots'
    BY <2>1, SlotsKept DEF TypeOK
  <2>4. Counted' /\ Finished'
    BY <1>14 DEF DispatchWrite, Dispatch, TakeCall, OverLimit, TypeOK, Counted, Finished, SuccessIsVerified
  <2> QED
    BY <2>2, <2>3, <2>4
<1>15. CASE DispatchCommand
  <2>1. TypeOK'
    <3>1. verified' \in BOOLEAN /\ verified' = FALSE
      BY <1>15, Zenon DEF DispatchCommand
    <3> QED
      BY <1>15, <3>1 DEF DispatchCommand, Dispatch, TakeCall, OverLimit, TypeOK
  <2>2. Slots'
    BY <1>15 DEF DispatchCommand, Dispatch, TakeCall, OverLimit, Slots
  <2>3. Counted' /\ Finished'
    BY <1>15 DEF DispatchCommand, Dispatch, TakeCall, OverLimit, TypeOK, Counted, Finished, SuccessIsVerified
  <2> QED
    BY <2>1, <2>2, <2>3
<1>16. CASE EndTools
  <2>1. TypeOK'
    BY <1>16 DEF EndTools, Goto, TypeOK
  <2>2. Slots'
    BY <1>16 DEF EndTools, Goto, Slots
  <2>3. Counted' /\ Finished'
    BY <1>16 DEF EndTools, Goto, TypeOK, Counted, Finished, SuccessIsVerified
  <2> QED
    BY <2>1, <2>2, <2>3
<1>17. CASE Verify
  <2>1. TypeOK'
    BY <1>17, ReturnTypes DEF Verify, Return, TypeOK
  <2>2. Slots'
    BY <1>17 DEF Verify, Return, Slots
  <2>3. Counted' /\ Finished'
    BY <1>17 DEF Verify, Return, TypeOK, Counted, Finished, SuccessIsVerified
  <2> QED
    BY <2>1, <2>2, <2>3
<1>18. CASE Fix
  <2>1. /\ stack' \in Seq(0..MaxFixAttempts)
        /\ Len(stack') = Len(stack) + 1
    <3>1. retries + 1 \in 0..MaxFixAttempts /\ stack \in Seq(0..MaxFixAttempts)
      BY <1>18 DEF Fix, TypeOK, Counted
    <3>2. <<retries + 1>> \in Seq(0..MaxFixAttempts) /\ Len(<<retries + 1>>) = 1
      BY <3>1
    <3>3. Len(stack) \in Nat
      BY <3>1
    <3> QED
      BY <1>18, <3>1, <3>2, <3>3, ConcatProperties DEF Fix
  <2>2. TypeOK'
    <3>1. late' \in BOOLEAN /\ verified' \in BOOLEAN
      BY <1>18, Zenon DEF Fix, TypeOK
    <3>2. /\ pc' = "loop" /\ retries' = 0 /\ iteration' = 0 /\ errors' = 0
          /\ calls' = 0 /\ run' = 0 /\ created' = 0 /\ reserved' = {} /\ made' = {}
          /\ batch' = batch /\ result' = result /\ disk' = disk
          /\ Len(stack) + 1 < RecursionLimit
      BY <1>18 DEF Fix, NewSandbox
    <3> QED
      BY <2>1, <3>1, <3>2 DEF TypeOK
  <2>3. Slots'
    BY <1>18, FS_EmptySet DEF Fix, NewSandbox, Slots
  <2>4. Counted' /\ Finished'
    BY <1>18 DEF Fix, NewSandbox, TypeOK, Counted, Finished, SuccessIsVerified
  <2> QED
    BY <2>2, <2>3, <2>4
<1>19. CASE TooDeep
  <2>1. TypeOK'
    BY <1>19 DEF TooDeep, Raise, TypeOK
  <2>2. Slots'
    BY <1>19 DEF TooDeep, Raise, Slots
  <2>3. Counted' /\ Finished'
    BY <1>19 DEF TooDeep, Raise, TypeOK, Counted, Finished, SuccessIsVerified
  <2> QED
    BY <2>1, <2>2, <2>3
<1>20. CASE Deadline
  <2>1. TypeOK'
    BY <1>20 DEF Deadline, TypeOK
  <2>2. Slots'
    BY <1>20 DEF Deadline, Slots
  <2>3. Counted' /\ Finished'
    BY <1>20 DEF Deadline, TypeOK, Counted, Finished, SuccessIsVerified
  <2> QED
    BY <2>1, <2>2, <2>3
<1>21. CASE UNCHANGED vars
  BY <1>21 DEF vars, TypeOK, Slots, Counted, Finished, SuccessIsVerified
<1> QED
  BY <1>1, <1>2, <1>3, <1>4, <1>5, <1>6, <1>7, <1>8, <1>9, <1>10, <1>11, <1>12, <1>13, <1>14, <1>15, <1>16, <1>17, <1>18, <1>19, <1>20, <1>21
  DEF Next, Step

LEMMA EngineInvariant == Spec => []EngineInv
<1> QED
  BY InitEngine, NextEngine, PTL DEF Spec

(* Types; retries_used stays within its cap in every call of execute_chunk,  *)
(* however deep fixes nest.                                                  *)
THEOREM TypeCorrect == Spec => []TypeOK
<1>1. EngineInv => TypeOK
  BY DEF EngineInv
<1> QED
  BY <1>1, EngineInvariant, PTL

(* A success is reported only of work that passed the verification as it is  *)
(* (huggingface_engine.py:259-290).                                          *)
THEOREM OnlyVerifiedSuccess == Spec => []SuccessIsVerified
<1>1. EngineInv => SuccessIsVerified
  BY DEF EngineInv, Finished
<1> QED
  BY <1>1, EngineInvariant, PTL

(* The registry's limit holds over the loop and the reflection of one call   *)
(* of execute_chunk (registry.py:105-114).                                   *)
THEOREM CallLimit == Spec => []CallsWithinLimit
<1>1. EngineInv => CallsWithinLimit
  BY DEF EngineInv, Counted, CallsWithinLimit
<1> QED
  BY <1>1, EngineInvariant, PTL

(* No sandbox creates more files than max_file_count, whatever fails in      *)
(* between (sandbox.py:283-295, 482-489).                                    *)
THEOREM FileQuota == Spec => []QuotaHolds
<1>1. EngineInv => QuotaHolds
  <2> SUFFICES ASSUME EngineInv PROVE QuotaHolds
    OBVIOUS
  <2>1. IsFiniteSet(reserved) /\ made \subseteq reserved
    BY DEF EngineInv, Slots
  <2>2. Cardinality(made) <= Cardinality(reserved) /\ IsFiniteSet(made)
    BY <2>1, FS_Subset
  <2>3. Cardinality(made) \in Nat /\ Cardinality(reserved) \in Nat
    BY <2>1, <2>2, FS_CardinalityType
  <2> QED
    BY <2>2, <2>3, SandboxAssumption DEF EngineInv, Slots, QuotaHolds
<1> QED
  BY <1>1, EngineInvariant, PTL
=============================================================================
