------------------------------ MODULE HfEngine ------------------------------
(***************************************************************************)
(* One call of execute_chunk of the HuggingFace engine                     *)
(* (huggingface_engine.py): the loop of LLM calls, the tool calls the      *)
(* registry dispatches, the reflection, and the gating verification with   *)
(* its fix cycles, which call execute_chunk again.                         *)
(*                                                                         *)
(* A call of execute_chunk has a registry, a sandbox, an iteration count,  *)
(* an error count and a deadline of its own; of the calls that wait for a  *)
(* fix only retries_used is still read, so stack keeps just that.          *)
(***************************************************************************)
EXTENDS Sandbox, Sequences

CONSTANTS
  MaxIterations,   \* max_iterations
  MaxErrors,       \* transient failures in a row that end the loop
  MaxCalls,        \* max_calls_per_iteration
  MaxFixAttempts,  \* _HF_MAX_FIX_ATTEMPTS
  RecursionLimit,  \* calls of execute_chunk the interpreter's stack holds
  MaxBatch         \* bound: tool calls in one response

ASSUME LimitsAssumption ==
  /\ MaxIterations \in Nat /\ MaxErrors \in Nat \ {0}
  /\ MaxCalls \in Nat /\ MaxFixAttempts \in Nat
  /\ RecursionLimit \in Nat \ {0} /\ MaxBatch \in Nat

VARIABLES
  pc,
  stack,       \* retries_used of the calls that wait for a fix, innermost first
  retries,     \* retries_used of the running call
  iteration, errors,
  late,        \* the running call's deadline has passed
  batch,       \* tool calls of the response still to dispatch
  calls,       \* _call_count of the registry
  run,         \* history: calls the registry let through
  verified,    \* history: verification passed and nothing was changed since
  result       \* "none", "success", "failure" or "raised"

frame == <<stack, retries>>
loop  == <<iteration, errors, late>>
tools == <<batch, calls, run>>
vars  == <<pc, frame, loop, tools, verified, result, sandbox>>

Init ==
  /\ pc = "loop" /\ stack = <<>> /\ retries = 0
  /\ iteration = 0 /\ errors = 0 /\ late = FALSE
  /\ batch = 0 /\ calls = 0 /\ run = 0
  /\ disk \in SUBSET Paths /\ created = 0 /\ reserved = {} /\ made = {}
  /\ verified = FALSE /\ result = "none"

\* An exception no caller of execute_chunk catches before the orchestrator.
Raise ==
  /\ pc' = "done" /\ result' = "raised"
  /\ UNCHANGED <<frame, loop, tools, verified, sandbox>>

\* The call ends: the outermost one with a result; a fix returns to the
\* verification of the call that asked for it, which ignores its result.
Return(outcome) ==
  /\ IF stack = <<>>
       THEN /\ pc' = "done" /\ result' = outcome
            /\ UNCHANGED frame
       ELSE /\ pc' = "verify" /\ UNCHANGED result
            /\ stack' = Tail(stack) /\ retries' = Head(stack)
  /\ UNCHANGED <<loop, tools, sandbox>>

Goto(place) ==
  /\ pc' = place
  /\ UNCHANGED <<frame, loop, tools, verified, result, sandbox>>
-----------------------------------------------------------------------------
(* The loop *)

Deadline ==
  /\ ~late /\ pc # "done"
  /\ late' = TRUE
  /\ UNCHANGED <<pc, frame, iteration, errors, tools, verified, result, sandbox>>

NextIteration ==
  /\ pc = "loop" /\ iteration < MaxIterations /\ ~late
  /\ iteration' = iteration + 1 /\ pc' = "ask"
  /\ UNCHANGED <<frame, errors, late, tools, verified, result, sandbox>>

\* Out of iterations or of time: the call ends incomplete.
GiveUp ==
  /\ pc = "loop" /\ (iteration = MaxIterations \/ late)
  /\ Return("failure")
  /\ UNCHANGED verified

\* An OSError escapes chat_completion: counted, and the loop goes on.
AskFails ==
  /\ pc = "ask" /\ errors + 1 < MaxErrors
  /\ errors' = errors + 1 /\ pc' = "loop"
  /\ UNCHANGED <<frame, iteration, late, tools, verified, result, sandbox>>

AskFailsForGood ==
  /\ pc = "ask" /\ errors + 1 >= MaxErrors
  /\ Return("failure")
  /\ UNCHANGED verified

\* chat_completion has retried in vain and raises RuntimeError, or the message
\* has neither tool calls nor content.
AskRaises == pc = "ask" /\ Raise

\* No choices, or text without CHUNK_COMPLETE: the model is told to go on.
AskTalk ==
  /\ pc = "ask"
  /\ errors' = 0 /\ pc' = "loop"
  /\ UNCHANGED <<frame, iteration, late, tools, verified, result, sandbox>>

\* A response without a proper message leaves the loop.
AskMalformed == pc = "ask" /\ Return("failure") /\ UNCHANGED verified

AskTools ==
  /\ pc = "ask"
  /\ batch' \in 1..MaxBatch
  /\ errors' = 0 /\ pc' = "tools"
  /\ UNCHANGED <<frame, iteration, late, calls, run, verified, result, sandbox>>

\* CHUNK_COMPLETE: reflect if there is time, then verify.
AskComplete ==
  /\ pc = "ask"
  /\ Goto(IF late THEN "verify" ELSE "reflect")

Reflect ==
  /\ pc = "reflect"
  /\ \/ Goto("verify")                       \* no tool calls, or it failed
     \/ /\ batch' \in 1..MaxBatch
        /\ pc' = "reflect_tools"
        /\ UNCHANGED <<frame, loop, calls, run, verified, result, sandbox>>
-----------------------------------------------------------------------------
(* ToolRegistry.dispatch *)

\* Slip: the limit is compared before the call is counted.
OverLimitLate == calls > MaxCalls

\* _call_count, with this call, is over the limit.
OverLimit == calls + 1 > MaxCalls

\* Both loops over the tool calls go on after an exception.
TakeCall ==
  /\ pc \in {"tools", "reflect_tools"} /\ batch > 0
  /\ batch' = batch - 1

\* The arguments are no JSON: the registry is not asked.
Malformed ==
  /\ TakeCall
  /\ UNCHANGED <<pc, frame, loop, calls, run, verified, result, sandbox>>

Refuse ==
  /\ TakeCall /\ OverLimit
  /\ calls' = calls + 1
  /\ UNCHANGED <<pc, frame, loop, run, verified, result, sandbox>>

Dispatch ==
  /\ TakeCall /\ ~OverLimit
  /\ calls' = calls + 1 /\ run' = run + 1
  /\ UNCHANGED <<pc, frame, loop, result>>

\* An unknown tool, a missing argument, a read: nothing is changed.
DispatchRead == Dispatch /\ UNCHANGED <<verified, sandbox>>

DispatchWrite ==
  /\ Dispatch
  /\ \E p \in Paths : WriteFile(p)
  /\ verified' = FALSE

\* run_command: the command may create and delete files.
DispatchCommand ==
  /\ Dispatch
  /\ disk' \in SUBSET Paths
  /\ verified' = FALSE
  /\ UNCHANGED <<created, reserved, made>>

EndTools ==
  /\ pc \in {"tools", "reflect_tools"} /\ batch = 0
  /\ Goto(IF pc = "tools" THEN "loop" ELSE "verify")
-----------------------------------------------------------------------------
(* The gating verification *)

\* Slip: the last verdict is not looked at.
VerifyNotFinal ==
  /\ pc = "verify"
  /\ verified' \in BOOLEAN
  /\ \/ (verified' \/ retries >= MaxFixAttempts) /\ Return("success")
     \/ ~verified' /\ retries < MaxFixAttempts /\ pc' = "fix"
        /\ UNCHANGED <<frame, loop, tools, result, sandbox>>

\* Slip: one attempt more than _HF_MAX_FIX_ATTEMPTS.
VerifyOneMore ==
  /\ pc = "verify"
  /\ verified' \in BOOLEAN
  /\ \/ verified' /\ Return("success")
     \/ ~verified' /\ retries > MaxFixAttempts /\ Return("failure")
     \/ ~verified' /\ retries <= MaxFixAttempts /\ pc' = "fix"
        /\ UNCHANGED <<frame, loop, tools, result, sandbox>>

Verify ==
  /\ pc = "verify"
  /\ verified' \in BOOLEAN
  /\ \/ verified' /\ Return("success")
     \/ ~verified' /\ retries >= MaxFixAttempts /\ Return("failure")
     \/ ~verified' /\ retries < MaxFixAttempts /\ pc' = "fix"
        /\ UNCHANGED <<frame, loop, tools, result, sandbox>>

\* Slip: retries_used is not counted.
FixUncounted ==
  /\ pc = "fix" /\ Len(stack) + 1 < RecursionLimit
  /\ stack' = <<retries>> \o stack
  /\ retries' = 0
  /\ iteration' = 0 /\ errors' = 0 /\ late' = FALSE
  /\ calls' = 0 /\ run' = 0 /\ NewSandbox
  /\ pc' = "loop"
  /\ UNCHANGED <<batch, verified, result, disk>>

\* fix_chunk: execute_chunk again, with new limits.
Fix ==
  /\ pc = "fix" /\ Len(stack) + 1 < RecursionLimit
  /\ stack' = <<retries + 1>> \o stack
  /\ retries' = 0
  /\ iteration' = 0 /\ errors' = 0 /\ late' = FALSE
  /\ calls' = 0 /\ run' = 0 /\ NewSandbox
  /\ pc' = "loop"
  /\ UNCHANGED <<batch, verified, result, disk>>

TooDeep == pc = "fix" /\ Len(stack) + 1 = RecursionLimit /\ Raise
-----------------------------------------------------------------------------
Step ==
  \/ NextIteration \/ GiveUp \/ AskFails \/ AskFailsForGood \/ AskRaises \/ AskTalk
  \/ AskMalformed \/ AskTools \/ AskComplete \/ Reflect
  \/ Malformed \/ Refuse \/ DispatchRead \/ DispatchWrite \/ DispatchCommand \/ EndTools
  \/ Verify \/ Fix \/ TooDeep

Next == Step \/ Deadline

Spec == Init /\ [][Next]_vars /\ WF_vars(Step)
-----------------------------------------------------------------------------
(* Every variable has its type; no call of execute_chunk asks for more fixes *)
(* than _HF_MAX_FIX_ATTEMPTS, and the calls fit the interpreter's stack.     *)
TypeOK ==
  /\ pc \in {"loop", "ask", "tools", "reflect", "reflect_tools", "verify", "fix", "done"}
  /\ stack \in Seq(0..MaxFixAttempts) /\ Len(stack) < RecursionLimit
  /\ retries \in 0..MaxFixAttempts
  /\ iteration \in 0..MaxIterations /\ errors \in 0..(MaxErrors - 1)
  /\ late \in BOOLEAN /\ verified \in BOOLEAN
  /\ batch \in Nat /\ calls \in Nat /\ run \in Nat
  /\ disk \subseteq Paths /\ reserved \subseteq Paths /\ made \subseteq Paths
  /\ created \in Nat
  /\ result \in {"none", "success", "failure", "raised"}

(* A chunk is reported as a success only if the verification passed and      *)
(* nothing was changed after it, by a reflection, by a fix or by the fix of  *)
(* a fix (huggingface_engine.py:259-290).                                    *)
SuccessIsVerified == result = "success" => verified

(* The registry lets at most max_calls_per_iteration calls of one            *)
(* execute_chunk through, the reflection's included (registry.py:105-114).   *)
CallsWithinLimit == run <= MaxCalls

(* execute_chunk comes to an end whatever the model answers and whatever the *)
(* verification says, if only by the interpreter's recursion limit           *)
(* (huggingface_engine.py:22-25).                                            *)
ChunkEnds == <>(pc = "done")
=============================================================================
