------------------------------ MODULE ReviewFlow ------------------------------
(***************************************************************************)
(* What git_orchestrator.py promises those who review its work, whatever   *)
(* chunks, caps, interrupts and failing calls make of a run: branches on   *)
(* origin only gain commits; a PR is opened as a draft, for a branch with  *)
(* something main lacks, and made ready later; and main gains commits only *)
(* by the merge of a PR that was made ready, unless the checkout that was  *)
(* to leave main has failed.                                               *)
(***************************************************************************)

CONSTANTS
  Branches,
  Main      \* a forbidden branch

VARIABLES
  origin,   \* origin[b]: commits of branch b on origin
  state,    \* state[b]: of the PR of branch b
  failed    \* has the run failed to leave main? It may at any time.

Init ==
  /\ origin = [b \in Branches |-> {}]
  /\ state = [b \in Branches |-> "none"]
  /\ failed = FALSE

Gains(b) == origin[b] \subseteq origin'[b] /\ origin' = [origin EXCEPT ![b] = origin'[b]]

Push(b) ==
  /\ b = Main => failed
  /\ Gains(b)
  /\ UNCHANGED state

Draft(b) ==
  /\ b # Main /\ state[b] = "none" /\ ~(origin[b] \subseteq origin[Main])
  /\ state' = [state EXCEPT ![b] = "draft"]
  /\ UNCHANGED origin

\* With a last push, or without if it fails.
Ready(b) ==
  /\ b # Main /\ state[b] = "draft"
  /\ state' = [state EXCEPT ![b] = "ready"]
  /\ Gains(b)

Merge(b) ==
  /\ state[b] = "ready"
  /\ origin' = [origin EXCEPT ![Main] = @ \cup origin[b]]
  /\ state' = [state EXCEPT ![b] = "none"]

Next == \E b \in Branches : Push(b) \/ Draft(b) \/ Ready(b) \/ Merge(b)

Spec == Init /\ [][Next]_<<origin, state>>
=============================================================================
