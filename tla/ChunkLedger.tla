----------------------------- MODULE ChunkLedger -----------------------------
(***************************************************************************)
(* What the chunk-status ledger (orchestrator.py, .codelicious/state/)     *)
(* promises for one spec, whatever engine, git or forge do: an id is       *)
(* recorded as merged only after a commit that names it landed, and an id  *)
(* that is recorded is not committed again unless the operator asked for   *)
(* it (--no-resume).  Records may be lost (the ledger file deleted), and   *)
(* recovered from the process that still holds them in memory.             *)
(***************************************************************************)
EXTENDS Naturals

CONSTANTS
  Ids,    \* chunk ids
  Redo    \* are recorded ids built again (--no-resume)?

VARIABLES
  commits,   \* commits[n]: commits whose subject names id n
  recorded   \* ids the ledger file records as merged

TypeOK ==
  /\ commits \in [Ids -> Nat]
  /\ recorded \subseteq Ids

Init ==
  /\ commits = [n \in Ids |-> 0]
  /\ recorded = {}

Land(n) ==
  /\ Redo \/ n \notin recorded
  /\ commits' = [commits EXCEPT ![n] = @ + 1]
  /\ UNCHANGED recorded

Record ==
  /\ recorded' \in SUBSET {n \in Ids : commits[n] > 0}
  /\ UNCHANGED commits

Next == Record \/ \E n \in Ids : Land(n)

Spec == Init /\ [][Next]_<<commits, recorded>>
=============================================================================
