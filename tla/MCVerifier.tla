----------------------------- MODULE MCVerifier -----------------------------
(* Verifier with the calls the engines make, and one that asks for all.    *)
EXTENDS Verifier

CONSTANTS f1, f2

Chunk(paths) ==
  [paths |-> paths, extended |-> FALSE, tools |-> {}, languages |-> {},
   threshold |-> FALSE, final |-> FALSE, command |-> "none"]
Quality ==
  [Chunk({}) EXCEPT !.extended = TRUE, !.tools = {"ruff", "pip-audit"},
                    !.languages = {"python"}, !.threshold = TRUE]
Web ==
  [Chunk({}) EXCEPT !.extended = TRUE, !.tools = {"playwright"},
                    !.languages = {"javascript", "web"}, !.final = TRUE, !.command = "runs"]

SomeCalls ==
  {Chunk({}), Chunk({f1}), Quality, Web, [Chunk({}) EXCEPT !.command = "rejected"]}
SomeRepos ==
  {[tests |-> TRUE, e2e |-> TRUE, mapped |-> {f1}, path |-> {"ruff", "bandit", "pytest-cov"}],
   [tests |-> FALSE, e2e |-> FALSE, mapped |-> {}, path |-> {}]}
=============================================================================
