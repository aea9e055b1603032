---------------------------- MODULE MCSpecBuild ----------------------------
(* SpecBuild on small outlines.                                            *)
EXTENDS SpecBuild

Claude       == <<"claude">>
HuggingFace  == <<"huggingface">>
ClaudeThenHF == <<"claude", "huggingface">>

\* Every title names its own box; headings name none.
OwnTitles == [i \in Items |-> {i} \cap Tasks]
\* Line 2's title was truncated and matches no box; line 3's is also part of
\* the text of line 2.
OddTitles == [i \in Items |-> CASE i = 2 -> {} [] i = 3 -> {2, 3} \cap Tasks
                                 [] OTHER -> {i} \cap Tasks]
=============================================================================
