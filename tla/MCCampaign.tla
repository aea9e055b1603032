----------------------------- MODULE MCCampaign -----------------------------
(* Campaign over a spec whose first box names many files, one with a       *)
(* heading of its own, and one that has nothing to build.                  *)
EXTENDS Campaign, TLC

CONSTANTS a, b, c, f1, f2, f3, f4

Places       == (a :> 1) @@ (b :> 2) @@ (c :> 3)
TheLines     == (a :> {1, 2}) @@ (b :> {1, 2}) @@ (c :> {})
TheTasks     == (a :> {1, 2}) @@ (b :> {2}) @@ (c :> {})
\* The title of a's first box was truncated and matches none.
TheTitles    == (a :> (1 :> {} @@ 2 :> {2})) @@ (b :> (1 :> {} @@ 2 :> {2}))
                  @@ (c :> <<>>)
TheHints     == (a :> (1 :> <<f1, f2, f3, f4>> @@ 2 :> <<>>)) @@ (b :> (1 :> <<>> @@ 2 :> <<f1>>))
                  @@ (c :> <<>>)
OwnStems     == (a :> a) @@ (b :> b) @@ (c :> c)
TheBudgets   == ("claude" :> 15) @@ ("huggingface" :> 3) @@ ("default" :> 3)
SomeSizes    == {[f \in Files |-> 1], [f \in Files |-> IF f \in {f1, f4} THEN 3 ELSE 0]}
SomeLedgers  == {[s \in Specs |-> {}], [s \in Specs |-> IF s = a THEN {<<1>>} ELSE {}]}

Plain == [engine |-> "auto", spec |-> NoSpec, continuous |-> FALSE, noResume |-> FALSE,
          reset |-> FALSE, dryRun |-> FALSE, skipAuth |-> FALSE, skipCred |-> FALSE]
SomeOptions ==
  {Plain, [Plain EXCEPT !.spec = a, !.reset = TRUE, !.skipCred = TRUE],
   [Plain EXCEPT !.continuous = TRUE],
   [Plain EXCEPT !.continuous = TRUE, !.noResume = TRUE, !.engine = "huggingface"],
   [Plain EXCEPT !.engine = "claude", !.dryRun = TRUE, !.skipAuth = TRUE]}
SomeHosts ==
  {[tools |-> {"git", "claude", "forge"}, token |-> FALSE, needs |-> {"ssh", "gpg"}],
   [tools |-> {"git"}, token |-> TRUE, needs |-> {}],
   [tools |-> {"git", "forge"}, token |-> TRUE, needs |-> {"gpg"}]}
SomeFound == {{a, b}, {b, c}, {}}
=============================================================================
