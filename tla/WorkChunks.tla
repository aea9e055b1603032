----------------------------- MODULE WorkChunks -----------------------------
(***************************************************************************)
(* The chunks of several specs: what chunk_spec makes of a spec's outline  *)
(* (as in SpecBuild), the halves enforce_token_budget cuts them into       *)
(* (chunker.py), and the box a chunk's mark goes to (spec_discovery.py).   *)
(***************************************************************************)
EXTENDS Integers, Sequences, FiniteSets, Functions

CONSTANTS
  Specs,     \* spec files
  Place,     \* Place[s]: the spec's place in the walk of the repository
  Lines,     \* Lines[s]: outline lines of the spec: boxes and headings
  Tasks,     \* Tasks[s]: those that are checkboxes
  TitleIn,   \* TitleIn[s][i]: boxes whose text contains the title of line i
  Hints,     \* Hints[s][i]: the paths its text names, a sequence
  Stem,      \* Stem[s]: the spec whose name s has, its ledger is named after
  Files,
  Template,  \* tokens of a chunk's text and of the prompt around it
  Budgets,   \* _MAX_CHUNK_TOKENS_PER_ENGINE
  MaxDepth   \* _MAX_CHUNK_SPLIT_DEPTH

Letters == 9  \* of the suffixes of halves: "b" to "j"

ASSUME ChunksAssumption ==
  /\ IsFiniteSet(Specs) /\ Stem \in [Specs -> Specs]
  /\ Place \in [Specs -> Nat] /\ \A s, t \in Specs : Place[s] = Place[t] => s = t
  /\ \A s \in Specs :
       /\ Lines[s] \subseteq Nat \ {0} /\ IsFiniteSet(Lines[s])
       /\ Tasks[s] \subseteq Lines[s]
       /\ TitleIn[s] \in [Lines[s] -> SUBSET Tasks[s]]
       /\ Hints[s] \in [Lines[s] -> Seq(Files)]
  /\ Template \in Nat /\ MaxDepth \in 0..Letters
  /\ "default" \in DOMAIN Budgets /\ \A e \in DOMAIN Budgets : Budgets[e] \in Nat
-----------------------------------------------------------------------------
(* chunk_spec *)

\* A section whose boxes are all checked has none left, and is prose.
SectionTasks(s, h) ==
  {t \in Tasks[s] : t > h /\ \A g \in Lines[s] \ Tasks[s] : g <= h \/ g > t}

Planned(s, checked) ==
  (Tasks[s] \ checked)
    \cup {h \in Lines[s] \ Tasks[s] : SectionTasks(s, h) \subseteq checked}

\* A chunk has a slice of the files its line names.  Its id is its position in
\* the plan, then the suffixes of its halves.
Chunk == [line : Nat, id : Seq(Nat) \ {<<>>}, from : Nat \ {0}, to : Nat]
Names(c)      == c.to - c.from + 1
FilesOf(s, c) == SubSeq(Hints[s][c.line], c.from, c.to)

ChunkSpec(s, checked) ==
  LET lines  == Planned(s, checked)
      Nth(n) == CHOOSE i \in lines : Cardinality({j \in lines : j <= i}) = n
  IN  [n \in 1..Cardinality(lines) |->
         [line |-> Nth(n), id |-> <<n>>, from |-> 1, to |-> Len(Hints[s][Nth(n)])]]

\* discover_incomplete_specs: an open box, or no checked one.
Incomplete(s, checked) == Tasks[s] \ checked # {} \/ checked = {}

\* The specs of S in the order of the walk.
Walk(S) ==
  LET Nth(n) == CHOOSE s \in S : Cardinality({t \in S : Place[t] <= Place[s]}) = n
  IN  [n \in 1..Cardinality(S) |-> Nth(n)]
-----------------------------------------------------------------------------
(* enforce_token_budget *)

\* The name an engine gives itself is the key looked up.
EngineName(e) ==
  CASE e = "claude"      -> "Claude Code CLI"
    [] e = "huggingface" -> "HuggingFace Inference"
Budget(e) ==
  LET key == IF EngineName(e) \in DOMAIN Budgets THEN EngineName(e) ELSE "default"
  IN  Budgets[key]

\* size[f]: tokens of the file, 0 if there is none.
Tokens(files, size) ==
  Template + FoldFunction(+, 0, [i \in DOMAIN files |-> size[files[i]]])

\* An entry of the queue: a chunk, its depth, and the letter of its next half.
Entry == [chunk : Chunk, depth : Nat, seed : Nat]

Dispatched(s, q, size, e) ==
  \/ Tokens(FilesOf(s, q.chunk), size) <= Budget(e)
  \/ q.depth >= MaxDepth \/ Names(q.chunk) <= 1

Suffix(seed) == IF seed < Letters THEN seed ELSE Letters - 1
Middle(n) == IF n \div 2 > 1 THEN n \div 2 ELSE 1

Head1(c) == [c EXCEPT !.to = c.from + Middle(Names(c)) - 1]
Tail1(c, seed) == [c EXCEPT !.id = Append(@, Suffix(seed)), !.from = Head1(c).to + 1]

\* Slip: every half is lettered from the start again.
HalvesFromStart(q) ==
  <<[chunk |-> Head1(q.chunk), depth |-> q.depth + 1, seed |-> 0],
    [chunk |-> Tail1(q.chunk, q.seed), depth |-> q.depth + 1, seed |-> 0]>>
\* The head keeps the id; both halves go back to the front of the queue.
Halves(q) ==
  <<[chunk |-> Head1(q.chunk), depth |-> q.depth + 1, seed |-> q.seed + 1],
    [chunk |-> Tail1(q.chunk, q.seed), depth |-> q.depth + 1, seed |-> q.seed + 1]>>

\* What the pieces p of a plan for spec s should be: each goes on where the one
\* before it ended, in its line or at the beginning of a later one.
Follows(s, c, d) ==
  \/ d.line = c.line /\ d.from = c.to + 1
  \/ d.line > c.line /\ d.from = 1 /\ c.to = Len(Hints[s][c.line])
Tiled(s, p) ==
  /\ \A n \in 1..(Len(p) - 1) : Follows(s, p[n], p[n + 1])
  /\ p # <<>> => p[1].from = 1 /\ p[Len(p)].to = Len(Hints[s][p[Len(p)].line])
LinesOf(p) == {p[n].line : n \in 1..Len(p)}
-----------------------------------------------------------------------------
(* mark_chunk_complete *)

FirstOf(S) == {i \in S : \A j \in S : i <= j}

\* Slip: without the fallback to the first open box.
BoxForByTitle(s, i, checked) == FirstOf((Tasks[s] \ checked) \cap TitleIn[s][i])
\* The first open box that contains the title, else the first open one.
BoxFor(s, i, checked) ==
  LET open  == Tasks[s] \ checked
      named == open \cap TitleIn[s][i]
  IN  FirstOf(IF named = {} THEN open ELSE named)
=============================================================================
