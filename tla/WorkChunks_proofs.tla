-------------------------- MODULE WorkChunks_proofs --------------------------
(***************************************************************************)
(* What the operators of WorkChunks give, for every spec, set of checked   *)
(* boxes and chunk: the order of the walk and of a plan, what the halves   *)
(* of a chunk cover and which ids are left to them, and the box a mark     *)
(* takes.                                                                  *)
(***************************************************************************)
EXTENDS WorkChunks, FiniteSetTheorems, SequenceTheorems, TLAPS

-----------------------------------------------------------------------------
(* Places in an order *)

UpTo(S, K, x)  == {y \in S : K[y] <= K[x]}
Rank(S, K, x)  == Cardinality(UpTo(S, K, x))

(* The number of elements up to x grows with x.                             *)
LEMMA RankGrows ==
  ASSUME NEW S, IsFiniteSet(S), NEW K \in [S -> Int], NEW x \in S, NEW y \in S, K[x] < K[y]
  PROVE  Rank(S, K, x) < Rank(S, K, y)
<1>1. IsFiniteSet(UpTo(S, K, y))
  BY FS_Subset DEF UpTo
<1>2. UpTo(S, K, x) \in SUBSET UpTo(S, K, y) /\ y \in UpTo(S, K, y) /\ y \notin UpTo(S, K, x)
  BY DEF UpTo
<1>3. /\ Rank(S, K, x) <= Rank(S, K, y) /\ Rank(S, K, x) # Rank(S, K, y)
      /\ Rank(S, K, x) \in Nat /\ Rank(S, K, y) \in Nat
  BY <1>1, <1>2, FS_Subset, FS_CardinalityType DEF Rank
<1> QED
  BY <1>3

LEMMA RankType ==
  ASSUME NEW S, IsFiniteSet(S), NEW K \in [S -> Int], NEW x \in S
  PROVE  Rank(S, K, x) \in 1..Cardinality(S)
<1>1. /\ IsFiniteSet(UpTo(S, K, x)) /\ UpTo(S, K, x) # {}
      /\ Cardinality(UpTo(S, K, x)) <= Cardinality(S)
  BY FS_Subset DEF UpTo
<1> QED
  BY <1>1, FS_CardinalityType, FS_EmptySet DEF Rank

(* Each place of an order is somebody's, and nobody else's.                 *)
LEMMA EveryRankOnce ==
  ASSUME NEW S, IsFiniteSet(S), NEW K \in [S -> Int],
         \A x, y \in S : K[x] = K[y] => x = y
  PROVE  /\ \A x, y \in S : Rank(S, K, x) = Rank(S, K, y) => x = y
         /\ \A n \in 1..Cardinality(S) : \E x \in S : Rank(S, K, x) = n
<1> DEFINE R == [x \in S |-> Rank(S, K, x)]
           k == Cardinality(S)
<1>1. ASSUME NEW x \in S, NEW y \in S, Rank(S, K, x) = Rank(S, K, y) PROVE x = y
  <2>1. Rank(S, K, x) \in Int /\ Rank(S, K, y) \in Int
    BY RankType
  <2>2. ~(K[x] < K[y]) /\ ~(K[y] < K[x])
    BY <1>1, <2>1, RankGrows
  <2> QED
    BY <2>2
<1>2. IsFiniteSet(1..k) /\ Cardinality(1..k) = k
  BY FS_CardinalityType, FS_Interval
<1>3. R \in Injection(S, 1..k)
  BY <1>1, RankType DEF Injection, IsInjective
<1>4. R \in Surjection(S, 1..k)
  <2> HIDE DEF R, k
  <2> QED
    BY <1>2, <1>3, FS_Injection DEF k
<1> QED
  BY <1>1, <1>4 DEF Surjection
-----------------------------------------------------------------------------
(* The walk and the plan *)

(* The walk gives each spec once, the order apart.                          *)
LEMMA WalkGivesAll ==
  ASSUME NEW S \in SUBSET Specs
  PROVE  /\ Walk(S) \in Seq(S) /\ Len(Walk(S)) = Cardinality(S)
         /\ Walk(S) = <<>> => S = {}
<1> DEFINE k == Cardinality(S)
           K == [s \in S |-> Place[s]]
           Nth(n) == CHOOSE s \in S : Cardinality({t \in S : Place[t] <= Place[s]}) = n
<1>1. IsFiniteSet(S) /\ k \in Nat /\ (k = 0 => S = {})
  BY ChunksAssumption, FS_Subset, FS_CardinalityType, FS_EmptySet
<1>2. K \in [S -> Int] /\ \A x, y \in S : K[x] = K[y] => x = y
  BY ChunksAssumption
<1>3. \A s \in S : Rank(S, K, s) = Cardinality({t \in S : Place[t] <= Place[s]})
  BY DEF Rank, UpTo
<1>4. ASSUME NEW n \in 1..k PROVE Nth(n) \in S
  <2>1. \E s \in S : Cardinality({t \in S : Place[t] <= Place[s]}) = n
    <3> HIDE DEF K
    <3>1. PICK s \in S : Rank(S, K, s) = n
      BY <1>1, <1>2, EveryRankOnce
    <3> QED
      BY <1>3, <3>1
  <2> QED
    BY <2>1, Zenon
<1>5. Walk(S) = [n \in 1..k |-> Nth(n)]
  BY DEF Walk
<1> HIDE DEF Nth, k
<1>6. Walk(S) \in Seq(S) /\ Len(Walk(S)) = k
  BY <1>1, <1>4, <1>5
<1>7. Walk(S) = <<>> => S = {}
  BY <1>1, <1>6
<1> QED
  BY <1>6, <1>7 DEF k

LEMMA PlannedIsFinite ==
  ASSUME NEW s \in Specs, NEW checked
  PROVE  /\ Planned(s, checked) \subseteq Lines[s] /\ IsFiniteSet(Planned(s, checked))
         /\ Planned(s, checked) \subseteq Nat
         /\ Tasks[s] \ checked \subseteq Planned(s, checked)
         /\ IsFiniteSet(Tasks[s] \ checked)
<1>1. Planned(s, checked) \subseteq Lines[s] /\ Tasks[s] \ checked \subseteq Planned(s, checked)
  BY ChunksAssumption DEF Planned
<1>2. IsFiniteSet(Lines[s]) /\ Lines[s] \subseteq Nat
  BY ChunksAssumption
<1>3. IsFiniteSet(Planned(s, checked))
  BY <1>1, <1>2, FS_Subset
<1> QED
  BY <1>1, <1>2, <1>3, FS_Subset

(* A plan has one chunk for each of its lines, in the order of the          *)
(* document, with the position as its id and all the files it names         *)
(* (chunker.py:100-153).                                                    *)
LEMMA PlanInOrder ==
  ASSUME NEW s \in Specs, NEW checked
  PROVE  LET p == ChunkSpec(s, checked)
             k == Cardinality(Planned(s, checked))
         IN  /\ k \in Nat /\ p \in Seq(Chunk) /\ Len(p) = k
             /\ \A n \in 1..k :
                  /\ p[n].line \in Planned(s, checked) /\ p[n].id = <<n>>
                  /\ p[n].from = 1 /\ p[n].to = Len(Hints[s][p[n].line])
             /\ \A m, n \in 1..k : m < n => p[m].line < p[n].line
             /\ \A i \in Planned(s, checked) : \E n \in 1..k : p[n].line = i
<1> DEFINE lines == Planned(s, checked)
           k == Cardinality(lines)
           p == ChunkSpec(s, checked)
           K == [i \in lines |-> i]
           Nth(n) == CHOOSE i \in lines : Cardinality({j \in lines : j <= i}) = n
<1>1. IsFiniteSet(lines) /\ k \in Nat /\ lines \subseteq Nat /\ lines \subseteq Lines[s]
  BY PlannedIsFinite, FS_CardinalityType
<1>2. K \in [lines -> Int] /\ \A x, y \in lines : K[x] = K[y] => x = y
  BY <1>1
<1>3. \A i \in lines : Rank(lines, K, i) = Cardinality({j \in lines : j <= i})
  BY DEF Rank, UpTo
<1>4. ASSUME NEW n \in 1..k PROVE Nth(n) \in lines /\ Rank(lines, K, Nth(n)) = n
  <2>1. \E i \in lines : Cardinality({j \in lines : j <= i}) = n
    <3> HIDE DEF K, lines
    <3> QED
      BY <1>1, <1>2, <1>3, EveryRankOnce
  <2>2. Nth(n) \in lines /\ Cardinality({j \in lines : j <= Nth(n)}) = n
    BY <2>1, Zenon
  <2> HIDE DEF Nth, K
  <2> QED
    BY <1>3, <2>2
<1>5. p = [n \in 1..k |-> [line |-> Nth(n), id |-> <<n>>, from |-> 1,
                           to |-> Len(Hints[s][Nth(n)])]]
  BY DEF ChunkSpec
<1> HIDE DEF Nth, p
<1>6. ASSUME NEW n \in 1..k
      PROVE  /\ p[n] \in Chunk /\ p[n].line = Nth(n) /\ p[n].line \in lines /\ p[n].id = <<n>>
             /\ p[n].from = 1 /\ p[n].to = Len(Hints[s][p[n].line])
  <2>1. \A i \in Lines[s] : Len(Hints[s][i]) \in Nat
    BY ChunksAssumption
  <2>2. Nth(n) \in lines /\ n \in Nat
    <3> HIDE DEF K, lines, k
    <3> QED
      BY <1>1, <1>4
  <2>3. Len(Hints[s][Nth(n)]) \in Nat /\ Nth(n) \in Nat /\ <<n>> \in Seq(Nat)
    <3> HIDE DEF lines, k
    <3>1. Nth(n) \in Lines[s] /\ Nth(n) \in Nat
      BY <1>1, <2>2
    <3>2. <<n>> \in Seq(Nat)
      BY <2>2
    <3> QED
      BY <2>1, <3>1, <3>2
  <2>4. p[n] = [line |-> Nth(n), id |-> <<n>>, from |-> 1, to |-> Len(Hints[s][Nth(n)])]
    BY <1>5
  <2> QED
    BY <2>2, <2>3, <2>4 DEF Chunk
<1>7. p \in Seq(Chunk) /\ Len(p) = k
  BY <1>1, <1>5, <1>6
<1>8. ASSUME NEW m \in 1..k, NEW n \in 1..k, m < n PROVE p[m].line < p[n].line
  <2>1. Nth(m) \in lines /\ Nth(n) \in lines /\ Rank(lines, K, Nth(m)) < Rank(lines, K, Nth(n))
    BY <1>4, <1>8
  <2>2. ~(K[Nth(n)] < K[Nth(m)])
    <3> HIDE DEF K, lines
    <3>1. K[Nth(n)] < K[Nth(m)] => Rank(lines, K, Nth(n)) < Rank(lines, K, Nth(m))
      BY <1>1, <1>2, <2>1, RankGrows
    <3>2. Rank(lines, K, Nth(n)) = n /\ Rank(lines, K, Nth(m)) = m
      BY <1>4
    <3> QED
      BY <2>1, <3>1, <3>2
  <2>3. Nth(m) # Nth(n)
    <3> HIDE DEF K, lines
    <3> QED
      BY <1>4, <1>8
  <2> QED
    BY <1>1, <1>6, <2>1, <2>2, <2>3
<1>9. ASSUME NEW i \in lines PROVE \E n \in 1..k : p[n].line = i
  <2> DEFINE n == Rank(lines, K, i)
  <2> HIDE DEF K, lines, n
  <2>1. n \in 1..k
    BY <1>1, <1>2, RankType DEF n
  <2>2. Nth(n) = i
    <3>1. Nth(n) \in lines /\ Rank(lines, K, Nth(n)) = Rank(lines, K, i)
      BY <1>4, <2>1 DEF n
    <3> HIDE DEF Nth
    <3>2. \A x, y \in lines : Rank(lines, K, x) = Rank(lines, K, y) => x = y
      BY <1>1, <1>2, EveryRankOnce
    <3> QED
      BY <1>9, <3>1, <3>2
  <2> QED
    BY <1>6, <2>1, <2>2
<1> QED
  BY <1>1, <1>6, <1>7, <1>8, <1>9 DEF p
-----------------------------------------------------------------------------
(* Halves *)

\* The ids an entry of the queue may still give: its own, and those that go on
\* from it with its next letter or a later one.
Owns(q, y) ==
  LET x == q.chunk.id
  IN  \/ y = x
      \/ /\ Len(y) > Len(x) /\ \A i \in 1..Len(x) : y[i] = x[i]
         /\ y[Len(x) + 1] >= q.seed

LEMMA MiddleIsInside ==
  ASSUME NEW n \in Nat, n > 1
  PROVE  Middle(n) \in 1..(n - 1)
BY DEF Middle

(* Cutting a chunk of two or more files gives two adjoining pieces of it,   *)
(* neither empty (chunker.py:381-405).                                      *)
LEMMA HalvesAdjoin ==
  ASSUME NEW q \in Entry, Names(q.chunk) > 1
  PROVE  LET h == Halves(q)
             c == q.chunk
         IN  /\ h \in Seq(Entry) /\ Len(h) = 2
             /\ h[1].chunk.line = c.line /\ h[2].chunk.line = c.line
             /\ h[1].chunk.from = c.from /\ h[2].chunk.to = c.to
             /\ h[2].chunk.from = h[1].chunk.to + 1
             /\ h[1].chunk.to \in c.from..(c.to - 1)
             /\ \A n \in {1, 2} : h[n].depth = q.depth + 1 /\ h[n].seed = q.seed + 1
<1> DEFINE c == q.chunk
           k == Names(c)
           m == Middle(k)
           e1 == [chunk |-> Head1(c), depth |-> q.depth + 1, seed |-> q.seed + 1]
           e2 == [chunk |-> Tail1(c, q.seed), depth |-> q.depth + 1, seed |-> q.seed + 1]
<1>1. c \in Chunk /\ q.depth \in Nat /\ q.seed \in Nat
  BY DEF Entry
<1>2. k \in Nat /\ k > 1 /\ k = c.to - c.from + 1
  BY <1>1 DEF Names, Chunk
<1>3. m \in 1..(k - 1)
  BY <1>2, MiddleIsInside
<1>4. /\ Head1(c) = [c EXCEPT !.to = c.from + m - 1] /\ c.from + m - 1 \in Nat
      /\ c.from + m - 1 \in c.from..(c.to - 1) /\ c.from + m \in Nat \ {0}
  <2>1. Head1(c) = [c EXCEPT !.to = c.from + m - 1]
    BY DEF Head1
  <2>2. c.from \in Nat \ {0} /\ c.to \in Nat
    BY <1>1 DEF Chunk
  <2>3. m \in Nat /\ 1 <= m /\ m <= c.to - c.from
    <3> HIDE DEF m, k, c
    <3> QED
      BY <1>2, <1>3, <2>2
  <2> HIDE DEF m, k, c
  <2> QED
    BY <2>1, <2>2, <2>3
<1>5. Head1(c) \in Chunk /\ Head1(c).to = c.from + m - 1 /\ Head1(c).from = c.from /\ Head1(c).line = c.line
  BY <1>1, <1>4 DEF Chunk
<1>6. Suffix(q.seed) \in Nat
  BY <1>1 DEF Suffix, Letters
<1>7. Tail1(c, q.seed) = [c EXCEPT !.id = Append(c.id, Suffix(q.seed)), !.from = c.from + m]
  <2>1. Head1(c).to + 1 = c.from + m
    <3> HIDE DEF m, k, c
    <3> QED
      BY <1>1, <1>3, <1>5, <1>2 DEF Chunk
  <2> QED
    BY <2>1 DEF Tail1
<1>8. /\ Tail1(c, q.seed) \in Chunk /\ Tail1(c, q.seed).line = c.line
      /\ Tail1(c, q.seed).to = c.to /\ Tail1(c, q.seed).from = c.from + m
  <2>1. Append(c.id, Suffix(q.seed)) \in Seq(Nat) \ {<<>>}
    <3>1. c.id \in Seq(Nat)
      BY <1>1 DEF Chunk
    <3> QED
      BY <1>6, <3>1, AppendProperties
  <2> HIDE DEF m, k, c
  <2> QED
    BY <1>1, <1>4, <1>7, <2>1 DEF Chunk
<1>9. e1 \in Entry /\ e2 \in Entry /\ Halves(q) = <<e1, e2>>
  BY <1>1, <1>5, <1>8 DEF Entry, Halves
<1>10. <<e1, e2>> \in Seq(Entry) /\ Len(<<e1, e2>>) = 2 /\ <<e1, e2>>[1] = e1 /\ <<e1, e2>>[2] = e2
  BY <1>9
<1>11. /\ Halves(q)[1].chunk = Head1(c) /\ Halves(q)[2].chunk = Tail1(c, q.seed)
       /\ \A n \in {1, 2} : Halves(q)[n].depth = q.depth + 1 /\ Halves(q)[n].seed = q.seed + 1
  BY <1>9, <1>10
<1>12. Halves(q) \in Seq(Entry) /\ Len(Halves(q)) = 2
  BY <1>9, <1>10
<1> HIDE DEF m, k, c, e1, e2
<1>13. c.from + m = (c.from + m - 1) + 1
  BY <1>1, <1>3, <1>2 DEF Chunk
<1> QED
  BY <1>4, <1>5, <1>8, <1>11, <1>12, <1>13 DEF c

(* The halves share out the ids their chunk had left, as long as there are  *)
(* letters: no id can ever be given twice (chunker.py:446-452).             *)
LEMMA HalvesShareIds ==
  ASSUME NEW q \in Entry, q.seed < Letters, NEW y \in Seq(Nat)
  PROVE  LET h == Halves(q)
         IN  /\ Owns(h[1], y) \/ Owns(h[2], y) => Owns(q, y)
             /\ ~(Owns(h[1], y) /\ Owns(h[2], y))
             /\ Owns(q, q.chunk.id)
<1> DEFINE c == q.chunk
           x == c.id
           t == Append(x, q.seed)
           h == Halves(q)
<1>1. x \in Seq(Nat) /\ q.seed \in Nat /\ c \in Chunk
  BY DEF Entry, Chunk
<1>2. /\ h[1].chunk.id = x /\ h[1].seed = q.seed + 1
      /\ h[2].chunk.id = t /\ h[2].seed = q.seed + 1
  BY <1>1 DEF Halves, Head1, Tail1, Suffix, Chunk
<1> DEFINE k == Len(x)
<1>3. /\ t \in Seq(Nat) /\ Len(t) = k + 1 /\ t[k + 1] = q.seed /\ k \in Nat /\ Len(y) \in Nat
      /\ \A i \in 1..k : t[i] = x[i]
  BY <1>1
<1> HIDE DEF t, x, h, k
<1>4. Owns(h[1], y) <=> \/ y = x
                        \/ /\ Len(y) > k /\ \A i \in 1..k : y[i] = x[i]
                           /\ y[k + 1] >= q.seed + 1
  BY <1>2 DEF Owns, k
<1>5. Owns(h[2], y) <=> \/ y = t
                        \/ /\ Len(y) > k + 1 /\ \A i \in 1..(k + 1) : y[i] = t[i]
                           /\ y[k + 2] >= q.seed + 1
  BY <1>2, <1>3 DEF Owns
<1>6. Owns(q, y) <=> \/ y = x
                     \/ /\ Len(y) > k /\ \A i \in 1..k : y[i] = x[i]
                        /\ y[k + 1] >= q.seed
  BY DEF Owns, k, x
<1>7. \A i \in 1..Len(y) : y[i] \in Nat
  OBVIOUS
<1>8. Owns(h[2], y) => /\ Len(y) > k /\ y[k + 1] = q.seed
                       /\ \A i \in 1..k : y[i] = x[i]
  BY <1>3, <1>5
<1>9. Owns(h[1], y) \/ Owns(h[2], y) => Owns(q, y)
  BY <1>1, <1>3, <1>4, <1>6, <1>7, <1>8
<1>10. ~(Owns(h[1], y) /\ Owns(h[2], y))
  BY <1>1, <1>3, <1>4, <1>7, <1>8, Len(x) = k DEF k
<1>11. Owns(q, x)
  BY DEF Owns, x
<1> QED
  BY <1>9, <1>10, <1>11 DEF h, x
-----------------------------------------------------------------------------
(* The queue of enforce_token_budget *)

LEMMA HeadAndTail ==
  ASSUME NEW qu \in Seq(Entry), qu # <<>>
  PROVE  /\ Head(qu) = qu[1] /\ Head(qu) \in Entry /\ Len(qu) \in Nat \ {0}
         /\ Tail(qu) \in Seq(Entry) /\ Len(Tail(qu)) = Len(qu) - 1
         /\ \A n \in 1..(Len(qu) - 1) : Tail(qu)[n] = qu[n + 1]
OBVIOUS

LEMMA TwoForOne ==
  ASSUME NEW qu \in Seq(Entry), qu # <<>>, NEW h \in Seq(Entry), Len(h) = 2
  PROVE  LET r == h \o Tail(qu)
         IN  /\ r \in Seq(Entry) /\ Len(r) = Len(qu) + 1
             /\ r[1] = h[1] /\ r[2] = h[2]
             /\ \A n \in 3..Len(r) : r[n] = qu[n - 1]
<1> DEFINE t == Tail(qu)
           r == h \o t
<1>1. t \in Seq(Entry) /\ Len(t) = Len(qu) - 1 /\ \A n \in 1..Len(t) : t[n] = qu[n + 1]
  BY HeadAndTail
<1> HIDE DEF t
<1>2. r \in Seq(Entry) /\ Len(r) = 2 + Len(t)
  <2>1. Len(h \o t) = Len(h) + Len(t)
    BY <1>1, ConcatProperties
  <2>2. h \o t \in Seq(Entry)
    BY <1>1, ConcatProperties, Zenon
  <2> QED
    BY <2>1, <2>2
<1>3. \A n \in 1..Len(r) : r[n] = IF n <= 2 THEN h[n] ELSE t[n - 2]
  BY <1>1, <1>2, ConcatProperties
<1> HIDE DEF r
<1>4. Len(r) = Len(qu) + 1 /\ Len(qu) \in Nat
  BY <1>1, <1>2
<1>5. ASSUME NEW n \in 3..Len(r) PROVE r[n] = qu[n - 1]
  <2>1. n - 2 \in 1..Len(t) /\ n \in 1..Len(r) /\ ~(n <= 2) /\ (n - 2) + 1 = n - 1
    BY <1>1, <1>2, <1>4
  <2> QED
    BY <1>1, <1>3, <2>1
<1>6. r[1] = h[1] /\ r[2] = h[2]
  <2>1. 1 \in 1..Len(r) /\ 2 \in 1..Len(r)
    BY <1>1, <1>2
  <2> QED
    BY <1>3, <2>1
<1> QED
  BY <1>2, <1>4, <1>5, <1>6 DEF r, t

\* No id of the result can be given again, and no two entries can give the same.
Apart(ch, qu) ==
  /\ \A m, n \in 1..Len(ch) : ch[m].id = ch[n].id => m = n
  /\ \A m \in 1..Len(ch), n \in 1..Len(qu) : ~Owns(qu[n], ch[m].id)
  /\ \A m, n \in 1..Len(qu) : \A y \in Seq(Nat) :
       Owns(qu[m], y) /\ Owns(qu[n], y) => m = n

(* A chunk of the queue that is kept takes its own id with it.              *)
LEMMA KeepApart ==
  ASSUME NEW ch \in Seq(Chunk), NEW qu \in Seq(Entry), qu # <<>>, Apart(ch, qu)
  PROVE  Apart(Append(ch, Head(qu).chunk), Tail(qu))
<1> DEFINE c  == Head(qu).chunk
           ch2 == Append(ch, c)
           qu2 == Tail(qu)
           k  == Len(ch)
<1>1. /\ Head(qu) = qu[1] /\ c \in Chunk /\ c.id \in Seq(Nat) /\ Len(qu) \in Nat \ {0}
      /\ qu2 \in Seq(Entry) /\ Len(qu2) = Len(qu) - 1
      /\ \A n \in 1..Len(qu2) : qu2[n] = qu[n + 1] /\ n + 1 \in 1..Len(qu) /\ n + 1 # 1
      /\ 1 \in 1..Len(qu)
  <2>1. /\ Head(qu) = qu[1] /\ Head(qu) \in Entry /\ Len(qu) \in Nat \ {0}
        /\ qu2 \in Seq(Entry) /\ Len(qu2) = Len(qu) - 1
        /\ \A n \in 1..(Len(qu) - 1) : qu2[n] = qu[n + 1]
    BY HeadAndTail
  <2>2. c \in Chunk
    BY <2>1 DEF Entry
  <2>3. c.id \in Seq(Nat)
    BY <2>2 DEF Chunk
  <2> HIDE DEF c, qu2
  <2> QED
    BY <2>1, <2>2, <2>3
<1>2. /\ k \in Nat /\ Len(ch2) = k + 1 /\ ch2[k + 1] = c
      /\ \A n \in 1..k : ch2[n] = ch[n] /\ ch[n].id \in Seq(Nat)
      /\ \A n \in 1..(k + 1) : n \in 1..k \/ n = k + 1
  <2>1. \A n \in 1..k : ch[n] \in Chunk
    OBVIOUS
  <2>2. \A n \in 1..k : ch[n].id \in Seq(Nat)
    BY <2>1 DEF Chunk
  <2> HIDE DEF c
  <2>3. k \in Nat /\ Len(ch2) = k + 1 /\ ch2[k + 1] = c /\ \A n \in 1..k : ch2[n] = ch[n]
    BY <1>1, AppendProperties
  <2> QED
    BY <2>2, <2>3
<1>3. Owns(qu[1], c.id)
  BY <1>1 DEF Owns
<1> HIDE DEF c, ch2, qu2, k
<1>4. ASSUME NEW m \in 1..k PROVE ch[m].id # c.id
  BY <1>1, <1>3, <1>4 DEF Apart, k
<1>5. \A m, n \in 1..(k + 1) : ch2[m].id = ch2[n].id => m = n
  <2> SUFFICES ASSUME NEW m \in 1..(k + 1), NEW n \in 1..(k + 1), ch2[m].id = ch2[n].id
               PROVE  m = n
    OBVIOUS
  <2>1. CASE m \in 1..k /\ n \in 1..k
    BY <1>2, <2>1 DEF Apart, k
  <2>2. CASE m = k + 1 \/ n = k + 1
    BY <1>2, <1>4, <2>2
  <2> QED
    BY <1>2, <2>1, <2>2
<1>6. ASSUME NEW m \in 1..(k + 1), NEW n \in 1..Len(qu2) PROVE ~Owns(qu2[n], ch2[m].id)
  <2>1. CASE m \in 1..k
    BY <1>1, <1>2, <2>1 DEF Apart, k
  <2>2. CASE m = k + 1
    BY <1>1, <1>2, <1>3, <2>2 DEF Apart
  <2> QED
    BY <1>2, <2>1, <2>2
<1>7. ASSUME NEW m \in 1..Len(qu2), NEW n \in 1..Len(qu2), NEW y \in Seq(Nat),
             Owns(qu2[m], y), Owns(qu2[n], y)
      PROVE  m = n
  <2>1. m + 1 = n + 1
    BY <1>1, <1>7 DEF Apart
  <2> QED
    BY <1>1, <2>1
<1> QED
  BY <1>2, <1>5, <1>6, <1>7 DEF Apart, c, ch2, qu2

(* The halves of a chunk are apart from each other and from all the rest.   *)
LEMMA CutApart ==
  ASSUME NEW ch \in Seq(Chunk), NEW qu \in Seq(Entry), qu # <<>>, Apart(ch, qu),
         Names(Head(qu).chunk) > 1, Head(qu).seed < Letters
  PROVE  Apart(ch, Halves(Head(qu)) \o Tail(qu))
<1> DEFINE h == Halves(Head(qu))
           r == h \o Tail(qu)
           Old(n) == IF n <= 2 THEN 1 ELSE n - 1
<1>1. /\ Head(qu) = qu[1] /\ Head(qu) \in Entry /\ Len(qu) \in Nat \ {0}
      /\ h \in Seq(Entry) /\ Len(h) = 2
  BY HeadAndTail, HalvesAdjoin
<1>2. /\ Len(r) = Len(qu) + 1 /\ r[1] = h[1] /\ r[2] = h[2]
      /\ \A n \in 3..Len(r) : r[n] = qu[n - 1]
  <2> HIDE DEF h
  <2> QED
    BY <1>1, TwoForOne
<1>3. \A y \in Seq(Nat) : /\ Owns(h[1], y) \/ Owns(h[2], y) => Owns(qu[1], y)
                          /\ ~(Owns(h[1], y) /\ Owns(h[2], y))
  BY <1>1, HalvesShareIds
<1> HIDE DEF h, r
<1>4. ASSUME NEW n \in 1..Len(r), NEW y \in Seq(Nat), Owns(r[n], y)
      PROVE  Old(n) \in 1..Len(qu) /\ Owns(qu[Old(n)], y)
  <2>1. CASE n <= 2
    <3>1. r[n] \in {h[1], h[2]} /\ 1 \in 1..Len(qu)
      BY <1>1, <1>2, <2>1
    <3> QED
      BY <1>3, <1>4, <2>1, <3>1
  <2>2. CASE ~(n <= 2)
    <3>1. n \in 3..Len(r) /\ n - 1 \in 1..Len(qu)
      BY <1>1, <1>2, <2>2
    <3> QED
      BY <1>2, <1>4, <2>2, <3>1
  <2> QED
    BY <2>1, <2>2
<1>5. ASSUME NEW m \in 1..Len(ch), NEW n \in 1..Len(r) PROVE ~Owns(r[n], ch[m].id)
  <2>1. ch[m] \in Chunk
    OBVIOUS
  <2>2. ch[m].id \in Seq(Nat)
    BY <2>1 DEF Chunk
  <2> QED
    BY <1>4, <2>2 DEF Apart
<1>6. ASSUME NEW m \in 1..Len(r), NEW n \in 1..Len(r), NEW y \in Seq(Nat),
             Owns(r[m], y), Owns(r[n], y)
      PROVE  m = n
  <2>1. Old(m) = Old(n)
    BY <1>4, <1>6 DEF Apart
  <2>2. m = n \/ (m = 1 /\ n = 2) \/ (m = 2 /\ n = 1)
    BY <1>1, <1>2, <2>1
  <2> QED
    BY <1>2, <1>3, <1>6, <2>2
<1> QED
  BY <1>5, <1>6 DEF Apart, h, r
-----------------------------------------------------------------------------
(* The pieces: the result so far, then the queue *)

Pieces(ch, qu) ==
  [n \in 1..(Len(ch) + Len(qu)) |-> IF n <= Len(ch) THEN ch[n] ELSE qu[n - Len(ch)].chunk]

LEMMA PiecesType ==
  ASSUME NEW ch \in Seq(Chunk), NEW qu \in Seq(Entry)
  PROVE  /\ Pieces(ch, qu) \in Seq(Chunk) /\ Len(Pieces(ch, qu)) = Len(ch) + Len(qu)
         /\ Len(ch) \in Nat /\ Len(qu) \in Nat
<1> DEFINE k == Len(ch) + Len(qu)
<1>1. k \in Nat /\ Len(ch) \in Nat /\ Len(qu) \in Nat
  OBVIOUS
<1>2. ASSUME NEW n \in 1..k PROVE Pieces(ch, qu)[n] \in Chunk
  <2>1. CASE n <= Len(ch)
    <3>1. n \in 1..Len(ch) /\ Pieces(ch, qu)[n] = ch[n]
      BY <1>1, <2>1 DEF Pieces
    <3> QED
      BY <3>1
  <2>2. CASE ~(n <= Len(ch))
    <3>1. n - Len(ch) \in 1..Len(qu) /\ Pieces(ch, qu)[n] = qu[n - Len(ch)].chunk
      BY <1>1, <2>2 DEF Pieces
    <3>2. qu[n - Len(ch)] \in Entry
      BY <3>1
    <3> QED
      BY <3>1, <3>2 DEF Entry
  <2> QED
    BY <2>1, <2>2
<1>3. Pieces(ch, qu) = [n \in 1..k |-> Pieces(ch, qu)[n]]
  BY DEF Pieces
<1> HIDE DEF k
<1> QED
  BY <1>1, <1>2, <1>3 DEF k

LEMMA NothingQueued == \A ch \in Seq(Chunk) : Pieces(ch, <<>>) = ch
<1> SUFFICES ASSUME NEW ch \in Seq(Chunk) PROVE Pieces(ch, <<>>) = ch
  OBVIOUS
<1>1. Len(ch) + Len(<<>>) = Len(ch) /\ ch = [n \in 1..Len(ch) |-> ch[n]] /\ Len(ch) \in Nat
  OBVIOUS
<1>2. \A n \in 1..Len(ch) : n <= Len(ch)
  OBVIOUS
<1> QED
  BY <1>1, <1>2 DEF Pieces

(* Keeping a chunk of the queue changes none of the pieces.                 *)
LEMMA KeepPieces ==
  ASSUME NEW ch \in Seq(Chunk), NEW qu \in Seq(Entry), qu # <<>>
  PROVE  /\ Pieces(Append(ch, Head(qu).chunk), Tail(qu)) = Pieces(ch, qu)
         /\ Append(ch, Head(qu).chunk) \in Seq(Chunk) /\ Tail(qu) \in Seq(Entry)
<1> DEFINE c   == Head(qu).chunk
           ch2 == Append(ch, c)
           qu2 == Tail(qu)
           k   == Len(ch)
<1>1. /\ Head(qu) = qu[1] /\ Head(qu) \in Entry /\ Len(qu) \in Nat \ {0}
      /\ qu2 \in Seq(Entry) /\ Len(qu2) = Len(qu) - 1
      /\ \A n \in 1..(Len(qu) - 1) : qu2[n] = qu[n + 1]
  BY HeadAndTail
<1>2. c \in Chunk /\ c = qu[1].chunk
  BY <1>1 DEF Entry
<1> HIDE DEF c, qu2
<1>3. /\ k \in Nat /\ Len(ch2) = k + 1 /\ ch2[k + 1] = c /\ ch2 \in Seq(Chunk)
      /\ \A n \in 1..k : ch2[n] = ch[n]
  BY <1>2, AppendProperties
<1> HIDE DEF ch2, k
<1>4. ASSUME NEW n \in 1..(k + Len(qu))
      PROVE  (IF n <= k + 1 THEN ch2[n] ELSE qu2[n - (k + 1)].chunk)
               = (IF n <= k THEN ch[n] ELSE qu[n - k].chunk)
  <2>1. CASE n <= k
    BY <1>3, <2>1
  <2>2. CASE n = k + 1
    BY <1>2, <1>3, <2>2
  <2>3. CASE n > k + 1
    <3>1. n - (k + 1) \in 1..(Len(qu) - 1) /\ (n - (k + 1)) + 1 = n - k
      BY <1>1, <1>3, <2>3
    <3> QED
      BY <1>1, <1>3, <2>3, <3>1
  <2> QED
    BY <1>3, <2>1, <2>2, <2>3
<1>5. (k + 1) + (Len(qu) - 1) = k + Len(qu)
  BY <1>1, <1>3
<1>6. Pieces(ch2, qu2) = Pieces(ch, qu)
  BY <1>1, <1>3, <1>4, <1>5 DEF Pieces, k
<1> QED
  BY <1>1, <1>3, <1>6 DEF c, ch2, qu2

(* Cutting one of the pieces in two leaves them tiled, on the same lines.   *)
LEMMA CutTiles ==
  ASSUME NEW s, NEW p \in Seq(Chunk), NEW r \in Seq(Chunk), NEW k \in 1..Len(p),
         Tiled(s, p), Len(r) = Len(p) + 1,
         \A n \in 1..(k - 1) : r[n] = p[n],
         \A n \in (k + 2)..Len(r) : r[n] = p[n - 1],
         r[k].line = p[k].line, r[k + 1].line = p[k].line,
         r[k].from = p[k].from, r[k + 1].to = p[k].to, r[k + 1].from = r[k].to + 1
  PROVE  Tiled(s, r) /\ LinesOf(r) = LinesOf(p)
<1> DEFINE N == Len(p)
<1>1. N \in Nat /\ k \in 1..N /\ p # <<>> /\ r # <<>>
  OBVIOUS
<1> HIDE DEF N
<1>2. ASSUME NEW n \in 1..N PROVE Follows(s, r[n], r[n + 1])
  <2>1. CASE n < k - 1
    <3>1. n \in 1..(k - 1) /\ n + 1 \in 1..(k - 1) /\ n \in 1..(N - 1)
      BY <1>1, <2>1
    <3>2. Follows(s, p[n], p[n + 1])
      BY <3>1 DEF Tiled, N
    <3> QED
      BY <3>1, <3>2
  <2>2. CASE n = k - 1
    <3>1. n \in 1..(k - 1) /\ n \in 1..(N - 1) /\ n + 1 = k
      BY <1>1, <2>2
    <3>2. Follows(s, p[n], p[k])
      BY <3>1 DEF Tiled, N
    <3>3. r[n] = p[n] /\ r[n + 1] = r[k]
      BY <3>1
    <3> QED
      BY <3>2, <3>3 DEF Follows
  <2>3. CASE n = k
    BY <2>3 DEF Follows
  <2>4. CASE n = k + 1
    <3>1. n - 1 \in 1..(N - 1) /\ n - 1 = k /\ n + 1 \in (k + 2)..(N + 1) /\ (n + 1) - 1 = k + 1
      BY <1>1, <2>4
    <3>2. Follows(s, p[k], p[k + 1])
      BY <3>1 DEF Tiled, N
    <3>3. r[n] = r[k + 1] /\ r[n + 1] = p[k + 1]
      BY <2>4, <3>1 DEF N
    <3> QED
      BY <3>2, <3>3 DEF Follows
  <2>5. CASE n > k + 1
    <3>1. /\ n - 1 \in 1..(N - 1) /\ n \in (k + 2)..(N + 1) /\ n + 1 \in (k + 2)..(N + 1)
          /\ (n + 1) - 1 = (n - 1) + 1
      BY <1>1, <2>5
    <3>2. Follows(s, p[n - 1], p[(n - 1) + 1])
      BY <3>1 DEF Tiled, N
    <3>3. r[n] = p[n - 1] /\ r[n + 1] = p[(n - 1) + 1]
      BY <3>1 DEF N
    <3> QED
      BY <3>2, <3>3
  <2> QED
    BY <1>1, <2>1, <2>2, <2>3, <2>4, <2>5
<1>3. r[1].from = 1
  <2>1. CASE k = 1
    BY <1>1, <2>1 DEF Tiled
  <2>2. CASE k > 1
    BY <1>1, <2>2 DEF Tiled
  <2> QED
    BY <1>1, <2>1, <2>2
<1>4. r[N + 1].to = Len(Hints[s][r[N + 1].line])
  <2>1. p[N].to = Len(Hints[s][p[N].line])
    BY <1>1 DEF Tiled, N
  <2>2. CASE k = N
    BY <2>1, <2>2
  <2>3. CASE k < N
    <3>1. N + 1 \in (k + 2)..(N + 1) /\ (N + 1) - 1 = N
      BY <1>1, <2>3
    <3>2. r[N + 1] = p[N]
      BY <3>1 DEF N
    <3> QED
      BY <2>1, <3>2
  <2> QED
    BY <1>1, <2>2, <2>3
<1>5. Tiled(s, r)
  <2>1. Len(r) = N + 1 /\ Len(r) - 1 = N
    BY <1>1 DEF N
  <2> QED
    BY <1>2, <1>3, <1>4, <2>1 DEF Tiled
<1>6. ASSUME NEW n \in 1..N PROVE \E m \in 1..(N + 1) : r[m].line = p[n].line
  <2>1. CASE n <= k
    BY <1>1, <2>1
  <2>2. CASE n > k
    <3>1. n + 1 \in (k + 2)..(N + 1) /\ (n + 1) - 1 = n
      BY <1>1, <2>2
    <3>2. r[n + 1] = p[n] /\ n + 1 \in 1..(N + 1)
      BY <1>1, <3>1 DEF N
    <3> QED
      BY <3>2
  <2> QED
    BY <1>1, <2>1, <2>2
<1>7. ASSUME NEW n \in 1..(N + 1) PROVE \E m \in 1..N : p[m].line = r[n].line
  <2>1. CASE n <= k - 1
    BY <1>1, <2>1
  <2>2. CASE n = k \/ n = k + 1
    BY <1>1, <2>2
  <2>3. CASE n >= k + 2
    <3>1. n \in (k + 2)..(N + 1) /\ n - 1 \in 1..N
      BY <1>1, <2>3
    <3>2. r[n] = p[n - 1]
      BY <3>1 DEF N
    <3> QED
      BY <3>1, <3>2
  <2> QED
    BY <1>1, <2>1, <2>2, <2>3
<1>8. LinesOf(r) = {r[n].line : n \in 1..(N + 1)} /\ LinesOf(p) = {p[n].line : n \in 1..N}
  BY DEF LinesOf, N
<1>9. LinesOf(r) \subseteq LinesOf(p)
  BY <1>7, <1>8
<1>10. LinesOf(p) \subseteq LinesOf(r)
  BY <1>6, <1>8
<1> QED
  BY <1>5, <1>9, <1>10

(* Cutting the head of the queue: one piece more, tiled as before.          *)
LEMMA CutPieces ==
  ASSUME NEW s, NEW ch \in Seq(Chunk), NEW qu \in Seq(Entry), qu # <<>>,
         Names(Head(qu).chunk) > 1, Tiled(s, Pieces(ch, qu))
  PROVE  LET cut == Halves(Head(qu)) \o Tail(qu)
         IN  /\ cut \in Seq(Entry) /\ Len(cut) = Len(qu) + 1
             /\ Tiled(s, Pieces(ch, cut))
             /\ LinesOf(Pieces(ch, cut)) = LinesOf(Pieces(ch, qu))
<1> DEFINE h   == Halves(Head(qu))
           cut == h \o Tail(qu)
           p   == Pieces(ch, qu)
           r   == Pieces(ch, cut)
           k   == Len(ch) + 1
<1>1. /\ Head(qu) = qu[1] /\ Head(qu) \in Entry /\ Len(qu) \in Nat \ {0}
      /\ h \in Seq(Entry) /\ Len(h) = 2
      /\ h[1].chunk.line = qu[1].chunk.line /\ h[2].chunk.line = qu[1].chunk.line
      /\ h[1].chunk.from = qu[1].chunk.from /\ h[2].chunk.to = qu[1].chunk.to
      /\ h[2].chunk.from = h[1].chunk.to + 1
  BY HeadAndTail, HalvesAdjoin
<1>2. /\ cut \in Seq(Entry) /\ Len(cut) = Len(qu) + 1
      /\ cut[1] = h[1] /\ cut[2] = h[2] /\ \A n \in 3..Len(cut) : cut[n] = qu[n - 1]
  <2> HIDE DEF h
  <2> QED
    BY <1>1, TwoForOne
<1> HIDE DEF h, cut
<1>3. /\ p \in Seq(Chunk) /\ r \in Seq(Chunk) /\ Len(r) = Len(p) + 1 /\ Len(ch) \in Nat
      /\ Len(p) = Len(ch) + Len(qu) /\ k \in 1..Len(p) /\ Len(r) = Len(ch) + Len(cut)
  <2>1. p \in Seq(Chunk) /\ Len(p) = Len(ch) + Len(qu) /\ Len(ch) \in Nat
    BY PiecesType
  <2>2. r \in Seq(Chunk) /\ Len(r) = Len(ch) + Len(cut)
    BY <1>2, PiecesType
  <2> HIDE DEF p, r
  <2> QED
    BY <1>1, <1>2, <2>1, <2>2
<1>4. \A n \in 1..(k - 1) : r[n] = p[n]
  BY <1>1, <1>2, <1>3 DEF Pieces
<1>5. p[k] = qu[1].chunk /\ r[k] = h[1].chunk /\ r[k + 1] = h[2].chunk
  BY <1>1, <1>2, <1>3 DEF Pieces
<1>6. ASSUME NEW n \in (k + 2)..Len(r) PROVE r[n] = p[n - 1]
  <2>1. /\ n \in 1..(Len(ch) + Len(cut)) /\ ~(n <= Len(ch)) /\ n - Len(ch) \in 3..Len(cut)
        /\ n - 1 \in 1..(Len(ch) + Len(qu)) /\ ~(n - 1 <= Len(ch))
        /\ (n - Len(ch)) - 1 = (n - 1) - Len(ch)
    BY <1>2, <1>3
  <2>2. r[n] = cut[n - Len(ch)].chunk /\ p[n - 1] = qu[(n - 1) - Len(ch)].chunk
    BY <2>1 DEF Pieces
  <2> QED
    BY <1>2, <2>1, <2>2
<1> HIDE DEF p, r, k
<1>7. /\ r[k].line = p[k].line /\ r[k + 1].line = p[k].line
      /\ r[k].from = p[k].from /\ r[k + 1].to = p[k].to /\ r[k + 1].from = r[k].to + 1
  BY <1>1, <1>5
<1>8. Tiled(s, p)
  BY DEF p
<1>9. Tiled(s, r) /\ LinesOf(r) = LinesOf(p)
  BY <1>3, <1>4, <1>6, <1>7, <1>8, CutTiles
<1> QED
  BY <1>2, <1>9 DEF h, cut, p, r
(* The queue begins with the plan of the spec: one piece for each line, all *)
(* the files it names in it, and an id of its own.                          *)
QueueOf(plan) == [n \in DOMAIN plan |-> [chunk |-> plan[n], depth |-> 0, seed |-> 0]]

LEMMA QueueOfPlan ==
  ASSUME NEW s \in Specs, NEW checked
  PROVE  LET plan == ChunkSpec(s, checked)
             qu   == QueueOf(plan)
         IN  /\ qu \in Seq(Entry) /\ Len(qu) = Cardinality(Planned(s, checked))
             /\ \A n \in 1..Len(qu) : qu[n].seed = qu[n].depth
             /\ Apart(<<>>, qu)
             /\ Tiled(s, Pieces(<<>>, qu)) /\ LinesOf(Pieces(<<>>, qu)) = Planned(s, checked)
<1> DEFINE plan == ChunkSpec(s, checked)
           qu   == QueueOf(plan)
           k    == Cardinality(Planned(s, checked))
<1>1. /\ k \in Nat /\ plan \in Seq(Chunk) /\ Len(plan) = k
      /\ \A n \in 1..k : /\ plan[n].line \in Planned(s, checked) /\ plan[n].id = <<n>>
                         /\ plan[n].from = 1 /\ plan[n].to = Len(Hints[s][plan[n].line])
      /\ \A m, n \in 1..k : m < n => plan[m].line < plan[n].line
      /\ \A i \in Planned(s, checked) : \E n \in 1..k : plan[n].line = i
  BY PlanInOrder
<1> HIDE DEF plan, k
<1>2. DOMAIN plan = 1..k /\ \A n \in 1..k : plan[n] \in Chunk
  BY <1>1
<1>3. \A n \in 1..k : [chunk |-> plan[n], depth |-> 0, seed |-> 0] \in Entry
  BY <1>2 DEF Entry
<1>4. qu \in Seq(Entry) /\ Len(qu) = k
  BY <1>1, <1>2, <1>3 DEF QueueOf
<1>5. \A n \in 1..k : qu[n].chunk = plan[n] /\ qu[n].seed = 0 /\ qu[n].depth = 0
  BY <1>2 DEF QueueOf
<1> HIDE DEF qu
<1>6. ASSUME NEW m \in 1..k, NEW y \in Seq(Nat), Owns(qu[m], y) PROVE y[1] = m
  <2>1. qu[m].chunk.id = <<m>>
    BY <1>1, <1>5
  <2> QED
    BY <1>6, <2>1 DEF Owns
<1>7. Apart(<<>>, qu)
  <2>1. \A m, n \in 1..Len(qu) : \A y \in Seq(Nat) : Owns(qu[m], y) /\ Owns(qu[n], y) => m = n
    BY <1>4, <1>6
  <2>2. Len(<<>>) = 0 /\ 1..0 = {}
    OBVIOUS
  <2> QED
    BY <2>1, <2>2 DEF Apart
<1>8. Pieces(<<>>, qu) = plan
  <2>1. Pieces(<<>>, qu) = [n \in 1..k |-> plan[n]]
    <3>1. Len(<<>>) + Len(qu) = k
      BY <1>1, <1>4
    <3>2. \A n \in 1..k : ~(n <= Len(<<>>)) /\ n - Len(<<>>) = n
      BY <1>1
    <3> QED
      BY <1>5, <3>1, <3>2 DEF Pieces
  <2>2. plan = [n \in 1..k |-> plan[n]]
    BY <1>1
  <2> QED
    BY <2>1, <2>2
<1>9. Tiled(s, plan)
  <2>1. ASSUME NEW n \in 1..(k - 1) PROVE Follows(s, plan[n], plan[n + 1])
    <3>1. n \in 1..k /\ n + 1 \in 1..k /\ n < n + 1
      BY <1>1
    <3>2. plan[n] \in Chunk /\ plan[n + 1] \in Chunk /\ plan[n].line < plan[n + 1].line
      BY <1>1, <1>2, <3>1
    <3>3. plan[n].line \in Nat /\ plan[n + 1].line \in Nat
      BY <3>2 DEF Chunk
    <3> QED
      BY <1>1, <3>1, <3>2, <3>3 DEF Follows
  <2>2. plan # <<>> => 1 \in 1..k /\ k \in 1..k
    BY <1>1
  <2> QED
    BY <1>1, <2>1, <2>2 DEF Tiled
<1>10. LinesOf(plan) = Planned(s, checked)
  BY <1>1 DEF LinesOf
<1>11. \A n \in 1..Len(qu) : qu[n].seed = qu[n].depth
  BY <1>4, <1>5
<1> QED
  BY <1>4, <1>7, <1>8, <1>9, <1>10, <1>11 DEF qu, plan, k

(* What is cut names two files or more.                                     *)
LEMMA CutsTwoOrMore ==
  ASSUME NEW s, NEW q \in Entry, NEW size, NEW e, ~Dispatched(s, q, size, e)
  PROVE  Names(q.chunk) > 1 /\ q.depth < MaxDepth
<1>1. q.chunk \in Chunk /\ q.depth \in Nat
  BY DEF Entry
<1>2. Names(q.chunk) \in Int
  BY <1>1 DEF Names, Chunk
<1>3. MaxDepth \in Nat
  BY ChunksAssumption DEF Letters
<1> QED
  BY <1>1, <1>2, <1>3 DEF Dispatched

-----------------------------------------------------------------------------
(* Marks *)

(* A set of lines has a first one.                                          *)
LEMMA FirstOfLines ==
  ASSUME NEW S \in SUBSET Nat, S # {}
  PROVE  \E b \in S : FirstOf(S) = {b}
<1> DEFINE R == OpToRel(<, Nat)
<1>1. IsWellFoundedOn(R, Nat)
  BY NatLessThanWellFounded, Zenon
<1>2. \A x, y \in Nat : <<x, y>> \in R <=> x < y
  BY DEF OpToRel
<1> HIDE DEF R
<1>3. PICK b \in S : \A j \in S : <<j, b>> \notin R
  BY <1>1, WFMin
<1>4. \A j \in S : b <= j
  <2>1. \A j \in S : ~(j < b)
    BY <1>2, <1>3
  <2> QED
    BY <2>1
<1>5. \A i \in S : (\A j \in S : i <= j) => i = b
  BY <1>4
<1> QED
  BY <1>4, <1>5 DEF FirstOf

(* A mark checks one open box, whatever the title, as long as one is open   *)
(* (spec_discovery.py:189-212).                                             *)
LEMMA MarkTakesOne ==
  ASSUME NEW s \in Specs, NEW i, NEW checked, Tasks[s] \ checked # {}
  PROVE  \E b \in Tasks[s] \ checked : BoxFor(s, i, checked) = {b}
<1> DEFINE open  == Tasks[s] \ checked
           named == open \cap TitleIn[s][i]
           pool  == IF named = {} THEN open ELSE named
<1>1. pool \in SUBSET Nat /\ pool # {} /\ pool \subseteq open
  BY ChunksAssumption
<1>2. BoxFor(s, i, checked) = FirstOf(pool)
  BY DEF BoxFor
<1> HIDE DEF pool
<1>3. PICK b \in pool : FirstOf(pool) = {b}
  BY <1>1, FirstOfLines
<1> QED
  BY <1>1, <1>2, <1>3
=============================================================================
