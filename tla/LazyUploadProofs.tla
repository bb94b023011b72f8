--------------------------- MODULE LazyUploadProofs ---------------------------
(***************************************************************************)
(* Theorems about LazyUpload, for every number of files, handles,          *)
(* descriptors, workers and slots, and every size of buffer and disk.      *)
(***************************************************************************)
EXTENDS LazyUpload, CollectionLemmas

Blocks == 0..MaxOps
Texts == [Files -> Seq(Blocks)]
Infos == [Files -> [handle : BOOLEAN, commits : Nat, start : Nat, cur : Nat]]

\* A descriptor that is in use has a file.
DescTables ==
  {t \in [Descs -> [file : Files \cup {None}, kind : Kinds]] :
     \A d \in Descs : t[d].kind # "free" => t[d].file \in Files}

\* The records that operations are worked out on.
States ==
  [ok : BOOLEAN, got : Nat, d : Descs \cup {None}, info : Infos, buf : Texts,
   cached : SUBSET Files, newCache : Texts, desc : DescTables, stored : SUBSET Files,
   server : Texts, lock : Workers \cup {None}, hung : SUBSET Workers]

-------------------------------------------------------------------------------
(***************************************************************************)
(* Texts                                                                   *)
(***************************************************************************)
LEMMA MaxOfTwo ==
  ASSUME NEW a \in Int, NEW b \in Int
  PROVE  Max({a, b}) = IF a >= b THEN a ELSE b
<1> DEFINE m == IF a >= b THEN a ELSE b
<1>1. m \in {a, b} /\ \A y \in {a, b} : m >= y
  OBVIOUS
<1>2. Max({a, b}) \in {a, b} /\ \A y \in {a, b} : Max({a, b}) >= y
  BY <1>1 DEF Max
<1> QED  BY <1>2

LEMMA MinOfTwo ==
  ASSUME NEW a \in Int, NEW b \in Int
  PROVE  Min({a, b}) = IF a <= b THEN a ELSE b
<1> DEFINE m == IF a <= b THEN a ELSE b
<1>1. m \in {a, b} /\ \A y \in {a, b} : m <= y
  OBVIOUS
<1>2. Min({a, b}) \in {a, b} /\ \A y \in {a, b} : Min({a, b}) <= y
  BY <1>1 DEF Min
<1> QED  BY <1>2

\* A write at an offset makes the file as long as it needs, and no longer.
LEMMA SpliceText ==
  ASSUME NEW text \in Seq(Blocks), NEW off \in Nat, NEW data \in Seq(Blocks)
  PROVE  /\ Splice(text, off, data) \in Seq(Blocks)
         /\ Len(Splice(text, off, data)) =
              IF Len(text) >= off + Len(data) THEN Len(text) ELSE off + Len(data)
         /\ \A i \in 1..Len(Splice(text, off, data)) : Splice(text, off, data)[i] =
              IF i \in off + 1..off + Len(data) THEN data[i - off]
              ELSE IF i <= Len(text) THEN text[i] ELSE 0
<1> DEFINE m == IF Len(text) >= off + Len(data) THEN Len(text) ELSE off + Len(data)
           at(i) == IF i \in off + 1..off + Len(data) THEN data[i - off]
                    ELSE IF i <= Len(text) THEN text[i] ELSE 0
<1>1. Len(text) \in Nat /\ Len(data) \in Nat /\ m \in Nat
  OBVIOUS
<1>2. Splice(text, off, data) = [i \in 1..m |-> at(i)]
  <2>1. Max({Len(text), off + Len(data)}) = m
    BY <1>1, MaxOfTwo
  <2> QED  BY <2>1 DEF Splice
<1>3. \A i \in 1..m : at(i) \in Blocks
  <2>1. 0 \in Blocks
    BY LazyAssumption DEF Blocks
  <2> SUFFICES ASSUME NEW i \in 1..m PROVE at(i) \in Blocks
    OBVIOUS
  <2>2. CASE i \in off + 1..off + Len(data)
    <3>1. i - off \in 1..Len(data)
      BY <1>1, <2>2
    <3> QED  BY <2>2, <3>1
  <2>3. CASE i \notin off + 1..off + Len(data) /\ i <= Len(text)
    <3>1. i \in 1..Len(text)
      BY <1>1, <2>3
    <3> QED  BY <2>3, <3>1
  <2>4. CASE i \notin off + 1..off + Len(data) /\ ~(i <= Len(text))
    BY <2>1, <2>4
  <2> QED  BY <2>2, <2>3, <2>4
<1> HIDE DEF at, m
<1>4. [i \in 1..m |-> at(i)] \in Seq(Blocks) /\ Len([i \in 1..m |-> at(i)]) = m
  BY <1>1, <1>3
<1> QED  BY <1>2, <1>4 DEF at, m

LEMMA PlacedText ==
  ASSUME NEW text \in Seq(Blocks), NEW off \in Nat, NEW data \in Seq(Blocks), NEW kind
  PROVE  Placed(kind, text, off, data) \in Seq(Blocks)
BY SpliceText DEF Placed

\* The turns of a loop that works on a value of A, each applying its function.
Loops(A, a, n, F) == a \in A /\ n \in Nat /\ F \in [1..n -> [A -> A]]

Turns(A, a, n, F) ==
  {g \in [0..n -> A] : g[0] = a /\ \A i \in 1..n : g[i] = F[i][g[i - 1]]}

LEMMA LoopValue ==
  ASSUME NEW A, NEW a, NEW n, NEW F, Loops(A, a, n, F)
  PROVE  Turns(A, a, n, F) # {}
<1> DEFINE Good(k) == \E g \in [0..k -> A] : /\ g[0] = a
                                             /\ \A i \in 1..k : g[i] = F[i][g[i - 1]]
           Bad == {k \in 0..n : ~Good(k)}
<1>0. a \in A /\ n \in Nat /\ F \in [1..n -> [A -> A]]
  BY DEF Loops
<1>1. Good(0)
  <2> DEFINE g == [i \in 0..0 |-> a]
  <2>1. g \in [0..0 -> A] /\ g[0] = a /\ \A i \in 1..0 : g[i] = F[i][g[i - 1]]
    BY <1>0
  <2> HIDE DEF g
  <2> QED  BY <1>0, <2>1
<1>2. ASSUME NEW k \in 1..n, Good(k - 1) PROVE Good(k)
  <2>1. PICK g \in [0..k - 1 -> A] : g[0] = a /\ \A i \in 1..k - 1 : g[i] = F[i][g[i - 1]]
    BY <1>2
  <2> DEFINE h == [i \in 0..k |-> IF i = k THEN F[k][g[k - 1]] ELSE g[i]]
  <2>2. k - 1 \in 0..k - 1 /\ g[k - 1] \in A /\ F[k] \in [A -> A]
    BY <1>0
  <2>3. F[k][g[k - 1]] \in A
    BY <1>0, <2>2
  <2>4. \A i \in 0..k : i = k \/ i \in 0..k - 1
    BY <1>0
  <2>5. h \in [0..k -> A]
    BY <1>0, <2>3, <2>4
  <2>6. h[0] = a
    BY <1>0, <2>1
  <2>7. \A i \in 1..k : h[i] = F[i][h[i - 1]]
    BY <1>0, <2>1
  <2> HIDE DEF h
  <2> QED  BY <2>5, <2>6, <2>7
<1>3. Bad = {}
  <2> SUFFICES ASSUME Bad # {} PROVE FALSE
    OBVIOUS
  <2> HIDE DEF Good
  <2>1. Bad \in SUBSET Nat
    BY <1>0
  <2>2. Min(Bad) \in Bad /\ \A y \in Bad : Min(Bad) <= y
    BY <2>1, MinInSet
  <2> DEFINE k == Min(Bad)
  <2> HIDE DEF k
  <2>3. k \in 0..n /\ ~Good(k) /\ \A y \in Bad : k <= y
    BY <2>2 DEF k
  <2>4. k # 0
    BY <1>1, <2>3
  <2>5. k \in 1..n /\ k - 1 \in 0..n /\ k - 1 \notin Bad
    BY <1>0, <2>3, <2>4
  <2> QED  BY <1>2, <2>3, <2>5
<1>4. Good(n)
  <2>1. n \in 0..n
    BY <1>0
  <2>2. n \notin Bad
    BY ONLY <1>3
  <2> HIDE DEF Good
  <2> QED  BY <2>1, <2>2
<1> QED  BY <1>4 DEF Turns

\* Two functions that agree at 0 and on from every argument to the next are the same.
LEMMA SameOnInterval ==
  ASSUME NEW n \in Nat, NEW g, NEW h, h[0] = g[0],
         \A i \in 1..n : h[i - 1] = g[i - 1] => h[i] = g[i]
  PROVE  \A i \in 0..n : h[i] = g[i]
<1> DEFINE Bad == {k \in 0..n : h[k] # g[k]}
<1> SUFFICES ASSUME Bad # {} PROVE FALSE
  OBVIOUS
<1>1. Bad \in SUBSET Nat
  OBVIOUS
<1>2. Min(Bad) \in Bad /\ \A y \in Bad : Min(Bad) <= y
  BY <1>1, MinInSet
<1> DEFINE k == Min(Bad)
<1> HIDE DEF k
<1>3. k \in 0..n /\ h[k] # g[k] /\ \A y \in Bad : k <= y
  BY <1>2 DEF k
<1>4. k \in 1..n /\ k - 1 \in 0..n /\ k - 1 \notin Bad
  BY <1>3
<1> QED  BY <1>3, <1>4

LEMMA SubText ==
  ASSUME NEW text \in Seq(Blocks), NEW a \in Nat \ {0}, NEW b \in Int, b <= Len(text)
  PROVE  /\ SubSeq(text, a, b) \in Seq(Blocks)
         /\ Len(SubSeq(text, a, b)) = IF a <= b THEN b - a + 1 ELSE 0
         /\ \A i \in 1..b - a + 1 : SubSeq(text, a, b)[i] = text[i + a - 1]
<1>1. Len(text) \in Nat /\ text \in [1..Len(text) -> Blocks]
  OBVIOUS
<1> DEFINE m == IF a <= b THEN b - a + 1 ELSE 0
<1>2. m \in Nat /\ 1..m = 1..1 + b - a /\ 1..m = 1..b - a + 1
  BY <1>1
<1>3. SubSeq(text, a, b) = [i \in 1..m |-> text[i + a - 1]]
  BY <1>2
<1>4. \A i \in 1..m : i + a - 1 \in 1..Len(text)
  BY <1>1
<1>5. \A i \in 1..m : text[i + a - 1] \in Blocks
  BY <1>1, <1>4
<1> HIDE DEF m
<1>6. [i \in 1..m |-> text[i + a - 1]] \in Seq(Blocks) /\ Len([i \in 1..m |-> text[i + a - 1]]) = m
  BY <1>2, <1>5
<1> QED  BY <1>2, <1>3, <1>6 DEF m

LEMMA PartText ==
  ASSUME NEW text \in Seq(Blocks), NEW i \in Nat \ {0}
  PROVE  Part(text, i) \in Seq(Blocks)
<1>1. Chunk \in Nat /\ (i - 1) * Chunk \in Nat /\ i * Chunk \in Nat /\ Len(text) \in Nat
  BY LazyAssumption
<1> DEFINE a == (i - 1) * Chunk + 1
           b == Min({i * Chunk, Len(text)})
<1>2. a \in Nat \ {0} /\ b \in Int /\ b <= Len(text)
  BY <1>1, MinOfTwo
<1> HIDE DEF a, b
<1>3. SubSeq(text, a, b) \in Seq(Blocks)
  BY <1>2, SubText
<1> QED  BY <1>3 DEF Part, a, b

-------------------------------------------------------------------------------
(***************************************************************************)
(* The operations keep the types.                                          *)
(***************************************************************************)
LEMMA TextType ==
  ASSUME NEW s \in States, NEW d \in Descs, s.desc[d].kind # "free"
  PROVE  /\ Text(s, d) \in Seq(Blocks)
         /\ \A text \in Seq(Blocks) : WithText(s, d, text) \in States
<1>1. s.desc[d].file \in Files
  BY DEF States, DescTables
<1>2. s.newCache \in Texts /\ s.server \in Texts
  BY DEF States
<1>3. Text(s, d) \in Seq(Blocks)
  BY <1>1, <1>2 DEF Text, Texts
<1>4. ASSUME NEW text \in Seq(Blocks) PROVE WithText(s, d, text) \in States
  <2>1. /\ [s.newCache EXCEPT ![s.desc[d].file] = text] \in Texts
        /\ [s.server EXCEPT ![s.desc[d].file] = text] \in Texts
    BY <1>1, <1>2 DEF Texts
  <2> QED  BY <2>1 DEF WithText, States
<1> QED  BY <1>3, <1>4

\* What a loop has sent is one text, whatever part of it failed.
LEMMA SentType ==
  ASSUME NEW s \in States, NEW f \in Files, s.d \in Descs, s.desc[s.d].kind # "free",
         NEW n \in Nat, NEW bad
  PROVE  \E text \in Seq(Blocks) : Sent(s, f, n, bad) = WithText(s, s.d, text)
<1> DEFINE kind == s.desc[s.d].kind
           start == s.info[f].start
           b == s.buf[f]
           A == Seq(Blocks)
           Turn(i, t) == IF i \in bad THEN t ELSE Placed(kind, t, start, Part(b, i))
           F == [i \in 1..n |-> [t \in A |-> Turn(i, t)]]
           Body(i, g) == IF i = 0 THEN Text(s, s.d)
                         ELSE IF i \in bad THEN g[i - 1]
                         ELSE Placed(kind, g[i - 1], start, Part(b, i))
           loop == CHOOSE g : g = [i \in 0..n |-> Body(i, g)]
<1>1. start \in Nat /\ b \in A /\ Text(s, s.d) \in A
  BY TextType DEF States, Infos, Texts
<1> HIDE DEF kind, start, b, A
<1>2. \A i \in 1..n, t \in A : Turn(i, t) \in A
  <2> SUFFICES ASSUME NEW i \in 1..n, NEW t \in A PROVE Turn(i, t) \in A
    OBVIOUS
  <2>1. Part(b, i) \in A
    BY <1>1, PartText DEF A
  <2>2. Placed(kind, t, start, Part(b, i)) \in A
    BY <1>1, <2>1, PlacedText DEF A
  <2> QED  BY <2>2
<1> HIDE DEF Turn
<1>3. F \in [1..n -> [A -> A]] /\ \A i \in 1..n, t \in A : F[i][t] = Turn(i, t)
  BY <1>2
<1> HIDE DEF F
<1>4. PICK g \in [0..n -> A] : /\ g[0] = Text(s, s.d)
                               /\ \A i \in 1..n : g[i] = F[i][g[i - 1]]
  <2> DEFINE a == Text(s, s.d)
  <2>1. Loops(A, a, n, F)
    BY <1>1, <1>3 DEF Loops
  <2> HIDE DEF a, Body, loop
  <2>2. Turns(A, a, n, F) # {}
    BY <2>1, LoopValue
  <2> QED  BY <2>2 DEF a, Turns
<1>5. \A i \in 1..n : i - 1 \in 0..n /\ g[i - 1] \in A
  BY <1>4
<1>6. \A i \in 1..n : g[i] = Turn(i, g[i - 1])
  BY <1>3, <1>4, <1>5
<1>7. g = [i \in 0..n |-> Body(i, g)]
  <2>1. \A i \in 0..n : g[i] = Body(i, g)
    BY <1>4, <1>6 DEF Turn
  <2> QED  BY <1>4, <2>1
<1>8. loop = [i \in 0..n |-> Body(i, loop)]
  BY <1>7
<1> HIDE DEF loop
<1>9. loop[0] = Text(s, s.d) /\ \A i \in 1..n : loop[i] = Turn(i, loop[i - 1])
  BY <1>8 DEF Turn
<1>10. \A i \in 0..n : loop[i] = g[i]
  <2>1. loop[0] = g[0] /\ \A i \in 1..n : loop[i - 1] = g[i - 1] => loop[i] = g[i]
    BY <1>4, <1>6, <1>9
  <2> QED  BY ONLY <2>1, n \in Nat, SameOnInterval
<1>11. loop[n] \in A
  BY <1>4, <1>10
<1>12. Sent(s, f, n, bad) = WithText(s, s.d, loop[n])
  BY DEF Sent, loop, kind, start, b
<1> QED  BY <1>11, <1>12 DEF A

\* ifuseClose and freeIFuseDesc: the descriptor is free afterwards; without errors, and
\* with the entry of a new file in the path cache, its cache file has been put.
CloseEffect(s, f, d, r) ==
  /\ r \in States
  /\ r.desc = [s.desc EXCEPT ![d] = FreeDesc]
  /\ r.d = s.d /\ r.got = s.got /\ r.info = s.info /\ r.buf = s.buf
  /\ r.cached = s.cached /\ r.newCache = s.newCache
  /\ r.lock = s.lock /\ r.hung = s.hung
  /\ \/ ~r.ok /\ r.stored = s.stored /\ r.server = s.server
        /\ (RpcErrors \/ (s.desc[d].kind = "cache" /\ f \notin s.cached))
     \/ r.ok /\ s.desc[d].kind # "cache" /\ r.stored = s.stored /\ r.server = s.server
     \/ r.ok /\ s.desc[d].kind = "cache" /\ f \in s.cached /\ r.stored = s.stored \cup {f}
        /\ r.server = [s.server EXCEPT ![f] = s.newCache[f]]

LEMMA CloseLemma ==
  ASSUME NEW s \in States, s.ok, NEW f \in Files, NEW d \in Descs, NEW r \in CloseAndFree(s, f, d)
  PROVE  CloseEffect(s, f, d, r)
<1>1. PICK t \in Close(s, f, d) : r = [t EXCEPT !.desc[d] = FreeDesc]
  BY DEF CloseAndFree
<1>2. \/ t = s /\ s.desc[d].kind # "cache"
      \/ t = [s EXCEPT !.ok = FALSE]
         /\ (RpcErrors \/ (s.desc[d].kind = "cache" /\ f \notin s.cached))
      \/ /\ t = [s EXCEPT !.server[f] = s.newCache[f], !.stored = @ \cup {f}]
         /\ s.desc[d].kind = "cache" /\ f \in s.cached
  BY <1>1 DEF Close, OrError, Fail
<1>3. /\ s.newCache \in Texts /\ s.server \in Texts /\ s.stored \in SUBSET Files
      /\ [s.server EXCEPT ![f] = s.newCache[f]] \in Texts
  BY DEF States, Texts
<1>4. [s.desc EXCEPT ![d] = FreeDesc] \in DescTables
  <2>1. FreeDesc \in [file : Files \cup {None}, kind : Kinds] /\ FreeDesc.kind = "free"
    BY DEF FreeDesc, Kinds
  <2> QED  BY <2>1 DEF States, DescTables
<1> HIDE DEF FreeDesc
<1>5. CASE t = s /\ s.desc[d].kind # "cache"
  BY <1>1, <1>4, <1>5 DEF CloseEffect, States
<1>6. CASE t = [s EXCEPT !.ok = FALSE]
         /\ (RpcErrors \/ (s.desc[d].kind = "cache" /\ f \notin s.cached))
  BY <1>1, <1>4, <1>6 DEF CloseEffect, States
<1>7. CASE /\ t = [s EXCEPT !.server[f] = s.newCache[f], !.stored = @ \cup {f}]
           /\ s.desc[d].kind = "cache" /\ f \in s.cached
  <2> DEFINE S == [s.server EXCEPT ![f] = s.newCache[f]]
             D == [s.desc EXCEPT ![d] = FreeDesc]
  <2>1. r = [s EXCEPT !.server = S, !.stored = s.stored \cup {f}, !.desc = D]
    BY <1>1, <1>7 DEF States
  <2> HIDE DEF S, D
  <2>2. S \in Texts /\ D \in DescTables /\ s.ok = TRUE /\ s.stored \cup {f} \in SUBSET Files
    BY <1>3, <1>4 DEF S, D, States
  <2>3. /\ r \in States /\ r.desc = D /\ r.server = S /\ r.stored = s.stored \cup {f} /\ r.ok
        /\ r.d = s.d /\ r.got = s.got /\ r.info = s.info /\ r.buf = s.buf
        /\ r.cached = s.cached /\ r.newCache = s.newCache
        /\ r.lock = s.lock /\ r.hung = s.hung
    BY <2>1, <2>2 DEF States
  <2> QED  BY <1>7, <2>3 DEF CloseEffect, S, D
<1> QED  BY <1>2, <1>5, <1>6, <1>7

\* What a commit leaves of the buffer: a handle that is closed, or an empty buffer.
DeadIn(s, f, r) ==
  ~r.ok /\ r.buf = s.buf /\ r.info = [s.info EXCEPT ![f].handle = FALSE]

ResetIn(s, f, r) ==
  /\ r.ok /\ r.buf = [s.buf EXCEPT ![f] = <<>>]
  /\ r.info = [s.info EXCEPT ![f] = [handle |-> TRUE, commits |-> @.commits + 1,
                                     start |-> @.start + @.cur, cur |-> 0]]

\* The rest of the state.
RestSame(s, r) ==
  /\ r.d = s.d /\ r.desc = s.desc /\ r.got = s.got /\ r.cached = s.cached
  /\ r.newCache = s.newCache /\ r.stored = s.stored /\ r.server = s.server
  /\ r.lock = s.lock /\ r.hung = s.hung

LEMMA InfoTypes ==
  ASSUME NEW s \in States, NEW f \in Files
  PROVE  /\ [s.info EXCEPT ![f].handle = FALSE] \in Infos
         /\ [s.info EXCEPT ![f] = [handle |-> TRUE, commits |-> @.commits + 1,
                                   start |-> @.start + @.cur, cur |-> 0]] \in Infos
         /\ [s.buf EXCEPT ![f] = <<>>] \in Texts
<1>1. s.info \in Infos /\ s.buf \in Texts
  BY DEF States
<1>2. s.info[f] \in [handle : BOOLEAN, commits : Nat, start : Nat, cur : Nat]
  BY <1>1 DEF Infos
<1>3. [s.info[f] EXCEPT !.handle = FALSE] \in [handle : BOOLEAN, commits : Nat, start : Nat, cur : Nat]
  BY <1>2
<1>4. [handle |-> TRUE, commits |-> s.info[f].commits + 1,
       start |-> s.info[f].start + s.info[f].cur, cur |-> 0]
         \in [handle : BOOLEAN, commits : Nat, start : Nat, cur : Nat]
  BY <1>2
<1>5. [s.buf EXCEPT ![f] = <<>>] \in Texts
  BY <1>1 DEF Texts
<1> QED  BY <1>1, <1>3, <1>4, <1>5 DEF Infos

LEMMA DeadState ==
  ASSUME NEW s \in States, NEW f \in Files
  PROVE  Dead(s, f) \in States /\ DeadIn(s, f, Dead(s, f)) /\ RestSame(s, Dead(s, f))
<1>1. Dead(s, f) = [s EXCEPT !.ok = FALSE, !.info = [s.info EXCEPT ![f].handle = FALSE]]
  BY DEF Dead, States
<1>2. [s.info EXCEPT ![f].handle = FALSE] \in Infos
  BY InfoTypes
<1> QED  BY <1>1, <1>2 DEF DeadIn, RestSame, States

LEMMA ResetState ==
  ASSUME NEW s \in States, s.ok, NEW f \in Files
  PROVE  Reset(s, f) \in States /\ ResetIn(s, f, Reset(s, f)) /\ RestSame(s, Reset(s, f))
<1> DEFINE b == [s.buf EXCEPT ![f] = <<>>]
           i == [s.info EXCEPT ![f] = [handle |-> TRUE, commits |-> @.commits + 1,
                                       start |-> @.start + @.cur, cur |-> 0]]
<1>1. Reset(s, f) = [s EXCEPT !.buf = b, !.info = i]
  BY DEF Reset, States
<1>2. b \in Texts /\ i \in Infos
  BY InfoTypes
<1>3. s.ok = TRUE
  BY DEF States
<1>4. [s EXCEPT !.buf = b, !.info = i] \in States
  <2> HIDE DEF b, i
  <2> QED  BY <1>2 DEF States
<1>5. /\ [s EXCEPT !.buf = b, !.info = i].buf = b
      /\ [s EXCEPT !.buf = b, !.info = i].info = i
      /\ [s EXCEPT !.buf = b, !.info = i].ok
      /\ RestSame(s, [s EXCEPT !.buf = b, !.info = i])
  <2> HIDE DEF b, i
  <2> QED  BY <1>3 DEF RestSame, States
<1> QED  BY <1>1, <1>2, <1>4, <1>5 DEF ResetIn


AppendDesc(f) == [file |-> f, kind |-> "append"]

\* "reopen file": another descriptor, and an empty buffer.
ReopenEffect(s, f, r) ==
  /\ r \in States
  /\ r.got = s.got /\ r.cached = s.cached /\ r.newCache = s.newCache
  /\ r.stored = s.stored /\ r.server = s.server /\ r.lock = s.lock /\ r.hung = s.hung
  /\ \/ DeadIn(s, f, r) /\ r.d = s.d /\ r.desc = s.desc /\ (RpcErrors \/ Unused(s) = {})
     \/ /\ ResetIn(s, f, r) /\ r.d \in Descs /\ s.desc[r.d].kind = "free"
        /\ r.desc = [s.desc EXCEPT ![r.d] = AppendDesc(f)]

LEMMA ReopenLemma ==
  ASSUME NEW s \in States, s.ok, NEW f \in Files, NEW r \in Reopen(s, f)
  PROVE  ReopenEffect(s, f, r)
<1>1. CASE r = Dead(s, f) /\ (RpcErrors \/ Unused(s) = {})
  <2>1. r \in States /\ DeadIn(s, f, r) /\ RestSame(s, r)
    BY <1>1, DeadState
  <2> QED  BY <1>1, <2>1 DEF ReopenEffect, RestSame
<1>2. CASE \E e \in Unused(s) :
             r = Reset([s EXCEPT !.desc[e] = [file |-> f, kind |-> "append"], !.d = e], f)
  <2> PICK e \in Unused(s) :
             r = Reset([s EXCEPT !.desc[e] = [file |-> f, kind |-> "append"], !.d = e], f)
    BY <1>2
  <2>1. e \in Descs /\ s.desc[e].kind = "free"
    BY LazyAssumption DEF Unused, InUse
  <2> DEFINE D == [s.desc EXCEPT ![e] = AppendDesc(f)]
             t == [s EXCEPT !.desc = D, !.d = e]
  <2>2. D \in DescTables
    <3>1. AppendDesc(f) \in [file : Files \cup {None}, kind : Kinds] /\ AppendDesc(f).file \in Files
      BY DEF AppendDesc, Kinds
    <3> HIDE DEF AppendDesc
    <3> QED  BY <3>1, <2>1 DEF States, DescTables
  <2>3. r = Reset(t, f)
    <3>1. t = [s EXCEPT !.desc[e] = AppendDesc(f), !.d = e]
      BY DEF States
    <3> QED  BY <3>1 DEF AppendDesc
  <2> HIDE DEF D
  <2>4. /\ t \in States /\ t.ok /\ t.desc = D /\ t.d = e /\ t.got = s.got /\ t.cached = s.cached
        /\ t.newCache = s.newCache /\ t.stored = s.stored /\ t.server = s.server
        /\ t.lock = s.lock /\ t.hung = s.hung /\ t.info = s.info /\ t.buf = s.buf
    BY <2>1, <2>2 DEF States
  <2> HIDE DEF t
  <2>5. r \in States /\ ResetIn(t, f, r) /\ RestSame(t, r)
    BY <2>3, <2>4, ResetState
  <2>6. ResetIn(s, f, r)
    BY <2>4, <2>5 DEF ResetIn
  <2> QED  BY <2>1, <2>4, <2>5, <2>6 DEF ReopenEffect, RestSame, D
<1>3. \A t \in OrError(s) : Dead(t, f) = Dead(s, f) /\ RpcErrors
  BY DEF OrError, Fail, Dead, States
<1> QED  BY <1>1, <1>2, <1>3 DEF Reopen


\* "put and reopen iRODS file"
PutEffect(s, f, r) ==
  /\ r \in States
  /\ r.got = s.got /\ r.newCache = s.newCache /\ r.lock = s.lock /\ r.hung = s.hung
  /\ \/ /\ DeadIn(s, f, r) /\ r.d = s.d
        /\ r.desc = [s.desc EXCEPT ![s.d] = FreeDesc]
        /\ RpcErrors \/ (s.desc[s.d].kind = "cache" /\ f \notin s.cached)
     \/ /\ ResetIn(s, f, r)
        /\ r.d \in Descs /\ (r.d = s.d \/ s.desc[r.d].kind = "free")
        /\ r.desc = [s.desc EXCEPT ![s.d] = FreeDesc, ![r.d] = AppendDesc(f)]
        /\ r.cached = s.cached \ {f} /\ r.stored = s.stored \cup {f}
        /\ r.server = [s.server EXCEPT ![f] = s.buf[f]]

LEMMA PutLemma ==
  ASSUME NEW s \in States, s.ok, NEW f \in Files, s.d \in Descs, NEW r \in PutBuffer(s, f)
  PROVE  PutEffect(s, f, r)
<1>1. PICK t \in CloseAndFree(s, f, s.d) :
        r \in IF t.ok THEN {Dead(u, f) : u \in OrError(t)} \cup Reopen(Uploaded(t, f), f)
                      ELSE {Dead(t, f)}
  BY DEF PutBuffer
<1>2. CloseEffect(s, f, s.d, t)
  BY CloseLemma
<1>3. /\ t \in States /\ t.desc = [s.desc EXCEPT ![s.d] = FreeDesc]
      /\ t.d = s.d /\ t.got = s.got /\ t.info = s.info /\ t.buf = s.buf
      /\ t.cached = s.cached /\ t.newCache = s.newCache
      /\ t.lock = s.lock /\ t.hung = s.hung
      /\ ~t.ok => (RpcErrors \/ (s.desc[s.d].kind = "cache" /\ f \notin s.cached))
      /\ t.ok => /\ t.stored \in {s.stored, s.stored \cup {f}}
                 /\ [t.server EXCEPT ![f] = s.buf[f]] = [s.server EXCEPT ![f] = s.buf[f]]
  BY <1>2 DEF CloseEffect, States, Texts
<1>4. CASE r = Dead(t, f) /\ (t.ok => RpcErrors)
  <2>1. r \in States /\ DeadIn(t, f, r) /\ RestSame(t, r)
    BY <1>3, <1>4, DeadState
  <2>2. DeadIn(s, f, r)
    BY <1>3, <2>1 DEF DeadIn
  <2> QED  BY <1>3, <1>4, <2>1, <2>2 DEF PutEffect, RestSame
<1>5. CASE t.ok /\ r \in Reopen(Uploaded(t, f), f)
  <2> DEFINE u == Uploaded(t, f)
  <2>1. /\ [t.server EXCEPT ![f] = t.buf[f]] \in Texts
        /\ t.stored \cup {f} \in SUBSET Files /\ t.cached \ {f} \in SUBSET Files
    BY <1>3 DEF States, Texts
  <2>2. /\ u \in States /\ u.ok
        /\ u.d = t.d /\ u.desc = t.desc /\ u.got = t.got /\ u.info = t.info /\ u.buf = t.buf
        /\ u.newCache = t.newCache /\ u.lock = t.lock /\ u.hung = t.hung
        /\ u.cached = t.cached \ {f} /\ u.stored = t.stored \cup {f}
        /\ u.server = [t.server EXCEPT ![f] = t.buf[f]]
    <3> DEFINE S == [t.server EXCEPT ![f] = t.buf[f]]
    <3>1. u = [t EXCEPT !.server = S, !.stored = t.stored \cup {f}, !.cached = t.cached \ {f}]
      BY <1>3 DEF Uploaded, States
    <3>2. S \in Texts
      BY <2>1
    <3> HIDE DEF S, u
    <3> QED  BY <1>3, <1>5, <2>1, <3>1, <3>2 DEF States, S
  <2> HIDE DEF u
  <2>3. ReopenEffect(u, f, r)
    BY <1>5, <2>2, ReopenLemma DEF u
  <2>4. FreeDesc.kind = "free" /\ s.desc \in [Descs -> [file : Files \cup {None}, kind : Kinds]]
    BY DEF FreeDesc, States, DescTables
  <2>5. u.desc = [s.desc EXCEPT ![s.d] = FreeDesc]
    BY <1>3, <2>2
  <2>6. u.desc[s.d].kind = "free" /\ \A e \in Descs \ {s.d} : u.desc[e] = s.desc[e]
    BY <2>4, <2>5
  <2>7. s.d \in Unused(u)
    BY <2>6 DEF Unused, InUse
  <2>8. CASE RpcErrors /\ DeadIn(u, f, r) /\ r.d = u.d /\ r.desc = u.desc
    <3>1. DeadIn(s, f, r)
      BY <1>3, <2>2, <2>8 DEF DeadIn
    <3> QED  BY <1>3, <2>2, <2>3, <2>5, <2>8, <3>1 DEF PutEffect, ReopenEffect
  <2>9. CASE /\ ResetIn(u, f, r) /\ r.d \in Descs /\ u.desc[r.d].kind = "free"
             /\ r.desc = [u.desc EXCEPT ![r.d] = AppendDesc(f)]
    <3>1. ResetIn(s, f, r)
      BY <1>3, <2>2, <2>9 DEF ResetIn
    <3>2. r.d = s.d \/ s.desc[r.d].kind = "free"
      BY <2>6, <2>9
    <3>3. r.desc = [s.desc EXCEPT ![s.d] = FreeDesc, ![r.d] = AppendDesc(f)]
      BY <2>5, <2>9
    <3>4. r \in States /\ r.got = s.got /\ r.newCache = s.newCache /\ r.lock = s.lock /\ r.hung = s.hung
      BY <1>3, <2>2, <2>3 DEF ReopenEffect
    <3>5. r.cached = s.cached \ {f} /\ r.stored = s.stored \cup {f}
      BY <1>3, <1>5, <2>2, <2>3 DEF ReopenEffect
    <3>6. r.server = [s.server EXCEPT ![f] = s.buf[f]]
      BY <1>3, <1>5, <2>2, <2>3 DEF ReopenEffect
    <3> QED  BY <2>9, <3>1, <3>2, <3>3, <3>4, <3>5, <3>6 DEF PutEffect
  <2> QED  BY <2>3, <2>7, <2>8, <2>9 DEF ReopenEffect
<1>6. \A u \in OrError(t) : Dead(u, f) = Dead(t, f) /\ RpcErrors
  BY <1>3 DEF OrError, Fail, Dead, States
<1> QED  BY <1>1, <1>4, <1>5, <1>6

\* "append"
AppendEffect(s, f, w, r) ==
  /\ r \in States
  /\ r.d = s.d /\ r.desc = s.desc /\ r.got = s.got /\ r.cached = s.cached /\ r.stored = s.stored
  /\ \/ DeadIn(s, f, r) /\ r.lock = s.lock /\ r.hung = s.hung /\ RpcErrors
     \/ DeadIn(s, f, r) /\ Len(s.buf[f]) < s.info[f].cur
     \/ ResetIn(s, f, r) /\ r.lock = s.lock /\ r.hung = s.hung

\* Only the text that the descriptor writes to is changed.
TextOnly(s, r) ==
  /\ r \in States /\ r.ok = s.ok /\ r.d = s.d /\ r.desc = s.desc /\ r.got = s.got
  /\ r.info = s.info /\ r.buf = s.buf /\ r.cached = s.cached /\ r.stored = s.stored
  /\ r.lock = s.lock /\ r.hung = s.hung

LEMMA WithTextOnly ==
  ASSUME NEW s \in States, NEW d \in Descs, s.desc[d].kind # "free", NEW text \in Seq(Blocks)
  PROVE  TextOnly(s, WithText(s, d, text))
<1>1. WithText(s, d, text) \in States
  BY TextType
<1> QED  BY <1>1 DEF TextOnly, WithText, States

LEMMA AppendLemma ==
  ASSUME NEW s \in States, s.ok, NEW f \in Files, s.d \in Descs, s.desc[s.d].kind # "free",
         NEW w \in Workers, NEW r \in AppendBuffer(s, f, w)
  PROVE  AppendEffect(s, f, w, r)
<1>1. Chunks(s, f) \in Nat
  <2>1. Chunk \in Nat \ {0} /\ Len(s.buf[f]) \in Nat /\ s.info[f].cur \in Nat
    BY LazyAssumption DEF States, Texts, Infos
  <2>2. Min({Len(s.buf[f]), s.info[f].cur}) \in Nat
    BY <2>1, MinOfTwo
  <2> DEFINE m == Min({Len(s.buf[f]), s.info[f].cur}) + Chunk - 1
  <2>3. m \in Nat
    BY <2>1, <2>2
  <2> HIDE DEF m
  <2>4. m \div Chunk \in Nat
    BY ONLY <2>1, <2>3
  <2> QED  BY <2>4 DEF Chunks, m
<1>2. \A n \in Nat : \A bad : TextOnly(s, Sent(s, f, n, bad))
  BY SentType, WithTextOnly
<1>3. PICK t : /\ TextOnly(s, t)
               /\ \/ Len(s.buf[f]) < s.info[f].cur
                     /\ r = [Dead(t, f) EXCEPT !.lock = w, !.hung = @ \cup {w}]
                  \/ r = Reset(t, f)
                  \/ RpcErrors /\ r = Dead(t, f)
  <2> DEFINE Done(t) == IF Len(s.buf[f]) < s.info[f].cur
                          THEN [Dead(t, f) EXCEPT !.lock = w, !.hung = @ \cup {w}]
                          ELSE Reset(t, f)
  <2>1. \/ \E bad : r = Done(Sent(s, f, Chunks(s, f), bad))
        \/ RpcErrors /\ \E i \in 1..Chunks(s, f) : r = Dead(Sent(s, f, i - 1, {}), f)
    BY DEF AppendBuffer
  <2>2. CASE \E bad : r = Done(Sent(s, f, Chunks(s, f), bad))
    <3> PICK bad : r = Done(Sent(s, f, Chunks(s, f), bad))
      BY <2>2
    <3> DEFINE t == Sent(s, f, Chunks(s, f), bad)
    <3>1. TextOnly(s, t)
      BY <1>1, <1>2
    <3> HIDE DEF t
    <3> QED  BY <3>1 DEF t
  <2>3. CASE RpcErrors /\ \E i \in 1..Chunks(s, f) : r = Dead(Sent(s, f, i - 1, {}), f)
    <3> PICK i \in 1..Chunks(s, f) : r = Dead(Sent(s, f, i - 1, {}), f)
      BY <2>3
    <3>1. i - 1 \in Nat
      BY <1>1
    <3> DEFINE t == Sent(s, f, i - 1, {})
    <3>2. TextOnly(s, t)
      BY <1>2, <3>1
    <3> HIDE DEF t
    <3> QED  BY <2>3, <3>2 DEF t
  <2> QED  BY <2>1, <2>2, <2>3
<1>4. /\ Dead(t, f) \in States /\ DeadIn(t, f, Dead(t, f)) /\ RestSame(t, Dead(t, f))
      /\ Reset(t, f) \in States /\ ResetIn(t, f, Reset(t, f)) /\ RestSame(t, Reset(t, f))
  BY <1>3, DeadState, ResetState DEF TextOnly
<1>5. CASE Len(s.buf[f]) < s.info[f].cur
           /\ r = [Dead(t, f) EXCEPT !.lock = w, !.hung = @ \cup {w}]
  <2> DEFINE u == Dead(t, f)
  <2> HIDE DEF u
  <2>1. u \in States /\ DeadIn(t, f, u) /\ RestSame(t, u) /\ u.hung \cup {w} \in SUBSET Workers
    BY <1>4 DEF u, States
  <2>2. r = [u EXCEPT !.lock = w, !.hung = u.hung \cup {w}]
    BY <1>5 DEF u, Dead
  <2>3. /\ r \in States /\ r.d = u.d /\ r.desc = u.desc /\ r.got = u.got /\ r.cached = u.cached
        /\ r.stored = u.stored /\ r.ok = u.ok /\ r.info = u.info /\ r.buf = u.buf
    BY <2>1, <2>2 DEF States
  <2> QED  BY <1>3, <1>5, <2>1, <2>3 DEF AppendEffect, DeadIn, RestSame, TextOnly
<1>6. CASE r = Reset(t, f)
  BY <1>3, <1>4, <1>6 DEF AppendEffect, ResetIn, RestSame, TextOnly
<1>7. CASE RpcErrors /\ r = Dead(t, f)
  BY <1>3, <1>4, <1>7 DEF AppendEffect, DeadIn, RestSame, TextOnly
<1> QED  BY <1>3, <1>5, <1>6, <1>7


-------------------------------------------------------------------------------
(***************************************************************************)
(* What a commit and a write can do, one aspect at a time.                 *)
(***************************************************************************)
\* The descriptor of the handle: the same, closed, or another one for the same file.
DescEffect(s, f, r) ==
  \/ r.d = s.d /\ r.desc = s.desc /\ r.cached = s.cached /\ r.stored = s.stored
  \/ /\ s.d \in Descs /\ s.desc[s.d].kind # "free"
     /\ r.d = s.d /\ r.desc = [s.desc EXCEPT ![s.d] = FreeDesc]
     /\ RpcErrors \/ (s.desc[s.d].kind = "cache" /\ f \notin s.cached)
  \/ /\ s.d \in Descs /\ s.desc[s.d].kind # "free"
     /\ r.d \in Descs /\ (r.d = s.d \/ s.desc[r.d].kind = "free")
     /\ r.desc = [s.desc EXCEPT ![s.d] = FreeDesc, ![r.d] = AppendDesc(f)]
     /\ r.cached = s.cached \ {f} /\ r.stored = s.stored \cup {f}

BufEffect(s, f, r) ==
  \/ r.buf = s.buf /\ r.info = s.info /\ (r.ok => s.info[f].cur = 0)
  \/ DeadIn(s, f, r)
  \/ s.info[f].handle /\ ResetIn(s, f, r)

LockEffect(s, f, r) ==
  \/ r.lock = s.lock /\ r.hung = s.hung
  \/ s.info[f].handle /\ s.info[f].commits > 0 /\ Len(s.buf[f]) < s.info[f].cur

LEMMA CommitLemma ==
  ASSUME NEW s \in States, s.ok, NEW f \in Files, NEW w \in Workers, NEW r \in Commit(s, f, w)
  PROVE  /\ r \in States /\ r.got = s.got
         /\ DescEffect(s, f, r) /\ BufEffect(s, f, r) /\ LockEffect(s, f, r)
<1>1. s.info[f].cur \in Nat /\ s.info[f].commits \in Nat /\ s.info[f].handle \in BOOLEAN
  BY DEF States, Infos
<1>2. CASE ~s.info[f].handle
  <2>1. r = [s EXCEPT !.ok = FALSE]
    BY <1>2 DEF Commit, Fail
  <2>2. r \in States /\ ~r.ok /\ r.info = s.info /\ r.buf = s.buf /\ RestSame(s, r)
    BY <2>1 DEF States, RestSame
  <2> QED  BY <2>2 DEF RestSame, DescEffect, BufEffect, LockEffect
<1>3. CASE s.info[f].handle /\ s.info[f].cur = 0
  <2>1. r = s
    BY <1>3 DEF Commit
  <2> QED  BY <1>3, <2>1 DEF DescEffect, BufEffect, LockEffect
<1>4. CASE s.info[f].handle /\ s.info[f].cur > 0 /\ ~InUse(s, s.d)
  <2>1. r = Dead(s, f)
    BY <1>1, <1>4 DEF Commit
  <2>2. r \in States /\ DeadIn(s, f, r) /\ RestSame(s, r)
    BY <2>1, DeadState
  <2> QED  BY <2>2 DEF RestSame, DescEffect, BufEffect, LockEffect
<1>5. ASSUME InUse(s, s.d) PROVE s.d \in Descs /\ s.desc[s.d].kind # "free"
  BY <1>5 DEF InUse, States
<1>6. CASE s.info[f].handle /\ s.info[f].cur > 0 /\ InUse(s, s.d) /\ s.info[f].commits = 0
  <2>1. r \in PutBuffer(s, f)
    BY <1>1, <1>6 DEF Commit
  <2>2. PutEffect(s, f, r)
    BY <1>5, <1>6, <2>1, PutLemma
  <2> QED  BY <1>5, <1>6, <2>2 DEF PutEffect, DescEffect, BufEffect, LockEffect
<1>7. CASE s.info[f].handle /\ s.info[f].cur > 0 /\ InUse(s, s.d) /\ s.info[f].commits > 0
  <2>1. r \in AppendBuffer(s, f, w)
    BY <1>1, <1>7 DEF Commit
  <2>2. AppendEffect(s, f, w, r)
    BY <1>5, <1>7, <2>1, AppendLemma
  <2> QED  BY <1>5, <1>7, <2>2 DEF AppendEffect, DescEffect, BufEffect, LockEffect
<1> QED  BY <1>1, <1>2, <1>3, <1>4, <1>6, <1>7

LEMMA MaxInInterval ==
  ASSUME NEW n \in Nat, NEW S \in SUBSET (0..n), S # {}
  PROVE  Max(S) \in S /\ \A y \in S : Max(S) >= y
<1> DEFINE T == {n - x : x \in S}
<1>1. T \in SUBSET Nat /\ T # {}
  <2>1. \A x \in S : x \in 0..n
    OBVIOUS
  <2>2. \A x \in 0..n : n - x \in Nat
    OBVIOUS
  <2>3. \A y \in T : y \in Nat
    BY <2>1, <2>2
  <2>4. PICK x : x \in S
    OBVIOUS
  <2>5. n - x \in T
    BY <2>4
  <2> QED  BY <2>3, <2>5
<1>2. Min(T) \in T /\ \A y \in T : Min(T) <= y
  BY <1>1, MinInSet
<1>3. PICK x \in S : Min(T) = n - x
  BY <1>2
<1>4. ASSUME NEW y \in S PROVE x >= y
  <2>1. n - y \in T
    OBVIOUS
  <2>2. n - x <= n - y
    BY <1>2, <1>3, <2>1
  <2> QED  BY <2>2
<1> QED  BY <1>4 DEF Max

\* lseek and write to the buffer file.
StoreEffect(s, f, off, data, r) ==
  /\ r \in States
  /\ r.d = s.d /\ r.desc = s.desc /\ r.cached = s.cached /\ r.newCache = s.newCache
  /\ r.stored = s.stored /\ r.server = s.server /\ r.lock = s.lock /\ r.hung = s.hung
  /\ \/ ~r.ok /\ r.got = s.got /\ r.info = s.info /\ r.buf = s.buf
     \/ \E k \in 1..Len(data) :
          /\ off >= s.info[f].start /\ r.ok = s.ok /\ r.got = k
          /\ r.buf = [s.buf EXCEPT ![f] = Splice(@, off - s.info[f].start, SubSeq(data, 1, k))]
          /\ r.info = [s.info EXCEPT ![f].cur = @ + k]

LEMMA StoreLemma ==
  ASSUME NEW s \in States, NEW f \in Files, NEW off \in Nat, NEW data \in Seq(Blocks)
  PROVE  StoreEffect(s, f, off, data, Store(s, f, off, data))
<1> DEFINE k == Fits(s, f, off, Len(data))
           r == Store(s, f, off, data)
           start == s.info[f].start
<1>1. k \in 0..Len(data)
  <2> DEFINE S == {j \in 0..Len(data) : j = 0 \/ off - s.info[f].start + j - Len(s.buf[f]) <= Room(s)}
  <2>1. 0 \in S /\ S \in SUBSET (0..Len(data)) /\ Len(data) \in Nat
    OBVIOUS
  <2>2. Max(S) \in S
    <3> HIDE DEF S
    <3> QED  BY <2>1, MaxInInterval
  <2> QED  BY <2>1, <2>2 DEF Fits
<1>2. /\ start \in Nat /\ s.info \in Infos /\ s.buf \in Texts /\ s.buf[f] \in Seq(Blocks)
      /\ s.info[f] \in [handle : BOOLEAN, commits : Nat, start : Nat, cur : Nat]
  BY DEF States, Infos, Texts
<1> HIDE DEF k
<1>3. CASE off < start \/ k = 0
  <2>1. r = [s EXCEPT !.ok = FALSE]
    BY <1>3 DEF Store, Fail, k
  <2> HIDE DEF r
  <2> QED  BY <2>1 DEF StoreEffect, States, r
<1>4. CASE off >= start /\ k # 0
  <2>0. k \in 1..Len(data) /\ Len(data) \in Nat
    BY <1>1, <1>4
  <2> DEFINE part == SubSeq(data, 1, k)
             B == [s.buf EXCEPT ![f] = Splice(@, off - start, part)]
             I == [s.info EXCEPT ![f].cur = @ + k]
  <2>1. part \in Seq(Blocks)
    BY <2>0, SubText
  <2>2. off - start \in Nat
    BY <1>2, <1>4
  <2>3. Splice(s.buf[f], off - start, part) \in Seq(Blocks)
    <3> DEFINE o == off - start
               b == s.buf[f]
    <3>1. o \in Nat /\ b \in Seq(Blocks)
      BY <1>2, <2>2
    <3> HIDE DEF part, o, b
    <3>2. Splice(b, o, part) \in Seq(Blocks)
      BY <2>1, <3>1, SpliceText
    <3> QED  BY <3>2 DEF o, b
  <2>4. B \in Texts
    BY <1>2, <2>3 DEF Texts
  <2>5. I \in Infos
    <3>0. s.info[f].cur + k \in Nat
      BY <1>2, <2>0
    <3>1. [s.info[f] EXCEPT !.cur = @ + k] \in [handle : BOOLEAN, commits : Nat, start : Nat, cur : Nat]
      BY <1>2, <3>0
    <3> QED  BY <1>2, <3>1 DEF Infos
  <2>6. r = [s EXCEPT !.buf = B, !.info = I, !.got = k]
    <3>1. r = [s EXCEPT !.buf[f] = Splice(@, off - start, part), !.info[f].cur = @ + k, !.got = k]
      BY <1>2, <1>4 DEF Store, k
    <3>2. [s EXCEPT !.buf = B, !.info = I, !.got = k] =
            [s EXCEPT !.buf[f] = Splice(@, off - start, part), !.info[f].cur = @ + k, !.got = k]
      BY DEF States
    <3> QED  BY <3>1, <3>2
  <2> HIDE DEF B, I, r, start, part
  <2>7. k \in Nat
    BY <2>0
  <2>8. /\ r \in States /\ r.d = s.d /\ r.desc = s.desc /\ r.cached = s.cached
        /\ r.newCache = s.newCache /\ r.stored = s.stored /\ r.server = s.server
        /\ r.lock = s.lock /\ r.hung = s.hung /\ r.ok = s.ok /\ r.got = k
        /\ r.buf = B /\ r.info = I
    BY <2>4, <2>5, <2>6, <2>7 DEF States
  <2> QED  BY <1>4, <2>0, <2>8 DEF StoreEffect, B, I, r, start, part
<1> QED  BY <1>1, <1>2, <1>3, <1>4

\* A write to iRODS.
DirectEffect(s, data, w, r) ==
  /\ r \in States
  /\ r.d = s.d /\ r.desc = s.desc /\ r.cached = s.cached /\ r.stored = s.stored
  /\ r.info = s.info /\ r.buf = s.buf /\ r.hung = s.hung
  /\ r.got = s.got \/ r.got = Len(data)
  /\ r.lock = s.lock \/ (RpcErrors /\ r.lock = w)

LEMMA DirectLemma ==
  ASSUME NEW s \in States, NEW off \in Nat, NEW data \in Seq(Blocks), NEW w \in Workers \cup {None},
         NEW r \in WriteDirect(s, off, data, w)
  PROVE  DirectEffect(s, data, w, r)
<1>1. CASE InUse(s, s.d) /\ r = [Through(s, s.d, off, data) EXCEPT !.got = Len(data)]
  <2> DEFINE text == Placed(s.desc[s.d].kind, Text(s, s.d), off, data)
             t == WithText(s, s.d, text)
  <2>1. s.d \in Descs /\ s.desc[s.d].kind # "free"
    BY <1>1 DEF InUse, States
  <2>2. Text(s, s.d) \in Seq(Blocks)
    BY <2>1, TextType
  <2>3. text \in Seq(Blocks)
    BY <2>2, PlacedText
  <2> HIDE DEF text
  <2>4. TextOnly(s, t)
    BY <2>1, <2>3, WithTextOnly
  <2>5. r = [t EXCEPT !.got = Len(data)] /\ Len(data) \in Nat
    BY <1>1 DEF Through, text
  <2> HIDE DEF t
  <2> QED  BY <2>4, <2>5 DEF DirectEffect, TextOnly, States
<1>2. CASE r = Fail(s)
  BY <1>2 DEF Fail, DirectEffect, States
<1>3. CASE RpcErrors /\ r = [Fail(s) EXCEPT !.lock = w]
  BY <1>3 DEF Fail, DirectEffect, States
<1> QED  BY <1>1, <1>2, <1>3 DEF WriteDirect, OrError


\* writeLazyUploadBufferedFile: a commit that fails, a commit and a write to iRODS, or a
\* write to the buffer, before or after a commit.
WriteVia(s, f, off, data, w, c, r) ==
  \/ c \in Commit(s, f, w) /\ ~c.ok /\ r = c
  \/ /\ s.info[f].handle /\ off < s.info[f].start /\ c \in Commit(s, f, w) /\ c.ok
     /\ r \in WriteDirect(c, off, data, w) /\ DirectEffect(c, data, w, r)
  \/ /\ s.info[f].handle /\ off >= s.info[f].start /\ (c = s \/ c \in Commit(s, f, w)) /\ c.ok
     /\ StoreEffect(c, f, off, data, r)

LEMMA LazyWriteLemma ==
  ASSUME NEW s \in States, s.ok, NEW f \in Files, NEW off \in Nat, NEW data \in Seq(Blocks),
         NEW w \in Workers, NEW r \in LazyWrite(s, f, off, data, w)
  PROVE  \E c \in States : WriteVia(s, f, off, data, w, c, r)
<1>1. s.info[f].start \in Nat /\ s.info[f].handle \in BOOLEAN
  BY DEF States, Infos
<1>2. \A c \in Commit(s, f, w) : c \in States
  BY CommitLemma
<1>3. CASE ~s.info[f].handle
  <2>1. r = Fail(s) /\ Fail(s) \in Commit(s, f, w)
    BY <1>3 DEF LazyWrite, Commit
  <2>2. ~Fail(s).ok
    BY DEF Fail, States
  <2> QED  BY <1>2, <2>1, <2>2 DEF WriteVia
<1>4. CASE s.info[f].handle /\ off < s.info[f].start
  <2>1. PICK c \in Commit(s, f, w) : r \in IF c.ok THEN WriteDirect(c, off, data, w) ELSE {c}
    BY <1>1, <1>4 DEF LazyWrite
  <2>2. c \in States
    BY <1>2
  <2>3. c.ok => DirectEffect(c, data, w, r)
    BY <2>1, <2>2, DirectLemma
  <2> QED  BY <1>4, <2>1, <2>2, <2>3 DEF WriteVia
<1>5. CASE s.info[f].handle /\ off >= s.info[f].start
  <2>1. r \in WriteBuffered(s, f, off, data, w)
    BY <1>1, <1>5 DEF LazyWrite
  <2>2. CASE r = Store(s, f, off, data)
    <3>1. StoreEffect(s, f, off, data, r)
      BY <2>2, StoreLemma
    <3> QED  BY <1>5, <3>1 DEF WriteVia
  <2>3. CASE \E c \in Commit(s, f, w) : r = IF c.ok THEN Store(c, f, off, data) ELSE c
    <3>1. PICK c \in Commit(s, f, w) : r = IF c.ok THEN Store(c, f, off, data) ELSE c
      BY <2>3
    <3>2. c \in States
      BY <1>2
    <3>3. c.ok => StoreEffect(c, f, off, data, r)
      BY <3>1, <3>2, StoreLemma
    <3> QED  BY <1>5, <3>1, <3>2, <3>3 DEF WriteVia
  <2> QED  BY <2>1, <2>2, <2>3 DEF WriteBuffered
<1> QED  BY <1>1, <1>3, <1>4, <1>5

LEMMA LazyWriteTypes ==
  ASSUME NEW s \in States, s.ok, s.got = 0, NEW f \in Files, NEW off \in Nat,
         NEW data \in Seq(Blocks), NEW w \in Workers, NEW r \in LazyWrite(s, f, off, data, w)
  PROVE  r \in States /\ r.got \in 0..Len(data) /\ DescEffect(s, f, r)
<1>1. PICK c \in States : WriteVia(s, f, off, data, w, c, r)
  BY LazyWriteLemma
<1>2. DescEffect(s, f, c) /\ c.got = 0
  <2>1. c = s \/ c \in Commit(s, f, w)
    BY <1>1 DEF WriteVia
  <2>2. CASE c = s
    BY <2>2 DEF DescEffect
  <2>3. CASE c \in Commit(s, f, w)
    BY <2>3, CommitLemma
  <2> QED  BY <2>1, <2>2, <2>3
<1>3. Len(data) \in Nat
  OBVIOUS
<1>4. r = c \/ DirectEffect(c, data, w, r) \/ StoreEffect(c, f, off, data, r)
  BY <1>1 DEF WriteVia
<1>5. /\ r \in States /\ r.got \in 0..Len(data)
      /\ r.d = c.d /\ r.desc = c.desc /\ r.cached = c.cached /\ r.stored = c.stored
  <2>1. CASE r = c
    BY <1>2, <1>3, <2>1
  <2>2. CASE DirectEffect(c, data, w, r)
    BY <1>2, <1>3, <2>2 DEF DirectEffect
  <2>3. CASE StoreEffect(c, f, off, data, r)
    <3>1. r.got = c.got \/ r.got \in 1..Len(data)
      BY <2>3 DEF StoreEffect
    <3>2. r.got \in 0..Len(data)
      BY <1>2, <1>3, <3>1
    <3> QED  BY <2>3, <3>2 DEF StoreEffect
  <2> QED  BY <1>4, <2>1, <2>2, <2>3
<1> QED  BY <1>2, <1>5 DEF DescEffect

-------------------------------------------------------------------------------
(***************************************************************************)
(* Types                                                                   *)
(***************************************************************************)
FhType == [at : {"idle", "checked", "open"}, file : Files \cup {None},
           desc : Descs \cup {None}, synced : BOOLEAN]
SlotType == [file : Files \cup {None}, desc : Descs \cup {None}, used : BOOLEAN]

HandleFiles == \A h \in Handles : fh[h].at # "idle" => fh[h].file \in Files

TypeInv == TypeOK /\ desc \in DescTables /\ HandleFiles

LazyTypes ==
  /\ info \in Infos /\ buf \in Texts /\ newCache \in Texts /\ server \in Texts
  /\ cached \in SUBSET Files /\ stored \in SUBSET Files /\ desc \in DescTables
  /\ lock \in Workers \cup {None} /\ hung \in SUBSET Workers

OtherTypes ==
  /\ created \in SUBSET Files /\ opened \in SUBSET Files
  /\ written \in Texts /\ ops \in 0..MaxOps
  /\ slots \in [1..NewSlots -> SlotType]
  /\ fh \in [Handles -> FhType] /\ HandleFiles

LEMMA NowState ==
  ASSUME TypeInv, NEW d \in Descs \cup {None}
  PROVE  /\ Now(d) \in States /\ Now(d).ok /\ Now(d).got = 0 /\ Now(d).d = d
         /\ Now(d).info = info /\ Now(d).buf = buf /\ Now(d).desc = desc
         /\ Now(d).cached = cached /\ Now(d).stored = stored /\ Now(d).lock = lock
         /\ Now(d).hung = hung /\ Now(d).server = server /\ Now(d).newCache = newCache
<1>1. /\ info \in Infos /\ buf \in Texts /\ newCache \in Texts /\ server \in Texts
      /\ cached \in SUBSET Files /\ stored \in SUBSET Files /\ desc \in DescTables
      /\ lock \in Workers \cup {None} /\ hung \in SUBSET Workers
  BY DEF TypeInv, TypeOK, Infos, Texts, Blocks
<1> QED  BY <1>1 DEF Now, States

LEMMA BecomeTypes ==
  ASSUME NEW r \in States, Become(r)
  PROVE  LazyTypes' /\ r.d \in Descs \cup {None}
BY DEF Become, States, LazyTypes

\* TypeOK, part by part.
LEMMA TypeParts ==
  ASSUME TypeInv
  PROVE  LazyTypes /\ OtherTypes
BY DEF LazyTypes, OtherTypes, TypeInv, TypeOK, Texts, Blocks, Infos, SlotType, FhType

LEMMA TypesTogether ==
  ASSUME LazyTypes', OtherTypes'
  PROVE  TypeInv'
<1>1. desc' \in [Descs -> [file : Files \cup {None}, kind : Kinds]]
  BY DEF DescTables, LazyTypes
<1> QED  BY <1>1 DEF LazyTypes, OtherTypes, TypeInv, TypeOK, Texts, Blocks, Infos, SlotType, FhType


\* The step of Write, taken apart: size blocks at off, with the outcome r.
Data(size) == [i \in 1..size |-> ops + 1]

Wrote(h, w, f, size, off, r) ==
  /\ f = fh[h].file /\ f \in Files /\ fh[h].at = "open" /\ Ready(w)
  /\ fh[h].desc \in Descs \cup {None} /\ ops \in 0..MaxOps - 1 /\ ops' = ops + 1
  /\ UNCHANGED <<created, opened, slots>>
  /\ size \in 1..MaxSize /\ off \in 0..Len(written[f])
  /\ Data(size) \in Seq(Blocks) /\ Len(Data(size)) = size /\ Allowed(f, off, size)
  /\ r \in IF f \in opened THEN LazyWrite(Now(fh[h].desc), f, off, Data(size), w)
                           ELSE WriteDirect(Now(fh[h].desc), off, Data(size), lock)
  /\ r \in States /\ Become(r) /\ r.got \in 0..size
  /\ written' = IF r.got = 0 THEN written
                ELSE [written EXCEPT ![f] = Splice(@, off, SubSeq(Data(size), 1, r.got))]
  /\ fh' = [k \in Handles |-> [fh[k] EXCEPT !.synced = @ /\ fh[k].file # f,
                                            !.desc = IF k = h THEN r.d ELSE @]]

LEMMA WriteStep ==
  ASSUME TypeInv, NEW h \in Handles, NEW w \in Workers, Write(h, w)
  PROVE  \E f, size, off, r : Wrote(h, w, f, size, off, r)
<1> DEFINE f == fh[h].file
           s == Now(fh[h].desc)
<1>1. LazyTypes /\ OtherTypes
  BY TypeParts
<1>2. /\ f \in Files /\ fh[h].at = "open" /\ Ready(w) /\ fh[h].desc \in Descs \cup {None}
      /\ ops \in 0..MaxOps /\ ops < MaxOps /\ MaxOps \in Nat /\ ops' = ops + 1
      /\ UNCHANGED <<created, opened, slots>>
  BY <1>1, LazyAssumption DEF Write, OtherTypes, HandleFiles, FhType
<1>3. s \in States /\ s.ok /\ s.got = 0 /\ lock \in Workers \cup {None}
  BY <1>1, <1>2, NowState DEF LazyTypes
<1>4. PICK size \in 1..MaxSize, off \in 0..Len(written[f]) :
        /\ Allowed(f, off, size)
        /\ \E r \in IF f \in opened THEN LazyWrite(s, f, off, [i \in 1..size |-> ops + 1], w)
                    ELSE WriteDirect(s, off, [i \in 1..size |-> ops + 1], lock) :
             /\ Become(r)
             /\ written' = IF r.got = 0 THEN written
                           ELSE [written EXCEPT ![f] =
                                   Splice(@, off, SubSeq([i \in 1..size |-> ops + 1], 1, r.got))]
             /\ fh' = [k \in Handles |->
                         [fh[k] EXCEPT !.synced = @ /\ fh[k].file # f,
                                       !.desc = IF k = h THEN r.d ELSE @]]
  BY DEF Write
<1> DEFINE data == [i \in 1..size |-> ops + 1]
<1>5. data \in Seq(Blocks) /\ Len(data) = size /\ size \in Nat /\ off \in Nat
  <2>1. ops + 1 \in Blocks /\ size \in Nat
    BY <1>2, LazyAssumption DEF Blocks
  <2>2. Len(written[f]) \in Nat
    BY <1>1, <1>2 DEF OtherTypes, Texts
  <2>3. off \in Nat
    BY <2>2
  <2> HIDE DEF f
  <2> QED  BY <2>1, <2>3
<1> HIDE DEF s, f, data
<1>6. PICK r \in IF f \in opened THEN LazyWrite(s, f, off, data, w)
                 ELSE WriteDirect(s, off, data, lock) :
             /\ Become(r)
             /\ written' = IF r.got = 0 THEN written
                           ELSE [written EXCEPT ![f] = Splice(@, off, SubSeq(data, 1, r.got))]
             /\ fh' = [k \in Handles |->
                         [fh[k] EXCEPT !.synced = @ /\ fh[k].file # f,
                                       !.desc = IF k = h THEN r.d ELSE @]]
  BY <1>4 DEF data
<1>7. r \in States /\ r.got \in 0..size
  <2>1. CASE f \in opened
    BY <1>2, <1>3, <1>5, <1>6, <2>1, LazyWriteTypes DEF f
  <2>2. CASE f \notin opened
    <3>1. DirectEffect(s, data, lock, r)
      BY <1>3, <1>5, <1>6, <2>2, DirectLemma
    <3> QED  BY <1>3, <1>5, <3>1 DEF DirectEffect
  <2> QED  BY <2>1, <2>2
<1>8. ops \in 0..MaxOps - 1
  BY <1>2
<1>9. data = Data(size)
  BY DEF data, Data
<1>10. Wrote(h, w, f, size, off, r)
  BY <1>2, <1>4, <1>5, <1>6, <1>7, <1>8, <1>9 DEF Wrote, f, s
<1> QED  BY <1>10


LEMMA WrittenText ==
  ASSUME NEW text \in Seq(Blocks), NEW data \in Seq(Blocks), NEW off \in Nat,
         NEW k \in 0..Len(data)
  PROVE  /\ Splice(text, off, SubSeq(data, 1, k)) \in Seq(Blocks)
         /\ Len(Splice(text, off, SubSeq(data, 1, k))) =
              IF Len(text) >= off + k THEN Len(text) ELSE off + k
<1> DEFINE part == SubSeq(data, 1, k)
<1>1. part \in Seq(Blocks) /\ Len(part) = k
  BY SubText
<1> HIDE DEF part
<1>2. /\ Splice(text, off, part) \in Seq(Blocks)
      /\ Len(Splice(text, off, part)) = IF Len(text) >= off + Len(part) THEN Len(text)
                                        ELSE off + Len(part)
  BY <1>1, SpliceText
<1> QED  BY <1>1, <1>2 DEF part

LEMMA TypeWrite ==
  ASSUME TypeInv, NEW h \in Handles, NEW w \in Workers, Write(h, w)
  PROVE  TypeInv'
<1>1. PICK f, size, off, r : Wrote(h, w, f, size, off, r)
  BY WriteStep
<1>2. LazyTypes /\ OtherTypes
  BY TypeParts
<1>3. LazyTypes' /\ r.d \in Descs \cup {None}
  BY <1>1, BecomeTypes DEF Wrote
<1>4. written' \in Texts
  <2>0. f \in Files /\ written[f] \in Seq(Blocks)
    BY <1>1, <1>2 DEF Wrote, OtherTypes, Texts
  <2>1. off \in Nat /\ Data(size) \in Seq(Blocks) /\ r.got \in 0..Len(Data(size))
    <3>1. /\ off \in 0..Len(written[f]) /\ Data(size) \in Seq(Blocks)
          /\ Len(Data(size)) = size /\ r.got \in 0..size
      BY <1>1 DEF Wrote
    <3>2. Len(written[f]) \in Nat
      BY <2>0
    <3> QED  BY <3>1, <3>2
  <2>2. Splice(written[f], off, SubSeq(Data(size), 1, r.got)) \in Seq(Blocks)
    BY <2>0, <2>1, WrittenText
  <2> QED  BY <1>1, <1>2, <2>2 DEF Wrote, OtherTypes, Texts
<1>5. ops' \in 0..MaxOps
  <2>1. ops \in 0..MaxOps - 1 /\ ops' = ops + 1
    BY <1>1 DEF Wrote
  <2>2. MaxOps \in Nat
    BY LazyAssumption
  <2> QED  BY <2>1, <2>2
<1>6. fh' \in [Handles -> FhType] /\ HandleFiles'
  <2>1. ASSUME NEW k \in Handles
        PROVE  /\ fh'[k] \in FhType /\ fh'[k].at = fh[k].at /\ fh'[k].file = fh[k].file
    <3>1. fh[k] \in FhType
      BY <1>2 DEF OtherTypes
    <3>2. fh'[k] = [fh[k] EXCEPT !.synced = @ /\ fh[k].file # f, !.desc = IF k = h THEN r.d ELSE @]
      BY <1>1 DEF Wrote
    <3> QED  BY <1>3, <3>1, <3>2 DEF FhType
  <2>2. fh' = [k \in Handles |-> fh'[k]]
    BY <1>1 DEF Wrote
  <2> QED  BY <1>2, <2>1, <2>2 DEF OtherTypes, HandleFiles
<1>7. OtherTypes'
  BY <1>1, <1>2, <1>4, <1>5, <1>6 DEF OtherTypes, Wrote
<1> QED  BY <1>3, <1>7, TypesTogether

\* The step of Flush, taken apart.
Flushed(h, w, f, r) ==
  /\ f = fh[h].file /\ f \in Files /\ fh[h].at = "open" /\ Ready(w)
  /\ fh[h].desc \in Descs \cup {None}
  /\ r \in IF f \in opened THEN Commit(Now(fh[h].desc), f, w) ELSE {Now(fh[h].desc)}
  /\ r \in States /\ Become(r) /\ DescEffect(Now(fh[h].desc), f, r)
  /\ fh' = [fh EXCEPT ![h].synced = w \notin r.hung, ![h].desc = r.d]
  /\ UNCHANGED <<created, opened, slots, written, ops>>

LEMMA FlushStep ==
  ASSUME TypeInv, NEW h \in Handles, NEW w \in Workers, Flush(h, w)
  PROVE  \E f, r : Flushed(h, w, f, r)
<1> DEFINE f == fh[h].file
           s == Now(fh[h].desc)
<1>1. LazyTypes /\ OtherTypes
  BY TypeParts
<1>2. f \in Files /\ fh[h].at = "open" /\ Ready(w) /\ fh[h].desc \in Descs \cup {None}
  BY <1>1 DEF Flush, OtherTypes, HandleFiles, FhType
<1>3. s \in States /\ s.ok
  BY <1>2, NowState
<1>4. PICK r \in IF f \in opened THEN Commit(s, f, w) ELSE {s} :
        Become(r) /\ fh' = [fh EXCEPT ![h].synced = w \notin r.hung, ![h].desc = r.d]
  BY DEF Flush
<1>5. r \in States /\ DescEffect(s, f, r)
  <2>1. CASE f \in opened
    BY <1>2, <1>3, <1>4, <2>1, CommitLemma
  <2>2. CASE f \notin opened
    BY <1>3, <1>4, <2>2 DEF DescEffect
  <2> QED  BY <2>1, <2>2
<1>6. UNCHANGED <<created, opened, slots, written, ops>>
  BY DEF Flush
<1> HIDE DEF s, f
<1>7. Flushed(h, w, f, r)
  BY <1>2, <1>4, <1>5, <1>6 DEF Flushed, s, f
<1> QED  BY <1>7

LEMMA TypeFlush ==
  ASSUME TypeInv, NEW h \in Handles, NEW w \in Workers, Flush(h, w)
  PROVE  TypeInv'
<1>1. PICK f, r : Flushed(h, w, f, r)
  BY FlushStep
<1>2. LazyTypes /\ OtherTypes
  BY TypeParts
<1>3. LazyTypes' /\ r.d \in Descs \cup {None}
  BY <1>1, BecomeTypes DEF Flushed
<1>4. fh[h] \in FhType /\ fh'[h] = [fh[h] EXCEPT !.synced = w \notin r.hung, !.desc = r.d]
      /\ \A k \in Handles \ {h} : fh'[k] = fh[k]
  BY <1>1, <1>2 DEF Flushed, OtherTypes
<1>5. fh'[h] \in FhType /\ fh'[h].at = fh[h].at /\ fh'[h].file = fh[h].file
  BY <1>3, <1>4 DEF FhType
<1>6. fh' \in [Handles -> FhType] /\ HandleFiles'
  BY <1>1, <1>2, <1>4, <1>5 DEF Flushed, OtherTypes, HandleFiles
<1>7. OtherTypes'
  BY <1>1, <1>2, <1>6 DEF OtherTypes, Flushed
<1> QED  BY <1>3, <1>7, TypesTogether

LEMMA IdleType == Idle \in FhType /\ Idle.at = "idle" /\ Idle.desc = None /\ Idle.file = None
BY DEF Idle, FhType

LEMMA FreeTypes ==
  /\ FreeDesc \in [file : Files \cup {None}, kind : Kinds] /\ FreeDesc.kind = "free"
  /\ FreeSlot \in SlotType /\ FreeSlot.desc = None /\ FreeSlot.file = None /\ ~FreeSlot.used
BY DEF FreeDesc, FreeSlot, SlotType, Kinds

\* The step of Release, taken apart.
Released(h, w, f, d, r) ==
  /\ f = fh[h].file /\ d = fh[h].desc /\ f \in Files /\ d \in Descs \cup {None}
  /\ fh[h].at = "open" /\ fh[h].synced /\ Ready(w)
  /\ r \in States /\ Become(r)
  /\ IF InUse(Now(d), d)
       THEN /\ d \in Descs /\ r.desc = [desc EXCEPT ![d] = FreeDesc]
            /\ IF r.ok /\ desc[d].kind = "cache"
                 THEN f \in cached /\ r.stored = stored \cup {f}
                      /\ r.server = [server EXCEPT ![f] = newCache[f]]
                 ELSE r.stored = stored /\ r.server = server
            /\ ~r.ok => RpcErrors \/ (desc[d].kind = "cache" /\ f \notin cached)
       ELSE r.desc = desc /\ r.stored = stored /\ r.server = server
  /\ r.cached = cached /\ r.newCache = newCache /\ r.lock = lock /\ r.hung = hung
  /\ IF f \in opened
       THEN r.info = [info EXCEPT ![f] = NoInfo] /\ r.buf = [buf EXCEPT ![f] = <<>>]
       ELSE r.info = info /\ r.buf = buf
  /\ opened' = opened \ {f}
  /\ fh' = [fh EXCEPT ![h] = Idle]
  /\ UNCHANGED <<created, slots, written, ops>>

LEMMA ReleaseStep ==
  ASSUME TypeInv, NEW h \in Handles, NEW w \in Workers, Release(h, w)
  PROVE  \E f, d, r : Released(h, w, f, d, r)
<1> DEFINE f == fh[h].file
           d == fh[h].desc
           n == Now(d)
           s == IF f \in opened THEN [n EXCEPT !.info[f] = NoInfo, !.buf[f] = <<>>] ELSE n
<1>1. LazyTypes /\ OtherTypes
  BY TypeParts
<1>2. f \in Files /\ fh[h].at = "open" /\ fh[h].synced /\ Ready(w) /\ d \in Descs \cup {None}
  BY <1>1 DEF Release, OtherTypes, HandleFiles, FhType
<1>3. /\ n \in States /\ n.ok /\ n.info = info /\ n.buf = buf /\ n.desc = desc /\ n.d = d
      /\ n.cached = cached /\ n.stored = stored /\ n.lock = lock /\ n.hung = hung
      /\ n.server = server /\ n.newCache = newCache
  BY <1>2, NowState
<1>4. PICK r \in IF InUse(s, d) THEN CloseAndFree(s, f, d) ELSE {s} : Become(r)
  BY DEF Release
<1>5. opened' = opened \ {f} /\ fh' = [fh EXCEPT ![h] = Idle] /\ UNCHANGED <<created, slots, written, ops>>
  BY DEF Release
<1> HIDE DEF n, f, d
<1>6. /\ s \in States /\ s.ok /\ s.desc = desc /\ s.cached = cached /\ s.stored = stored
      /\ s.lock = lock /\ s.hung = hung /\ s.server = server /\ s.newCache = newCache
      /\ IF f \in opened
           THEN s.info = [info EXCEPT ![f] = NoInfo] /\ s.buf = [buf EXCEPT ![f] = <<>>]
           ELSE s.info = info /\ s.buf = buf
  <2>1. CASE f \notin opened
    BY <1>3, <2>1
  <2>2. CASE f \in opened
    <3> DEFINE I == [info EXCEPT ![f] = NoInfo]
               B == [buf EXCEPT ![f] = <<>>]
    <3>1. NoInfo \in [handle : BOOLEAN, commits : Nat, start : Nat, cur : Nat]
      BY DEF NoInfo
    <3>2. I \in Infos
      BY <1>1, <3>1 DEF LazyTypes, Infos
    <3>3. B \in Texts
      BY <1>1, <1>2 DEF LazyTypes, Texts
    <3>4. s = [n EXCEPT !.info = I, !.buf = B]
      BY <1>3, <2>2 DEF States
    <3> HIDE DEF I, B, s
    <3>5. /\ s \in States /\ s.ok = n.ok /\ s.desc = n.desc /\ s.cached = n.cached
          /\ s.stored = n.stored /\ s.lock = n.lock /\ s.hung = n.hung /\ s.server = n.server
          /\ s.newCache = n.newCache /\ s.info = I /\ s.buf = B
      BY <1>3, <3>2, <3>3, <3>4 DEF States
    <3> QED  BY <1>3, <2>2, <3>5 DEF I, B
  <2> QED  BY <2>1, <2>2
<1> HIDE DEF s
<1>7. InUse(s, d) = InUse(n, d) /\ (InUse(s, d) => d \in Descs)
  BY <1>2, <1>3, <1>6 DEF InUse
<1>8. CASE InUse(s, d)
  <2>1. CloseEffect(s, f, d, r)
    BY <1>2, <1>4, <1>6, <1>7, <1>8, CloseLemma
  <2>2. Released(h, w, f, d, r)
    BY <1>2, <1>4, <1>5, <1>6, <1>7, <1>8, <2>1 DEF CloseEffect, Released, n, f, d
  <2> QED  BY <2>2
<1>9. CASE ~InUse(s, d)
  <2>1. r = s
    BY <1>4, <1>9
  <2>2. Released(h, w, f, d, r)
    BY <1>2, <1>4, <1>5, <1>6, <1>7, <1>9, <2>1 DEF Released, n, f, d
  <2> QED  BY <2>2
<1> QED  BY <1>8, <1>9

LEMMA TypeRelease ==
  ASSUME TypeInv, NEW h \in Handles, NEW w \in Workers, Release(h, w)
  PROVE  TypeInv'
<1>1. PICK f, d, r : Released(h, w, f, d, r)
  BY ReleaseStep
<1>2. LazyTypes /\ OtherTypes
  BY TypeParts
<1>3. LazyTypes'
  BY <1>1, BecomeTypes DEF Released
<1>4. OtherTypes'
  BY <1>1, <1>2, IdleType DEF OtherTypes, Released, HandleFiles
<1> QED  BY <1>3, <1>4, TypesTogether


LEMMA UnusedNow ==
  ASSUME TypeInv
  PROVE  /\ \A d \in Descs : d \in Unused(Now(None)) <=> desc[d].kind = "free"
         /\ \A d \in Descs \cup {None} :
              InUse(Now(None), d) <=> d \in Descs /\ desc[d].kind # "free"
         /\ Unused(Now(None)) \subseteq Descs
<1>1. Now(None).desc = desc
  BY NowState
<1> QED  BY <1>1, LazyAssumption DEF Unused, InUse

\* The step of Mknod, taken apart: the slots of T have timed out, those of valid are
\* closed, and the new file gets the descriptor d and the slot new.
Made(f, w, d, T, bad, new, valid, put) ==
  /\ Ready(w) /\ f \notin created \cup opened \cup stored
  /\ d \in Descs /\ desc[d].kind = "free" /\ (T = {} \/ SlotTimeouts)
  /\ T \subseteq {i \in 1..NewSlots : slots[i].used}
  /\ new = IF NewSlot(T) <= NewSlots THEN NewSlot(T) ELSE Max({1, NewSlots - 1})
  /\ valid = {i \in Closing(T) : InUse(Now(None), slots[i].desc)}
  /\ put = {slots[i].file : i \in valid \ bad} \cap cached
  /\ server' = [g \in Files |-> IF g \in put THEN newCache[g] ELSE server[g]]
  /\ stored' = stored \cup put
  /\ desc' = [e \in Descs |-> IF e = d THEN [file |-> f, kind |-> "cache"]
                              ELSE IF \E i \in valid : slots[i].desc = e THEN FreeDesc
                              ELSE desc[e]]
  /\ slots' = [i \in 1..NewSlots |->
                 IF i = new THEN [file |-> f, desc |-> d, used |-> i \notin T \cap valid]
                 ELSE IF i \in valid THEN FreeSlot
                 ELSE [slots[i] EXCEPT !.used = @ /\ i \notin T]]
  /\ cached' = cached \cup {f} /\ created' = created \cup {f}
  /\ UNCHANGED <<opened, info, buf, newCache, fh, lock, hung, written, ops>>

LEMMA MknodStep ==
  ASSUME TypeInv, NEW f \in Files, NEW w \in Workers, Mknod(f, w)
  PROVE  \E d, T, bad, new, valid, put : Made(f, w, d, T, bad, new, valid, put)
<1>1. PICK d \in Unused(Now(None)), T \in SUBSET {i \in 1..NewSlots : slots[i].used},
           bad \in IF RpcErrors THEN SUBSET (1..NewSlots) ELSE {{}} :
       LET new   == IF NewSlot(T) <= NewSlots THEN NewSlot(T) ELSE Max({1, NewSlots - 1})
           valid == {i \in Closing(T) : InUse(Now(None), slots[i].desc)}
           put   == {slots[i].file : i \in valid \ bad} \cap cached
       IN /\ T = {} \/ SlotTimeouts
          /\ server' = [g \in Files |-> IF g \in put THEN newCache[g] ELSE server[g]]
          /\ stored' = stored \cup put
          /\ desc' = [e \in Descs |->
                        IF e = d THEN [file |-> f, kind |-> "cache"]
                        ELSE IF \E i \in valid : slots[i].desc = e THEN FreeDesc
                        ELSE desc[e]]
          /\ slots' = [i \in 1..NewSlots |->
                        IF i = new
                          THEN [file |-> f, desc |-> d, used |-> i \notin T \cap valid]
                        ELSE IF i \in valid THEN FreeSlot
                        ELSE [slots[i] EXCEPT !.used = @ /\ i \notin T]]
  BY DEF Mknod
<1> DEFINE new == IF NewSlot(T) <= NewSlots THEN NewSlot(T) ELSE Max({1, NewSlots - 1})
           valid == {i \in Closing(T) : InUse(Now(None), slots[i].desc)}
           put == {slots[i].file : i \in valid \ bad} \cap cached
<1>2. d \in Descs /\ desc[d].kind = "free"
  BY UnusedNow
<1>3. /\ Ready(w) /\ f \notin created \cup opened \cup stored
      /\ cached' = cached \cup {f} /\ created' = created \cup {f}
      /\ UNCHANGED <<opened, info, buf, newCache, fh, lock, hung, written, ops>>
  BY DEF Mknod
<1>4. Made(f, w, d, T, bad, new, valid, put)
  BY <1>1, <1>2, <1>3 DEF Made
<1> HIDE DEF new, valid, put
<1> QED  BY <1>4

LEMMA TypeMknod ==
  ASSUME TypeInv, NEW f \in Files, NEW w \in Workers, Mknod(f, w)
  PROVE  TypeInv'
<1>1. PICK d, T, bad, new, valid, put : Made(f, w, d, T, bad, new, valid, put)
  BY MknodStep
<1>2. LazyTypes /\ OtherTypes
  BY TypeParts
<1>3. put \subseteq Files
  BY <1>1, <1>2 DEF Made, LazyTypes
<1>4. desc' \in DescTables
  <2>1. [file |-> f, kind |-> "cache"] \in [file : Files \cup {None}, kind : Kinds]
    BY DEF Kinds
  <2>2. ASSUME NEW e \in Descs
        PROVE  /\ desc'[e] \in [file : Files \cup {None}, kind : Kinds]
               /\ desc'[e].kind # "free" => desc'[e].file \in Files
    <3>1. desc'[e] = [file |-> f, kind |-> "cache"] \/ desc'[e] = FreeDesc \/ desc'[e] = desc[e]
      BY <1>1 DEF Made
    <3> QED  BY <1>2, <2>1, <3>1, FreeTypes DEF LazyTypes, DescTables
  <2>3. desc' = [e \in Descs |-> desc'[e]]
    BY <1>1 DEF Made
  <2> QED  BY <2>2, <2>3 DEF DescTables
<1>5. slots' \in [1..NewSlots -> SlotType]
  <2>1. ASSUME NEW i \in 1..NewSlots PROVE slots'[i] \in SlotType
    <3>1. slots[i] \in SlotType
      BY <1>2 DEF OtherTypes
    <3>2. [file |-> f, desc |-> d, used |-> i \notin T \cap valid] \in SlotType
      BY <1>1 DEF Made, SlotType
    <3>3. [slots[i] EXCEPT !.used = @ /\ i \notin T] \in SlotType
      BY <3>1 DEF SlotType
    <3>4. \/ slots'[i] = [file |-> f, desc |-> d, used |-> i \notin T \cap valid]
          \/ slots'[i] = FreeSlot
          \/ slots'[i] = [slots[i] EXCEPT !.used = @ /\ i \notin T]
      BY <1>1 DEF Made
    <3> QED  BY <3>2, <3>3, <3>4, FreeTypes
  <2>2. slots' = [i \in 1..NewSlots |-> slots'[i]]
    BY <1>1 DEF Made
  <2> QED  BY <2>1, <2>2
<1>6. server' \in Texts
  BY <1>1, <1>2 DEF Made, LazyTypes, Texts
<1>7. /\ stored' \in SUBSET Files /\ cached' \in SUBSET Files /\ created' \in SUBSET Files
      /\ UNCHANGED <<opened, info, buf, newCache, fh, lock, hung, written, ops>>
  BY <1>1, <1>2, <1>3 DEF Made, LazyTypes, OtherTypes
<1>8. LazyTypes'
  BY <1>2, <1>4, <1>6, <1>7 DEF LazyTypes
<1>9. OtherTypes'
  BY <1>2, <1>5, <1>7 DEF OtherTypes, HandleFiles
<1> QED  BY <1>8, <1>9, TypesTogether

LEMMA TypeOpenCheck ==
  ASSUME TypeInv, NEW h \in Handles, NEW f \in Files, NEW w \in Workers, OpenCheck(h, f, w)
  PROVE  TypeInv'
<1>1. LazyTypes /\ OtherTypes
  BY TypeParts
<1>2. [Idle EXCEPT !.at = "checked", !.file = f] \in FhType
  BY DEF Idle, FhType
<1>3. LazyTypes'
  BY <1>1 DEF OpenCheck, lazyVars, LazyTypes
<1>4. fh' \in [Handles -> FhType] /\ HandleFiles'
  <2>1. [Idle EXCEPT !.at = "checked", !.file = f].file = f
    BY DEF Idle
  <2> QED  BY <1>1, <1>2, <2>1 DEF OpenCheck, OtherTypes, HandleFiles
<1>5. OtherTypes'
  BY <1>1, <1>4 DEF OpenCheck, OtherTypes
<1> QED  BY <1>3, <1>5, TypesTogether

LEMMA ClearedType ==
  ASSUME TypeInv, NEW f
  PROVE  Cleared(f) \in [1..NewSlots -> SlotType]
BY TypeParts, FreeTypes DEF Cleared, OtherTypes

LEMMA TypeOpenNew ==
  ASSUME TypeInv, NEW h \in Handles, NEW w \in Workers, OpenNew(h, w)
  PROVE  TypeInv'
<1> DEFINE f == fh[h].file
<1>1. LazyTypes /\ OtherTypes
  BY TypeParts
<1>2. f \in Files /\ fh[h] \in FhType /\ fh[h].at = "checked"
  BY <1>1 DEF OpenNew, OtherTypes, HandleFiles
<1>3. PICK d \in Kept(f) : fh' = [fh EXCEPT ![h].at = "open", ![h].desc = d]
  BY DEF OpenNew
<1>4. d \in Descs \cup {None}
  BY <1>1 DEF Kept, OtherTypes, SlotType
<1>5. fh' \in [Handles -> FhType] /\ HandleFiles'
  <2>1. fh'[h] = [fh[h] EXCEPT !.at = "open", !.desc = d] /\ \A k \in Handles \ {h} : fh'[k] = fh[k]
    BY <1>1, <1>3 DEF OtherTypes
  <2>2. fh'[h] \in FhType /\ fh'[h].file = f
    BY <1>2, <1>4, <2>1 DEF FhType
  <2> QED  BY <1>1, <1>2, <1>3, <2>1, <2>2 DEF OtherTypes, HandleFiles
<1>6. slots' \in [1..NewSlots -> SlotType]
  BY ClearedType DEF OpenNew
<1>7. info' \in Infos /\ buf' \in Texts /\ opened' \in SUBSET Files /\ created' \in SUBSET Files
  <2>1. [NoInfo EXCEPT !.handle = TRUE] \in [handle : BOOLEAN, commits : Nat, start : Nat, cur : Nat]
    BY DEF NoInfo
  <2> HIDE DEF f
  <2>2. /\ [info EXCEPT ![f] = [NoInfo EXCEPT !.handle = TRUE]] \in Infos
        /\ [buf EXCEPT ![f] = <<>>] \in Texts
    BY <1>1, <1>2, <2>1 DEF LazyTypes, Infos, Texts
  <2> QED  BY <1>1, <1>2, <2>2 DEF OpenNew, LazyTypes, OtherTypes, f
<1>8. UNCHANGED <<cached, newCache, desc, stored, server, lock, hung, written, ops>>
  BY DEF OpenNew
<1>9. LazyTypes' /\ OtherTypes'
  BY <1>1, <1>5, <1>6, <1>7, <1>8 DEF LazyTypes, OtherTypes
<1> QED  BY <1>9, TypesTogether

LEMMA TypeOpenStored ==
  ASSUME TypeInv, NEW h \in Handles, NEW w \in Workers, OpenStored(h, w)
  PROVE  TypeInv'
<1> DEFINE f == fh[h].file
<1>1. LazyTypes /\ OtherTypes
  BY TypeParts
<1>2. f \in Files /\ fh[h] \in FhType
  BY <1>1 DEF OpenStored, OtherTypes, HandleFiles
<1>3. slots' \in [1..NewSlots -> SlotType]
  BY <1>1, ClearedType DEF OpenStored, OtherTypes
<1>4. /\ UNCHANGED <<created, opened, info, buf, cached, newCache, stored, server, lock,
                     hung, written, ops>>
      /\ \/ \E d \in Unused(Now(None)) :
               /\ desc' = [desc EXCEPT ![d] = [file |-> f, kind |-> "plain"]]
               /\ fh' = [fh EXCEPT ![h].at = "open", ![h].desc = d]
         \/ fh' = [fh EXCEPT ![h] = Idle] /\ UNCHANGED desc
  BY DEF OpenStored
<1> HIDE DEF f
<1>5. desc' \in DescTables /\ fh' \in [Handles -> FhType] /\ HandleFiles'
  <2>1. CASE fh' = [fh EXCEPT ![h] = Idle] /\ UNCHANGED desc
    BY <1>1, <2>1, IdleType DEF LazyTypes, OtherTypes, HandleFiles
  <2>2. ASSUME NEW d \in Unused(Now(None)),
               desc' = [desc EXCEPT ![d] = [file |-> f, kind |-> "plain"]],
               fh' = [fh EXCEPT ![h].at = "open", ![h].desc = d]
        PROVE  desc' \in DescTables /\ fh' \in [Handles -> FhType] /\ HandleFiles'
    <3>1. d \in Descs
      BY UnusedNow
    <3>2. [file |-> f, kind |-> "plain"] \in [file : Files \cup {None}, kind : Kinds]
      BY <1>2 DEF Kinds
    <3>3. desc' \in DescTables
      BY <1>1, <1>2, <2>2, <3>1, <3>2 DEF LazyTypes, DescTables
    <3>4. fh'[h] = [fh[h] EXCEPT !.at = "open", !.desc = d] /\ \A k \in Handles \ {h} : fh'[k] = fh[k]
      BY <1>1, <2>2 DEF OtherTypes
    <3>5. fh'[h] \in FhType /\ fh'[h].file = f
      BY <1>2, <3>1, <3>4 DEF FhType, f
    <3>6. fh' \in [Handles -> FhType] /\ HandleFiles'
      BY <1>1, <1>2, <2>2, <3>4, <3>5 DEF OtherTypes, HandleFiles
    <3> QED  BY <3>3, <3>6
  <2> QED  BY <1>4, <2>1, <2>2
<1>6. LazyTypes' /\ OtherTypes'
  BY <1>1, <1>3, <1>4, <1>5 DEF LazyTypes, OtherTypes
<1> QED  BY <1>6, TypesTogether

LEMMA TypeNext ==
  ASSUME TypeInv, [Next]_vars
  PROVE  TypeInv'
<1>1. CASE UNCHANGED vars
  <2>1. LazyTypes' /\ OtherTypes'
    BY <1>1, TypeParts DEF vars, lazyVars, LazyTypes, OtherTypes, HandleFiles
  <2> QED  BY <2>1, TypesTogether
<1>2. CASE \E f \in Files : ExpirePath(f)
  <2>1. LazyTypes' /\ OtherTypes'
    BY <1>2, TypeParts DEF ExpirePath, LazyTypes, OtherTypes, HandleFiles
  <2> QED  BY <2>1, TypesTogether
<1> QED  BY <1>1, <1>2, TypeMknod, TypeOpenCheck, TypeOpenNew, TypeOpenStored, TypeWrite,
            TypeFlush, TypeRelease DEF Next

LEMMA TypeInit ==
  ASSUME Init
  PROVE  TypeInv
<1>1. NoInfo \in [handle : BOOLEAN, commits : Nat, start : Nat, cur : Nat]
  BY DEF NoInfo
<1>2. FreeDesc \in [file : Files \cup {None}, kind : Kinds] /\ FreeDesc.kind = "free"
  BY FreeTypes
<1>3. /\ FreeSlot \in [file : Files \cup {None}, desc : Descs \cup {None}, used : BOOLEAN]
      /\ Idle \in [at : {"idle", "checked", "open"}, file : Files \cup {None},
                   desc : Descs \cup {None}, synced : BOOLEAN]
      /\ Idle.at = "idle"
  BY FreeTypes, IdleType DEF SlotType, FhType
<1>4. 0 \in 0..MaxOps
  BY LazyAssumption
<1>5. TypeOK
  BY <1>1, <1>2, <1>3, <1>4 DEF Init, TypeOK
<1>6. desc \in DescTables /\ HandleFiles
  BY <1>2, <1>3 DEF Init, DescTables, HandleFiles
<1> QED  BY <1>5, <1>6 DEF TypeInv

LEMMA TypeAlways == Spec => []TypeInv
BY TypeInit, TypeNext, PTL DEF Spec

\* The variables keep their types: in particular the offsets of a buffer never become
\* negative, and what is written, sent and put are texts, however writes, commits, full
\* disks and failures follow on each other.
THEOREM LazyUploadTypes == Spec => []TypeOK
<1>1. TypeInv => TypeOK
  BY DEF TypeInv
<1> QED  BY <1>1, TypeAlways, PTL


-------------------------------------------------------------------------------
(***************************************************************************)
(* Descriptors are not lost, as long as no slot of NewlyCreatedFile times  *)
(* out: a slot that is not in use keeps no descriptor, and a new file has  *)
(* one slot.                                                               *)
(***************************************************************************)
SlotsClean == \A i \in 1..NewSlots : ~slots[i].used => slots[i].desc = None

SlotFiles ==
  \A i \in 1..NewSlots : slots[i].file # None =>
    /\ slots[i].file \in created
    /\ \A j \in 1..NewSlots : slots[j].file = slots[i].file => i = j

LeakInv == SlotsClean /\ SlotFiles /\ NoDescLeak

\* The slot that addNewlyCreatedToCache takes exists; it is free, timed out, or closed.
LEMMA NewSlotLemma ==
  ASSUME NEW T, NEW new,
         new = IF NewSlot(T) <= NewSlots THEN NewSlot(T) ELSE Max({1, NewSlots - 1})
  PROVE  /\ new \in 1..NewSlots
         /\ \/ Closing(T) = T /\ (~slots[new].used \/ new \in T)
            \/ Closing(T) = {new} /\ \A i \in 1..NewSlots : slots[i].used /\ i \notin T
<1>0. NewSlots \in Nat \ {0}
  BY LazyAssumption
<1> DEFINE S == {i \in 1..NewSlots : ~slots[i].used \/ i \in T} \cup {NewSlots + 1}
<1>1. S \in SUBSET Nat /\ S # {}
  BY <1>0
<1>2. Min(S) \in S /\ \A y \in S : Min(S) <= y
  <2> HIDE DEF S
  <2> QED  BY <1>1, MinInSet
<1>3. NewSlot(T) = Min(S)
  BY DEF NewSlot
<1>4. CASE NewSlot(T) <= NewSlots
  <2>1. new = Min(S) /\ new # NewSlots + 1
    BY <1>0, <1>2, <1>3, <1>4
  <2>2. new \in 1..NewSlots /\ (~slots[new].used \/ new \in T)
    BY <1>2, <2>1
  <2> QED  BY <1>4, <2>2 DEF Closing
<1>5. CASE ~(NewSlot(T) <= NewSlots)
  <2>1. new = Max({1, NewSlots - 1})
    BY <1>5
  <2>2. Max({1, NewSlots - 1}) = IF 1 >= NewSlots - 1 THEN 1 ELSE NewSlots - 1
    BY <1>0, MaxOfTwo
  <2>3. new \in 1..NewSlots
    BY <1>0, <2>1, <2>2
  <2>4. \A i \in 1..NewSlots : i \notin S
    BY <1>0, <1>2, <1>3, <1>5
  <2> QED  BY <1>5, <2>1, <2>3, <2>4 DEF Closing
<1> QED  BY <1>4, <1>5

LEMMA LeakMknod ==
  ASSUME TypeInv, ~SlotTimeouts, LeakInv, NEW f \in Files, NEW w \in Workers, Mknod(f, w)
  PROVE  LeakInv'
<1>1. PICK d, T, bad, new, valid, put : Made(f, w, d, T, bad, new, valid, put)
  BY MknodStep
<1>2. OtherTypes /\ f # None /\ None \notin Descs
  BY TypeParts, LazyAssumption
<1>3. T = {} /\ f \notin created /\ d \in Descs
  BY <1>1 DEF Made
<1>4. /\ new \in 1..NewSlots
      /\ \/ valid = {} /\ ~slots[new].used
         \/ valid = {i \in {new} : InUse(Now(None), slots[i].desc)}
  <2>1. new = IF NewSlot(T) <= NewSlots THEN NewSlot(T) ELSE Max({1, NewSlots - 1})
    BY <1>1 DEF Made
  <2>2. /\ new \in 1..NewSlots
        /\ \/ Closing(T) = T /\ (~slots[new].used \/ new \in T)
           \/ Closing(T) = {new} /\ \A i \in 1..NewSlots : slots[i].used /\ i \notin T
    BY <2>1, NewSlotLemma
  <2>3. valid = {i \in Closing(T) : InUse(Now(None), slots[i].desc)}
    BY <1>1 DEF Made
  <2> QED  BY <1>3, <2>2, <2>3
<1>5. /\ slots'[new].file = f /\ slots'[new].desc = d /\ slots'[new].used
      /\ \A i \in 1..NewSlots \ {new} :
           \/ slots'[i] = FreeSlot /\ i \in valid
           \/ slots'[i] = [slots[i] EXCEPT !.used = @ /\ TRUE] /\ i \notin valid
  BY <1>1, <1>3, <1>4 DEF Made
<1>6. \A i \in 1..NewSlots \ {new} :
        \/ slots'[i].file = None /\ slots'[i].desc = None /\ i \in valid
        \/ /\ slots'[i].file = slots[i].file /\ slots'[i].desc = slots[i].desc
           /\ slots'[i].used = slots[i].used /\ i \notin valid
  BY <1>2, <1>5, FreeTypes DEF OtherTypes, SlotType
<1>7. created' = created \cup {f} /\ fh' = fh
  BY <1>1 DEF Made
<1>8. SlotsClean'
  BY <1>5, <1>6 DEF LeakInv, SlotsClean
<1>9. SlotFiles'
  <2>1. \A i \in 1..NewSlots : slots[i].file # f
    BY <1>2, <1>3 DEF LeakInv, SlotFiles
  <2>2. \A i \in 1..NewSlots \ {new} : slots'[i].file \in {None, slots[i].file}
    BY <1>6
  <2> QED  BY <1>2, <1>4, <1>5, <1>7, <2>1, <2>2 DEF LeakInv, SlotFiles
<1>10. NoDescLeak'
  <2> SUFFICES ASSUME NEW e \in Descs, desc'[e].kind # "free", e # d
               PROVE  \/ \E i \in 1..NewSlots : slots'[i].desc = e
                      \/ \E h \in Handles : fh[h].at = "open" /\ fh[h].desc = e
    BY <1>4, <1>5, <1>7 DEF NoDescLeak
  <2>1. desc'[e] = IF \E i \in valid : slots[i].desc = e THEN FreeDesc ELSE desc[e]
    BY <1>1 DEF Made
  <2>2. desc[e].kind # "free" /\ \A i \in valid : slots[i].desc # e
    BY <2>1, FreeTypes
  <2>3. \/ \E i \in 1..NewSlots : slots[i].desc = e
        \/ \E h \in Handles : fh[h].at = "open" /\ fh[h].desc = e
    BY <2>2 DEF LeakInv, NoDescLeak
  <2>4. ASSUME NEW i \in 1..NewSlots, slots[i].desc = e PROVE i # new /\ slots'[i].desc = e
    <3>1. InUse(Now(None), e)
      BY <2>2, UnusedNow
    <3>2. i \notin valid
      BY <2>2, <2>4
    <3>3. i # new
      BY <1>2, <1>4, <2>4, <3>1, <3>2 DEF LeakInv, SlotsClean
    <3> QED  BY <1>6, <2>4, <3>2, <3>3
  <2> QED  BY <2>3, <2>4
<1> QED  BY <1>8, <1>9, <1>10 DEF LeakInv

\* What a handle does to its own descriptor loses none.
LEMMA LeakHandle ==
  ASSUME TypeInv, LeakInv, NEW h \in Handles, NEW f, NEW r, UNCHANGED <<slots, created>>,
         fh[h].at = "open", DescEffect(Now(fh[h].desc), f, r), desc' = r.desc,
         fh'[h].desc = r.d, fh'[h].at = "open",
         \A k \in Handles \ {h} : fh'[k].at = fh[k].at /\ fh'[k].desc = fh[k].desc
  PROVE  LeakInv'
<1>1. LazyTypes /\ OtherTypes
  BY TypeParts
<1> DEFINE s == Now(fh[h].desc)
<1>2. s.d = fh[h].desc /\ s.desc = desc
  BY <1>1, NowState DEF OtherTypes, FhType
<1> HIDE DEF s
<1>3. SlotsClean' /\ SlotFiles'
  BY DEF LeakInv, SlotsClean, SlotFiles
<1>4. ASSUME NEW e \in Descs, desc'[e].kind # "free"
      PROVE  e = r.d \/ (e # fh[h].desc /\ desc[e].kind # "free")
  <2>1. CASE r.d = s.d /\ r.desc = s.desc
    BY <1>2, <1>4, <2>1
  <2>2. CASE s.d \in Descs /\ r.d = s.d /\ r.desc = [s.desc EXCEPT ![s.d] = FreeDesc]
    BY <1>1, <1>2, <1>4, <2>2, FreeTypes DEF LazyTypes, DescTables
  <2>3. CASE s.d \in Descs /\ r.d \in Descs
             /\ r.desc = [s.desc EXCEPT ![s.d] = FreeDesc, ![r.d] = AppendDesc(f)]
    BY <1>1, <1>2, <1>4, <2>3, FreeTypes DEF LazyTypes, DescTables
  <2> QED  BY <2>1, <2>2, <2>3 DEF DescEffect, s
<1>5. NoDescLeak'
  <2> SUFFICES ASSUME NEW e \in Descs, desc'[e].kind # "free"
               PROVE  \/ \E i \in 1..NewSlots : slots[i].desc = e
                      \/ \E k \in Handles : fh'[k].at = "open" /\ fh'[k].desc = e
    BY DEF NoDescLeak
  <2>1. CASE e = r.d
    BY <2>1
  <2>2. CASE e # fh[h].desc /\ desc[e].kind # "free"
    BY <2>2 DEF LeakInv, NoDescLeak
  <2> QED  BY <1>4, <2>1, <2>2
<1> QED  BY <1>3, <1>5 DEF LeakInv

LEMMA WroteDesc ==
  ASSUME TypeInv, NEW h \in Handles, NEW w \in Workers, NEW f, NEW size, NEW off, NEW r,
         Wrote(h, w, f, size, off, r)
  PROVE  /\ DescEffect(Now(fh[h].desc), f, r)
         /\ desc' = r.desc /\ cached' = r.cached /\ stored' = r.stored
         /\ fh'[h].desc = r.d
         /\ \A k \in Handles : fh'[k].at = fh[k].at /\ fh'[k].file = fh[k].file
         /\ \A k \in Handles \ {h} : fh'[k].desc = fh[k].desc
<1>1. LazyTypes /\ OtherTypes
  BY TypeParts
<1> DEFINE s == Now(fh[h].desc)
<1>2. s \in States /\ s.ok /\ s.got = 0
  BY NowState DEF Wrote
<1>3. /\ f \in Files /\ Data(size) \in Seq(Blocks) /\ off \in 0..Len(written[f])
      /\ r \in IF f \in opened THEN LazyWrite(s, f, off, Data(size), w)
                               ELSE WriteDirect(s, off, Data(size), lock)
      /\ lock \in Workers \cup {None}
  BY <1>1 DEF Wrote, LazyTypes
<1>4. off \in Nat
  <2>1. written[f] \in Seq(Blocks)
    BY <1>1, <1>3 DEF OtherTypes, Texts
  <2>2. Len(written[f]) \in Nat
    BY <2>1
  <2> QED  BY <1>3, <2>2
<1> HIDE DEF s
<1>5. DescEffect(s, f, r)
  <2>1. CASE f \in opened
    BY <1>2, <1>3, <1>4, <2>1, LazyWriteTypes
  <2>2. CASE f \notin opened
    BY <1>2, <1>3, <1>4, <2>2, DirectLemma DEF DirectEffect, DescEffect
  <2> QED  BY <2>1, <2>2
<1>6. desc' = r.desc /\ cached' = r.cached /\ stored' = r.stored
  BY DEF Wrote, Become
<1>7. \A k \in Handles : /\ fh[k] \in FhType
                         /\ fh'[k] = [fh[k] EXCEPT !.synced = @ /\ fh[k].file # f,
                                                   !.desc = IF k = h THEN r.d ELSE @]
  BY <1>1 DEF Wrote, OtherTypes
<1>8. \A k \in Handles : /\ fh'[k].at = fh[k].at /\ fh'[k].file = fh[k].file
                         /\ fh'[k].desc = IF k = h THEN r.d ELSE fh[k].desc
  BY <1>7 DEF FhType
<1> QED  BY <1>5, <1>6, <1>8 DEF s

LEMMA FlushedDesc ==
  ASSUME TypeInv, NEW h \in Handles, NEW w \in Workers, NEW f, NEW r, Flushed(h, w, f, r)
  PROVE  /\ DescEffect(Now(fh[h].desc), f, r)
         /\ desc' = r.desc /\ cached' = r.cached /\ stored' = r.stored
         /\ fh'[h].desc = r.d
         /\ \A k \in Handles : fh'[k].at = fh[k].at /\ fh'[k].file = fh[k].file
         /\ \A k \in Handles \ {h} : fh'[k].desc = fh[k].desc
<1>1. fh \in [Handles -> FhType]
  BY TypeParts DEF OtherTypes
<1>2. fh[h] \in FhType /\ fh'[h] = [fh[h] EXCEPT !.synced = w \notin r.hung, !.desc = r.d]
      /\ \A k \in Handles \ {h} : fh'[k] = fh[k]
  BY <1>1 DEF Flushed
<1>3. fh'[h].at = fh[h].at /\ fh'[h].file = fh[h].file /\ fh'[h].desc = r.d
  BY <1>2 DEF FhType
<1> QED  BY <1>2, <1>3 DEF Flushed, Become


LEMMA LeakNext ==
  ASSUME TypeInv, ~SlotTimeouts, LeakInv, [Next]_vars
  PROVE  LeakInv'
<1>1. LazyTypes /\ OtherTypes
  BY TypeParts
<1>2. CASE UNCHANGED vars \/ \E f \in Files : ExpirePath(f)
  BY <1>2 DEF vars, lazyVars, ExpirePath, LeakInv, SlotsClean, SlotFiles, NoDescLeak
<1>3. ASSUME NEW f \in Files, NEW w \in Workers, Mknod(f, w) PROVE LeakInv'
  BY <1>3, LeakMknod
<1>4. ASSUME NEW h \in Handles, NEW f \in Files, NEW w \in Workers, OpenCheck(h, f, w)
      PROVE  LeakInv'
  <2>1. /\ fh[h].at = "idle" /\ UNCHANGED <<slots, created, desc>>
        /\ \A k \in Handles \ {h} : fh'[k] = fh[k]
    BY <1>1, <1>4 DEF OpenCheck, OtherTypes, lazyVars
  <2> QED  BY <2>1 DEF LeakInv, SlotsClean, SlotFiles, NoDescLeak
<1>5. ASSUME NEW h \in Handles, NEW w \in Workers, OpenNew(h, w) PROVE LeakInv'
  <2> DEFINE f == fh[h].file
  <2>1. PICK d \in Kept(f) : fh' = [fh EXCEPT ![h].at = "open", ![h].desc = d]
    BY <1>5 DEF OpenNew
  <2>2. /\ fh[h].at = "checked" /\ f \in Files /\ f # None
        /\ fh'[h].at = "open" /\ fh'[h].desc = d /\ \A k \in Handles \ {h} : fh'[k] = fh[k]
    BY <1>1, <1>5, <2>1, LazyAssumption DEF OpenNew, OtherTypes, HandleFiles, FhType
  <2>3. desc' = desc /\ slots' = Cleared(f) /\ created \ {f} \subseteq created'
    BY <1>5 DEF OpenNew
  <2> HIDE DEF f
  <2>4. \A i \in 1..NewSlots : slots'[i] = IF slots[i].file = f THEN FreeSlot ELSE slots[i]
    BY <2>3 DEF Cleared
  <2>5. SlotsClean' /\ SlotFiles'
    BY <2>3, <2>4, FreeTypes DEF LeakInv, SlotsClean, SlotFiles
  <2>6. NoDescLeak'
    <3>1. \A i \in 1..NewSlots : slots[i].file = f => slots[i].desc = d
      BY <2>2 DEF Kept, LeakInv, SlotFiles
    <3> QED  BY <2>2, <2>3, <2>4, <3>1 DEF LeakInv, NoDescLeak
  <2> QED  BY <2>5, <2>6 DEF LeakInv
<1>6. ASSUME NEW h \in Handles, NEW w \in Workers, OpenStored(h, w) PROVE LeakInv'
  <2> DEFINE f == fh[h].file
  <2>1. /\ fh[h].at = "checked" /\ created' = created
        /\ ~(f \in cached \cup stored /\ \E d \in Kept(f) : InUse(Now(None), d))
        /\ slots' = IF f \in cached \cup stored THEN Cleared(f) ELSE slots
        /\ \/ \E d \in Unused(Now(None)) :
                /\ desc' = [desc EXCEPT ![d] = [file |-> f, kind |-> "plain"]]
                /\ fh' = [fh EXCEPT ![h].at = "open", ![h].desc = d]
           \/ fh' = [fh EXCEPT ![h] = Idle] /\ UNCHANGED desc
    BY <1>6 DEF OpenStored
  <2> HIDE DEF f
  <2>2. \A i \in 1..NewSlots :
          \/ slots'[i] = slots[i]
          \/ slots'[i] = FreeSlot /\ ~InUse(Now(None), slots[i].desc)
    BY <2>1 DEF Cleared, Kept
  <2>3. SlotsClean' /\ SlotFiles'
    BY <2>1, <2>2, FreeTypes DEF LeakInv, SlotsClean, SlotFiles
  <2>4. \A i \in 1..NewSlots : slots[i].desc \in Descs /\ desc[slots[i].desc].kind # "free"
                                 => slots'[i].desc = slots[i].desc
    BY <2>2, UnusedNow
  <2>5. CASE fh' = [fh EXCEPT ![h] = Idle] /\ UNCHANGED desc
    <3>1. \A k \in Handles \ {h} : fh'[k] = fh[k]
      BY <1>1, <2>5 DEF OtherTypes
    <3>2. NoDescLeak'
      BY <2>1, <2>4, <2>5, <3>1 DEF LeakInv, NoDescLeak
    <3> QED  BY <2>3, <3>2 DEF LeakInv
  <2>6. ASSUME NEW d \in Unused(Now(None)),
               desc' = [desc EXCEPT ![d] = [file |-> f, kind |-> "plain"]],
               fh' = [fh EXCEPT ![h].at = "open", ![h].desc = d]
        PROVE  LeakInv'
    <3>1. /\ \A k \in Handles \ {h} : fh'[k] = fh[k]
          /\ fh'[h].at = "open" /\ fh'[h].desc = d
      BY <1>1, <2>6 DEF OtherTypes, FhType
    <3>2. \A e \in Descs \ {d} : desc'[e] = desc[e]
      BY <1>1, <2>6 DEF LazyTypes, DescTables
    <3>3. NoDescLeak'
      BY <2>1, <2>4, <3>1, <3>2 DEF LeakInv, NoDescLeak
    <3> QED  BY <2>3, <3>3 DEF LeakInv
  <2> QED  BY <2>1, <2>5, <2>6
<1>7. ASSUME NEW h \in Handles, NEW w \in Workers, Write(h, w) PROVE LeakInv'
  <2>1. PICK f, size, off, r : Wrote(h, w, f, size, off, r)
    BY <1>7, WriteStep
  <2>2. fh[h].at = "open" /\ UNCHANGED <<slots, created>>
    BY <2>1 DEF Wrote
  <2> QED  BY <2>1, <2>2, WroteDesc, LeakHandle
<1>8. ASSUME NEW h \in Handles, NEW w \in Workers, Flush(h, w) PROVE LeakInv'
  <2>1. PICK f, r : Flushed(h, w, f, r)
    BY <1>8, FlushStep
  <2>2. fh[h].at = "open" /\ UNCHANGED <<slots, created>>
    BY <2>1 DEF Flushed
  <2> QED  BY <2>1, <2>2, FlushedDesc, LeakHandle
<1>9. ASSUME NEW h \in Handles, NEW w \in Workers, Release(h, w) PROVE LeakInv'
  <2>1. PICK f, d, r : Released(h, w, f, d, r)
    BY <1>9, ReleaseStep
  <2>2. d = fh[h].desc /\ d \in Descs \cup {None} /\ UNCHANGED <<slots, created>>
        /\ \A k \in Handles \ {h} : fh'[k] = fh[k]
    BY <1>1, <2>1 DEF Released, OtherTypes
  <2>3. InUse(Now(d), d) <=> d \in Descs /\ desc[d].kind # "free"
    BY <2>2, NowState, LazyAssumption DEF InUse
  <2>4. desc' = IF d \in Descs /\ desc[d].kind # "free" THEN [desc EXCEPT ![d] = FreeDesc] ELSE desc
    BY <2>1, <2>3 DEF Released, Become
  <2>5. \A e \in Descs : desc'[e].kind # "free" => e # d /\ desc[e].kind # "free"
    BY <1>1, <2>4, FreeTypes DEF LazyTypes, DescTables
  <2> QED  BY <2>2, <2>5 DEF LeakInv, SlotsClean, SlotFiles, NoDescLeak
<1> QED  BY <1>2, <1>3, <1>4, <1>5, <1>6, <1>7, <1>8, <1>9 DEF Next

\* As long as no slot of NewlyCreatedFile times out, no descriptor is lost, whatever
\* requests fail and however the commits of several handles interleave.
THEOREM NoDescriptorLost ==
  ASSUME ~SlotTimeouts
  PROVE  Spec => []NoDescLeak
<1>1. Init => LeakInv
  BY FreeTypes DEF Init, LeakInv, SlotsClean, SlotFiles, NoDescLeak
<1>2. TypeInv /\ LeakInv /\ [Next]_vars => LeakInv'
  BY LeakNext
<1>3. LeakInv => NoDescLeak
  BY DEF LeakInv
<1> QED  BY <1>1, <1>2, <1>3, TypeAlways, PTL DEF Spec


-------------------------------------------------------------------------------
(***************************************************************************)
(* Descriptors are not mixed up, without errors and without expiry of the  *)
(* path cache.  A new file that still has its cache is in the path cache,  *)
(* not in iRODS, and has one owner: its slot before it is opened, and the  *)
(* handle afterwards.                                                      *)
(***************************************************************************)
OpenedNow == created \cap opened = {}

CacheOwner(f) == f \in cached /\ f \notin stored

HandleDesc ==
  \A h \in Handles :
    IF fh[h].at = "open"
      THEN /\ fh[h].desc \in Descs /\ desc[fh[h].desc].file = fh[h].file
           /\ \/ desc[fh[h].desc].kind = "cache" /\ CacheOwner(fh[h].file) /\ fh[h].file \in opened
              \/ desc[fh[h].desc].kind \in {"plain", "append"} /\ fh[h].file \in stored
      ELSE fh[h].desc = None

HandlesApart ==
  \A h, k \in Handles : fh[h].at = "open" /\ fh[k].at = "open" /\ h # k =>
    /\ fh[h].desc # fh[k].desc
    /\ fh[h].file = fh[k].file => desc[fh[h].desc].kind # "cache"

SlotDesc ==
  \A i \in 1..NewSlots : slots[i].desc # None =>
    /\ desc[slots[i].desc].file = slots[i].file /\ desc[slots[i].desc].kind = "cache"
    /\ CacheOwner(slots[i].file) /\ slots[i].file \in created

SlotsApart ==
  \A i \in 1..NewSlots : slots[i].desc # None =>
    /\ \A j \in 1..NewSlots \ {i} : /\ slots[j].desc # slots[i].desc
                                    /\ slots[j].desc # None => slots[j].file # slots[i].file
    /\ \A h \in Handles : fh[h].desc # slots[i].desc

OwnInv == OpenedNow /\ HandleDesc /\ HandlesApart /\ SlotDesc /\ SlotsApart

LEMMA OwnMknod ==
  ASSUME TypeInv, OwnInv, NEW f \in Files, NEW w \in Workers, Mknod(f, w)
  PROVE  OwnInv'
<1>1. PICK d, T, bad, new, valid, put : Made(f, w, d, T, bad, new, valid, put)
  BY MknodStep
<1>2. LazyTypes /\ OtherTypes /\ None \notin Descs
  BY TypeParts, LazyAssumption
<1>3. /\ f \notin created /\ f \notin opened /\ f \notin stored /\ d \in Descs /\ desc[d].kind = "free"
      /\ stored' = stored \cup put /\ cached' = cached \cup {f} /\ created' = created \cup {f}
      /\ opened' = opened /\ fh' = fh
  BY <1>1 DEF Made
<1>4. \A i \in valid : i \in 1..NewSlots /\ slots[i].desc # None
  <2>1. new = IF NewSlot(T) <= NewSlots THEN NewSlot(T) ELSE Max({1, NewSlots - 1})
    BY <1>1 DEF Made
  <2>2. new \in 1..NewSlots /\ (Closing(T) = T \/ Closing(T) = {new})
    BY <2>1, NewSlotLemma
  <2>3. T \subseteq 1..NewSlots /\ valid = {i \in Closing(T) : InUse(Now(None), slots[i].desc)}
    BY <1>1 DEF Made
  <2> QED  BY <2>2, <2>3 DEF InUse
<1>5. \A e \in Descs \ {d} : \/ desc'[e] = desc[e]
                             \/ \E i \in valid : slots[i].desc = e
  BY <1>1 DEF Made
<1>6. desc'[d].file = f /\ desc'[d].kind = "cache"
  BY <1>1, <1>3 DEF Made
<1>7. \A i \in 1..NewSlots :
        \/ slots'[i].file = f /\ slots'[i].desc = d /\ i = new
        \/ slots'[i].desc = None
        \/ slots'[i].file = slots[i].file /\ slots'[i].desc = slots[i].desc /\ i \notin valid /\ i # new
  <2> SUFFICES ASSUME NEW i \in 1..NewSlots
               PROVE  \/ slots'[i].file = f /\ slots'[i].desc = d /\ i = new
                      \/ slots'[i].desc = None
                      \/ /\ slots'[i].file = slots[i].file /\ slots'[i].desc = slots[i].desc
                         /\ i \notin valid /\ i # new
    OBVIOUS
  <2>1. slots'[i] = IF i = new THEN [file |-> f, desc |-> d, used |-> i \notin T \cap valid]
                    ELSE IF i \in valid THEN FreeSlot
                    ELSE [slots[i] EXCEPT !.used = @ /\ i \notin T]
    BY <1>1 DEF Made
  <2>2. slots[i] \in SlotType
    BY <1>2 DEF OtherTypes
  <2> QED  BY <2>1, <2>2, FreeTypes DEF SlotType
<1>8. \A g \in put : \E i \in valid : slots[i].file = g
  BY <1>1 DEF Made
\* A descriptor that a handle has is not touched.
<1>9. ASSUME NEW h \in Handles, fh[h].at = "open"
      PROVE  /\ fh[h].desc # d /\ desc'[fh[h].desc] = desc[fh[h].desc]
             /\ (CacheOwner(fh[h].file) /\ fh[h].file \in opened
                    => fh[h].file \in cached' /\ fh[h].file \notin stored')
  <2>1. fh[h].desc \in Descs /\ desc[fh[h].desc].kind # "free"
    BY <1>9 DEF OwnInv, HandleDesc
  <2>2. fh[h].desc # d
    BY <1>3, <2>1
  <2>3. \A i \in valid : slots[i].desc # fh[h].desc
    BY <1>4 DEF OwnInv, SlotsApart
  <2>4. desc'[fh[h].desc] = desc[fh[h].desc]
    BY <1>5, <2>1, <2>2, <2>3
  <2>5. fh[h].file \in opened => fh[h].file \notin put
    BY <1>4, <1>8 DEF OwnInv, SlotDesc, OpenedNow
  <2> QED  BY <1>3, <2>2, <2>4, <2>5 DEF CacheOwner
<1>10. ASSUME NEW i \in 1..NewSlots, slots[i].desc # None, i \notin valid
       PROVE  /\ slots[i].desc # d /\ desc'[slots[i].desc] = desc[slots[i].desc]
              /\ slots[i].file \in cached' /\ slots[i].file \notin stored'
  <2>1. slots[i].desc \in Descs /\ desc[slots[i].desc].kind # "free"
    BY <1>2, <1>10 DEF OwnInv, SlotDesc, OtherTypes, SlotType
  <2>2. slots[i].desc # d
    BY <1>3, <2>1
  <2>3. \A j \in valid : slots[j].desc # slots[i].desc /\ slots[j].file # slots[i].file
    BY <1>4, <1>10 DEF OwnInv, SlotsApart
  <2>4. desc'[slots[i].desc] = desc[slots[i].desc]
    BY <1>5, <2>1, <2>2, <2>3
  <2>5. slots[i].file \notin put
    BY <1>8, <2>3
  <2> QED  BY <1>3, <1>10, <2>2, <2>4, <2>5 DEF OwnInv, SlotDesc, CacheOwner
<1>11. OpenedNow'
  BY <1>3 DEF OwnInv, OpenedNow
<1>12. HandleDesc'
  BY <1>3, <1>9 DEF OwnInv, HandleDesc, CacheOwner
<1>13. HandlesApart'
  BY <1>3, <1>9 DEF OwnInv, HandlesApart
<1>14. SlotDesc'
  <2>1. f \notin put
    BY <1>3, <1>4, <1>8 DEF OwnInv, SlotDesc
  <2>2. f \in cached' /\ f \notin stored'
    BY <1>3, <2>1
  <2> SUFFICES ASSUME NEW i \in 1..NewSlots, slots'[i].desc # None
               PROVE  /\ desc'[slots'[i].desc].file = slots'[i].file
                      /\ desc'[slots'[i].desc].kind = "cache"
                      /\ slots'[i].file \in cached' /\ slots'[i].file \notin stored'
                      /\ slots'[i].file \in created'
    BY DEF SlotDesc, CacheOwner
  <2>3. CASE slots'[i].file = f /\ slots'[i].desc = d
    BY <1>3, <1>6, <2>2, <2>3 DEF CacheOwner
  <2>4. CASE slots'[i].file = slots[i].file /\ slots'[i].desc = slots[i].desc /\ i \notin valid
    BY <1>3, <1>10, <2>4 DEF OwnInv, SlotDesc, CacheOwner
  <2> QED  BY <1>7, <2>3, <2>4
<1>15. SlotsApart'
  <2> SUFFICES ASSUME NEW i \in 1..NewSlots, slots'[i].desc # None
               PROVE  /\ \A j \in 1..NewSlots \ {i} :
                           /\ slots'[j].desc # slots'[i].desc
                           /\ slots'[j].desc # None => slots'[j].file # slots'[i].file
                      /\ \A h \in Handles : fh[h].desc # slots'[i].desc
    BY <1>3 DEF SlotsApart
  <2>0. \A j \in 1..NewSlots : slots[j].desc # None /\ j \notin valid
                                  => slots[j].desc # d /\ slots[j].file # f
    BY <1>3, <1>10 DEF OwnInv, SlotDesc
  <2>1. CASE slots'[i].file = f /\ slots'[i].desc = d /\ i = new
    <3>1. \A h \in Handles : fh[h].desc # d
      BY <1>2, <1>3, <1>9 DEF OwnInv, HandleDesc
    <3> QED  BY <1>2, <1>3, <1>7, <2>0, <2>1, <3>1
  <2>2. CASE slots'[i].file = slots[i].file /\ slots'[i].desc = slots[i].desc /\ i \notin valid /\ i # new
    BY <1>7, <2>0, <2>2 DEF OwnInv, SlotsApart
  <2> QED  BY <1>7, <2>1, <2>2
<1> QED  BY <1>11, <1>12, <1>13, <1>14, <1>15 DEF OwnInv


\* A handle that commits takes nothing from the others: they do not have its descriptor,
\* nor one that is free, and no cache of its file.
LEMMA OwnHandle ==
  ASSUME TypeInv, OwnInv, ~RpcErrors, NEW h \in Handles, NEW f, NEW r, f = fh[h].file,
         UNCHANGED <<slots, created, opened>>,
         fh[h].at = "open", DescEffect(Now(fh[h].desc), f, r), desc' = r.desc,
         cached' = r.cached, stored' = r.stored, fh'[h].desc = r.d,
         \A k \in Handles : fh'[k].at = fh[k].at /\ fh'[k].file = fh[k].file,
         \A k \in Handles \ {h} : fh'[k].desc = fh[k].desc
  PROVE  OwnInv'
<1>1. LazyTypes /\ OtherTypes /\ None \notin Descs
  BY TypeParts, LazyAssumption
<1> DEFINE s == Now(fh[h].desc)
<1>2. s.d = fh[h].desc /\ s.desc = desc /\ s.cached = cached /\ s.stored = stored
  BY <1>1, NowState DEF OtherTypes, FhType
<1> HIDE DEF s
<1>3. /\ fh[h].desc \in Descs /\ desc[fh[h].desc].kind # "free"
      /\ \/ desc[fh[h].desc].kind = "cache" /\ f \in cached /\ f \notin stored /\ f \in opened
         \/ desc[fh[h].desc].kind # "cache" /\ f \in stored
  BY DEF OwnInv, HandleDesc, CacheOwner
<1>4. CASE r.d = s.d /\ r.desc = s.desc /\ r.cached = s.cached /\ r.stored = s.stored
  <2>1. \A k \in Handles : fh'[k].desc = fh[k].desc
    BY <1>2, <1>4
  <2>2. UNCHANGED <<desc, cached, stored>>
    BY <1>2, <1>4
  <2> QED  BY <2>1, <2>2 DEF OwnInv, OpenedNow, HandleDesc, HandlesApart, SlotDesc, SlotsApart,
                            CacheOwner
<1>5. CASE /\ r.d \in Descs /\ (r.d = s.d \/ s.desc[r.d].kind = "free")
           /\ r.desc = [s.desc EXCEPT ![s.d] = FreeDesc, ![r.d] = AppendDesc(f)]
           /\ r.cached = s.cached \ {f} /\ r.stored = s.stored \cup {f}
  <2>1. /\ desc'[r.d].file = f /\ desc'[r.d].kind = "append"
        /\ \A e \in Descs : e # r.d /\ e # fh[h].desc => desc'[e] = desc[e]
        /\ r.d = fh[h].desc \/ desc[r.d].kind = "free"
        /\ cached' = cached \ {f} /\ stored' = stored \cup {f}
    BY <1>1, <1>2, <1>3, <1>5 DEF LazyTypes, DescTables, AppendDesc
  <2>2. ASSUME NEW k \in Handles \ {h}, fh[k].at = "open"
        PROVE  /\ fh[k].desc \in Descs /\ fh[k].desc # r.d /\ desc'[fh[k].desc] = desc[fh[k].desc]
               /\ (desc[fh[k].desc].kind = "cache" => fh[k].file # f)
    <3>1. fh[k].desc \in Descs /\ desc[fh[k].desc].kind # "free"
      BY <2>2 DEF OwnInv, HandleDesc
    <3>2. fh[k].desc # fh[h].desc /\ (fh[k].file = f => desc[fh[k].desc].kind # "cache")
      BY <2>2 DEF OwnInv, HandlesApart
    <3> QED  BY <2>1, <3>1, <3>2
  <2>3. ASSUME NEW i \in 1..NewSlots, slots[i].desc # None
        PROVE  /\ slots[i].desc # r.d /\ desc'[slots[i].desc] = desc[slots[i].desc]
               /\ slots[i].file # f
    <3>1. slots[i].desc \in Descs /\ desc[slots[i].desc].kind # "free"
      BY <1>1, <2>3 DEF OwnInv, SlotDesc, OtherTypes, SlotType
    <3>2. slots[i].desc # fh[h].desc
      BY <2>3 DEF OwnInv, SlotsApart
    <3>3. slots[i].file # f
      BY <1>3, <2>3 DEF OwnInv, SlotDesc, OpenedNow, CacheOwner
    <3> QED  BY <2>1, <3>1, <3>2, <3>3
  <2>4. OpenedNow'
    BY DEF OwnInv, OpenedNow
  <2>5. HandleDesc'
    <3> SUFFICES ASSUME NEW k \in Handles
                 PROVE  IF fh[k].at = "open"
                          THEN /\ fh'[k].desc \in Descs /\ desc'[fh'[k].desc].file = fh[k].file
                               /\ \/ /\ desc'[fh'[k].desc].kind = "cache"
                                     /\ fh[k].file \in cached' /\ fh[k].file \notin stored'
                                     /\ fh[k].file \in opened
                                  \/ /\ desc'[fh'[k].desc].kind \in {"plain", "append"}
                                     /\ fh[k].file \in stored'
                          ELSE fh'[k].desc = None
      BY DEF HandleDesc, CacheOwner
    <3>1. CASE k = h
      BY <1>5, <2>1, <3>1
    <3>2. CASE k # h
      BY <2>1, <2>2, <3>2 DEF OwnInv, HandleDesc, CacheOwner
    <3> QED  BY <3>1, <3>2
  <2>6. HandlesApart'
    <3> SUFFICES ASSUME NEW j \in Handles, NEW k \in Handles, fh[j].at = "open", fh[k].at = "open", j # k
                 PROVE  /\ fh'[j].desc # fh'[k].desc
                        /\ fh[j].file = fh[k].file => desc'[fh'[j].desc].kind # "cache"
      BY DEF HandlesApart
    <3>1. CASE j = h
      BY <2>1, <2>2, <3>1
    <3>2. CASE k = h /\ j # h
      BY <2>1, <2>2, <3>2
    <3>3. CASE k # h /\ j # h
      BY <2>2, <3>3 DEF OwnInv, HandlesApart
    <3> QED  BY <3>1, <3>2, <3>3
  <2>7. SlotDesc'
    BY <2>1, <2>3 DEF OwnInv, SlotDesc, CacheOwner
  <2>8. SlotsApart'
    BY <2>3 DEF OwnInv, SlotsApart
  <2> QED  BY <2>4, <2>5, <2>6, <2>7, <2>8 DEF OwnInv
<1>6. ~(RpcErrors \/ (s.desc[s.d].kind = "cache" /\ f \notin s.cached))
  BY <1>2, <1>3
<1>7. DescEffect(s, f, r)
  BY DEF s
<1> QED  BY <1>4, <1>5, <1>6, <1>7 DEF DescEffect

LEMMA OwnRelease ==
  ASSUME TypeInv, OwnInv, ~RpcErrors, NEW h \in Handles, NEW w \in Workers, Release(h, w)
  PROVE  OwnInv'
<1>1. LazyTypes /\ OtherTypes /\ None \notin Descs
  BY TypeParts, LazyAssumption
<1>2. PICK f, d, r : Released(h, w, f, d, r)
  BY ReleaseStep
<1>3. /\ f = fh[h].file /\ d = fh[h].desc /\ f \in Files /\ fh[h].at = "open"
      /\ d \in Descs /\ desc[d].kind # "free"
      /\ \/ desc[d].kind = "cache" /\ f \in cached /\ f \notin stored /\ f \in opened
         \/ desc[d].kind # "cache" /\ f \in stored
  BY <1>2 DEF OwnInv, HandleDesc, CacheOwner, Released
<1>4. InUse(Now(d), d)
  BY <1>1, <1>3, NowState DEF InUse
<1>5. /\ desc' = [desc EXCEPT ![d] = FreeDesc] /\ cached' = cached
      /\ stored' = IF desc[d].kind = "cache" THEN stored \cup {f} ELSE stored
      /\ opened' = opened \ {f} /\ UNCHANGED <<created, slots>>
      /\ fh'[h] = Idle /\ \A k \in Handles \ {h} : fh'[k] = fh[k]
  BY <1>1, <1>2, <1>3, <1>4 DEF Released, Become, OtherTypes
<1>6. ASSUME NEW k \in Handles \ {h}, fh[k].at = "open"
      PROVE  /\ fh[k].desc \in Descs /\ desc'[fh[k].desc] = desc[fh[k].desc]
             /\ (desc[fh[k].desc].kind = "cache" => fh[k].file # f)
  <2>1. fh[k].desc \in Descs /\ fh[k].desc # d
        /\ (desc[fh[k].desc].kind = "cache" => fh[k].file # f)
    BY <1>3, <1>6 DEF OwnInv, HandleDesc, HandlesApart
  <2> QED  BY <1>1, <1>5, <2>1 DEF LazyTypes, DescTables
<1>7. ASSUME NEW i \in 1..NewSlots, slots[i].desc # None
      PROVE  desc'[slots[i].desc] = desc[slots[i].desc] /\ slots[i].file # f
  <2>1. slots[i].desc \in Descs /\ slots[i].desc # d
    BY <1>1, <1>3, <1>7 DEF OwnInv, SlotsApart, OtherTypes, SlotType
  <2>2. slots[i].file # f
    BY <1>3, <1>7 DEF OwnInv, SlotDesc, OpenedNow, CacheOwner
  <2> QED  BY <1>1, <1>5, <2>1, <2>2 DEF LazyTypes, DescTables
<1>8. OpenedNow'
  BY <1>5 DEF OwnInv, OpenedNow
<1>9. HandleDesc'
  <2> SUFFICES ASSUME NEW k \in Handles
               PROVE  IF fh'[k].at = "open"
                        THEN /\ fh'[k].desc \in Descs /\ desc'[fh'[k].desc].file = fh'[k].file
                             /\ \/ /\ desc'[fh'[k].desc].kind = "cache"
                                   /\ fh'[k].file \in cached' /\ fh'[k].file \notin stored'
                                   /\ fh'[k].file \in opened'
                                \/ /\ desc'[fh'[k].desc].kind \in {"plain", "append"}
                                   /\ fh'[k].file \in stored'
                        ELSE fh'[k].desc = None
    BY DEF HandleDesc, CacheOwner
  <2>1. CASE k = h
    BY <1>5, <2>1, IdleType
  <2>2. CASE k # h
    BY <1>5, <1>6, <2>2 DEF OwnInv, HandleDesc, CacheOwner
  <2> QED  BY <2>1, <2>2
<1>10. HandlesApart'
  BY <1>5, <1>6, IdleType DEF OwnInv, HandlesApart
<1>11. SlotDesc'
  BY <1>5, <1>7 DEF OwnInv, SlotDesc, CacheOwner
<1>12. SlotsApart'
  BY <1>5, IdleType DEF OwnInv, SlotsApart
<1> QED  BY <1>8, <1>9, <1>10, <1>11, <1>12 DEF OwnInv


\* irodsOpen of a new file: the cache goes from the slot to the handle.
LEMMA OwnOpenNew ==
  ASSUME TypeInv, OwnInv, NEW h \in Handles, NEW w \in Workers, OpenNew(h, w)
  PROVE  OwnInv'
<1> DEFINE f == fh[h].file
<1>1. LazyTypes /\ OtherTypes /\ None \notin Descs
  BY TypeParts, LazyAssumption
<1>2. PICK d \in Kept(f) : InUse(Now(None), d) /\ fh' = [fh EXCEPT ![h].at = "open", ![h].desc = d]
  BY DEF OpenNew
<1>3. PICK i \in 1..NewSlots : slots[i].file = f /\ slots[i].desc = d
  BY <1>2 DEF Kept
<1>4. /\ d \in Descs /\ desc[d].file = f /\ desc[d].kind = "cache" /\ f \in created
      /\ f \in cached /\ f \notin stored /\ f \notin opened
  BY <1>1, <1>2, <1>3 DEF OwnInv, SlotDesc, CacheOwner, OpenedNow, InUse, OtherTypes, SlotType
<1>5. /\ fh[h].at = "checked" /\ fh'[h].at = "open" /\ fh'[h].desc = d /\ fh'[h].file = f
      /\ \A k \in Handles \ {h} : fh'[k] = fh[k]
  BY <1>1, <1>2 DEF OpenNew, OtherTypes, FhType
<1>6. /\ opened' = opened \cup {f} /\ created' = created \ {f}
      /\ UNCHANGED <<desc, cached, stored>> /\ slots' = Cleared(f)
  BY <1>4 DEF OpenNew
<1> HIDE DEF f
<1>7. \A j \in 1..NewSlots : slots'[j] = IF slots[j].file = f THEN FreeSlot ELSE slots[j]
  BY <1>6 DEF Cleared
<1>8. ASSUME NEW j \in 1..NewSlots, slots'[j].desc # None
      PROVE  slots'[j] = slots[j] /\ slots[j].file # f /\ slots[j].desc # d
  BY <1>1, <1>3, <1>4, <1>7, <1>8, FreeTypes DEF OwnInv, SlotsApart
<1>9. ASSUME NEW k \in Handles \ {h}, fh[k].at = "open"
      PROVE  fh[k].file # f /\ fh[k].desc # d
  BY <1>1, <1>3, <1>4, <1>9 DEF OwnInv, HandleDesc, SlotsApart
<1>10. OpenedNow'
  BY <1>6 DEF OwnInv, OpenedNow
<1>11. HandleDesc'
  BY <1>4, <1>5, <1>6 DEF OwnInv, HandleDesc, CacheOwner
<1>12. HandlesApart'
  BY <1>5, <1>6, <1>9 DEF OwnInv, HandlesApart
<1>13. SlotDesc'
  BY <1>6, <1>8 DEF OwnInv, SlotDesc, CacheOwner
<1>14. SlotsApart'
  <2> SUFFICES ASSUME NEW j \in 1..NewSlots, slots'[j].desc # None
               PROVE  /\ \A m \in 1..NewSlots \ {j} :
                           /\ slots'[m].desc # slots'[j].desc
                           /\ slots'[m].desc # None => slots'[m].file # slots'[j].file
                      /\ \A k \in Handles : fh'[k].desc # slots'[j].desc
    BY DEF SlotsApart
  <2> QED  BY <1>5, <1>8 DEF OwnInv, SlotsApart
<1> QED  BY <1>10, <1>11, <1>12, <1>13, <1>14 DEF OwnInv

LEMMA OwnOpenStored ==
  ASSUME TypeInv, OwnInv, NEW h \in Handles, NEW w \in Workers, OpenStored(h, w)
  PROVE  OwnInv'
<1> DEFINE f == fh[h].file
<1>1. LazyTypes /\ OtherTypes /\ None \notin Descs
  BY TypeParts, LazyAssumption
<1>2. /\ fh[h].at = "checked" /\ UNCHANGED <<created, opened, cached, stored>>
      /\ ~(f \in cached \cup stored /\ \E d \in Kept(f) : InUse(Now(None), d))
      /\ slots' = IF f \in cached \cup stored THEN Cleared(f) ELSE slots
      /\ \/ f \in stored /\ \E d \in Unused(Now(None)) :
              /\ desc' = [desc EXCEPT ![d] = [file |-> f, kind |-> "plain"]]
              /\ fh' = [fh EXCEPT ![h].at = "open", ![h].desc = d]
         \/ fh' = [fh EXCEPT ![h] = Idle] /\ UNCHANGED desc
  BY DEF OpenStored
<1>3. fh[h].file = f
  OBVIOUS
<1> HIDE DEF f
<1>4. \A i \in 1..NewSlots :
        \/ slots'[i] = slots[i]
        \/ slots'[i] = FreeSlot
  BY <1>2 DEF Cleared
<1>5. \A i \in 1..NewSlots : slots'[i].desc # None => slots'[i] = slots[i]
  BY <1>4, FreeTypes
<1>6. OpenedNow'
  BY <1>2 DEF OwnInv, OpenedNow
<1>7. CASE fh' = [fh EXCEPT ![h] = Idle] /\ UNCHANGED desc
  <2>1. fh'[h] = Idle /\ \A k \in Handles \ {h} : fh'[k] = fh[k]
    BY <1>1, <1>7 DEF OtherTypes
  <2>2. HandleDesc' /\ HandlesApart'
    BY <1>2, <1>7, <2>1, IdleType DEF OwnInv, HandleDesc, HandlesApart, CacheOwner
  <2>3. SlotDesc' /\ SlotsApart'
    BY <1>2, <1>5, <1>7, <2>1, IdleType DEF OwnInv, SlotDesc, SlotsApart, CacheOwner
  <2> QED  BY <1>6, <2>2, <2>3 DEF OwnInv
<1>8. ASSUME f \in stored, NEW d \in Unused(Now(None)),
             desc' = [desc EXCEPT ![d] = [file |-> f, kind |-> "plain"]],
             fh' = [fh EXCEPT ![h].at = "open", ![h].desc = d]
      PROVE  OwnInv'
  <2>1. d \in Descs /\ desc[d].kind = "free"
    BY UnusedNow
  <2>2. /\ fh'[h].at = "open" /\ fh'[h].desc = d /\ fh'[h].file = f
        /\ \A k \in Handles \ {h} : fh'[k] = fh[k]
    BY <1>1, <1>3, <1>8 DEF OtherTypes, FhType
  <2>3. /\ desc'[d].file = f /\ desc'[d].kind = "plain"
        /\ \A e \in Descs \ {d} : desc'[e] = desc[e]
    BY <1>1, <1>8, <2>1 DEF LazyTypes, DescTables
  <2>4. ASSUME NEW k \in Handles, fh[k].at = "open"
        PROVE  /\ fh[k].desc \in Descs /\ fh[k].desc # d /\ desc'[fh[k].desc] = desc[fh[k].desc]
               /\ (desc[fh[k].desc].kind = "cache" => fh[k].file # f)
    <3>1. /\ fh[k].desc \in Descs /\ desc[fh[k].desc].kind # "free"
          /\ (desc[fh[k].desc].kind = "cache" => fh[k].file # f)
      BY <1>8, <2>4 DEF OwnInv, HandleDesc, CacheOwner
    <3> QED  BY <2>1, <2>3, <3>1
  <2>5. ASSUME NEW i \in 1..NewSlots, slots[i].desc # None
        PROVE  slots[i].desc # d /\ desc'[slots[i].desc] = desc[slots[i].desc]
    <3>1. slots[i].desc \in Descs /\ desc[slots[i].desc].kind # "free"
      BY <1>1, <2>5 DEF OwnInv, SlotDesc, OtherTypes, SlotType
    <3> QED  BY <2>1, <2>3, <3>1
  <2>6. HandleDesc'
    <3>1. HandleDesc
      BY DEF OwnInv
    <3>2. ASSUME NEW k \in Handles \ {h}, fh[k].at = "open"
          PROVE  /\ fh[k].desc \in Descs /\ desc'[fh[k].desc].file = fh[k].file
                 /\ \/ /\ desc'[fh[k].desc].kind = "cache" /\ fh[k].file \in opened'
                       /\ fh[k].file \in cached' /\ fh[k].file \notin stored'
                    \/ desc'[fh[k].desc].kind \in {"plain", "append"} /\ fh[k].file \in stored'
      BY <1>2, <2>4, <3>1, <3>2 DEF HandleDesc, CacheOwner
    <3>3. ASSUME NEW k \in Handles \ {h}, fh[k].at # "open"
          PROVE  fh[k].desc = None
      BY <3>1, <3>3 DEF HandleDesc
    <3>4. /\ desc'[fh'[h].desc].file = fh'[h].file /\ fh'[h].file \in stored'
          /\ desc'[fh'[h].desc].kind \in {"plain", "append"} /\ fh'[h].desc \in Descs
      BY <1>2, <1>8, <2>1, <2>2, <2>3
    <3> QED  BY <2>2, <3>2, <3>3, <3>4 DEF HandleDesc, CacheOwner
  <2>7. HandlesApart'
    <3> SUFFICES ASSUME NEW j \in Handles, NEW k \in Handles, fh'[j].at = "open", fh'[k].at = "open", j # k
                 PROVE  /\ fh'[j].desc # fh'[k].desc
                        /\ fh'[j].file = fh'[k].file => desc'[fh'[j].desc].kind # "cache"
      BY DEF HandlesApart
    <3>1. CASE j = h
      BY <2>2, <2>3, <2>4, <3>1
    <3>2. CASE k = h /\ j # h
      BY <2>2, <2>3, <2>4, <3>2
    <3>3. CASE k # h /\ j # h
      BY <2>2, <2>4, <3>3 DEF OwnInv, HandlesApart
    <3> QED  BY <3>1, <3>2, <3>3
  <2>8. SlotDesc'
    BY <1>2, <1>5, <2>5 DEF OwnInv, SlotDesc, CacheOwner
  <2>9. SlotsApart'
    <3> SUFFICES ASSUME NEW j \in 1..NewSlots, slots'[j].desc # None
                 PROVE  /\ \A m \in 1..NewSlots \ {j} :
                             /\ slots'[m].desc # slots'[j].desc
                             /\ slots'[m].desc # None => slots'[m].file # slots'[j].file
                        /\ \A k \in Handles : fh'[k].desc # slots'[j].desc
      BY DEF SlotsApart
    <3>1. slots'[j] = slots[j] /\ slots[j].desc # None
      BY <1>5
    <3>2. \A k \in Handles : fh'[k].desc # slots[j].desc
      BY <2>2, <2>5, <3>1 DEF OwnInv, SlotsApart
    <3>3. \A m \in 1..NewSlots \ {j} : slots'[m].desc = None \/ slots'[m] = slots[m]
      BY <1>5
    <3> QED  BY <3>1, <3>2, <3>3 DEF OwnInv, SlotsApart
  <2> QED  BY <1>6, <2>6, <2>7, <2>8, <2>9 DEF OwnInv
<1> QED  BY <1>2, <1>7, <1>8

LEMMA OwnNext ==
  ASSUME TypeInv, OwnInv, ~RpcErrors, ~Expiry, [Next]_vars
  PROVE  OwnInv'
<1>1. LazyTypes /\ OtherTypes
  BY TypeParts
<1>2. CASE UNCHANGED vars
  BY <1>2 DEF vars, lazyVars, OwnInv, OpenedNow, HandleDesc, HandlesApart, SlotDesc, SlotsApart,
              CacheOwner
<1>3. ASSUME NEW f \in Files, ExpirePath(f) PROVE OwnInv'
  BY <1>3 DEF ExpirePath
<1>4. ASSUME NEW h \in Handles, NEW f \in Files, NEW w \in Workers, OpenCheck(h, f, w)
      PROVE  OwnInv'
  <2>1. /\ UNCHANGED <<slots, created, opened, desc, cached, stored>>
        /\ fh'[h] = [Idle EXCEPT !.at = "checked", !.file = f]
        /\ \A k \in Handles \ {h} : fh'[k] = fh[k]
    BY <1>1, <1>4 DEF OpenCheck, OtherTypes, lazyVars
  <2>2. fh'[h].at = "checked" /\ fh'[h].desc = None
    BY <2>1 DEF Idle
  <2>3. OpenedNow' /\ HandlesApart'
    <3>1. \A k \in Handles : fh'[k].at = "open" => k # h /\ fh'[k] = fh[k]
      BY <2>1, <2>2
    <3>2. HandlesApart'
      BY <2>1, <3>1 DEF OwnInv, HandlesApart
    <3> QED  BY <2>1, <3>2 DEF OwnInv, OpenedNow
  <2>4. HandleDesc'
    <3>1. \A k \in Handles \ {h} : fh[k].at # "open" => fh[k].desc = None
      BY DEF OwnInv, HandleDesc
    <3>2. \A k \in Handles \ {h} : fh[k].at = "open" =>
             /\ fh[k].desc \in Descs /\ desc[fh[k].desc].file = fh[k].file
             /\ \/ /\ desc[fh[k].desc].kind = "cache" /\ fh[k].file \in opened
                   /\ fh[k].file \in cached /\ fh[k].file \notin stored
                \/ desc[fh[k].desc].kind \in {"plain", "append"} /\ fh[k].file \in stored
      BY DEF OwnInv, HandleDesc, CacheOwner
    <3> QED  BY <2>1, <2>2, <3>1, <3>2 DEF HandleDesc, CacheOwner
  <2>5. SlotDesc'
    BY <2>1 DEF OwnInv, SlotDesc, CacheOwner
  <2>6. SlotsApart'
    BY <2>1, <2>2 DEF OwnInv, SlotsApart
  <2> QED  BY <2>3, <2>4, <2>5, <2>6 DEF OwnInv
<1>5. ASSUME NEW h \in Handles, NEW w \in Workers, Write(h, w) PROVE OwnInv'
  <2>1. PICK f, size, off, r : Wrote(h, w, f, size, off, r)
    BY <1>5, WriteStep
  <2>2. f = fh[h].file /\ fh[h].at = "open" /\ UNCHANGED <<slots, created, opened>>
    BY <2>1 DEF Wrote
  <2> QED  BY <2>1, <2>2, WroteDesc, OwnHandle
<1>6. ASSUME NEW h \in Handles, NEW w \in Workers, Flush(h, w) PROVE OwnInv'
  <2>1. PICK f, r : Flushed(h, w, f, r)
    BY <1>6, FlushStep
  <2>2. f = fh[h].file /\ fh[h].at = "open" /\ UNCHANGED <<slots, created, opened>>
    BY <2>1 DEF Flushed
  <2> QED  BY <2>1, <2>2, FlushedDesc, OwnHandle
<1>7. ASSUME NEW f \in Files, NEW w \in Workers, Mknod(f, w) PROVE OwnInv'
  BY <1>7, OwnMknod
<1>8. ASSUME NEW h \in Handles, NEW w \in Workers, OpenNew(h, w) \/ OpenStored(h, w) \/ Release(h, w)
      PROVE  OwnInv'
  BY <1>8, OwnOpenNew, OwnOpenStored, OwnRelease
<1> QED  BY <1>2, <1>3, <1>4, <1>5, <1>6, <1>7, <1>8 DEF Next

\* While no request fails and no entry of the path cache expires, the descriptor index of
\* an open file names a descriptor of that file, and of no other handle: also when two
\* handles open a file at once, commits change descriptors and slots time out.
THEOREM DescriptorsAreOwn ==
  ASSUME ~RpcErrors, ~Expiry
  PROVE  Spec => []OwnDescriptor
<1>1. Init => OwnInv
  BY FreeTypes, IdleType DEF Init, OwnInv, OpenedNow, HandleDesc, HandlesApart, SlotDesc, SlotsApart
<1>2. TypeInv /\ OwnInv /\ [Next]_vars => OwnInv'
  BY OwnNext
<1>3. OwnInv => OwnDescriptor
  <2> SUFFICES ASSUME OwnInv, NEW h \in Handles, fh[h].at = "open", NEW k \in Handles \ {h}
               PROVE  desc[fh[h].desc].file = fh[h].file /\ fh[k].desc # fh[h].desc
    BY DEF OwnDescriptor, OwnInv, HandleDesc
  <2> QED  BY LazyAssumption DEF OwnInv, HandleDesc, HandlesApart
<1> QED  BY <1>1, <1>2, <1>3, TypeAlways, PTL DEF Spec


-------------------------------------------------------------------------------
(***************************************************************************)
(* The loop that appends a buffer ends, and LazyUploadLock is given back,  *)
(* as long as nothing is written over what is buffered after a commit:     *)
(* curOffset is the sum of the sizes of the writes, which then is at most  *)
(* the length of the buffer file.                                          *)
(***************************************************************************)
NoOverwrites == "overwrite" \notin Patterns
OnlyAppends == Patterns \subseteq {"append"}

\* An entry i with the buffer file b, of a file to which n blocks have been written.
BufferFull(i, b, n) ==
  i.handle /\ i.commits > 0 => i.cur <= Len(b) /\ (i.cur > 0 => i.start + i.cur <= n)

NoRewrite(i, n) == OnlyAppends /\ i.handle => i.start + i.cur <= n

FileInv(i, b, n) == BufferFull(i, b, n) /\ NoRewrite(i, n)

BuffersInv == \A f \in Files : FileInv(info[f], buf[f], Len(written[f]))

LoopInv == BuffersInv /\ hung = {}

InfoType == [handle : BOOLEAN, commits : Nat, start : Nat, cur : Nat]

LEMMA FileInvGrows ==
  ASSUME NEW i \in InfoType, NEW b \in Seq(Blocks), NEW n \in Nat, NEW m \in Nat, m >= n,
         FileInv(i, b, n)
  PROVE  FileInv(i, b, m)
<1>1. Len(b) \in Nat
  OBVIOUS
<1> QED  BY <1>1 DEF FileInv, BufferFull, NoRewrite, InfoType

LEMMA CommitFile ==
  ASSUME NEW s \in States, s.ok, NEW f \in Files, NEW w \in Workers, NEW c \in Commit(s, f, w),
         NEW n \in Nat, FileInv(s.info[f], s.buf[f], n)
  PROVE  /\ c \in States /\ c.got = s.got /\ c.hung = s.hung /\ c.lock = s.lock
         /\ FileInv(c.info[f], c.buf[f], n)
         /\ c.ok => c.info[f].cur = 0
         /\ \A g \in Files \ {f} : c.info[g] = s.info[g] /\ c.buf[g] = s.buf[g]
<1>1. c \in States /\ c.got = s.got /\ BufEffect(s, f, c) /\ LockEffect(s, f, c)
  BY CommitLemma
<1>2. s.info \in Infos /\ s.buf \in Texts /\ s.info[f] \in InfoType /\ Len(s.buf[f]) \in Nat
  BY DEF States, Infos, Texts, InfoType
<1>3. c.hung = s.hung /\ c.lock = s.lock
  BY <1>1, <1>2 DEF LockEffect, FileInv, BufferFull, InfoType
<1>4. CASE c.buf = s.buf /\ c.info = s.info /\ (c.ok => s.info[f].cur = 0)
  BY <1>1, <1>3, <1>4
<1>5. CASE DeadIn(s, f, c)
  <2>1. /\ c.info[f] = [s.info[f] EXCEPT !.handle = FALSE] /\ ~c.ok
        /\ \A g \in Files \ {f} : c.info[g] = s.info[g] /\ c.buf[g] = s.buf[g]
    BY <1>2, <1>5 DEF DeadIn, Infos
  <2>2. ~c.info[f].handle
    BY <1>2, <2>1 DEF InfoType
  <2> QED  BY <1>1, <1>3, <2>1, <2>2 DEF FileInv, BufferFull, NoRewrite
<1>6. CASE s.info[f].handle /\ ResetIn(s, f, c)
  <2>1. /\ c.info[f] = [handle |-> TRUE, commits |-> s.info[f].commits + 1,
                        start |-> s.info[f].start + s.info[f].cur, cur |-> 0]
        /\ c.buf[f] = <<>>
        /\ \A g \in Files \ {f} : c.info[g] = s.info[g] /\ c.buf[g] = s.buf[g]
    BY <1>2, <1>6 DEF ResetIn, Infos, Texts
  <2>2. c.info[f].cur = 0 /\ c.info[f].start = s.info[f].start + s.info[f].cur
    BY <2>1
  <2>3. FileInv(c.info[f], c.buf[f], n)
    BY <1>2, <1>6, <2>1, <2>2 DEF FileInv, BufferFull, NoRewrite, InfoType
  <2> QED  BY <1>1, <1>3, <2>1, <2>2, <2>3
<1> QED  BY <1>1, <1>4, <1>5, <1>6 DEF BufEffect

LEMMA BufferLen ==
  ASSUME NEW b \in Seq(Blocks), NEW data \in Seq(Blocks), NEW at \in Nat, NEW k \in 0..Len(data)
  PROVE  /\ Len(Splice(b, at, SubSeq(data, 1, k))) >= at + k
         /\ Len(Splice(b, at, SubSeq(data, 1, k))) >= Len(b)
<1> DEFINE part == SubSeq(data, 1, k)
<1>1. part \in Seq(Blocks) /\ Len(part) = k
  BY SubText
<1> HIDE DEF part
<1>2. Len(Splice(b, at, part)) = IF Len(b) >= at + Len(part) THEN Len(b) ELSE at + Len(part)
  BY <1>1, SpliceText
<1>3. Len(b) \in Nat /\ Len(part) \in Nat
  BY <1>1
<1>4. Len(Splice(b, at, part)) >= at + k /\ Len(Splice(b, at, part)) >= Len(b)
  BY <1>1, <1>2, <1>3
<1> QED  BY <1>4 DEF part

\* A write to the buffer of a file of n blocks, which has m blocks afterwards.
LEMMA StoreFile ==
  ASSUME NEW c \in States, c.got = 0, NEW f \in Files, NEW off \in Nat, NEW data \in Seq(Blocks),
         NEW r, StoreEffect(c, f, off, data, r), NEW n \in Nat, off <= n, NEW m \in Nat,
         NEW got \in Nat, r.got = got, m >= n, m >= off + got,
         FileInv(c.info[f], c.buf[f], n),
         c.info[f].cur = 0 \/ c.info[f].commits = 0 \/ off = n,
         OnlyAppends => off = n
  PROVE  /\ FileInv(r.info[f], r.buf[f], m)
         /\ \A g \in Files \ {f} : r.info[g] = c.info[g] /\ r.buf[g] = c.buf[g]
<1>1. /\ c.info \in Infos /\ c.buf \in Texts /\ c.info[f] \in InfoType
      /\ c.buf[f] \in Seq(Blocks) /\ Len(c.buf[f]) \in Nat /\ Len(data) \in Nat
  BY DEF States, Infos, Texts, InfoType
<1>2. CASE ~r.ok /\ r.got = c.got /\ r.info = c.info /\ r.buf = c.buf
  <2>1. FileInv(c.info[f], c.buf[f], m)
    BY <1>1, FileInvGrows
  <2> QED  BY <1>2, <2>1
<1>3. ASSUME NEW k \in 1..Len(data), off >= c.info[f].start, r.got = k,
             r.buf = [c.buf EXCEPT ![f] = Splice(@, off - c.info[f].start, SubSeq(data, 1, k))],
             r.info = [c.info EXCEPT ![f].cur = @ + k]
      PROVE  /\ FileInv(r.info[f], r.buf[f], m)
             /\ \A g \in Files \ {f} : r.info[g] = c.info[g] /\ r.buf[g] = c.buf[g]
  <2>0. c.info[f].start \in Nat /\ c.info[f].cur \in Nat /\ c.info[f].commits \in Nat
    BY <1>1 DEF InfoType
  <2>1. PICK at \in Nat : at = off - c.info[f].start
    BY <1>3, <2>0
  <2>2. /\ r.info[f] = [c.info[f] EXCEPT !.cur = @ + k]
        /\ r.buf[f] = Splice(c.buf[f], at, SubSeq(data, 1, k))
        /\ \A g \in Files \ {f} : r.info[g] = c.info[g] /\ r.buf[g] = c.buf[g]
    BY <1>1, <1>3, <2>1 DEF Infos, Texts
  <2>3. /\ r.info[f].cur = c.info[f].cur + k /\ r.info[f].start = c.info[f].start
        /\ r.info[f].commits = c.info[f].commits /\ (r.info[f].handle => c.info[f].handle)
    BY <1>1, <2>2 DEF InfoType
  <2>4. /\ k \in Nat /\ k \in 0..Len(data) /\ at + c.info[f].start = off
        /\ m >= at + c.info[f].start + k
    <3>1. k \in Nat /\ k \in 0..Len(data) /\ got = k
      BY <1>1, <1>3
    <3>2. at + c.info[f].start = off
      BY <2>0, <2>1
    <3>3. m >= off + k
      BY <3>1
    <3> QED  BY <3>1, <3>2, <3>3
  <2>5. Len(r.buf[f]) \in Nat /\ Len(r.buf[f]) >= at + k
    <3>1. Splice(c.buf[f], at, SubSeq(data, 1, k)) \in Seq(Blocks)
      BY <1>1, <2>1, <2>4, WrittenText
    <3>2. Len(Splice(c.buf[f], at, SubSeq(data, 1, k))) >= at + k
      BY <1>1, <2>1, <2>4, BufferLen
    <3>3. r.buf[f] \in Seq(Blocks) /\ Len(r.buf[f]) >= at + k
      BY <2>2, <3>1, <3>2
    <3> QED  BY <3>3
  <2>6. PICK cur \in Nat, start \in Nat, len \in Nat :
          /\ cur = c.info[f].cur /\ start = c.info[f].start /\ len = Len(r.buf[f])
          /\ m >= at + start + k /\ len >= at + k /\ at + start = off
    BY <2>0, <2>4, <2>5
  <2>7. k \in Nat /\ at \in Nat /\ cur \in Nat /\ start \in Nat /\ len \in Nat
        /\ m >= at + start + k /\ len >= at + k
    BY <2>1, <2>4, <2>6
  <2>8. BufferFull(r.info[f], r.buf[f], m)
    <3> SUFFICES ASSUME r.info[f].handle, r.info[f].commits > 0
                 PROVE  /\ r.info[f].cur <= Len(r.buf[f])
                        /\ r.info[f].cur > 0 => r.info[f].start + r.info[f].cur <= m
      BY DEF BufferFull
    <3>1. c.info[f].cur > 0 => c.info[f].start + c.info[f].cur <= n
      BY <2>3 DEF FileInv, BufferFull
    <3>2. c.info[f].cur = 0 \/ off = n
      BY <2>3, <2>0
    <3>3. (cur = 0 \/ at + start = n) /\ (cur > 0 => start + cur <= n) /\ k \in Nat
      BY <2>4, <2>6, <3>1, <3>2
    <3>4. cur + k <= len /\ start + (cur + k) <= m
      <4>1. CASE cur = 0
        BY <2>7, <4>1
      <4>2. CASE at + start = n /\ start + cur <= n
        BY <2>7, <4>2
      <4> QED  BY <2>6, <3>3, <4>1, <4>2
    <3> QED  BY <2>3, <2>6, <3>4
  <2>9. NoRewrite(r.info[f], m)
    <3> SUFFICES ASSUME OnlyAppends, r.info[f].handle
                 PROVE  r.info[f].start + r.info[f].cur <= m
      BY DEF NoRewrite
    <3>1. c.info[f].start + c.info[f].cur <= n
      BY <2>3 DEF FileInv, NoRewrite
    <3>2. at + start = n /\ start + cur <= n /\ k \in Nat
      BY <2>4, <2>6, <3>1
    <3>3. cur <= at
      BY <2>7, <3>2
    <3>4. start + (cur + k) <= m
      BY <2>7, <3>3
    <3> QED  BY <2>3, <2>6, <3>4
  <2> QED  BY <2>2, <2>8, <2>9 DEF FileInv
<1> QED  BY <1>2, <1>3 DEF StoreEffect


LEMMA AllowedWrites ==
  ASSUME TypeInv, NoOverwrites, NEW f \in Files, NEW off \in Nat, NEW size \in Nat \ {0},
         Allowed(f, off, size)
  PROVE  /\ off = Len(written[f]) \/ info[f].commits = 0 \/ off < info[f].start
         /\ OnlyAppends => off = Len(written[f])
<1>1. written[f] \in Seq(Blocks) /\ info[f].start \in Nat
  BY TypeParts DEF OtherTypes, LazyTypes, Texts, Infos
<1>2. Len(written[f]) \in Nat
  BY <1>1
<1>3. Min({info[f].start, Len(written[f])}) <= info[f].start
      /\ Min({info[f].start, Len(written[f])}) \in Nat
  <2>1. Min({info[f].start, Len(written[f])}) =
          IF info[f].start <= Len(written[f]) THEN info[f].start ELSE Len(written[f])
    BY <1>1, <1>2, MinOfTwo
  <2> QED  BY <1>1, <1>2, <2>1
<1>4. off + size <= Min({info[f].start, Len(written[f])}) => off < info[f].start
  BY <1>1, <1>3
<1> QED  BY <1>4 DEF Allowed, NoOverwrites, OnlyAppends

\* Where a write finds and leaves its file: nothing hangs, the buffer is full up to
\* curOffset, and the lock is kept only when a request has failed.
LEMMA LoopWrite ==
  ASSUME TypeInv, LoopInv, NoOverwrites, NEW h \in Handles, NEW w \in Workers, Write(h, w)
  PROVE  LoopInv' /\ (~RpcErrors \/ OnlyAppends => lock' = lock)
<1>1. LazyTypes /\ OtherTypes
  BY TypeParts
<1>2. PICK f, size, off, r : Wrote(h, w, f, size, off, r)
  BY WriteStep
<1> DEFINE s == Now(fh[h].desc)
           n == Len(written[f])
           m == Len(written'[f])
<1>3. /\ f \in Files /\ size \in 1..MaxSize /\ off \in 0..n /\ Allowed(f, off, size)
      /\ Data(size) \in Seq(Blocks) /\ Len(Data(size)) = size
      /\ r \in States /\ Become(r) /\ r.got \in 0..size
      /\ r \in IF f \in opened THEN LazyWrite(s, f, off, Data(size), w)
                               ELSE WriteDirect(s, off, Data(size), lock)
  BY <1>2 DEF Wrote
<1>4. /\ s \in States /\ s.ok /\ s.got = 0 /\ s.info = info /\ s.buf = buf /\ s.lock = lock
      /\ s.hung = {}
  BY <1>2, NowState DEF Wrote, LoopInv
<1>5. written[f] \in Seq(Blocks) /\ info[f] \in InfoType /\ buf[f] \in Seq(Blocks)
  BY <1>1, <1>3 DEF OtherTypes, LazyTypes, Texts, Infos, InfoType
<1>6. n \in Nat /\ off \in Nat /\ off <= n /\ size \in Nat \ {0} /\ r.got \in Nat
  <2>1. n \in Nat
    BY <1>5
  <2>2. size \in Nat \ {0}
    BY <1>3, LazyAssumption
  <2> QED  BY <1>3, <2>1, <2>2
\* The file grows by what was accepted.
<1>7. m \in Nat /\ m >= n /\ m >= off + r.got
  <2>1. CASE r.got = 0
    <3>1. written' = written
      BY <1>2, <2>1 DEF Wrote
    <3>2. m = n
      BY <3>1
    <3> HIDE DEF m, n
    <3>3. off + r.got = off
      BY <1>6, <2>1
    <3> QED  BY <1>6, <3>2, <3>3
  <2>2. CASE r.got # 0
    <3> DEFINE data == Data(size)
               text == Splice(written[f], off, SubSeq(data, 1, r.got))
    <3>1. written'[f] = text
      BY <1>1, <1>2, <1>3, <2>2 DEF Wrote, OtherTypes, Texts
    <3>2. data \in Seq(Blocks) /\ r.got \in 0..Len(data)
      BY <1>3
    <3> HIDE DEF data
    <3>3. text \in Seq(Blocks)
      BY <1>5, <1>6, <3>2, WrittenText
    <3>4. Len(text) >= off + r.got /\ Len(text) >= n
      BY <1>5, <1>6, <3>2, BufferLen
    <3> HIDE DEF text
    <3>5. Len(text) \in Nat
      BY <3>3
    <3> QED  BY <3>1, <3>4, <3>5
  <2> QED  BY <2>1, <2>2
<1>8. /\ off = n \/ info[f].commits = 0 \/ off < info[f].start
      /\ OnlyAppends => off = n
  BY <1>3, <1>6, AllowedWrites
<1>9. FileInv(info[f], buf[f], n)
  BY <1>3 DEF LoopInv, BuffersInv
<1> SUFFICES /\ FileInv(r.info[f], r.buf[f], m)
             /\ \A g \in Files \ {f} : r.info[g] = info[g] /\ r.buf[g] = buf[g]
             /\ r.hung = {} /\ (~RpcErrors \/ OnlyAppends => r.lock = lock)
  <2>1. info' = r.info /\ buf' = r.buf /\ hung' = r.hung /\ lock' = r.lock
    BY <1>3 DEF Become
  <2>2. \A g \in Files \ {f} : written'[g] = written[g]
    BY <1>1, <1>2 DEF Wrote, OtherTypes, Texts
  <2> QED  BY <2>1, <2>2 DEF LoopInv, BuffersInv
<1> HIDE DEF s, m, n
<1>10. CASE f \notin opened
  <2>1. DirectEffect(s, Data(size), lock, r)
    BY <1>1, <1>3, <1>4, <1>6, <1>10, DirectLemma DEF LazyTypes
  <2>2. r.info = info /\ r.buf = buf /\ r.hung = {} /\ r.lock = lock
    BY <1>4, <2>1 DEF DirectEffect
  <2>3. FileInv(info[f], buf[f], m)
    BY <1>5, <1>6, <1>7, <1>9, FileInvGrows
  <2> QED  BY <2>2, <2>3
<1>11. CASE f \in opened
  <2>1. r \in LazyWrite(s, f, off, Data(size), w)
    BY <1>3, <1>11
  <2>2. PICK c \in States : WriteVia(s, f, off, Data(size), w, c, r)
    BY <1>3, <1>4, <1>6, <2>1, LazyWriteLemma
  <2>3. /\ c = s \/ c \in Commit(s, f, w)
    BY <2>2 DEF WriteVia
  <2>4. /\ c.got = 0 /\ c.hung = {} /\ c.lock = lock /\ FileInv(c.info[f], c.buf[f], n)
        /\ c = s \/ (c.ok => c.info[f].cur = 0)
        /\ \A g \in Files \ {f} : c.info[g] = info[g] /\ c.buf[g] = buf[g]
    <3>1. CASE c = s
      BY <1>4, <1>9, <3>1
    <3>2. CASE c \in Commit(s, f, w)
      BY <1>3, <1>4, <1>6, <1>9, <3>2, CommitFile
    <3> QED  BY <2>3, <3>1, <3>2
  <2>5. c.info[f] \in InfoType /\ c.buf[f] \in Seq(Blocks)
    BY <1>3, <2>2 DEF States, Infos, Texts, InfoType
  <2>6. FileInv(c.info[f], c.buf[f], m)
    BY <1>6, <1>7, <2>4, <2>5, FileInvGrows
  <2>7. CASE ~c.ok /\ r = c
    BY <2>4, <2>6, <2>7
  <2>8. CASE s.info[f].handle /\ off < s.info[f].start /\ DirectEffect(c, Data(size), w, r)
    <3>1. r.info = c.info /\ r.buf = c.buf /\ r.hung = c.hung
          /\ (r.lock = c.lock \/ RpcErrors)
      BY <2>8 DEF DirectEffect
    <3>2. ~OnlyAppends
      <4>1. OnlyAppends => info[f].start + info[f].cur <= n
        BY <1>4, <1>9, <2>8 DEF FileInv, NoRewrite
      <4> QED  BY <1>4, <1>5, <1>6, <1>8, <2>8, <4>1 DEF InfoType
    <3> QED  BY <2>4, <2>6, <3>1, <3>2
  <2>9. CASE s.info[f].handle /\ off >= s.info[f].start /\ c.ok /\ StoreEffect(c, f, off, Data(size), r)
    <3>1. r.hung = c.hung /\ r.lock = c.lock
      BY <2>9 DEF StoreEffect
    <3>2. c.info[f].cur = 0 \/ c.info[f].commits = 0 \/ off = n
      <4>1. info[f].commits = 0 \/ off = n
        BY <1>4, <1>5, <1>6, <1>8, <2>9 DEF InfoType
      <4> QED  BY <1>4, <2>4, <2>9, <4>1
    <3>3. PICK got \in Nat : got = r.got
      BY <1>6
    <3>4. m >= off + got
      BY <1>7, <3>3
    <3>5. /\ FileInv(r.info[f], r.buf[f], m)
          /\ \A g \in Files \ {f} : r.info[g] = c.info[g] /\ r.buf[g] = c.buf[g]
      BY <1>3, <1>6, <1>7, <1>8, <2>2, <2>4, <2>9, <3>2, <3>3, <3>4, StoreFile
    <3> QED  BY <2>4, <3>1, <3>5
  <2> QED  BY <2>2, <2>7, <2>8, <2>9 DEF WriteVia
<1> QED  BY <1>10, <1>11


LEMMA LoopFlush ==
  ASSUME TypeInv, LoopInv, NEW h \in Handles, NEW w \in Workers, Flush(h, w)
  PROVE  LoopInv' /\ lock' = lock
<1>1. LazyTypes /\ OtherTypes
  BY TypeParts
<1>2. PICK f, r : Flushed(h, w, f, r)
  BY FlushStep
<1> DEFINE s == Now(fh[h].desc)
           n == Len(written[f])
<1>3. /\ f \in Files /\ Become(r) /\ written' = written
      /\ r \in IF f \in opened THEN Commit(s, f, w) ELSE {s}
  BY <1>2 DEF Flushed
<1>4. /\ s \in States /\ s.ok /\ s.info = info /\ s.buf = buf /\ s.lock = lock /\ s.hung = {}
  BY <1>2, NowState DEF Flushed, LoopInv
<1>5. written[f] \in Seq(Blocks)
  BY <1>1, <1>3 DEF OtherTypes, Texts
<1>6. n \in Nat
  BY <1>5
<1>7. FileInv(info[f], buf[f], n)
  BY <1>3 DEF LoopInv, BuffersInv
<1> HIDE DEF s, n
<1>8. /\ FileInv(r.info[f], r.buf[f], n) /\ r.hung = {} /\ r.lock = lock
      /\ \A g \in Files \ {f} : r.info[g] = info[g] /\ r.buf[g] = buf[g]
  <2>1. CASE r = s
    BY <1>4, <1>7, <2>1
  <2>2. CASE r \in Commit(s, f, w)
    BY <1>3, <1>4, <1>6, <1>7, <2>2, CommitFile
  <2> QED  BY <1>3, <2>1, <2>2
<1>9. info' = r.info /\ buf' = r.buf /\ hung' = r.hung /\ lock' = r.lock
  BY <1>3 DEF Become
<1> QED  BY <1>3, <1>8, <1>9 DEF LoopInv, BuffersInv, n

\* A file that is opened or released has an empty buffer.
LEMMA FreshFile ==
  ASSUME NEW b, NEW n \in Nat
  PROVE  FileInv(NoInfo, b, n) /\ FileInv([NoInfo EXCEPT !.handle = TRUE], b, n)
BY DEF FileInv, BufferFull, NoRewrite, NoInfo

LEMMA LoopNext ==
  ASSUME TypeInv, LoopInv, NoOverwrites, [Next]_vars
  PROVE  LoopInv' /\ (~RpcErrors \/ OnlyAppends => lock' = lock)
<1>1. LazyTypes /\ OtherTypes /\ \A f \in Files : Len(written[f]) \in Nat
  <2>1. LazyTypes /\ OtherTypes
    BY TypeParts
  <2>2. \A f \in Files : written[f] \in Seq(Blocks)
    BY <2>1 DEF OtherTypes, Texts
  <2> QED  BY <2>1, <2>2
\* Steps that leave the buffers alone.
<1>2. ASSUME UNCHANGED <<info, buf, written, hung, lock>>
      PROVE  LoopInv' /\ lock' = lock
  BY <1>2 DEF LoopInv, BuffersInv
<1>3. CASE UNCHANGED vars \/ \E f \in Files : ExpirePath(f)
  BY <1>2, <1>3 DEF vars, lazyVars, ExpirePath
<1>4. ASSUME NEW f \in Files, NEW w \in Workers, Mknod(f, w)
      PROVE  LoopInv' /\ lock' = lock
  BY <1>2, <1>4 DEF Mknod
<1>5. ASSUME NEW h \in Handles, NEW f \in Files, NEW w \in Workers, OpenCheck(h, f, w)
      PROVE  LoopInv' /\ lock' = lock
  BY <1>2, <1>5 DEF OpenCheck, lazyVars
<1>6. ASSUME NEW h \in Handles, NEW w \in Workers, OpenStored(h, w)
      PROVE  LoopInv' /\ lock' = lock
  BY <1>2, <1>6 DEF OpenStored
<1>7. ASSUME NEW h \in Handles, NEW w \in Workers, OpenNew(h, w)
      PROVE  LoopInv' /\ lock' = lock
  <2> DEFINE f == fh[h].file
  <2>1. CASE UNCHANGED <<info, buf>>
    BY <1>2, <1>7, <2>1 DEF OpenNew
  <2>2. CASE /\ info' = [info EXCEPT ![f] = [NoInfo EXCEPT !.handle = TRUE]]
             /\ buf' = [buf EXCEPT ![f] = <<>>]
    <3>1. f \in Files /\ UNCHANGED <<written, hung, lock>>
      BY <1>1, <1>7 DEF OpenNew, OtherTypes, HandleFiles
    <3> HIDE DEF f
    <3>2. \A g \in Files : \/ info'[g] = [NoInfo EXCEPT !.handle = TRUE]
                           \/ info'[g] = info[g] /\ buf'[g] = buf[g]
      BY <1>1, <2>2, <3>1 DEF LazyTypes, Infos, Texts
    <3> QED  BY <1>1, <3>1, <3>2, FreshFile DEF LoopInv, BuffersInv
  <2> QED  BY <1>7, <2>1, <2>2 DEF OpenNew
<1>8. ASSUME NEW h \in Handles, NEW w \in Workers, Release(h, w)
      PROVE  LoopInv' /\ lock' = lock
  <2>1. PICK f, d, r : Released(h, w, f, d, r)
    BY <1>8, ReleaseStep
  <2>2. /\ f \in Files /\ UNCHANGED <<written, hung, lock>>
        /\ \/ info' = info /\ buf' = buf
           \/ info' = [info EXCEPT ![f] = NoInfo] /\ buf' = [buf EXCEPT ![f] = <<>>]
    BY <2>1 DEF Released, Become
  <2>3. \A g \in Files : \/ info'[g] = NoInfo
                         \/ info'[g] = info[g] /\ buf'[g] = buf[g]
    BY <1>1, <2>2 DEF LazyTypes, Infos, Texts
  <2> QED  BY <1>1, <2>2, <2>3, FreshFile DEF LoopInv, BuffersInv
<1>9. ASSUME NEW h \in Handles, NEW w \in Workers, Write(h, w) \/ Flush(h, w)
      PROVE  LoopInv' /\ (~RpcErrors \/ OnlyAppends => lock' = lock)
  BY <1>9, LoopWrite, LoopFlush
<1> QED  BY <1>3, <1>4, <1>5, <1>6, <1>7, <1>8, <1>9 DEF Next

LEMMA LoopInit == Init => LoopInv /\ lock = None
<1> SUFFICES ASSUME Init PROVE LoopInv /\ lock = None
  OBVIOUS
<1>1. \A f \in Files : info[f] = NoInfo /\ Len(written[f]) = 0
  BY DEF Init
<1> QED  BY <1>1, FreshFile DEF Init, LoopInv, BuffersInv

\* As long as no application writes over what is buffered after a commit, the loop of
\* _commitLocalBuffer always finds what curOffset promises and ends, whatever requests
\* fail and whoever shares the file.
THEOREM CommitsEnd ==
  ASSUME NoOverwrites
  PROVE  Spec => []NoneHung
<1>1. TypeInv /\ LoopInv /\ [Next]_vars => LoopInv'
  BY LoopNext
<1>2. LoopInv => NoneHung
  BY DEF LoopInv, NoneHung
<1> QED  BY <1>1, <1>2, LoopInit, TypeAlways, PTL DEF Spec

\* LazyUploadLock is free whenever no operation runs, although requests fail, for
\* applications that only append; and for every one that does not write over what is
\* buffered after a commit, if no request fails.
THEOREM LockAlwaysReturned ==
  ASSUME NoOverwrites, ~RpcErrors \/ OnlyAppends
  PROVE  Spec => []LockReturned
<1>1. TypeInv /\ LoopInv /\ LockReturned /\ [Next]_vars => LoopInv' /\ LockReturned'
  BY LoopNext DEF LockReturned
<1>2. Init => LoopInv /\ LockReturned
  BY LoopInit DEF LockReturned
<1> QED  BY <1>1, <1>2, TypeAlways, PTL DEF Spec

-------------------------------------------------------------------------------
(***************************************************************************)
(* Nothing is lost.  While a file is open lazily, its entry, its buffer    *)
(* file and its object together hold what was written (Whole); every       *)
(* operation of its only handle keeps that (Sound), with a descriptor of   *)
(* the kind that the number of commits calls for.                          *)
(***************************************************************************)
LEMMA SpliceAtEnd ==
  ASSUME NEW text \in Seq(Blocks), NEW data \in Seq(Blocks), NEW off, off = Len(text)
  PROVE  Splice(text, off, data) = text \o data
<1> DEFINE u == Splice(text, off, data)
           v == text \o data
<1>1. off \in Nat /\ Len(data) \in Nat /\ Len(text) \in Nat
  OBVIOUS
<1>2. /\ u \in Seq(Blocks) /\ Len(u) = IF Len(text) >= off + Len(data) THEN Len(text) ELSE off + Len(data)
      /\ \A i \in 1..Len(u) : u[i] = IF i \in off + 1..off + Len(data) THEN data[i - off]
                                     ELSE IF i <= Len(text) THEN text[i] ELSE 0
  BY <1>1, SpliceText
<1>3. /\ v \in Seq(Blocks) /\ Len(v) = Len(text) + Len(data)
      /\ \A i \in 1..Len(text) + Len(data) : v[i] = IF i <= Len(text) THEN text[i] ELSE data[i - Len(text)]
  BY ConcatProperties
<1> HIDE DEF u, v
<1>4. Len(u) = Len(v)
  BY <1>1, <1>2, <1>3
<1>5. \A i \in 1..Len(u) : u[i] = v[i]
  <2> SUFFICES ASSUME NEW i \in 1..Len(u) PROVE u[i] = v[i]
    OBVIOUS
  <2>1. PICK n \in Nat, m \in Nat : n = Len(text) /\ m = Len(data)
    BY <1>1
  <2>2. off = n /\ Len(u) = n + m /\ i \in 1..n + m
    BY <1>1, <1>3, <1>4, <2>1
  <2>3. i \in n + 1..n + m <=> ~(i <= n)
    BY <2>1, <2>2
  <2>4. u[i] = IF i \in n + 1..n + m THEN data[i - n] ELSE IF i <= n THEN text[i] ELSE 0
    BY <1>2, <2>1, <2>2
  <2>5. v[i] = IF i <= n THEN text[i] ELSE data[i - n]
    BY <1>3, <2>1, <2>2
  <2> QED  BY <2>3, <2>4, <2>5
<1>6. u = v
  BY <1>2, <1>3, <1>4, <1>5, SeqEqual
<1> QED  BY <1>6 DEF u, v

\* The first i parts of a buffer together, and the next one.
Upto(data, i) == SubSeq(data, 1, Min({i * Chunk, Len(data)}))

LEMMA UptoText ==
  ASSUME NEW data \in Seq(Blocks), NEW i \in Nat
  PROVE  Upto(data, i) \in Seq(Blocks)
<1>1. Len(data) \in Nat /\ i * Chunk \in Nat
  BY LazyAssumption
<1>2. PICK m \in Nat : m = Min({i * Chunk, Len(data)}) /\ m <= Len(data)
  BY <1>1, MinOfTwo
<1>3. SubSeq(data, 1, m) \in Seq(Blocks)
  <2>1. m \in Int /\ m <= Len(data) /\ 1 \in Nat \ {0}
    BY <1>2
  <2> QED  BY <2>1, SubText
<1> QED  BY <1>2, <1>3 DEF Upto

LEMMA UptoNext ==
  ASSUME NEW data \in Seq(Blocks), NEW i \in Nat \ {0}
  PROVE  Upto(data, i) = Upto(data, i - 1) \o Part(data, i)
<1> DEFINE L == Len(data)
<1>1. PICK a \in Nat, b \in Nat : a = (i - 1) * Chunk /\ b = i * Chunk /\ b = a + Chunk /\ L \in Nat
                                  /\ Chunk \in Nat /\ Chunk > 0
  <2>1. Chunk \in Nat /\ Chunk > 0 /\ L \in Nat
    BY LazyAssumption
  <2>2. (i - 1) * Chunk \in Nat /\ i * Chunk \in Nat /\ i * Chunk = (i - 1) * Chunk + Chunk
    BY <2>1
  <2> QED  BY <2>1, <2>2
<1>2. PICK m \in Nat, n \in Nat : /\ m = Min({a, L}) /\ n = Min({b, L})
                                  /\ m = IF a <= L THEN a ELSE L
                                  /\ n = IF b <= L THEN b ELSE L
  BY <1>1, MinOfTwo
<1> HIDE DEF L
<1>3. Upto(data, i) = SubSeq(data, 1, n) /\ Upto(data, i - 1) = SubSeq(data, 1, m)
      /\ Part(data, i) = SubSeq(data, a + 1, n)
  BY <1>1, <1>2 DEF Upto, Part, L
<1>4. CASE a <= L
  <2>1. m = a /\ 1 \in 1..L + 1 /\ m \in 1 - 1..L /\ n \in m..L
    <3>1. L \in Nat /\ a \in Nat /\ b \in Nat /\ b >= a
      BY <1>1
    <3> QED  BY <1>2, <1>4, <3>1
  <2>2. SubSeq(data, 1, m) \o SubSeq(data, m + 1, n) = SubSeq(data, 1, n)
    BY <2>1, ConcatAdjacentSubSeq DEF L
  <2> QED  BY <1>3, <2>1, <2>2
<1>5. CASE ~(a <= L)
  <2>1. m = L /\ n = L /\ n < a + 1 /\ a + 1 \in Int /\ n \in Int
    <3>1. L \in Nat /\ a \in Nat /\ b \in Nat /\ b >= a
      BY <1>1
    <3> QED  BY <1>2, <1>5, <3>1
  <2>2. SubSeq(data, a + 1, n) = <<>>
    BY <2>1, SubSeqEmpty
  <2>3. SubSeq(data, 1, L) = data
    BY SubSeqFull DEF L
  <2>4. data \o <<>> = data
    BY ConcatEmptySeq
  <2> QED  BY <1>3, <2>1, <2>2, <2>3, <2>4
<1> QED  BY <1>4, <1>5

\* The turns of the loop cover the buffer.
LEMMA UptoAll ==
  ASSUME NEW data \in Seq(Blocks), NEW n \in Nat, n = (Len(data) + Chunk - 1) \div Chunk
  PROVE  Upto(data, n) = data
<1> DEFINE L == Len(data)
<1>1. L \in Nat /\ Chunk \in Nat /\ Chunk > 0
  BY LazyAssumption
<1> HIDE DEF L
<1>2. n * Chunk \in Nat /\ L <= n * Chunk
  <2>1. PICK x \in Nat : x = L + Chunk - 1
    BY <1>1
  <2>2. n = x \div Chunk
    BY <2>1 DEF L
  <2>3. x < (n + 1) * Chunk
    BY ONLY <1>1, <2>1, <2>2, n \in Nat
  <2>4. (n + 1) * Chunk = n * Chunk + Chunk /\ n * Chunk \in Nat
    BY <1>1
  <2> QED  BY <1>1, <2>1, <2>3, <2>4
<1>3. Min({n * Chunk, L}) = L
  BY <1>1, <1>2, MinOfTwo
<1>4. SubSeq(data, 1, Len(data)) = data
  BY SubSeqFull
<1> QED  BY <1>3, <1>4 DEF Upto, L

\* The state with another object of f.
WithObject(s, f, text) == [s EXCEPT !.server[f] = text]

\* Without failures the loop appends the buffer to the object.
LEMMA SentAppends ==
  ASSUME NEW s \in States, NEW f \in Files, s.d \in Descs, s.desc[s.d] = AppendDesc(f),
         NEW n \in Nat
  PROVE  Sent(s, f, n, {}) = WithObject(s, f, s.server[f] \o Upto(s.buf[f], n))
<1> DEFINE start == s.info[f].start
           b == s.buf[f]
           v == s.server[f]
           Body(i, g) == IF i = 0 THEN Text(s, s.d)
                         ELSE IF i \in {} THEN g[i - 1]
                         ELSE Placed(s.desc[s.d].kind, g[i - 1], start, Part(b, i))
           loop == CHOOSE g : g = [i \in 0..n |-> Body(i, g)]
           h == [i \in 0..n |-> v \o Upto(b, i)]
<1>1. s.desc[s.d].kind = "append" /\ s.desc[s.d].file = f
  BY DEF AppendDesc
<1>2. Text(s, s.d) = v /\ b \in Seq(Blocks) /\ v \in Seq(Blocks)
  BY <1>1 DEF Text, States, Texts
<1>3. Sent(s, f, n, {}) = WithText(s, s.d, loop[n])
  BY DEF Sent
<1>4. WithText(s, s.d, loop[n]) = [s EXCEPT !.server[f] = loop[n]]
  BY <1>1 DEF WithText
<1>5. \A i, g : Body(i, g) = IF i = 0 THEN v ELSE g[i - 1] \o Part(b, i)
  BY <1>1, <1>2 DEF Placed
<1> HIDE DEF start, b, v, Body
<1>6. h[0] = v
  <2>1. Upto(b, 0) = <<>>
    <3>1. Len(b) \in Nat /\ 0 * Chunk = 0
      BY <1>2, LazyAssumption
    <3>2. Min({0 * Chunk, Len(b)}) = 0
      BY <3>1, MinOfTwo
    <3> QED  BY <3>2, SubSeqEmpty DEF Upto
  <2>2. v \o <<>> = v
    BY <1>2, ConcatEmptySeq
  <2>3. h[0] = v \o Upto(b, 0)
    OBVIOUS
  <2> QED  BY <2>1, <2>2, <2>3
<1>7. \A i \in 1..n : h[i] = h[i - 1] \o Part(b, i)
  <2> SUFFICES ASSUME NEW i \in 1..n PROVE h[i] = h[i - 1] \o Part(b, i)
    OBVIOUS
  <2>1. i \in Nat \ {0} /\ i - 1 \in Nat /\ i \in 0..n /\ i - 1 \in 0..n
    OBVIOUS
  <2>2. h[i] = v \o Upto(b, i) /\ h[i - 1] = v \o Upto(b, i - 1)
    BY <2>1
  <2>3. Upto(b, i) = Upto(b, i - 1) \o Part(b, i)
    BY <1>2, <2>1, UptoNext
  <2>4. Upto(b, i - 1) \in Seq(Blocks) /\ Part(b, i) \in Seq(Blocks)
    BY <1>2, <2>1, UptoText, PartText
  <2>5. (v \o Upto(b, i - 1)) \o Part(b, i) = v \o (Upto(b, i - 1) \o Part(b, i))
    BY <1>2, <2>4, ConcatAssociative
  <2> QED  BY <2>2, <2>3, <2>5
<1>8. h = [i \in 0..n |-> Body(i, h)]
  <2>1. h = [i \in 0..n |-> h[i]]
    OBVIOUS
  <2> HIDE DEF h
  <2>2. \A i \in 0..n : i = 0 \/ i \in 1..n
    OBVIOUS
  <2>3. \A i \in 0..n : h[i] = Body(i, h)
    BY <1>5, <1>6, <1>7, <2>2
  <2> QED  BY <2>1, <2>3
<1> HIDE DEF h
<1>9. loop = [i \in 0..n |-> Body(i, loop)]
  BY <1>8
<1> HIDE DEF loop
<1>10. loop[0] = v /\ \A i \in 1..n : loop[i] = loop[i - 1] \o Part(b, i)
  <2>1. \A i \in 0..n : loop[i] = Body(i, loop)
    BY <1>9
  <2>2. 0 \in 0..n /\ \A i \in 1..n : i \in 0..n /\ i # 0
    OBVIOUS
  <2> QED  BY <1>5, <2>1, <2>2
<1>11. \A i \in 0..n : loop[i] = h[i]
  <2>1. loop[0] = h[0] /\ \A i \in 1..n : loop[i - 1] = h[i - 1] => loop[i] = h[i]
    BY <1>6, <1>7, <1>10
  <2> QED  BY ONLY <2>1, n \in Nat, SameOnInterval
<1>12. loop[n] = v \o Upto(b, n)
  BY <1>11 DEF h
<1> QED  BY <1>3, <1>4, <1>12 DEF v, b, WithObject

\* What has been written, t, of a file with the entry i, the buffer file b and the object v:
\* before the first commit it is in the buffer, and later the object goes on in the buffer.
\* curOffset counts what was written twice before the first commit twice, so that the
\* object may end before curLocalOffsetStart, but only while the buffer is empty.
Whole(i, b, v, t) ==
  /\ i.handle
  /\ i.commits = 0 => v = <<>> /\ t = b /\ i.start = 0 /\ Len(b) <= i.cur
  /\ i.commits > 0 => /\ t = v \o b /\ i.cur = Len(b) /\ Len(v) <= i.start
                      /\ i.cur > 0 => i.start = Len(v)

LEMMA EmptyText ==
  ASSUME NEW b \in Seq(Blocks), Len(b) <= 0
  PROVE  b = <<>>
<1>1. Len(b) \in Nat
  OBVIOUS
<1>2. Len(b) = 0
  BY <1>1
<1> QED  BY <1>2, EmptySeq

\* A commit with nothing to do.
LEMMA WholeClean ==
  ASSUME NEW i \in InfoType, NEW b \in Seq(Blocks), NEW v \in Seq(Blocks), NEW t,
         Whole(i, b, v, t), i.cur = 0
  PROVE  v = t /\ b = <<>>
<1>1. b = <<>>
  <2>1. i.commits \in Nat /\ Len(b) \in Nat
    BY DEF InfoType
  <2>2. Len(b) <= 0
    BY <2>1 DEF Whole
  <2> QED  BY <2>2, EmptyText
<1>2. v \o <<>> = v
  BY ConcatEmptySeq
<1>3. i.commits = 0 \/ i.commits > 0
  BY DEF InfoType
<1> QED  BY <1>1, <1>2, <1>3 DEF Whole

\* A commit that uploads everything.
CommittedInfo(i) ==
  [handle |-> TRUE, commits |-> i.commits + 1, start |-> i.start + i.cur, cur |-> 0]

LEMMA WholeReset ==
  ASSUME NEW i \in InfoType, NEW b \in Seq(Blocks), NEW v \in Seq(Blocks), NEW t, NEW u,
         Whole(i, b, v, t), u = IF i.commits = 0 THEN b ELSE v \o b
  PROVE  u = t /\ Whole(CommittedInfo(i), <<>>, u, t)
<1> DEFINE j == CommittedInfo(i)
<1>1. i.commits \in Nat /\ i.start \in Nat /\ i.cur \in Nat /\ Len(b) \in Nat /\ Len(v) \in Nat
  BY DEF InfoType
<1>2. u = t
  BY <1>1 DEF Whole
<1>3. u \in Seq(Blocks) /\ Len(u) \in Nat /\ Len(u) <= i.start + i.cur
  <2>1. CASE i.commits = 0
    BY <1>1, <2>1 DEF Whole
  <2>2. CASE i.commits > 0
    <3>1. v \o b \in Seq(Blocks) /\ Len(v \o b) = Len(v) + Len(b)
      BY ConcatProperties
    <3>2. u = v \o b /\ i.cur = Len(b) /\ Len(v) <= i.start
      BY <1>1, <2>2 DEF Whole
    <3>3. Len(u) = Len(v) + Len(b) /\ u \in Seq(Blocks)
      BY <3>1, <3>2
    <3> QED  BY <1>1, <3>2, <3>3
  <2> QED  BY <1>1, <2>1, <2>2
<1>4. t = u \o <<>>
  BY <1>2, <1>3, ConcatEmptySeq
<1>5. j.handle /\ j.commits > 0 /\ j.commits # 0 /\ j.cur = 0 /\ j.start = i.start + i.cur
  BY <1>1 DEF CommittedInfo
<1>6. Len(<<>>) = 0
  OBVIOUS
<1> HIDE DEF j
<1>7. Whole(j, <<>>, u, t)
  BY <1>3, <1>4, <1>5, <1>6 DEF Whole
<1> QED  BY <1>2, <1>7 DEF j

-------------------------------------------------------------------------------
\* An operation on the file f with a descriptor that fits, which has been written t.
Sound(s, f, t) ==
  /\ s \in States /\ s.d \in Descs
  /\ s.desc[s.d] = [file |-> f, kind |-> IF s.info[f].commits = 0 THEN "cache" ELSE "append"]
  /\ Whole(s.info[f], s.buf[f], s.server[f], t)
  /\ s.info[f].commits = 0 => f \in s.cached
  /\ s.info[f].commits > 0 => f \in s.stored

\* What an operation on f leaves alone.
ElseSame(s, f, r) ==
  /\ r.newCache = s.newCache
  /\ \A g \in Files \ {f} : /\ r.info[g] = s.info[g] /\ r.buf[g] = s.buf[g]
                            /\ r.server[g] = s.server[g] /\ (g \in r.stored <=> g \in s.stored)

\* What the loop of a later commit does.
Appended(s, f, r) ==
  /\ ResetIn(s, f, r) /\ r \in States /\ r.d = s.d /\ r.desc = s.desc /\ r.got = s.got
  /\ r.cached = s.cached /\ r.stored = s.stored /\ r.newCache = s.newCache
  /\ r.server = [s.server EXCEPT ![f] = s.server[f] \o s.buf[f]]

LEMMA AppendWhole ==
  ASSUME NEW f \in Files, NEW t, NEW s, Sound(s, f, t), s.ok, s.info[f].commits > 0, ~RpcErrors,
         NEW w \in Workers, NEW r \in AppendBuffer(s, f, w)
  PROVE  Appended(s, f, r)
<1> DEFINE n == Chunks(s, f)
           u == [s EXCEPT !.server[f] = s.server[f] \o s.buf[f]]
           S == [s.server EXCEPT ![f] = s.server[f] \o s.buf[f]]
<1>1. /\ s \in States /\ s.ok /\ s.d \in Descs /\ s.desc[s.d] = AppendDesc(f)
      /\ s.info[f].cur = Len(s.buf[f]) /\ s.info[f] \in InfoType
      /\ s.buf[f] \in Seq(Blocks) /\ s.server[f] \in Seq(Blocks) /\ s.server \in Texts
  <2>1. s \in States /\ s.info[f].commits # 0
    BY DEF Sound
  <2> QED  BY <2>1 DEF Sound, Whole, AppendDesc, States, Infos, Texts, InfoType
<1>2. Len(s.buf[f]) \in Nat
  BY <1>1
<1>3. n = (Len(s.buf[f]) + Chunk - 1) \div Chunk /\ n \in Nat
  <2>1. Min({Len(s.buf[f]), s.info[f].cur}) = Len(s.buf[f])
    <3>1. PICK L \in Nat : L = Len(s.buf[f]) /\ L = s.info[f].cur
      BY <1>1, <1>2
    <3>2. Min({L, L}) = L
      BY MinOfTwo
    <3> QED  BY <3>1, <3>2
  <2>2. n = (Len(s.buf[f]) + Chunk - 1) \div Chunk
    BY <2>1 DEF Chunks
  <2>3. PICK m \in Nat : m = Len(s.buf[f]) + Chunk - 1 /\ Chunk \in Nat \ {0}
    BY <1>2, LazyAssumption
  <2>4. m \div Chunk \in Nat
    <3>1. m \in Nat /\ Chunk \in Nat \ {0}
      BY <2>3
    <3> QED  BY ONLY <3>1
  <2> HIDE DEF n
  <2> QED  BY <2>2, <2>3, <2>4
<1> HIDE DEF n
<1>4. Sent(s, f, n, {}) = u
  <2>1. Upto(s.buf[f], n) = s.buf[f]
    BY <1>1, <1>3, UptoAll
  <2>2. Sent(s, f, n, {}) = WithObject(s, f, s.server[f] \o Upto(s.buf[f], n))
    <3>1. s \in States /\ f \in Files /\ s.d \in Descs /\ s.desc[s.d] = AppendDesc(f) /\ n \in Nat
      BY <1>1, <1>3
    <3> QED  BY <3>1, SentAppends
  <2> QED  BY <2>1, <2>2 DEF WithObject
<1>5. r = Reset(u, f)
  <2>1. ~(Len(s.buf[f]) < s.info[f].cur)
    BY <1>1, <1>2
  <2>2. r = Reset(Sent(s, f, n, {}), f)
    BY <2>1 DEF AppendBuffer, n
  <2> QED  BY <1>4, <2>2
<1>6. S \in Texts
  <2>1. s.server[f] \o s.buf[f] \in Seq(Blocks)
    BY <1>1, ConcatProperties
  <2> QED  BY <1>1, <2>1 DEF Texts
<1>7. u = [s EXCEPT !.server = S]
  BY <1>1 DEF States
<1> HIDE DEF S, u
<1>8. /\ u \in States /\ u.ok = s.ok /\ u.d = s.d /\ u.desc = s.desc /\ u.got = s.got
      /\ u.cached = s.cached /\ u.stored = s.stored /\ u.newCache = s.newCache
      /\ u.server = S /\ u.info = s.info /\ u.buf = s.buf
  BY <1>1, <1>6, <1>7 DEF States
<1>9. r \in States /\ ResetIn(u, f, r) /\ RestSame(u, r)
  BY <1>1, <1>5, <1>8, ResetState
<1> QED  BY <1>8, <1>9 DEF Appended, ResetIn, RestSame, S

\* A commit brings all that was written to iRODS, and touches no other file.
LEMMA CommitWhole ==
  ASSUME NEW f \in Files, NEW t, NEW s, Sound(s, f, t), s.ok, ~RpcErrors,
         NEW w \in Workers, NEW c \in Commit(s, f, w)
  PROVE  /\ Sound(c, f, t) /\ c.ok /\ ElseSame(s, f, c) /\ c.got = s.got
         /\ c.server[f] = t /\ c.buf[f] = <<>> /\ c.info[f].cur = 0
         /\ s.info[f].cur = 0 => c = s
<1> DEFINE i == s.info[f]
           b == s.buf[f]
           v == s.server[f]
           j == CommittedInfo(i)
           u == IF i.commits = 0 THEN b ELSE v \o b
<1>1. /\ s \in States /\ s.ok /\ s.d \in Descs /\ i \in InfoType
      /\ b \in Seq(Blocks) /\ v \in Seq(Blocks)
      /\ s.server \in Texts /\ s.info \in Infos /\ s.buf \in Texts /\ s.desc \in DescTables
  BY DEF Sound, States, Infos, Texts, InfoType
<1>2. i.cur \in Nat /\ i.commits \in Nat /\ i.handle
  BY <1>1 DEF InfoType, Sound, Whole
<1>3. InUse(s, s.d)
  <2>1. s.desc[s.d].kind \in {"cache", "append"}
    BY DEF Sound
  <2> QED  BY <1>1, <2>1, LazyAssumption DEF InUse
<1>4. CASE i.cur = 0
  <2>1. c = s
    BY <1>2, <1>4 DEF Commit
  <2>2. v = t /\ b = <<>>
    BY <1>1, <1>4, WholeClean DEF Sound
  <2> QED  BY <1>4, <2>1, <2>2 DEF ElseSame
<1>5. CASE i.cur > 0
  <2>1. /\ ResetIn(s, f, c) /\ c \in States /\ c.d \in Descs /\ c.desc[c.d] = AppendDesc(f)
        /\ c.got = s.got /\ f \in c.stored /\ c.newCache = s.newCache
        /\ \A g \in Files \ {f} : g \in c.stored <=> g \in s.stored
        /\ c.server = [s.server EXCEPT ![f] = u]
    <3>1. CASE i.commits = 0
      <4>1. c \in PutBuffer(s, f)
        BY <1>2, <1>3, <1>5, <3>1 DEF Commit
      <4>2. s.desc[s.d].kind # "free" /\ f \in s.cached
        BY <3>1 DEF Sound
      <4>3. PutEffect(s, f, c)
        BY <1>1, <4>1, <4>2, PutLemma
      <4>4. /\ ResetIn(s, f, c) /\ c \in States /\ c.d \in Descs /\ c.got = s.got
            /\ c.desc = [s.desc EXCEPT ![s.d] = FreeDesc, ![c.d] = AppendDesc(f)]
            /\ c.stored = s.stored \cup {f} /\ c.newCache = s.newCache
            /\ c.server = [s.server EXCEPT ![f] = s.buf[f]]
        BY <4>2, <4>3 DEF PutEffect
      <4>5. c.desc[c.d] = AppendDesc(f)
        BY <1>1, <4>4 DEF DescTables
      <4> QED  BY <3>1, <4>4, <4>5
    <3>2. CASE i.commits > 0
      <4>1. c \in AppendBuffer(s, f, w)
        BY <1>2, <1>3, <1>5, <3>2 DEF Commit
      <4>2. s.desc[s.d] = AppendDesc(f) /\ f \in s.stored /\ i.commits # 0
        BY <1>2, <3>2 DEF Sound, AppendDesc
      <4>3. Appended(s, f, c)
        BY <3>2, <4>1, AppendWhole
      <4> QED  BY <1>1, <4>2, <4>3 DEF Appended
    <3> QED  BY <1>2, <3>1, <3>2
  <2>2. /\ c.ok /\ c.info[f] = j /\ c.buf[f] = <<>> /\ c.server[f] = u
        /\ \A g \in Files \ {f} : /\ c.info[g] = s.info[g] /\ c.buf[g] = s.buf[g]
                                  /\ c.server[g] = s.server[g]
    BY <1>1, <2>1 DEF ResetIn, Infos, Texts, CommittedInfo
  <2>3. u = t /\ Whole(j, <<>>, u, t)
    <3>1. Whole(i, b, v, t)
      BY DEF Sound
    <3>2. /\ i \in InfoType /\ b \in Seq(Blocks) /\ v \in Seq(Blocks)
          /\ u = IF i.commits = 0 THEN b ELSE v \o b
      BY <1>1
    <3> HIDE DEF i, b, v, u
    <3> QED  BY <3>1, <3>2, WholeReset
  <2>4. j.cur = 0 /\ j.commits > 0 /\ j.commits # 0
    BY <1>2 DEF CommittedInfo
  <2> HIDE DEF i, b, v, j, u
  <2>5. Sound(c, f, t)
    BY <2>1, <2>2, <2>3, <2>4 DEF Sound, AppendDesc
  <2>6. ElseSame(s, f, c)
    BY <2>1, <2>2 DEF ElseSame
  <2>7. i.cur # 0
    BY <1>2, <1>5
  <2> QED  BY <2>1, <2>2, <2>3, <2>4, <2>5, <2>6, <2>7 DEF i
<1> QED  BY <1>2, <1>4, <1>5

\* What has been written after k blocks of data were accepted.
Grown(t, off, data, k) == IF k = 0 THEN t ELSE Splice(t, off, SubSeq(data, 1, k))

LEMMA ConcatTexts ==
  ASSUME NEW x \in Seq(Blocks), NEW y \in Seq(Blocks), NEW z \in Seq(Blocks)
  PROVE  (x \o y) \o z = x \o (y \o z)
BY ConcatAssociative

\* A write to the buffer file.
LEMMA StoreWhole ==
  ASSUME NEW f \in Files, NEW t \in Seq(Blocks), NEW c, Sound(c, f, t), c.got = 0,
         NEW off \in Nat, off <= Len(t), NEW data \in Seq(Blocks),
         c.info[f].commits = 0 \/ c.info[f].cur = 0 \/ off = Len(t),
         NEW r, StoreEffect(c, f, off, data, r)
  PROVE  Sound(r, f, Grown(t, off, data, r.got)) /\ ElseSame(c, f, r)
<1> DEFINE i == c.info[f]
           b == c.buf[f]
           v == c.server[f]
<1>1. /\ c \in States /\ c.info \in Infos /\ c.buf \in Texts /\ i \in InfoType
      /\ b \in Seq(Blocks) /\ v \in Seq(Blocks)
  BY DEF Sound, States, Infos, Texts, InfoType
<1>2. /\ i.cur \in Nat /\ i.start \in Nat /\ i.commits \in Nat
      /\ Len(b) \in Nat /\ Len(v) \in Nat /\ Len(t) \in Nat /\ Len(data) \in Nat
  BY <1>1 DEF InfoType
<1>3. /\ r \in States /\ r.d = c.d /\ r.desc = c.desc /\ r.cached = c.cached
      /\ r.newCache = c.newCache /\ r.stored = c.stored /\ r.server = c.server
  BY DEF StoreEffect
<1>4. CASE ~r.ok /\ r.got = c.got /\ r.info = c.info /\ r.buf = c.buf
  BY <1>3, <1>4 DEF Sound, ElseSame, Grown
<1>5. ASSUME NEW k \in 1..Len(data), off >= i.start, r.got = k,
             r.buf = [c.buf EXCEPT ![f] = Splice(@, off - c.info[f].start, SubSeq(data, 1, k))],
             r.info = [c.info EXCEPT ![f].cur = @ + k]
      PROVE  Sound(r, f, Grown(t, off, data, r.got)) /\ ElseSame(c, f, r)
  <2> DEFINE part == SubSeq(data, 1, k)
             at == off - i.start
             u == Splice(b, at, part)
             t2 == Splice(t, off, part)
  <2>1. part \in Seq(Blocks) /\ Len(part) = k /\ k \in Nat \ {0} /\ at \in Nat
    <3>1. k \in Nat \ {0} /\ k \in Int /\ k <= Len(data) /\ 1 \in Nat \ {0} /\ 1 <= k
      BY <1>2, <1>5
    <3>2. part \in Seq(Blocks) /\ Len(part) = k - 1 + 1
      BY <3>1, SubText
    <3>3. at \in Nat
      BY <1>2, <1>5
    <3>4. k - 1 + 1 = k
      BY <3>1
    <3> QED  BY <3>1, <3>2, <3>3, <3>4
  <2>2. Grown(t, off, data, r.got) = t2
    BY <1>5, <2>1 DEF Grown
  <2> HIDE DEF part
  <2>3. /\ r.info[f] = [i EXCEPT !.cur = @ + k] /\ r.buf[f] = u
        /\ \A g \in Files \ {f} : r.info[g] = c.info[g] /\ r.buf[g] = c.buf[g]
    BY <1>1, <1>5 DEF Infos, Texts, part
  <2>4. /\ r.info[f].handle = i.handle /\ r.info[f].commits = i.commits
        /\ r.info[f].start = i.start /\ r.info[f].cur = i.cur + k
    BY <1>1, <2>3 DEF InfoType
  <2>5. Whole(i, b, v, t)
    BY DEF Sound
  <2> HIDE DEF i, b, v, at
  <2>6. CASE i.commits = 0
    <3>1. v = <<>> /\ t = b /\ i.start = 0 /\ Len(b) <= i.cur /\ i.handle
      BY <2>5, <2>6 DEF Whole
    <3>2. at = off
      BY <3>1 DEF at
    <3>3. Len(u) = IF Len(b) >= at + Len(part) THEN Len(b) ELSE at + Len(part)
      BY <1>1, <2>1, SpliceText
    <3>4. PICK lb \in Nat, cur \in Nat, kk \in Nat :
            lb = Len(b) /\ cur = i.cur /\ kk = k /\ lb <= cur /\ off <= lb
      BY <1>2, <2>1, <3>1
    <3>5. Len(u) = IF lb >= off + kk THEN lb ELSE off + kk
      BY <2>1, <3>2, <3>3, <3>4
    <3>6. Len(u) <= cur + kk
      BY <3>4, <3>5
    <3>7. Len(u) <= r.info[f].cur
      BY <2>4, <3>4, <3>6
    <3>8. u = t2
      BY <3>1, <3>2
    <3> HIDE DEF u, t2
    <3>9. Whole(r.info[f], r.buf[f], v, t2)
      BY <2>3, <2>4, <2>6, <3>1, <3>7, <3>8 DEF Whole
    <3> QED  BY <1>3, <2>2, <2>3, <2>4, <3>9 DEF Sound, ElseSame, i, v
  <2>7. CASE i.commits > 0
    <3>1. /\ t = v \o b /\ i.cur = Len(b) /\ Len(v) <= i.start /\ i.handle
          /\ i.cur > 0 => i.start = Len(v)
      BY <2>5, <2>7 DEF Whole
    <3>2. Len(t) = Len(v) + Len(b)
      BY <1>1, <3>1, ConcatProperties
    <3>0. off = Len(t)
      <4>1. i.cur = 0 \/ off = Len(t)
        BY <1>2, <2>7 DEF i
      <4>2. PICK lb \in Nat, lv \in Nat, lt \in Nat, st \in Nat :
              /\ lb = Len(b) /\ lv = Len(v) /\ lt = Len(t) /\ st = i.start /\ lt = lv + lb
              /\ off <= lt /\ lv <= st /\ off >= st /\ (i.cur = 0 => lb = 0)
        BY <1>2, <1>5, <3>1, <3>2 DEF i
      <4>3. CASE i.cur = 0
        <5>1. lb = 0 /\ lt = lv + lb /\ off <= lt /\ lv <= st /\ off >= st
          BY <4>2, <4>3
        <5>2. off = lt
          BY <5>1
        <5> QED  BY <4>2, <5>2
      <4> QED  BY <4>1, <4>3
    <3>3. PICK lb \in Nat, lv \in Nat, st \in Nat :
            /\ lb = Len(b) /\ lv = Len(v) /\ st = i.start /\ off = lv + lb /\ lv <= st /\ off >= st
            /\ lb > 0 => st = lv
      <4>1. off = Len(t)
        BY <3>0
      <4>2. off = Len(v) + Len(b) /\ off >= i.start
        BY <1>5, <3>2, <4>1
      <4> QED  BY <1>2, <3>1, <4>2
    <3>4. st = lv /\ off - st = lb
      BY <3>3
    <3>5. at = Len(b) /\ i.start = Len(v)
      BY <3>3, <3>4 DEF at
    <3>6. u = b \o part
      BY <1>1, <2>1, <3>5, SpliceAtEnd
    <3>7. t2 = t \o part
      <4>1. off = Len(t)
        BY <3>0
      <4> QED  BY <2>1, <4>1, SpliceAtEnd
    <3>8. (v \o b) \o part = v \o (b \o part)
      <4>1. v \in Seq(Blocks) /\ b \in Seq(Blocks) /\ part \in Seq(Blocks)
        BY <1>1, <2>1
      <4> QED  BY <4>1, ConcatTexts
    <3>9. t2 = v \o u
      BY <3>1, <3>6, <3>7, <3>8
    <3>10. Len(u) = Len(b) + k
      BY <1>1, <2>1, <3>6, ConcatProperties
    <3>11. i.commits # 0
      BY <2>7
    <3>12. r.info[f].cur = Len(u)
      BY <2>4, <3>1, <3>10
    <3>13. Len(v) <= i.start
      BY <3>1
    <3> HIDE DEF u, t2
    <3>14. Whole(r.info[f], r.buf[f], v, t2)
      BY <2>3, <2>4, <2>7, <3>1, <3>5, <3>9, <3>11, <3>12, <3>13 DEF Whole
    <3> QED  BY <1>3, <2>2, <2>3, <2>4, <3>14 DEF Sound, ElseSame, i, v
  <2> QED  BY <1>2, <2>6, <2>7 DEF i
<1> QED  BY <1>4, <1>5 DEF StoreEffect

\* Writes to iRODS that do not fail.
Direct(c, f, off, data, r) ==
  /\ r \in States /\ r.got = Len(data)
  /\ r.d = c.d /\ r.desc = c.desc /\ r.cached = c.cached /\ r.stored = c.stored
  /\ r.info = c.info /\ r.buf = c.buf /\ r.newCache = c.newCache
  /\ \A g \in Files \ {f} : r.server[g] = c.server[g]
  /\ r.server[f] = Placed(c.desc[c.d].kind, c.server[f], off, data)

LEMMA DirectText ==
  ASSUME ~RpcErrors, NEW c \in States, NEW f \in Files, c.d \in Descs, c.desc[c.d].file = f,
         c.desc[c.d].kind \in {"append", "plain"}, NEW off \in Nat, NEW data \in Seq(Blocks),
         NEW w, NEW r \in WriteDirect(c, off, data, w)
  PROVE  Direct(c, f, off, data, r)
<1> DEFINE text == Placed(c.desc[c.d].kind, c.server[f], off, data)
           S == [c.server EXCEPT ![f] = text]
<1>1. InUse(c, c.d) /\ c.desc[c.d].kind # "cache"
  BY LazyAssumption DEF InUse
<1>2. r = [Through(c, c.d, off, data) EXCEPT !.got = Len(data)]
  BY <1>1 DEF WriteDirect, OrError
<1>3. Through(c, c.d, off, data) = [c EXCEPT !.server[f] = text]
  BY <1>1 DEF Through, WithText, Text
<1>4. c.server \in Texts /\ c.server[f] \in Seq(Blocks) /\ Len(data) \in Nat
  BY DEF States, Texts
<1>5. text \in Seq(Blocks)
  BY <1>4, PlacedText
<1> HIDE DEF text
<1>6. S \in Texts /\ S[f] = text /\ \A g \in Files \ {f} : S[g] = c.server[g]
  BY <1>4, <1>5 DEF Texts
<1>7. r = [c EXCEPT !.server = S, !.got = Len(data)]
  BY <1>2, <1>3 DEF States
<1> HIDE DEF S
<1>8. /\ r \in States /\ r.got = Len(data) /\ r.server = S
      /\ r.d = c.d /\ r.desc = c.desc /\ r.cached = c.cached /\ r.stored = c.stored
      /\ r.info = c.info /\ r.buf = c.buf /\ r.newCache = c.newCache
  BY <1>4, <1>6, <1>7 DEF States
<1> QED  BY <1>6, <1>8 DEF Direct, text

\* A write to an object that ends before curLocalOffsetStart.
LEMMA DirectWhole ==
  ASSUME ~RpcErrors, NEW f \in Files, NEW t \in Seq(Blocks), NEW c, Sound(c, f, t),
         c.info[f].commits > 0, c.info[f].cur = 0, NEW off, off = Len(t),
         NEW data \in Seq(Blocks), Len(data) > 0, off + Len(data) <= c.info[f].start,
         NEW w, NEW r \in WriteDirect(c, off, data, w)
  PROVE  Sound(r, f, Grown(t, off, data, r.got)) /\ ElseSame(c, f, r)
<1> DEFINE i == c.info[f]
           b == c.buf[f]
           v == c.server[f]
<1>1. /\ c \in States /\ c.d \in Descs /\ i \in InfoType /\ b \in Seq(Blocks) /\ v \in Seq(Blocks)
      /\ c.desc[c.d].file = f /\ c.desc[c.d].kind = "append" /\ i.commits # 0
  BY DEF Sound, States, Infos, Texts, InfoType
<1>2. off \in Nat /\ Len(data) \in Nat /\ Len(t) \in Nat /\ Len(v) \in Nat /\ Len(b) \in Nat
  BY <1>1
<1>3. Direct(c, f, off, data, r)
  BY <1>1, <1>2, DirectText
<1>4. Whole(i, b, v, t) /\ f \in c.stored
  BY DEF Sound
<1>5. v = t /\ b = <<>>
  BY <1>1, <1>4, WholeClean
<1>6. r.server[f] = t \o data
  BY <1>1, <1>3, <1>5 DEF Direct, Placed
<1>7. Grown(t, off, data, r.got) = t \o data
  <2>1. SubSeq(data, 1, Len(data)) = data
    BY SubSeqFull
  <2>2. Splice(t, off, data) = t \o data
    BY SpliceAtEnd
  <2>3. r.got = Len(data) /\ r.got # 0
    BY <1>2, <1>3 DEF Direct
  <2> QED  BY <2>1, <2>2, <2>3 DEF Grown
<1> DEFINE u == t \o data
<1>8. u \in Seq(Blocks) /\ Len(u) = Len(t) + Len(data)
  BY ConcatProperties
<1>9. u = u \o <<>>
  BY <1>8, ConcatEmptySeq
<1> HIDE DEF u
<1>10. i.cur = Len(<<>>) /\ ~(i.cur > 0) /\ i.handle /\ Len(u) <= i.start
  BY <1>2, <1>4, <1>8 DEF Whole
<1>11. Whole(i, b, u, u)
  BY <1>1, <1>5, <1>9, <1>10 DEF Whole
<1>12. r.server[f] = u /\ Grown(t, off, data, r.got) = u
  BY <1>6, <1>7 DEF u
<1> HIDE DEF i, b
<1>13. /\ r \in States /\ r.d = c.d /\ r.desc = c.desc /\ r.stored = c.stored
       /\ r.info[f] = i /\ r.buf[f] = b
  BY <1>3 DEF Direct, i, b
<1>14. Sound(r, f, u)
  BY <1>4, <1>11, <1>12, <1>13 DEF Sound, i, b
<1>15. ElseSame(c, f, r)
  BY <1>3 DEF Direct, ElseSame
<1> QED  BY <1>12, <1>14, <1>15

\* writeLazyUploadBufferedFile.
LEMMA LazyWriteWhole ==
  ASSUME ~RpcErrors, NEW f \in Files, NEW t \in Seq(Blocks), NEW s, Sound(s, f, t),
         s.ok, s.got = 0, NEW off \in Nat, off <= Len(t),
         NEW data \in Seq(Blocks), Len(data) > 0,
         \/ s.info[f].commits = 0
         \/ off = Len(t) /\ (off < s.info[f].start => off + Len(data) <= s.info[f].start),
         NEW w \in Workers, NEW r \in LazyWrite(s, f, off, data, w)
  PROVE  Sound(r, f, Grown(t, off, data, r.got)) /\ ElseSame(s, f, r)
<1> DEFINE i == s.info[f]
<1>1. s \in States /\ i \in InfoType /\ s.buf[f] \in Seq(Blocks) /\ s.server[f] \in Seq(Blocks)
  BY DEF Sound, States, Infos, Texts, InfoType
<1>2. /\ i.start \in Nat /\ i.cur \in Nat /\ i.commits \in Nat /\ Len(t) \in Nat
      /\ Len(s.buf[f]) \in Nat /\ Len(s.server[f]) \in Nat
  BY <1>1 DEF InfoType
<1>3. Whole(i, s.buf[f], s.server[f], t)
  BY DEF Sound
<1>4. PICK c \in States : WriteVia(s, f, off, data, w, c, r)
  BY <1>1, LazyWriteLemma
<1>5. /\ Sound(c, f, t) /\ ElseSame(s, f, c) /\ c.got = 0 /\ c.ok
      /\ c = s \/ (c.info[f].cur = 0 /\ c.buf[f] = <<>> /\ c.server[f] = t)
      /\ i.cur = 0 => c = s
  <2>1. CASE c = s
    BY <2>1 DEF ElseSame
  <2>2. CASE c \in Commit(s, f, w)
    BY <2>2, CommitWhole
  <2> QED  BY <1>4, <2>1, <2>2 DEF WriteVia
<1>6. CASE i.handle /\ off < i.start /\ r \in WriteDirect(c, off, data, w)
  <2>1. i.commits > 0 /\ off = Len(t) /\ off + Len(data) <= i.start
    BY <1>2, <1>3, <1>6 DEF Whole
  <2>2. Len(t) = Len(s.server[f]) + Len(s.buf[f])
    <3>1. t = s.server[f] \o s.buf[f]
      BY <1>3, <2>1 DEF Whole
    <3> QED  BY <1>1, <3>1, ConcatProperties
  <2>3. i.cur = 0
    <3>1. i.cur > 0 => i.start = Len(s.server[f])
      BY <1>3, <2>1 DEF Whole
    <3>2. PICK lb \in Nat, lv \in Nat, lt \in Nat, st \in Nat :
            /\ lb = Len(s.buf[f]) /\ lv = Len(s.server[f]) /\ lt = Len(t) /\ st = i.start
            /\ lt = lv + lb /\ lt < st
      <4>1. Len(t) = Len(s.server[f]) + Len(s.buf[f]) /\ Len(t) < i.start
        BY <1>6, <2>1, <2>2
      <4>2. Len(s.buf[f]) \in Nat /\ Len(s.server[f]) \in Nat /\ Len(t) \in Nat /\ i.start \in Nat
        BY <1>2
      <4> QED  BY <4>1, <4>2
    <3>3. lv < st
      <4>1. lt = lv + lb /\ lt < st
        BY <3>2
      <4> QED  BY <4>1
    <3> QED  BY <1>2, <3>1, <3>2, <3>3
  <2>4. c = s
    BY <1>5, <2>3
  <2> QED  BY <1>5, <1>6, <2>1, <2>3, <2>4, DirectWhole
<1>7. CASE i.handle /\ off >= i.start /\ StoreEffect(c, f, off, data, r)
  <2>1. c.info[f].commits = 0 \/ c.info[f].cur = 0 \/ off = Len(t)
    BY <1>5
  <2>2. Sound(r, f, Grown(t, off, data, r.got)) /\ ElseSame(c, f, r)
    BY <1>5, <1>7, <2>1, StoreWhole
  <2> QED  BY <1>5, <2>2 DEF ElseSame
<1> QED  BY <1>4, <1>5, <1>6, <1>7 DEF WriteVia

-------------------------------------------------------------------------------
\* At most one handle has a file, as long as nobody opens a file that is being opened.
OneHandle ==
  \A h \in Handles : IF fh[h].at = "idle" THEN fh[h].file = None
                     ELSE \A k \in Handles \ {h} : fh[k].file # fh[h].file

\* The descriptor that an open handle of f has.
KindOf(f) ==
  IF f \notin opened THEN "plain" ELSE IF info[f].commits = 0 THEN "cache" ELSE "append"

HandleKind ==
  \A h \in Handles :
    /\ fh[h].at = "checked" => fh[h].file \notin opened
    /\ fh[h].at = "open" => desc[fh[h].desc].kind = KindOf(fh[h].file)

\* A file has all that was written, in its object and, while it is open, in its buffer.
Contents ==
  \A f \in Files : IF f \in opened THEN Whole(info[f], buf[f], server[f], written[f])
                   ELSE written[f] = server[f]

\* Nothing is written to the cache file of a new file, which a slot that times out uploads.
NoNewCache == \A f \in Files : newCache[f] = <<>>

Unstored == \A f \in Files : f \notin stored => server[f] = <<>>

LossInv ==
  OneHandle /\ HandleKind /\ Contents /\ NoNewCache /\ Unstored /\ FlushUploads

\* No failures, one user of a file, and writes that go to the end or over what was
\* written before the first commit.
Undisturbed == ~Shared /\ ~RpcErrors /\ ~Expiry
InPlace == Patterns \subseteq {"append", "fresh"}

LEMMA HandleSound ==
  ASSUME TypeInv, OwnInv, LossInv, NEW h \in Handles, fh[h].at = "open", fh[h].file \in opened
  PROVE  Sound(Now(fh[h].desc), fh[h].file, written[fh[h].file])
<1> DEFINE d == fh[h].desc
           f == fh[h].file
           s == Now(d)
<1>1. LazyTypes /\ OtherTypes
  BY TypeParts
<1>2. f \in Files /\ d \in Descs /\ desc[d].file = f
  BY <1>1 DEF OwnInv, HandleDesc, OtherTypes, HandleFiles
<1>3. /\ s \in States /\ s.d = d /\ s.info = info /\ s.buf = buf /\ s.desc = desc
      /\ s.cached = cached /\ s.stored = stored /\ s.server = server
  BY <1>2, NowState
<1>4. desc[d].kind = IF info[f].commits = 0 THEN "cache" ELSE "append"
  BY DEF LossInv, HandleKind, KindOf
<1>5. desc[d] = [file |-> f, kind |-> IF info[f].commits = 0 THEN "cache" ELSE "append"]
  <2>1. desc[d] \in [file : Files \cup {None}, kind : Kinds]
    BY <1>1, <1>2 DEF LazyTypes, DescTables
  <2> QED  BY <1>2, <1>4, <2>1
<1>6. (info[f].commits = 0 => f \in cached) /\ (info[f].commits > 0 => f \in stored)
  <2>1. info[f].commits \in Nat
    BY <1>1, <1>2 DEF LazyTypes, Infos
  <2>2. info[f].commits > 0 => desc[d].kind = "append"
    BY <1>4, <2>1
  <2> QED  BY <1>4, <2>2 DEF OwnInv, HandleDesc, CacheOwner
<1>7. Whole(info[f], buf[f], server[f], written[f])
  BY <1>2 DEF LossInv, Contents
<1> HIDE DEF s
<1>8. Sound(s, f, written[f])
  BY <1>2, <1>3, <1>5, <1>6, <1>7 DEF Sound
<1> QED  BY <1>8 DEF s

\* A step of a handle on its own file, with the outcome r.
OnFile(h, f, r, t) ==
  /\ f = fh[h].file /\ f \in Files /\ fh[h].at = "open"
  /\ r \in States /\ Become(r)
  /\ ElseSame(Now(fh[h].desc), f, r) /\ DescEffect(Now(fh[h].desc), f, r)
  /\ IF f \in opened THEN Sound(r, f, t)
     ELSE r.desc = desc /\ r.d = fh[h].desc /\ r.stored = stored /\ r.server[f] = t
  /\ opened' = opened
  /\ written'[f] = t /\ \A g \in Files \ {f} : written'[g] = written[g]
  /\ fh'[h].desc = r.d
  /\ \A k \in Handles : fh'[k].at = fh[k].at /\ fh'[k].file = fh[k].file
  /\ \A k \in Handles \ {h} : fh'[k].desc = fh[k].desc /\ (fh'[k].synced => fh[k].synced)
  /\ fh'[h].synced => r.server[f] = t

LEMMA LossFile ==
  ASSUME TypeInv, OwnInv, LossInv, ~RpcErrors, NEW h \in Handles, NEW f, NEW r, NEW t,
         OnFile(h, f, r, t)
  PROVE  LossInv'
<1> DEFINE d == fh[h].desc
           s == Now(d)
<1>1. LazyTypes /\ OtherTypes /\ None \notin Files
  BY TypeParts, LazyAssumption
<1>2. d \in Descs /\ desc[d].file = f /\ desc[d].kind # "free"
  BY DEF OwnInv, HandleDesc, OnFile
<1>3. /\ s.d = d /\ s.info = info /\ s.buf = buf /\ s.desc = desc /\ s.newCache = newCache
      /\ s.cached = cached /\ s.stored = stored /\ s.server = server
  BY <1>2, NowState
<1>4. /\ info' = r.info /\ buf' = r.buf /\ server' = r.server /\ desc' = r.desc
      /\ stored' = r.stored /\ newCache' = r.newCache /\ opened' = opened
  BY DEF OnFile, Become
<1> HIDE DEF s
<1>5. /\ newCache' = newCache
      /\ \A g \in Files \ {f} : /\ info'[g] = info[g] /\ buf'[g] = buf[g]
                                /\ server'[g] = server[g] /\ (g \in stored' <=> g \in stored)
                                /\ written'[g] = written[g]
  BY <1>3, <1>4 DEF OnFile, ElseSame, s
<1>6. OneHandle'
  BY DEF LossInv, OneHandle, OnFile
<1>7. \A k \in Handles \ {h} : fh[k].at # "idle" => fh[k].file # f /\ fh[k].file \in Files
  BY <1>1 DEF LossInv, OneHandle, OnFile, OtherTypes, HandleFiles
<1>8. Contents'
  <2>1. IF f \in opened' THEN Whole(info'[f], buf'[f], server'[f], written'[f])
        ELSE written'[f] = server'[f]
    BY <1>4 DEF OnFile, Sound
  <2> QED  BY <1>4, <1>5, <2>1 DEF LossInv, Contents
<1>9. NoNewCache' /\ Unstored'
  <2>1. f \notin stored' => server'[f] = <<>>
    <3>1. CASE f \in opened
      <4>1. Sound(r, f, t)
        BY <3>1 DEF OnFile
      <4>2. r.info[f].commits \in Nat
        BY DEF OnFile, States, Infos
      <4>3. r.info[f].commits = 0 \/ r.info[f].commits > 0
        BY <4>2
      <4> QED  BY <1>4, <4>1, <4>3 DEF Sound, Whole
    <3>2. CASE f \notin opened
      <4>1. desc[d].kind = "plain"
        BY <3>2 DEF LossInv, HandleKind, KindOf, OnFile
      <4>2. f \in stored
        BY <4>1 DEF OwnInv, HandleDesc, OnFile
      <4> QED  BY <1>4, <3>2, <4>2 DEF OnFile
    <3> QED  BY <3>1, <3>2
  <2> QED  BY <1>5, <2>1 DEF LossInv, NoNewCache, Unstored
<1>10. HandleKind'
  <2>1. \A k \in Handles : fh'[k].at = "checked" => fh'[k].file \notin opened'
    BY <1>4 DEF LossInv, HandleKind, OnFile
  <2>2. desc'[fh'[h].desc].kind = KindOf(f)'
    <3>1. CASE f \in opened
      <4>1. Sound(r, f, t) /\ fh'[h].desc = r.d
        BY <3>1 DEF OnFile
      <4> QED  BY <1>4, <3>1, <4>1 DEF Sound, KindOf
    <3>2. CASE f \notin opened
      BY <1>4, <3>2 DEF LossInv, HandleKind, KindOf, OnFile
    <3> QED  BY <3>1, <3>2
  <2>3. ASSUME NEW k \in Handles \ {h}, fh[k].at = "open"
        PROVE  desc'[fh'[k].desc].kind = KindOf(fh[k].file)'
    <3>1. /\ fh[k].desc \in Descs /\ desc[fh[k].desc].kind # "free" /\ fh[k].desc # d
          /\ desc[fh[k].desc].kind = KindOf(fh[k].file)
      BY <2>3 DEF OwnInv, HandleDesc, HandlesApart, LossInv, HandleKind, OnFile
    <3>2. desc'[fh[k].desc] = desc[fh[k].desc]
      <4>1. \/ r.desc = desc
            \/ r.desc = [desc EXCEPT ![d] = FreeDesc]
            \/ r.d \in Descs /\ (r.d = d \/ desc[r.d].kind = "free")
               /\ r.desc = [desc EXCEPT ![d] = FreeDesc, ![r.d] = AppendDesc(f)]
        BY <1>3 DEF OnFile, DescEffect, s
      <4> HIDE DEF d
      <4> QED  BY <1>1, <1>4, <3>1, <4>1 DEF LazyTypes, DescTables
    <3>4. fh'[k].desc = fh[k].desc /\ fh'[k].file = fh[k].file
      BY DEF OnFile
    <3>5. fh[k].file \in Files \ {f}
      BY <1>7, <2>3
    <3>6. info'[fh[k].file] = info[fh[k].file]
      BY <1>5, <3>5
    <3> QED  BY <1>4, <3>1, <3>2, <3>4, <3>6 DEF KindOf
  <2> QED  BY <2>1, <2>2, <2>3 DEF HandleKind, OnFile
<1>11. FlushUploads'
  <2>1. fh'[h].synced => server'[f] = written'[f]
    BY <1>4 DEF OnFile
  <2>2. ASSUME NEW k \in Handles \ {h}, fh[k].at = "open", fh'[k].synced
        PROVE  server'[fh[k].file] = written'[fh[k].file]
    <3>1. fh[k].synced /\ fh[k].file \in Files \ {f}
      BY <1>7, <2>2 DEF OnFile
    <3>2. server[fh[k].file] = written[fh[k].file]
      BY <2>2, <3>1 DEF LossInv, FlushUploads
    <3> QED  BY <1>5, <3>1, <3>2
  <2> QED  BY <2>1, <2>2 DEF FlushUploads, OnFile
<1> QED  BY <1>6, <1>8, <1>9, <1>10, <1>11 DEF LossInv

LEMMA LossFlush ==
  ASSUME TypeInv, OwnInv, LossInv, Undisturbed, NEW h \in Handles, NEW w \in Workers, Flush(h, w)
  PROVE  LossInv'
<1> DEFINE d == fh[h].desc
           s == Now(d)
<1>1. PICK f, r : Flushed(h, w, f, r)
  BY FlushStep
<1> DEFINE t == written[f]
<1>2. LazyTypes /\ OtherTypes /\ ~RpcErrors
  BY TypeParts DEF Undisturbed
<1>3. /\ f = fh[h].file /\ f \in Files /\ fh[h].at = "open" /\ r \in States /\ Become(r)
      /\ opened' = opened /\ written' = written
      /\ r \in IF f \in opened THEN Commit(s, f, w) ELSE {s}
  BY <1>1 DEF Flushed
<1>4. /\ s.desc = desc /\ s.d = d /\ s.stored = stored /\ s.server = server /\ s.ok
  BY <1>1, NowState DEF Flushed
<1>5. /\ ElseSame(s, f, r) /\ r.server[f] = t
      /\ IF f \in opened THEN Sound(r, f, t)
         ELSE r.desc = desc /\ r.d = d /\ r.stored = stored
  <2>1. CASE f \in opened
    <3>1. Sound(s, f, t)
      BY <1>3, <2>1, HandleSound
    <3>2. r \in Commit(s, f, w)
      BY <1>3, <2>1
    <3> HIDE DEF s, t
    <3> QED  BY <1>2, <1>3, <1>4, <2>1, <3>1, <3>2, CommitWhole
  <2>2. CASE f \notin opened
    <3>1. r = s /\ server[f] = t
      BY <1>3, <2>2 DEF LossInv, Contents
    <3> HIDE DEF s, t
    <3> QED  BY <1>4, <2>2, <3>1 DEF ElseSame
  <2> QED  BY <2>1, <2>2
<1>6. \A k \in Handles \ {h} : fh'[k] = fh[k]
  BY <1>1, <1>2 DEF Flushed, OtherTypes
<1>7. /\ DescEffect(s, f, r) /\ fh'[h].desc = r.d
      /\ \A k \in Handles : fh'[k].at = fh[k].at /\ fh'[k].file = fh[k].file
  BY <1>1, FlushedDesc
<1> HIDE DEF s
<1>8. OnFile(h, f, r, t)
  BY <1>3, <1>5, <1>6, <1>7 DEF OnFile, s
<1> HIDE DEF t
<1> QED  BY <1>2, <1>8, LossFile

LEMMA InPlaceWrites ==
  ASSUME InPlace, NEW f, NEW off, NEW size, Allowed(f, off, size)
  PROVE  \/ off = Len(written[f]) /\ (off < info[f].start => off + size <= info[f].start)
         \/ f \in opened /\ info[f].commits = 0
BY DEF InPlace, Allowed

LEMMA LossWrite ==
  ASSUME TypeInv, OwnInv, LossInv, Undisturbed, InPlace,
         NEW h \in Handles, NEW w \in Workers, Write(h, w)
  PROVE  LossInv'
<1> DEFINE d == fh[h].desc
           s == Now(d)
<1>1. PICK f, size, off, r : Wrote(h, w, f, size, off, r)
  BY WriteStep
<1> DEFINE t == written[f]
           data == Data(size)
           u == Grown(t, off, data, r.got)
<1>2. LazyTypes /\ OtherTypes /\ ~RpcErrors
  BY TypeParts DEF Undisturbed
<1>3. /\ f = fh[h].file /\ f \in Files /\ fh[h].at = "open" /\ r \in States /\ Become(r)
      /\ opened' = opened /\ d \in Descs \cup {None} /\ off \in 0..Len(t) /\ size \in 1..MaxSize
      /\ data \in Seq(Blocks) /\ Len(data) = size /\ Allowed(f, off, size)
      /\ r \in IF f \in opened THEN LazyWrite(s, f, off, data, w) ELSE WriteDirect(s, off, data, lock)
  BY <1>1 DEF Wrote
<1>4. t \in Seq(Blocks)
  BY <1>2, <1>3 DEF OtherTypes, Texts
<1>5. Len(t) \in Nat /\ off \in Nat /\ off <= Len(t) /\ Len(data) > 0 /\ Len(data) \in Nat
  <2>1. Len(t) \in Nat
    BY <1>4
  <2>2. MaxSize \in Nat
    BY LazyAssumption
  <2> QED  BY <1>3, <2>1, <2>2
<1>6. /\ s \in States /\ s.desc = desc /\ s.d = d /\ s.stored = stored /\ s.server = server /\ s.ok
      /\ s.got = 0 /\ s.info = info /\ s.buf = buf /\ s.newCache = newCache
  BY <1>3, NowState
<1>7. /\ written'[f] = u /\ \A g \in Files \ {f} : written'[g] = written[g]
  <2>1. written' = IF r.got = 0 THEN written
                   ELSE [written EXCEPT ![f] = Splice(@, off, SubSeq(data, 1, r.got))]
    BY <1>1 DEF Wrote
  <2> HIDE DEF data
  <2> QED  BY <1>2, <1>3, <2>1 DEF Grown, OtherTypes, Texts
<1>8. /\ ElseSame(s, f, r)
      /\ IF f \in opened THEN Sound(r, f, u)
         ELSE r.desc = desc /\ r.d = d /\ r.stored = stored /\ r.server[f] = u
  <2>1. CASE f \in opened
    <3>1. Sound(s, f, t)
      BY <1>3, <2>1, HandleSound
    <3>2. r \in LazyWrite(s, f, off, data, w)
      BY <1>3, <2>1
    <3>3. \/ s.info[f].commits = 0
          \/ off = Len(t) /\ (off < s.info[f].start => off + Len(data) <= s.info[f].start)
      BY <1>3, <1>6, InPlaceWrites
    <3> HIDE DEF s, t, data
    <3>4. Sound(r, f, u) /\ ElseSame(s, f, r)
      BY <1>2, <1>3, <1>4, <1>5, <1>6, <3>1, <3>2, <3>3, LazyWriteWhole
    <3> QED  BY <2>1, <3>4
  <2>2. CASE f \notin opened
    <3>1. d \in Descs /\ desc[d].file = f /\ desc[d].kind = "plain" /\ server[f] = t
      BY <1>3, <2>2 DEF OwnInv, HandleDesc, LossInv, HandleKind, KindOf, Contents
    <3> HIDE DEF s, t, data
    <3>2. r \in WriteDirect(s, off, data, lock)
      BY <1>3, <2>2
    <3>3. Direct(s, f, off, data, r)
      BY <1>2, <1>3, <1>5, <1>6, <3>1, <3>2, DirectText
    <3>4. r.server[f] = Splice(t, off, data)
      BY <1>6, <3>1, <3>3 DEF Direct, Placed
    <3>5. u = Splice(t, off, data)
      <4>1. SubSeq(data, 1, Len(data)) = data
        BY <1>3, SubSeqFull
      <4>2. r.got = Len(data) /\ r.got # 0
        BY <1>5, <3>3 DEF Direct
      <4> QED  BY <4>1, <4>2 DEF Grown
    <3> QED  BY <1>6, <2>2, <3>3, <3>4, <3>5 DEF Direct, ElseSame
  <2> QED  BY <2>1, <2>2
<1>9. /\ DescEffect(s, f, r) /\ fh'[h].desc = r.d
      /\ \A k \in Handles : fh'[k].at = fh[k].at /\ fh'[k].file = fh[k].file
      /\ \A k \in Handles \ {h} : fh'[k].desc = fh[k].desc
  BY <1>1, WroteDesc
<1>10. ~fh'[h].synced /\ \A k \in Handles \ {h} : fh'[k].synced => fh[k].synced
  <2>1. \A k \in Handles : /\ fh[k] \in FhType
                           /\ fh'[k] = [fh[k] EXCEPT !.synced = @ /\ fh[k].file # f,
                                                     !.desc = IF k = h THEN r.d ELSE @]
    BY <1>1, <1>2 DEF Wrote, OtherTypes
  <2>2. \A k \in Handles : fh'[k].synced = (fh[k].synced /\ fh[k].file # f)
    BY <2>1 DEF FhType
  <2> QED  BY <1>3, <2>2
<1> HIDE DEF s, u
<1>11. OnFile(h, f, r, u)
  BY <1>3, <1>7, <1>8, <1>9, <1>10 DEF OnFile, s
<1> QED  BY <1>2, <1>11, LossFile

LEMMA LossRelease ==
  ASSUME TypeInv, OwnInv, LossInv, Undisturbed, NEW h \in Handles, NEW w \in Workers, Release(h, w)
  PROVE  LossInv'
<1>1. PICK f, d, r : Released(h, w, f, d, r)
  BY ReleaseStep
<1>2. LazyTypes /\ OtherTypes /\ ~RpcErrors /\ None \notin Files
  BY TypeParts, LazyAssumption DEF Undisturbed
<1>3. /\ f = fh[h].file /\ d = fh[h].desc /\ f \in Files /\ fh[h].at = "open" /\ fh[h].synced
      /\ opened' = opened \ {f} /\ written' = written /\ newCache' = newCache
      /\ fh'[h] = Idle /\ \A k \in Handles \ {h} : fh'[k] = fh[k]
  BY <1>1, <1>2 DEF Released, Become, OtherTypes
<1>4. d \in Descs /\ desc[d].file = f /\ desc[d].kind = KindOf(f) /\ desc[d].kind # "free"
  BY <1>3 DEF OwnInv, HandleDesc, LossInv, HandleKind
\* The cache file of a new file is empty, and so is an object that was not put.
<1>5. /\ server' = server /\ desc' = [desc EXCEPT ![d] = FreeDesc]
      /\ \A g \in Files : g \in stored => g \in stored'
  <2>1. InUse(Now(d), d)
    <3>1. Now(d).desc = desc
      BY <1>4, NowState
    <3> QED  BY <1>4, <3>1, LazyAssumption DEF InUse
  <2>2. /\ r.desc = [desc EXCEPT ![d] = FreeDesc]
        /\ IF r.ok /\ desc[d].kind = "cache"
             THEN r.stored = stored \cup {f} /\ r.server = [server EXCEPT ![f] = newCache[f]]
             ELSE r.stored = stored /\ r.server = server
        /\ server' = r.server /\ stored' = r.stored /\ desc' = r.desc
    BY <1>1, <2>1 DEF Released, Become
  <2>3. desc[d].kind = "cache" => newCache[f] = server[f]
    <3>1. desc[d].kind = "cache" => f \in opened /\ info[f].commits = 0
      BY <1>4 DEF KindOf
    <3> QED  BY <1>3, <3>1 DEF LossInv, Contents, Whole, NoNewCache
  <2>4. server' = server
    <3>1. CASE r.ok /\ desc[d].kind = "cache"
      <4>1. server' = [server EXCEPT ![f] = server[f]]
        BY <2>2, <2>3, <3>1
      <4> QED  BY <1>2, <4>1 DEF LazyTypes, Texts
    <3>2. CASE ~(r.ok /\ desc[d].kind = "cache")
      BY <2>2, <3>2
    <3> QED  BY <3>1, <3>2
  <2> QED  BY <2>2, <2>4
<1>6. \A g \in Files \ {f} : info'[g] = info[g] /\ buf'[g] = buf[g]
  <2>1. \/ info' = info /\ buf' = buf
        \/ info' = [info EXCEPT ![f] = NoInfo] /\ buf' = [buf EXCEPT ![f] = <<>>]
    BY <1>1 DEF Released, Become
  <2> QED  BY <1>2, <2>1 DEF LazyTypes, Infos, Texts
<1>7. server[f] = written[f]
  BY <1>3 DEF LossInv, FlushUploads
<1>8. \A k \in Handles \ {h} : fh[k].at # "idle" => fh[k].file # f /\ fh[k].file \in Files
  BY <1>2, <1>3 DEF LossInv, OneHandle, OtherTypes, HandleFiles
<1>9. OneHandle'
  BY <1>2, <1>3, <1>8, IdleType DEF LossInv, OneHandle
<1>10. HandleKind'
  <2>1. ASSUME NEW k \in Handles \ {h}, fh[k].at = "open"
        PROVE  desc'[fh[k].desc] = desc[fh[k].desc] /\ info'[fh[k].file] = info[fh[k].file]
               /\ (fh[k].file \in opened' <=> fh[k].file \in opened)
    <3>1. fh[k].desc \in Descs /\ fh[k].desc # d
      BY <1>3, <2>1 DEF OwnInv, HandleDesc, HandlesApart
    <3>2. fh[k].file \in Files \ {f}
      BY <1>8, <2>1
    <3> QED  BY <1>2, <1>3, <1>4, <1>5, <1>6, <3>1, <3>2 DEF LazyTypes, DescTables
  <2> QED  BY <1>3, <2>1, IdleType DEF LossInv, HandleKind, KindOf
<1>11. Contents'
  <2>1. \A g \in Files \ {f} : g \in opened' <=> g \in opened
    BY <1>3
  <2> QED  BY <1>3, <1>5, <1>6, <1>7, <2>1 DEF LossInv, Contents
<1>12. NoNewCache' /\ Unstored'
  BY <1>3, <1>5 DEF LossInv, NoNewCache, Unstored
<1>13. FlushUploads'
  BY <1>3, <1>5, IdleType DEF LossInv, FlushUploads
<1> QED  BY <1>9, <1>10, <1>11, <1>12, <1>13 DEF LossInv

LEMMA LossMknod ==
  ASSUME TypeInv, OwnInv, LossInv, NEW f \in Files, NEW w \in Workers, Mknod(f, w)
  PROVE  LossInv'
<1>1. PICK d, T, bad, new, valid, put : Made(f, w, d, T, bad, new, valid, put)
  BY MknodStep
<1>2. LazyTypes /\ OtherTypes
  BY TypeParts
<1>3. /\ d \in Descs /\ desc[d].kind = "free" /\ stored' = stored \cup put
      /\ server' = [g \in Files |-> IF g \in put THEN newCache[g] ELSE server[g]]
      /\ desc' = [e \in Descs |-> IF e = d THEN [file |-> f, kind |-> "cache"]
                                  ELSE IF \E i \in valid : slots[i].desc = e THEN FreeDesc
                                  ELSE desc[e]]
      /\ UNCHANGED <<opened, info, buf, newCache, fh, written>>
  BY <1>1 DEF Made
<1>4. \A i \in valid : i \in 1..NewSlots /\ slots[i].desc # None
  <2>1. valid \subseteq Closing(T) /\ T \subseteq 1..NewSlots
    BY <1>1 DEF Made
  <2>2. Closing(T) \subseteq 1..NewSlots
    <3>1. NewSlots \in Nat \ {0}
      BY LazyAssumption
    <3>2. Max({1, NewSlots - 1}) \in 1..NewSlots
      BY <3>1, MaxOfTwo
    <3> QED  BY <2>1, <3>2 DEF Closing
  <2> QED  BY <1>1, <2>1, <2>2 DEF Made, InUse
\* A file whose cache file is put is not yet in iRODS, and empty.
<1>5. server' = server
  <2>1. \A g \in put : \E i \in valid : g = slots[i].file
    BY <1>1 DEF Made
  <2>2. \A g \in put : g \notin stored
    BY <1>4, <2>1 DEF OwnInv, SlotDesc, CacheOwner
  <2>3. \A g \in Files : g \in put => newCache[g] = server[g]
    BY <2>2 DEF LossInv, NoNewCache, Unstored
  <2> QED  BY <1>2, <1>3, <2>3 DEF LazyTypes, Texts
<1>6. ASSUME NEW k \in Handles, fh[k].at = "open" PROVE desc'[fh[k].desc] = desc[fh[k].desc]
  <2>1. fh[k].desc \in Descs /\ fh[k].desc # d
    BY <1>3, <1>6 DEF OwnInv, HandleDesc
  <2>2. \A i \in valid : slots[i].desc # fh[k].desc
    BY <1>4 DEF OwnInv, SlotsApart
  <2> QED  BY <1>3, <2>1, <2>2
<1>7. OneHandle' /\ Contents' /\ NoNewCache' /\ Unstored' /\ FlushUploads'
  BY <1>3, <1>5 DEF LossInv, OneHandle, Contents, NoNewCache, Unstored, FlushUploads
<1>8. HandleKind'
  BY <1>3, <1>6 DEF LossInv, HandleKind, KindOf
<1> QED  BY <1>7, <1>8 DEF LossInv

LEMMA LossOpenCheck ==
  ASSUME TypeInv, LossInv, ~Shared, NEW h \in Handles, NEW f \in Files, NEW w \in Workers,
         OpenCheck(h, f, w)
  PROVE  LossInv'
<1>1. OtherTypes /\ None \notin Files
  BY TypeParts, LazyAssumption
<1>2. /\ UNCHANGED <<opened, info, buf, newCache, desc, stored, server, written>>
      /\ f \notin opened /\ \A k \in Handles : fh[k].file # f
      /\ fh'[h] = [Idle EXCEPT !.at = "checked", !.file = f]
      /\ \A k \in Handles \ {h} : fh'[k] = fh[k]
  BY <1>1 DEF OpenCheck, OtherTypes, lazyVars
<1>3. fh'[h].at = "checked" /\ fh'[h].file = f
  BY <1>2 DEF Idle
<1>4. OneHandle'
  <2>1. fh'[h].at # "idle" /\ \A k \in Handles \ {h} : fh'[k].file # fh'[h].file
    BY <1>2, <1>3
  <2>2. \A k \in Handles \ {h} : /\ fh[k].at = "idle" => fh[k].file = None
                                /\ fh[k].at # "idle" => \A j \in Handles \ {k} : fh[j].file # fh[k].file
    BY DEF LossInv, OneHandle
  <2>3. \A k \in Handles \ {h} : fh'[k] = fh[k]
    BY <1>2
  <2>4. ASSUME NEW k \in Handles
        PROVE  /\ fh'[k].at = "idle" => fh'[k].file = None
               /\ fh'[k].at # "idle" => \A j \in Handles \ {k} : fh'[j].file # fh'[k].file
    <3>1. CASE k = h
      BY <2>1, <3>1
    <3>2. CASE k # h
      <4>1. fh'[k] = fh[k]
        BY <2>3, <3>2
      <4>2. fh'[k].at = "idle" => fh'[k].file = None
        <5>1. ASSUME fh[k].at = "idle" PROVE fh[k].file = None
          BY <3>2, <5>1 DEF LossInv, OneHandle
        <5> QED  BY <4>1, <5>1
      <4>3. ASSUME fh'[k].at # "idle", NEW j \in Handles \ {k} PROVE fh'[j].file # fh'[k].file
        <5>1. CASE j = h
          BY <2>1, <3>2, <5>1
        <5>2. CASE j # h
          <6>1. fh'[j] = fh[j]
            BY <2>3, <5>2
          <6>2. fh[j].file # fh[k].file
            BY <2>2, <3>2, <4>1, <4>3
          <6> QED  BY <4>1, <6>1, <6>2
        <5> QED  BY <5>1, <5>2
      <4> QED  BY <4>2, <4>3
    <3> QED  BY <3>1, <3>2
  <2> QED  BY <2>4 DEF OneHandle
<1>5. HandleKind'
  BY <1>2, <1>3 DEF LossInv, HandleKind, KindOf
<1>6. Contents' /\ NoNewCache' /\ Unstored'
  BY <1>2 DEF LossInv, Contents, NoNewCache, Unstored
<1>7. FlushUploads'
  <2>1. /\ UNCHANGED <<server, written>> /\ \A k \in Handles \ {h} : fh'[k] = fh[k]
        /\ fh'[h].at # "open"
    BY <1>2, <1>3
  <2> QED  BY <2>1 DEF LossInv, FlushUploads
<1> QED  BY <1>4, <1>5, <1>6, <1>7 DEF LossInv

LEMMA LossOpenNew ==
  ASSUME TypeInv, OwnInv, LossInv, NEW h \in Handles, NEW w \in Workers, OpenNew(h, w)
  PROVE  LossInv'
<1> DEFINE f == fh[h].file
<1>1. LazyTypes /\ OtherTypes /\ None \notin Descs
  BY TypeParts, LazyAssumption
<1>2. PICK d \in Kept(f) : InUse(Now(None), d) /\ fh' = [fh EXCEPT ![h].at = "open", ![h].desc = d]
  BY DEF OpenNew
<1>3. PICK i \in 1..NewSlots : slots[i].file = f /\ slots[i].desc = d
  BY <1>2 DEF Kept
<1>4. /\ d \in Descs /\ desc[d].kind = "cache" /\ f \in created /\ f \in Files
      /\ f \notin stored /\ f \notin opened
  BY <1>1, <1>2, <1>3 DEF OwnInv, SlotDesc, CacheOwner, OpenedNow, InUse, OtherTypes, SlotType
<1>5. /\ fh[h].at = "checked" /\ fh'[h].at = "open" /\ fh'[h].desc = d /\ fh'[h].file = f
      /\ fh'[h].synced = fh[h].synced /\ \A k \in Handles \ {h} : fh'[k] = fh[k]
  BY <1>1, <1>2 DEF OpenNew, OtherTypes, FhType
<1>6. /\ opened' = opened \cup {f} /\ UNCHANGED <<desc, stored, server, newCache, written>>
      /\ info' = [info EXCEPT ![f] = [NoInfo EXCEPT !.handle = TRUE]]
      /\ buf' = [buf EXCEPT ![f] = <<>>]
  BY <1>4 DEF OpenNew
<1> HIDE DEF f
<1>7. /\ info'[f] = [NoInfo EXCEPT !.handle = TRUE] /\ buf'[f] = <<>>
      /\ \A g \in Files \ {f} : info'[g] = info[g] /\ buf'[g] = buf[g]
  BY <1>1, <1>4, <1>6 DEF LazyTypes, Infos, Texts
<1>8. info'[f].handle /\ info'[f].commits = 0 /\ info'[f].start = 0 /\ info'[f].cur = 0
  BY <1>7 DEF NoInfo
<1>9. server[f] = <<>> /\ written[f] = <<>>
  BY <1>4 DEF LossInv, Unstored, Contents
<1>10. \A k \in Handles \ {h} : fh[k].at # "idle" => fh[k].file # f /\ fh[k].file \in Files
  BY <1>1, <1>5 DEF LossInv, OneHandle, OtherTypes, HandleFiles, f
<1>11. OneHandle'
  BY <1>5 DEF LossInv, OneHandle, f
<1>12. HandleKind'
  <2>1. desc'[fh'[h].desc].kind = "cache" /\ fh'[h].file \in opened' /\ info'[fh'[h].file].commits = 0
    BY <1>4, <1>5, <1>6, <1>8
  <2>2. \A k \in Handles \ {h} : fh[k].at # "idle" =>
          /\ info'[fh[k].file] = info[fh[k].file]
          /\ (fh[k].file \in opened' <=> fh[k].file \in opened)
    BY <1>6, <1>7, <1>10
  <2>3. desc' = desc /\ fh'[h].at = "open" /\ \A k \in Handles \ {h} : fh'[k] = fh[k]
    BY <1>5, <1>6
  <2> QED  BY <2>1, <2>2, <2>3 DEF LossInv, HandleKind, KindOf
<1>13. Contents'
  <2>1. Len(<<>>) <= 0
    OBVIOUS
  <2>2. Whole(info'[f], buf'[f], server'[f], written'[f])
    BY <1>6, <1>7, <1>8, <1>9, <2>1 DEF Whole
  <2>3. \A g \in Files \ {f} : g \in opened' <=> g \in opened
    BY <1>6
  <2> QED  BY <1>4, <1>6, <1>7, <2>2, <2>3 DEF LossInv, Contents
<1>14. NoNewCache' /\ Unstored'
  BY <1>6 DEF LossInv, NoNewCache, Unstored
<1>15. FlushUploads'
  BY <1>5, <1>6, <1>9 DEF LossInv, FlushUploads
<1> QED  BY <1>11, <1>12, <1>13, <1>14, <1>15 DEF LossInv

LEMMA LossOpenStored ==
  ASSUME TypeInv, OwnInv, LossInv, NEW h \in Handles, NEW w \in Workers, OpenStored(h, w)
  PROVE  LossInv'
<1> DEFINE f == fh[h].file
<1>1. LazyTypes /\ OtherTypes /\ None \notin Files
  BY TypeParts, LazyAssumption
<1>2. /\ fh[h].at = "checked" /\ f \in Files /\ f \notin opened
      /\ UNCHANGED <<opened, info, buf, newCache, stored, server, written>>
      /\ \/ \E d \in Unused(Now(None)) :
              /\ desc' = [desc EXCEPT ![d] = [file |-> f, kind |-> "plain"]]
              /\ fh' = [fh EXCEPT ![h].at = "open", ![h].desc = d]
         \/ fh' = [fh EXCEPT ![h] = Idle] /\ UNCHANGED desc
  BY <1>1 DEF OpenStored, OtherTypes, HandleFiles, LossInv, HandleKind
<1>3. Contents' /\ NoNewCache' /\ Unstored'
  BY <1>2 DEF LossInv, Contents, NoNewCache, Unstored
<1>4. CASE fh' = [fh EXCEPT ![h] = Idle] /\ UNCHANGED desc
  <2>1. fh'[h] = Idle /\ \A k \in Handles \ {h} : fh'[k] = fh[k]
    BY <1>1, <1>4 DEF OtherTypes
  <2>2. OneHandle'
    <3>1. \A k \in Handles : fh[k].at # "idle" => fh[k].file # None
      BY <1>1 DEF OtherTypes, HandleFiles
    <3> QED  BY <2>1, <3>1, IdleType DEF LossInv, OneHandle
  <2>3. HandleKind'
    BY <1>2, <1>4, <2>1, IdleType DEF LossInv, HandleKind, KindOf
  <2>4. FlushUploads'
    BY <1>2, <2>1, IdleType DEF LossInv, FlushUploads
  <2> QED  BY <1>3, <2>2, <2>3, <2>4 DEF LossInv
<1>5. ASSUME NEW d \in Unused(Now(None)),
             desc' = [desc EXCEPT ![d] = [file |-> f, kind |-> "plain"]],
             fh' = [fh EXCEPT ![h].at = "open", ![h].desc = d]
      PROVE  LossInv'
  <2>1. d \in Descs /\ desc[d].kind = "free"
    BY UnusedNow
  <2>2. /\ fh'[h].at = "open" /\ fh'[h].desc = d /\ fh'[h].file = f
        /\ \A k \in Handles \ {h} : fh'[k] = fh[k]
    BY <1>1, <1>5 DEF OtherTypes, FhType
  <2>3. desc'[d].kind = "plain" /\ \A e \in Descs \ {d} : desc'[e] = desc[e]
    BY <1>1, <1>5, <2>1 DEF LazyTypes, DescTables
  <2>4. server[f] = written[f]
    BY <1>2 DEF LossInv, Contents
  <2> HIDE DEF f
  <2>5. OneHandle'
    BY <1>2, <2>2 DEF LossInv, OneHandle, f
  <2>6. HandleKind'
    <3>1. \A k \in Handles : fh[k].at = "open" => fh[k].desc \in Descs \ {d}
      BY <2>1 DEF OwnInv, HandleDesc
    <3> QED  BY <1>2, <2>2, <2>3, <3>1 DEF LossInv, HandleKind, KindOf
  <2>7. FlushUploads'
    BY <1>2, <2>2, <2>4 DEF LossInv, FlushUploads
  <2> QED  BY <1>3, <2>5, <2>6, <2>7 DEF LossInv
<1> QED  BY <1>2, <1>4, <1>5

LEMMA LossNext ==
  ASSUME TypeInv, OwnInv, LossInv, Undisturbed, InPlace, [Next]_vars
  PROVE  LossInv'
<1>1. CASE UNCHANGED vars
  BY <1>1 DEF vars, lazyVars, LossInv, OneHandle, HandleKind, KindOf, Contents, NoNewCache,
              Unstored, FlushUploads
<1>2. ASSUME NEW f \in Files, ExpirePath(f) PROVE LossInv'
  BY <1>2 DEF ExpirePath, Undisturbed
<1>3. ASSUME NEW f \in Files, NEW w \in Workers, Mknod(f, w) PROVE LossInv'
  BY <1>3, LossMknod
<1>4. ASSUME NEW h \in Handles, NEW f \in Files, NEW w \in Workers, OpenCheck(h, f, w)
      PROVE  LossInv'
  BY <1>4, LossOpenCheck DEF Undisturbed
<1>5. ASSUME NEW h \in Handles, NEW w \in Workers,
             \/ OpenNew(h, w) \/ OpenStored(h, w) \/ Write(h, w) \/ Flush(h, w) \/ Release(h, w)
      PROVE  LossInv'
  BY <1>5, LossOpenNew, LossOpenStored, LossWrite, LossFlush, LossRelease
<1> QED  BY <1>1, <1>2, <1>3, <1>4, <1>5 DEF Next

LEMMA LossAlways ==
  ASSUME Undisturbed, InPlace
  PROVE  Spec => []LossInv
<1>1. Init => OwnInv
  BY FreeTypes, IdleType DEF Init, OwnInv, OpenedNow, HandleDesc, HandlesApart, SlotDesc, SlotsApart
<1>2. Init => LossInv
  BY IdleType DEF Init, LossInv, OneHandle, HandleKind, Contents, NoNewCache, Unstored, FlushUploads
<1>3. TypeInv /\ OwnInv /\ [Next]_vars => OwnInv'
  BY OwnNext DEF Undisturbed
<1>4. TypeInv /\ OwnInv /\ LossInv /\ [Next]_vars => LossInv'
  BY LossNext
<1> QED  BY <1>1, <1>2, <1>3, <1>4, TypeAlways, PTL DEF Spec

\* The object in iRODS and the buffer file together always hold what irodsWrite has
\* accepted, however commits, full disks, other files and slots that time out interleave,
\* and whatever the size of the loop's buffer: as long as no request fails, no entry of
\* the path cache expires, nobody opens a file that is being opened, and an application
\* writes at the end or, before the first commit, anywhere.
THEOREM NothingIsLost ==
  ASSUME Undisturbed, InPlace
  PROVE  Spec => []NothingLost
<1>1. TypeInv /\ LossInv => NothingLost
  <2> SUFFICES ASSUME TypeInv, LossInv, NEW f \in Files
               PROVE  written[f] = CASE f \notin opened -> server[f]
                                     [] f \in opened /\ info[f].commits = 0 -> buf[f]
                                     [] f \in opened /\ info[f].commits > 0 -> server[f] \o buf[f]
    BY DEF NothingLost
  <2>1. info[f].commits \in Nat
    BY TypeParts DEF LazyTypes, Infos
  <2>2. info[f].commits = 0 \/ (info[f].commits > 0 /\ info[f].commits # 0)
    BY <2>1
  <2>3. CASE f \notin opened
    BY <2>3 DEF LossInv, Contents
  <2>4. CASE f \in opened /\ info[f].commits = 0
    BY <2>4 DEF LossInv, Contents, Whole
  <2>5. CASE f \in opened /\ info[f].commits > 0 /\ info[f].commits # 0
    BY <2>5 DEF LossInv, Contents, Whole
  <2> QED  BY <2>2, <2>3, <2>4, <2>5
<1> QED  BY <1>1, LossAlways, TypeAlways, PTL

\* Under the same conditions the object in iRODS is what irodsWrite has accepted once
\* irodsFlush has returned.
THEOREM FlushesUpload ==
  ASSUME Undisturbed, InPlace
  PROVE  Spec => []FlushUploads
<1>1. LossInv => FlushUploads
  BY DEF LossInv
<1> QED  BY <1>1, LossAlways, PTL

===============================================================================
