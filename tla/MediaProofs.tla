----------------------------- MODULE MediaProofs -----------------------------
(* What is proved about the workers that show files: the share worker's      *)
(* listing and its getfile, of every tree of files, page size and chunk size *)
(* (ShareListing), and the entries of the media server, of any number of     *)
(* renderers and whatever the server lists (MediaLibrary).                   *)
EXTENDS MediaLibrary, ShareListing, FiniteSetTheorems, SequenceTheorems,
        WellFoundedInduction, TLAPS

-----------------------------------------------------------------------------
(* Recursion, loops and sequences.                                           *)

\* Induction over the numbers up to n.
LEMMA Steps ==
    ASSUME NEW n \in Nat, NEW S, 0 \in S,
           \A i \in 1 .. n : i - 1 \in S => i \in S
    PROVE  \A i \in 0 .. n : i \in S
  <1> DEFINE T == {i \in 0 .. n : i \notin S}
  <1> SUFFICES ASSUME T # {} PROVE FALSE
    OBVIOUS
  <1>0. T \subseteq Nat
    OBVIOUS
  <1>1. PICK x \in T : \A y \in T : ~ <<y, x>> \in OpToRel(<, Nat)
    <2> HIDE DEF T
    <2> QED BY <1>0, NatLessThanWellFounded, WFMin
  <1>2. x \in 1 .. n /\ x - 1 \in 0 .. n /\ x - 1 < x
    OBVIOUS
  <1>3. \A y \in T : ~ y < x
    BY <1>0, <1>1 DEF OpToRel
  <1>4. x - 1 \notin T
    BY <1>2, <1>3
  <1> QED BY <1>2, <1>4

\* What G makes of a function at a place depends on places of a lower rank.
LowerOnly(S, V, rank, G) ==
    \A f, g \in [S -> V], x \in S :
       (\A y \in S : rank[y] < rank[x] => f[y] = g[y]) => G[f][x] = G[g][x]

\* There is a function as G defines it.
Solvable(S, V, G) == \E f \in [S -> V] : f = G[f]

\* A function defined from its values at places of a lower rank exists.
LEMMA RecursionExists ==
    ASSUME NEW S, NEW V, NEW N \in Nat, NEW rank \in [S -> 0 .. N],
           NEW G \in [[S -> V] -> [S -> V]], NEW f0 \in [S -> V],
           LowerOnly(S, V, rank, G)
    PROVE  Solvable(S, V, G)
  <1> DEFINE A(k) == {f \in [S -> V] :
                         \A x \in S : rank[x] < k => f[x] = G[f][x]}
             T == {k \in 0 .. N + 1 : A(k) # {}}
  <1>1. 0 \in T
    <2>1. \A x \in S : ~ rank[x] < 0
      OBVIOUS
    <2> QED BY <2>1
  <1>2. ASSUME NEW k \in 1 .. N + 1, k - 1 \in T PROVE k \in T
    <2>1. PICK f \in [S -> V] : \A x \in S : rank[x] < k - 1 => f[x] = G[f][x]
      BY <1>2
    <2>2. G[f] \in [S -> V]
      OBVIOUS
    <2>3. ASSUME NEW x \in S, rank[x] < k PROVE G[f][x] = G[G[f]][x]
      <3>1. ASSUME NEW y \in S, rank[y] < rank[x] PROVE f[y] = G[f][y]
        <4>1. rank[y] < k - 1
          BY <2>3, <3>1
        <4> QED BY <2>1, <4>1
      <3> QED BY <2>2, <3>1 DEF LowerOnly
    <2>4. G[f] \in A(k)
      BY <2>2, <2>3
    <2> QED BY <2>4
  <1>3. N + 1 \in T
    <2> HIDE DEF T
    <2>1. N + 1 \in Nat /\ N + 1 \in 0 .. N + 1
      OBVIOUS
    <2>2. \A k \in 1 .. N + 1 : k - 1 \in T => k \in T
      BY <1>2
    <2>3. \A k \in 0 .. N + 1 : k \in T
      BY <1>1, <2>1, <2>2, Steps, Zenon
    <2> QED BY <2>1, <2>3
  <1>4. PICK f \in [S -> V] : \A x \in S : rank[x] < N + 1 => f[x] = G[f][x]
    BY <1>3
  <1>5. \A x \in S : f[x] = G[f][x]
    BY <1>4
  <1>6. f = G[f]
    BY <1>5
  <1> QED BY <1>6 DEF Solvable

\* So does what a loop makes step by step, from a on.
Runs(n, V, a, step) ==
    \E f \in [0 .. n -> V] :
        f = [i \in 0 .. n |-> IF i = 0 THEN a ELSE step[i][f[i - 1]]]

LEMMA LoopExists ==
    ASSUME NEW n \in Nat, NEW V, NEW a \in V, NEW step \in [1 .. n -> [V -> V]]
    PROVE  Runs(n, V, a, step)
  <1> DEFINE S == 0 .. n
             rank == [i \in S |-> i]
             G == [f \in [S -> V] |->
                     [i \in S |-> IF i = 0 THEN a ELSE step[i][f[i - 1]]]]
             f0 == [i \in S |-> a]
  <1>1. rank \in [S -> 0 .. n] /\ f0 \in [S -> V]
    OBVIOUS
  <1>2. G \in [[S -> V] -> [S -> V]]
    <2> SUFFICES ASSUME NEW f \in [S -> V], NEW i \in S, i # 0
                 PROVE  step[i][f[i - 1]] \in V
      OBVIOUS
    <2>1. i \in 1 .. n /\ i - 1 \in S
      OBVIOUS
    <2> QED BY <2>1
  <1>3. ASSUME NEW f \in [S -> V], NEW g \in [S -> V], NEW x \in S,
               \A y \in S : rank[y] < rank[x] => f[y] = g[y]
        PROVE  G[f][x] = G[g][x]
    <2>1. CASE x = 0
      BY <2>1
    <2>2. CASE x # 0
      <3>1. x - 1 \in S /\ rank[x - 1] < rank[x]
        BY <2>2
      <3> QED BY <1>3, <2>2, <3>1
    <2> QED BY <2>1, <2>2
  <1>4. \A f \in [S -> V] : G[f] =
           [i \in 0 .. n |-> IF i = 0 THEN a ELSE step[i][f[i - 1]]]
    OBVIOUS
  <1> HIDE DEF S, rank, G, f0
  <1>5. LowerOnly(S, V, rank, G)
    BY <1>3 DEF LowerOnly
  <1>6. Solvable(S, V, G)
    BY <1>1, <1>2, <1>5, RecursionExists
  <1> QED BY <1>4, <1>6 DEF S, Solvable, Runs

\* FlattenSeq joins the pieces one after the other.
Joins(joined, n, pieces) ==
    /\ joined[0] = <<>>
    /\ \A i \in 1 .. n : joined[i] = joined[i - 1] \o pieces[i]

LEMMA FlattenJoins ==
    ASSUME NEW S, NEW n \in Nat, NEW pieces \in [1 .. n -> Seq(S)]
    PROVE  \E joined \in [0 .. n -> Seq(S)] :
              /\ Joins(joined, n, pieces)
              /\ FlattenSeq(pieces) = joined[n]
  <1> DEFINE V == Seq(S)
  <1>0. /\ pieces \in Seq(V) /\ Len(pieces) = n /\ DOMAIN pieces = 1 .. n
        /\ <<>> \in V
    OBVIOUS
  <1>1. CASE n = 0
    <2>1. pieces = <<>>
      BY <1>0, <1>1
    <2>2. FlattenSeq(pieces) = <<>>
      BY <1>0, <1>1, <2>1 DEF FlattenSeq
    <2> DEFINE joined == [i \in 0 .. n |-> <<>>]
    <2>3. joined \in [0 .. n -> V] /\ joined[0] = <<>>
      BY <1>0, <1>1
    <2>4. Joins(joined, n, pieces)
      BY <1>1, <2>3 DEF Joins
    <2> QED BY <1>1, <2>2, <2>3, <2>4
  <1>2. CASE n # 0
    <2> DEFINE Eq(f) == f = [i \in 1 .. n |-> IF i = 1 THEN pieces[i]
                                              ELSE f[i - 1] \o pieces[i]]
               step == [i \in 1 .. n |-> [s \in V |-> s \o pieces[i]]]
    <2>1. FlattenSeq(pieces) = (CHOOSE f : Eq(f))[n]
      BY <1>0, <1>2 DEF FlattenSeq
    <2>2. \E f : Eq(f)
      <3>1. step \in [1 .. n -> [V -> V]]
        BY ConcatProperties
      <3> HIDE DEF step, V
      <3>2. PICK g \in [0 .. n -> V] :
               g = [i \in 0 .. n |-> IF i = 0 THEN <<>> ELSE step[i][g[i - 1]]]
        <4>1. Runs(n, V, <<>>, step)
          BY <1>0, <3>1, LoopExists
        <4> QED BY <4>1 DEF Runs
      <3>3. g[0] = <<>> /\ \A i \in 1 .. n : g[i] = g[i - 1] \o pieces[i]
        BY <3>2 DEF step, V
      <3>4. g[1] = pieces[1]
        <4>1. 1 \in 1 .. n /\ pieces[1] \in Seq(S)
          BY <1>0, <1>2
        <4>2. <<>> \o pieces[1] = pieces[1]
          BY <4>1, ConcatEmptySeq, Zenon
        <4>3. g[1] = g[1 - 1] \o pieces[1] /\ 1 - 1 = 0
          BY <3>3, <4>1
        <4> QED BY <3>3, <4>2, <4>3
      <3> DEFINE f == [i \in 1 .. n |-> g[i]]
      <3>5. ASSUME NEW i \in 1 .. n
            PROVE  f[i] = IF i = 1 THEN pieces[i] ELSE f[i - 1] \o pieces[i]
        <4>1. CASE i = 1
          BY <3>4, <4>1
        <4>2. CASE i # 1
          <5>1. i - 1 \in 1 .. n /\ f[i - 1] = g[i - 1] /\ f[i] = g[i]
            BY <4>2
          <5> QED BY <3>3, <4>2, <5>1
        <4> QED BY <4>1, <4>2
      <3>6. Eq(f)
        <4> DEFINE h == [i \in 1 .. n |-> IF i = 1 THEN pieces[i]
                                          ELSE f[i - 1] \o pieces[i]]
        <4>1. \A i \in 1 .. n : f[i] = h[i]
          BY <3>5
        <4>2. f = [i \in 1 .. n |-> f[i]] /\ h = [i \in 1 .. n |-> h[i]]
          OBVIOUS
        <4>3. f = h
          <5> HIDE DEF f, h
          <5> QED BY <4>1, <4>2
        <4> QED BY <4>3
      <3> HIDE DEF Eq, f
      <3> QED BY <3>6
    <2> HIDE DEF Eq
    <2>3. PICK f : Eq(f) /\ FlattenSeq(pieces) = f[n]
      BY <2>1, <2>2
    <2>4. /\ f[1] = pieces[1]
          /\ \A i \in 2 .. n : f[i] = f[i - 1] \o pieces[i]
      <3>1. \A i \in 1 .. n : f[i] = IF i = 1 THEN pieces[i]
                                      ELSE f[i - 1] \o pieces[i]
        BY <2>3 DEF Eq
      <3>2. 1 \in 1 .. n /\ \A i \in 2 .. n : i \in 1 .. n /\ i # 1
        BY <1>2
      <3> QED BY <3>1, <3>2
    <2> DEFINE joined == [i \in 0 .. n |-> IF i = 0 THEN <<>> ELSE f[i]]
               T == {i \in 0 .. n : joined[i] \in V}
    <2>5. joined[0] = <<>> /\ \A i \in 1 .. n : joined[i] = f[i]
      OBVIOUS
    <2>6. \A i \in 1 .. n : joined[i] = joined[i - 1] \o pieces[i]
      <3> SUFFICES ASSUME NEW i \in 1 .. n
                   PROVE  joined[i] = joined[i - 1] \o pieces[i]
        OBVIOUS
      <3>1. CASE i = 1
        <4>1. <<>> \o pieces[1] = pieces[1]
          BY <1>0, <1>2, ConcatEmptySeq
        <4> QED BY <2>4, <2>5, <3>1, <4>1
      <3>2. CASE i # 1
        <4>1. i \in 2 .. n /\ i - 1 \in 1 .. n
          BY <3>2
        <4> QED BY <2>4, <2>5, <4>1
      <3> QED BY <3>1, <3>2
    <2>7. 0 \in T /\ \A i \in 1 .. n : i - 1 \in T => i \in T
      <3>1. ASSUME NEW i \in 1 .. n, joined[i - 1] \in V PROVE joined[i] \in V
        <4> HIDE DEF joined
        <4>1. pieces[i] \in V
          BY <1>0
        <4>2. joined[i - 1] \o pieces[i] \in V
          BY <3>1, <4>1
        <4>3. joined[i] = joined[i - 1] \o pieces[i]
          BY <2>6
        <4> QED BY <4>2, <4>3, Zenon
      <3>2. \A i \in 1 .. n : joined[i - 1] \in V => joined[i] \in V
        BY <3>1
      <3>3. joined[0] \in V
        BY <1>0, <2>5
      <3> HIDE DEF joined, V
      <3> QED BY <3>2, <3>3
    <2>8. \A i \in 0 .. n : i \in T
      <3> HIDE DEF T
      <3> QED BY <2>7, Steps
    <2>9. joined \in [0 .. n -> V]
      BY <2>8
    <2>10. Joins(joined, n, pieces) /\ FlattenSeq(pieces) = joined[n]
      <3>1. n \in 1 .. n
        BY <1>2
      <3>2. joined[n] = f[n]
        BY <2>5, <3>1
      <3> HIDE DEF joined
      <3> QED BY <2>3, <2>5, <2>6, <3>2 DEF Joins
    <2> HIDE DEF joined
    <2> QED BY <2>9, <2>10
  <1> QED BY <1>1, <1>2

LEMMA FirstOfFacts ==
    ASSUME NEW S, NEW s \in Seq(S), NEW n \in Nat
    PROVE  /\ FirstOf(n, s) \in Seq(S)
           /\ Len(FirstOf(n, s)) = IF n < Len(s) THEN n ELSE Len(s)
           /\ \A i \in 1 .. Len(FirstOf(n, s)) : FirstOf(n, s)[i] = s[i]
  <1> DEFINE m == IF n < Len(s) THEN n ELSE Len(s)
  <1>1. m \in Nat /\ m <= Len(s) /\ Len(s) \in Nat /\ \A i \in 1 .. m : s[i] \in S
    OBVIOUS
  <1>2. FirstOf(n, s) = SubSeq(s, 1, m)
    BY DEF FirstOf
  <1> HIDE DEF m
  <1>3. /\ SubSeq(s, 1, m) \in Seq(S) /\ Len(SubSeq(s, 1, m)) = m
        /\ \A i \in 1 .. m : SubSeq(s, 1, m)[i] = s[i]
    BY <1>1, SubSeqProperties
  <1> QED BY <1>2, <1>3 DEF m

\* The first of two sequences joined: some of the first, or the first and some
\* of the second.
LEMMA FirstOfJoined ==
    ASSUME NEW S, NEW a \in Seq(S), NEW b \in Seq(S), NEW n \in Nat
    PROVE  /\ Len(FirstOf(n, a)) >= n => FirstOf(n, a \o b) = FirstOf(n, a)
           /\ ~ Len(FirstOf(n, a)) >= n =>
                 /\ n - Len(FirstOf(n, a)) \in Nat \ {0}
                 /\ FirstOf(n, a \o b)
                       = FirstOf(n, a) \o FirstOf(n - Len(FirstOf(n, a)), b)
  <1>1. /\ Len(a) \in Nat /\ Len(b) \in Nat /\ a \o b \in Seq(S)
        /\ Len(a \o b) = Len(a) + Len(b)
        /\ \A i \in 1 .. Len(a) + Len(b) :
              (a \o b)[i] = IF i <= Len(a) THEN a[i] ELSE b[i - Len(a)]
    BY ConcatProperties
  <1>2. /\ FirstOf(n, a) \in Seq(S)
        /\ Len(FirstOf(n, a)) = IF n < Len(a) THEN n ELSE Len(a)
        /\ \A i \in 1 .. Len(FirstOf(n, a)) : FirstOf(n, a)[i] = a[i]
    BY FirstOfFacts
  <1>3. /\ FirstOf(n, a \o b) \in Seq(S)
        /\ Len(FirstOf(n, a \o b)) = IF n < Len(a) + Len(b) THEN n
                                     ELSE Len(a) + Len(b)
        /\ \A i \in 1 .. Len(FirstOf(n, a \o b)) :
              FirstOf(n, a \o b)[i] = (a \o b)[i]
    BY <1>1, FirstOfFacts
  <1>4. ASSUME Len(FirstOf(n, a)) >= n PROVE FirstOf(n, a \o b) = FirstOf(n, a)
    <2>1. /\ Len(FirstOf(n, a)) = n /\ n <= Len(a)
          /\ Len(FirstOf(n, a \o b)) = n
      BY <1>1, <1>2, <1>3, <1>4
    <2>2. \A i \in 1 .. n : FirstOf(n, a \o b)[i] = FirstOf(n, a)[i]
      BY <1>1, <1>2, <1>3, <2>1
    <2> QED BY <1>2, <1>3, <2>1, <2>2, SeqEqual
  <1>5. ASSUME ~ Len(FirstOf(n, a)) >= n
        PROVE  /\ n - Len(FirstOf(n, a)) \in Nat \ {0}
               /\ FirstOf(n, a \o b)
                     = FirstOf(n, a) \o FirstOf(n - Len(FirstOf(n, a)), b)
    <2> DEFINE l == Len(a)  c == FirstOf(n, a)  d == FirstOf(n - l, b)
               e == FirstOf(n, a \o b)
    <2>1. Len(c) = l /\ l < n /\ n - l \in Nat \ {0}
      BY <1>1, <1>2, <1>5
    <2>2. /\ d \in Seq(S) /\ Len(d) = IF n - l < Len(b) THEN n - l ELSE Len(b)
          /\ \A i \in 1 .. Len(d) : d[i] = b[i]
      BY <2>1, FirstOfFacts
    <2>3. /\ c \in Seq(S) /\ e \in Seq(S) /\ l \in Nat /\ Len(d) \in Nat
          /\ \A i \in 1 .. l : c[i] = a[i]
      BY <1>1, <1>2, <1>3, <2>1, <2>2
    <2>7. Len(e) = l + Len(d) /\ Len(e) <= Len(a) + Len(b)
      BY <1>1, <1>3, <2>1, <2>2
    <2>8. \A i \in 1 .. Len(e) : e[i] = IF i <= l THEN a[i] ELSE b[i - l]
      <3> SUFFICES ASSUME NEW i \in 1 .. Len(e)
                   PROVE  e[i] = IF i <= l THEN a[i] ELSE b[i - l]
        OBVIOUS
      <3>1. e[i] = (a \o b)[i]
        BY <1>3
      <3>2. i \in 1 .. Len(a) + Len(b)
        BY <1>1, <2>7
      <3> QED BY <1>1, <3>1, <3>2
    <2> HIDE DEF l, c, d, e
    <2>4. /\ c \o d \in Seq(S) /\ Len(c \o d) = l + Len(d)
          /\ \A i \in 1 .. l + Len(d) :
                (c \o d)[i] = IF i <= l THEN c[i] ELSE d[i - l]
      <3>1. /\ c \o d \in Seq(S) /\ Len(c \o d) = Len(c) + Len(d)
            /\ \A i \in 1 .. Len(c) + Len(d) :
                  (c \o d)[i] = IF i <= Len(c) THEN c[i] ELSE d[i - Len(c)]
        <4>1. c \in Seq(S) /\ d \in Seq(S)
          BY <2>2, <2>3
        <4> QED BY <4>1, ConcatProperties, Zenon
      <3> QED BY <2>1, <3>1
    <2>5. \A i \in 1 .. l + Len(d) : e[i] = (c \o d)[i]
      <3> SUFFICES ASSUME NEW i \in 1 .. l + Len(d) PROVE e[i] = (c \o d)[i]
        OBVIOUS
      <3>1. /\ i <= l => i \in 1 .. l
            /\ ~ i <= l => i - l \in 1 .. Len(d)
        BY <2>3
      <3> QED BY <2>2, <2>3, <2>4, <2>7, <2>8, <3>1
    <2>6. e = c \o d
      BY <2>3, <2>4, <2>5, <2>7, SeqEqual
    <2> QED BY <2>1, <2>6 DEF l, c, d, e
  <1> QED BY <1>4, <1>5

-----------------------------------------------------------------------------
(* The share worker.                                                         *)

Characters == Seq(Nat)

AskSet ==
    [at : {"idle", "stat", "read", "more", "end", "failed", "overrun"},
     path : Asked \cup {<<>>}, got : Characters, len : Nat, size : Nat,
     steady : BOOLEAN]

ShareTyped ==
    sharedir \in Trees /\ ask \in AskSet /\ (ask.at = "idle" => ask.got = <<>>)

LEMMA NodeTyped ==
    ASSUME NEW t \in Trees, NEW p \in DOMAIN t
    PROVE  t[p] \in [dir : BOOLEAN, data : Characters, readable : BOOLEAN]
  BY ShareAssumption DEF Characters

LEMMA MinOfTwo ==
    ASSUME NEW a \in Int, NEW b \in Int
    PROVE  Min({a, b}) = IF a <= b THEN a ELSE b
  <1>1. ASSUME NEW m \in {a, b}, \A y \in {a, b} : m <= y
        PROVE  m = IF a <= b THEN a ELSE b
    BY <1>1
  <1>2. \E m \in {a, b} : \A y \in {a, b} : m <= y
    OBVIOUS
  <1>3. Min({a, b}) \in {a, b} /\ \A y \in {a, b} : Min({a, b}) <= y
    BY <1>2 DEF Min
  <1> QED BY <1>1, <1>3

\* An int holds what is no larger than the largest one, and holds an integer.
LEMMA AsIntSame ==
    ASSUME NEW n \in 0 .. IntMax
    PROVE  AsInt(n) = n
  <1>1. ASSUME NEW a \in Nat, NEW b \in Nat, a < b
        PROVE  a % b = a
    BY <1>1
  <1>2. /\ n + IntMax + 1 \in Nat /\ 2 * IntMax + 2 \in Nat
        /\ n + IntMax + 1 < 2 * IntMax + 2
    BY ShareAssumption
  <1>3. (n + IntMax + 1) % (2 * IntMax + 2) = n + IntMax + 1
    BY <1>1, <1>2
  <1> QED BY <1>3, ShareAssumption DEF AsInt

LEMMA AsIntTyped == ASSUME NEW n \in Int PROVE AsInt(n) \in Int
  <1>1. ASSUME NEW a \in Int, NEW b \in Int, b > 0
        PROVE  a % b \in Int
    BY <1>1
  <1> QED BY <1>1, ShareAssumption DEF AsInt

LEMMA ChunkTyped ==
    ASSUME ask \in AskSet
    PROVE  /\ Offset \in Int /\ ChunkLen \in Int
           /\ MaxResp \in 1 .. IntMax
  <1>1. /\ ask.len \in Nat /\ ask.size \in Nat /\ Len(ask.got) \in Nat
        /\ ChunkSize \in 1 .. IntMax /\ IntMax \in Nat
    BY ShareAssumption DEF AskSet, Characters
  <1>2. MaxResp \in 1 .. IntMax
    BY <1>1, MinOfTwo DEF MaxResp
  <1>3. Offset \in Int
    BY <1>1, AsIntTyped DEF Offset
  <1>4. ChunkLen \in Int
    BY <1>1, <1>2, <1>3 DEF ChunkLen
  <1> QED BY <1>2, <1>3, <1>4

\* What getFile wants to read of a file no longer than an int says: nothing only
\* at the end of the file, and never more than the buffer holds.
LEMMA ChunkBounds ==
    ASSUME ask \in AskSet, Len(ask.got) <= ask.size, ask.size <= IntMax
    PROVE  /\ Offset = Len(ask.got)
           /\ ChunkLen \in 0 .. ask.size - Len(ask.got)
           /\ ChunkLen <= MaxResp /\ AsInt(ChunkLen) = ChunkLen
           /\ ChunkLen = 0 => ask.size = Len(ask.got)
  <1> DEFINE s == ask.size - Len(ask.got)
  <1>1. /\ ask.size \in Nat /\ Len(ask.got) \in Nat
        /\ MaxResp \in 1 .. IntMax /\ IntMax \in Nat
    BY ShareAssumption, ChunkTyped DEF AskSet, Characters
  <1>2. Len(ask.got) \in 0 .. IntMax /\ s \in 0 .. IntMax
    BY <1>1
  <1>3. Offset = Len(ask.got) /\ AsInt(s) = s
    BY <1>2, AsIntSame DEF Offset
  <1>4. ChunkLen = IF s > MaxResp THEN MaxResp ELSE s
    BY <1>3 DEF ChunkLen
  <1> HIDE DEF s
  <1>5. ChunkLen \in 0 .. s /\ ChunkLen <= MaxResp /\ (ChunkLen = 0 => s = 0)
    BY <1>1, <1>2, <1>4
  <1>6. AsInt(ChunkLen) = ChunkLen
    <2>1. ChunkLen \in 0 .. IntMax
      BY <1>1, <1>2, <1>5
    <2> QED BY <2>1, AsIntSame
  <1> QED BY <1>1, <1>3, <1>5, <1>6 DEF s

LEMMA ShareTypedInit == ShareInit => ShareTyped
  BY DEF ShareInit, ShareTyped, AskSet, NotAsking, Characters

LEMMA ShareTypedStep == ShareTyped /\ [ShareNext]_shareVars => ShareTyped'
  <1> SUFFICES ASSUME ShareTyped, [ShareNext]_shareVars PROVE ShareTyped'
    OBVIOUS
  <1> USE DEF ShareTyped
  <1>1. CASE MainThread \/ UNCHANGED shareVars
    BY <1>1 DEF MainThread, CreateDirentsFile, Compare, Symlink, GetDirectory,
       askVars, shareVars
  <1>2. CASE Restart
    BY <1>2 DEF Restart, NotAsking, AskSet, Characters
  <1>3. CASE Change
    BY <1>3 DEF Change, AskSet
  <1>4. ASSUME NEW path \in Asked, NEW len \in Lens, HostAsks(path, len)
        PROVE  ShareTyped'
    <2>1. len \in Nat
      BY ShareAssumption
    <2> QED BY <1>4, <2>1 DEF HostAsks, AskSet
  <1>5. CASE Stat
    <2>1. CASE ask.path \in DOMAIN sharedir
      <3>1. Len(sharedir[ask.path].data) \in Nat
        BY <2>1, NodeTyped DEF Characters
      <3> QED BY <1>5, <2>1, <3>1 DEF Stat, AskSet
    <2>2. CASE ask.path \notin DOMAIN sharedir
      BY <1>5, <2>2 DEF Stat, AskSet
    <2> QED BY <2>1, <2>2
  <1>6. CASE ReadChunk
    <2> DEFINE data == IF ask.path \in DOMAIN sharedir
                       THEN sharedir[ask.path].data ELSE <<>>
               from == Offset + 1
               to == Min({Offset + ChunkLen, Len(data)})
               chunk == SubSeq(data, from, to)
    <2>1. data \in Characters
      BY NodeTyped DEF Characters
    <2>2. ASSUME NEW c \in Characters PROVE ask.got \o c \in Characters
      BY <2>2 DEF AskSet, Characters
    <2>3. \/ \E at \in {"end", "overrun", "failed"} : ask' = [ask EXCEPT !.at = at]
          \/ /\ Offset >= 0
             /\ \E at \in {"end", "more"} :
                   ask' = [ask EXCEPT !.at = at, !.got = @ \o chunk]
      <3> DEFINE opened == ask.path \in DOMAIN sharedir /\ sharedir[ask.path].readable
                 rc2 == IF Offset < 0 \/ ChunkLen < 0 THEN -1 ELSE Len(chunk)
      <3>1. ask' = CASE ~opened -> [ask EXCEPT !.at = "end"]
                     [] opened /\ rc2 > MaxResp -> [ask EXCEPT !.at = "overrun"]
                     [] opened /\ rc2 \in 0 .. MaxResp /\ rc2 = AsInt(ChunkLen) ->
                          [ask EXCEPT !.at = IF chunk = <<>> THEN "end"
                                             ELSE "more",
                                      !.got = @ \o chunk]
                     [] OTHER -> [ask EXCEPT !.at = "failed"]
        BY <1>6 DEF ReadChunk
      <3>2. rc2 \in 0 .. MaxResp => Offset >= 0
        BY ChunkTyped
      <3> HIDE DEF opened, rc2, chunk
      <3>3. CASE ~opened
        BY <3>1, <3>3
      <3>4. CASE opened /\ rc2 > MaxResp
        <4>1. rc2 \notin 0 .. MaxResp
          BY <3>4, ChunkTyped
        <4> QED BY <3>1, <3>4, <4>1
      <3>5. CASE opened /\ rc2 \in 0 .. MaxResp /\ rc2 = AsInt(ChunkLen)
        <4>1. ~(rc2 > MaxResp)
          BY <3>5, ChunkTyped
        <4> QED BY <3>1, <3>2, <3>5, <4>1
      <3>6. CASE opened /\ ~(rc2 > MaxResp)
                 /\ ~(rc2 \in 0 .. MaxResp /\ rc2 = AsInt(ChunkLen))
        BY <3>1, <3>6
      <3> QED BY <3>3, <3>4, <3>5, <3>6
    <2>4. Offset >= 0 => chunk \in Characters
      <3> SUFFICES ASSUME Offset >= 0 PROVE chunk \in Characters
        OBVIOUS
      <3>1. Offset \in Nat /\ from \in Nat /\ Len(data) \in Nat
        BY <2>1, ChunkTyped DEF Characters
      <3>2. to \in Int /\ to <= Len(data)
        <4>1. Offset + ChunkLen \in Int
          BY ChunkTyped
        <4> HIDE DEF from, data
        <4> QED BY <3>1, <4>1, MinOfTwo
      <3>3. from >= 1
        BY <3>1
      <3> HIDE DEF data, from, to
      <3>4. \A i \in from .. to : data[i] \in Nat
        <4>1. \A i \in from .. to : i \in 1 .. Len(data)
          BY <3>1, <3>2, <3>3
        <4> QED BY <2>1, <4>1 DEF Characters
      <3> QED BY <3>1, <3>2, <3>4, SubSeqProperties DEF Characters
    <2> HIDE DEF chunk
    <2>5. ask \in AskSet /\ sharedir' = sharedir
      BY <1>6 DEF ReadChunk
    <2>6. ASSUME NEW at \in {"end", "overrun", "failed"},
                 ask' = [ask EXCEPT !.at = at]
          PROVE  ShareTyped'
      BY <2>5, <2>6 DEF AskSet
    <2>8. ASSUME Offset >= 0, NEW at \in {"end", "more"},
                 ask' = [ask EXCEPT !.at = at, !.got = @ \o chunk]
          PROVE  ShareTyped'
      <3>1. ask.got \o chunk \in Characters
        BY <2>2, <2>4, <2>8
      <3> QED BY <2>5, <2>8, <3>1 DEF AskSet
    <2> QED BY <2>3, <2>6, <2>8
  <1> QED BY <1>1, <1>2, <1>3, <1>4, <1>5, <1>6 DEF ShareNext, ControlThread

\* Where a reading of a file that has not changed, and is not too long, has got to.
SteadyReading == ask.steady /\ Len(sharedir[ask.path].data) <= IntMax
ReadInv ==
    SteadyReading =>
        LET data == sharedir[ask.path].data IN
        /\ ask.at \notin {"failed", "overrun"} /\ ask.path \in DOMAIN sharedir
        /\ Len(ask.got) <= Len(data)
        /\ \A i \in 1 .. Len(ask.got) : ask.got[i] = data[i]
        /\ ask.at = "read" => ask.size = Len(data)
        /\ ask.at = "end" /\ sharedir[ask.path].readable =>
              Len(ask.got) = Len(data)

LEMMA ReadStep == ShareTyped /\ ReadInv /\ [ShareNext]_shareVars => ReadInv'
  <1> SUFFICES ASSUME ShareTyped, ReadInv, [ShareNext]_shareVars, SteadyReading'
      PROVE ReadInv'
    BY DEF ReadInv
  <1> DEFINE data == sharedir[ask.path].data
  <1>1. ask \in AskSet /\ sharedir \in Trees
    BY DEF ShareTyped
  <1>2. CASE MainThread \/ UNCHANGED shareVars
    <2>1. ask' = ask /\ sharedir' = sharedir
      BY <1>2 DEF MainThread, CreateDirentsFile, Compare, Symlink, GetDirectory,
         askVars, shareVars
    <2> QED BY <2>1 DEF ReadInv, SteadyReading
  <1>3. ~ Restart /\ ~ Change
    BY <1>1 DEF Restart, NotAsking, Change, AskSet, SteadyReading
  <1>4. ASSUME NEW path \in Asked, NEW len \in Lens, HostAsks(path, len)
        PROVE  ReadInv'
    <2>1. /\ ask'.at = "stat" /\ ask'.path = path /\ ask'.got = ask.got
          /\ sharedir' = sharedir
      BY <1>1, <1>4 DEF HostAsks, AskSet
    <2>2. CASE ask.at = "more"
      <3>1. ask.steady /\ path = ask.path
        BY <1>1, <1>4, <2>2 DEF HostAsks, AskSet, SteadyReading
      <3>2. SteadyReading
        BY <2>1, <3>1 DEF SteadyReading
      <3> QED BY <2>1, <3>1, <3>2 DEF ReadInv
    <2>3. CASE ask.at = "idle"
      <3>1. path \in DOMAIN sharedir
        BY <1>4, <2>3 DEF HostAsks, IsFile
      <3>2. ask.got = <<>>
        BY <2>3 DEF ShareTyped
      <3>3. sharedir[path].data \in Characters
        BY <1>1, <3>1, NodeTyped
      <3>4. Len(sharedir[path].data) \in Nat
        BY <3>3 DEF Characters
      <3> QED BY <2>1, <3>1, <3>2, <3>4 DEF ReadInv
    <2> QED BY <1>4, <2>2, <2>3 DEF HostAsks
  <1>5. CASE Stat
    <2>0. SteadyReading
      <3>1. sharedir' = sharedir /\ ask'.path = ask.path /\ ask'.steady = ask.steady
        BY <1>1, <1>5 DEF Stat, AskSet
      <3> QED BY <3>1 DEF SteadyReading
    <2>1. ask.path \in DOMAIN sharedir
      BY <2>0 DEF ReadInv
    <2>2. /\ ask'.at = "read" /\ ask'.size = Len(data) /\ ask'.path = ask.path
          /\ ask'.got = ask.got /\ sharedir' = sharedir
      BY <1>1, <1>5, <2>1 DEF Stat, AskSet
    <2> QED BY <2>0, <2>1, <2>2 DEF ReadInv
  <1>6. CASE ReadChunk
    <2> DEFINE node == sharedir[ask.path]
               from == Offset + 1
               to == Min({Offset + ChunkLen, Len(data)})
               chunk == SubSeq(data, from, to)
    <2>0. SteadyReading
      <3>1. sharedir' = sharedir /\ ask'.path = ask.path /\ ask'.steady = ask.steady
        BY <1>1, <1>6 DEF ReadChunk, AskSet
      <3> QED BY <3>1 DEF SteadyReading
    <2>1. ask.path \in DOMAIN sharedir /\ ask.at = "read" /\ Len(data) <= IntMax
      BY <1>6, <2>0 DEF ReadChunk, ReadInv, SteadyReading
    <2>2. /\ ask.size = Len(data) /\ data \in Characters /\ Len(data) \in Nat
          /\ Len(ask.got) \in Nat /\ Len(ask.got) <= Len(data)
      <3>1. data \in Characters
        BY <1>1, <2>1, NodeTyped
      <3>2. Len(data) \in Nat /\ Len(ask.got) \in Nat
        BY <1>1, <3>1 DEF Characters, AskSet
      <3> QED BY <2>0, <2>1, <3>1, <3>2 DEF ReadInv
    <2>3. /\ ChunkLen \in 0 .. Len(data) - Len(ask.got)
          /\ ChunkLen = 0 => Len(data) = Len(ask.got)
          /\ Offset = Len(ask.got) /\ from = Len(ask.got) + 1
          /\ ChunkLen <= MaxResp /\ AsInt(ChunkLen) = ChunkLen
      BY <1>1, <2>1, <2>2, ChunkBounds
    <2>4. to = Len(ask.got) + ChunkLen
      <3> HIDE DEF data
      <3> QED BY <2>2, <2>3, MinOfTwo
    <2>5. /\ Len(chunk) = ChunkLen /\ chunk \in Seq(Nat)
          /\ \A i \in 1 .. ChunkLen : chunk[i] = data[Len(ask.got) + i]
      <3>1. \A i \in from .. to : i \in 1 .. Len(data)
        BY <2>2, <2>3, <2>4
      <3>2. \A i \in from .. to : data[i] \in Nat
        BY SMTT(30), <2>2, <3>1 DEF Characters
      <3>3. from \in Int /\ to \in Int /\ to - from + 1 = ChunkLen
        BY <2>2, <2>3, <2>4
      <3> HIDE DEF data, from, to
      <3>4. /\ chunk \in Seq(Nat)
            /\ Len(chunk) = IF from <= to THEN to - from + 1 ELSE 0
            /\ \A i \in 1 .. to - from + 1 : chunk[i] = data[from + i - 1]
        BY <3>2, <3>3, SubSeqProperties
      <3> QED BY <2>2, <2>3, <2>4, <3>3, <3>4 DEF from
    <2>6. sharedir' = sharedir
      BY <1>6 DEF ReadChunk
    <2>7. CASE ~ node.readable
      <3>1. ask' = [ask EXCEPT !.at = "end"]
        BY <1>6, <2>1, <2>7 DEF ReadChunk
      <3> QED BY <1>1, <2>0, <2>1, <2>6, <2>7, <3>1 DEF ReadInv, AskSet
    <2>8. CASE node.readable
      <3>1. ask' = [ask EXCEPT !.at = IF chunk = <<>> THEN "end" ELSE "more",
                               !.got = @ \o chunk]
        <4> DEFINE opened == ask.path \in DOMAIN sharedir
                              /\ sharedir[ask.path].readable
                   rc2 == IF Offset < 0 \/ ChunkLen < 0 THEN -1 ELSE Len(chunk)
        <4>1. ask' = CASE ~opened -> [ask EXCEPT !.at = "end"]
                       [] opened /\ rc2 > MaxResp -> [ask EXCEPT !.at = "overrun"]
                       [] opened /\ rc2 \in 0 .. MaxResp /\ rc2 = AsInt(ChunkLen) ->
                            [ask EXCEPT !.at = IF chunk = <<>> THEN "end"
                                               ELSE "more",
                                        !.got = @ \o chunk]
                       [] OTHER -> [ask EXCEPT !.at = "failed"]
          BY <1>6, <2>1 DEF ReadChunk
        <4>2. opened
          BY <2>1, <2>8
        <4>3. rc2 = ChunkLen
          <5>1. ~(Offset < 0 \/ ChunkLen < 0)
            BY <2>2, <2>3
          <5> QED BY <2>5, <5>1
        <4>4. ~(rc2 > MaxResp) /\ rc2 \in 0 .. MaxResp /\ rc2 = AsInt(ChunkLen)
          <5>1. MaxResp \in 1 .. IntMax /\ IntMax \in Nat
            BY <1>1, ChunkTyped, ShareAssumption
          <5> HIDE DEF rc2, data
          <5> QED BY <2>2, <2>3, <4>3, <5>1
        <4> HIDE DEF opened, rc2, chunk
        <4> QED BY <4>1, <4>2, <4>4
      <3>2. /\ ask'.got = ask.got \o chunk /\ ask'.path = ask.path
            /\ ask'.at = IF chunk = <<>> THEN "end" ELSE "more"
        BY <1>1, <3>1 DEF AskSet
      <3>3. ask.got \in Seq(Nat)
        BY <1>1 DEF AskSet, Characters
      <3>4. chunk = <<>> => ChunkLen = 0
        BY <2>5
      <3> HIDE DEF chunk, data
      <3>5. /\ Len(ask.got \o chunk) = Len(ask.got) + ChunkLen
            /\ \A i \in 1 .. Len(ask.got) + ChunkLen : (ask.got \o chunk)[i] =
                  IF i <= Len(ask.got) THEN ask.got[i]
                                       ELSE chunk[i - Len(ask.got)]
        BY ZenonT(30), <2>5, <3>3, ConcatProperties
      <3>6. \A i \in 1 .. Len(ask.got) : ask.got[i] = data[i]
        BY <2>0 DEF ReadInv, data
      <3>7. ASSUME NEW i \in 1 .. Len(ask.got) + ChunkLen
            PROVE  (ask.got \o chunk)[i] = data[i]
        <4>1. CASE i <= Len(ask.got)
          BY <2>2, <2>3, <3>5, <3>6, <4>1
        <4>2. CASE ~ (i <= Len(ask.got))
          <5>1. /\ i - Len(ask.got) \in 1 .. ChunkLen
                /\ Len(ask.got) + (i - Len(ask.got)) = i
            BY <2>2, <2>3, <4>2
          <5> QED BY <2>5, <3>5, <4>2, <5>1
        <4> QED BY <4>1, <4>2
      <3>8. Len(ask.got) + ChunkLen <= Len(data)
            /\ (chunk = <<>> => Len(ask.got) + ChunkLen = Len(data))
        BY <2>2, <2>3, <3>4
      <3> QED BY <2>0, <2>1, <2>6, <3>2, <3>5, <3>7, <3>8 DEF ReadInv, data
    <2> QED BY <2>7, <2>8
  <1> QED BY <1>2, <1>3, <1>4, <1>5, <1>6 DEF ShareNext, ControlThread

\* getFile: a host that reads a file from offset 0 with any lengths, until a chunk
\* is empty, has all of it, and no chunk fails or passes its buffer, for any file
\* no longer than an int says, any SIZELIMIT1 and any width of an int, whatever
\* the main thread does meanwhile, as long as the directory stays the same.
THEOREM ReadBack == ShareSpec => []FileReadBack
  <1>1. ShareInit => ReadInv
    BY DEF ShareInit, NotAsking, ReadInv, SteadyReading
  <1>2. ShareTyped /\ ReadInv => FileReadBack
    <2> SUFFICES ASSUME ShareTyped, ReadInv, SteadyReading, ask.at = "end",
                        sharedir[ask.path].readable
        PROVE ask.got = sharedir[ask.path].data
      BY DEF ReadInv, FileReadBack, SteadyReading
    <2>1. ask.got \in Seq(Nat) /\ sharedir[ask.path].data \in Seq(Nat)
      BY NodeTyped DEF ShareTyped, AskSet, Characters, ReadInv
    <2>2. /\ Len(ask.got) = Len(sharedir[ask.path].data)
          /\ \A i \in 1 .. Len(ask.got) : ask.got[i] = sharedir[ask.path].data[i]
      BY DEF ReadInv
    <2> QED BY <2>1, <2>2, SeqEqual
  <1> QED BY <1>1, <1>2, ShareTypedInit, ShareTypedStep, ReadStep, PTL
          DEF ShareSpec

-----------------------------------------------------------------------------
\* The file that "current" links to was handed over, or the run that linked it
\* is at it, or ended in the middle of it.
SentInv ==
    /\ current # NoFile => \/ current \in handed \cup cutOff
                           \/ thread = "pages" /\ current = lines
    /\ thread \in {"linksame", "same"} => lines \in handed \cup cutOff
    /\ thread \in {"scan", "compare"} /\ current # NoFile =>
          current \in handed \cup cutOff

LEMMA SentStep == SentInv /\ [ShareNext]_shareVars => SentInv'
  <1> SUFFICES ASSUME SentInv, [ShareNext]_shareVars PROVE SentInv'
    OBVIOUS
  <1>1. CASE CreateDirentsFile
    BY <1>1 DEF CreateDirentsFile, SentInv
  <1>2. CASE Compare
    BY <1>2 DEF Compare, SentInv
  <1>3. CASE Symlink
    BY <1>3 DEF Symlink, SentInv
  <1>4. CASE GetDirectory
    BY <1>4 DEF GetDirectory, SentInv
  <1>5. CASE Restart
    BY <1>5 DEF Restart, SentInv
  <1>6. CASE UNCHANGED mainVars
    BY <1>6 DEF mainVars, SentInv
  <1> QED BY <1>1, <1>2, <1>3, <1>4, <1>5, <1>6
          DEF ShareNext, MainThread, ControlThread, HostAsks, Stat, ReadChunk,
              Change, shareVars, mainVars

\* share_main: a run that sends nothing has a list that an earlier run handed over
\* to the last page, or was interrupted in, for any number of runs and changes.
THEOREM SkipsWhatWasSent == ShareSpec => []SkippedOnlyIfSent
  <1>1. ShareInit => SentInv
    BY DEF ShareInit, SentInv
  <1>2. SentInv => SkippedOnlyIfSent
    BY DEF SentInv, SkippedOnlyIfSent
  <1> QED BY <1>1, <1>2, SentStep, PTL DEF ShareSpec

EntryNames == {"root"} \cup {Shared[i] : i \in DOMAIN Shared}
                 \cup Directories \cup Files \cup Strays

EntrySet == [id : Int, name : EntryNames, parent : Int, childs : Seq(Nat),
             count : Nat \cup {-1}]

LoadPcs == {"fetch", "share", "scan", "add", "number", "length", "link"}
JobSet(answers) ==
    [pc : LoadPcs \cup {"idle", "find", "answer", "reply"},
     request : Requests \cup {NoRequest}, at : Int, todo : Lists,
     share : 0 .. Len(Shared), answer : answers,
     name : EntryNames, number : Nat, length : Nat]

LibraryTyped ==
    /\ \A e \in DOMAIN entry : entry[e] \in EntrySet
    /\ nrEntries \in Nat /\ doc \in Lists /\ cached \subseteq Directories
    /\ init \in BOOLEAN /\ disturbed \in BOOLEAN
    /\ requests \in 0 .. MaxRequests /\ failures \in 0 .. MaxFailures
    /\ races \in 0 .. MaxRaces
    /\ \E answers : job \in [Loaders -> JobSet(answers)]

\* What hangs together in the tree and in the lookups, whatever runs at once.
Childs(e) == entry[e].childs
Numbered == Fresh \in Nat \ {0} /\ DOMAIN entry = 0 .. Fresh - 1
Parented == \A e \in DOMAIN entry \ {Root} : entry[e].parent \in DOMAIN entry
Fathered == \A p \in DOMAIN entry : \A i \in DOMAIN Childs(p) :
               /\ Childs(p)[i] \in DOMAIN entry \ {Root}
               /\ entry[Childs(p)[i]].parent = p
Once == \A p \in DOMAIN entry : \A i, j \in DOMAIN Childs(p) :
           Childs(p)[i] = Childs(p)[j] => i = j
Later == \A p \in DOMAIN entry : \A i \in DOMAIN Childs(p) : p < Childs(p)[i]
Childless == \A e \in DOMAIN entry : ~IsContainer(e) => Childs(e) = <<>>
Entered == \A i \in DOMAIN lookup : /\ lookup[i] \in DOMAIN entry \ {Root}
                                    /\ entry[lookup[i]].id = i

EntriesInv ==
    /\ Numbered /\ IsContainer(Root) /\ Parented /\ Fathered /\ Once /\ Later
    /\ Childless /\ Entered

\* What a thread loads, and what it answers about, is there.
JobsPlaced ==
    \A t \in Loaders :
        /\ job[t].at \in DOMAIN entry \cup {None}
        /\ Loading(t) => job[t].at \in DOMAIN entry /\ IsContainer(job[t].at)
        /\ job[t].pc = "answer" => job[t].at \in DOMAIN entry

LinkInv == LibraryTyped /\ EntriesInv /\ JobsPlaced

\* As long as no two threads have been at making an entry at once, one thread
\* at most is; what it has read still holds; and the entries have numbers of
\* their own, are found by them, listed and counted.
OneMakes == \A t, u \in Loaders : Making(t) /\ Making(u) => t = u
UpToDate == \A t \in Loaders :
    /\ job[t].pc = "number" => job[t].number = nrEntries
    /\ job[t].pc \in {"length", "link"} =>
          /\ nrEntries = job[t].number + 1
          /\ \A e \in DOMAIN entry \ {Root} :
                entry[e].id # FirstId + job[t].number
    /\ job[t].pc = "link" => job[t].length = Len(Childs(job[t].at))
Reachable == \A e \in DOMAIN entry \ {Root} :
             /\ entry[e].id \in FirstId .. NextId - 1
             /\ entry[e].id \in DOMAIN lookup /\ lookup[entry[e].id] = e
             /\ \E i \in DOMAIN Childs(entry[e].parent) :
                   Childs(entry[e].parent)[i] = e
Counted == \A e \in DOMAIN entry :
              entry[e].count = IF IsContainer(e) THEN Len(Childs(e)) ELSE -1
RaceInv == races = 0 => OneMakes /\ UpToDate /\ Reachable /\ Counted

\* While nothing has been disturbed one thread loads, and the document is its
\* own: of the list of the container it fills, what is left to do is what the
\* container does not show yet.
OneLoads == \A t, u \in Loaders : Loading(t) /\ Loading(u) => t = u
MakePcs == {"number", "length", "link"}
Filling(t, v) ==
    LET e == v.at
        list == Source(e) IN
    /\ v.pc = "fetch" /\ t # Main => e # Root /\ Childs(e) = <<>>
    /\ v.pc = "scan" => /\ e # Root /\ Childs(e) = <<>>
                        /\ Scanned(doc) = list
    /\ v.pc \in LoadPcs \ {"fetch"} /\ t = Main => doc = UserList
    /\ v.pc \in MakePcs /\ e = Root => t = Main /\ v.name \notin Directories
    /\ v.pc \in {"length", "link"} => v.name \notin Invalid
    /\ v.pc = "add" =>
          /\ e # Root
          /\ \E n \in 0 .. Len(list) :
                v.todo = SubSeq(list, n + 1, Len(list)) /\ Shows(e, n)
    /\ v.pc \in MakePcs /\ e # Root =>
          \E n \in 0 .. Len(list) - 1 :
             /\ v.todo = SubSeq(list, n + 2, Len(list)) /\ Shows(e, n)
             /\ v.name = list[n + 1] /\ HasMime(v.name)
Filled(e) == \/ Childs(e) = <<>>
             \/ Shows(e, Len(Source(e)))
             \/ \E t \in Loaders : Adding(t) /\ job[t].at = e
OwnInv ==
    ~disturbed =>
        /\ races = 0 /\ OneLoads
        /\ \A t \in Loaders : Filling(t, job[t])
        /\ \A e \in DOMAIN entry \ {Root} : IsContainer(e) => Filled(e)

\* A child put at some place in a list of other children.
IsPut(s, n, c, r) ==
    /\ r \in Seq(Nat)
    /\ \A i \in DOMAIN r : (i \in DOMAIN s /\ r[i] = s[i]) \/ r[i] = c
    /\ \A i, j \in DOMAIN r : r[i] = c /\ r[j] = c => i = j
    /\ n = Len(s) => r = Append(s, c)
Without(s, c) == \A i \in DOMAIN s : s[i] # c

LEMMA PutAtIs ==
    ASSUME NEW s \in Seq(Nat), NEW n \in Nat, NEW c \in Nat, Without(s, c),
           NEW r, r = PutAt(s, n, c)
    PROVE  IsPut(s, n, c, r)
  <1>1. CASE ~ (n <= Len(s))
    BY <1>1 DEF PutAt, IsPut, Without
  <1>2. CASE n <= Len(s)
    <2>1. PICK head : head = SubSeq(s, 1, n)
      OBVIOUS
    <2>2. /\ head \in Seq(Nat) /\ Len(head) = n
          /\ \A i \in 1 .. n : head[i] = s[i]
      <3>1. \A i \in 1 .. n : s[i] \in Nat
        BY <1>2
      <3> QED BY <1>2, <2>1, <3>1, SubSeqProperties
    <2>3. r = Append(head, c)
      <3>1. r = head \o <<c>>
        BY <1>2, <2>1 DEF PutAt
      <3> QED BY <2>2, <3>1
    <2>4. /\ r \in Seq(Nat) /\ Len(r) = n + 1 /\ r[n + 1] = c
          /\ \A i \in 1 .. n : r[i] = s[i]
          /\ DOMAIN r = 1 .. n + 1
      BY <2>2, <2>3
    <2>5. \A i \in 1 .. n : i \in DOMAIN s
      BY <1>2
    <2>6. \A i \in DOMAIN r : i \in 1 .. n \/ i = n + 1
      BY <2>4
    <2>7. n = Len(s) => head = s
      <3>1. ASSUME n = Len(s) PROVE \A i \in 1 .. Len(s) : head[i] = s[i]
        BY <2>2, <3>1
      <3> QED BY <2>2, <3>1, SeqEqual
    <2> QED BY <2>3, <2>4, <2>5, <2>6, <2>7 DEF IsPut, Without
  <1> QED BY <1>1, <1>2

\* The container p with one child more.
Grown(p, n, counted, c) ==
    [entry[p] EXCEPT !.childs = PutAt(@, n, c), !.count = @ + counted]

\* Linking a child to the container p, said entry by entry.
LEMMA ChildAdded ==
    ASSUME Numbered, NEW child, NEW n, NEW counted,
           child.parent \in DOMAIN entry, entry' = WithChild(child, n, counted)
    PROVE  /\ Fresh \in Nat /\ Fresh \notin DOMAIN entry
           /\ child.parent # Fresh /\ Fresh # Root /\ Fresh' = Fresh + 1
           /\ Root \in DOMAIN entry /\ DOMAIN entry = 0 .. Fresh - 1
           /\ DOMAIN entry' = DOMAIN entry \cup {Fresh}
           /\ entry'[Fresh] = child
           /\ entry'[child.parent] = Grown(child.parent, n, counted, Fresh)
           /\ \A e \in DOMAIN entry \ {child.parent} : entry'[e] = entry[e]
  <1> DEFINE p == child.parent
  <1>c. PICK c : c = Fresh
    OBVIOUS
  <1>1. /\ c \in Nat \ {0} /\ DOMAIN entry = 0 .. c - 1
    BY <1>c DEF Numbered
  <1>2. c \notin DOMAIN entry /\ c # Root /\ p # c /\ Root \in DOMAIN entry
    BY <1>1 DEF Root
  <1>4. /\ DOMAIN entry' = DOMAIN entry \cup {c}
        /\ entry'[c] = child
        /\ entry'[p] = Grown(p, n, counted, c)
        /\ \A e \in DOMAIN entry \ {p} : entry'[e] = entry[e]
    <2> HIDE DEF Fresh, PutAt
    <2> QED BY <1>c, <1>2 DEF WithChild, Grown
  <1>5. Fresh' = c + 1
    <2>1. IsFiniteSet(DOMAIN entry)
      BY <1>1, FS_Interval
    <2>2. Cardinality(DOMAIN entry \cup {c}) = Cardinality(DOMAIN entry) + 1
      BY <1>2, <2>1, FS_AddElement
    <2> QED BY <1>c, <1>4, <2>2 DEF Fresh
  <1> QED BY <1>c, <1>1, <1>2, <1>4, <1>5

\* The children of every entry after it.
LEMMA ChildsAdded ==
    ASSUME LibraryTyped, EntriesInv, NEW p \in DOMAIN entry, NEW id, NEW name,
           NEW isDir, NEW n \in Nat, NEW counted, NEW c, c = Fresh,
           entry' = WithChild(NewEntry(id, name, p, isDir), n, counted)
    PROVE  /\ \A e \in DOMAIN entry : Childs(e) \in Seq(Nat)
           /\ Childs(c)' = <<>>
           /\ Childs(p)' = PutAt(Childs(p), n, c)
           /\ Childs(p)' \in Seq(Nat)
           /\ \A i \in DOMAIN Childs(p)' :
                 \/ i \in DOMAIN Childs(p) /\ Childs(p)'[i] = Childs(p)[i]
                 \/ Childs(p)'[i] = c
           /\ \A i, j \in DOMAIN Childs(p)' :
                 Childs(p)'[i] = c /\ Childs(p)'[j] = c => i = j
           /\ n = Len(Childs(p)) => Childs(p)' = Append(Childs(p), c)
           /\ \A e \in DOMAIN entry \ {p} : Childs(e)' = Childs(e)
           /\ \A e \in DOMAIN entry : /\ entry'[e].name = entry[e].name
                                      /\ entry'[e].parent = entry[e].parent
                                      /\ entry'[e].id = entry[e].id
           /\ entry'[c].parent = p /\ entry'[c].name = name
           /\ entry'[c].id = id
  <1>1. \A e \in DOMAIN entry : entry[e] \in EntrySet
    BY DEF LibraryTyped
  <1>2. /\ entry'[c] = NewEntry(id, name, p, isDir) /\ c \notin DOMAIN entry
        /\ c \in Nat
        /\ entry'[p] = Grown(p, n, counted, c)
        /\ \A e \in DOMAIN entry \ {p} : entry'[e] = entry[e]
    <2>1. PICK child : child = NewEntry(id, name, p, isDir)
      OBVIOUS
    <2>2. Numbered /\ child.parent = p
      BY <2>1 DEF EntriesInv, NewEntry
    <2>3. entry' = WithChild(child, n, counted)
      BY <2>1
    <2>4. child.parent \in DOMAIN entry
      BY <2>2
    <2> QED BY ZenonT(80), <2>1, <2>2, <2>3, <2>4, ChildAdded
  <1>3. /\ entry'[c].childs = <<>> /\ entry'[c].parent = p
        /\ entry'[c].name = name /\ entry'[c].id = id
    BY <1>2 DEF NewEntry
  <1>4. /\ entry'[p].childs = PutAt(entry[p].childs, n, c)
        /\ entry'[p].parent = entry[p].parent
        /\ entry'[p].name = entry[p].name /\ entry'[p].id = entry[p].id
    <2> HIDE DEF PutAt
    <2> QED BY <1>1, <1>2 DEF EntrySet, Grown
  <1>5. \A e \in DOMAIN entry : entry[e].childs \in Seq(Nat)
    BY <1>1 DEF EntrySet
  <1>6. PICK s \in Seq(Nat) : s = Childs(p)
    BY <1>5 DEF Childs
  <1>7. \A i \in DOMAIN s : s[i] # c
    BY <1>2, <1>6 DEF EntriesInv, Fathered
  <1>8. PICK r : r = PutAt(s, n, c)
    OBVIOUS
  <1>9. /\ r \in Seq(Nat)
        /\ \A i \in DOMAIN r : (i \in DOMAIN s /\ r[i] = s[i]) \/ r[i] = c
        /\ \A i, j \in DOMAIN r : r[i] = c /\ r[j] = c => i = j
        /\ n = Len(s) => r = Append(s, c)
    <2>1. c \in Nat /\ s \in Seq(Nat) /\ n \in Nat /\ Without(s, c)
      BY <1>2, <1>7 DEF Without
    <2>2. IsPut(s, n, c, r)
      BY <1>8, <2>1, PutAtIs, Zenon
    <2> QED BY <2>2 DEF IsPut
  <1>10. Childs(p)' = r
    BY <1>4, <1>6, <1>8 DEF Childs
  <1>11. \A e \in DOMAIN entry : /\ entry'[e].name = entry[e].name
                                 /\ entry'[e].parent = entry[e].parent
                                 /\ entry'[e].id = entry[e].id
    BY <1>2, <1>4
  <1>12. \A e \in DOMAIN entry \ {p} : Childs(e)' = Childs(e)
    BY <1>2 DEF Childs
  <1> QED BY <1>3, <1>5, <1>6, <1>8, <1>9, <1>10, <1>11, <1>12 DEF Childs

LEMMA EntriesTyped ==
    ASSUME LibraryTyped, EntriesInv, NEW p \in DOMAIN entry, IsContainer(p),
           NEW id \in Int, NEW name \in EntryNames, NEW isDir \in BOOLEAN,
           NEW n \in Nat, NEW counted \in {0, 1}, NEW c, c = Fresh,
           entry' = WithChild(NewEntry(id, name, p, isDir), n, counted)
    PROVE  (\A e \in DOMAIN entry : entry[e] \in EntrySet)'
  <1>1. \A e \in DOMAIN entry : entry[e] \in EntrySet
    BY DEF LibraryTyped
  <1>2. /\ c \in Nat /\ DOMAIN entry' = DOMAIN entry \cup {c}
        /\ DOMAIN entry = 0 .. c - 1
        /\ entry'[c] = NewEntry(id, name, p, isDir)
        /\ entry'[p] = Grown(p, n, counted, c)
        /\ \A e \in DOMAIN entry \ {p} : entry'[e] = entry[e]
    <2>1. PICK child : child = NewEntry(id, name, p, isDir)
      OBVIOUS
    <2>2. Numbered /\ child.parent = p
      BY <2>1 DEF EntriesInv, NewEntry
    <2>3. entry' = WithChild(child, n, counted)
      BY <2>1
    <2>4. child.parent \in DOMAIN entry
      BY <2>2
    <2> QED BY ZenonT(80), <2>1, <2>2, <2>3, <2>4, ChildAdded
  <1>3. p \in Int
    BY <1>2
  <1>4. entry'[c] \in EntrySet
    <2>1. \A count \in Nat \cup {-1} :
             [id |-> id, name |-> name, parent |-> p, childs |-> <<>>,
              count |-> count] \in EntrySet
      BY <1>3 DEF EntrySet
    <2>2. (IF isDir THEN 0 ELSE -1) \in Nat \cup {-1}
      OBVIOUS
    <2> QED BY <1>2, <2>1, <2>2 DEF NewEntry
  <1>5. entry'[p] \in EntrySet
    <2>1. PutAt(entry[p].childs, n, c) \in Seq(Nat)
      <3>1. Childs(p)' \in Seq(Nat) /\ Childs(p)' = PutAt(Childs(p), n, c)
        BY ChildsAdded
      <3> QED BY <3>1 DEF Childs
    <2>2. entry[p].count + counted \in Nat
      BY <1>1 DEF EntrySet, IsContainer
    <2> HIDE DEF PutAt
    <2> QED BY <1>1, <1>2, <2>1, <2>2 DEF EntrySet, Grown
  <1> QED BY <1>1, <1>2, <1>4, <1>5

LEMMA EntriesStep ==
    ASSUME LibraryTyped, EntriesInv, NEW p \in DOMAIN entry, IsContainer(p),
           NEW id \in Int, NEW name, NEW isDir \in BOOLEAN,
           NEW n \in Nat, NEW counted \in {0, 1}, NEW c, c = Fresh,
           entry' = WithChild(NewEntry(id, name, p, isDir), n, counted),
           lookup' \in {lookup, Enter(id)}
    PROVE  /\ EntriesInv'
           /\ \A e \in DOMAIN entry : IsContainer(e)' = IsContainer(e)
           /\ entry'[p].count = entry[p].count + counted
  <1>1. /\ c \in Nat /\ c \notin DOMAIN entry /\ p # c /\ c # Root
        /\ Fresh' = c + 1 /\ Root \in DOMAIN entry
        /\ DOMAIN entry' = DOMAIN entry \cup {c}
        /\ DOMAIN entry = 0 .. c - 1
        /\ entry'[c] = NewEntry(id, name, p, isDir)
        /\ entry'[p] = Grown(p, n, counted, c)
        /\ \A e \in DOMAIN entry \ {p} : entry'[e] = entry[e]
    <2>1. PICK child : child = NewEntry(id, name, p, isDir)
      OBVIOUS
    <2>2. Numbered /\ child.parent = p
      BY <2>1 DEF EntriesInv, NewEntry
    <2>3. entry' = WithChild(child, n, counted)
      BY <2>1
    <2>4. child.parent \in DOMAIN entry
      BY <2>2
    <2> QED BY ZenonT(80), <2>1, <2>2, <2>3, <2>4, ChildAdded
  <1>2. /\ \A e \in DOMAIN entry : Childs(e) \in Seq(Nat)
        /\ Childs(c)' = <<>>
        /\ \A i \in DOMAIN Childs(p)' :
              \/ i \in DOMAIN Childs(p) /\ Childs(p)'[i] = Childs(p)[i]
              \/ Childs(p)'[i] = c
        /\ \A i, j \in DOMAIN Childs(p)' :
              Childs(p)'[i] = c /\ Childs(p)'[j] = c => i = j
        /\ \A e \in DOMAIN entry \ {p} : Childs(e)' = Childs(e)
        /\ \A e \in DOMAIN entry : /\ entry'[e].parent = entry[e].parent
                                   /\ entry'[e].id = entry[e].id
        /\ entry'[c].parent = p /\ entry'[c].id = id
    BY ChildsAdded
  <1>3. \A e \in DOMAIN entry : entry[e] \in EntrySet
    BY DEF LibraryTyped
  <1>6. /\ \A e \in DOMAIN entry : IsContainer(e)' = IsContainer(e)
        /\ IsContainer(p)'
        /\ entry'[p].count = entry[p].count + counted
    <2> HIDE DEF PutAt
    <2>2. /\ entry'[p].count = entry[p].count + counted
          /\ entry[p].count \in Nat
      BY <1>1, <1>3 DEF EntrySet, IsContainer, Grown
    <2>3. IsContainer(p)' /\ IsContainer(p)' = IsContainer(p)
      BY <2>2 DEF IsContainer
    <2>4. \A e \in DOMAIN entry \ {p} : IsContainer(e)' = IsContainer(e)
      BY <1>1 DEF IsContainer
    <2> QED BY <2>2, <2>3, <2>4
  <1>7. Numbered' /\ IsContainer(Root)'
    <2>1. IsContainer(Root)'
      BY <1>1, <1>6 DEF EntriesInv
    <2>2. DOMAIN entry' = 0 .. Fresh' - 1
      BY <1>1
    <2> QED BY <1>1, <2>1, <2>2 DEF Numbered
  <1>8. Parented'
    BY <1>1, <1>2 DEF EntriesInv, Parented
  <1>10. Fathered'
    <2> SUFFICES ASSUME NEW q \in DOMAIN entry', NEW i \in DOMAIN Childs(q)'
                 PROVE  /\ Childs(q)'[i] \in DOMAIN entry' \ {Root}
                        /\ entry'[Childs(q)'[i]].parent = q
      BY DEF Fathered
    <2>1. CASE q = c
      BY <1>2, <2>1
    <2>4. ASSUME q \in DOMAIN entry, i \in DOMAIN Childs(q),
                 Childs(q)'[i] = Childs(q)[i]
          PROVE  /\ Childs(q)'[i] \in DOMAIN entry' \ {Root}
                 /\ entry'[Childs(q)'[i]].parent = q
      <3>1. PICK d \in DOMAIN entry \ {Root} :
               Childs(q)[i] = d /\ entry[d].parent = q
        BY <2>4 DEF EntriesInv, Fathered
      <3> QED BY <1>1, <1>2, <2>4, <3>1
    <2>2. CASE q \in DOMAIN entry \ {p}
      BY <1>2, <2>2, <2>4
    <2>3. CASE q = p
      <3>1. CASE i \in DOMAIN Childs(p) /\ Childs(p)'[i] = Childs(p)[i]
        BY <2>3, <2>4, <3>1
      <3>2. CASE Childs(p)'[i] = c
        BY <1>1, <1>2, <2>3, <3>2
      <3> QED BY <1>2, <2>3, <3>1, <3>2
    <2> QED BY <1>1, <2>1, <2>2, <2>3
  <1>11. Once'
    <2> SUFFICES ASSUME NEW q \in DOMAIN entry', NEW i \in DOMAIN Childs(q)',
                        NEW j \in DOMAIN Childs(q)',
                        Childs(q)'[i] = Childs(q)'[j]
                 PROVE  i = j
      BY DEF Once
    <2>1. CASE q = c
      BY <1>2, <2>1
    <2>2. CASE q \in DOMAIN entry \ {p}
      BY <1>2, <2>2 DEF EntriesInv, Once
    <2>3. CASE q = p
      <3>1. CASE Childs(p)'[i] = c
        BY <1>2, <2>3, <3>1
      <3>2. CASE Childs(p)'[i] # c
        <4>1. /\ i \in DOMAIN Childs(p) /\ Childs(p)'[i] = Childs(p)[i]
              /\ j \in DOMAIN Childs(p) /\ Childs(p)'[j] = Childs(p)[j]
          BY <1>2, <2>3, <3>2
        <4> QED BY <2>3, <4>1 DEF EntriesInv, Once
      <3> QED BY <3>1, <3>2
    <2> QED BY <1>1, <2>1, <2>2, <2>3
  <1>13. Childless'
    <2> SUFFICES ASSUME NEW e \in DOMAIN entry', ~ IsContainer(e)'
                 PROVE  Childs(e)' = <<>>
      BY DEF Childless
    <2>1. CASE e = c
      BY <1>2, <2>1
    <2>2. CASE e \in DOMAIN entry
      <3>1. e # p /\ ~ IsContainer(e)
        BY <1>6, <2>2
      <3> QED BY <1>2, <2>2, <3>1 DEF EntriesInv, Childless
    <2> QED BY <1>1, <2>1, <2>2
  <1>14. Later'
    <2> SUFFICES ASSUME NEW q \in DOMAIN entry', NEW i \in DOMAIN Childs(q)'
                 PROVE  q < Childs(q)'[i]
      BY DEF Later
    <2>1. CASE q = c
      BY <1>2, <2>1
    <2>2. CASE q \in DOMAIN entry \ {p}
      BY <1>2, <2>2 DEF EntriesInv, Later
    <2>3. CASE q = p
      <3>1. p < c
        BY <1>1
      <3> QED BY <1>2, <2>3, <3>1 DEF EntriesInv, Later
    <2> QED BY <1>1, <2>1, <2>2, <2>3
  <1>15. Entered'
    <2>1. \A i \in DOMAIN lookup : /\ lookup[i] \in DOMAIN entry' \ {Root}
                                   /\ entry'[lookup[i]].id = i
      BY <1>1, <1>2 DEF EntriesInv, Entered
    <2>2. CASE lookup' = lookup
      BY <2>1, <2>2 DEF Entered
    <2>3. CASE lookup' = Enter(id)
      <3>1. /\ DOMAIN lookup' = DOMAIN lookup \cup {id}
            /\ \A i \in DOMAIN lookup' :
                  lookup'[i] = IF i \in DOMAIN lookup THEN lookup[i] ELSE c
        BY <2>3 DEF Enter
      <3> QED BY <1>1, <1>2, <2>1, <3>1 DEF Entered
    <2> QED BY <2>2, <2>3
  <1> QED BY <1>6, <1>7, <1>8, <1>10, <1>11, <1>13, <1>14, <1>15 DEF EntriesInv

LEMMA ScannedTyped == ASSUME NEW list \in Lists PROVE Scanned(list) \in Lists
  <1> DEFINE n == IF Len(list) < MaxUrls THEN Len(list) ELSE MaxUrls
  <1>1. MaxUrls \in Nat /\ Len(list) \in Nat
    BY LibraryAssumption DEF Lists
  <1>2. n \in Nat /\ n <= Len(list)
    BY <1>1
  <1>3. \A i \in 1 .. n : list[i] \in Directories \cup Files \cup Strays
    BY <1>1, <1>2 DEF Lists
  <1> HIDE DEF n
  <1>4. SubSeq(list, 1, n) \in Lists
    BY <1>2, <1>3, SubSeqProperties DEF Lists
  <1> QED BY <1>4 DEF Scanned, n

\* What a thread does and what it loads.
LEMMA LoadingIs ==
    \A t \in Loaders : /\ Loading(t) <=> job[t].pc \in LoadPcs
                       /\ Making(t) <=> job[t].pc \in MakePcs
                       /\ Adding(t) <=> job[t].pc \in MakePcs \cup {"add"}
  BY DEF Loading, Adding, Making, LoadPcs, MakePcs

\* The thread t goes on to v; the entries there are stay.
LEMMA JobsStep ==
    ASSUME NEW answers, job \in [Loaders -> JobSet(answers)], JobsPlaced,
           NEW t \in Loaders, NEW v, NEW more, v \in JobSet(answers \cup more),
           job' = [job EXCEPT ![t] = v],
           DOMAIN entry \subseteq DOMAIN entry',
           \A e \in DOMAIN entry : IsContainer(e)' = IsContainer(e),
           v.at \in DOMAIN entry' \cup {None},
           v.pc \in LoadPcs => v.at \in DOMAIN entry' /\ IsContainer(v.at)',
           v.pc = "answer" => v.at \in DOMAIN entry'
    PROVE  /\ \E some : job' \in [Loaders -> JobSet(some)]
           /\ JobsPlaced'
  <1>1. \A u \in Loaders : job[u] \in JobSet(answers \cup more)
    BY DEF JobSet
  <1>2. job' \in [Loaders -> JobSet(answers \cup more)]
    BY <1>1
  <1>3. job'[t] = v /\ \A u \in Loaders \ {t} : job'[u] = job[u]
    OBVIOUS
  <1>4. JobsPlaced'
    <2> SUFFICES ASSUME NEW u \in Loaders
                 PROVE  /\ job'[u].at \in DOMAIN entry' \cup {None}
                        /\ job'[u].pc \in LoadPcs =>
                              /\ job'[u].at \in DOMAIN entry'
                              /\ entry'[job'[u].at].count >= 0
                        /\ job'[u].pc = "answer" => job'[u].at \in DOMAIN entry'
      BY DEF JobsPlaced, Loading, Adding, Making, LoadPcs, IsContainer
    <2>1. CASE u = t
      BY <1>3, <2>1 DEF IsContainer
    <2>2. CASE u # t
      <3>1. /\ job[u].at \in DOMAIN entry \cup {None}
            /\ job[u].pc \in LoadPcs =>
                  job[u].at \in DOMAIN entry /\ entry[job[u].at].count >= 0
            /\ job[u].pc = "answer" => job[u].at \in DOMAIN entry
        BY LoadingIs DEF JobsPlaced, IsContainer
      <3>2. \A e \in DOMAIN entry : entry[e].count >= 0 => entry'[e].count >= 0
        BY DEF IsContainer
      <3> QED BY <1>3, <2>2, <3>1, <3>2
    <2> QED BY <2>1, <2>2
  <1> QED BY <1>2, <1>4

LEMMA Asks ==
    ASSUME NEW answers, NEW v \in JobSet(answers), NEW r \in Requests
    PROVE  LET w == [v EXCEPT !.pc = "find", !.request = r]
           IN  w \in JobSet(answers) /\ w.pc = "find" /\ w.at = v.at
  BY DEF JobSet

\* A thread with no request.
LEMMA IdleTyped ==
    /\ Idle \in JobSet({Refused}) /\ Idle.pc = "idle" /\ Idle.at = None
  <1>1. <<>> \in Lists /\ 0 \in 0 .. Len(Shared) /\ "root" \in EntryNames
    BY LibraryAssumption DEF Lists, EntryNames
  <1> QED BY <1>1 DEF Idle, JobSet, None

LEMMA MoreAnswers ==
    ASSUME NEW a, NEW b, a \subseteq b PROVE JobSet(a) \subseteq JobSet(b)
  BY DEF JobSet

LEMMA LinkInit == LibraryInit => LinkInv
  <1> SUFFICES ASSUME LibraryInit PROVE LinkInv
    OBVIOUS
  <1>1. /\ DOMAIN entry = {Root} /\ nrEntries = 0 /\ DOMAIN lookup = {}
        /\ entry[Root] = [id |-> 0, name |-> "root", parent |-> -1,
                          childs |-> <<>>, count |-> 0]
    BY DEF LibraryInit, NewEntry, None
  <1>2. entry[Root] \in EntrySet
    BY <1>1 DEF EntrySet, EntryNames
  <1>3. EntriesInv
    <2>1. Cardinality(DOMAIN entry) = 1
      BY <1>1, FS_Singleton
    <2>2. Numbered
      BY <1>1, <2>1 DEF Numbered, Fresh, Root
    <2> QED BY <1>1, <2>2 DEF EntriesInv, Parented, Fathered, Once, Later,
       Childless, Entered, Childs, IsContainer
  <1>4. /\ job \in [Loaders -> JobSet({Refused})]
        /\ \A t \in Loaders : /\ job[t].at = IF t = Main THEN Root ELSE None
                              /\ t # Main => job[t].pc = "idle"
    <2>1. Main \in Loaders /\ Root \in Int
      BY DEF Loaders, Root
    <2> DEFINE first == [Idle EXCEPT !.pc = "fetch", !.at = Root]
    <2>2. first \in JobSet({Refused}) /\ first.at = Root
      <3>1. first = [[Idle EXCEPT !.pc = "fetch"] EXCEPT !.at = Root]
        OBVIOUS
      <3>2. [Idle EXCEPT !.pc = "fetch"] \in JobSet({Refused})
        BY IdleTyped DEF JobSet, LoadPcs
      <3>3. ASSUME NEW v \in JobSet({Refused})
            PROVE  LET w == [v EXCEPT !.at = Root]
                   IN  w \in JobSet({Refused}) /\ w.at = Root
        BY <2>1, <3>3 DEF JobSet
      <3> QED BY <3>1, <3>2, <3>3
    <2> HIDE DEF first
    <2>4. job = [t \in Loaders |-> IF t = Main THEN first ELSE Idle]
      BY DEF LibraryInit, first
    <2> QED BY <2>1, <2>2, <2>4, IdleTyped
  <1>5. JobsPlaced
    BY <1>1, <1>4 DEF JobsPlaced, Loading, Adding, Making, IsContainer, Loaders
  <1>6. LibraryTyped
    <2>1. <<>> \in Lists /\ 0 \in 0 .. MaxRequests /\ 0 \in 0 .. MaxFailures
          /\ 0 \in 0 .. MaxRaces
      BY LibraryAssumption DEF Lists
    <2>2. \E answers : job \in [Loaders -> JobSet(answers)]
      BY <1>4
    <2>3. \A e \in DOMAIN entry : entry[e] \in EntrySet
      BY <1>1, <1>2
    <2>4. /\ doc = <<>> /\ cached = {} /\ init = FALSE /\ disturbed = FALSE
          /\ requests = 0 /\ failures = 0 /\ races = 0
      BY DEF LibraryInit
    <2> QED BY <1>1, <2>1, <2>2, <2>3, <2>4 DEF LibraryTyped
  <1> QED BY <1>3, <1>5, <1>6 DEF LinkInv

LEMMA WantedThere ==
    ASSUME Entered, Numbered, NEW r
    PROVE  Wanted(r) \in DOMAIN entry \cup {None}
  BY DEF Wanted, Entered, Numbered, Root

\* An action of t that leaves the entries and the lookups alone.
LEMMA LinkSteady ==
    ASSUME LinkInv, NEW answers, job \in [Loaders -> JobSet(answers)],
           NEW t \in Loaders, NEW v, NEW more, v \in JobSet(answers \cup more),
           job' = [job EXCEPT ![t] = v], UNCHANGED <<entry, lookup>>,
           v.at \in DOMAIN entry \cup {None},
           v.pc \in LoadPcs => v.at \in DOMAIN entry /\ IsContainer(v.at),
           v.pc = "answer" => v.at \in DOMAIN entry,
           nrEntries' \in Nat, races' \in 0 .. MaxRaces,
           doc' \in Lists, cached' \subseteq Directories, init' \in BOOLEAN,
           disturbed' \in BOOLEAN, requests' \in 0 .. MaxRequests,
           failures' \in 0 .. MaxFailures
    PROVE  LinkInv'
  <1>1. JobsPlaced /\ LibraryTyped /\ EntriesInv
    BY DEF LinkInv
  <1>2. /\ DOMAIN entry \subseteq DOMAIN entry'
        /\ \A e \in DOMAIN entry : IsContainer(e)' = IsContainer(e)
        /\ v.at \in DOMAIN entry' \cup {None}
        /\ v.pc \in LoadPcs => v.at \in DOMAIN entry' /\ IsContainer(v.at)'
        /\ v.pc = "answer" => v.at \in DOMAIN entry'
    BY DEF IsContainer
  <1>3. /\ \E some : job' \in [Loaders -> JobSet(some)]
        /\ JobsPlaced'
    BY <1>1, <1>2, JobsStep
  <1>4. LibraryTyped'
    BY <1>1, <1>3 DEF LibraryTyped
  <1>5. EntriesInv'
    BY <1>1 DEF EntriesInv, Numbered, Fresh, Parented, Fathered, Once, Later,
       Childless, Entered, Childs, IsContainer
  <1> QED BY <1>3, <1>4, <1>5 DEF LinkInv

\* A child is put below what t loads, which goes on to v.
LEMMA LinkMore ==
    ASSUME LinkInv, NEW t \in Loaders, Link(t)
    PROVE  LinkInv'
  <1>1. LibraryTyped /\ EntriesInv /\ JobsPlaced
    BY DEF LinkInv
  <1>2. PICK answers : job \in [Loaders -> JobSet(answers)]
    BY <1>1 DEF LibraryTyped
  <1>p. PICK p : p = job[t].at
    OBVIOUS
  <1>n. PICK n : n = job[t].length
    OBVIOUS
  <1>m. PICK name : name = job[t].name
    OBVIOUS
  <1>i. PICK id : id = FirstId + job[t].number
    OBVIOUS
  <1>c. PICK c : c = Fresh
    OBVIOUS
  <1> DEFINE isDir == p = Root \/ name \in Directories
  <1>3. /\ p \in DOMAIN entry /\ IsContainer(p) /\ job[t] \in JobSet(answers)
        /\ n \in Nat /\ name \in EntryNames /\ id \in Int /\ isDir \in BOOLEAN
        /\ c \in Nat /\ p \in Int
    <2>1. job[t] \in JobSet(answers)
      BY <1>2
    <2>2. job[t].pc \in LoadPcs
      BY DEF Link, LoadPcs
    <2>3. p \in DOMAIN entry /\ IsContainer(p)
      BY <1>1, <1>p, <2>2, LoadingIs DEF JobsPlaced
    <2>4. /\ n \in Nat /\ name \in EntryNames /\ job[t].number \in Nat
          /\ p \in Int
      BY <1>p, <1>n, <1>m, <2>1 DEF JobSet
    <2>5. id \in Int
      BY <1>i, <2>4, LibraryAssumption
    <2>6. c \in Nat
      BY <1>1, <1>c DEF EntriesInv, Numbered
    <2> QED BY <2>1, <2>3, <2>4, <2>5, <2>6
  <1>4. PICK counted \in {0, 1} :
           entry' = WithChild(NewEntry(id, name, p, isDir), n, counted)
    BY <1>p, <1>n, <1>m, <1>i DEF Link
  <1>5. lookup' \in {lookup, Enter(id)}
    BY <1>i DEF Link
  <1>6. /\ UNCHANGED <<nrEntries, races, doc, cached, init, requests, failures,
                       disturbed>>
        /\ job' = [job EXCEPT ![t] =
                IF p = Root THEN [ChildDone(t, "scan") EXCEPT !.at = c]
                ELSE ChildDone(t, "add")]
    BY <1>p, <1>c DEF Link
  <1>7. PICK v : v = IF p = Root THEN [ChildDone(t, "scan") EXCEPT !.at = c]
                     ELSE ChildDone(t, "add")
    OBVIOUS
  <1>8. /\ v \in JobSet(answers \cup {})
        /\ v.at = IF p = Root THEN c ELSE p
    <2>1. "root" \in EntryNames /\ "scan" \in LoadPcs /\ "add" \in LoadPcs
      BY DEF EntryNames, LoadPcs
    <2>2. ASSUME NEW pc \in LoadPcs
          PROVE  /\ ChildDone(t, pc) \in JobSet(answers \cup {})
                 /\ ChildDone(t, pc).at = p
      BY <1>3, <1>p, <2>1 DEF JobSet, ChildDone
    <2>3. \A w \in JobSet(answers \cup {}) :
             /\ [w EXCEPT !.at = c] \in JobSet(answers \cup {})
             /\ [w EXCEPT !.at = c].at = c
      BY <1>3 DEF JobSet
    <2> QED BY <1>7, <2>1, <2>2, <2>3
  <1> HIDE DEF isDir
  <1>9. /\ EntriesInv'
        /\ \A e \in DOMAIN entry : IsContainer(e)' = IsContainer(e)
    BY <1>1, <1>3, <1>4, <1>5, <1>c, EntriesStep
  <1>10. (\A e \in DOMAIN entry : entry[e] \in EntrySet)'
    BY <1>1, <1>3, <1>4, <1>c, EntriesTyped
  <1>11. /\ DOMAIN entry' = DOMAIN entry \cup {c}
         /\ entry'[c] = NewEntry(id, name, p, isDir)
    <2>1. PICK child : child = NewEntry(id, name, p, isDir)
      OBVIOUS
    <2>2. Numbered /\ child.parent = p
      BY <1>1, <2>1 DEF EntriesInv, NewEntry
    <2>3. entry' = WithChild(child, n, counted)
      BY <1>4, <2>1
    <2>4. child.parent \in DOMAIN entry
      BY <1>3, <2>2
    <2> QED BY <1>c, <2>1, <2>2, <2>3, <2>4, ChildAdded
  <1>12. v.at \in DOMAIN entry' /\ IsContainer(v.at)'
    <2>1. CASE p = Root
      BY <1>8, <1>11, <2>1 DEF IsContainer, NewEntry, isDir
    <2>2. CASE p # Root
      BY <1>3, <1>8, <1>9, <1>11, <2>2
    <2> QED BY <2>1, <2>2
  <1>13. /\ \E some : job' \in [Loaders -> JobSet(some)]
         /\ JobsPlaced'
    BY <1>1, <1>2, <1>6, <1>7, <1>8, <1>9, <1>11, <1>12, JobsStep
  <1>14. LibraryTyped'
    BY <1>1, <1>6, <1>10, <1>13 DEF LibraryTyped
  <1> QED BY <1>9, <1>13, <1>14 DEF LinkInv

LEMMA ReadCounterTyped ==
    ASSUME NEW t, races \in 0 .. MaxRaces, ReadCounter(t)
    PROVE  races' \in 0 .. MaxRaces
  BY LibraryAssumption DEF ReadCounter

LEMMA LinkStep == LinkInv /\ [LibraryNext]_libraryVars => LinkInv'
  <1> SUFFICES ASSUME LinkInv, [LibraryNext]_libraryVars PROVE LinkInv'
    OBVIOUS
  <1>1. LibraryTyped /\ EntriesInv /\ JobsPlaced
    BY DEF LinkInv
  <1>2. PICK answers : job \in [Loaders -> JobSet(answers)]
    BY <1>1 DEF LibraryTyped
  <1>3. /\ nrEntries \in Nat /\ doc \in Lists /\ cached \subseteq Directories
        /\ init \in BOOLEAN /\ disturbed \in BOOLEAN
        /\ requests \in 0 .. MaxRequests /\ failures \in 0 .. MaxFailures
        /\ races \in 0 .. MaxRaces
    BY <1>1 DEF LibraryTyped
  <1>4. \A t \in Loaders :
           /\ job[t] \in JobSet(answers)
           /\ job[t].at \in DOMAIN entry \cup {None}
           /\ job[t].pc \in LoadPcs =>
                 job[t].at \in DOMAIN entry /\ IsContainer(job[t].at)
           /\ job[t].pc = "answer" => job[t].at \in DOMAIN entry
    BY <1>1, <1>2, LoadingIs DEF JobsPlaced
  <1>5. DOMAIN entry \subseteq Int /\ None \in Int /\ Root \in DOMAIN entry
    BY SMTT(30), <1>1 DEF EntriesInv, Numbered, None, Root
  <1>6. CASE UNCHANGED libraryVars
    BY <1>1, <1>6 DEF LinkInv, LibraryTyped, EntriesInv, JobsPlaced,
       libraryVars, entryVars, Numbered, Fresh, Parented, Fathered, Once, Later,
       Childless, Entered, Childs, IsContainer, Loading, Adding, Making
  <1>7. Main \in Loaders /\ Renderers \subseteq Loaders
    BY DEF Loaders
  <1>8. \A t \in Loaders :
        \A pc \in LoadPcs \cup {"idle", "find", "answer", "reply"} :
           /\ [job[t] EXCEPT !.pc = pc] \in JobSet(answers \cup {})
           /\ [job[t] EXCEPT !.pc = pc].pc = pc
           /\ [job[t] EXCEPT !.pc = pc].at = job[t].at
    BY <1>4 DEF JobSet
  <1>9. ASSUME NEW t \in Loaders, job[t].pc \in LoadPcs,
               NEW pc \in LoadPcs \cup {"answer"}, Goto(t, pc),
               UNCHANGED <<entry, lookup, races, init, requests>>,
               nrEntries' \in Nat, doc' \in Lists,
               cached' \subseteq Directories, disturbed' \in BOOLEAN,
               failures' \in 0 .. MaxFailures
        PROVE  LinkInv'
    <2> DEFINE v == [job[t] EXCEPT !.pc = pc]
    <2>1. v \in JobSet(answers \cup {}) /\ v.pc = pc /\ v.at = job[t].at
      BY <1>8
    <2>2. job' = [job EXCEPT ![t] = v]
      BY <1>9 DEF Goto
    <2> HIDE DEF v
    <2> QED BY <1>2, <1>3, <1>4, <1>9, <2>1, <2>2, LinkSteady
  <1>10. ASSUME NEW t \in Loaders, job[t].pc = "fetch", LoadFails(t),
                UNCHANGED <<entryVars, init, requests>>
         PROVE  LinkInv'
    <2>1. /\ doc' \in Lists /\ failures' \in 0 .. MaxFailures
          /\ cached' \subseteq Directories /\ disturbed' \in BOOLEAN
          /\ Goto(t, IF t = Main THEN "share" ELSE "scan")
      <3>1. <<>> \in Lists
        BY DEF Lists
      <3>2. failures < MaxFailures /\ failures' = failures + 1
        BY <1>10 DEF LoadFails
      <3>3. failures' \in 0 .. MaxFailures
        BY <1>3, <3>2, LibraryAssumption
      <3> QED BY <1>3, <1>10, <3>1, <3>3 DEF LoadFails, Fetched
    <2>2. job[t].pc \in LoadPcs /\ "share" \in LoadPcs /\ "scan" \in LoadPcs
      BY <1>10 DEF LoadPcs
    <2> QED BY <1>3, <1>9, <1>10, <2>1, <2>2 DEF entryVars
  <1>11. CASE FetchUser
    <2>1. CASE Parsed(Main, UserList) /\ UNCHANGED <<cached, disturbed>>
      <3>1. Goto(Main, "share") /\ job[Main].pc \in LoadPcs /\ "share" \in LoadPcs
        BY <1>11, <2>1 DEF Parsed, Fetched, FetchUser, LoadPcs
      <3> QED BY <1>3, <1>7, <1>9, <1>11, <2>1, <3>1, LibraryAssumption
              DEF FetchUser, Parsed, entryVars
    <2> QED BY <1>7, <1>10, <1>11, <2>1 DEF FetchUser
  <1>12. ASSUME NEW t \in Loaders, FetchShared(t) PROVE LinkInv'
    <2>1. job[t].pc \in LoadPcs /\ "scan" \in LoadPcs
      BY <1>12 DEF FetchShared, LoadPcs
    <2> QED BY <1>3, <1>9, <1>12, <2>1 DEF FetchShared, entryVars
  <1>13. ASSUME NEW t \in Loaders, FetchDirectory(t) PROVE LinkInv'
    <2> DEFINE d == entry[job[t].at].name
    <2>1. /\ job[t].pc = "fetch" /\ d \in Directories /\ t # Main
          /\ UNCHANGED <<entryVars, init, requests>>
      BY <1>13 DEF FetchDirectory
    <2>2. ASSUME Parsed(t, Listing[d]), cached' \in {cached, cached \cup {d}},
                 UNCHANGED disturbed
          PROVE  LinkInv'
      <3>1. Listing[d] \in Lists
        BY <2>1, LibraryAssumption
      <3>2. Goto(t, "scan") /\ job[t].pc \in LoadPcs /\ "scan" \in LoadPcs
        BY <2>1, <2>2 DEF Parsed, Fetched, LoadPcs
      <3> HIDE DEF d
      <3> QED BY <1>3, <1>9, <2>1, <2>2, <3>1, <3>2 DEF Parsed, entryVars
    <2> QED BY <1>10, <1>13, <2>1, <2>2 DEF FetchDirectory
  <1>14. ASSUME NEW t \in Loaders, AddDone(t) PROVE LinkInv'
    <2>1. /\ Goto(t, IF t = Main THEN "share" ELSE "answer")
          /\ job[t].pc \in LoadPcs /\ "share" \in LoadPcs
      BY <1>14 DEF AddDone, LoadPcs
    <2> QED BY <1>3, <1>9, <1>14, <2>1 DEF AddDone, entryVars
  <1>15. ASSUME NEW t \in Loaders, AddOne(t) PROVE LinkInv'
    <2>n. PICK name : name = Head(job[t].todo)
      OBVIOUS
    <2>1. /\ job[t].pc = "add" /\ job[t].pc \in LoadPcs
          /\ job[t].todo \in Lists /\ job[t].todo # <<>>
          /\ UNCHANGED <<entry, lookup, nrEntries, doc, cached, init, requests,
                         failures, disturbed>>
      BY <1>4, <1>15 DEF AddOne, JobSet, LoadPcs
    <2>2. /\ Tail(job[t].todo) \in Lists /\ name \in EntryNames
      BY <2>1, <2>n DEF Lists, EntryNames
    <2>3. CASE HasMime(name)
      <3>1. PICK v : v = [job[t] EXCEPT !.pc = "number", !.todo = Tail(@),
                             !.number = nrEntries, !.name = name]
        OBVIOUS
      <3>2. "number" \in LoadPcs
        BY DEF LoadPcs
      <3>3. v \in JobSet(answers \cup {}) /\ v.at = job[t].at
        BY <1>3, <1>4, <2>2, <3>1, <3>2 DEF JobSet
      <3>4. job' = [job EXCEPT ![t] = v] /\ ReadCounter(t)
        BY <1>15, <2>3, <2>n, <3>1 DEF AddOne
      <3> QED BY <1>2, <1>3, <1>4, <2>1, <3>3, <3>4, LinkSteady,
                 ReadCounterTyped
    <2>4. CASE ~ HasMime(name)
      <3>1. PICK v : v = [job[t] EXCEPT !.todo = Tail(@)]
        OBVIOUS
      <3>2. v \in JobSet(answers \cup {}) /\ v.at = job[t].at /\ v.pc = "add"
        BY <1>4, <2>1, <2>2, <3>1 DEF JobSet
      <3>3. job' = [job EXCEPT ![t] = v] /\ UNCHANGED races
        BY <1>15, <2>4, <2>n, <3>1 DEF AddOne
      <3> QED BY <1>2, <1>3, <1>4, <2>1, <3>2, <3>3, LinkSteady
    <2> QED BY <2>3, <2>4
  <1>16. ASSUME NEW t \in Loaders, Scan(t) PROVE LinkInv'
    <2>1. /\ job[t].pc \in LoadPcs /\ Scanned(doc) \in Lists
          /\ UNCHANGED <<doc, cached, init, requests, failures, disturbed>>
          /\ UNCHANGED entryVars
      BY <1>3, <1>16, ScannedTyped DEF Scan, LoadPcs
    <2> DEFINE v == [job[t] EXCEPT !.pc = "add", !.todo = Scanned(doc)]
    <2>2. v \in JobSet(answers \cup {}) /\ v.at = job[t].at /\ v.pc = "add"
      BY <1>4, <2>1 DEF JobSet, LoadPcs
    <2>3. job' = [job EXCEPT ![t] = v]
      BY <1>16 DEF Scan
    <2> HIDE DEF v
    <2> QED BY <1>2, <1>3, <1>4, <2>1, <2>2, <2>3, LinkSteady DEF entryVars
  <1>17. ASSUME NEW t \in Loaders, CountEntry(t) PROVE LinkInv'
    <2>1. /\ job[t].pc \in LoadPcs /\ nrEntries' \in Nat
          /\ UNCHANGED <<entry, lookup, races, doc, cached, init, requests,
                         failures, disturbed>>
      BY <1>4, <1>17 DEF CountEntry, LoadPcs, JobSet
    <2>2. CASE job[t].name \notin Invalid
      <3>1. Goto(t, "length") /\ "length" \in LoadPcs
        BY <1>17, <2>2 DEF CountEntry, LoadPcs
      <3> QED BY <1>3, <1>9, <2>1, <3>1
    <2>3. CASE job[t].name \in Invalid
      <3>1. PICK pc \in {"share", "add"} :
               job' = [job EXCEPT ![t] = ChildDone(t, pc)]
        BY <1>17, <2>3 DEF CountEntry
      <3>2. PICK v : v = ChildDone(t, pc)
        OBVIOUS
      <3>3. "root" \in EntryNames /\ pc \in LoadPcs
        BY DEF EntryNames, LoadPcs
      <3>4. v \in JobSet(answers \cup {}) /\ v.at = job[t].at
            /\ v.pc # "answer"
        BY <1>4, <3>2, <3>3 DEF JobSet, ChildDone
      <3> QED BY <1>2, <1>3, <1>4, <2>1, <3>1, <3>2, <3>4, LinkSteady
    <2> QED BY <2>2, <2>3
  <1>18. ASSUME NEW t \in Loaders, ReadLength(t) PROVE LinkInv'
    <2>1. /\ job[t].pc \in LoadPcs
          /\ UNCHANGED <<doc, cached, init, requests, failures, disturbed>>
          /\ UNCHANGED entryVars
      BY <1>18 DEF ReadLength, LoadPcs
    <2>n. PICK n : n = Len(entry[job[t].at].childs)
      OBVIOUS
    <2>2. n \in Nat
      BY <1>1, <1>4, <2>1, <2>n DEF LibraryTyped, EntrySet
    <2>3. PICK v : v = [job[t] EXCEPT !.pc = "link", !.length = n]
      OBVIOUS
    <2>4. v \in JobSet(answers \cup {}) /\ v.at = job[t].at /\ v.pc = "link"
      BY <1>4, <2>2, <2>3 DEF JobSet, LoadPcs
    <2>5. job' = [job EXCEPT ![t] = v]
      BY <1>18, <2>n, <2>3 DEF ReadLength
    <2> QED BY <1>2, <1>3, <1>4, <2>1, <2>4, <2>5, LinkSteady DEF entryVars
  <1>19. CASE NextShare
    <2>1. /\ job[Main].pc \in LoadPcs /\ job[Main] \in JobSet(answers)
          /\ UNCHANGED <<entry, lookup, nrEntries, doc, cached, requests,
                         failures, disturbed>>
      BY <1>4, <1>7, <1>19 DEF NextShare, LoadPcs
    <2>2. CASE job[Main].share < Len(Shared)
      <3>n. PICK name : name = Shared[job[Main].share + 1]
        OBVIOUS
      <3>1. PICK v : v = [job[Main] EXCEPT !.pc = "number", !.at = Root,
                             !.share = @ + 1, !.number = nrEntries,
                             !.name = name]
        OBVIOUS
      <3>2. job[Main].share \in Nat /\ Len(Shared) \in Nat
        BY <2>1, LibraryAssumption DEF JobSet
      <3>3. name \in EntryNames /\ job[Main].share + 1 \in 0 .. Len(Shared)
            /\ Root \in Int
        BY <2>2, <3>2, <3>n DEF EntryNames, Root
      <3>4. "number" \in LoadPcs
        BY DEF LoadPcs
      <3>5. v \in JobSet(answers \cup {}) /\ v.at = Root /\ v.pc = "number"
        BY <1>3, <2>1, <3>1, <3>3, <3>4 DEF JobSet
      <3>6. /\ job' = [job EXCEPT ![Main] = v] /\ ReadCounter(Main)
            /\ UNCHANGED init
        BY ZenonT(30), <1>19, <2>2, <3>n, <3>1 DEF NextShare
      <3>7. IsContainer(Root)
        BY <1>1 DEF EntriesInv
      <3> QED BY <1>2, <1>3, <1>5, <1>7, <2>1, <3>5, <3>6, <3>7, LinkSteady,
                 ReadCounterTyped
    <2>3. CASE ~ (job[Main].share < Len(Shared))
      <3>1. job' = [job EXCEPT ![Main] = Idle] /\ init' = TRUE /\ UNCHANGED races
        BY <1>19, <2>3 DEF NextShare
      <3>2. Idle \in JobSet(answers \cup {Refused})
        BY IdleTyped, MoreAnswers
      <3>3. Idle.pc \notin LoadPcs /\ Idle.pc # "answer" /\ Idle.at = None
        BY IdleTyped DEF LoadPcs
      <3> QED BY <1>2, <1>3, <1>7, <2>1, <3>1, <3>2, <3>3, LinkSteady
    <2> QED BY <2>2, <2>3
  <1>20. ASSUME NEW t \in Renderers, NewRequest(t) PROVE LinkInv'
    <2>1. PICK r \in Requests :
             job' = [job EXCEPT ![t] = [Idle EXCEPT !.pc = "find",
                                                    !.request = r]]
      BY <1>20 DEF NewRequest
    <2> DEFINE v == [Idle EXCEPT !.pc = "find", !.request = r]
    <2>2. Idle \in JobSet(answers \cup {Refused})
      BY IdleTyped, MoreAnswers
    <2>3. v \in JobSet(answers \cup {Refused}) /\ v.pc = "find" /\ v.at = None
      BY ZenonT(30), <2>2, IdleTyped, Asks
    <2>4. job' = [job EXCEPT ![t] = v]
      BY <2>1
    <2> HIDE DEF v
    <2>5. /\ UNCHANGED entryVars
          /\ UNCHANGED <<doc, cached, init, failures, disturbed>>
          /\ requests < MaxRequests /\ requests' = requests + 1
      BY <1>20 DEF NewRequest
    <2>6. requests' \in 0 .. MaxRequests
      BY <1>3, <2>5, LibraryAssumption
    <2>7. v.pc \notin LoadPcs
      BY <2>3 DEF LoadPcs
    <2> QED BY <1>2, <1>3, <1>7, <2>3, <2>4, <2>5, <2>6, <2>7, LinkSteady
            DEF entryVars
  <1>21. ASSUME NEW t \in Renderers, Find(t) PROVE LinkInv'
    <2> DEFINE r == job[t].request
    <2>1. /\ UNCHANGED entryVars
          /\ UNCHANGED <<doc, cached, init, requests, failures>>
          /\ disturbed' \in BOOLEAN
      BY <1>3, <1>21 DEF Find
    <2>2. PICK e \in {Wanted(r), None} :
            IF TurnedDown(r) \/ e = None
            THEN job' = [job EXCEPT ![t].pc = "reply"]
            ELSE \E pc \in {"fetch", "answer"} :
                    /\ job' = [job EXCEPT ![t].pc = pc, ![t].at = e]
                    /\ pc = "fetch" => MustLoad(e)
      BY ZenonT(30), <1>21 DEF Find
    <2>3. e \in DOMAIN entry \cup {None}
      BY <1>1, <2>2, WantedThere DEF EntriesInv
    <2>4. CASE TurnedDown(r) \/ e = None
      <3> DEFINE v == [job[t] EXCEPT !.pc = "reply"]
      <3>1. job' = [job EXCEPT ![t] = v]
        BY <2>2, <2>4
      <3>2. v \in JobSet(answers \cup {}) /\ v.pc = "reply" /\ v.at = job[t].at
        BY <1>7, <1>8
      <3> HIDE DEF v
      <3>3. v.at \in DOMAIN entry \cup {None} /\ v.pc \notin LoadPcs
        BY <1>4, <1>7, <3>2 DEF LoadPcs
      <3> QED BY <1>2, <1>3, <1>7, <2>1, <3>1, <3>2, <3>3, LinkSteady
              DEF entryVars
    <2>5. CASE ~ (TurnedDown(r) \/ e = None)
      <3>0. e \in DOMAIN entry /\ e \in Int
        BY <1>5, <2>3, <2>5
      <3>1. \E pc \in {"fetch", "answer"} :
               /\ job' = [job EXCEPT ![t].pc = pc, ![t].at = e]
               /\ pc = "fetch" => MustLoad(e)
        BY <2>2, <2>5
      <3>2. PICK pc \in {"fetch", "answer"} :
               /\ job' = [job EXCEPT ![t] = [job[t] EXCEPT !.pc = pc, !.at = e]]
               /\ pc = "fetch" => MustLoad(e)
        BY <3>1
      <3> DEFINE v == [job[t] EXCEPT !.pc = pc, !.at = e]
      <3> HIDE DEF r
      <3>3. v \in JobSet(answers \cup {}) /\ v.pc = pc /\ v.at = e
        BY <1>4, <1>7, <3>0 DEF JobSet, LoadPcs
      <3>4. job' = [job EXCEPT ![t] = v]
        BY <3>2
      <3> HIDE DEF v
      <3>5. v.pc \in LoadPcs => IsContainer(v.at)
        BY <3>2, <3>3 DEF MustLoad, IsContainer, LoadPcs
      <3> QED BY <1>2, <1>3, <1>7, <2>1, <3>0, <3>3, <3>4, <3>5, LinkSteady
              DEF entryVars
    <2> QED BY <2>4, <2>5
  <1>22. ASSUME NEW t \in Renderers, MakeAnswer(t) PROVE LinkInv'
    <2> DEFINE a == Answer(job[t].request, job[t].at)
               v == [job[t] EXCEPT !.answer = a, !.pc = "reply"]
    <2>1. /\ UNCHANGED entryVars
          /\ UNCHANGED <<doc, cached, init, requests, failures, disturbed>>
          /\ job' = [job EXCEPT ![t] = v]
      BY <1>22 DEF MakeAnswer
    <2> HIDE DEF a
    <2>2. v \in JobSet(answers \cup {a}) /\ v.pc = "reply" /\ v.at = job[t].at
      BY <1>4, <1>7 DEF JobSet
    <2> HIDE DEF v
    <2>3. v.at \in DOMAIN entry \cup {None} /\ v.pc \notin LoadPcs
      BY <1>4, <1>7, <2>2 DEF LoadPcs
    <2> QED BY <1>2, <1>3, <1>7, <2>1, <2>2, <2>3, LinkSteady DEF entryVars
  <1>23. ASSUME NEW t \in Renderers, Reply(t) PROVE LinkInv'
    <2>1. /\ UNCHANGED entryVars
          /\ UNCHANGED <<doc, cached, init, requests, failures, disturbed>>
          /\ job' = [job EXCEPT ![t] = Idle]
      BY <1>23 DEF Reply
    <2>2. Idle.pc \notin LoadPcs /\ Idle.pc # "answer" /\ Idle.at = None
      BY IdleTyped DEF LoadPcs
    <2>3. Idle \in JobSet(answers \cup {Refused})
      BY IdleTyped, MoreAnswers
    <2> QED BY <1>2, <1>3, <1>7, <2>1, <2>2, <2>3, LinkSteady DEF entryVars
  <1>24. ASSUME NEW t \in Loaders, Load(t) PROVE LinkInv'
    BY <1>12, <1>13, <1>14, <1>15, <1>16, <1>17, <1>18, <1>24, LinkMore DEF Load
  <1> QED BY <1>6, <1>7, <1>11, <1>19, <1>20, <1>21, <1>22, <1>23, <1>24
          DEF LibraryNext, MainLoad, Serve

LEMMA LinkAlways == LibrarySpec => []LinkInv
  BY LinkInit, LinkStep, PTL DEF LibrarySpec

\* The variables of the library have their types, however many renderers ask
\* and whatever loads run at once: children and parents are entries that
\* exist, and so is every entry that a thread works on.
THEOREM LibraryTypes == LibrarySpec => []LibraryTypeOK
  <1>1. ASSUME LinkInv PROVE LibraryTypeOK
    <2>1. LibraryTyped /\ EntriesInv /\ JobsPlaced
      BY <1>1 DEF LinkInv
    <2>2. \A e \in DOMAIN entry :
             /\ entry[e].childs \in Seq(Nat) /\ entry[e].count >= -1
      BY <2>1 DEF LibraryTyped, EntrySet
    <2>3. Root \in DOMAIN entry
      BY <2>1 DEF EntriesInv, Numbered, Root
    <2>4. ASSUME NEW e \in DOMAIN entry
          PROVE  /\ entry[e].childs \in Seq(DOMAIN entry)
                 /\ entry[e].count >= -1
                 /\ e # Root => entry[e].parent \in DOMAIN entry
      <3>1. \A i \in 1 .. Len(entry[e].childs) :
               entry[e].childs[i] \in DOMAIN entry
        BY <2>1, <2>2 DEF EntriesInv, Fathered, Childs
      <3>2. entry[e].childs \in Seq(DOMAIN entry)
        BY <2>2, <3>1
      <3> QED BY <2>1, <2>2, <3>2 DEF EntriesInv, Parented
    <2>5. \E answers : job \in [Loaders -> JobSet(answers)]
      BY <2>1 DEF LibraryTyped
    <2>6. \A t \in Loaders :
             /\ job[t].pc \in {"idle", "find", "fetch", "share", "scan", "add",
                               "number", "length", "link", "answer", "reply"}
             /\ job[t].todo \in Lists /\ job[t].share \in 0 .. Len(Shared)
             /\ job[t].number \in Nat /\ job[t].length \in Nat
      BY <2>5 DEF JobSet, LoadPcs
    <2>7. \A t \in Loaders : job[t].at \in DOMAIN entry \cup {None}
      BY <2>1 DEF JobsPlaced
    <2>8. \A i \in DOMAIN lookup : lookup[i] \in DOMAIN entry
      BY <2>1 DEF EntriesInv, Entered
    <2> QED BY <2>1, <2>3, <2>4, <2>6, <2>7, <2>8
            DEF LibraryTypeOK, LibraryTyped
  <1> QED BY <1>1, LinkAlways, PTL

\* A step of t that does not make an entry, and changes none.
LEMMA RaceSteady ==
    ASSUME RaceInv, NEW t \in Loaders, NEW v, job' = [job EXCEPT ![t] = v],
           t \in DOMAIN job, v.pc \notin MakePcs, UNCHANGED entryVars
    PROVE  RaceInv'
  <1> SUFFICES ASSUME races = 0
               PROVE  OneMakes' /\ UpToDate' /\ Reachable' /\ Counted'
    BY DEF RaceInv, entryVars
  <1>1. OneMakes /\ UpToDate /\ Reachable /\ Counted
    BY DEF RaceInv
  <1>2. job'[t] = v /\ \A u \in Loaders \ {t} : job'[u] = job[u]
    OBVIOUS
  <1>3. OneMakes'
    BY <1>1, <1>2 DEF OneMakes, Making, MakePcs
  <1>4. UpToDate'
    <2> SUFFICES ASSUME NEW u \in Loaders
                 PROVE  (/\ job[u].pc = "number" => job[u].number = nrEntries
                         /\ job[u].pc \in {"length", "link"} =>
                               /\ nrEntries = job[u].number + 1
                               /\ \A e \in DOMAIN entry \ {Root} :
                                     entry[e].id # FirstId + job[u].number
                         /\ job[u].pc = "link" =>
                               job[u].length = Len(Childs(job[u].at)))'
      BY DEF UpToDate
    <2>1. CASE u = t
      BY <1>2, <2>1 DEF MakePcs
    <2>2. CASE u # t
      BY <1>1, <1>2, <2>2 DEF UpToDate, entryVars, Childs
    <2> QED BY <2>1, <2>2
  <1>5. Reachable' /\ Counted'
    BY <1>1 DEF entryVars, Reachable, Counted, Childs, IsContainer, NextId
  <1> QED BY <1>3, <1>4, <1>5

\* t, which no other thread is at making an entry with, goes on to v.
LEMMA RaceAlone ==
    ASSUME NEW t \in Loaders, NEW v, job' = [job EXCEPT ![t] = v],
           t \in DOMAIN job, \A u \in Loaders \ {t} : ~ Making(u),
           Reachable', Counted',
           v.pc = "number" => v.number = nrEntries',
           v.pc \in {"length", "link"} =>
              /\ nrEntries' = v.number + 1
              /\ \A e \in DOMAIN entry' \ {Root} :
                    entry'[e].id # FirstId + v.number,
           v.pc = "link" => v.length = Len(Childs(v.at)')
    PROVE  RaceInv'
  <1>1. job'[t] = v /\ \A u \in Loaders \ {t} : job'[u] = job[u]
    OBVIOUS
  <1>2. \A u \in Loaders \ {t} : job'[u].pc \notin MakePcs
    BY <1>1 DEF Making, MakePcs
  <1>3. OneMakes'
    BY <1>2 DEF OneMakes, Making, MakePcs
  <1>4. UpToDate'
    <2> SUFFICES ASSUME NEW u \in Loaders
                 PROVE  (/\ job[u].pc = "number" => job[u].number = nrEntries
                         /\ job[u].pc \in {"length", "link"} =>
                               /\ nrEntries = job[u].number + 1
                               /\ \A e \in DOMAIN entry \ {Root} :
                                     entry[e].id # FirstId + job[u].number
                         /\ job[u].pc = "link" =>
                               job[u].length = Len(Childs(job[u].at)))'
      BY DEF UpToDate
    <2>1. CASE u = t
      BY <1>1, <2>1 DEF Childs
    <2>2. CASE u # t
      BY <1>2, <2>2 DEF MakePcs
    <2> QED BY <2>1, <2>2
  <1> QED BY <1>3, <1>4 DEF RaceInv

\* A child is put behind those that are there, counted and entered under an
\* id of its own.
LEMMA RaceLink ==
    ASSUME LinkInv, RaceInv, races = 0, NEW t \in Loaders, Link(t),
           NEW p, p = job[t].at
    PROVE  RaceInv' /\ Childs(p)' = Append(Childs(p), Fresh)
  <1>1. LibraryTyped /\ EntriesInv /\ JobsPlaced /\ Numbered /\ Entered
    BY DEF LinkInv, EntriesInv
  <1>2. PICK answers : job \in [Loaders -> JobSet(answers)]
    BY <1>1 DEF LibraryTyped
  <1>3. OneMakes /\ UpToDate /\ Reachable /\ Counted
    BY DEF RaceInv
  <1>4. job[t].pc = "link" /\ Making(t) /\ Loading(t)
    BY DEF Link, Making, Loading, Adding
  <1>5. /\ \A u \in Loaders \ {t} : ~ Making(u)
        /\ ~ Contended(t)
    BY <1>3, <1>4 DEF OneMakes, Contended, Making
  <1>n. PICK n : n = job[t].length
    OBVIOUS
  <1>i. PICK id : id = FirstId + job[t].number
    OBVIOUS
  <1>c. PICK c : c = Fresh
    OBVIOUS
  <1>m. PICK name : name = job[t].name
    OBVIOUS
  <1>d. PICK isDir : isDir = (p = Root \/ job[t].name \in Directories)
    OBVIOUS
  <1>6. /\ p \in DOMAIN entry /\ IsContainer(p)
        /\ n \in Nat /\ job[t].number \in Nat /\ id \in Int
        /\ n = Len(Childs(p)) /\ isDir \in BOOLEAN
    <2>1. p \in DOMAIN entry /\ IsContainer(p)
      BY <1>1, <1>4 DEF JobsPlaced
    <2>2. n \in Nat /\ job[t].number \in Nat
      BY <1>2, <1>n DEF JobSet
    <2>3. n = Len(Childs(p))
      BY <1>3, <1>4, <1>n DEF UpToDate
    <2> QED BY <1>d, <1>i, <2>1, <2>2, <2>3, LibraryAssumption
  <1>7. /\ nrEntries = job[t].number + 1
        /\ \A e \in DOMAIN entry \ {Root} : entry[e].id # id
    BY <1>3, <1>4, <1>i DEF UpToDate
  <1>8. entry' = WithChild(NewEntry(id, name, p, isDir), n, 1)
    <2>1. PICK counted \in {0, 1} :
             /\ counted = 1 \/ Contended(t)
             /\ entry' = WithChild(NewEntry(id, name, p, isDir), n, counted)
      BY <1>n, <1>i, <1>m, <1>d DEF Link
    <2> QED BY <1>5, <2>1
  <1>9. /\ lookup' = Enter(id)
        /\ UNCHANGED <<nrEntries, races>>
    BY <1>5, <1>i DEF Link
  <1>10. PICK v : /\ job' = [job EXCEPT ![t] = v]
                  /\ v.pc \notin MakePcs
    <2>1. PICK w : w = IF p = Root
                       THEN [ChildDone(t, "scan") EXCEPT !.at = c]
                       ELSE ChildDone(t, "add")
      OBVIOUS
    <2>2. job' = [job EXCEPT ![t] = w]
      BY <1>c, <2>1 DEF Link
    <2>3. w.pc \in {"scan", "add"}
      BY <1>2, <2>1 DEF ChildDone, JobSet
    <2> QED BY <2>2, <2>3 DEF MakePcs
  <1>11. /\ c \in Nat /\ c \notin DOMAIN entry /\ p # c /\ c # Root
         /\ DOMAIN entry' = DOMAIN entry \cup {c}
         /\ entry'[c] = NewEntry(id, name, p, isDir)
    <2>1. PICK child : child = NewEntry(id, name, p, isDir)
      OBVIOUS
    <2>2. child.parent = p
      BY <2>1 DEF NewEntry
    <2>3. entry' = WithChild(child, n, 1)
      BY <1>8, <2>1
    <2>4. child.parent \in DOMAIN entry
      BY <1>6, <2>2
    <2> QED BY ZenonT(80), <1>1, <1>c, <2>1, <2>2, <2>3, <2>4, ChildAdded
  <1>12. /\ \A e \in DOMAIN entry : Childs(e) \in Seq(Nat)
         /\ Childs(c)' = <<>>
         /\ Childs(p)' = Append(Childs(p), c)
         /\ \A e \in DOMAIN entry \ {p} : Childs(e)' = Childs(e)
         /\ \A e \in DOMAIN entry : /\ entry'[e].parent = entry[e].parent
                                    /\ entry'[e].id = entry[e].id
         /\ entry'[c].parent = p /\ entry'[c].id = id
    BY <1>1, <1>6, <1>8, <1>c, ChildsAdded
  <1>13. /\ \A e \in DOMAIN entry : IsContainer(e)' = IsContainer(e)
         /\ entry'[p].count = entry[p].count + 1
    BY <1>1, <1>6, <1>8, <1>9, <1>c, EntriesStep
  <1>14. \A e \in DOMAIN entry \ {p} : entry'[e].count = entry[e].count
    BY <1>8, <1>c, <1>11 DEF WithChild, NewEntry
  <1>15. Counted'
    <2> SUFFICES ASSUME NEW e \in DOMAIN entry'
                 PROVE  entry'[e].count = IF IsContainer(e)'
                                          THEN Len(Childs(e)') ELSE -1
      BY DEF Counted
    <2>1. CASE e = c
      BY <1>11, <1>12, <2>1 DEF IsContainer, NewEntry
    <2>2. CASE e = p
      <3>1. Len(Append(Childs(p), c)) = Len(Childs(p)) + 1
        BY <1>6, <1>12
      <3>2. entry[p].count = Len(Childs(p))
        BY <1>3, <1>6 DEF Counted
      <3> QED BY <1>6, <1>12, <1>13, <2>2, <3>1, <3>2
    <2>3. CASE e \in DOMAIN entry \ {p}
      <3>1. /\ entry'[e].count = entry[e].count /\ Childs(e)' = Childs(e)
            /\ IsContainer(e)' = IsContainer(e)
        BY <1>12, <1>13, <1>14, <2>3
      <3>2. entry[e].count = IF IsContainer(e) THEN Len(Childs(e)) ELSE -1
        BY <1>3, <2>3 DEF Counted
      <3> QED BY <3>1, <3>2
    <2> QED BY <1>11, <2>1, <2>2, <2>3
  <1>16. Reachable'
    <2>0. /\ DOMAIN lookup' = DOMAIN lookup \cup {id}
          /\ \A i \in DOMAIN lookup' :
                lookup'[i] = IF i \in DOMAIN lookup THEN lookup[i] ELSE c
          /\ id \notin DOMAIN lookup
      <3>1. id \notin DOMAIN lookup
        BY <1>1, <1>7 DEF Entered
      <3> QED BY <1>9, <1>c, <3>1 DEF Enter
    <2>1. \A q \in DOMAIN entry : \A i \in DOMAIN Childs(q) :
             i \in DOMAIN Childs(q)' /\ Childs(q)'[i] = Childs(q)[i]
      <3> SUFFICES ASSUME NEW q \in DOMAIN entry, NEW i \in DOMAIN Childs(q)
                   PROVE  i \in DOMAIN Childs(q)' /\ Childs(q)'[i] = Childs(q)[i]
        OBVIOUS
      <3>1. CASE q = p
        <4>1. PICK s \in Seq(Nat) : s = Childs(p)
          BY <1>6, <1>12
        <4>2. /\ i \in DOMAIN Append(s, c)
              /\ Append(s, c)[i] = s[i]
          BY <3>1, <4>1
        <4> QED BY <1>12, <3>1, <4>1, <4>2
      <3>2. CASE q # p
        BY <1>12, <3>2
      <3> QED BY <3>1, <3>2
    <2> SUFFICES ASSUME NEW e \in DOMAIN entry' \ {Root}
                 PROVE  /\ entry'[e].id \in FirstId .. NextId' - 1
                        /\ entry'[e].id \in DOMAIN lookup'
                        /\ lookup'[entry'[e].id] = e
                        /\ \E q : /\ q = entry'[e].parent
                                  /\ \E i \in DOMAIN Childs(q)' :
                                        Childs(q)'[i] = e
      <3>1. Reachable' <=> \A e \in DOMAIN entry' \ {Root} :
                /\ entry'[e].id \in FirstId .. NextId' - 1
                /\ entry'[e].id \in DOMAIN lookup'
                /\ lookup'[entry'[e].id] = e
                /\ \E i \in DOMAIN entry'[entry'[e].parent].childs :
                      entry'[entry'[e].parent].childs[i] = e
        BY DEF Reachable, Childs
      <3> QED BY <3>1 DEF Childs
    <2>2. CASE e = c
      <3>1. id \in FirstId .. NextId' - 1
        BY <1>6, <1>7, <1>9, <1>i, LibraryAssumption DEF NextId
      <3>2. \E i \in DOMAIN Childs(p)' : Childs(p)'[i] = c
        <4>1. PICK s \in Seq(Nat) : s = Childs(p)
          BY <1>6, <1>12
        <4>2. /\ Len(s) + 1 \in DOMAIN Append(s, c)
              /\ Append(s, c)[Len(s) + 1] = c
          BY <4>1
        <4> QED BY <1>12, <4>1, <4>2
      <3> QED BY <1>12, <2>0, <2>2, <3>1, <3>2
    <2>3. CASE e \in DOMAIN entry \ {Root}
      <3>1. PICK q : q = entry[e].parent
        OBVIOUS
      <3>2. /\ entry[e].id \in FirstId .. NextId - 1
            /\ entry[e].id \in DOMAIN lookup /\ lookup[entry[e].id] = e
        BY <1>3, <2>3 DEF Reachable
      <3>3. PICK i \in DOMAIN Childs(q) : Childs(q)[i] = e
        BY <1>3, <2>3, <3>1 DEF Reachable
      <3>4. q \in DOMAIN entry
        BY <1>1, <2>3, <3>1 DEF EntriesInv, Parented
      <3>5. i \in DOMAIN Childs(q)' /\ Childs(q)'[i] = e
        BY <2>1, <3>3, <3>4
      <3>6. NextId' = NextId
        BY <1>9 DEF NextId
      <3>7. entry'[e].id = entry[e].id /\ entry'[e].parent = q
        BY <1>12, <2>3, <3>1
      <3> QED BY <2>0, <3>2, <3>5, <3>6, <3>7
    <2> QED BY <1>11, <2>2, <2>3
  <1>17. RaceInv'
    <2>1. /\ v.pc # "number" /\ v.pc \notin {"length", "link"}
          /\ v.pc # "link" /\ t \in DOMAIN job
      BY <1>2, <1>10 DEF MakePcs
    <2>2. /\ v.pc = "number" => v.number = nrEntries'
          /\ v.pc \in {"length", "link"} =>
                /\ nrEntries' = v.number + 1
                /\ \A e \in DOMAIN entry' \ {Root} :
                      entry'[e].id # FirstId + v.number
          /\ v.pc = "link" => v.length = Len(Childs(v.at)')
      BY <2>1
    <2>3. job' = [job EXCEPT ![t] = v] /\ \A u \in Loaders \ {t} : ~ Making(u)
      BY <1>5, <1>10
    <2> QED BY ZenonT(60), <1>15, <1>16, <2>1, <2>2, <2>3, RaceAlone
  <1> QED BY <1>12, <1>17, <1>c

LEMMA RaceInit == LibraryInit => RaceInv
  <1> SUFFICES ASSUME LibraryInit PROVE RaceInv
    OBVIOUS
  <1>1. /\ DOMAIN entry = {Root}
        /\ entry[Root].childs = <<>> /\ entry[Root].count = 0
        /\ \A t \in Loaders : job[t].pc \in {"fetch", "idle"}
    BY DEF LibraryInit, Loaders, Idle, NewEntry
  <1>2. OneMakes /\ UpToDate
    BY <1>1 DEF OneMakes, UpToDate, Making
  <1>3. Reachable /\ Counted
    BY <1>1 DEF Reachable, Counted, Childs, IsContainer
  <1> QED BY <1>2, <1>3 DEF RaceInv

LEMMA RaceStep ==
    LinkInv /\ RaceInv /\ [LibraryNext]_libraryVars => RaceInv'
  <1> SUFFICES ASSUME LinkInv, RaceInv, [LibraryNext]_libraryVars, races' = 0
               PROVE  RaceInv'
    BY DEF RaceInv
  <1>1. /\ LibraryTyped /\ EntriesInv /\ JobsPlaced
        /\ Main \in Loaders /\ Renderers \subseteq Loaders
    BY DEF LinkInv, Loaders
  <1>2. PICK answers : job \in [Loaders -> JobSet(answers)]
    BY <1>1 DEF LibraryTyped
  <1>3. \A t \in Loaders : job[t] \in JobSet(answers) /\ t \in DOMAIN job
    BY <1>2
  <1>4. CASE UNCHANGED libraryVars
    BY <1>4 DEF RaceInv, OneMakes, UpToDate, Reachable, Counted, Childs,
       IsContainer, NextId, Making, libraryVars, entryVars
  <1>5. ASSUME NEW t \in Loaders, NEW pc, pc \notin MakePcs, Goto(t, pc),
               UNCHANGED entryVars
        PROVE  RaceInv'
    <2>1. PICK v : v = [job[t] EXCEPT !.pc = pc]
      OBVIOUS
    <2>2. v.pc = pc /\ job' = [job EXCEPT ![t] = v]
      BY <1>3, <1>5, <2>1 DEF JobSet, Goto
    <2> QED BY <1>3, <1>5, <2>2, RaceSteady
  <1>6. CASE FetchUser
    <2>1. Fetched(Main) /\ UNCHANGED entryVars
      BY <1>6 DEF FetchUser, Parsed, LoadFails
    <2>2. Goto(Main, "share")
      BY <2>1 DEF Fetched
    <2> QED BY <1>1, <1>5, <2>1, <2>2 DEF MakePcs
  <1>7. ASSUME NEW t \in Loaders, FetchShared(t) \/ FetchDirectory(t)
        PROVE  RaceInv'
    <2>1. Goto(t, "scan") /\ UNCHANGED entryVars
      BY <1>7 DEF FetchShared, FetchDirectory, Parsed, LoadFails, Fetched
    <2> QED BY <1>5, <2>1 DEF MakePcs
  <1>8. ASSUME NEW t \in Loaders, AddDone(t) PROVE RaceInv'
    BY <1>5, <1>8 DEF AddDone, MakePcs
  <1>9. ASSUME NEW t \in Loaders, Scan(t) PROVE RaceInv'
    <2>1. PICK v : v = [job[t] EXCEPT !.pc = "add", !.todo = Scanned(doc)]
      OBVIOUS
    <2>2. v.pc = "add" /\ job' = [job EXCEPT ![t] = v]
      BY <1>3, <1>9, <2>1 DEF JobSet, Scan
    <2> QED BY <1>3, <1>9, <2>2, RaceSteady DEF Scan, MakePcs
  <1>10. ASSUME NEW t \in Loaders, NEW v, job' = [job EXCEPT ![t] = v],
                v.pc = "number", v.number = nrEntries, ReadCounter(t),
                UNCHANGED <<entry, lookup, nrEntries>>
         PROVE  RaceInv'
    <2>0. races \in Nat
      BY <1>1 DEF LibraryTyped
    <2>1. races = 0 /\ \A u \in Loaders \ {t} : ~ Making(u)
      BY <1>10, <2>0 DEF ReadCounter
    <2>2. Reachable' /\ Counted'
      BY <1>10, <2>1 DEF RaceInv, Reachable, Counted, Childs, IsContainer, NextId
    <2> QED BY <1>3, <1>10, <2>1, <2>2, RaceAlone
  <1>11. ASSUME NEW t \in Loaders, AddOne(t) PROVE RaceInv'
    <2>n. PICK name : name = Head(job[t].todo)
      OBVIOUS
    <2>1. UNCHANGED <<entry, lookup, nrEntries>> /\ job[t].pc = "add"
      BY <1>11 DEF AddOne
    <2>2. CASE HasMime(name)
      <3>1. PICK v : v = [job[t] EXCEPT !.pc = "number", !.todo = Tail(@),
                             !.number = nrEntries, !.name = name]
        OBVIOUS
      <3>2. v.pc = "number" /\ v.number = nrEntries
        BY <1>3, <3>1 DEF JobSet
      <3>3. job' = [job EXCEPT ![t] = v] /\ ReadCounter(t)
        BY <1>11, <2>2, <2>n, <3>1 DEF AddOne
      <3> QED BY <1>10, <2>1, <3>2, <3>3
    <2>3. CASE ~ HasMime(name)
      <3>1. PICK v : v = [job[t] EXCEPT !.todo = Tail(@)]
        OBVIOUS
      <3>2. v.pc = "add"
        BY <1>3, <2>1, <3>1 DEF JobSet
      <3>3. job' = [job EXCEPT ![t] = v] /\ UNCHANGED races
        BY <1>11, <2>3, <2>n, <3>1 DEF AddOne
      <3> QED BY <1>3, <2>1, <3>2, <3>3, RaceSteady DEF entryVars, MakePcs
    <2> QED BY <2>2, <2>3
  <1>12. CASE NextShare
    <2>1. UNCHANGED <<entry, lookup, nrEntries>>
      BY <1>12 DEF NextShare
    <2>2. CASE job[Main].share < Len(Shared)
      <3>n. PICK name : name = Shared[job[Main].share + 1]
        OBVIOUS
      <3>1. PICK v : v = [job[Main] EXCEPT !.pc = "number", !.at = Root,
                             !.share = @ + 1, !.number = nrEntries,
                             !.name = name]
        OBVIOUS
      <3>2. v.pc = "number" /\ v.number = nrEntries
        BY <1>1, <1>3, <3>1 DEF JobSet
      <3>3. job' = [job EXCEPT ![Main] = v] /\ ReadCounter(Main)
        BY ZenonT(30), <1>12, <2>2, <3>n, <3>1 DEF NextShare
      <3> QED BY <1>1, <1>10, <2>1, <3>2, <3>3
    <2>3. CASE ~ (job[Main].share < Len(Shared))
      <3>1. job' = [job EXCEPT ![Main] = Idle] /\ UNCHANGED races
        BY <1>12, <2>3 DEF NextShare
      <3> QED BY <1>1, <1>3, <2>1, <3>1, IdleTyped, RaceSteady
              DEF entryVars, MakePcs
    <2> QED BY <2>2, <2>3
  <1>13. ASSUME NEW t \in Loaders, Making(t), races = 0
         PROVE  /\ \A u \in Loaders \ {t} : ~ Making(u)
                /\ UpToDate /\ Reachable /\ Counted
    BY <1>13 DEF RaceInv, OneMakes
  <1>14. ASSUME NEW t \in Loaders, CountEntry(t) PROVE RaceInv'
    <2>1. /\ job[t].pc = "number" /\ Making(t) /\ races = 0
          /\ UNCHANGED <<entry, lookup, races>>
          /\ nrEntries' = job[t].number + 1
      BY <1>14 DEF CountEntry, Making
    <2>2. /\ \A u \in Loaders \ {t} : ~ Making(u)
          /\ job[t].number = nrEntries /\ Reachable /\ Counted
      BY <1>13, <2>1 DEF UpToDate
    <2>3. nrEntries \in Nat /\ NextId' = NextId + 1 /\ NextId \in Int
          /\ NextId = FirstId + job[t].number
      BY <1>1, <2>1, <2>2, LibraryAssumption DEF LibraryTyped, NextId
    <2>4. Reachable'
      <3>1. ASSUME NEW e \in DOMAIN entry \ {Root}
            PROVE  /\ entry[e].id \in FirstId .. NextId' - 1
                   /\ entry[e].id \in DOMAIN lookup /\ lookup[entry[e].id] = e
                   /\ \E i \in DOMAIN Childs(entry[e].parent) :
                         Childs(entry[e].parent)[i] = e
        <4>1. entry[e].id \in FirstId .. NextId - 1
          BY <2>2 DEF Reachable
        <4>2. entry[e].id \in FirstId .. NextId' - 1
          BY <2>3, <4>1, LibraryAssumption
        <4> QED BY <2>2, <4>2 DEF Reachable
      <3> QED BY <2>1, <3>1 DEF Reachable, Childs
    <2>5. Counted'
      BY <2>1, <2>2 DEF Counted, Childs, IsContainer
    <2>6. \A e \in DOMAIN entry' \ {Root} :
             entry'[e].id # FirstId + job[t].number
      <3>1. \A e \in DOMAIN entry \ {Root} : entry[e].id \in FirstId .. NextId - 1
        BY <2>2 DEF Reachable
      <3> QED BY <2>1, <2>3, <3>1, LibraryAssumption
    <2>7. CASE job[t].name \notin Invalid
      <3>1. PICK v : v = [job[t] EXCEPT !.pc = "length"]
        OBVIOUS
      <3>2. v.pc = "length" /\ v.number = job[t].number
        BY <1>3, <3>1 DEF JobSet
      <3>3. job' = [job EXCEPT ![t] = v]
        BY <1>14, <2>7, <3>1 DEF CountEntry, Goto
      <3> QED BY <1>3, <2>1, <2>2, <2>4, <2>5, <2>6, <3>2, <3>3, RaceAlone
    <2>8. CASE job[t].name \in Invalid
      <3>1. PICK pc \in {"share", "add"} :
               job' = [job EXCEPT ![t] = ChildDone(t, pc)]
        BY <1>14, <2>8 DEF CountEntry
      <3>2. PICK v : v = ChildDone(t, pc)
        OBVIOUS
      <3>3. v.pc = pc
        BY <1>3, <3>2 DEF JobSet, ChildDone
      <3> QED BY <1>3, <2>2, <2>4, <2>5, <3>1, <3>2, <3>3, RaceAlone
    <2> QED BY <2>7, <2>8
  <1>15. ASSUME NEW t \in Loaders, ReadLength(t) PROVE RaceInv'
    <2>1. job[t].pc = "length" /\ Making(t) /\ races = 0 /\ UNCHANGED entryVars
      BY <1>15 DEF ReadLength, Making, entryVars
    <2>2. /\ \A u \in Loaders \ {t} : ~ Making(u)
          /\ UpToDate /\ Reachable /\ Counted
      BY <1>13, <2>1
    <2>3. Reachable' /\ Counted'
      BY <2>1, <2>2 DEF entryVars, Reachable, Counted, Childs, IsContainer, NextId
    <2>n. PICK n : n = Len(entry[job[t].at].childs)
      OBVIOUS
    <2>4. PICK v : v = [job[t] EXCEPT !.pc = "link", !.length = n]
      OBVIOUS
    <2>5. /\ v.pc = "link" /\ v.number = job[t].number
          /\ v.length = n /\ v.at = job[t].at
      BY <1>3, <2>4 DEF JobSet
    <2>6. job' = [job EXCEPT ![t] = v]
      BY <1>15, <2>n, <2>4 DEF ReadLength
    <2>7. v.length = Len(Childs(v.at)')
      BY <2>1, <2>n, <2>5 DEF Childs, entryVars
    <2>8. /\ nrEntries' = v.number + 1
          /\ \A e \in DOMAIN entry' \ {Root} :
                entry'[e].id # FirstId + v.number
      BY <2>1, <2>2, <2>5 DEF UpToDate, entryVars
    <2> QED BY <1>3, <2>2, <2>3, <2>5, <2>6, <2>7, <2>8, RaceAlone
  <1>16. ASSUME NEW t \in Loaders, Link(t) PROVE RaceInv'
    BY <1>16, RaceLink DEF Link
  <1>17. ASSUME NEW t \in Renderers, NewRequest(t) PROVE RaceInv'
    <2>1. PICK r \in Requests :
             job' = [job EXCEPT ![t] = [Idle EXCEPT !.pc = "find",
                                                    !.request = r]]
      BY <1>17 DEF NewRequest
    <2>2. PICK v : v = [Idle EXCEPT !.pc = "find", !.request = r]
      OBVIOUS
    <2>3. v.pc = "find"
      BY <2>2, IdleTyped, Asks
    <2> QED BY <1>1, <1>3, <1>17, <2>1, <2>2, <2>3, RaceSteady
            DEF NewRequest, MakePcs
  <1>18. ASSUME NEW t \in Renderers, Find(t) PROVE RaceInv'
    <2>1. \E pc \in {"reply", "fetch", "answer"} : \E e :
             \/ job' = [job EXCEPT ![t].pc = pc]
             \/ job' = [job EXCEPT ![t].pc = pc, ![t].at = e]
      BY ZenonT(30), <1>18 DEF Find
    <2>p. PICK pc \in {"reply", "fetch", "answer"} : \E e :
             \/ job' = [job EXCEPT ![t].pc = pc]
             \/ job' = [job EXCEPT ![t].pc = pc, ![t].at = e]
      BY <2>1
    <2>2. PICK e :
             \/ job' = [job EXCEPT ![t] = [job[t] EXCEPT !.pc = pc]]
             \/ job' = [job EXCEPT ![t] = [job[t] EXCEPT !.pc = pc, !.at = e]]
      BY <2>p
    <2>3. /\ [job[t] EXCEPT !.pc = pc].pc = pc
          /\ [job[t] EXCEPT !.pc = pc, !.at = e].pc = pc
      BY <1>1, <1>3 DEF JobSet
    <2>4. PICK v : v.pc = pc /\ job' = [job EXCEPT ![t] = v]
      BY <2>2, <2>3
    <2> QED BY <1>1, <1>3, <1>18, <2>4, RaceSteady DEF Find, MakePcs
  <1>19. ASSUME NEW t \in Renderers, MakeAnswer(t) PROVE RaceInv'
    <2>1. PICK v : v = [job[t] EXCEPT
                           !.answer = Answer(job[t].request, job[t].at),
                           !.pc = "reply"]
      OBVIOUS
    <2>2. v.pc = "reply"
      BY <1>1, <1>3, <2>1 DEF JobSet
    <2> QED BY <1>1, <1>3, <1>19, <2>1, <2>2, RaceSteady DEF MakeAnswer, MakePcs
  <1>20. ASSUME NEW t \in Renderers, Reply(t) PROVE RaceInv'
    BY <1>1, <1>3, <1>20, IdleTyped, RaceSteady DEF Reply, MakePcs
  <1>21. ASSUME NEW t \in Loaders, Load(t) PROVE RaceInv'
    BY <1>7, <1>8, <1>9, <1>11, <1>14, <1>15, <1>16, <1>21 DEF Load
  <1> QED BY <1>1, <1>4, <1>6, <1>12, <1>17, <1>18, <1>19, <1>20, <1>21
          DEF LibraryNext, MainLoad, Serve

LEMMA RaceAlways == LibrarySpec => [](LinkInv /\ RaceInv)
  <1>1. LibraryInit => LinkInv /\ RaceInv
    BY LinkInit, RaceInit
  <1>2. LinkInv /\ RaceInv /\ [LibraryNext]_libraryVars
           => LinkInv' /\ RaceInv'
    BY LinkStep, RaceStep
  <1> QED BY <1>1, <1>2, PTL DEF LibrarySpec

\* upnp_entry_new, upnp_entry_add_child: whatever loads run at once, a
\* container lists entries made for it, each once, a file none, and an id finds
\* an entry of that id; and as long as no two threads have been at making an
\* entry at once, every entry is listed, counted and found by an id of its own.
THEOREM EntriesWellLinked == LibrarySpec => []WellLinked
  <1>1. ASSUME LinkInv, RaceInv PROVE WellLinked
    <2>1. LibraryTyped /\ EntriesInv
      BY <1>1 DEF LinkInv
    <2>2. ASSUME NEW p \in DOMAIN entry
          PROVE  LET childs == entry[p].childs IN
                 /\ \A i \in DOMAIN childs : entry[childs[i]].parent = p
                 /\ \A i, j \in DOMAIN childs : childs[i] = childs[j] => i = j
                 /\ ~IsContainer(p) => childs = <<>>
      BY <2>1 DEF EntriesInv, Fathered, Once, Childless, Childs
    <2>3. \A id \in DOMAIN lookup : entry[lookup[id]].id = id
      BY <2>1 DEF EntriesInv, Entered
    <2>4. ASSUME races = 0, NEW e \in DOMAIN entry
          PROVE  /\ IsContainer(e) => entry[e].count = Len(entry[e].childs)
                 /\ e # Root =>
                      /\ e \in ToSet(entry[entry[e].parent].childs)
                      /\ entry[e].id \in DOMAIN lookup
                      /\ lookup[entry[e].id] = e
                      /\ entry[e].id \in FirstId..(NextId - 1)
      <3>1. Reachable /\ Counted
        BY <1>1, <2>4 DEF RaceInv
      <3> QED BY <3>1 DEF Reachable, Counted, Childs, ToSet
    <2> QED BY <2>2, <2>3, <2>4 DEF WellLinked
  <1> QED BY <1>1, RaceAlways, PTL

\* What of the first n names is kept.
LEMMA KeptOfType ==
    ASSUME NEW list, NEW n \in Nat
    PROVE  /\ KeptOf(list, n) \subseteq 1 .. n /\ IsFiniteSet(KeptOf(list, n))
           /\ Cardinality(KeptOf(list, n)) \in Nat
  <1>1. KeptOf(list, n) \subseteq 1 .. n
    BY DEF KeptOf
  <1>2. IsFiniteSet(1 .. n)
    BY FS_Interval
  <1> QED BY <1>1, <1>2, FS_Subset, FS_CardinalityType

LEMMA KeptOfNext ==
    ASSUME NEW list, NEW n \in Nat
    PROVE  /\ Kept(list[n + 1]) =>
                /\ KeptOf(list, n + 1) = KeptOf(list, n) \cup {n + 1}
                /\ Cardinality(KeptOf(list, n + 1))
                      = Cardinality(KeptOf(list, n)) + 1
           /\ ~ Kept(list[n + 1]) => KeptOf(list, n + 1) = KeptOf(list, n)
  <1>1. \A i : i \in 1 .. n + 1 <=> i \in 1 .. n \/ i = n + 1
    OBVIOUS
  <1>2. n + 1 \notin 1 .. n
    OBVIOUS
  <1>3. CASE Kept(list[n + 1])
    <2>1. KeptOf(list, n + 1) = KeptOf(list, n) \cup {n + 1}
      BY <1>1, <1>3 DEF KeptOf
    <2>2. n + 1 \notin KeptOf(list, n)
      BY <1>2 DEF KeptOf
    <2> QED BY <1>3, <2>1, <2>2, KeptOfType, FS_AddElement
  <1>4. CASE ~ Kept(list[n + 1])
    BY <1>1, <1>2, <1>4 DEF KeptOf
  <1> QED BY <1>3, <1>4

LEMMA KeptOfBelow ==
    ASSUME NEW list, NEW n \in Nat, NEW i \in KeptOf(list, n)
    PROVE  /\ i \in 1 .. n
           /\ Cardinality(KeptOf(list, i)) \in 1 .. Cardinality(KeptOf(list, n))
  <1>1. i \in 1 .. n /\ Kept(list[i])
    BY DEF KeptOf
  <1>2. i \in KeptOf(list, i) /\ KeptOf(list, i) \subseteq KeptOf(list, n)
    BY <1>1 DEF KeptOf
  <1>3. /\ IsFiniteSet(KeptOf(list, i)) /\ IsFiniteSet(KeptOf(list, n))
        /\ Cardinality(KeptOf(list, i)) \in Nat
        /\ Cardinality(KeptOf(list, n)) \in Nat
    BY <1>1, KeptOfType
  <1>4. Cardinality(KeptOf(list, i)) # 0
    BY <1>2, <1>3, FS_EmptySet
  <1>5. Cardinality(KeptOf(list, i)) <= Cardinality(KeptOf(list, n))
    BY <1>2, <1>3, FS_Subset
  <1> QED BY <1>1, <1>3, <1>4, <1>5

LEMMA SourceTyped == ASSUME NEW e PROVE Source(e) \in Lists
  BY LibraryAssumption, ScannedTyped DEF Source

LEMMA ShowsNothing ==
    ASSUME NEW e, Childs(e) = <<>> PROVE Shows(e, 0)
  <1>1. KeptOf(Source(e), 0) = {} /\ Cardinality({}) = 0
    BY FS_EmptySet DEF KeptOf
  <1> QED BY <1>1 DEF Shows, Childs

\* Names of the entries and the children of e that stay, show what they showed.
LEMMA ShowsStays ==
    ASSUME LibraryTyped, EntriesInv, NEW e \in DOMAIN entry, NEW n \in Nat,
           Shows(e, n), Childs(e)' = Childs(e),
           \A d \in DOMAIN entry : entry'[d].name = entry[d].name
    PROVE  Shows(e, n)' /\ Source(e)' = Source(e)
  <1>1. Source(e)' = Source(e)
    BY DEF Source
  <1>2. PICK list : list = Source(e)
    OBVIOUS
  <1>3. PICK childs : childs = Childs(e)
    OBVIOUS
  <1>4. /\ Len(childs) = Cardinality(KeptOf(list, n))
        /\ \A i \in KeptOf(list, n) :
              entry[childs[Cardinality(KeptOf(list, i))]].name = list[i]
    BY <1>2, <1>3 DEF Shows, Childs
  <1>5. \A k \in 1 .. Len(childs) : childs[k] \in DOMAIN entry
    BY <1>3 DEF EntriesInv, Fathered, LibraryTyped, EntrySet, Childs
  <1>6. \A i \in KeptOf(list, n) :
           entry'[childs[Cardinality(KeptOf(list, i))]].name = list[i]
    BY <1>4, <1>5, KeptOfBelow
  <1>7. list = Source(e)' /\ childs = entry'[e].childs
    BY <1>1, <1>2, <1>3 DEF Childs
  <1> QED BY <1>1, <1>4, <1>6, <1>7 DEF Shows

\* The child made of the next name of the list.
LEMMA ShowsNext ==
    ASSUME LibraryTyped, EntriesInv, NEW e \in DOMAIN entry, NEW n \in Nat,
           NEW c, Shows(e, n), Childs(e)' = Append(Childs(e), c),
           \A d \in DOMAIN entry : entry'[d].name = entry[d].name,
           Kept(Source(e)[n + 1]), entry'[c].name = Source(e)[n + 1]
    PROVE  Shows(e, n + 1)' /\ Source(e)' = Source(e)
  <1>1. Source(e)' = Source(e)
    BY DEF Source
  <1>2. PICK list : list = Source(e)
    OBVIOUS
  <1>3. PICK childs \in Seq(Nat) : childs = Childs(e)
    BY DEF LibraryTyped, EntrySet, Childs
  <1>4. PICK more : more = Append(childs, c)
    OBVIOUS
  <1>5. /\ Len(childs) = Cardinality(KeptOf(list, n))
        /\ \A i \in KeptOf(list, n) :
              entry[childs[Cardinality(KeptOf(list, i))]].name = list[i]
    BY <1>2, <1>3 DEF Shows, Childs
  <1>6. \A k \in 1 .. Len(childs) : childs[k] \in DOMAIN entry
    BY <1>3 DEF EntriesInv, Fathered, Childs
  <1>7. /\ Len(more) = Len(childs) + 1 /\ more[Len(childs) + 1] = c
        /\ \A k \in 1 .. Len(childs) : more[k] = childs[k]
    BY <1>3, <1>4
  <1>8. /\ KeptOf(list, n + 1) = KeptOf(list, n) \cup {n + 1}
        /\ Cardinality(KeptOf(list, n + 1)) = Len(childs) + 1
    BY <1>2, <1>5, KeptOfNext
  <1>9. ASSUME NEW i \in KeptOf(list, n + 1)
        PROVE  entry'[more[Cardinality(KeptOf(list, i))]].name = list[i]
    <2>1. CASE i = n + 1
      BY <1>2, <1>7, <1>8, <2>1
    <2>2. CASE i \in KeptOf(list, n)
      <3>1. Cardinality(KeptOf(list, i)) \in 1 .. Len(childs)
        BY <1>5, <2>2, KeptOfBelow
      <3> QED BY <1>5, <1>6, <1>7, <2>2, <3>1
    <2> QED BY <1>8, <2>1, <2>2
  <1>10. list = Source(e)' /\ more = entry'[e].childs
    BY <1>1, <1>2, <1>3, <1>4 DEF Childs
  <1> QED BY <1>1, <1>7, <1>8, <1>9, <1>10 DEF Shows

\* A stray is passed over.
LEMMA ShowsStray ==
    ASSUME NEW e, NEW n \in Nat, Shows(e, n), ~ Kept(Source(e)[n + 1])
    PROVE  Shows(e, n + 1)
  BY KeptOfNext DEF Shows

\* The only thread that loads goes on to v.
LEMMA OwnAlone ==
    ASSUME NEW t \in Loaders, NEW v, job' = [job EXCEPT ![t] = v],
           t \in DOMAIN job, \A u \in Loaders \ {t} : ~ Loading(u),
           races' = 0, Filling(t, v)',
           \A e \in DOMAIN entry' \ {Root} : IsContainer(e)' =>
              \/ Childs(e)' = <<>> \/ Shows(e, Len(Source(e)))'
              \/ v.pc \in MakePcs \cup {"add"} /\ v.at = e
    PROVE  OwnInv'
  <1>1. job'[t] = v /\ \A u \in Loaders \ {t} : job'[u] = job[u]
    OBVIOUS
  <1>2. \A u \in Loaders \ {t} : job'[u].pc \notin LoadPcs
    BY <1>1, LoadingIs
  <1>3. OneLoads'
    BY <1>2 DEF OneLoads, Loading, Adding, Making, LoadPcs
  <1>4. \A u \in Loaders : Filling(u, job[u])'
    <2> TAKE u \in Loaders
    <2>1. CASE u = t
      BY <1>1, <2>1 DEF Filling
    <2>2. CASE u # t
      BY <1>2, <2>2 DEF Filling, LoadPcs, MakePcs
    <2> QED BY <2>1, <2>2
  <1>5. \A e \in DOMAIN entry' \ {Root} : IsContainer(e)' => Filled(e)'
    BY <1>1 DEF Filled, Adding, Making, MakePcs
  <1> QED BY <1>3, <1>4, <1>5 DEF OwnInv

LEMMA FillingStays ==
    ASSUME UNCHANGED <<entry, doc>>, NEW t, NEW v, Filling(t, v)
    PROVE  Filling(t, v)'
  <1>1. \A e : /\ Childs(e)' = Childs(e) /\ Source(e)' = Source(e)
               /\ \A n : Shows(e, n)' = Shows(e, n)
    BY DEF Childs, Source, Shows
  <1>2. PICK e : e = v.at
    OBVIOUS
  <1>3. Scanned(doc)' = Scanned(doc)
    BY DEF Scanned
  <1>4. PICK list : list = Source(e) /\ list = Source(e)'
    BY <1>1
  <1>5. /\ v.pc = "fetch" /\ t # Main => e # Root /\ Childs(e) = <<>>
        /\ v.pc = "scan" => /\ e # Root /\ Childs(e) = <<>>
                            /\ Scanned(doc) = list
        /\ v.pc \in LoadPcs \ {"fetch"} /\ t = Main => doc = UserList
        /\ v.pc \in MakePcs /\ e = Root => t = Main /\ v.name \notin Directories
        /\ v.pc \in {"length", "link"} => v.name \notin Invalid
        /\ v.pc = "add" => e # Root
    BY <1>2, <1>4 DEF Filling
  <1>6. ASSUME v.pc = "add"
        PROVE  \E n \in 0 .. Len(list) :
                  v.todo = SubSeq(list, n + 1, Len(list)) /\ Shows(e, n)'
    <2>1. \E n \in 0 .. Len(list) :
             v.todo = SubSeq(list, n + 1, Len(list)) /\ Shows(e, n)
      BY <1>2, <1>4, <1>6 DEF Filling
    <2> QED BY <1>1, <2>1
  <1>7. ASSUME v.pc \in MakePcs, e # Root
        PROVE  \E n \in 0 .. Len(list) - 1 :
                  /\ v.todo = SubSeq(list, n + 2, Len(list)) /\ Shows(e, n)'
                  /\ v.name = list[n + 1] /\ HasMime(v.name)
    <2>1. \E n \in 0 .. Len(list) - 1 :
             /\ v.todo = SubSeq(list, n + 2, Len(list)) /\ Shows(e, n)
             /\ v.name = list[n + 1] /\ HasMime(v.name)
      BY <1>2, <1>4, <1>7 DEF Filling
    <2> QED BY <1>1, <2>1
  <1> HIDE DEF Source, Shows, Childs
  <1> QED BY <1>1, <1>2, <1>3, <1>4, <1>5, <1>6, <1>7 DEF Filling

\* A thread that does not load goes on to v, and does not either.
LEMMA OwnAside ==
    ASSUME OwnInv, NEW t \in Loaders, NEW v, job' = [job EXCEPT ![t] = v],
           t \in DOMAIN job, UNCHANGED <<entry, doc, races>>, ~ Loading(t),
           v.pc \notin LoadPcs, ~ disturbed' => ~ disturbed
    PROVE  OwnInv'
  <1> SUFFICES ASSUME ~ disturbed PROVE OwnInv'
    BY DEF OwnInv
  <1>1. job'[t] = v /\ \A u \in Loaders \ {t} : job'[u] = job[u]
    OBVIOUS
  <1>2. OneLoads'
    <2>1. \A u \in Loaders : job'[u].pc \in LoadPcs => job[u].pc \in LoadPcs
      BY <1>1
    <2>2. \A u, w \in Loaders : job[u].pc \in LoadPcs /\ job[w].pc \in LoadPcs
                                   => u = w
      BY LoadingIs DEF OwnInv, OneLoads
    <2>3. \A u, w \in Loaders : job'[u].pc \in LoadPcs /\ job'[w].pc \in LoadPcs
                                   => u = w
      BY <2>1, <2>2
    <2> QED BY <2>3 DEF OneLoads, Loading, Adding, Making, LoadPcs
  <1>3. \A u \in Loaders : Filling(u, job[u])'
    <2> TAKE u \in Loaders
    <2>1. CASE u = t
      BY <1>1, <2>1 DEF Filling, LoadPcs, MakePcs
    <2>2. CASE u # t
      <3>1. PICK w : w = job[u]
        OBVIOUS
      <3>2. Filling(u, w) /\ job'[u] = w
        BY <1>1, <2>2, <3>1 DEF OwnInv
      <3>3. Filling(u, w)'
        BY <3>2, FillingStays
      <3> QED BY <3>2, <3>3 DEF Filling
    <2> QED BY <2>1, <2>2
  <1>4. ASSUME NEW e \in DOMAIN entry' \ {Root}, IsContainer(e)'
        PROVE  Filled(e)'
    <2>1. Filled(e)
      BY <1>4 DEF OwnInv, IsContainer
    <2>2. ASSUME NEW u \in Loaders, Adding(u), job[u].at = e
          PROVE  Adding(u)' /\ job'[u].at = e
      BY <1>1, <2>2 DEF Loading, Adding, Making
    <2> QED BY <2>1, <2>2 DEF Filled, Source, Shows, Childs
  <1> QED BY <1>2, <1>3, <1>4 DEF OwnInv

\* While t loads, and nothing is disturbed, it is alone and every other
\* container is empty or shows the whole of its list.
LEMMA AloneFacts ==
    ASSUME OwnInv, ~ disturbed, NEW t \in Loaders, Loading(t)
    PROVE  /\ \A u \in Loaders \ {t} : ~ Loading(u)
           /\ \A e \in DOMAIN entry \ {Root} : IsContainer(e) =>
                 \/ Childs(e) = <<>> \/ Shows(e, Len(Source(e)))
                 \/ Adding(t) /\ job[t].at = e
           /\ Filling(t, job[t]) /\ races = 0
  <1>1. \A u \in Loaders \ {t} : ~ Loading(u)
    BY DEF OwnInv, OneLoads
  <1>2. \A u \in Loaders \ {t} : ~ Adding(u)
    BY <1>1 DEF Loading
  <1> QED BY <1>1, <1>2 DEF OwnInv, Filled

\* The same of the state after a step that leaves the entries alone.
LEMMA SameEntries ==
    ASSUME UNCHANGED entry, NEW e
    PROVE  /\ Childs(e)' = Childs(e) /\ Source(e)' = Source(e)
           /\ IsContainer(e)' = IsContainer(e)
           /\ Shows(e, Len(Source(e)))' = Shows(e, Len(Source(e)))
           /\ \A n : Shows(e, n)' = Shows(e, n)
  BY DEF Childs, Source, IsContainer, Shows

\* While t loads and adds no children yet, or adds them to e, no step that
\* leaves the entries alone disturbs what is shown.
LEMMA OwnOnward ==
    ASSUME OwnInv, ~ disturbed, UNCHANGED <<entry, races>>,
           NEW t \in Loaders, NEW v, job' = [job EXCEPT ![t] = v],
           t \in DOMAIN job, Loading(t), Filling(t, v)',
           \/ ~ Adding(t) \/ job[t].at = Root
           \/ v.pc \in MakePcs \cup {"add"} /\ v.at = job[t].at
    PROVE  OwnInv'
  <1>1. /\ \A u \in Loaders \ {t} : ~ Loading(u)
        /\ \A e \in DOMAIN entry \ {Root} : IsContainer(e) =>
              \/ Childs(e) = <<>> \/ Shows(e, Len(Source(e)))
              \/ Adding(t) /\ job[t].at = e
        /\ races' = 0
    BY AloneFacts
  <1>2. ASSUME NEW e \in DOMAIN entry' \ {Root}, IsContainer(e)'
        PROVE  \/ Childs(e)' = <<>> \/ Shows(e, Len(Source(e)))'
               \/ v.pc \in MakePcs \cup {"add"} /\ v.at = e
    <2>1. IsContainer(e) /\ e \in DOMAIN entry \ {Root}
      BY <1>2, SameEntries
    <2>2. \/ Childs(e) = <<>> \/ Shows(e, Len(Source(e)))
          \/ Adding(t) /\ job[t].at = e
      BY <1>1, <2>1
    <2>3. CASE Adding(t) /\ job[t].at = e
      BY <1>2, <2>3
    <2> QED BY <2>2, <2>3, SameEntries
  <1> QED BY <1>1, <1>2, OwnAlone

LEMMA OwnInit == LibraryInit => OwnInv
  <1> SUFFICES ASSUME LibraryInit PROVE OwnInv
    OBVIOUS
  <1>1. /\ job[Main].pc = "fetch" /\ DOMAIN entry = {Root} /\ races = 0
        /\ \A t \in Loaders \ {Main} : job[t].pc = "idle"
    BY DEF LibraryInit, Loaders, Idle
  <1>2. OneLoads
    BY <1>1 DEF OneLoads, Loading, Adding, Making
  <1>3. \A t \in Loaders : Filling(t, job[t])
    <2> TAKE t \in Loaders
    <2>1. CASE t = Main
      BY <1>1, <2>1 DEF Filling, MakePcs
    <2>2. CASE t # Main
      BY <1>1, <2>2 DEF Filling, MakePcs, LoadPcs
    <2> QED BY <2>1, <2>2
  <1> QED BY <1>1, <1>2, <1>3 DEF OwnInv

\* The head and the rest of what is left of a list.
LEMMA RestOfList ==
    ASSUME NEW list \in Lists, NEW n \in 0 .. Len(list), NEW todo,
           todo = SubSeq(list, n + 1, Len(list)), todo # <<>>
    PROVE  /\ Len(list) \in Nat /\ n < Len(list)
           /\ Head(todo) = list[n + 1]
           /\ Tail(todo) = SubSeq(list, n + 2, Len(list))
  <1>1. Len(list) \in Nat /\ n \in Nat /\ n < Len(list)
    BY DEF Lists
  <1>2. /\ SubSeq(list, n + 1, Len(list))[1] = list[n + 1]
        /\ Len(SubSeq(list, n + 1, Len(list))) = Len(list) - n
    BY <1>1 DEF Lists
  <1>3. Tail(SubSeq(list, n + 1, Len(list))) = SubSeq(list, n + 2, Len(list))
    BY <1>1 DEF Lists
  <1>4. todo \in Lists
    BY <1>1 DEF Lists
  <1>5. Head(todo) = todo[1]
    BY <1>4 DEF Lists
  <1> QED BY <1>1, <1>2, <1>3, <1>5

\* One round of the second loop.
LEMMA OwnAddOne ==
    ASSUME LinkInv, OwnInv, ~ disturbed, NEW t \in Loaders, AddOne(t)
    PROVE  OwnInv'
  <1>1. LibraryTyped /\ t \in DOMAIN job /\ UNCHANGED <<entry, doc>>
    BY DEF LinkInv, LibraryTyped, AddOne
  <1>2. PICK e : e = job[t].at
    OBVIOUS
  <1>3. job[t].pc = "add" /\ job[t].todo # <<>> /\ Loading(t)
    BY DEF AddOne, Loading, Adding
  <1>4. /\ \A u \in Loaders \ {t} : ~ Loading(u)
        /\ Filling(t, job[t]) /\ races = 0
    BY <1>3, AloneFacts
  <1>5. PICK list \in Lists : list = Source(e)
    BY SourceTyped
  <1>6. PICK n \in 0 .. Len(list) :
           job[t].todo = SubSeq(list, n + 1, Len(list)) /\ Shows(e, n)
    BY <1>2, <1>3, <1>4, <1>5 DEF Filling
  <1>7. e # Root /\ (t = Main => doc = UserList)
    BY <1>2, <1>3, <1>4 DEF Filling, LoadPcs
  <1>8. /\ Len(list) \in Nat /\ n < Len(list) /\ n \in Nat
        /\ Head(job[t].todo) = list[n + 1]
        /\ Tail(job[t].todo) = SubSeq(list, n + 2, Len(list))
    <2>1. PICK todo : todo = job[t].todo
      OBVIOUS
    <2>2. todo = SubSeq(list, n + 1, Len(list)) /\ todo # <<>>
      BY <1>3, <1>6, <2>1
    <2>3. /\ Len(list) \in Nat /\ n < Len(list)
          /\ Head(todo) = list[n + 1]
          /\ Tail(todo) = SubSeq(list, n + 2, Len(list))
      BY <2>2, RestOfList
    <2> QED BY <2>1, <2>3
  <1>9. \E answers : job[t] \in JobSet(answers)
    BY <1>1 DEF LibraryTyped
  <1>10. Source(e)' = list /\ \A k : Shows(e, k)' = Shows(e, k)
    BY <1>1, <1>5, SameEntries
  <1>n. PICK name : name = list[n + 1]
    OBVIOUS
  <1>11. CASE HasMime(name)
    <2>1. PICK v : v = [job[t] EXCEPT !.pc = "number", !.todo = Tail(@),
                           !.number = nrEntries, !.name = name]
      OBVIOUS
    <2>2. /\ v.pc = "number" /\ v.at = e /\ v.name = name
          /\ v.todo = SubSeq(list, n + 2, Len(list))
      BY <1>2, <1>8, <1>9, <2>1 DEF JobSet
    <2>3. job' = [job EXCEPT ![t] = v] /\ ReadCounter(t)
      BY <1>8, <1>n, <1>11, <2>1 DEF AddOne
    <2>4. UNCHANGED races
      BY <1>4, <2>3 DEF ReadCounter, Loading, Adding
    <2>5. n \in 0 .. Len(list) - 1
      BY <1>8
    <2>6. Filling(t, v)'
      BY <1>1, <1>6, <1>7, <1>10, <1>11, <1>n, <2>2, <2>5 DEF Filling, MakePcs
    <2> QED BY <1>1, <1>2, <1>3, <2>2, <2>3, <2>4, <2>6, OwnOnward DEF MakePcs
  <1>12. CASE ~ HasMime(name)
    <2>1. PICK v : v = [job[t] EXCEPT !.todo = Tail(@)]
      OBVIOUS
    <2>2. /\ v.pc = "add" /\ v.at = e
          /\ v.todo = SubSeq(list, n + 2, Len(list))
      BY <1>2, <1>3, <1>8, <1>9, <2>1 DEF JobSet
    <2>3. job' = [job EXCEPT ![t] = v] /\ UNCHANGED races
      BY <1>8, <1>n, <1>12, <2>1 DEF AddOne
    <2>4. Shows(e, n + 1)
      BY <1>5, <1>6, <1>8, <1>n, <1>12, ShowsStray DEF Kept
    <2>5. n + 1 \in 0 .. Len(list) /\ (n + 1) + 1 = n + 2
      BY <1>8
    <2>6. v.todo = SubSeq(list, (n + 1) + 1, Len(list))
      BY <2>2, <2>5
    <2>7. Filling(t, v)'
      BY <1>1, <1>7, <1>10, <2>2, <2>4, <2>5, <2>6 DEF Filling, MakePcs
    <2> QED BY <1>1, <1>2, <1>3, <2>2, <2>3, <2>7, OwnOnward
  <1> QED BY <1>11, <1>12

\* The list of the document becomes what is left to do.
LEMMA OwnScan ==
    ASSUME LinkInv, OwnInv, ~ disturbed, NEW t \in Loaders, Scan(t)
    PROVE  OwnInv'
  <1>1. LibraryTyped /\ t \in DOMAIN job /\ UNCHANGED <<entry, doc, races>>
    BY DEF LinkInv, LibraryTyped, Scan, entryVars
  <1>2. job[t].pc = "scan" /\ Loading(t) /\ ~ Adding(t)
    BY DEF Scan, Loading, Adding, Making
  <1>3. PICK e : e = job[t].at
    OBVIOUS
  <1>4. /\ e # Root /\ Childs(e) = <<>> /\ Scanned(doc) = Source(e)
        /\ t = Main => doc = UserList
    BY <1>2, <1>3, AloneFacts DEF Filling, LoadPcs
  <1>5. PICK list \in Lists : list = Source(e)
    BY SourceTyped
  <1>6. SubSeq(list, 0 + 1, Len(list)) = list /\ 0 \in 0 .. Len(list)
    BY <1>5 DEF Lists
  <1>7. PICK v : v = [job[t] EXCEPT !.pc = "add", !.todo = Scanned(doc)]
    OBVIOUS
  <1>8. \E answers : job[t] \in JobSet(answers)
    BY <1>1 DEF LibraryTyped
  <1>9. v.pc = "add" /\ v.at = e /\ v.todo = list
    BY <1>3, <1>4, <1>5, <1>7, <1>8 DEF JobSet
  <1>10. job' = [job EXCEPT ![t] = v]
    BY <1>7 DEF Scan
  <1>11. Source(e)' = list /\ Shows(e, 0)'
    BY <1>1, <1>4, <1>5, ShowsNothing, SameEntries
  <1>12. Filling(t, v)'
    BY <1>1, <1>4, <1>6, <1>9, <1>11 DEF Filling, MakePcs
  <1> QED BY <1>1, <1>2, <1>10, <1>12, OwnOnward

\* The main thread comes to a shared name.
LEMMA OwnNextShare ==
    ASSUME LinkInv, OwnInv, ~ disturbed, NextShare
    PROVE  OwnInv'
  <1>1. /\ LibraryTyped /\ Main \in Loaders /\ Main \in DOMAIN job
        /\ UNCHANGED <<entry, doc>>
    BY DEF LinkInv, LibraryTyped, NextShare, Loaders
  <1>2. /\ job[Main].pc = "share" /\ Loading(Main) /\ ~ Adding(Main)
    BY DEF NextShare, Loading, Adding, Making
  <1>3. /\ \A u \in Loaders \ {Main} : ~ Loading(u)
        /\ Filling(Main, job[Main]) /\ races = 0
    BY <1>1, <1>2, AloneFacts
  <1>4. doc = UserList
    BY <1>2, <1>3 DEF Filling, LoadPcs
  <1>5. \E answers : job[Main] \in JobSet(answers)
    BY <1>1 DEF LibraryTyped
  <1>6. CASE job[Main].share < Len(Shared)
    <2>n. PICK name : name = Shared[job[Main].share + 1]
      OBVIOUS
    <2>1. PICK v : v = [job[Main] EXCEPT !.pc = "number", !.at = Root,
                           !.share = @ + 1, !.number = nrEntries,
                           !.name = name]
      OBVIOUS
    <2>2. v.pc = "number" /\ v.at = Root /\ v.name = name
      BY <1>5, <2>1 DEF JobSet
    <2>3. job' = [job EXCEPT ![Main] = v] /\ ReadCounter(Main)
      BY ZenonT(30), <1>6, <2>n, <2>1 DEF NextShare
    <2>4. UNCHANGED races
      BY <1>3, <2>3 DEF ReadCounter, Loading, Adding
    <2>5. name \notin Directories
      <3>1. job[Main].share \in Nat
        BY <1>5 DEF JobSet
      <3> QED BY <1>6, <2>n, <3>1, LibraryAssumption
    <2>6. Filling(Main, v)'
      BY <1>1, <1>4, <2>2, <2>5 DEF Filling, MakePcs
    <2> QED BY <1>1, <1>2, <2>3, <2>4, <2>6, OwnOnward
  <1>7. CASE ~ (job[Main].share < Len(Shared))
    <2>1. job' = [job EXCEPT ![Main] = Idle] /\ UNCHANGED races
      BY <1>7 DEF NextShare
    <2>2. Filling(Main, Idle)'
      BY IdleTyped DEF Filling, MakePcs, LoadPcs
    <2> QED BY <1>1, <1>2, <2>1, <2>2, OwnOnward
  <1> QED BY <1>6, <1>7

\* The entry has its number; a name that is not converted is passed over.
LEMMA OwnCountEntry ==
    ASSUME LinkInv, OwnInv, ~ disturbed, NEW t \in Loaders, CountEntry(t)
    PROVE  OwnInv'
  <1>1. LibraryTyped /\ t \in DOMAIN job /\ UNCHANGED <<entry, doc, races>>
    BY DEF LinkInv, LibraryTyped, CountEntry
  <1>2. PICK e : e = job[t].at
    OBVIOUS
  <1>3. job[t].pc = "number" /\ Loading(t)
    BY DEF CountEntry, Loading, Adding, Making
  <1>4. Filling(t, job[t])
    BY <1>3, AloneFacts
  <1>5. PICK list \in Lists : list = Source(e)
    BY SourceTyped
  <1>6. /\ t = Main => doc = UserList
        /\ e = Root => t = Main /\ job[t].name \notin Directories
        /\ e # Root => \E n \in 0 .. Len(list) - 1 :
              /\ job[t].todo = SubSeq(list, n + 2, Len(list)) /\ Shows(e, n)
              /\ job[t].name = list[n + 1] /\ HasMime(job[t].name)
    BY <1>2, <1>3, <1>4, <1>5 DEF Filling, LoadPcs, MakePcs
  <1>7. \E answers : job[t] \in JobSet(answers)
    BY <1>1 DEF LibraryTyped
  <1>8. Source(e)' = list /\ \A k : Shows(e, k)' = Shows(e, k)
    BY <1>1, <1>5, SameEntries
  <1>9. CASE job[t].name \notin Invalid
    <2>1. PICK v : v = [job[t] EXCEPT !.pc = "length"]
      OBVIOUS
    <2>2. /\ v.pc = "length" /\ v.at = e /\ v.name = job[t].name
          /\ v.todo = job[t].todo
      BY <1>2, <1>7, <2>1 DEF JobSet
    <2>3. job' = [job EXCEPT ![t] = v]
      BY <1>9, <2>1 DEF CountEntry, Goto
    <2>4. Filling(t, v)'
      <3>1. e # Root => \E n \in 0 .. Len(list) - 1 :
              /\ v.todo = SubSeq(list, n + 2, Len(list)) /\ Shows(e, n)'
              /\ v.name = list[n + 1] /\ HasMime(v.name)
        BY <1>6, <1>8, <2>2
      <3> QED BY <1>1, <1>6, <1>8, <1>9, <2>2, <3>1 DEF Filling, MakePcs
    <2> QED BY <1>1, <1>2, <1>3, <2>2, <2>3, <2>4, OwnOnward DEF MakePcs
  <1>10. CASE job[t].name \in Invalid
    <2>p. PICK pc : pc = IF e = Root THEN "share" ELSE "add"
      OBVIOUS
    <2>1. PICK v : v = ChildDone(t, pc)
      OBVIOUS
    <2>2. v.pc = pc /\ v.at = e /\ v.todo = job[t].todo
      BY <1>2, <1>7, <2>1 DEF JobSet, ChildDone
    <2>3. job' = [job EXCEPT ![t] = v]
      BY <1>2, <1>10, <2>p, <2>1 DEF CountEntry
    <2>4. CASE e = Root
      <3>1. Filling(t, v)'
        BY <1>1, <1>6, <2>p, <2>2, <2>4 DEF Filling, MakePcs
      <3> QED BY <1>1, <1>2, <1>3, <2>3, <2>4, <3>1, OwnOnward
    <2>5. CASE e # Root
      <3>1. PICK n \in 0 .. Len(list) - 1 :
               /\ job[t].todo = SubSeq(list, n + 2, Len(list)) /\ Shows(e, n)
               /\ job[t].name = list[n + 1]
        BY <1>6, <2>5
      <3>2. Len(list) \in Nat
        BY <1>5 DEF Lists
      <3>3. /\ n \in Nat /\ n + 1 \in 0 .. Len(list) /\ (n + 1) + 1 = n + 2
        BY <3>2
      <3>4. Shows(e, n + 1)
        BY <1>5, <1>10, <3>1, <3>3, ShowsStray DEF Kept
      <3>5. v.todo = SubSeq(list, (n + 1) + 1, Len(list)) /\ Shows(e, n + 1)'
        BY <1>8, <2>2, <3>1, <3>3, <3>4
      <3>6. Filling(t, v)'
        BY <1>1, <1>6, <1>8, <2>p, <2>2, <2>5, <3>3, <3>5 DEF Filling, MakePcs
      <3> QED BY <1>1, <1>2, <1>3, <2>p, <2>2, <2>3, <2>5, <3>6, OwnOnward
    <2> QED BY <2>4, <2>5
  <1> QED BY <1>9, <1>10

LEMMA OwnReadLength ==
    ASSUME LinkInv, OwnInv, ~ disturbed, NEW t \in Loaders, ReadLength(t)
    PROVE  OwnInv'
  <1>1. LibraryTyped /\ t \in DOMAIN job /\ UNCHANGED <<entry, doc, races>>
    BY DEF LinkInv, LibraryTyped, ReadLength, entryVars
  <1>2. PICK e : e = job[t].at
    OBVIOUS
  <1>3. job[t].pc = "length" /\ Loading(t)
    BY DEF ReadLength, Loading, Adding, Making
  <1>4. Filling(t, job[t])
    BY <1>3, AloneFacts
  <1>5. PICK list \in Lists : list = Source(e)
    BY SourceTyped
  <1>6. /\ t = Main => doc = UserList
        /\ e = Root => t = Main /\ job[t].name \notin Directories
        /\ e # Root => \E n \in 0 .. Len(list) - 1 :
              /\ job[t].todo = SubSeq(list, n + 2, Len(list)) /\ Shows(e, n)
              /\ job[t].name = list[n + 1] /\ HasMime(job[t].name)
        /\ job[t].name \notin Invalid
    BY <1>2, <1>3, <1>4, <1>5 DEF Filling, LoadPcs, MakePcs
  <1>7. \E answers : job[t] \in JobSet(answers)
    BY <1>1 DEF LibraryTyped
  <1>8. Source(e)' = list /\ \A k : Shows(e, k)' = Shows(e, k)
    BY <1>1, <1>5, SameEntries
  <1>n. PICK n : n = Len(entry[job[t].at].childs)
    OBVIOUS
  <1>9. PICK v : v = [job[t] EXCEPT !.pc = "link", !.length = n]
    OBVIOUS
  <1>10. /\ v.pc = "link" /\ v.at = e /\ v.name = job[t].name
         /\ v.todo = job[t].todo
    BY <1>2, <1>7, <1>9 DEF JobSet
  <1>11. job' = [job EXCEPT ![t] = v]
    BY <1>n, <1>9 DEF ReadLength
  <1>12. Filling(t, v)'
    <2>1. e # Root => \E k \in 0 .. Len(list) - 1 :
            /\ v.todo = SubSeq(list, k + 2, Len(list)) /\ Shows(e, k)'
            /\ v.name = list[k + 1] /\ HasMime(v.name)
      BY <1>6, <1>8, <1>10
    <2> QED BY <1>1, <1>6, <1>8, <1>10, <2>1 DEF Filling, MakePcs
  <1> QED BY <1>1, <1>2, <1>3, <1>10, <1>11, <1>12, OwnOnward DEF MakePcs

\* The next child is put behind those of the names before it.
LEMMA OwnLink ==
    ASSUME LinkInv, RaceInv, OwnInv, ~ disturbed, NEW t \in Loaders, Link(t)
    PROVE  OwnInv'
  <1>1. LibraryTyped /\ EntriesInv /\ JobsPlaced /\ t \in DOMAIN job
    BY DEF LinkInv, LibraryTyped
  <1>2. PICK answers : job \in [Loaders -> JobSet(answers)]
    BY <1>1 DEF LibraryTyped
  <1>3. job[t].pc = "link" /\ Loading(t) /\ Adding(t)
    BY DEF Link, Loading, Adding, Making
  <1>e. PICK e : e = job[t].at
    OBVIOUS
  <1>n. PICK n : n = job[t].length
    OBVIOUS
  <1>i. PICK id : id = FirstId + job[t].number
    OBVIOUS
  <1>c. PICK c : c = Fresh
    OBVIOUS
  <1>m. PICK name : name = job[t].name
    OBVIOUS
  <1>d. PICK isDir : isDir = (e = Root \/ job[t].name \in Directories)
    OBVIOUS
  <1>4. /\ \A u \in Loaders \ {t} : ~ Loading(u)
        /\ \A d \in DOMAIN entry \ {Root} : IsContainer(d) =>
              \/ Childs(d) = <<>> \/ Shows(d, Len(Source(d))) \/ d = e
        /\ Filling(t, job[t]) /\ races = 0
    BY <1>3, <1>e, AloneFacts
  <1>5. /\ e \in DOMAIN entry /\ IsContainer(e) /\ n \in Nat /\ id \in Int
        /\ isDir \in BOOLEAN
    <2>1. e \in DOMAIN entry /\ IsContainer(e)
      BY <1>1, <1>3, <1>e DEF JobsPlaced
    <2>2. n \in Nat /\ job[t].number \in Nat
      BY <1>2, <1>n DEF JobSet
    <2> QED BY <1>d, <1>i, <2>1, <2>2, LibraryAssumption
  <1>6. PICK counted \in {0, 1} :
           entry' = WithChild(NewEntry(id, name, e, isDir), n, counted)
    BY <1>e, <1>n, <1>i, <1>m, <1>d DEF Link
  <1>7. lookup' \in {lookup, Enter(id)} /\ UNCHANGED <<doc, races>>
    BY <1>i DEF Link
  <1>8. Childs(e)' = Append(Childs(e), c)
    BY <1>4, <1>e, <1>c, RaceLink
  <1>9. /\ Childs(c)' = <<>>
        /\ \A d \in DOMAIN entry \ {e} : Childs(d)' = Childs(d)
        /\ \A d \in DOMAIN entry : entry'[d].name = entry[d].name
        /\ entry'[c].name = name
    BY <1>1, <1>5, <1>6, <1>c, ChildsAdded
  <1>10. \A d \in DOMAIN entry : IsContainer(d)' = IsContainer(d)
    BY <1>1, <1>5, <1>6, <1>7, <1>c, EntriesStep
  <1>11. c # Root /\ DOMAIN entry' = DOMAIN entry \cup {c}
    <2>1. PICK child : child = NewEntry(id, name, e, isDir)
      OBVIOUS
    <2>2. child.parent = e /\ Numbered
      BY <1>1, <2>1 DEF NewEntry, EntriesInv
    <2>3. entry' = WithChild(child, n, counted)
      BY <1>6, <2>1
    <2>4. child.parent \in DOMAIN entry
      BY <1>5, <2>2
    <2> QED BY ZenonT(80), <1>c, <2>2, <2>3, <2>4, ChildAdded
  <1>12. ASSUME NEW d \in DOMAIN entry' \ {Root}, IsContainer(d)'
         PROVE  \/ Childs(d)' = <<>> \/ Shows(d, Len(Source(d)))' \/ d = e
    <2>1. CASE d = c
      BY <1>9, <2>1
    <2>2. CASE d \in DOMAIN entry \ {e}
      <3>1. Childs(d)' = Childs(d) /\ IsContainer(d)
        BY <1>9, <1>10, <1>12, <2>2
      <3>2. CASE Shows(d, Len(Source(d)))
        <4>1. PICK k \in Nat : k = Len(Source(d))
          BY SourceTyped DEF Lists
        <4>2. Shows(d, k)' /\ Source(d)' = Source(d)
          BY <1>1, <1>9, <2>2, <3>1, <3>2, <4>1, ShowsStays
        <4>3. k = Len(Source(d))'
          BY <4>1, <4>2
        <4> QED BY <4>2, <4>3 DEF Shows
      <3> QED BY <1>4, <1>12, <2>2, <3>1, <3>2
    <2> QED BY <1>11, <2>1, <2>2
  <1>13. CASE e = Root
    <2>1. t = Main /\ name \notin Directories /\ doc = UserList
      BY <1>3, <1>4, <1>13, <1>e, <1>m DEF Filling, MakePcs, LoadPcs
    <2>2. PICK v : v = [ChildDone(t, "scan") EXCEPT !.at = c]
      OBVIOUS
    <2>3. v.pc = "scan" /\ v.at = c
      BY <1>2, <2>2 DEF ChildDone, JobSet
    <2>4. job' = [job EXCEPT ![t] = v]
      BY <1>13, <1>e, <1>c, <2>2 DEF Link
    <2>5. Source(c)' = Scanned(UserList)
      BY <1>9, <2>1 DEF Source
    <2>6. Scanned(doc)' = Source(c)'
      BY <1>7, <2>1, <2>5
    <2>7. Filling(t, v)'
      BY <1>7, <1>9, <1>11, <2>1, <2>3, <2>6 DEF Filling, MakePcs
    <2> QED BY <1>1, <1>4, <1>7, <1>12, <1>13, <2>4, <2>7, OwnAlone
  <1>14. CASE e # Root
    <2>1. PICK list \in Lists : list = Source(e)
      BY SourceTyped
    <2>2. PICK k \in 0 .. Len(list) - 1 :
             /\ job[t].todo = SubSeq(list, k + 2, Len(list)) /\ Shows(e, k)
             /\ name = list[k + 1] /\ HasMime(name)
      BY <1>3, <1>4, <1>14, <1>e, <1>m, <2>1 DEF Filling, MakePcs
    <2>3. name \notin Invalid /\ (t = Main => doc = UserList)
      BY <1>3, <1>4, <1>m DEF Filling, LoadPcs
    <2>4. Len(list) \in Nat
      BY <2>1 DEF Lists
    <2>5. k \in Nat /\ k + 1 \in 0 .. Len(list) /\ (k + 1) + 1 = k + 2
      BY <2>4
    <2>6. Shows(e, k + 1)' /\ Source(e)' = list
      BY <1>1, <1>5, <1>8, <1>9, <2>1, <2>2, <2>3, <2>5, ShowsNext DEF Kept
    <2>7. PICK v : v = ChildDone(t, "add")
      OBVIOUS
    <2>8. v.pc = "add" /\ v.at = e /\ v.todo = job[t].todo
      BY <1>2, <1>e, <2>7 DEF ChildDone, JobSet
    <2>9. job' = [job EXCEPT ![t] = v]
      BY <1>14, <1>e, <2>7 DEF Link
    <2>10. v.todo = SubSeq(list, (k + 1) + 1, Len(list))
      BY <2>2, <2>5, <2>8
    <2>11. Filling(t, v)'
      BY <1>7, <1>14, <2>3, <2>5, <2>6, <2>8, <2>10 DEF Filling, MakePcs
    <2> QED BY <1>1, <1>4, <1>7, <1>12, <2>8, <2>9, <2>11, OwnAlone
  <1> QED BY <1>13, <1>14

LEMMA OwnStep ==
    LinkInv /\ RaceInv /\ OwnInv /\ [LibraryNext]_libraryVars => OwnInv'
  <1> SUFFICES ASSUME LinkInv, RaceInv, OwnInv, [LibraryNext]_libraryVars,
                      ~ disturbed'
               PROVE  OwnInv'
    BY DEF OwnInv
  <1>1. /\ LibraryTyped /\ EntriesInv /\ JobsPlaced
        /\ Main \in Loaders /\ Renderers \subseteq Loaders
    BY DEF LinkInv, Loaders
  <1>2. PICK answers : job \in [Loaders -> JobSet(answers)]
    BY <1>1 DEF LibraryTyped
  <1>3. \A t \in Loaders : job[t] \in JobSet(answers) /\ t \in DOMAIN job
    BY <1>2
  <1>4. CASE UNCHANGED libraryVars
    <2>1. UNCHANGED <<entry, doc, job, disturbed, races>> /\ ~ disturbed
      BY <1>4 DEF libraryVars, entryVars
    <2>2. OneLoads'
      BY <2>1 DEF OwnInv, OneLoads, Loading, Adding, Making
    <2>3. ASSUME NEW t \in Loaders PROVE Filling(t, job[t])'
      <3>1. PICK w : w = job[t]
        OBVIOUS
      <3>2. Filling(t, w)'
        BY <2>1, <3>1, FillingStays DEF OwnInv
      <3> QED BY <2>1, <3>1, <3>2 DEF Filling
    <2>4. \A e \in DOMAIN entry' \ {Root} : IsContainer(e)' => Filled(e)'
      BY <2>1 DEF OwnInv, Filled, Shows, Source, Childs, IsContainer, Adding,
         Making
    <2> QED BY <2>1, <2>2, <2>3, <2>4 DEF OwnInv
  <1>5. ASSUME NEW t \in Loaders, job[t].pc = "fetch", ~ disturbed,
               Fetched(t), UNCHANGED <<entry, races>>,
               t = Main => doc' = UserList,
               t # Main => Scanned(doc') = Source(job[t].at)
        PROVE  OwnInv'
    <2>e. PICK e : e = job[t].at
      OBVIOUS
    <2>p. PICK pc : pc = IF t = Main THEN "share" ELSE "scan"
      OBVIOUS
    <2>1. PICK v : v = [job[t] EXCEPT !.pc = pc]
      OBVIOUS
    <2>2. v.pc = pc /\ v.at = e /\ job' = [job EXCEPT ![t] = v]
      BY <1>3, <1>5, <2>e, <2>p, <2>1 DEF Fetched, Goto, JobSet
    <2>3. Loading(t) /\ ~ Adding(t)
      BY <1>5 DEF Loading, Adding, Making
    <2>4. Filling(t, job[t])
      BY <1>5, <2>3, AloneFacts
    <2>5. Filling(t, v)'
      <3>1. t # Main =>
               e # Root /\ Childs(e)' = <<>> /\ Scanned(doc)' = Source(e)'
        BY <1>5, <2>e, <2>4, SameEntries DEF Filling, Scanned
      <3> QED BY <1>5, <2>p, <2>2, <3>1 DEF Filling, MakePcs
    <2> QED BY <1>3, <1>5, <2>2, <2>3, <2>5, OwnOnward
  <1>6. CASE FetchUser
    <2>1. /\ job[Main].pc = "fetch" /\ UNCHANGED entryVars
          /\ Parsed(Main, UserList) /\ ~ disturbed
      BY <1>6 DEF FetchUser, LoadFails
    <2> QED BY <1>1, <1>5, <2>1 DEF Parsed, entryVars
  <1>7. ASSUME NEW t \in Loaders, FetchDirectory(t) PROVE OwnInv'
    <2>1. PICK d \in Directories : /\ d = entry[job[t].at].name
                                   /\ Parsed(t, Listing[d]) /\ ~ disturbed
      BY <1>7 DEF FetchDirectory, LoadFails
    <2>2. job[t].pc = "fetch" /\ t # Main /\ UNCHANGED entryVars
      BY <1>7 DEF FetchDirectory
    <2>3. Scanned(doc') = Source(job[t].at)
      BY <2>1 DEF Parsed, Source
    <2> QED BY <1>5, <2>1, <2>2, <2>3 DEF Parsed, entryVars
  <1>8. ASSUME NEW t \in Loaders, FetchShared(t) PROVE OwnInv'
    BY <1>8 DEF FetchShared
  <1>9. ASSUME NEW t \in Loaders, AddDone(t) PROVE OwnInv'
    <2>1. /\ job[t].pc = "add" /\ job[t].todo = <<>> /\ ~ disturbed
          /\ UNCHANGED <<entry, doc, races>>
      BY <1>9 DEF AddDone, entryVars
    <2>2. PICK e : e = job[t].at
      OBVIOUS
    <2>3. /\ \A u \in Loaders \ {t} : ~ Loading(u)
          /\ \A d \in DOMAIN entry \ {Root} : IsContainer(d) =>
                \/ Childs(d) = <<>> \/ Shows(d, Len(Source(d))) \/ d = e
          /\ Filling(t, job[t]) /\ races = 0
      BY <2>1, <2>2, AloneFacts DEF Loading, Adding
    <2>4. Shows(e, Len(Source(e)))
      <3>1. PICK list \in Lists : list = Source(e)
        BY SourceTyped
      <3>2. PICK n \in 0 .. Len(list) :
               <<>> = SubSeq(list, n + 1, Len(list)) /\ Shows(e, n)
        BY <2>1, <2>2, <2>3, <3>1 DEF Filling
      <3>3. n = Len(list)
        <4>1. Len(SubSeq(list, n + 1, Len(list))) = Len(list) - n
              /\ Len(list) \in Nat
          BY <3>1 DEF Lists
        <4>2. Len(SubSeq(list, n + 1, Len(list))) = 0
          <5>1. \A s : s = <<>> => Len(s) = 0
            OBVIOUS
          <5> QED BY <3>2, <5>1
        <4> QED BY <4>1, <4>2
      <3> QED BY <3>1, <3>2, <3>3
    <2>5. \A d \in DOMAIN entry' \ {Root} : IsContainer(d)' =>
             Childs(d)' = <<>> \/ Shows(d, Len(Source(d)))'
      BY <2>1, <2>3, <2>4, SameEntries
    <2>p. PICK pc : pc = IF t = Main THEN "share" ELSE "answer"
      OBVIOUS
    <2>6. PICK v : v = [job[t] EXCEPT !.pc = pc]
      OBVIOUS
    <2>7. v.pc = pc /\ job' = [job EXCEPT ![t] = v]
      BY <1>3, <1>9, <2>p, <2>6 DEF AddDone, Goto, JobSet
    <2>8. t = Main => doc' = UserList
      BY <2>1, <2>3 DEF Filling, LoadPcs
    <2>9. Filling(t, v)'
      BY <2>p, <2>7, <2>8 DEF Filling, MakePcs, LoadPcs
    <2> QED BY <1>3, <2>1, <2>3, <2>5, <2>7, <2>9, OwnAlone
  <1>10. ASSUME NEW t \in Loaders, Load(t) PROVE OwnInv'
    <2>1. Scan(t) \/ AddOne(t) \/ CountEntry(t) \/ ReadLength(t) \/ Link(t)
             => ~ disturbed
      BY DEF Scan, AddOne, CountEntry, ReadLength, Link
    <2> QED BY <1>7, <1>8, <1>9, <1>10, <2>1, OwnScan, OwnAddOne, OwnCountEntry,
               OwnReadLength, OwnLink DEF Load
  <1>11. ASSUME NEW t \in Renderers, NEW v, job' = [job EXCEPT ![t] = v],
                UNCHANGED <<entryVars, doc, disturbed>>,
                job[t].pc \in {"idle", "find", "answer", "reply"},
                v.pc \in {"idle", "find", "answer", "reply"}
         PROVE  OwnInv'
    <2>1. ~ Loading(t) /\ v.pc \notin LoadPcs /\ UNCHANGED <<entry, doc, races>>
      BY <1>11 DEF Loading, Adding, Making, LoadPcs, entryVars
    <2> QED BY <1>1, <1>3, <1>11, <2>1, OwnAside
  <1>12. ASSUME NEW t \in Renderers, NewRequest(t) PROVE OwnInv'
    <2>1. PICK r \in Requests :
             job' = [job EXCEPT ![t] = [Idle EXCEPT !.pc = "find",
                                                    !.request = r]]
      BY <1>12 DEF NewRequest
    <2>2. PICK v : v = [Idle EXCEPT !.pc = "find", !.request = r]
      OBVIOUS
    <2>3. v.pc = "find"
      BY <2>2, IdleTyped, Asks
    <2> QED BY <1>11, <1>12, <2>1, <2>2, <2>3 DEF NewRequest
  <1>13. ASSUME NEW t \in Renderers, MakeAnswer(t) PROVE OwnInv'
    <2>1. PICK v : v = [job[t] EXCEPT
                           !.answer = Answer(job[t].request, job[t].at),
                           !.pc = "reply"]
      OBVIOUS
    <2>2. v.pc = "reply"
      BY <1>1, <1>2, <2>1 DEF JobSet
    <2> QED BY <1>11, <1>13, <2>1, <2>2 DEF MakeAnswer
  <1>14. ASSUME NEW t \in Renderers, Reply(t) PROVE OwnInv'
    BY <1>11, <1>14, IdleTyped DEF Reply
  <1>15. ASSUME NEW t \in Renderers, Find(t) PROVE OwnInv'
    <2>1. PICK r : r = job[t].request
      OBVIOUS
    <2>2. PICK e \in {Wanted(r), None} :
             IF TurnedDown(r) \/ e = None
             THEN /\ job' = [job EXCEPT ![t].pc = "reply"]
                  /\ UNCHANGED disturbed
             ELSE IF MustLoad(e)
             THEN /\ job' = [job EXCEPT ![t].pc = "fetch", ![t].at = e]
                  /\ disturbed' = (disturbed \/ Overlap(t))
             ELSE /\ job' = [job EXCEPT ![t].pc = "answer", ![t].at = e]
                  /\ UNCHANGED disturbed
      BY ZenonT(30), <1>15, <2>1 DEF Find
    <2>3. /\ UNCHANGED <<entry, races, doc>> /\ job[t].pc = "find"
          /\ UNCHANGED entryVars /\ ~ disturbed
      BY <1>1, <1>15, <2>2 DEF Find, LibraryTyped, entryVars
    <2>4. CASE TurnedDown(r) \/ e = None
      <3>1. PICK v : v = [job[t] EXCEPT !.pc = "reply"]
        OBVIOUS
      <3>2. v.pc = "reply" /\ job' = [job EXCEPT ![t] = v] /\ UNCHANGED disturbed
        BY <1>1, <1>3, <2>2, <2>4, <3>1 DEF JobSet
      <3> QED BY <1>11, <2>3, <3>2
    <2>5. CASE ~ (TurnedDown(r) \/ e = None) /\ ~ MustLoad(e)
      <3>1. PICK v : v = [job[t] EXCEPT !.pc = "answer", !.at = e]
        OBVIOUS
      <3>2. v.pc = "answer"
        BY <1>1, <1>2, <3>1 DEF JobSet
      <3>3. job' = [job EXCEPT ![t] = v] /\ UNCHANGED disturbed
        BY <2>2, <2>5, <3>1
      <3> QED BY <1>11, <2>3, <3>2, <3>3
    <2>6. CASE ~ (TurnedDown(r) \/ e = None) /\ MustLoad(e)
      <3>1. PICK v : v = [job[t] EXCEPT !.pc = "fetch", !.at = e]
        OBVIOUS
      <3>2. v.pc = "fetch" /\ v.at = e
        BY <1>1, <1>2, <3>1 DEF JobSet
      <3>3. job' = [job EXCEPT ![t] = v] /\ ~ Overlap(t)
        BY <2>2, <2>6, <3>1
      <3>4. e \in DOMAIN entry /\ e # Root /\ entry[e].count = 0
        BY <1>1, <2>2, <2>6, WantedThere DEF MustLoad, EntriesInv
      <3>5. Childs(e) = <<>>
        <4>1. Counted
          BY <2>3 DEF OwnInv, RaceInv
        <4>2. entry[e].count = Len(Childs(e)) /\ Childs(e) \in Seq(Nat)
          BY <1>1, <3>4, <4>1 DEF Counted, IsContainer, LibraryTyped,
             EntrySet, Childs
        <4> QED BY <3>4, <4>2
      <3>6. Filling(t, v)'
        <4>1. t # Main
          BY LibraryAssumption
        <4> QED BY <2>3, <3>2, <3>4, <3>5, <4>1 DEF Filling, Childs, MakePcs
      <3>7. \A u \in Loaders \ {t} : ~ Loading(u)
        BY <3>3 DEF Overlap
      <3>8. \A u \in Loaders : ~ Adding(u)
        BY <2>3, <3>7 DEF Loading, Adding, Making
      <3>9. \A d \in DOMAIN entry' \ {Root} : IsContainer(d)' =>
               Childs(d)' = <<>> \/ Shows(d, Len(Source(d)))'
        <4>1. \A d \in DOMAIN entry \ {Root} : IsContainer(d) =>
               Childs(d) = <<>> \/ Shows(d, Len(Source(d)))
          BY <2>3, <3>8 DEF OwnInv, Filled
        <4> QED BY <2>3, <4>1, SameEntries
      <3>10. races' = 0
        BY <2>3 DEF OwnInv
      <3> QED BY <1>1, <1>3, <3>3, <3>6, <3>7, <3>9, <3>10, OwnAlone
    <2> QED BY <2>4, <2>5, <2>6
  <1>16. CASE NextShare
    BY <1>16, OwnNextShare DEF NextShare
  <1> QED BY <1>1, <1>4, <1>6, <1>10, <1>12, <1>13, <1>14, <1>15, <1>16
          DEF LibraryNext, MainLoad, Serve

\* ut->xml_doc: as long as no load has failed and no two have run at once, a
\* container below the root shows the start of its own list, and the whole of
\* it once the load that fills it is over.
THEOREM ContainersShowTheirOwn == LibrarySpec => []OwnList
  <1>1. ASSUME OwnInv PROVE OwnList
    <2> SUFFICES ASSUME ~ disturbed, NEW e \in DOMAIN entry \ {Root},
                        IsContainer(e)
                 PROVE  \/ entry[e].childs = <<>>
                        \/ Shows(e, Len(Source(e)))
                        \/ \E t \in Loaders, n \in 0 .. Len(Source(e)) :
                              Adding(t) /\ job[t].at = e /\ Shows(e, n)
      BY DEF OwnList
    <2>1. Filled(e) /\ \A t \in Loaders : Filling(t, job[t])
      BY <1>1 DEF OwnInv
    <2>2. ASSUME NEW t \in Loaders, Adding(t), job[t].at = e
          PROVE  \E n \in 0 .. Len(Source(e)) : Shows(e, n)
      <3>1. Source(e) \in Lists
        BY SourceTyped
      <3>2. PICK k \in Nat : k = Len(Source(e))
        BY <3>1 DEF Lists
      <3>3. CASE job[t].pc = "add"
        BY <2>1, <2>2, <3>3 DEF Filling
      <3>4. CASE job[t].pc \in MakePcs
        BY <2>1, <2>2, <3>2, <3>4 DEF Filling
      <3> QED BY <2>2, <3>3, <3>4, LoadingIs
    <2> QED BY <2>1, <2>2 DEF Filled, Childs
  <1>2. LibraryInit => LinkInv /\ RaceInv /\ OwnInv
    BY LinkInit, RaceInit, OwnInit
  <1>3. LinkInv /\ RaceInv /\ OwnInv /\ [LibraryNext]_libraryVars
           => LinkInv' /\ RaceInv' /\ OwnInv'
    BY LinkStep, RaceStep, OwnStep
  <1> QED BY <1>1, <1>2, <1>3, PTL DEF LibrarySpec

-----------------------------------------------------------------------------
(* Pages and searches.                                                       *)

LEMMA StartOfRest ==
    ASSUME NEW s \in Seq(Nat), NEW i \in 1 .. Len(s),
           NEW k \in 1 .. Len(s) - i + 1
    PROVE  SubSeq(SubSeq(s, i, Len(s)), 1, k) = SubSeq(s, i, i + k - 1)
  <1>1. /\ Len(s) \in 1 .. Len(s) /\ 1 \in 1 .. Len(s) - i + 1
        /\ i + 1 - 1 = i
    OBVIOUS
  <1>2. SubSeq(SubSeq(s, i, Len(s)), 1, k) = SubSeq(s, i + 1 - 1, i + k - 1)
    BY <1>1, SubSeqOfSubSeq
  <1> QED BY <1>1, <1>2

\* A page is a stretch of the children.
LEMMA PageIs ==
    ASSUME NEW e, Childs(e) \in Seq(Nat), entry[e].count = Len(Childs(e)),
           NEW index \in 0 .. Len(Childs(e)), NEW size \in Nat \ {0},
           NEW to \in Nat,
           to = IF index + size < Len(Childs(e)) THEN index + size
                ELSE Len(Childs(e))
    PROVE  Page(e, index, size) = SubSeq(Childs(e), index + 1, to)
  <1> DEFINE s == Childs(e)
             n == Len(s)
             rest == SubSeq(s, index + 1, n)
  <1>1. /\ n \in Nat /\ \A i \in index + 1 .. n : s[i] \in Nat
        /\ to = IF index + size < n THEN index + size ELSE n
        /\ index \in 0 .. n
    OBVIOUS
  <1>2. Page(e, index, size) = IF size > Len(rest) THEN rest
                               ELSE SubSeq(rest, 1, size)
    BY DEF Page, Childs
  <1> HIDE DEF rest
  <1>3. rest \in Seq(Nat) /\ Len(rest) = n - index
    <2>1. index + 1 \in Int /\ n \in Int
      BY <1>1
    <2> HIDE DEF s, n
    <2>2. Len(rest) = IF index + 1 <= n THEN n - (index + 1) + 1 ELSE 0
      BY <1>1, <2>1, SubSeqProperties DEF rest
    <2>3. rest \in Seq(Nat)
      BY <1>1, <2>1, SubSeqProperties DEF rest
    <2> QED BY <1>1, <2>2, <2>3 DEF n, s
  <1>4. CASE size > Len(rest)
    BY <1>1, <1>2, <1>3, <1>4 DEF rest
  <1>5. CASE ~ size > Len(rest)
    <2>1. index + 1 \in 1 .. n /\ size \in 1 .. n - (index + 1) + 1
      BY <1>1, <1>3, <1>5, SMTT(30)
    <2>2. s \in Seq(Nat)
      OBVIOUS
    <2>3. SubSeq(SubSeq(s, index + 1, n), 1, size)
             = SubSeq(s, index + 1, index + 1 + size - 1)
      <3> HIDE DEF s
      <3> QED BY <2>1, <2>2, StartOfRest
    <2>4. index + 1 + size - 1 = to
      <3>1. size <= n - index
        BY <1>1, <1>3, <1>5
      <3> HIDE DEF n
      <3> QED BY <1>1, <3>1, SMTT(30)
    <2>5. Page(e, index, size) = SubSeq(rest, 1, size)
      BY <1>2, <1>5
    <2> HIDE DEF s
    <2> QED BY <2>3, <2>4, <2>5 DEF rest, s
  <1> QED BY <1>4, <1>5

\* Nor does a page of no size leave anything out.
LEMMA WholePage ==
    ASSUME NEW e, Childs(e) \in Seq(Nat), entry[e].count = Len(Childs(e))
    PROVE  Page(e, 0, 0) = Childs(e)
  <1> DEFINE s == Childs(e)
  <1>1. s \in Seq(Nat) /\ Len(s) \in Nat
    OBVIOUS
  <1>2. SubSeq(s, 0 + 1, Len(s)) = s
    BY <1>1
  <1>3. SubSeq(s, 1, Len(s)) = s
    BY <1>1
  <1>4. Page(e, 0, 0) = IF Len(s) = 0 \/ Len(s) > Len(s) THEN s
                        ELSE SubSeq(s, 1, Len(s))
    BY <1>2 DEF Page, Childs
  <1> QED BY <1>3, <1>4

\* Page after page, up to the number reported.
LEMMA PagesGiveAll ==
    ASSUME NEW e, Childs(e) \in Seq(Nat), entry[e].count = Len(Childs(e)),
           NEW size \in 1 .. 3
    PROVE  FlattenSeq([i \in 1..((entry[e].count + size - 1) \div size) |->
                Page(e, (i - 1) * size, size)]) = entry[e].childs
  <1> DEFINE s == Childs(e)
             n == Len(s)
             k == (n + size - 1) \div size
             pages_ == [i \in 1 .. k |-> Page(e, (i - 1) * size, size)]
             upto == [i \in 0 .. k |-> IF i * size < n THEN i * size ELSE n]
  <1>1. s \in Seq(Nat) /\ n \in Nat /\ n = Len(s) /\ s = Childs(e)
    OBVIOUS
  <1>2. /\ k \in Nat
        /\ \A i \in 1 .. k : /\ (i - 1) * size \in Nat /\ (i - 1) * size < n
                             /\ i * size = (i - 1) * size + size
        /\ ~ k * size < n /\ 0 * size = 0
    <2>1. CASE size = 1
      BY <1>1, <2>1
    <2>2. CASE size = 2
      BY <1>1, <2>2
    <2>3. CASE size = 3
      BY <1>1, <2>3
    <2> QED BY <2>1, <2>2, <2>3
  <1> HIDE DEF s, n, k
  <1>3. ASSUME NEW i \in 1 .. k
        PROVE  /\ upto[i - 1] = (i - 1) * size
               /\ upto[i] \in upto[i - 1] .. n /\ upto[i - 1] \in 0 .. n
               /\ pages_[i] = SubSeq(s, upto[i - 1] + 1, upto[i])
    <2>1. i - 1 \in 0 .. k /\ i \in 0 .. k
      BY <1>2
    <2> DEFINE a == (i - 1) * size
    <2>2. a \in Nat /\ a < n /\ i * size = a + size
      BY <1>2
    <2>3. upto[i - 1] = a
      BY <2>1, <2>2
    <2>4. upto[i] = IF a + size < n THEN a + size ELSE n
      BY <2>1, <2>2
    <2>5. pages_[i] = Page(e, a, size)
      OBVIOUS
    <2> HIDE DEF a, upto, pages_
    <2>6. /\ a \in 0 .. Len(Childs(e)) /\ size \in Nat \ {0}
          /\ upto[i] \in Nat /\ upto[i] \in a .. n
      BY <1>1, <2>2, <2>4 DEF n, s
    <2>7. Page(e, a, size) = SubSeq(Childs(e), a + 1, upto[i])
      <3>1. upto[i] = IF a + size < Len(Childs(e)) THEN a + size
                      ELSE Len(Childs(e))
        BY <1>1, <2>4
      <3>2. /\ Childs(e) \in Seq(Nat) /\ entry[e].count = Len(Childs(e))
            /\ upto[i] \in Nat
        BY <2>6
      <3> QED BY <2>6, <3>1, <3>2, PageIs, Zenon
    <2>8. /\ upto[i - 1] = a /\ upto[i] \in a .. n /\ a \in 0 .. n
          /\ pages_[i] = SubSeq(s, a + 1, upto[i])
      BY <1>1, <2>2, <2>3, <2>5, <2>6, <2>7
    <2>9. a = (i - 1) * size
      BY DEF a
    <2> QED BY <2>8, <2>9
  <1>4. upto[0] = 0 /\ upto[k] = n
    BY <1>1, <1>2
  <1>5. pages_ \in [1 .. k -> Seq(Nat)]
    <2> SUFFICES ASSUME NEW i \in 1 .. k PROVE pages_[i] \in Seq(Nat)
      BY DEF pages_
    <2> HIDE DEF pages_, upto
    <2>1. /\ upto[i - 1] + 1 \in Int /\ upto[i] \in Int /\ upto[i - 1] >= 0
          /\ upto[i] <= n
      BY <1>1, <1>3
    <2>2. \A j \in upto[i - 1] + 1 .. upto[i] : s[j] \in Nat
      <3> SUFFICES ASSUME NEW j \in upto[i - 1] + 1 .. upto[i]
                   PROVE  s[j] \in Nat
        OBVIOUS
      <3>1. upto[i - 1] \in Nat /\ upto[i] \in Nat
        BY <1>1, <1>3
      <3>2. j \in 1 .. n
        BY <1>1, <2>1, <3>1
      <3> QED BY <1>1, <3>2
    <2>3. SubSeq(s, upto[i - 1] + 1, upto[i]) \in Seq(Nat)
      BY <2>1, <2>2, SubSeqProperties
    <2> QED BY <1>3, <2>3
  <1> HIDE DEF pages_, upto
  <1>6. PICK joined \in [0 .. k -> Seq(Nat)] :
           Joins(joined, k, pages_) /\ FlattenSeq(pages_) = joined[k]
    BY <1>2, <1>5, FlattenJoins
  <1> DEFINE T == {i \in 0 .. k : joined[i] = SubSeq(s, 1, upto[i])}
  <1>7. 0 \in T
    BY <1>2, <1>4, <1>6 DEF Joins
  <1>8. ASSUME NEW i \in 1 .. k, i - 1 \in T PROVE i \in T
    <2>1. joined[i] = joined[i - 1] \o pages_[i]
      BY <1>6 DEF Joins
    <2>2. /\ 1 \in 1 .. Len(s) + 1 /\ upto[i - 1] \in 1 - 1 .. Len(s)
          /\ upto[i] \in upto[i - 1] .. Len(s)
      BY <1>1, <1>3 DEF n
    <2>3. SubSeq(s, 1, upto[i - 1]) \o SubSeq(s, upto[i - 1] + 1, upto[i])
             = SubSeq(s, 1, upto[i])
      BY <1>1, <2>2, ConcatAdjacentSubSeq, Zenon
    <2>4. joined[i] = SubSeq(s, 1, upto[i])
      BY <1>3, <1>8, <2>1, <2>3
    <2> QED BY <1>2, <2>4
  <1>9. k \in T
    <2> HIDE DEF T
    <2>1. \A i \in 1 .. k : i - 1 \in T => i \in T
      BY <1>8
    <2>2. \A i \in 0 .. k : i \in T
      BY <1>2, <1>7, <2>1, Steps
    <2> QED BY <1>2, <2>2
  <1>10. FlattenSeq(pages_) = s
    BY <1>1, <1>4, <1>6, <1>9, SubSeqFull DEF n
  <1> QED BY <1>10 DEF pages_, k, n, s, Childs

Finds == Seq(Nat)

\* What is found below an entry, for each limit.
Limited == [Nat -> Finds]

LEMMA VisitTyped ==
    ASSUME NEW criteria, NEW below, NEW count \in Nat, NEW found \in Finds,
           NEW c \in Nat, below[c] \in Limited
    PROVE  Visit(criteria, below, count, found, c) \in Finds
  <1>1. CASE count # 0 /\ Len(found) >= count
    BY <1>1 DEF Visit
  <1>2. CASE ~ (count # 0 /\ Len(found) >= count)
    <2> DEFINE left == IF count = 0 THEN 0 ELSE count - Len(found)
    <2>1. left \in Nat
      BY <1>2 DEF Finds
    <2>2. below[c][left] \in Finds
      BY <2>1 DEF Limited
    <2> HIDE DEF left
    <2>3. found \o below[c][left] \in Finds /\ Append(found, c) \in Finds
      BY <2>2, ConcatProperties, AppendProperties DEF Finds
    <2>4. Visit(criteria, below, count, found, c) =
             IF IsContainer(c) THEN found \o below[c][left]
             ELSE IF Matches(criteria, c) THEN Append(found, c) ELSE found
      BY <1>2 DEF Visit, left
    <2> QED BY <2>3, <2>4
  <1> QED BY <1>1, <1>2

\* The loop over the children.
Goes(through, criteria, below, count, childs) ==
    /\ through[0] = <<>>
    /\ \A n \in 1 .. Len(childs) :
          through[n] = Visit(criteria, below, count, through[n - 1], childs[n])

Leads(below, childs) ==
    /\ Len(childs) \in Nat
    /\ \A i \in 1 .. Len(childs) : /\ childs[i] \in Nat
                                   /\ below[childs[i]] \in Limited

GatherIsLoop(criteria, below, count, childs) ==
    \E through \in [0 .. Len(childs) -> Finds] :
       /\ Goes(through, criteria, below, count, childs)
       /\ Gather(criteria, below, count, childs) = through[Len(childs)]

LEMMA GatherGoes ==
    ASSUME NEW criteria, NEW below, NEW count \in Nat, NEW childs,
           Leads(below, childs)
    PROVE  GatherIsLoop(criteria, below, count, childs)
  <1> DEFINE n == Len(childs)
             Next_(s, i) == Visit(criteria, below, count, s, childs[i])
             Eq(f) == f = [i \in 0 .. n |-> IF i = 0 THEN <<>>
                                            ELSE Next_(f[i - 1], i)]
             step == [i \in 1 .. n |-> [s \in Finds |-> Next_(s, i)]]
  <1>0. n \in Nat /\ <<>> \in Finds
    BY DEF Finds, Leads
  <1>1. Gather(criteria, below, count, childs) = (CHOOSE f : Eq(f))[n]
    BY Zenon DEF Gather
  <1>2. \A i \in 1 .. n, s \in Finds : Next_(s, i) \in Finds
    BY VisitTyped DEF Leads
  <1> HIDE DEF n, Next_
  <1>3. step \in [1 .. n -> [Finds -> Finds]]
    BY <1>2
  <1> HIDE DEF step
  <1>4. PICK g \in [0 .. n -> Finds] :
           g = [i \in 0 .. n |-> IF i = 0 THEN <<>> ELSE step[i][g[i - 1]]]
    <2>1. Runs(n, Finds, <<>>, step)
      BY <1>0, <1>3, LoopExists
    <2> QED BY <2>1 DEF Runs
  <1>5. \A i \in 0 .. n : g[i] = IF i = 0 THEN <<>> ELSE Next_(g[i - 1], i)
    <2> SUFFICES ASSUME NEW i \in 0 .. n, i # 0
                 PROVE  g[i] = Next_(g[i - 1], i)
      BY <1>0, <1>4
    <2>1. i \in 1 .. n /\ i - 1 \in 0 .. n
      BY <1>0
    <2>2. g[i - 1] \in Finds /\ g[i] = step[i][g[i - 1]]
      BY <1>4, <2>1
    <2> QED BY <2>1, <2>2 DEF step
  <1>6. Eq(g)
    <2> DEFINE h == [i \in 0 .. n |-> IF i = 0 THEN <<>>
                                      ELSE Next_(g[i - 1], i)]
    <2>1. \A i \in 0 .. n : g[i] = h[i]
      BY <1>5
    <2>2. g = [i \in 0 .. n |-> g[i]] /\ h = [i \in 0 .. n |-> h[i]]
      OBVIOUS
    <2>3. g = h
      <3> HIDE DEF h
      <3> QED BY <2>1, <2>2
    <2> QED BY <2>3
  <1> HIDE DEF Eq
  <1>7. PICK f : Eq(f) /\ Gather(criteria, below, count, childs) = f[n]
    BY <1>1, <1>6
  <1>8. /\ f = [i \in 0 .. n |-> f[i]]
        /\ f[0] = <<>> /\ \A i \in 1 .. n : f[i] = Next_(f[i - 1], i)
    <2> DEFINE h == [i \in 0 .. n |-> IF i = 0 THEN <<>>
                                      ELSE Next_(f[i - 1], i)]
    <2>1. /\ h = [i \in 0 .. n |-> h[i]] /\ h[0] = <<>>
          /\ \A i \in 1 .. n : h[i] = Next_(f[i - 1], i)
      BY <1>0
    <2>2. f = h
      BY <1>7 DEF Eq
    <2> HIDE DEF h
    <2> QED BY <2>1, <2>2
  <1> DEFINE T == {i \in 0 .. n : f[i] \in Finds}
  <1>9. 0 \in T /\ \A i \in 1 .. n : i - 1 \in T => i \in T
    <2>1. ASSUME NEW i \in 1 .. n, f[i - 1] \in Finds PROVE f[i] \in Finds
      <3>1. Next_(f[i - 1], i) \in Finds
        BY <1>2, <2>1
      <3> QED BY <1>8, <3>1
    <2> QED BY <1>0, <1>8, <2>1, SMTT(30)
  <1>10. \A i \in 0 .. n : i \in T
    <2> HIDE DEF T
    <2> QED BY <1>0, <1>9, Steps
  <1>11. f \in [0 .. n -> Finds]
    BY <1>8, <1>10
  <1>12. Goes(f, criteria, below, count, childs)
    BY <1>8 DEF Goes, n, Next_
  <1> QED BY <1>7, <1>11, <1>12 DEF n, GatherIsLoop

\* Only what is below the children matters.
LEMMA GatherLocal ==
    ASSUME NEW criteria, NEW f, NEW g, NEW count \in Nat,
           NEW childs, Len(childs) \in Nat,
           \A i \in 1 .. Len(childs) : /\ childs[i] \in Nat
                                       /\ f[childs[i]] \in Limited
                                       /\ f[childs[i]] = g[childs[i]]
    PROVE  Gather(criteria, f, count, childs) = Gather(criteria, g, count, childs)
  <1>1. Leads(f, childs) /\ Leads(g, childs)
    BY DEF Leads
  <1>2. /\ GatherIsLoop(criteria, f, count, childs)
        /\ GatherIsLoop(criteria, g, count, childs)
    BY <1>1, GatherGoes
  <1>3. PICK a \in [0 .. Len(childs) -> Finds] :
           /\ Goes(a, criteria, f, count, childs)
           /\ Gather(criteria, f, count, childs) = a[Len(childs)]
    BY <1>2, Zenon DEF GatherIsLoop
  <1>4. PICK b \in [0 .. Len(childs) -> Finds] :
           /\ Goes(b, criteria, g, count, childs)
           /\ Gather(criteria, g, count, childs) = b[Len(childs)]
    BY <1>2, Zenon DEF GatherIsLoop
  <1> DEFINE T == {i \in 0 .. Len(childs) : a[i] = b[i]}
  <1>5. 0 \in T
    BY <1>3, <1>4 DEF Goes
  <1>6. ASSUME NEW i \in 1 .. Len(childs), i - 1 \in T PROVE i \in T
    <2>1. a[i - 1] = b[i - 1] /\ f[childs[i]] = g[childs[i]]
      BY <1>6
    <2>2. /\ a[i] = Visit(criteria, f, count, a[i - 1], childs[i])
          /\ b[i] = Visit(criteria, g, count, b[i - 1], childs[i])
      BY <1>3, <1>4 DEF Goes
    <2>3. a[i] = b[i]
      BY <2>1, <2>2 DEF Visit
    <2> QED BY <2>3
  <1>7. Len(childs) \in T
    <2> HIDE DEF T
    <2>1. \A i \in 1 .. Len(childs) : i - 1 \in T => i \in T
      BY <1>6
    <2>2. \A i \in 0 .. Len(childs) : i \in T
      BY <1>5, <2>1, Steps
    <2> QED BY <2>2
  <1> QED BY <1>3, <1>4, <1>7

\* An entry and its children, of which each comes after it.
LEMMA ChildrenAfter ==
    ASSUME LibraryTyped, EntriesInv
    PROVE  /\ DOMAIN entry \subseteq Nat
           /\ \A e \in DOMAIN entry : Fresh - e \in 0 .. Fresh
           /\ Fresh \in Nat
           /\ \A e \in DOMAIN entry :
                 /\ Childs(e) \in Seq(Nat) /\ Len(Childs(e)) \in Nat
                 /\ DOMAIN Childs(e) = 1 .. Len(Childs(e))
                 /\ \A i \in 1 .. Len(Childs(e)) :
                       /\ Childs(e)[i] \in DOMAIN entry \cap Nat
                       /\ Fresh - Childs(e)[i] < Fresh - e
                       /\ Fresh - Childs(e)[i] \in 0 .. Fresh
  <1>1. Fresh \in Nat /\ DOMAIN entry = 0 .. Fresh - 1
    BY DEF EntriesInv, Numbered
  <1>3. DOMAIN entry \subseteq Nat /\ \A e \in DOMAIN entry : e <= Fresh
    BY <1>1
  <1>4. ASSUME NEW e \in DOMAIN entry
        PROVE  /\ Childs(e) \in Seq(Nat) /\ Len(Childs(e)) \in Nat
               /\ DOMAIN Childs(e) = 1 .. Len(Childs(e))
               /\ \A i \in 1 .. Len(Childs(e)) :
                     Childs(e)[i] \in DOMAIN entry /\ e < Childs(e)[i]
    <2>1. Childs(e) \in Seq(Nat)
      BY DEF LibraryTyped, EntrySet, Childs
    <2>2. DOMAIN Childs(e) = 1 .. Len(Childs(e)) /\ Len(Childs(e)) \in Nat
      BY <2>1
    <2> QED BY <2>1, <2>2 DEF EntriesInv, Fathered, Later
  <1>5. \A e \in DOMAIN entry : Fresh - e \in 0 .. Fresh
    BY <1>1, <1>3
  <1>6. ASSUME NEW e \in DOMAIN entry, NEW i \in 1 .. Len(Childs(e))
        PROVE  /\ Childs(e)[i] \in DOMAIN entry \cap Nat
               /\ Fresh - Childs(e)[i] < Fresh - e
               /\ Fresh - Childs(e)[i] \in 0 .. Fresh
    <2> DEFINE c == Childs(e)[i]
    <2>1. c \in DOMAIN entry /\ e < c
      BY <1>4
    <2>2. c \in Nat /\ e \in Nat /\ Fresh - c \in 0 .. Fresh
      BY <1>3, <1>5, <2>1
    <2> HIDE DEF c
    <2>3. Fresh - c < Fresh - e
      BY <1>1, <2>1, <2>2
    <2> QED BY <2>1, <2>2, <2>3 DEF c
  <1> QED BY <1>1, <1>3, <1>4, <1>5, <1>6

\* What is true of an entry if it is of its children, is true of all.
LEMMA FromBelow ==
    ASSUME LibraryTyped, EntriesInv, NEW S,
           \A e \in DOMAIN entry :
              (\A i \in 1 .. Len(Childs(e)) : Childs(e)[i] \in S) => e \in S
    PROVE  DOMAIN entry \subseteq S
  <1> DEFINE n == Fresh + 1
             T == {k \in 0 .. n : \A e \in DOMAIN entry :
                                     Fresh - e < k => e \in S}
  <1>1. /\ n \in Nat
        /\ \A e \in DOMAIN entry : Fresh - e \in Nat /\ Fresh - e < n
    BY ChildrenAfter
  <1>2. 0 \in T
    BY <1>1
  <1>3. ASSUME NEW k \in 1 .. n, k - 1 \in T PROVE k \in T
    <2> SUFFICES ASSUME NEW e \in DOMAIN entry, Fresh - e < k PROVE e \in S
      BY <1>1
    <2>1. ASSUME NEW i \in 1 .. Len(Childs(e)) PROVE Childs(e)[i] \in S
      <3> DEFINE c == Childs(e)[i]
      <3>1. c \in DOMAIN entry /\ Fresh - c < Fresh - e
        BY ChildrenAfter
      <3>2. Fresh - c \in Nat /\ Fresh - e \in Nat
        BY <1>1, <3>1
      <3> HIDE DEF c
      <3>3. Fresh - c < k - 1
        BY <1>1, <3>1, <3>2
      <3>4. c \in S
        BY <1>3, <3>1, <3>3
      <3> QED BY <3>4 DEF c
    <2> QED BY <2>1
  <1>4. n \in T
    <2> HIDE DEF T, n
    <2>1. \A k \in 1 .. n : k - 1 \in T => k \in T
      BY <1>3
    <2>2. \A k \in 0 .. n : k \in T
      BY <1>1, <1>2, <2>1, Steps
    <2> QED BY <1>1, <2>2
  <1> QED BY <1>1, <1>4

\* What the walk of a container makes of the walks below it.
IsFound(found, criteria) ==
    found = [e \in DOMAIN entry |->
               [count \in Nat |-> Gather(criteria, found, count, entry[e].childs)]]

LEMMA FoundExists ==
    ASSUME LibraryTyped, EntriesInv, NEW criteria
    PROVE  IsFound(Found(criteria), criteria)
  <1> DEFINE D == DOMAIN entry
             V == Limited
             rank == [e \in D |-> Fresh - e]
             G == [f \in [D -> V] |->
                     [e \in D |-> [count \in Nat |->
                        Gather(criteria, f, count, entry[e].childs)]]]
             f0 == [e \in D |-> [count \in Nat |-> <<>>]]
  <1>1. Found(criteria) = CHOOSE f : IsFound(f, criteria)
    BY Zenon DEF Found, IsFound
  <1>2. /\ Fresh \in Nat /\ rank \in [D -> 0 .. Fresh]
        /\ f0 \in [D -> V]
    BY ChildrenAfter DEF Finds, Limited
  <1>3. ASSUME NEW f \in [D -> V], NEW e \in D, NEW count \in Nat
        PROVE  Gather(criteria, f, count, entry[e].childs) \in Finds
    <2>1. /\ Len(Childs(e)) \in Nat
          /\ \A i \in 1 .. Len(Childs(e)) : /\ Childs(e)[i] \in Nat
                                            /\ f[Childs(e)[i]] \in Limited
      BY ChildrenAfter
    <2>2. PICK through \in [0 .. Len(Childs(e)) -> Finds] :
             Gather(criteria, f, count, Childs(e)) = through[Len(Childs(e))]
      BY <2>1, GatherGoes DEF Leads, GatherIsLoop
    <2> QED BY <2>1, <2>2 DEF Childs
  <1>4. G \in [[D -> V] -> [D -> V]]
    BY <1>3 DEF Limited
  <1>5. ASSUME NEW f \in [D -> V], NEW g \in [D -> V], NEW e \in D,
               \A y \in D : rank[y] < rank[e] => f[y] = g[y]
        PROVE  G[f][e] = G[g][e]
    <2>1. /\ Len(Childs(e)) \in Nat
          /\ \A i \in 1 .. Len(Childs(e)) :
                /\ Childs(e)[i] \in Nat
                /\ f[Childs(e)[i]] \in Limited
                /\ f[Childs(e)[i]] = g[Childs(e)[i]]
      BY <1>5, ChildrenAfter
    <2>2. \A count \in Nat : Gather(criteria, f, count, Childs(e))
                           = Gather(criteria, g, count, Childs(e))
      BY <2>1, GatherLocal
    <2> QED BY <2>2 DEF Childs
  <1>6. \A f \in [D -> V] : G[f] = [e \in D |-> [count \in Nat |->
                               Gather(criteria, f, count, entry[e].childs)]]
    OBVIOUS
  <1> HIDE DEF G, rank, f0
  <1>7. LowerOnly(D, V, rank, G)
    BY <1>5 DEF LowerOnly
  <1>8. Solvable(D, V, G)
    <2> HIDE DEF D, V
    <2> QED BY <1>2, <1>4, <1>7, RecursionExists
  <1>9. PICK f \in [D -> V] : f = G[f]
    BY <1>8 DEF Solvable
  <1>10. IsFound(f, criteria)
    BY <1>6, <1>9 DEF IsFound
  <1> QED BY <1>1, <1>10, Zenon

\* What is found below e, child by child.
GoesThrough(found, criteria, e, count) ==
    \E through \in [0 .. Len(Childs(e)) -> Finds] :
        /\ Goes(through, criteria, found, count, Childs(e))
        /\ found[e][count] = through[Len(Childs(e))]

LEMMA FoundGoes ==
    ASSUME LibraryTyped, EntriesInv, NEW criteria
    PROVE  \A e \in DOMAIN entry :
              /\ Found(criteria)[e] \in Limited
              /\ \A count \in Nat :
                    GoesThrough(Found(criteria), criteria, e, count)
  <1> DEFINE found == Found(criteria)
             S == {e \in DOMAIN entry : found[e] \in Limited}
  <1>1. \A e \in DOMAIN entry : found[e] =
           [count \in Nat |-> Gather(criteria, found, count, Childs(e))]
    <2>1. PICK h : h = found
      OBVIOUS
    <2>2. IsFound(h, criteria)
      BY <2>1, FoundExists
    <2> DEFINE g == [e \in DOMAIN entry |->
               [count \in Nat |-> Gather(criteria, h, count, entry[e].childs)]]
    <2>3. \A e \in DOMAIN entry : g[e] =
              [count \in Nat |-> Gather(criteria, h, count, Childs(e))]
      BY DEF Childs
    <2>4. h = g
      BY <2>2 DEF IsFound
    <2> HIDE DEF g
    <2> QED BY <2>1, <2>3, <2>4
  <1> HIDE DEF found
  <1>2. ASSUME NEW e \in DOMAIN entry, NEW count \in Nat,
               \A i \in 1 .. Len(Childs(e)) : found[Childs(e)[i]] \in Limited
        PROVE  GoesThrough(found, criteria, e, count)
    <2>1. /\ Len(Childs(e)) \in Nat
          /\ \A i \in 1 .. Len(Childs(e)) : /\ Childs(e)[i] \in Nat
                                            /\ found[Childs(e)[i]] \in Limited
      BY <1>2, ChildrenAfter
    <2>2. found[e][count] = Gather(criteria, found, count, Childs(e))
      BY <1>1
    <2>3. PICK through \in [0 .. Len(Childs(e)) -> Finds] :
             /\ Goes(through, criteria, found, count, Childs(e))
             /\ Gather(criteria, found, count, Childs(e)) = through[Len(Childs(e))]
      BY <2>1, GatherGoes DEF Leads, GatherIsLoop
    <2> QED BY <2>2, <2>3 DEF GoesThrough
  <1>3. ASSUME NEW e \in DOMAIN entry,
               \A i \in 1 .. Len(Childs(e)) : Childs(e)[i] \in S
        PROVE  e \in S
    <2>1. Len(Childs(e)) \in Nat
      BY ChildrenAfter
    <2>2. \A count \in Nat : found[e][count] \in Finds
      BY <1>2, <1>3, <2>1 DEF GoesThrough
    <2>3. found[e] = [count \in Nat |-> found[e][count]]
      BY <1>1
    <2>4. found[e] \in Limited
      BY <2>2, <2>3 DEF Limited
    <2> QED BY <2>4
  <1>4. DOMAIN entry \subseteq S
    <2> HIDE DEF S
    <2> QED BY <1>3, FromBelow
  <1>5. \A e \in DOMAIN entry : \A i \in 1 .. Len(Childs(e)) :
           found[Childs(e)[i]] \in Limited
    BY <1>4, ChildrenAfter
  <1> QED BY <1>2, <1>4, <1>5 DEF found

\* What there is to find, of the whole tree.
AllPieces(criteria, below, e) ==
    [i \in DOMAIN entry[e].childs |-> AllOf(criteria, below, entry[e].childs[i])]

IsAll(all, criteria) ==
    all = [e \in DOMAIN entry |-> FlattenSeq(AllPieces(criteria, all, e))]

LEMMA PiecesTyped ==
    ASSUME LibraryTyped, EntriesInv, NEW criteria, NEW e \in DOMAIN entry,
           NEW below,
           \A i \in 1 .. Len(Childs(e)) : below[Childs(e)[i]] \in Finds
    PROVE  /\ AllPieces(criteria, below, e) \in [1 .. Len(Childs(e)) -> Finds]
           /\ \A i \in 1 .. Len(Childs(e)) : AllPieces(criteria, below, e)[i]
                                    = AllOf(criteria, below, Childs(e)[i])
  <1>1. DOMAIN Childs(e) = 1 .. Len(Childs(e))
    BY ChildrenAfter
  <1>2. AllPieces(criteria, below, e) =
           [i \in 1 .. Len(Childs(e)) |-> AllOf(criteria, below, Childs(e)[i])]
    BY <1>1 DEF AllPieces, Childs
  <1>3. ASSUME NEW i \in 1 .. Len(Childs(e))
        PROVE  AllOf(criteria, below, Childs(e)[i]) \in Finds
    <2>1. Childs(e)[i] \in Nat
      BY ChildrenAfter
    <2>2. <<Childs(e)[i]>> \in Finds /\ <<>> \in Finds
      BY <2>1 DEF Finds
    <2> QED BY <2>2 DEF AllOf
  <1> QED BY <1>2, <1>3

LEMMA AllExists ==
    ASSUME LibraryTyped, EntriesInv, NEW criteria
    PROVE  IsAll(AllFound(criteria), criteria)
  <1> DEFINE D == DOMAIN entry
             V == Finds
             rank == [e \in D |-> Fresh - e]
             G == [f \in [D -> V] |->
                     [e \in D |-> FlattenSeq(AllPieces(criteria, f, e))]]
             f0 == [e \in D |-> <<>>]
  <1>1. AllFound(criteria) = CHOOSE f : IsAll(f, criteria)
    BY Zenon DEF AllFound, IsAll, AllPieces
  <1>2. /\ Fresh \in Nat /\ rank \in [D -> 0 .. Fresh]
        /\ f0 \in [D -> V]
    BY ChildrenAfter DEF Finds
  <1>3. ASSUME NEW f \in [D -> V], NEW e \in D
        PROVE  FlattenSeq(AllPieces(criteria, f, e)) \in Finds
    <2>1. /\ Len(Childs(e)) \in Nat
          /\ \A i \in 1 .. Len(Childs(e)) : f[Childs(e)[i]] \in Finds
      BY ChildrenAfter
    <2>2. AllPieces(criteria, f, e) \in [1 .. Len(Childs(e)) -> Seq(Nat)]
      BY <2>1, PiecesTyped DEF Finds
    <2>3. PICK joined \in [0 .. Len(Childs(e)) -> Seq(Nat)] :
             FlattenSeq(AllPieces(criteria, f, e)) = joined[Len(Childs(e))]
      BY <2>1, <2>2, FlattenJoins
    <2> QED BY <2>1, <2>3, SMTT(30) DEF Finds
  <1>4. G \in [[D -> V] -> [D -> V]]
    BY <1>3
  <1>5. ASSUME NEW f \in [D -> V], NEW g \in [D -> V], NEW e \in D,
               \A y \in D : rank[y] < rank[e] => f[y] = g[y]
        PROVE  G[f][e] = G[g][e]
    <2>1. /\ DOMAIN Childs(e) = 1 .. Len(Childs(e))
          /\ \A i \in 1 .. Len(Childs(e)) :
                f[Childs(e)[i]] = g[Childs(e)[i]]
      BY <1>5, ChildrenAfter
    <2>2. \A i \in 1 .. Len(Childs(e)) : AllOf(criteria, f, Childs(e)[i])
                                       = AllOf(criteria, g, Childs(e)[i])
      BY <2>1 DEF AllOf
    <2>3. AllPieces(criteria, f, e) = AllPieces(criteria, g, e)
      BY <2>1, <2>2 DEF AllPieces, Childs
    <2> QED BY <2>3
  <1>6. \A f \in [D -> V] :
           G[f] = [e \in D |-> FlattenSeq(AllPieces(criteria, f, e))]
    OBVIOUS
  <1> HIDE DEF G, rank, f0
  <1>7. LowerOnly(D, V, rank, G)
    BY <1>5 DEF LowerOnly
  <1>8. Solvable(D, V, G)
    <2> HIDE DEF D, V
    <2> QED BY <1>2, <1>4, <1>7, RecursionExists
  <1>9. PICK f \in [D -> V] : f = G[f]
    BY <1>8 DEF Solvable
  <1>10. IsAll(f, criteria)
    BY <1>6, <1>9 DEF IsAll
  <1> QED BY <1>1, <1>10, Zenon

LEMMA AllJoins ==
    ASSUME LibraryTyped, EntriesInv, NEW criteria
    PROVE  \A e \in DOMAIN entry :
              /\ AllFound(criteria)[e] \in Finds
              /\ \E joined \in [0 .. Len(Childs(e)) -> Finds] :
                    /\ joined[0] = <<>>
                    /\ \A i \in 1 .. Len(Childs(e)) : joined[i] = joined[i - 1]
                          \o AllOf(criteria, AllFound(criteria), Childs(e)[i])
                    /\ AllFound(criteria)[e] = joined[Len(Childs(e))]
  <1> DEFINE all == AllFound(criteria)
             S == {e \in DOMAIN entry : all[e] \in Finds}
  <1>1. \A e \in DOMAIN entry : all[e] = FlattenSeq(AllPieces(criteria, all, e))
    <2>1. PICK h : h = all
      OBVIOUS
    <2>2. h = [e \in DOMAIN entry |-> FlattenSeq(AllPieces(criteria, h, e))]
      BY <2>1, AllExists DEF IsAll
    <2>3. \A e \in DOMAIN entry : h[e] = FlattenSeq(AllPieces(criteria, h, e))
      <3> DEFINE g == [e \in DOMAIN entry |->
                          FlattenSeq(AllPieces(criteria, h, e))]
      <3>1. \A e \in DOMAIN entry : g[e] = FlattenSeq(AllPieces(criteria, h, e))
        OBVIOUS
      <3>2. h = g
        BY <2>2
      <3> HIDE DEF g
      <3> QED BY <3>1, <3>2
    <2> HIDE DEF all
    <2> QED BY <2>1, <2>3
  <1> HIDE DEF all
  <1>2. ASSUME NEW e \in DOMAIN entry,
               \A i \in 1 .. Len(Childs(e)) : all[Childs(e)[i]] \in Finds
        PROVE  /\ all[e] \in Finds
               /\ \E joined \in [0 .. Len(Childs(e)) -> Finds] :
                    /\ joined[0] = <<>>
                    /\ \A i \in 1 .. Len(Childs(e)) : joined[i] = joined[i - 1]
                          \o AllOf(criteria, all, Childs(e)[i])
                    /\ all[e] = joined[Len(Childs(e))]
    <2>1. Len(Childs(e)) \in Nat
      BY ChildrenAfter
    <2> DEFINE pieces == AllPieces(criteria, all, e)
    <2>2. /\ pieces \in [1 .. Len(Childs(e)) -> Seq(Nat)]
          /\ \A i \in 1 .. Len(Childs(e)) :
                pieces[i] = AllOf(criteria, all, Childs(e)[i])
      BY <1>2, PiecesTyped DEF Finds
    <2>3. all[e] = FlattenSeq(pieces)
      BY <1>1
    <2> HIDE DEF pieces
    <2>4. PICK joined \in [0 .. Len(Childs(e)) -> Seq(Nat)] :
             /\ Joins(joined, Len(Childs(e)), pieces)
             /\ FlattenSeq(pieces) = joined[Len(Childs(e))]
      BY <2>1, <2>2, FlattenJoins
    <2>5. /\ joined[0] = <<>>
          /\ \A i \in 1 .. Len(Childs(e)) : joined[i] = joined[i - 1]
                \o AllOf(criteria, all, Childs(e)[i])
      BY <2>2, <2>4 DEF Joins
    <2>6. /\ joined \in [0 .. Len(Childs(e)) -> Finds]
          /\ all[e] = joined[Len(Childs(e))]
      BY <2>3, <2>4 DEF Finds
    <2>7. Len(Childs(e)) \in 0 .. Len(Childs(e))
      BY <2>1
    <2>8. all[e] \in Finds
      BY <2>6, <2>7
    <2> QED BY <2>5, <2>6, <2>8
  <1>3. ASSUME NEW e \in DOMAIN entry,
               \A i \in 1 .. Len(Childs(e)) : Childs(e)[i] \in S
        PROVE  e \in S
    BY <1>2, <1>3
  <1>4. DOMAIN entry \subseteq S
    <2> HIDE DEF S
    <2> QED BY <1>3, FromBelow
  <1>5. \A e \in DOMAIN entry : \A i \in 1 .. Len(Childs(e)) :
           all[Childs(e)[i]] \in Finds
    BY <1>4, ChildrenAfter
  <1> QED BY <1>2, <1>5 DEF all

LEMMA FirstOfShort ==
    ASSUME NEW S, NEW s \in Seq(S), NEW n \in Nat, Len(s) <= n
    PROVE  FirstOf(n, s) = s
  <1>1. /\ FirstOf(n, s) \in Seq(S) /\ Len(FirstOf(n, s)) = Len(s)
        /\ \A i \in 1 .. Len(FirstOf(n, s)) : FirstOf(n, s)[i] = s[i]
    BY FirstOfFacts
  <1> QED BY <1>1, SeqEqual

LimitsTo(found, all, c) ==
    \A n \in Nat \ {0} : found[c][n] = FirstOf(n, all[c])

\* One child: the walk goes on to the start of what there is with the child.
LEMMA VisitsFirst ==
    ASSUME NEW criteria, NEW found, NEW all, NEW c \in Nat,
           NEW count \in Nat \ {0}, NEW before \in Finds,
           AllOf(criteria, all, c) \in Finds,
           LimitsTo(found, all, c)
    PROVE  Visit(criteria, found, count, FirstOf(count, before), c)
              = FirstOf(count, before \o AllOf(criteria, all, c))
  <1> DEFINE s == FirstOf(count, before)
             piece == AllOf(criteria, all, c)
             left == count - Len(s)
  <1>1. /\ Len(s) >= count => FirstOf(count, before \o piece) = s
        /\ ~ Len(s) >= count =>
              /\ left \in Nat \ {0}
              /\ FirstOf(count, before \o piece) = s \o FirstOf(left, piece)
    BY FirstOfJoined DEF Finds
  <1>2. s \in Finds
    BY FirstOfFacts DEF Finds
  <1> HIDE DEF s, left
  <1>3. CASE Len(s) >= count
    BY <1>1, <1>3 DEF Visit, s
  <1>4. CASE ~ Len(s) >= count
    <2>1. Visit(criteria, found, count, s, c) =
             IF IsContainer(c) THEN s \o found[c][left]
             ELSE IF Matches(criteria, c) THEN Append(s, c) ELSE s
      BY <1>4 DEF Visit, left
    <2>2. CASE IsContainer(c)
      BY <1>1, <1>4, <2>1, <2>2 DEF AllOf, s, LimitsTo
    <2>3. CASE ~ IsContainer(c) /\ Matches(criteria, c)
      <3>1. piece = <<c>>
        BY <2>3 DEF AllOf
      <3>2. FirstOf(left, <<c>>) = <<c>>
        <4>1. left \in Nat /\ left >= 1
          BY <1>1, <1>4
        <4> DEFINE t == <<c>>
        <4>2. t \in Seq(Nat) /\ Len(t) = 1
          OBVIOUS
        <4> HIDE DEF t
        <4>3. FirstOf(left, t) = t
          BY <4>1, <4>2, FirstOfShort
        <4> QED BY <4>3 DEF t
      <3>3. s \o <<c>> = Append(s, c)
        BY <1>2 DEF Finds
      <3>4. FirstOf(count, before \o piece) = s \o FirstOf(left, piece)
        BY <1>1, <1>4
      <3> HIDE DEF piece
      <3>5. FirstOf(count, before \o piece) = Append(s, c)
        BY <3>1, <3>2, <3>3, <3>4
      <3> QED BY <2>1, <2>3, <3>5 DEF s, piece
    <2>4. CASE ~ IsContainer(c) /\ ~ Matches(criteria, c)
      <3>1. piece = <<>>
        BY <2>4 DEF AllOf
      <3>2. FirstOf(left, <<>>) = <<>>
        <4> DEFINE t == <<>>
        <4>1. left \in Nat /\ t \in Seq(Nat) /\ Len(t) <= left
          BY <1>1, <1>4
        <4> HIDE DEF t
        <4>2. FirstOf(left, t) = t
          BY <4>1, FirstOfShort
        <4> QED BY <4>2 DEF t
      <3>3. s \o <<>> = s
        BY <1>2, ConcatEmptySeq DEF Finds
      <3>4. FirstOf(count, before \o piece) = s \o FirstOf(left, piece)
        BY <1>1, <1>4
      <3> HIDE DEF piece
      <3>5. FirstOf(count, before \o piece) = s
        BY <3>1, <3>2, <3>3, <3>4
      <3> QED BY <2>1, <2>4, <3>5 DEF s, piece
    <2> QED BY <2>2, <2>3, <2>4
  <1> QED BY <1>3, <1>4

\* A limited search finds the first of what there is.
LEMMA FindsFirst ==
    ASSUME LibraryTyped, EntriesInv, NEW criteria
    PROVE  \A e \in DOMAIN entry, n \in Nat \ {0} :
              Found(criteria)[e][n] = FirstOf(n, AllFound(criteria)[e])
  <1> DEFINE found == Found(criteria)
             all == AllFound(criteria)
             S == {e \in DOMAIN entry :
                      \A n \in Nat \ {0} : found[e][n] = FirstOf(n, all[e])}
  <1>1. ASSUME NEW e \in DOMAIN entry, NEW count \in Nat \ {0},
               \A i \in 1 .. Len(Childs(e)) : Childs(e)[i] \in S
        PROVE  found[e][count] = FirstOf(count, all[e])
    <2> DEFINE m == Len(Childs(e))
    <2>1. PICK through \in [0 .. m -> Finds] :
             /\ Goes(through, criteria, found, count, Childs(e))
             /\ found[e][count] = through[m]
      <3>1. count \in Nat
        OBVIOUS
      <3>2. GoesThrough(found, criteria, e, count)
        BY <3>1, FoundGoes
      <3> HIDE DEF found
      <3> QED BY <3>2 DEF GoesThrough
    <2>2. PICK joined \in [0 .. m -> Finds] :
             /\ joined[0] = <<>>
             /\ \A i \in 1 .. m : joined[i] = joined[i - 1]
                   \o AllOf(criteria, all, Childs(e)[i])
             /\ all[e] = joined[m]
      BY AllJoins
    <2>3. /\ m \in Nat
          /\ \A i \in 1 .. m : Childs(e)[i] \in DOMAIN entry \cap Nat
      BY ChildrenAfter
    <2>4. \A i \in 1 .. m : AllOf(criteria, all, Childs(e)[i]) \in Finds
      <3> SUFFICES ASSUME NEW i \in 1 .. m
                   PROVE  AllOf(criteria, all, Childs(e)[i]) \in Finds
        OBVIOUS
      <3>1. Childs(e)[i] \in Nat /\ all[Childs(e)[i]] \in Finds
        BY <2>3, AllJoins
      <3>2. <<Childs(e)[i]>> \in Finds /\ <<>> \in Finds
        BY <3>1 DEF Finds
      <3> QED BY <3>1, <3>2 DEF AllOf
    <2>5. \A i \in 1 .. m, n \in Nat \ {0} :
             found[Childs(e)[i]][n] = FirstOf(n, all[Childs(e)[i]])
      BY <1>1
    <2> DEFINE T == {i \in 0 .. m : through[i] = FirstOf(count, joined[i])}
    <2> HIDE DEF found, all, m
    <2>6. 0 \in T
      <3> DEFINE t == <<>>
      <3>1. count \in Nat /\ t \in Seq(Nat) /\ Len(t) <= count
        OBVIOUS
      <3> HIDE DEF t
      <3>2. FirstOf(count, t) = t
        BY <3>1, FirstOfShort
      <3> QED BY <2>1, <2>2, <2>3, <3>2 DEF Goes, t
    <2>7. ASSUME NEW i \in 1 .. m, i - 1 \in T PROVE i \in T
      <3> DEFINE c == Childs(e)[i]
      <3>1. through[i] = Visit(criteria, found, count, through[i - 1], c)
        BY <2>1 DEF Goes, m
      <3>2. through[i - 1] = FirstOf(count, joined[i - 1])
        BY <2>7
      <3>3. joined[i - 1] \in Finds /\ c \in Nat
        BY <2>2, <2>3
      <3>4. /\ AllOf(criteria, all, c) \in Finds
            /\ LimitsTo(found, all, c)
        BY <2>4, <2>5 DEF LimitsTo
      <3>5. joined[i] = joined[i - 1] \o AllOf(criteria, all, c)
        BY <2>2
      <3> DEFINE s == joined[i - 1]
      <3>8. s \in Finds
        BY <3>3
      <3> HIDE DEF c, s
      <3>6. Visit(criteria, found, count, FirstOf(count, s), c)
               = FirstOf(count, s \o AllOf(criteria, all, c))
        BY <3>3, <3>4, <3>8, VisitsFirst
      <3>7. through[i] = FirstOf(count, joined[i])
        BY <3>1, <3>2, <3>5, <3>6 DEF s
      <3> QED BY <2>3, <3>7
    <2>8. m \in T
      <3> HIDE DEF T
      <3>1. \A i \in 1 .. m : i - 1 \in T => i \in T
        BY <2>7
      <3>2. \A i \in 0 .. m : i \in T
        BY <2>3, <2>6, <3>1, Steps
      <3> QED BY <2>3, <3>2
    <2> QED BY <2>1, <2>2, <2>8
  <1>2. \A e \in DOMAIN entry :
           (\A i \in 1 .. Len(Childs(e)) : Childs(e)[i] \in S) => e \in S
    BY <1>1
  <1>3. DOMAIN entry \subseteq S
    <2> HIDE DEF S
    <2> QED BY <1>2, FromBelow
  <1> QED BY <1>3

\* Whatever the list, the sizes asked for and the criteria: page after page
\* gives a container's children, unless two threads were making an entry at
\* once, and a search with a limit gives the first of what there is, whatever
\* ran at once (cds_browse_directchildren, cds_search_directchildren_recursive).
THEOREM PagesAndSearchRight == LibrarySpec => []PagesAndSearch
  <1>1. LinkInv /\ RaceInv => PagesAndSearch
    <2> SUFFICES ASSUME LinkInv, RaceInv, NEW e \in DOMAIN entry, IsContainer(e)
        PROVE  /\ races = 0 =>
                  /\ \A size \in 1..3 :
                       FlattenSeq(
                          [i \in 1..((entry[e].count + size - 1) \div size)
                             |-> Page(e, (i - 1) * size, size)]) = entry[e].childs
                  /\ Page(e, 0, 0) = entry[e].childs
               /\ \A r \in Requests : r.op = "search" /\ r.count # 0 =>
                    Search(e, r.count, r.criteria)
                       = FirstOf(r.count, AllFound(r.criteria)[e])
      BY DEF PagesAndSearch
    <2>1. LibraryTyped /\ EntriesInv
      BY DEF LinkInv
    <2>2. Childs(e) \in Seq(Nat)
      BY <2>1, ChildrenAfter
    <2>3. ASSUME races = 0
          PROVE  /\ \A size \in 1..3 :
                       FlattenSeq(
                          [i \in 1..((entry[e].count + size - 1) \div size)
                             |-> Page(e, (i - 1) * size, size)]) = entry[e].childs
                 /\ Page(e, 0, 0) = entry[e].childs
      <3>1. entry[e].count = Len(Childs(e))
        BY <2>3 DEF RaceInv, Counted
      <3>2. \A size \in 1..3 :
               FlattenSeq([i \in 1..((entry[e].count + size - 1) \div size)
                  |-> Page(e, (i - 1) * size, size)]) = entry[e].childs
        BY <2>2, <3>1, PagesGiveAll
      <3>3. Page(e, 0, 0) = entry[e].childs
        BY <2>2, <3>1, WholePage DEF Childs
      <3> QED BY <3>2, <3>3
    <2>5. ASSUME NEW r \in Requests, r.op = "search", r.count # 0
          PROVE  Search(e, r.count, r.criteria)
                    = FirstOf(r.count, AllFound(r.criteria)[e])
      <3>1. r.count \in Nat \ {0}
        BY <2>5, LibraryAssumption
      <3> QED BY <2>1, <2>5, <3>1, FindsFirst DEF Search
    <2> QED BY <2>3, <2>5
  <1> QED BY <1>1, RaceAlways, PTL

-----------------------------------------------------------------------------
(* The listing of the share worker: numbers in order, starts of sequences.   *)

LEMMA LeastOf ==
    ASSUME NEW S \in SUBSET Nat, S # {}
    PROVE  \E m \in S : \A n \in S : m <= n
  <1>1. PICK m \in S : \A n \in S : ~ <<n, m>> \in OpToRel(<, Nat)
    BY NatLessThanWellFounded, WFMin
  <1>2. ASSUME NEW n \in S PROVE m <= n
    <2>1. m \in Nat /\ n \in Nat
      OBVIOUS
    <2>2. ~ n < m
      BY <1>1, <2>1 DEF OpToRel
    <2> QED BY <2>1, <2>2
  <1> QED BY <1>2

Ascends(s, S) ==
    /\ s \in [1 .. Cardinality(S) -> S]
    /\ \A i, j \in DOMAIN s : i < j => s[i] < s[j]

HasAscent(S) == \E s : Ascends(s, S)

LEMMA AscentExists ==
    ASSUME NEW S \in SUBSET Nat, IsFiniteSet(S)
    PROVE  HasAscent(S)
  <1> DEFINE N == Cardinality(S)
             T == {k \in 0 .. N : \A X \in SUBSET S :
                                     Cardinality(X) = k => HasAscent(X)}
  <1>1. N \in Nat /\ S \in SUBSET S
    BY FS_CardinalityType
  <1>2. 0 \in T
    <2> SUFFICES ASSUME NEW X \in SUBSET S, Cardinality(X) = 0
                 PROVE  HasAscent(X)
      BY <1>1
    <2> DEFINE s == [i \in 1 .. Cardinality(X) |-> 0]
    <2>1. s \in [1 .. Cardinality(X) -> X] /\ DOMAIN s = {}
      OBVIOUS
    <2>2. Ascends(s, X)
      BY <2>1 DEF Ascends
    <2> QED BY <2>2 DEF HasAscent
  <1>3. ASSUME NEW k \in 1 .. N, k - 1 \in T PROVE k \in T
    <2> SUFFICES ASSUME NEW X \in SUBSET S, Cardinality(X) = k
                 PROVE  HasAscent(X)
      OBVIOUS
    <2>0. IsFiniteSet(X) /\ Cardinality({}) = 0 /\ X \in SUBSET Nat
      BY FS_Subset, FS_EmptySet
    <2>1. IsFiniteSet(X) /\ X # {} /\ X \in SUBSET Nat
      <3>1. k # 0 /\ Cardinality(X) = k
        OBVIOUS
      <3> QED BY <2>0, <3>1
    <2>2. PICK m \in X : \A n \in X : m <= n
      BY <2>1, LeastOf
    <2>3. X \ {m} \in SUBSET S /\ Cardinality(X \ {m}) = k - 1
      BY <2>1, FS_RemoveElement
    <2>4. HasAscent(X \ {m})
      BY <1>3, <2>3
    <2>5. PICK s : Ascends(s, X \ {m})
      BY <2>4 DEF HasAscent
    <2>6. /\ s \in [1 .. k - 1 -> X \ {m}]
          /\ \A i, j \in 1 .. k - 1 : i < j => s[i] < s[j]
      BY <2>3, <2>5 DEF Ascends
    <2> DEFINE r == [i \in 1 .. k |-> IF i = 1 THEN m ELSE s[i - 1]]
    <2>7. r \in [1 .. k -> X]
      BY <2>6
    <2>8. ASSUME NEW i \in 1 .. k, NEW j \in 1 .. k, i < j PROVE r[i] < r[j]
      <3>1. j - 1 \in 1 .. k - 1 /\ r[j] = s[j - 1] /\ s[j - 1] \in X \ {m}
        BY <2>6, <2>8
      <3>2. CASE i = 1
        <4>1. r[i] = m /\ s[j - 1] # m /\ m \in Nat /\ s[j - 1] \in Nat
          BY <2>1, <3>1, <3>2
        <4>2. m <= s[j - 1]
          BY <2>2, <3>1
        <4> QED BY <3>1, <4>1, <4>2
      <3>3. CASE i # 1
        <4>1. i - 1 \in 1 .. k - 1 /\ r[i] = s[i - 1] /\ i - 1 < j - 1
          BY <2>8, <3>3
        <4> QED BY <2>6, <3>1, <4>1
      <3> QED BY <3>2, <3>3
    <2>9. Ascends(r, X)
      BY <2>7, <2>8 DEF Ascends
    <2> QED BY <2>9 DEF HasAscent
  <1>4. N \in T
    <2> HIDE DEF T
    <2>1. \A k \in 1 .. N : k - 1 \in T => k \in T
      BY <1>3
    <2>2. \A k \in 0 .. N : k \in T
      BY <1>1, <1>2, <2>1, Steps, Zenon
    <2> QED BY <1>1, <2>2
  <1> QED BY <1>1, <1>4

LEMMA AscendingIs ==
    ASSUME NEW S \in SUBSET Nat, IsFiniteSet(S)
    PROVE  Ascends(Ascending(S), S) /\ Cardinality(S) \in Nat
  <1>1. PICK s : Ascends(s, S)
    BY AscentExists DEF HasAscent
  <1>2. \E r \in [1 .. Cardinality(S) -> S] :
           \A i, j \in DOMAIN r : i < j => r[i] < r[j]
    BY <1>1 DEF Ascends
  <1> QED BY <1>2, FS_CardinalityType DEF Ascends, Ascending

\* All the numbers from a + 1 to a + n, in order.
LEMMA AscendingInterval ==
    ASSUME NEW a \in Nat, NEW n \in Nat
    PROVE  Ascending(a + 1 .. a + n) = [i \in 1 .. n |-> a + i]
  <1> DEFINE S == a + 1 .. a + n
             s == Ascending(S)
             T == {i \in 0 .. n : i # 0 => s[i] >= a + i}
             U == {k \in 0 .. n : k < n => s[n - k] <= a + (n - k)}
  <1>1. IsFiniteSet(S) /\ Cardinality(S) = n /\ S \in SUBSET Nat
    BY FS_Interval
  <1>2. s \in [1 .. n -> S] /\ \A i, j \in 1 .. n : i < j => s[i] < s[j]
    BY <1>1, AscendingIs DEF Ascends
  <1> HIDE DEF s
  <1>3. \A i \in 1 .. n : s[i] \in Nat /\ a + 1 <= s[i] /\ s[i] <= a + n
    BY <1>2
  <1>4. 0 \in T /\ 0 \in U
    BY <1>3
  <1>5. ASSUME NEW i \in 1 .. n, i - 1 \in T PROVE i \in T
    <2>1. CASE i = 1
      BY <1>3, <2>1
    <2>2. CASE i # 1
      <3>1. i - 1 \in 1 .. n /\ i - 1 < i
        BY <2>2
      <3>2. s[i - 1] < s[i] /\ s[i - 1] >= a + (i - 1)
        BY <1>2, <1>5, <2>2, <3>1
      <3> QED BY <1>3, <3>1, <3>2
    <2> QED BY <2>1, <2>2
  <1>6. ASSUME NEW k \in 1 .. n, k - 1 \in U PROVE k \in U
    <2> SUFFICES ASSUME k < n PROVE s[n - k] <= a + (n - k)
      OBVIOUS
    <2>1. /\ n - k \in 1 .. n /\ n - (k - 1) \in 1 .. n /\ k - 1 < n
          /\ n - k < n - (k - 1)
      OBVIOUS
    <2>2. s[n - k] < s[n - (k - 1)] /\ s[n - (k - 1)] <= a + (n - (k - 1))
      BY <1>2, <1>6, <2>1
    <2> QED BY <1>3, <2>1, <2>2
  <1>7. (\A i \in 0 .. n : i \in T) /\ (\A i \in 0 .. n : i \in U)
    <2> HIDE DEF T, U
    <2>1. /\ \A i \in 1 .. n : i - 1 \in T => i \in T
          /\ \A i \in 1 .. n : i - 1 \in U => i \in U
      BY <1>5, <1>6
    <2>2. \A i \in 0 .. n : i \in T
      BY <1>4, <2>1, Steps, Zenon
    <2>3. \A i \in 0 .. n : i \in U
      BY <1>4, <2>1, Steps, Zenon
    <2> QED BY <2>2, <2>3
  <1>8. ASSUME NEW i \in 1 .. n PROVE s[i] = a + i
    <2>1. s[i] >= a + i
      BY <1>7
    <2>2. n - i \in 0 .. n /\ n - i < n /\ n - (n - i) = i
      OBVIOUS
    <2>3. s[i] <= a + i
      BY <1>7, <2>2
    <2> QED BY <1>3, <2>1, <2>3
  <1>9. s = [i \in 1 .. n |-> a + i]
    BY <1>2, <1>8
  <1> QED BY <1>9 DEF s

\* The start of a sequence.
LEMMA StartOf ==
    ASSUME NEW S, NEW s \in Seq(S), NEW k \in 0 .. Len(s)
    PROVE  /\ SubSeq(s, 1, k) \in Seq(S) /\ Len(SubSeq(s, 1, k)) = k
           /\ \A i \in 1 .. k : SubSeq(s, 1, k)[i] = s[i]
           /\ k > 0 => Front(SubSeq(s, 1, k)) = SubSeq(s, 1, k - 1)
           /\ k < Len(s) =>
                 Append(SubSeq(s, 1, k), s[k + 1]) = SubSeq(s, 1, k + 1)
  <1>0. Len(s) \in Nat /\ \A i \in 1 .. Len(s) : s[i] \in S
    OBVIOUS
  <1>1. ASSUME NEW m \in 0 .. Len(s)
        PROVE  /\ SubSeq(s, 1, m) \in Seq(S) /\ Len(SubSeq(s, 1, m)) = m
               /\ \A i \in 1 .. m : SubSeq(s, 1, m)[i] = s[i]
    <2>1. m \in Int /\ 1 \in Int /\ m - 1 + 1 = m /\ \A i \in 1 .. m : s[i] \in S
      BY <1>0
    <2>2. /\ SubSeq(s, 1, m) \in Seq(S)
          /\ Len(SubSeq(s, 1, m)) = IF 1 <= m THEN m - 1 + 1 ELSE 0
          /\ \A i \in 1 .. m - 1 + 1 : SubSeq(s, 1, m)[i] = s[1 + i - 1]
      BY <2>1, SubSeqProperties
    <2> QED BY <2>1, <2>2
  <1> DEFINE r == SubSeq(s, 1, k)
  <1>2. r \in Seq(S) /\ Len(r) = k /\ \A i \in 1 .. k : r[i] = s[i]
    BY <1>1
  <1> HIDE DEF r
  <1>3. ASSUME k > 0 PROVE Front(r) = SubSeq(s, 1, k - 1)
    <2>1. /\ k - 1 \in 0 .. Len(s) /\ k - 1 \in Int /\ 1 \in Int
          /\ \A i \in 1 .. k - 1 : r[i] \in S /\ r[i] = s[i]
          /\ k - 1 - 1 + 1 = k - 1
      BY <1>0, <1>2, <1>3
    <2>2. /\ SubSeq(r, 1, k - 1) \in Seq(S)
          /\ Len(SubSeq(r, 1, k - 1)) = IF 1 <= k - 1 THEN k - 1 - 1 + 1 ELSE 0
          /\ \A i \in 1 .. k - 1 - 1 + 1 : SubSeq(r, 1, k - 1)[i] = r[1 + i - 1]
      BY <2>1, SubSeqProperties
    <2>3. /\ SubSeq(s, 1, k - 1) \in Seq(S) /\ Len(SubSeq(s, 1, k - 1)) = k - 1
          /\ \A i \in 1 .. k - 1 : SubSeq(s, 1, k - 1)[i] = s[i]
      BY <1>1, <2>1
    <2>4. \A i \in 1 .. k - 1 : SubSeq(r, 1, k - 1)[i] = SubSeq(s, 1, k - 1)[i]
      BY <2>1, <2>2, <2>3
    <2>5. Len(SubSeq(r, 1, k - 1)) = k - 1
      BY <1>3, <2>2
    <2>6. SubSeq(r, 1, k - 1) = SubSeq(s, 1, k - 1)
      BY <2>2, <2>3, <2>4, <2>5, SeqEqual
    <2> QED BY <1>2, <2>6 DEF Front
  <1>4. ASSUME k < Len(s) PROVE Append(r, s[k + 1]) = SubSeq(s, 1, k + 1)
    <2>1. k + 1 \in 1 .. Len(s) /\ s[k + 1] \in S
      BY <1>0, <1>4
    <2>2. /\ Append(r, s[k + 1]) \in Seq(S) /\ Len(Append(r, s[k + 1])) = k + 1
          /\ \A i \in 1 .. k : Append(r, s[k + 1])[i] = r[i]
          /\ Append(r, s[k + 1])[k + 1] = s[k + 1]
      BY <1>2, <2>1, AppendProperties
    <2>3. /\ SubSeq(s, 1, k + 1) \in Seq(S) /\ Len(SubSeq(s, 1, k + 1)) = k + 1
          /\ \A i \in 1 .. k + 1 : SubSeq(s, 1, k + 1)[i] = s[i]
      BY <1>1, <2>1
    <2>4. \A i \in 1 .. k + 1 : Append(r, s[k + 1])[i] = SubSeq(s, 1, k + 1)[i]
      BY <1>2, <2>2, <2>3
    <2> QED BY <2>2, <2>3, <2>4, SeqEqual
  <1> QED BY <1>2, <1>3, <1>4 DEF r

-----------------------------------------------------------------------------
(* The listing: what the host makes of tags.                                 *)

Path == Seq(Names)
Tags == {Close} \cup {Open(n) : n \in Names} \cup {File(n) : n \in Names}
HostSet == [in : Path, files : Seq(Path), sound : BOOLEAN]
Unread == [in |-> <<>>, files |-> <<>>, sound |-> TRUE]

\* The tags take the host from a to b.
Reads(a, tags, b) ==
    \E f : /\ f[0] = a /\ f[Len(tags)] = b
           /\ \A i \in 1 .. Len(tags) : f[i] = Take(f[i - 1], tags[i])

LEMMA TakenIs ==
    ASSUME NEW page, Len(page.tags) \in Nat, NEW b, Reads(Unread, page.tags, b)
    PROVE  Taken(page) = b
  <1> DEFINE n == Len(page.tags)
             Eq(f) == f = [i \in 0 .. n |-> IF i = 0 THEN Unread
                                            ELSE Take(f[i - 1], page.tags[i])]
  <1>1. Taken(page) = (CHOOSE f : Eq(f))[n]
    BY Zenon DEF Taken, Unread
  <1>2. PICK g : /\ g[0] = Unread /\ g[n] = b
                 /\ \A i \in 1 .. n : g[i] = Take(g[i - 1], page.tags[i])
    BY DEF Reads
  <1>3. n \in Nat
    OBVIOUS
  <1> HIDE DEF n
  <1> DEFINE h == [i \in 0 .. n |-> g[i]]
  <1>4. Eq(h)
    <2> DEFINE r == [i \in 0 .. n |-> IF i = 0 THEN Unread
                                      ELSE Take(h[i - 1], page.tags[i])]
    <2>1. ASSUME NEW i \in 0 .. n PROVE h[i] = r[i]
      <3>1. CASE i = 0
        BY <1>2, <3>1
      <3>2. CASE i # 0
        <4>1. i \in 1 .. n /\ i - 1 \in 0 .. n
          BY <1>3, <3>2
        <4>2. h[i] = g[i] /\ h[i - 1] = g[i - 1]
          BY <4>1
        <4>3. r[i] = Take(h[i - 1], page.tags[i])
          BY <3>2
        <4> QED BY <1>2, <4>1, <4>2, <4>3
      <3> QED BY <3>1, <3>2
    <2>2. h = [i \in 0 .. n |-> h[i]] /\ r = [i \in 0 .. n |-> r[i]]
      OBVIOUS
    <2>3. h = r
      <3> HIDE DEF h, r
      <3> QED BY <2>1, <2>2
    <2> QED BY <2>3
  <1> HIDE DEF Eq, h
  <1>5. PICK f : Eq(f) /\ Taken(page) = f[n]
    BY <1>1, <1>4
  <1>6. f[0] = Unread /\ \A i \in 1 .. n : f[i] = Take(f[i - 1], page.tags[i])
    <2> DEFINE r == [i \in 0 .. n |-> IF i = 0 THEN Unread
                                      ELSE Take(f[i - 1], page.tags[i])]
    <2>1. /\ r[0] = Unread
          /\ \A i \in 1 .. n : r[i] = Take(f[i - 1], page.tags[i])
      BY <1>3
    <2>2. f = r
      BY <1>5 DEF Eq
    <2> HIDE DEF r
    <2> QED BY <2>1, <2>2
  <1> DEFINE T == {i \in 0 .. n : f[i] = g[i]}
  <1>7. 0 \in T
    BY <1>2, <1>3, <1>6
  <1>8. ASSUME NEW i \in 1 .. n, i - 1 \in T PROVE i \in T
    <2>1. f[i] = Take(f[i - 1], page.tags[i]) /\ g[i] = Take(g[i - 1], page.tags[i])
      BY <1>2, <1>6
    <2>2. f[i - 1] = g[i - 1]
      BY <1>8
    <2> QED BY <2>1, <2>2
  <1>9. n \in T
    <2> HIDE DEF T
    <2>1. \A i \in 1 .. n : i - 1 \in T => i \in T
      BY <1>8
    <2>2. \A i \in 0 .. n : i \in T
      BY <1>3, <1>7, <2>1, Steps, Zenon
    <2> QED BY <1>3, <2>2
  <1> QED BY <1>2, <1>5, <1>9

LEMMA ReadsNothing == ASSUME NEW a PROVE Reads(a, <<>>, a)
  <1> DEFINE f == [i \in {0} |-> a]
  <1>1. f[0] = a /\ f[Len(<<>>)] = a /\ 1 .. Len(<<>>) = {}
    OBVIOUS
  <1> QED BY <1>1 DEF Reads

LEMMA ReadsOne ==
    ASSUME NEW a, NEW tag
    PROVE  Reads(a, <<tag>>, Take(a, tag))
  <1> DEFINE b == Take(a, tag)
  <1> HIDE DEF b
  <1> DEFINE f == [i \in 0 .. 1 |-> IF i = 0 THEN a ELSE b]
             t == <<tag>>
  <1>1. f[0] = a /\ f[1] = b /\ Len(t) = 1 /\ t[1] = tag /\ 1 - 1 = 0
    OBVIOUS
  <1>2. \A i \in 1 .. 1 : i = 1
    OBVIOUS
  <1> HIDE DEF f, t
  <1>3. \A i \in 1 .. Len(t) : f[i] = Take(f[i - 1], t[i])
    BY <1>1, <1>2 DEF b
  <1>4. Reads(a, t, b)
    BY <1>1, <1>3 DEF Reads
  <1> QED BY <1>4 DEF b, t

LEMMA ReadsJoined ==
    ASSUME NEW s \in Seq(Tags), NEW t \in Seq(Tags), NEW a, NEW b, NEW c,
           Reads(a, s, b), Reads(b, t, c)
    PROVE  Reads(a, s \o t, c)
  <1>1. PICK f : /\ f[0] = a /\ f[Len(s)] = b
                 /\ \A i \in 1 .. Len(s) : f[i] = Take(f[i - 1], s[i])
    BY DEF Reads
  <1>2. PICK g : /\ g[0] = b /\ g[Len(t)] = c
                 /\ \A i \in 1 .. Len(t) : g[i] = Take(g[i - 1], t[i])
    BY DEF Reads
  <1> DEFINE m == Len(s)  n == Len(t)  st == s \o t
  <1>3. m \in Nat /\ n \in Nat
    OBVIOUS
  <1>4. /\ Len(st) = m + n
        /\ \A i \in 1 .. m + n : st[i] = IF i <= m THEN s[i] ELSE t[i - m]
    BY ConcatProperties
  <1> DEFINE h == [i \in 0 .. m + n |-> IF i <= m THEN f[i] ELSE g[i - m]]
  <1> HIDE DEF m, n, st
  <1>5. h[0] = a
    BY <1>1, <1>3
  <1>6. h[m + n] = c
    <2>1. CASE n = 0
      BY <1>1, <1>2, <1>3, <2>1 DEF m, n
    <2>2. CASE n # 0
      <3>1. PICK e : e = m + n
        OBVIOUS
      <3>2. ~ e <= m /\ e \in 0 .. m + n /\ e - m = n
        BY <1>3, <2>2, <3>1
      <3>3. h[e] = g[e - m]
        BY <3>2
      <3> HIDE DEF h
      <3> QED BY <1>2, <3>1, <3>2, <3>3 DEF n
    <2> QED BY <2>1, <2>2
  <1>7. ASSUME NEW i \in 1 .. m + n PROVE h[i] = Take(h[i - 1], st[i])
    <2>1. CASE i <= m
      <3>1. i \in 1 .. m /\ i - 1 \in 0 .. m + n /\ i - 1 <= m
        BY <1>3, <2>1
      <3>2. h[i] = f[i] /\ h[i - 1] = f[i - 1] /\ st[i] = s[i]
        BY <1>4, <2>1, <3>1
      <3> QED BY <1>1, <3>1, <3>2 DEF m
    <2>2. CASE ~ i <= m
      <3>1. i - m \in 1 .. n /\ i - 1 \in 0 .. m + n
        BY <1>3, <2>2
      <3>2. h[i] = g[i - m] /\ st[i] = t[i - m]
        BY <1>4, <2>2
      <3>3. h[i - 1] = g[i - m - 1]
        <4>1. CASE i = m + 1
          <5>1. i - 1 = m /\ i - m - 1 = 0 /\ m <= m
            BY <1>3, <4>1
          <5>2. h[i - 1] = f[m]
            BY <3>1, <5>1
          <5> QED BY <1>1, <1>2, <5>1, <5>2 DEF m
        <4>2. CASE i # m + 1
          <5>1. ~ i - 1 <= m /\ i - 1 - m = i - m - 1
            BY <1>3, <2>2, <4>2
          <5>2. h[i - 1] = g[i - 1 - m]
            BY <3>1, <5>1
          <5> QED BY <5>1, <5>2
        <4> QED BY <4>1, <4>2
      <3>4. g[i - m] = Take(g[i - m - 1], t[i - m])
        BY <1>2, <3>1 DEF n
      <3> QED BY <3>2, <3>3, <3>4
    <2> QED BY <2>1, <2>2
  <1> HIDE DEF h
  <1>8. Reads(a, st, c)
    BY <1>4, <1>5, <1>6, <1>7 DEF Reads
  <1> QED BY <1>8 DEF st

LEMMA ReadsCloses ==
    ASSUME NEW h \in HostSet, NEW k \in 0 .. Len(h.in)
    PROVE  Reads(h, [x \in 1 .. k |-> Close],
                 [h EXCEPT !.in = SubSeq(h.in, 1, Len(h.in) - k)])
  <1> DEFINE n == Len(h.in)
             t == [x \in 1 .. k |-> Close]
             At(i) == [h EXCEPT !.in = SubSeq(h.in, 1, n - i)]
             f == [i \in 0 .. k |-> At(i)]
  <1>1. h.in \in Seq(Names) /\ n \in Nat /\ k \in Nat /\ k <= n
    BY DEF HostSet, Path
  <1>2. Len(t) = k /\ \A i \in 1 .. k : t[i] = Close
    BY <1>1
  <1>3. f[0] = h /\ f[k] = At(k)
    <2>1. SubSeq(h.in, 1, n - 0) = h.in
      BY <1>1
    <2>2. At(0) = h
      BY <2>1 DEF HostSet
    <2> QED BY <1>1, <2>2
  <1>4. ASSUME NEW i \in 1 .. k PROVE f[i] = Take(f[i - 1], t[i])
    <2> DEFINE b == n - (i - 1)
               s == SubSeq(h.in, 1, b)
    <2>1. b \in 0 .. n /\ b > 0 /\ b - 1 = n - i
      BY <1>1
    <2>2. s \in Seq(Names) /\ Len(s) = b /\ Front(s) = SubSeq(h.in, 1, b - 1)
      BY <1>1, <2>1, StartOf
    <2>3. i \in 0 .. k /\ i - 1 \in 0 .. k
      BY <1>1
    <2>4. f[i - 1] = [h EXCEPT !.in = s] /\ f[i] = [h EXCEPT !.in = SubSeq(h.in, 1, n - i)]
      BY <2>3
    <2> HIDE DEF b, s, f
    <2>5. s # <<>>
      BY <2>1, <2>2
    <2>6. Take(f[i - 1], Close) = [h EXCEPT !.in = Front(s)]
      <3>1. f[i - 1].in = s /\ Close[1] = "close"
        BY <2>4 DEF HostSet, Close
      <3>2. Take(f[i - 1], Close) = [f[i - 1] EXCEPT !.in = Front(s)]
        BY <2>5, <3>1 DEF Take
      <3> QED BY <2>4, <3>2 DEF HostSet
    <2>7. Front(s) = SubSeq(h.in, 1, n - i)
      BY <2>1, <2>2
    <2> QED BY <1>2, <2>4, <2>6, <2>7
  <1> HIDE DEF f, t
  <1>5. Reads(h, t, At(k))
    BY <1>2, <1>3, <1>4 DEF Reads
  <1> QED BY <1>5 DEF t

LEMMA ReadsOpens ==
    ASSUME NEW h \in HostSet, NEW c \in Path, NEW j \in 0 .. Len(c),
           h.in = SubSeq(c, 1, j)
    PROVE  Reads(h, [x \in 1 .. Len(c) - j |-> Open(c[j + x])],
                 [h EXCEPT !.in = c])
  <1> DEFINE k == Len(c) - j
             t == [x \in 1 .. k |-> Open(c[j + x])]
             f == [i \in 0 .. k |-> [h EXCEPT !.in = SubSeq(c, 1, j + i)]]
  <1>1. c \in Seq(Names) /\ k \in Nat /\ j \in Nat /\ j + k = Len(c)
    BY DEF Path
  <1>2. Len(t) = k /\ \A i \in 1 .. k : t[i] = Open(c[j + i])
    BY <1>1
  <1>3. f[0] = h /\ f[k] = [h EXCEPT !.in = c]
    <2>1. SubSeq(c, 1, j + 0) = h.in /\ SubSeq(c, 1, j + k) = c
      BY <1>1
    <2>2. [h EXCEPT !.in = h.in] = h
      BY DEF HostSet
    <2>3. 0 \in 0 .. k /\ k \in 0 .. k
      BY <1>1
    <2>4. /\ f[0] = [h EXCEPT !.in = SubSeq(c, 1, j + 0)]
          /\ f[k] = [h EXCEPT !.in = SubSeq(c, 1, j + k)]
      BY <2>3
    <2> QED BY <2>1, <2>2, <2>4
  <1>4. ASSUME NEW i \in 1 .. k PROVE f[i] = Take(f[i - 1], t[i])
    <2> DEFINE b == j + (i - 1)
               s == SubSeq(c, 1, b)
    <2>1. b \in 0 .. Len(c) /\ b < Len(c) /\ b + 1 = j + i
      BY <1>1
    <2>2. Append(s, c[b + 1]) = SubSeq(c, 1, b + 1)
      BY <1>1, <2>1, StartOf
    <2>3. i \in 0 .. k /\ i - 1 \in 0 .. k
      BY <1>1
    <2>4. f[i - 1] = [h EXCEPT !.in = s] /\ f[i] = [h EXCEPT !.in = SubSeq(c, 1, j + i)]
      BY <2>3
    <2> DEFINE n == c[j + i]
    <2> HIDE DEF b, s, f, n
    <2>5. Take(f[i - 1], Open(n)) = [h EXCEPT !.in = Append(s, n)]
      <3>1. f[i - 1].in = s /\ Open(n)[1] = "open" /\ Open(n)[2] = n
        BY <2>4 DEF HostSet, Open
      <3>2. Take(f[i - 1], Open(n)) = [f[i - 1] EXCEPT !.in = Append(s, n)]
        BY <3>1 DEF Take
      <3> QED BY <2>4, <3>2 DEF HostSet
    <2>6. Append(s, n) = SubSeq(c, 1, j + i)
      BY <2>1, <2>2 DEF n
    <2> QED BY <1>2, <2>4, <2>5, <2>6 DEF n
  <1> HIDE DEF f, t
  <1>5. Reads(h, t, [h EXCEPT !.in = c])
    BY <1>2, <1>3, <1>4 DEF Reads
  <1> QED BY <1>5 DEF t, k

\* Two directories are the same up to a level and at none after it.
Parted(p, c, k) ==
    /\ k \in 0 .. Len(p) /\ k <= Len(c)
    /\ \A x \in 1 .. k : p[x] = c[x]
    /\ \A x \in k + 1 .. Len(p) : x \in DOMAIN c => p[x] # c[x]
Near(p, c) == \E k \in 0 .. Len(p) : Parted(p, c, k)

\* What lies between two lines takes the host from the one's directory to that
\* of the other.
LEMMA ReadsTurn ==
    ASSUME NEW h \in HostSet, NEW c \in Path, NEW t, IsDir(t, c),
           Near(h.in, c)
    PROVE  /\ Closing(h.in, c) \in Seq(Tags) /\ Opening(t, h.in, c) \in Seq(Tags)
           /\ Reads(h, Closing(h.in, c) \o Opening(t, h.in, c),
                    [h EXCEPT !.in = c])
  <1> DEFINE p == h.in
  <1>1. PICK k \in 0 .. Len(p) : Parted(p, c, k)
    BY DEF Near
  <1>2. /\ p \in Seq(Names) /\ c \in Seq(Names) /\ Len(p) \in Nat
        /\ Len(c) \in Nat /\ DOMAIN p = 1 .. Len(p) /\ DOMAIN c = 1 .. Len(c)
        /\ k \in Nat /\ k <= Len(p) /\ k <= Len(c)
        /\ \A x \in 1 .. Len(c) : c[x] \in Names
    BY <1>1 DEF HostSet, Path, Parted
  <1>3. Differ(p, c) = k + 1 .. Len(p) /\ Differ(c, p) = k + 1 .. Len(c)
    BY <1>1, <1>2 DEF Parted, Differ
  <1> DEFINE m == Len(p) - k  n == Len(c) - k
  <1>4. m \in Nat /\ n \in Nat /\ k + m = Len(p) /\ k + n = Len(c)
    BY <1>2
  <1>5. Closing(p, c) = [x \in 1 .. m |-> Close]
    <2>1. Cardinality(k + 1 .. Len(p)) = m
      <3>1. k + 1 \in Int /\ Len(p) \in Int
        BY <1>2
      <3>2. Cardinality(k + 1 .. Len(p))
               = IF k + 1 > Len(p) THEN 0 ELSE Len(p) - (k + 1) + 1
        BY <3>1, FS_Interval
      <3> QED BY <1>2, <3>2
    <2> QED BY <1>3, <2>1 DEF Closing
  <1>6. Opening(t, p, c) = [x \in 1 .. n |-> Open(c[k + x])]
    <2>1. Ascending(k + 1 .. Len(c)) = [i \in 1 .. n |-> k + i]
      BY <1>2, <1>4, AscendingInterval
    <2> DEFINE levels == Ascending(Differ(c, p))
    <2>2. Opening(t, p, c) = [i \in DOMAIN levels |-> Open(c[levels[i]])]
      BY DEF Opening
    <2>3. levels = [i \in 1 .. n |-> k + i]
      BY <1>3, <2>1
    <2> HIDE DEF levels
    <2> QED BY <2>2, <2>3
  <1>7. Closing(p, c) \in Seq(Tags) /\ Opening(t, p, c) \in Seq(Tags)
    <2>1. Close \in Tags /\ \A x \in 1 .. n : Open(c[k + x]) \in Tags
      <3>1. \A x \in 1 .. n : c[k + x] \in Names
        BY <1>2, <1>4
      <3> QED BY <3>1 DEF Tags
    <2> HIDE DEF m, n
    <2> QED BY <1>4, <1>5, <1>6, <2>1
  <1> DEFINE a == SubSeq(p, 1, k)
             g == [h EXCEPT !.in = a]
  <1>8. Reads(h, Closing(p, c), g)
    <2>1. Len(p) - m = k /\ m \in 0 .. Len(p)
      BY <1>2
    <2>2. Reads(h, [x \in 1 .. m |-> Close],
                [h EXCEPT !.in = SubSeq(h.in, 1, Len(h.in) - m)])
      BY <2>1, ReadsCloses
    <2> QED BY <1>5, <2>1, <2>2
  <1>9. a = SubSeq(c, 1, k) /\ a \in Path
    <2>1. /\ a \in Seq(Names) /\ Len(a) = k /\ \A i \in 1 .. k : a[i] = p[i]
      BY <1>2, StartOf
    <2>2. /\ SubSeq(c, 1, k) \in Seq(Names) /\ Len(SubSeq(c, 1, k)) = k
          /\ \A i \in 1 .. k : SubSeq(c, 1, k)[i] = c[i]
      BY <1>2, StartOf
    <2>3. \A i \in 1 .. k : a[i] = SubSeq(c, 1, k)[i]
      BY <1>1, <2>1, <2>2 DEF Parted
    <2> HIDE DEF a
    <2> QED BY <2>1, <2>2, <2>3, SeqEqual DEF Path
  <1>10. Reads(g, Opening(t, p, c), [h EXCEPT !.in = c])
    <2>1. g \in HostSet /\ g.in = SubSeq(c, 1, k) /\ k \in 0 .. Len(c)
      <3>1. k \in 0 .. Len(c)
        BY <1>2
      <3> HIDE DEF a
      <3> QED BY <1>9, <3>1 DEF HostSet
    <2>2. [g EXCEPT !.in = c] = [h EXCEPT !.in = c]
      BY DEF HostSet
    <2> HIDE DEF g
    <2>3. Reads(g, [x \in 1 .. n |-> Open(c[k + x])], [g EXCEPT !.in = c])
      BY <2>1, ReadsOpens
    <2> QED BY <1>6, <2>2, <2>3
  <1>11. Reads(h, Closing(p, c) \o Opening(t, p, c), [h EXCEPT !.in = c])
    <2> HIDE DEF g, p
    <2> QED BY <1>7, <1>8, <1>10, ReadsJoined
  <1> QED BY <1>7, <1>11

-----------------------------------------------------------------------------
(* The listing: what one page is made of.                                    *)

GoodLines(L) ==
    /\ L \in Seq(Path) /\ \A i \in 1 .. Len(L) : L[i] # <<>>
    /\ \A i, j \in 1 .. Len(L) : L[i] = L[j] => i = j
    /\ \A i \in 1 .. Len(L) - 1 : Near(Front(L[i]), Front(L[i + 1]))

PrintSet == [out : Seq(Tags), prevdir : Path, index : Nat]

LEMMA TurnTyped ==
    ASSUME NEW p \in Path, NEW c \in Path, NEW t
    PROVE  Closing(p, c) \in Seq(Tags) /\ Opening(t, p, c) \in Seq(Tags)
  <1>1. /\ p \in Seq(Names) /\ c \in Seq(Names) /\ Len(p) \in Nat
        /\ Len(c) \in Nat /\ DOMAIN p = 1 .. Len(p) /\ DOMAIN c = 1 .. Len(c)
        /\ \A x \in 1 .. Len(c) : c[x] \in Names
    BY DEF Path
  <1>2. IsFiniteSet(1 .. Len(p)) /\ IsFiniteSet(1 .. Len(c))
    BY <1>1, FS_Interval
  <1>3. Differ(p, c) \in SUBSET (1 .. Len(p)) /\ Differ(c, p) \in SUBSET (1 .. Len(c))
    BY <1>1 DEF Differ
  <1>4. IsFiniteSet(Differ(p, c)) /\ IsFiniteSet(Differ(c, p))
    BY <1>2, <1>3, FS_Subset
  <1>5. Closing(p, c) \in Seq(Tags)
    <2>1. Cardinality(Differ(p, c)) \in Nat
      BY <1>4, FS_CardinalityType
    <2>2. Close \in Tags
      BY DEF Tags
    <2> QED BY <2>1, <2>2 DEF Closing
  <1>6. Opening(t, p, c) \in Seq(Tags)
    <2> DEFINE S == Differ(c, p)  levels == Ascending(S)  n == Cardinality(S)
    <2>1. S \in SUBSET Nat
      BY <1>3
    <2>2. n \in Nat /\ levels \in [1 .. n -> S]
      BY <1>4, <2>1, AscendingIs DEF Ascends
    <2>3. Opening(t, p, c) = IF ~IsDir(t, c) THEN <<>>
                             ELSE [i \in DOMAIN levels |-> Open(c[levels[i]])]
      BY DEF Opening
    <2> HIDE DEF levels, n
    <2>4. \A i \in 1 .. n : Open(c[levels[i]]) \in Tags
      BY <1>1, <1>3, <2>2 DEF Tags
    <2> QED BY <2>2, <2>3, <2>4
  <1> QED BY <1>5, <1>6

LEMMA PathParts ==
    ASSUME NEW line \in Path, line # <<>>
    PROVE  /\ Front(line) \in Path /\ Last(line) \in Names
           /\ Append(Front(line), Last(line)) = line
           /\ Len(line) \in Nat \ {0} /\ Len(Front(line)) = Len(line) - 1
           /\ \A i \in 1 .. Len(line) - 1 : Front(line)[i] = line[i]
  <1>1. line \in Seq(Names) /\ Len(line) \in Nat \ {0}
    BY DEF Path
  <1> DEFINE k == Len(line) - 1
  <1>2. k \in 0 .. Len(line) /\ k < Len(line) /\ k + 1 = Len(line)
    BY <1>1
  <1>3. /\ SubSeq(line, 1, k) \in Seq(Names) /\ Len(SubSeq(line, 1, k)) = k
        /\ \A i \in 1 .. k : SubSeq(line, 1, k)[i] = line[i]
        /\ Append(SubSeq(line, 1, k), line[k + 1]) = SubSeq(line, 1, k + 1)
    BY <1>1, <1>2, StartOf
  <1>4. SubSeq(line, 1, k + 1) = line
    BY <1>1, <1>2, SubSeqFull
  <1>5. line[k + 1] \in Names
    BY <1>1, <1>2
  <1> QED BY <1>1, <1>2, <1>3, <1>4, <1>5 DEF Front, Last, Path

LEMMA PrintTyped ==
    ASSUME NEW t, NEW r \in PrintSet, NEW line \in Path, line # <<>>
    PROVE  PrintLine(t, r, line) \in PrintSet
  <1> DEFINE c == Front(line)
             close == Closing(r.prevdir, c)
             open == Opening(t, r.prevdir, c)
             out == r.out \o close \o open
             room == Len(out) < pageSize
  <1>1. /\ c \in Path /\ Last(line) \in Names /\ r.out \in Seq(Tags)
        /\ r.prevdir \in Path /\ r.index \in Nat
    BY PathParts DEF PrintSet
  <1>2. close \in Seq(Tags) /\ open \in Seq(Tags)
    BY <1>1, TurnTyped
  <1> HIDE DEF close, open
  <1>3. r.out \o close \in Seq(Tags)
    BY <1>1, <1>2, ConcatProperties
  <1>4. out \in Seq(Tags)
    BY <1>2, <1>3, ConcatProperties
  <1>5. Append(out, File(Last(line))) \in Seq(Tags)
    <2>1. File(Last(line)) \in Tags
      BY <1>1 DEF Tags
    <2> HIDE DEF out
    <2> QED BY <1>4, <2>1, AppendProperties
  <1>6. PrintLine(t, r, line) =
           IF Len(r.out) >= pageSize THEN r
           ELSE [prevdir |-> c,
                 index |-> IF room THEN r.index + 1 ELSE r.index,
                 out |-> IF room /\ IsFile(t, line)
                         THEN Append(out, File(Last(line))) ELSE out]
    BY DEF PrintLine, close, open
  <1> HIDE DEF c, room, out
  <1> QED BY <1>1, <1>4, <1>5, <1>6 DEF PrintSet

\* The loop of get_dirents.
Prints(t, f, n) ==
    /\ f \in [0 .. n -> PrintSet]
    /\ f[0] = [out |-> <<>>, prevdir |-> <<>>, index |-> Skipped]
    /\ \A i \in 1 .. n : f[i] = PrintLine(t, f[i - 1], lines[Skipped + i])

PageOf(r) ==
    [tags |-> r.out \o [x \in DOMAIN r.prevdir |-> Close],
     index |-> r.index, moreData |-> Len(r.out) >= pageSize]

LEMMA PrintedIs ==
    ASSUME NEW t, GoodLines(lines), Skipped \in 0 .. Len(lines)
    PROVE  \E f : /\ Prints(t, f, Len(lines) - Skipped)
                  /\ GetDirents(t) = PageOf(f[Len(lines) - Skipped])
  <1> DEFINE n == Len(lines) - Skipped
             r0 == [out |-> <<>>, prevdir |-> <<>>, index |-> Skipped]
             Next_(r, i) == PrintLine(t, r, lines[Skipped + i])
             Eq(f) == f = [i \in 0 .. n |-> IF i = 0 THEN r0
                                            ELSE Next_(f[i - 1], i)]
             step == [i \in 1 .. n |-> [r \in PrintSet |-> Next_(r, i)]]
  <1>0. n \in Nat /\ r0 \in PrintSet
    BY DEF PrintSet, Path, GoodLines
  <1>1. GetDirents(t) = PageOf((CHOOSE f : Eq(f))[n])
    BY Zenon DEF GetDirents, PageOf
  <1>2. \A i \in 1 .. n, r \in PrintSet : Next_(r, i) \in PrintSet
    <2> SUFFICES ASSUME NEW i \in 1 .. n, NEW r \in PrintSet
                 PROVE  PrintLine(t, r, lines[Skipped + i]) \in PrintSet
      OBVIOUS
    <2>1. Skipped + i \in 1 .. Len(lines)
      BY DEF GoodLines
    <2>2. lines[Skipped + i] \in Path /\ lines[Skipped + i] # <<>>
      BY <2>1 DEF GoodLines
    <2> QED BY <2>2, PrintTyped
  <1> HIDE DEF n, Next_, r0
  <1>3. step \in [1 .. n -> [PrintSet -> PrintSet]]
    BY <1>2
  <1> HIDE DEF step
  <1>4. PICK g \in [0 .. n -> PrintSet] :
           g = [i \in 0 .. n |-> IF i = 0 THEN r0 ELSE step[i][g[i - 1]]]
    <2>1. Runs(n, PrintSet, r0, step)
      BY <1>0, <1>3, LoopExists
    <2> QED BY <2>1 DEF Runs
  <1>5. \A i \in 0 .. n : g[i] = IF i = 0 THEN r0 ELSE Next_(g[i - 1], i)
    <2> SUFFICES ASSUME NEW i \in 0 .. n, i # 0
                 PROVE  g[i] = Next_(g[i - 1], i)
      BY <1>0, <1>4
    <2>1. i \in 1 .. n /\ i - 1 \in 0 .. n
      BY <1>0
    <2>2. g[i - 1] \in PrintSet /\ g[i] = step[i][g[i - 1]]
      BY <1>4, <2>1
    <2> QED BY <2>1, <2>2 DEF step
  <1>6. Eq(g)
    <2> DEFINE h == [i \in 0 .. n |-> IF i = 0 THEN r0 ELSE Next_(g[i - 1], i)]
    <2>1. \A i \in 0 .. n : g[i] = h[i]
      BY <1>5
    <2>2. g = [i \in 0 .. n |-> g[i]] /\ h = [i \in 0 .. n |-> h[i]]
      OBVIOUS
    <2>3. g = h
      <3> HIDE DEF h
      <3> QED BY <2>1, <2>2
    <2> QED BY <2>3
  <1> HIDE DEF Eq
  <1>7. PICK f : Eq(f) /\ GetDirents(t) = PageOf(f[n])
    BY <1>1, <1>6
  <1>8. /\ f = [i \in 0 .. n |-> f[i]]
        /\ f[0] = r0 /\ \A i \in 1 .. n : f[i] = Next_(f[i - 1], i)
    <2> DEFINE h == [i \in 0 .. n |-> IF i = 0 THEN r0 ELSE Next_(f[i - 1], i)]
    <2>1. /\ h = [i \in 0 .. n |-> h[i]] /\ h[0] = r0
          /\ \A i \in 1 .. n : h[i] = Next_(f[i - 1], i)
      BY <1>0
    <2>2. f = h
      BY <1>7 DEF Eq
    <2> HIDE DEF h
    <2> QED BY <2>1, <2>2
  <1> DEFINE T == {i \in 0 .. n : f[i] \in PrintSet}
  <1>9. 0 \in T /\ \A i \in 1 .. n : i - 1 \in T => i \in T
    <2>1. ASSUME NEW i \in 1 .. n, f[i - 1] \in PrintSet PROVE f[i] \in PrintSet
      BY <1>2, <1>8, <2>1
    <2>2. 0 \in 0 .. n /\ \A i \in 1 .. n : i \in 0 .. n
      BY <1>0
    <2> QED BY <1>0, <1>8, <2>1, <2>2
  <1>10. \A i \in 0 .. n : i \in T
    <2> HIDE DEF T
    <2> QED BY <1>0, <1>9, Steps
  <1>11. f \in [0 .. n -> PrintSet]
    BY <1>8, <1>10
  <1>12. Prints(t, f, n)
    BY <1>8, <1>11 DEF Prints, Next_, r0
  <1> QED BY <1>7, <1>12 DEF n

\* The files of s are lines after a, up to b, each at a later place.
Rising(s, a, b) ==
    /\ \A i \in DOMAIN s : s[i] \in ToSet(lines) /\ PlaceOf(s[i]) \in a + 1 .. b
    /\ \A i, j \in DOMAIN s : i < j => PlaceOf(s[i]) < PlaceOf(s[j])

\* And they are all the files among them.
Selects(s, a, b, t) ==
    /\ Rising(s, a, b)
    /\ \A i \in a + 1 .. b : IsFile(t, lines[i]) => lines[i] \in ToSet(s)

\* Where the loop is after i lines.
Written(t, r, i) ==
    /\ r \in PrintSet /\ r.index \in Skipped .. Skipped + i
    /\ Len(r.out) < pageSize =>
          /\ r.index = Skipped + i
          /\ r.prevdir = IF i = 0 THEN <<>> ELSE Front(lines[Skipped + i])
    /\ \E h \in HostSet :
          /\ Reads(Unread, r.out, h) /\ h.sound /\ h.in = r.prevdir
          /\ Selects(h.files, Skipped, r.index, t)

LEMMA PlaceIs ==
    ASSUME GoodLines(lines)
    PROVE  /\ \A i \in 1 .. Len(lines) :
                 PlaceOf(lines[i]) = i /\ lines[i] \in ToSet(lines)
           /\ \A p \in ToSet(lines) : /\ PlaceOf(p) \in 1 .. Len(lines)
                                      /\ lines[PlaceOf(p)] = p
  <1>1. DOMAIN lines = 1 .. Len(lines)
    BY DEF GoodLines
  <1>2. ASSUME NEW p \in ToSet(lines)
        PROVE  PlaceOf(p) \in 1 .. Len(lines) /\ lines[PlaceOf(p)] = p
    <2>1. \E i \in DOMAIN lines : lines[i] = p
      BY DEF ToSet
    <2> QED BY <1>1, <2>1 DEF PlaceOf
  <1>3. \A i \in 1 .. Len(lines) : lines[i] \in ToSet(lines)
    BY <1>1 DEF ToSet
  <1> QED BY <1>2, <1>3 DEF GoodLines

LEMMA RisingMore ==
    ASSUME GoodLines(lines), NEW s \in Seq(Path), NEW a \in Nat, NEW b \in Nat,
           NEW c \in Nat, NEW i \in 1 .. Len(lines), a <= b, b < i, i <= c,
           Rising(s, a, b)
    PROVE  Rising(Append(s, lines[i]), a, c)
  <1> DEFINE l == lines[i]  m == Len(s)  r == Append(s, l)
  <1>1. l \in Path /\ PlaceOf(l) = i /\ l \in ToSet(lines) /\ i \in Nat
    BY PlaceIs DEF GoodLines
  <1>2. m \in Nat /\ DOMAIN s = 1 .. m
    OBVIOUS
  <1> HIDE DEF l
  <1>3. /\ DOMAIN r = 1 .. m + 1 /\ \A j \in 1 .. m : r[j] = s[j]
        /\ r[m + 1] = l
    <2>1. /\ r \in Seq(Path) /\ Len(r) = m + 1 /\ r[m + 1] = l
          /\ \A j \in 1 .. m : r[j] = s[j]
      BY <1>1, AppendProperties
    <2> HIDE DEF r, m
    <2>2. DOMAIN r = 1 .. Len(r)
      BY <2>1, LenProperties
    <2> QED BY <2>1, <2>2
  <1> HIDE DEF r, m
  <1>4. \A j \in 1 .. m : /\ s[j] \in ToSet(lines)
                          /\ PlaceOf(s[j]) \in a + 1 .. b
    BY <1>2 DEF Rising
  <1>5. \A j \in 1 .. m + 1 : j \in 1 .. m \/ j = m + 1
    BY <1>2
  <1>6. ASSUME NEW j \in 1 .. m + 1
        PROVE  r[j] \in ToSet(lines) /\ PlaceOf(r[j]) \in a + 1 .. c
    <2>1. CASE j \in 1 .. m
      <3>1. PlaceOf(s[j]) \in a + 1 .. c
        BY <1>4, <2>1
      <3> QED BY <1>3, <1>4, <2>1, <3>1
    <2>2. CASE j = m + 1
      BY <1>1, <1>3, <2>2
    <2> QED BY <1>5, <2>1, <2>2
  <1>7. ASSUME NEW j \in 1 .. m + 1, NEW k \in 1 .. m + 1, j < k
        PROVE  PlaceOf(r[j]) < PlaceOf(r[k])
    <2>1. j \in 1 .. m
      BY <1>2, <1>7
    <2>2. CASE k \in 1 .. m
      BY <1>2, <1>3, <1>7, <2>1, <2>2 DEF Rising
    <2>3. CASE k = m + 1
      <3>1. PlaceOf(r[k]) = i /\ r[j] = s[j] /\ PlaceOf(s[j]) \in a + 1 .. b
        BY <1>1, <1>3, <1>4, <2>1, <2>3
      <3> QED BY <1>1, <3>1
    <2> QED BY <1>5, <2>2, <2>3
  <1>8. Rising(r, a, c)
    BY <1>3, <1>6, <1>7 DEF Rising
  <1> QED BY <1>8 DEF r, l

LEMMA RisingWiden ==
    ASSUME NEW s, NEW a \in Nat, NEW b \in Nat, NEW c \in Nat, b <= c,
           Rising(s, a, b)
    PROVE  Rising(s, a, c)
  <1>1. ASSUME NEW i \in DOMAIN s PROVE PlaceOf(s[i]) \in a + 1 .. c
    <2>1. PlaceOf(s[i]) \in a + 1 .. b
      BY DEF Rising
    <2> QED BY <2>1
  <1> QED BY <1>1 DEF Rising

LEMMA WrittenFirst ==
    ASSUME NEW t, Skipped \in Nat, pageSize \in Nat \ {0}
    PROVE  Written(t, [out |-> <<>>, prevdir |-> <<>>, index |-> Skipped], 0)
  <1> DEFINE r == [out |-> <<>>, prevdir |-> <<>>, index |-> Skipped]
  <1>1. r \in PrintSet /\ r.index \in Skipped .. Skipped + 0
    BY DEF PrintSet, Path
  <1>2. Unread \in HostSet /\ Unread.sound /\ Unread.in = <<>>
        /\ Unread.files = <<>>
    BY DEF Unread, HostSet, Path
  <1>3. Selects(<<>>, Skipped, Skipped, t)
    BY DEF Selects, Rising, ToSet
  <1>4. Reads(Unread, <<>>, Unread)
    BY ReadsNothing
  <1>5. r.index = Skipped + 0 /\ r.index = Skipped /\ r.out = <<>>
        /\ r.prevdir = <<>>
    OBVIOUS
  <1> HIDE DEF r
  <1>6. Written(t, r, 0)
    BY <1>1, <1>2, <1>3, <1>4, <1>5 DEF Written
  <1> QED BY <1>6 DEF r

\* One line more.
LEMMA WrittenNext ==
    ASSUME GoodLines(lines), Skipped \in Nat, pageSize \in Nat \ {0}, NEW t,
           NEW i \in 1 .. Len(lines) - Skipped, NEW r, Written(t, r, i - 1),
           IsDir(t, Front(lines[Skipped + i]))
    PROVE  Written(t, PrintLine(t, r, lines[Skipped + i]), i)
  <1> DEFINE at == Skipped + i
             line == lines[at]
             c == Front(line)
             q == PrintLine(t, r, line)
  <1>1. /\ at \in 1 .. Len(lines) /\ at \in Nat /\ i \in Nat /\ i # 0
        /\ at = Skipped + (i - 1) + 1 /\ Len(lines) \in Nat
    BY DEF GoodLines
  <1>2. line \in Path /\ line # <<>>
    BY <1>1 DEF GoodLines
  <1>3. /\ c \in Path /\ Last(line) \in Names
        /\ Append(c, Last(line)) = line
    BY <1>2, PathParts
  <1>4. r \in PrintSet /\ r.index \in Skipped .. Skipped + (i - 1)
    BY DEF Written
  <1>5. PICK h \in HostSet :
           /\ Reads(Unread, r.out, h) /\ h.sound /\ h.in = r.prevdir
           /\ Selects(h.files, Skipped, r.index, t)
    BY DEF Written
  <1>6. q \in PrintSet
    BY <1>2, <1>4, PrintTyped
  <1> HIDE DEF at, line, c, q
  <1>7. CASE Len(r.out) >= pageSize
    <2>1. q = r
      BY <1>7 DEF q, PrintLine, line, at
    <2>2. ~ Len(r.out) < pageSize
      <3>1. Len(r.out) \in Nat
        BY <1>4 DEF PrintSet
      <3> QED BY <1>7, <3>1
    <2>3. r.index \in Skipped .. Skipped + i
      BY <1>1, <1>4
    <2> QED BY <1>4, <1>5, <2>1, <2>2, <2>3 DEF Written, q, line, at
  <1>8. CASE ~ Len(r.out) >= pageSize
    <2> DEFINE close == Closing(r.prevdir, c)
               open == Opening(t, r.prevdir, c)
               out == r.out \o close \o open
               room == Len(out) < pageSize
               g == [h EXCEPT !.in = c]
    <2>1. r.out \in Seq(Tags) /\ Len(r.out) \in Nat /\ r.prevdir \in Path
          /\ r.index \in Nat
      BY <1>4 DEF PrintSet
    <2>2. /\ r.index = Skipped + (i - 1)
          /\ r.prevdir = IF i - 1 = 0 THEN <<>>
                         ELSE Front(lines[Skipped + (i - 1)])
      BY <1>8, <2>1 DEF Written
    <2>3. Near(r.prevdir, c)
      <3>1. CASE i = 1
        <4>1. r.prevdir = <<>> /\ Len(<<>>) = 0
          BY <2>2, <3>1
        <4>2. Len(c) \in Nat
          BY <1>3 DEF Path
        <4>3. Parted(<<>>, c, 0)
          BY <4>2 DEF Parted
        <4> QED BY <4>1, <4>3 DEF Near
      <3>2. CASE i # 1
        <4>1. Skipped + (i - 1) \in 1 .. Len(lines) - 1
          BY <1>1, <3>2
        <4>2. Near(Front(lines[Skipped + (i - 1)]),
                   Front(lines[Skipped + (i - 1) + 1]))
          BY <4>1 DEF GoodLines
        <4>3. r.prevdir = Front(lines[Skipped + (i - 1)])
          BY <1>1, <2>2, <3>2
        <4> QED BY <1>1, <4>2, <4>3 DEF c, line
      <3> QED BY <3>1, <3>2
    <2>4. /\ close \in Seq(Tags) /\ open \in Seq(Tags)
          /\ Reads(h, close \o open, g)
      <3>1. IsDir(t, c) /\ Near(h.in, c) /\ h.in = r.prevdir
        BY <1>5, <2>3 DEF c, line, at
      <3> QED BY <1>3, <3>1, ReadsTurn
    <2>5. g \in HostSet /\ g.sound /\ g.in = c /\ g.files = h.files
          /\ h.files \in Seq(Path)
      BY <1>3, <1>5 DEF HostSet
    <2>6. q = [prevdir |-> c,
               index |-> IF room THEN r.index + 1 ELSE r.index,
               out |-> IF room /\ IsFile(t, line)
                       THEN Append(out, File(Last(line))) ELSE out]
      BY <1>8 DEF q, PrintLine, c
    <2> HIDE DEF close, open, g
    <2>7. out \in Seq(Tags) /\ Reads(Unread, out, g) /\ Len(out) \in Nat
      <3>1. close \o open \in Seq(Tags)
        BY <2>4, ConcatProperties
      <3>2. out = r.out \o (close \o open)
        <4>1. r.out \in Seq(Tags) /\ close \in Seq(Tags) /\ open \in Seq(Tags)
          BY <2>1, <2>4
        <4>2. \A u, v, w \in Seq(Tags) : (u \o v) \o w = u \o (v \o w)
          BY ConcatAssociative
        <4> QED BY <4>1, <4>2, Zenon
      <3>3. out \in Seq(Tags)
        BY <2>1, <3>1, <3>2, ConcatProperties
      <3>4. Reads(Unread, r.out \o (close \o open), g)
        BY <1>5, <2>1, <2>4, <3>1, ReadsJoined
      <3> HIDE DEF out
      <3>5. Reads(Unread, out, g)
        BY <3>2, <3>4, Zenon
      <3>6. Len(out) \in Nat
        BY <3>3
      <3> QED BY <3>3, <3>5, <3>6
    <2> HIDE DEF out
    <2>8. CASE ~ room
      <3>1. q.index = r.index /\ q.out = out /\ q.prevdir = c
        BY <2>6, <2>8
      <3>2. r.index \in Skipped .. Skipped + i /\ ~ Len(q.out) < pageSize
        BY <1>1, <1>4, <2>8, <3>1
      <3>3. Selects(g.files, Skipped, q.index, t)
        BY <1>5, <2>5, <3>1
      <3> HIDE DEF room
      <3>4. Written(t, q, i)
        BY <1>6, <2>5, <2>7, <3>1, <3>2, <3>3 DEF Written
      <3> QED BY <3>4 DEF q, line, at
    <2>9. CASE room
      <3>1. /\ q.prevdir = c /\ q.index = r.index + 1
            /\ q.out = IF IsFile(t, line) THEN Append(out, File(Last(line)))
                       ELSE out
        BY <2>6, <2>9
      <3>2. q.index = at /\ at \in Skipped .. Skipped + i
        BY <1>1, <2>1, <2>2, <3>1 DEF at
      <3>3. /\ Selects(h.files, Skipped, at - 1, t) /\ at - 1 \in Nat
            /\ Skipped <= at - 1 /\ at - 1 <= at /\ at - 1 < at
            /\ \A j \in Skipped + 1 .. at : j \in Skipped + 1 .. at - 1 \/ j = at
        <4>1. r.index = at - 1
          BY <1>1, <2>2 DEF at
        <4> QED BY <1>1, <1>5, <4>1 DEF at
      <3>4. ASSUME NEW e \in HostSet, Reads(Unread, q.out, e), e.sound,
                   e.in = c, Selects(e.files, Skipped, at, t)
            PROVE  Written(t, q, i)
        <4>1. q.index = Skipped + i /\ q.prevdir = Front(lines[Skipped + i])
              /\ Skipped + i \in Skipped .. Skipped + i
          BY <1>1, <3>1, <3>2 DEF at, c, line
        <4> QED BY <1>1, <1>6, <3>1, <3>2, <3>4, <4>1 DEF Written
      <3>5. CASE ~ IsFile(t, line)
        <4>1. q.out = out
          BY <3>1, <3>5
        <4>2. Rising(h.files, Skipped, at)
          BY <1>1, <3>3, RisingWiden DEF Selects
        <4>3. \A j \in Skipped + 1 .. at :
                 IsFile(t, lines[j]) => lines[j] \in ToSet(h.files)
          BY <3>3, <3>5 DEF Selects, line
        <4>4. Selects(h.files, Skipped, at, t)
          BY <4>2, <4>3 DEF Selects
        <4> HIDE DEF room
        <4>5. Written(t, q, i)
          BY <2>5, <2>7, <3>4, <4>1, <4>4
        <4> QED BY <4>5 DEF q, line, at
      <3>6. CASE IsFile(t, line)
        <4> DEFINE tag == File(Last(line))
                   e == [g EXCEPT !.files = Append(h.files, line)]
        <4>1. q.out = out \o <<tag>> /\ tag \in Tags /\ <<tag>> \in Seq(Tags)
          <5>1. tag \in Tags
            BY <1>3 DEF Tags
          <5>2. q.out = Append(out, tag)
            BY <3>1, <3>6
          <5> HIDE DEF tag
          <5> QED BY <2>7, <5>1, <5>2, AppendIsConcat
        <4>2. Take(g, tag) = e
          <5>1. tag[1] = "file" /\ tag[2] = Last(line)
            BY DEF File
          <5>2. Take(g, tag) = [g EXCEPT !.files = Append(@, Append(g.in, tag[2]))]
            BY <5>1 DEF Take
          <5> HIDE DEF tag
          <5>3. Append(g.in, tag[2]) = line
            BY <1>3, <2>5, <5>1
          <5> QED BY <2>5, <5>2, <5>3 DEF HostSet
        <4>3. Reads(Unread, q.out, e)
          <5>1. Reads(g, <<tag>>, Take(g, tag))
            BY ReadsOne
          <5> HIDE DEF tag, e
          <5> QED BY <2>7, <4>1, <4>2, <5>1, ReadsJoined
        <4>4. /\ e \in HostSet /\ e.sound /\ e.in = c
              /\ e.files = Append(h.files, line)
          <5>1. Append(h.files, line) \in Seq(Path)
            BY <1>2, <2>5, AppendProperties
          <5> QED BY <2>5, <5>1 DEF HostSet
        <4>5. Rising(Append(h.files, line), Skipped, at)
          <5>1. Rising(h.files, Skipped, at - 1)
            BY <3>3 DEF Selects
          <5> QED BY <1>1, <2>5, <3>3, <5>1, RisingMore DEF line
        <4>6. \A j \in Skipped + 1 .. at : IsFile(t, lines[j]) =>
                 lines[j] \in ToSet(Append(h.files, line))
          <5> DEFINE s == h.files  m == Len(s)  w == Append(s, line)
          <5>1. /\ w \in Seq(Path) /\ Len(w) = m + 1 /\ w[m + 1] = line
                /\ \A j \in 1 .. m : w[j] = s[j]
            BY <1>2, <2>5, AppendProperties
          <5>2. m \in Nat /\ DOMAIN s = 1 .. m
            BY <2>5
          <5> HIDE DEF w, m, s
          <5>3. DOMAIN w = 1 .. m + 1
            BY <5>1, LenProperties
          <5>4. ToSet(s) \subseteq ToSet(w) /\ line \in ToSet(w)
            BY <5>1, <5>2, <5>3 DEF ToSet
          <5>5. \A j \in Skipped + 1 .. at - 1 : IsFile(t, lines[j]) =>
                   lines[j] \in ToSet(s)
            BY <3>3 DEF Selects, s
          <5>6. \A j \in Skipped + 1 .. at : IsFile(t, lines[j]) =>
                   lines[j] \in ToSet(w)
            BY <3>3, <5>4, <5>5 DEF line
          <5> QED BY <5>6 DEF w, s
        <4>7. Selects(e.files, Skipped, at, t)
          BY <4>4, <4>5, <4>6 DEF Selects
        <4> HIDE DEF e, tag, room
        <4>8. Written(t, q, i)
          BY <3>4, <4>3, <4>4, <4>7
        <4> QED BY <4>8 DEF q, line, at
      <3> QED BY <3>5, <3>6
    <2> QED BY <2>8, <2>9
  <1> QED BY <1>7, <1>8

\* What the host reads on a page, where all the directories are still there.
PageShows(t, page, d) ==
    \E s \in Seq(Path) :
       /\ Taken(page).files = s /\ Taken(page).in = <<>> /\ Taken(page).sound
       /\ Selects(s, Skipped, d.index, t) /\ d.index \in Skipped .. Len(lines)
       /\ ~ d.moreData => d.index = Len(lines)

LEMMA PageRead ==
    ASSUME GoodLines(lines), Skipped \in 0 .. Len(lines),
           pageSize \in Nat \ {0}, NEW t,
           \A i \in 1 .. Len(lines) : IsDir(t, Front(lines[i])),
           NEW page, page.tags = GetDirents(t).tags
    PROVE  PageShows(t, page, GetDirents(t))
  <1> DEFINE n == Len(lines) - Skipped
  <1>1. n \in Nat /\ Len(lines) \in Nat /\ Skipped \in Nat /\ Skipped + n = Len(lines)
    BY DEF GoodLines
  <1>2. PICK f : Prints(t, f, n) /\ GetDirents(t) = PageOf(f[n])
    BY PrintedIs
  <1> DEFINE T == {i \in 0 .. n : Written(t, f[i], i)}
  <1>3. 0 \in T
    <2>1. Written(t, f[0], 0)
      BY <1>1, <1>2, WrittenFirst DEF Prints
    <2> QED BY <1>1, <2>1
  <1>4. ASSUME NEW i \in 1 .. n, i - 1 \in T PROVE i \in T
    <2>1. Written(t, f[i - 1], i - 1)
      BY <1>4
    <2>2. i \in 1 .. Len(lines) - Skipped /\ Skipped + i \in 1 .. Len(lines)
      BY <1>1
    <2>3. Written(t, PrintLine(t, f[i - 1], lines[Skipped + i]), i)
      BY <1>1, <2>1, <2>2, WrittenNext
    <2>4. f[i] = PrintLine(t, f[i - 1], lines[Skipped + i])
      BY <1>2 DEF Prints
    <2> QED BY <1>1, <2>3, <2>4
  <1>5. Written(t, f[n], n)
    <2> HIDE DEF T
    <2>1. \A i \in 1 .. n : i - 1 \in T => i \in T
      BY <1>4
    <2>2. \A i \in 0 .. n : i \in T
      BY <1>1, <1>3, <2>1, Steps, Zenon
    <2>3. n \in 0 .. n
      BY <1>1
    <2>4. n \in T
      BY <2>2, <2>3
    <2> QED BY <2>4 DEF T
  <1> HIDE DEF n
  <1> DEFINE r == f[n]
  <1>6. PICK h \in HostSet :
           /\ Reads(Unread, r.out, h) /\ h.sound /\ h.in = r.prevdir
           /\ Selects(h.files, Skipped, r.index, t)
    BY <1>5 DEF Written
  <1>7. /\ r \in PrintSet /\ r.index \in Skipped .. Len(lines)
        /\ Len(r.out) < pageSize => r.index = Len(lines)
    BY <1>1, <1>5 DEF Written
  <1> HIDE DEF r
  <1> DEFINE k == Len(h.in)
             close == [x \in 1 .. k |-> Close]
             e == [h EXCEPT !.in = SubSeq(h.in, 1, k - k)]
  <1>8. h.in \in Seq(Names) /\ k \in Nat /\ DOMAIN r.prevdir = 1 .. k
    BY <1>6 DEF HostSet, Path
  <1>9. Reads(h, close, e)
    <2>1. k \in 0 .. Len(h.in)
      BY <1>8
    <2> QED BY <2>1, ReadsCloses
  <1>10. close \in Seq(Tags)
    <2>1. Close \in Tags
      BY DEF Tags
    <2> QED BY <1>8, <2>1
  <1>11. e.in = <<>> /\ e.files = h.files /\ e.sound /\ h.files \in Seq(Path)
    <2>1. k - k = 0 /\ SubSeq(h.in, 1, 0) = <<>>
      BY <1>8
    <2> HIDE DEF k
    <2> QED BY <1>6, <2>1 DEF HostSet
  <1> HIDE DEF e
  <1>12. page.tags = r.out \o close
    BY <1>2, <1>8 DEF PageOf, r
  <1>13. /\ GetDirents(t).index = r.index
         /\ GetDirents(t).moreData = (Len(r.out) >= pageSize)
    BY <1>2 DEF PageOf, r
  <1> HIDE DEF close
  <1>14. r.out \in Seq(Tags) /\ Len(r.out) \in Nat
    BY <1>7 DEF PrintSet
  <1>15. Reads(Unread, page.tags, e) /\ Len(page.tags) \in Nat
    <2>1. Reads(Unread, r.out \o close, e)
      BY <1>6, <1>9, <1>10, <1>14, ReadsJoined
    <2>2. r.out \o close \in Seq(Tags)
      BY <1>10, <1>14, ConcatProperties
    <2> QED BY <1>12, <2>1, <2>2
  <1>16. Taken(page) = e
    BY <1>15, TakenIs
  <1>17. ~ GetDirents(t).moreData => r.index = Len(lines)
    <2>1. ~ Len(r.out) >= pageSize => Len(r.out) < pageSize
      BY <1>14
    <2> QED BY <1>7, <1>13, <2>1, Zenon
  <1>18. PICK d : d = GetDirents(t)
    OBVIOUS
  <1>19. PageShows(t, page, d)
    BY <1>6, <1>7, <1>11, <1>13, <1>16, <1>17, <1>18 DEF PageShows
  <1> QED BY <1>18, <1>19

-----------------------------------------------------------------------------
(* The listing: the lines of a directory.                                    *)

\* Induction from what has a lower rank.
LEMMA RankInduction ==
    ASSUME NEW S, NEW N \in Nat, NEW rank \in [S -> 0 .. N], NEW P,
           \A x \in S : (\A y \in S : rank[y] < rank[x] => y \in P) => x \in P
    PROVE  S \subseteq P
  <1> DEFINE T == {k \in 0 .. N + 1 : \A x \in S : rank[x] < k => x \in P}
  <1>1. 0 \in T
    OBVIOUS
  <1>2. ASSUME NEW k \in 1 .. N + 1, k - 1 \in T PROVE k \in T
    <2> SUFFICES ASSUME NEW x \in S, rank[x] < k PROVE x \in P
      OBVIOUS
    <2>1. ASSUME NEW y \in S, rank[y] < rank[x] PROVE y \in P
      <3>1. rank[y] < k - 1
        BY <2>1
      <3> QED BY <1>2, <3>1
    <2> QED BY <2>1
  <1>3. N + 1 \in T
    <2> HIDE DEF T
    <2>1. N + 1 \in Nat /\ N + 1 \in 0 .. N + 1
      OBVIOUS
    <2>2. \A k \in 1 .. N + 1 : k - 1 \in T => k \in T
      BY <1>2
    <2>3. \A k \in 0 .. N + 1 : k \in T
      BY <1>1, <2>1, <2>2, Steps, Zenon
    <2> QED BY <2>1, <2>3
  <1> QED BY <1>3

Dirs(t) == {<<>>} \cup DOMAIN t

Own(t, d) == [i \in DOMAIN Scandir(t, d) |-> Append(d, Scandir(t, d)[i])]

InOwn(t, f, d) ==
    [i \in DOMAIN Own(t, d) |-> IF IsDir(t, Own(t, d)[i])
                                THEN f[Own(t, d)[i]] ELSE <<>>]

LinesOf(t, f, d) == FlattenSeq(InOwn(t, f, d)) \o Own(t, d)

\* How much there is on a deeper level.
Deeper(t, d) == {p \in DOMAIN t : Len(p) > Len(d)}
Rank(t) == [d \in Dirs(t) |-> Cardinality(Deeper(t, d))]

LEMMA TreeFacts ==
    ASSUME NEW t \in Trees
    PROVE  /\ Dirs(t) \subseteq Path /\ Cardinality(DOMAIN t) \in Nat
           /\ Rank(t) \in [Dirs(t) -> 0 .. Cardinality(DOMAIN t)]
           /\ \A d \in Dirs(t), p \in DOMAIN t :
                 Len(p) > Len(d) => Rank(t)[p] < Rank(t)[d]
  <1>1. IsFiniteSet(DOMAIN t) /\ Cardinality(DOMAIN t) \in Nat
    BY ShareAssumption, FS_CardinalityType
  <1>2. Dirs(t) \subseteq Path /\ DOMAIN t \subseteq Dirs(t)
    <2>1. \A p \in DOMAIN t : p \in Path
      BY ShareAssumption DEF Path
    <2>2. <<>> \in Path
      BY DEF Path
    <2> QED BY <2>1, <2>2 DEF Dirs
  <1>3. ASSUME NEW d \in Dirs(t)
        PROVE  /\ IsFiniteSet(Deeper(t, d)) /\ Cardinality(Deeper(t, d)) \in Nat
               /\ Cardinality(Deeper(t, d)) <= Cardinality(DOMAIN t)
    <2>1. Deeper(t, d) \in SUBSET DOMAIN t
      BY DEF Deeper
    <2> QED BY <1>1, <2>1, FS_Subset, FS_CardinalityType
  <1>4. Rank(t) \in [Dirs(t) -> 0 .. Cardinality(DOMAIN t)]
    BY <1>1, <1>3 DEF Rank
  <1>5. ASSUME NEW d \in Dirs(t), NEW p \in DOMAIN t, Len(p) > Len(d)
        PROVE  Rank(t)[p] < Rank(t)[d]
    <2>1. p \in Dirs(t) /\ Len(p) \in Nat /\ Len(d) \in Nat
      BY <1>2 DEF Path
    <2>2. \A q \in DOMAIN t : Len(q) \in Nat
      BY <1>2 DEF Path
    <2>3. Deeper(t, p) \in SUBSET Deeper(t, d)
      BY <1>5, <2>1, <2>2 DEF Deeper
    <2>4. p \in Deeper(t, d) /\ p \notin Deeper(t, p)
      BY <1>5, <2>1 DEF Deeper
    <2>5. Cardinality(Deeper(t, p)) # Cardinality(Deeper(t, d))
      BY <1>3, <2>3, <2>4, FS_Subset
    <2>6. Cardinality(Deeper(t, p)) <= Cardinality(Deeper(t, d))
      BY <1>3, <2>3, FS_Subset
    <2> QED BY <1>3, <2>1, <2>5, <2>6 DEF Rank
  <1> QED BY <1>1, <1>2, <1>4, <1>5

LEMMA FrontOfAppend ==
    ASSUME NEW d \in Path, NEW n \in Names
    PROVE  /\ Append(d, n) \in Path /\ Append(d, n) # <<>>
           /\ Front(Append(d, n)) = d /\ Len(Append(d, n)) = Len(d) + 1
           /\ \A x \in 1 .. Len(d) : Append(d, n)[x] = d[x]
           /\ Append(d, n)[Len(d) + 1] = n
  <1> DEFINE e == Append(d, n)
  <1>1. /\ e \in Seq(Names) /\ e # <<>> /\ Len(e) = Len(d) + 1
        /\ \A x \in 1 .. Len(d) : e[x] = d[x]
        /\ e[Len(d) + 1] = n
    BY AppendProperties DEF Path
  <1>2. d \in Seq(Names) /\ Len(d) \in Nat
    BY DEF Path
  <1> HIDE DEF e
  <1>3. /\ Front(e) \in Path /\ Len(Front(e)) = Len(e) - 1
        /\ \A i \in 1 .. Len(e) - 1 : Front(e)[i] = e[i]
    BY <1>1, PathParts DEF Path
  <1>4. Front(e) = d
    BY <1>1, <1>2, <1>3, SeqEqual DEF Path
  <1> QED BY <1>1, <1>4 DEF e, Path

Below(d, p) == Len(p) > Len(d) /\ \A x \in 1 .. Len(d) : p[x] = d[x]

\* The names in a directory, each once.
LEMMA OwnFacts ==
    ASSUME NEW t \in Trees, NEW d \in Dirs(t)
    PROVE  /\ Own(t, d) \in Seq(Path) /\ d \in Path /\ Len(d) \in Nat
           /\ \A i \in 1 .. Len(Own(t, d)) :
                 /\ Own(t, d)[i] \in DOMAIN t /\ Own(t, d)[i] # <<>>
                 /\ Front(Own(t, d)[i]) = d /\ Len(Own(t, d)[i]) = Len(d) + 1
                 /\ Below(d, Own(t, d)[i])
           /\ \A i, j \in 1 .. Len(Own(t, d)) :
                 i # j => Own(t, d)[i][Len(d) + 1] # Own(t, d)[j][Len(d) + 1]
  <1> DEFINE S == {n \in Names \ Hidden : Append(d, n) \in DOMAIN t}
             s == Scandir(t, d)
             m == Cardinality(S)
  <1>1. d \in Path /\ Len(d) \in Nat
    BY TreeFacts DEF Path
  <1>2. S \in SUBSET Nat /\ S \subseteq Names
    BY ShareAssumption
  <1>3. IsFiniteSet(S)
    <2> DEFINE f == [n \in S |-> Append(d, n)]
    <2>1. f \in [S -> DOMAIN t]
      OBVIOUS
    <2>2. ASSUME NEW x \in S, NEW y \in S, f[x] = f[y] PROVE x = y
      <3>1. x \in Names /\ y \in Names /\ Append(d, x) = Append(d, y)
        BY <1>2, <2>2
      <3>2. Append(d, x)[Len(d) + 1] = x /\ Append(d, y)[Len(d) + 1] = y
        BY <1>1, <3>1, FrontOfAppend
      <3> QED BY <3>1, <3>2
    <2> HIDE DEF f, S
    <2>3. f \in Injection(S, DOMAIN t)
      BY <2>1, <2>2 DEF Injection, IsInjective
    <2>4. IsFiniteSet(DOMAIN t)
      BY ShareAssumption
    <2> QED BY <2>3, <2>4, FS_Injection
  <1>4. /\ m \in Nat /\ s \in [1 .. m -> S]
        /\ \A i, j \in 1 .. m : i < j => s[i] < s[j]
    BY <1>2, <1>3, AscendingIs DEF Ascends, Scandir
  <1> HIDE DEF s, m
  <1>5. /\ Own(t, d) = [i \in 1 .. m |-> Append(d, s[i])]
        /\ \A i \in 1 .. m : s[i] \in Names /\ Append(d, s[i]) \in DOMAIN t
    BY <1>4 DEF Own, s
  <1>6. /\ Own(t, d) \in Seq(Path) /\ Len(Own(t, d)) = m
        /\ \A i \in 1 .. m : Own(t, d)[i] = Append(d, s[i])
    <2>1. \A i \in 1 .. m : Append(d, s[i]) \in Path
      BY <1>1, <1>5, FrontOfAppend
    <2> QED BY <1>4, <1>5, <2>1
  <1>7. ASSUME NEW i \in 1 .. m
        PROVE  /\ Own(t, d)[i] \in DOMAIN t /\ Own(t, d)[i] # <<>>
               /\ Front(Own(t, d)[i]) = d /\ Len(Own(t, d)[i]) = Len(d) + 1
               /\ Below(d, Own(t, d)[i])
               /\ Own(t, d)[i][Len(d) + 1] = s[i]
    BY <1>1, <1>5, <1>6, FrontOfAppend DEF Below
  <1>8. ASSUME NEW i \in 1 .. m, NEW j \in 1 .. m, i # j PROVE s[i] # s[j]
    <2>1. (i < j \/ j < i) /\ s[i] \in Nat /\ s[j] \in Nat
      BY <1>2, <1>4, <1>8
    <2> QED BY <1>4, <2>1
  <1> QED BY <1>1, <1>6, <1>7, <1>8

\* The lines have a function as DirentsFile defines it.
IsLines(t, f) == f = [d \in Dirs(t) |-> LinesOf(t, f, d)]

LEMMA InOwnTyped ==
    ASSUME NEW t \in Trees, NEW f \in [Dirs(t) -> Seq(Path)], NEW d \in Dirs(t)
    PROVE  /\ InOwn(t, f, d) \in [1 .. Len(Own(t, d)) -> Seq(Path)]
           /\ Len(Own(t, d)) \in Nat
  <1>1. DOMAIN Own(t, d) = 1 .. Len(Own(t, d)) /\ Len(Own(t, d)) \in Nat
    BY OwnFacts
  <1>2. \A i \in 1 .. Len(Own(t, d)) : Own(t, d)[i] \in Dirs(t)
    BY OwnFacts DEF Dirs
  <1>3. <<>> \in Seq(Path)
    OBVIOUS
  <1> QED BY <1>1, <1>2, <1>3 DEF InOwn

LEMMA LinesTyped ==
    ASSUME NEW t \in Trees, NEW f \in [Dirs(t) -> Seq(Path)], NEW d \in Dirs(t)
    PROVE  LinesOf(t, f, d) \in Seq(Path)
  <1> DEFINE n == Len(Own(t, d))
  <1>1. InOwn(t, f, d) \in [1 .. n -> Seq(Path)] /\ n \in Nat
    BY InOwnTyped
  <1>2. Own(t, d) \in Seq(Path)
    BY OwnFacts
  <1>3. FlattenSeq(InOwn(t, f, d)) \in Seq(Path)
    <2> HIDE DEF n
    <2>1. PICK joined \in [0 .. n -> Seq(Path)] :
             FlattenSeq(InOwn(t, f, d)) = joined[n]
      BY <1>1, FlattenJoins
    <2>2. n \in 0 .. n
      BY <1>1
    <2> QED BY <2>1, <2>2
  <1> QED BY <1>2, <1>3, ConcatProperties, Zenon DEF LinesOf

LEMMA LinesLocal ==
    ASSUME NEW t \in Trees, NEW f, NEW g, NEW d \in Dirs(t),
           \A p \in Dirs(t) : Rank(t)[p] < Rank(t)[d] => f[p] = g[p]
    PROVE  LinesOf(t, f, d) = LinesOf(t, g, d)
  <1> DEFINE n == Len(Own(t, d))
  <1>1. DOMAIN Own(t, d) = 1 .. n /\ n \in Nat
    BY OwnFacts
  <1>2. ASSUME NEW i \in 1 .. n PROVE f[Own(t, d)[i]] = g[Own(t, d)[i]]
    <2>1. /\ Own(t, d)[i] \in DOMAIN t /\ Own(t, d)[i] \in Dirs(t)
          /\ Len(Own(t, d)[i]) = Len(d) + 1 /\ Len(d) \in Nat
      BY OwnFacts DEF Dirs
    <2>2. Rank(t)[Own(t, d)[i]] < Rank(t)[d]
      BY <2>1, TreeFacts
    <2> QED BY <2>1, <2>2
  <1>3. InOwn(t, f, d) = InOwn(t, g, d)
    BY <1>1, <1>2 DEF InOwn
  <1> QED BY <1>3 DEF LinesOf

LEMMA LinesExist ==
    ASSUME NEW t \in Trees
    PROVE  \E f \in [Dirs(t) -> Seq(Path)] : IsLines(t, f)
  <1> DEFINE S == Dirs(t)  V == Seq(Path)  N == Cardinality(DOMAIN t)
             rank == Rank(t)
             G == [f \in [S -> V] |-> [d \in S |-> LinesOf(t, f, d)]]
             f0 == [d \in S |-> <<>>]
  <1>1. rank \in [S -> 0 .. N] /\ N \in Nat
    BY TreeFacts
  <1>2. G \in [[S -> V] -> [S -> V]]
    BY LinesTyped
  <1>3. f0 \in [S -> V]
    OBVIOUS
  <1>4. \A f \in [S -> V], d \in S : G[f][d] = LinesOf(t, f, d)
    OBVIOUS
  <1>5. \A f \in [S -> V] : G[f] = [d \in S |-> LinesOf(t, f, d)]
    OBVIOUS
  <1>6. LowerOnly(S, V, rank, G)
    <2>1. ASSUME NEW f \in [S -> V], NEW g \in [S -> V], NEW d \in S,
                 \A p \in S : rank[p] < rank[d] => f[p] = g[p]
          PROVE  G[f][d] = G[g][d]
      <3>1. LinesOf(t, f, d) = LinesOf(t, g, d)
        BY <2>1, LinesLocal
      <3> HIDE DEF G, S, V, rank
      <3> QED BY <1>4, <3>1
    <2> HIDE DEF G, S, V, rank
    <2> QED BY <2>1 DEF LowerOnly
  <1> HIDE DEF G, S, V, rank, f0, N
  <1>7. Solvable(S, V, G)
    BY <1>1, <1>2, <1>3, <1>6, RecursionExists
  <1>8. PICK f \in [S -> V] : f = [d \in S |-> LinesOf(t, f, d)]
    BY <1>5, <1>7 DEF Solvable
  <1> QED BY <1>8 DEF IsLines, S, V

LEMMA DirentsAre ==
    ASSUME NEW t \in Trees
    PROVE  \E f \in [Dirs(t) -> Seq(Path)] :
              IsLines(t, f) /\ DirentsFile(t) = f[<<>>]
  <1>1. DirentsFile(t) = (CHOOSE f : IsLines(t, f))[<<>>]
    BY Zenon DEF DirentsFile, IsLines, LinesOf, InOwn, Own, Dirs
  <1>2. PICK f : IsLines(t, f) /\ DirentsFile(t) = f[<<>>]
    BY <1>1, LinesExist
  <1>3. PICK g \in [Dirs(t) -> Seq(Path)] : IsLines(t, g)
    BY LinesExist
  <1>4. /\ f = [d \in Dirs(t) |-> f[d]] /\ g = [d \in Dirs(t) |-> g[d]]
        /\ \A d \in Dirs(t) : f[d] = LinesOf(t, f, d) /\ g[d] = LinesOf(t, g, d)
    <2> DEFINE a == [d \in Dirs(t) |-> LinesOf(t, f, d)]
               b == [d \in Dirs(t) |-> LinesOf(t, g, d)]
    <2>1. /\ \A d \in Dirs(t) : a[d] = LinesOf(t, f, d) /\ b[d] = LinesOf(t, g, d)
          /\ a = [d \in Dirs(t) |-> a[d]] /\ b = [d \in Dirs(t) |-> b[d]]
      OBVIOUS
    <2>2. f = a /\ g = b
      BY <1>2, <1>3 DEF IsLines
    <2> HIDE DEF a, b
    <2> QED BY <2>1, <2>2
  <1> DEFINE P == {d \in Dirs(t) : f[d] = g[d]}
  <1>5. ASSUME NEW d \in Dirs(t),
               \A p \in Dirs(t) : Rank(t)[p] < Rank(t)[d] => p \in P
        PROVE  d \in P
    <2>1. LinesOf(t, f, d) = LinesOf(t, g, d)
      BY <1>5, LinesLocal
    <2> QED BY <1>4, <2>1
  <1>6. Dirs(t) \subseteq P
    <2> DEFINE S == Dirs(t)  r == Rank(t)  N == Cardinality(DOMAIN t)
    <2>1. r \in [S -> 0 .. N] /\ N \in Nat
      BY TreeFacts
    <2>2. \A x \in S : (\A y \in S : r[y] < r[x] => y \in P) => x \in P
      BY <1>5
    <2> HIDE DEF P, S, r, N
    <2>3. S \subseteq P
      BY <2>1, <2>2, RankInduction
    <2> QED BY <2>3 DEF S
  <1>7. f = g
    BY <1>4, <1>6
  <1> QED BY <1>2, <1>3, <1>7

\* Joining lines.
LEMMA GoodJoined ==
    ASSUME NEW L, NEW M, GoodLines(L), GoodLines(M),
           \A i \in 1 .. Len(L), j \in 1 .. Len(M) : L[i] # M[j],
           L # <<>> /\ M # <<>> => Near(Front(L[Len(L)]), Front(M[1]))
    PROVE  GoodLines(L \o M)
  <1> DEFINE l == Len(L)  m == Len(M)  J == L \o M
  <1>1. /\ L \in Seq(Path) /\ M \in Seq(Path) /\ l \in Nat /\ m \in Nat
    BY DEF GoodLines
  <1>2. /\ J \in Seq(Path) /\ Len(J) = l + m
        /\ \A i \in 1 .. l + m : J[i] = IF i <= l THEN L[i] ELSE M[i - l]
    BY <1>1, ConcatProperties, Zenon
  <1> HIDE DEF J
  <1>3. \A i \in 1 .. l + m : \/ i \in 1 .. l /\ J[i] = L[i]
                              \/ i - l \in 1 .. m /\ i > l /\ J[i] = M[i - l]
    BY <1>1, <1>2
  <1>4. \A i \in 1 .. l + m : J[i] # <<>>
    BY <1>3 DEF GoodLines
  <1>5. ASSUME NEW i \in 1 .. l + m, NEW j \in 1 .. l + m, J[i] = J[j]
        PROVE  i = j
    <2>1. CASE i \in 1 .. l /\ J[i] = L[i] /\ j \in 1 .. l /\ J[j] = L[j]
      BY <1>5, <2>1 DEF GoodLines
    <2>2. CASE /\ i - l \in 1 .. m /\ J[i] = M[i - l]
               /\ j - l \in 1 .. m /\ J[j] = M[j - l]
      <3>1. i - l = j - l
        BY <1>5, <2>2 DEF GoodLines
      <3> QED BY <1>1, <3>1
    <2> QED BY <1>3, <1>5, <2>1, <2>2
  <1>6. ASSUME NEW i \in 1 .. l + m - 1 PROVE Near(Front(J[i]), Front(J[i + 1]))
    <2>1. i \in 1 .. l + m /\ i + 1 \in 1 .. l + m
      BY <1>1
    <2>2. CASE i < l
      <3>1. i \in 1 .. l - 1 /\ J[i] = L[i] /\ J[i + 1] = L[i + 1]
        BY <1>1, <1>2, <2>1, <2>2
      <3> QED BY <3>1 DEF GoodLines
    <2>3. CASE i = l
      <3>1. /\ J[i] = L[l] /\ J[i + 1] = M[i + 1 - l] /\ i + 1 - l = 1
            /\ l # 0 /\ m # 0
        BY <1>1, <1>2, <2>1, <2>3
      <3>2. L # <<>> /\ M # <<>>
        BY <3>1
      <3> QED BY <3>1, <3>2
    <2>4. CASE i > l
      <3>1. /\ i - l \in 1 .. m - 1 /\ J[i] = M[i - l]
            /\ J[i + 1] = M[i + 1 - l] /\ i + 1 - l = i - l + 1
        BY <1>1, <1>2, <2>1, <2>4
      <3> QED BY <3>1 DEF GoodLines
    <2> QED BY <1>1, <2>2, <2>3, <2>4
  <1>7. GoodLines(J)
    BY <1>2, <1>4, <1>5, <1>6 DEF GoodLines
  <1> QED BY <1>7 DEF J

\* What DirentsFile writes for d.
GoodBelow(L, d) ==
    /\ GoodLines(L) /\ \A i \in 1 .. Len(L) : Below(d, L[i])
    /\ L # <<>> => Front(L[Len(L)]) = d

\* The lines of the first k names.
GoodUpTo(L, t, d, k) ==
    /\ GoodLines(L)
    /\ \A i \in 1 .. Len(L) : \E j \in 1 .. k : Below(Own(t, d)[j], L[i])
    /\ L # <<>> => \E j \in 1 .. k : Front(L[Len(L)]) = Own(t, d)[j]

LEMMA BelowOwn ==
    ASSUME NEW t \in Trees, NEW d \in Dirs(t), NEW i \in 1 .. Len(Own(t, d)),
           NEW p \in Path, Below(Own(t, d)[i], p)
    PROVE  /\ Below(d, p) /\ Len(p) > Len(d) + 1 /\ Len(Front(p)) > Len(d)
           /\ p[Len(d) + 1] = Own(t, d)[i][Len(d) + 1]
           /\ Front(p)[Len(d) + 1] = p[Len(d) + 1]
           /\ \A x \in 1 .. Len(d) : Front(p)[x] = d[x]
  <1> DEFINE o == Own(t, d)[i]
  <1>1. /\ Len(d) \in Nat /\ Len(o) = Len(d) + 1
        /\ \A x \in 1 .. Len(d) : o[x] = d[x]
    <2>1. Len(d) \in Nat
      BY OwnFacts
    <2>2. Len(o) = Len(d) + 1 /\ Below(d, o)
      BY OwnFacts
    <2> QED BY <2>1, <2>2 DEF Below
  <1>2. Len(p) > Len(o) /\ \A x \in 1 .. Len(o) : p[x] = o[x]
    BY DEF Below
  <1>3. Len(p) \in Nat
    BY DEF Path
  <1> HIDE DEF o
  <1>4. \A x \in 1 .. Len(d) : p[x] = d[x]
    BY <1>1, <1>2
  <1>5. Len(p) > Len(d) + 1 /\ p[Len(d) + 1] = o[Len(d) + 1]
    BY <1>1, <1>2
  <1>6. /\ Len(Front(p)) = Len(p) - 1
        /\ \A x \in 1 .. Len(p) - 1 : Front(p)[x] = p[x]
    <2>1. p # <<>>
      BY <1>1, <1>3, <1>5
    <2> QED BY <2>1, PathParts
  <1>7. /\ Len(Front(p)) > Len(d) /\ Front(p)[Len(d) + 1] = p[Len(d) + 1]
        /\ \A x \in 1 .. Len(d) : Front(p)[x] = p[x]
    BY <1>1, <1>3, <1>5, <1>6
  <1>8. Below(d, p)
    BY <1>1, <1>3, <1>4, <1>5 DEF Below
  <1> QED BY <1>4, <1>5, <1>7, <1>8 DEF o

\* From a directory in d to d, and to what is in another one.
LEMMA NearOwn ==
    ASSUME NEW t \in Trees, NEW d \in Dirs(t), NEW i \in 1 .. Len(Own(t, d))
    PROVE  /\ Near(Own(t, d)[i], d)
           /\ \A j \in 1 .. Len(Own(t, d)), p \in Path :
                 i # j /\ Below(Own(t, d)[j], p) => Near(Own(t, d)[i], Front(p))
  <1> DEFINE o == Own(t, d)[i]  k == Len(d)
  <1>1. /\ k \in Nat /\ Len(o) = k + 1 /\ \A x \in 1 .. k : o[x] = d[x]
        /\ DOMAIN d = 1 .. k
    <2>1. d \in Path /\ Len(d) \in Nat
      BY OwnFacts
    <2>2. Len(o) = Len(d) + 1 /\ Below(d, o)
      BY OwnFacts
    <2> QED BY <2>1, <2>2 DEF Path, Below
  <1> HIDE DEF o, k
  <1>2. \A x \in k + 1 .. Len(o) : x = k + 1
    BY <1>1
  <1>3. k \in 0 .. Len(o)
    BY <1>1
  <1>4. Near(o, d)
    <2>1. Parted(o, d, k)
      BY <1>1, <1>2, <1>3 DEF Parted, k
    <2> QED BY <1>3, <2>1 DEF Near
  <1>5. ASSUME NEW j \in 1 .. Len(Own(t, d)), NEW p \in Path, i # j,
               Below(Own(t, d)[j], p)
        PROVE  Near(o, Front(p))
    <2>1. /\ Len(Front(p)) > k /\ Front(p)[k + 1] = Own(t, d)[j][k + 1]
          /\ \A x \in 1 .. k : Front(p)[x] = d[x]
      BY <1>5, BelowOwn DEF k
    <2>2. o[k + 1] # Own(t, d)[j][k + 1]
      BY <1>5, OwnFacts DEF o, k
    <2>3. k <= Len(Front(p))
      <3>1. p # <<>>
        <4>1. Len(p) > k
          BY <1>5, BelowOwn DEF Below, k
        <4> QED BY <1>1, <4>1
      <3>2. Len(Front(p)) \in Nat
        BY <3>1, PathParts DEF Path
      <3> QED BY <1>1, <2>1, <3>2
    <2>4. Parted(o, Front(p), k)
      BY <1>1, <1>2, <1>3, <2>1, <2>2, <2>3 DEF Parted
    <2> QED BY <1>3, <2>4 DEF Near
  <1> QED BY <1>4, <1>5 DEF o

\* The lines written for the directories in d, one after the other.
LEMMA GoodPieces ==
    ASSUME NEW t \in Trees, NEW d \in Dirs(t), NEW k \in 1 .. Len(Own(t, d)),
           NEW L, GoodUpTo(L, t, d, k - 1),
           NEW M, M = <<>> \/ GoodBelow(M, Own(t, d)[k])
    PROVE  GoodUpTo(L \o M, t, d, k)
  <1> DEFINE o == Own(t, d)  l == Len(L)  m == Len(M)
  <1>1. /\ L \in Seq(Path) /\ l \in Nat /\ M \in Seq(Path) /\ m \in Nat
        /\ k - 1 \in Nat /\ \A j \in 1 .. k - 1 : j \in 1 .. k /\ j # k
        /\ k \in 1 .. k /\ Len(o) \in Nat
        /\ \A j \in 1 .. k : j \in 1 .. Len(o)
    <2>1. Len(o) \in Nat
      BY OwnFacts
    <2> HIDE DEF o
    <2>2. L \in Seq(Path)
      BY DEF GoodUpTo, GoodLines
    <2>3. CASE M = <<>>
      <3>1. <<>> \in Seq(Path)
        OBVIOUS
      <3>2. M \in Seq(Path)
        BY <2>3, <3>1
      <3> QED BY <2>1, <2>2, <3>2 DEF o
    <2>4. CASE GoodBelow(M, Own(t, d)[k])
      <3>1. M \in Seq(Path)
        BY <2>4 DEF GoodBelow, GoodLines
      <3> QED BY <2>1, <2>2, <3>1 DEF o
    <2> QED BY <2>3, <2>4
  <1>2. CASE M = <<>>
    <2>1. L \o M = L
      BY <1>1, <1>2, ConcatEmptySeq, Zenon
    <2>2. GoodUpTo(L, t, d, k)
      BY <1>1 DEF GoodUpTo
    <2> QED BY <2>1, <2>2
  <1>3. CASE M # <<>>
    <2>1. GoodLines(L) /\ GoodLines(M) /\ GoodBelow(M, o[k])
      BY <1>3 DEF GoodUpTo, GoodBelow
    <2>2. \A i \in 1 .. l : /\ L[i] \in Path
                            /\ \E j \in 1 .. k - 1 : Below(o[j], L[i])
      BY <1>1 DEF GoodUpTo
    <2>3. \A i \in 1 .. m : M[i] \in Path /\ Below(o[k], M[i])
      BY <1>1, <2>1 DEF GoodBelow
    <2>4. ASSUME NEW i \in 1 .. l, NEW j \in 1 .. m PROVE L[i] # M[j]
      <3>1. PICK e \in 1 .. k - 1 : Below(o[e], L[i])
        BY <2>2
      <3>2. e \in 1 .. Len(o) /\ e # k
        BY <1>1
      <3>3. L[i][Len(d) + 1] = o[e][Len(d) + 1]
        BY <2>2, <3>1, <3>2, BelowOwn
      <3>4. M[j][Len(d) + 1] = o[k][Len(d) + 1]
        BY <2>3, BelowOwn
      <3>5. o[e][Len(d) + 1] # o[k][Len(d) + 1]
        BY <3>2, OwnFacts
      <3> QED BY <3>3, <3>4, <3>5
    <2>5. ASSUME L # <<>> PROVE Near(Front(L[l]), Front(M[1]))
      <3>1. PICK e \in 1 .. k - 1 : Front(L[l]) = o[e]
        BY <2>5 DEF GoodUpTo
      <3>2. e \in 1 .. Len(o) /\ e # k /\ 1 \in 1 .. m
        BY <1>1, <1>3
      <3>3. M[1] \in Path /\ Below(o[k], M[1])
        BY <2>3, <3>2
      <3>4. Near(o[e], Front(M[1]))
        BY <3>2, <3>3, NearOwn
      <3> QED BY <3>1, <3>4
    <2>6. GoodLines(L \o M)
      BY <2>1, <2>4, <2>5, GoodJoined
    <2> DEFINE J == L \o M
    <2>7. /\ J \in Seq(Path) /\ Len(J) = l + m
          /\ \A i \in 1 .. l + m : J[i] = IF i <= l THEN L[i] ELSE M[i - l]
      BY <1>1, ConcatProperties, Zenon
    <2> HIDE DEF J, o
    <2>8. ASSUME NEW i \in 1 .. Len(J)
          PROVE  \E j \in 1 .. k : Below(o[j], J[i])
      <3>1. CASE i <= l
        <4>1. i \in 1 .. l /\ J[i] = L[i]
          BY <1>1, <2>7, <3>1
        <4> QED BY <1>1, <2>2, <4>1
      <3>2. CASE ~ i <= l
        <4>1. i - l \in 1 .. m /\ J[i] = M[i - l]
          BY <1>1, <2>7, <3>2
        <4> QED BY <1>1, <2>3, <4>1
      <3> QED BY <3>1, <3>2
    <2>9. Front(J[Len(J)]) = o[k]
      <3>1. l + m \in 1 .. l + m /\ ~ l + m <= l /\ l + m - l = m
        BY <1>1, <1>3
      <3>2. J[Len(J)] = M[Len(M)]
        BY <2>7, <3>1
      <3> QED BY <1>3, <2>1, <3>2 DEF GoodBelow
    <2>10. GoodUpTo(J, t, d, k)
      BY <1>1, <2>6, <2>8, <2>9 DEF GoodUpTo, J, o
    <2> QED BY <2>10 DEF J
  <1> QED BY <1>2, <1>3

LEMMA LinesGood ==
    ASSUME NEW t \in Trees, NEW f \in [Dirs(t) -> Seq(Path)], NEW d \in Dirs(t),
           \A i \in 1 .. Len(Own(t, d)) :
              GoodBelow(f[Own(t, d)[i]], Own(t, d)[i])
    PROVE  GoodBelow(LinesOf(t, f, d), d)
  <1> DEFINE o == Own(t, d)  n == Len(o)  pieces == InOwn(t, f, d)
  <1>1. pieces \in [1 .. n -> Seq(Path)] /\ n \in Nat /\ o \in Seq(Path)
    BY InOwnTyped, OwnFacts
  <1>2. \A i \in 1 .. n : pieces[i] = <<>> \/ GoodBelow(pieces[i], o[i])
    <2>1. DOMAIN o = 1 .. n
      BY OwnFacts
    <2> QED BY <2>1 DEF InOwn
  <1> HIDE DEF pieces, n
  <1>3. PICK joined \in [0 .. n -> Seq(Path)] :
           Joins(joined, n, pieces) /\ FlattenSeq(pieces) = joined[n]
    BY <1>1, FlattenJoins
  <1> DEFINE T == {i \in 0 .. n : GoodUpTo(joined[i], t, d, i)}
  <1>4. 0 \in T
    <2>1. joined[0] = <<>> /\ 0 \in 0 .. n
      BY <1>1, <1>3 DEF Joins
    <2>2. GoodUpTo(<<>>, t, d, 0)
      BY DEF GoodUpTo, GoodLines
    <2> QED BY <2>1, <2>2
  <1>5. ASSUME NEW i \in 1 .. n, i - 1 \in T PROVE i \in T
    <2>1. joined[i] = joined[i - 1] \o pieces[i] /\ i \in 0 .. n
      <3> HIDE DEF T
      <3>1. joined[i] = joined[i - 1] \o pieces[i]
        BY <1>3, Zenon DEF Joins
      <3>2. i \in 0 .. n
        BY <1>1
      <3> QED BY <3>1, <3>2
    <2>2. GoodUpTo(joined[i - 1], t, d, i - 1)
      BY <1>5
    <2>3. GoodUpTo(joined[i - 1] \o pieces[i], t, d, i)
      BY <1>2, <2>2, GoodPieces DEF n
    <2> QED BY <2>1, <2>3
  <1>6. GoodUpTo(joined[n], t, d, n)
    <2> HIDE DEF T
    <2>1. \A i \in 1 .. n : i - 1 \in T => i \in T
      BY <1>5
    <2>2. \A i \in 0 .. n : i \in T
      BY <1>1, <1>4, <2>1, Steps, Zenon
    <2>3. n \in T
      BY <1>1, <2>2
    <2> QED BY <2>3 DEF T
  <1> DEFINE L == FlattenSeq(pieces)
  <1>7. GoodUpTo(L, t, d, n)
    BY <1>3, <1>6
  <1> HIDE DEF L
  <1>8. /\ L \in Seq(Path) /\ Len(L) \in Nat
        /\ \A i \in 1 .. Len(L) : L[i] \in Path /\ Below(d, L[i])
                                  /\ Len(L[i]) > Len(d) + 1
    <2>1. L \in Seq(Path)
      BY <1>7 DEF GoodUpTo, GoodLines
    <2>2. \A i \in 1 .. Len(L) : L[i] \in Path
                                 /\ \E j \in 1 .. n : Below(o[j], L[i])
      BY <1>7, <2>1 DEF GoodUpTo
    <2> QED BY <2>1, <2>2, BelowOwn DEF n
  <1>9. /\ \A i \in 1 .. n : /\ o[i] # <<>> /\ Front(o[i]) = d /\ Below(d, o[i])
                             /\ Len(o[i]) = Len(d) + 1
        /\ \A i, j \in 1 .. n : o[i] = o[j] => i = j
        /\ Len(d) \in Nat /\ d \in Path
    <2>1. /\ d \in Path /\ Len(d) \in Nat
          /\ \A i \in 1 .. n :
                /\ o[i] # <<>> /\ Front(o[i]) = d /\ Len(o[i]) = Len(d) + 1
                /\ Below(d, o[i])
          /\ \A i, j \in 1 .. n :
                i # j => o[i][Len(d) + 1] # o[j][Len(d) + 1]
      BY OwnFacts, Zenon DEF n
    <2> HIDE DEF o
    <2> QED BY <2>1, Zenon
  <1>10. Near(d, d)
    <2>1. Len(d) \in 0 .. Len(d) /\ Parted(d, d, Len(d))
      BY <1>9 DEF Parted
    <2> QED BY <2>1 DEF Near
  <1> HIDE DEF o
  <1>11. GoodLines(o)
    <2>1. \A i \in 1 .. n - 1 : i \in 1 .. n /\ i + 1 \in 1 .. n
      BY <1>1
    <2> QED BY <1>1, <1>9, <1>10, <2>1 DEF GoodLines, n
  <1>12. ASSUME NEW i \in 1 .. Len(L), NEW j \in 1 .. n PROVE L[i] # o[j]
    BY <1>8, <1>9
  <1>13. ASSUME L # <<>>, o # <<>> PROVE Near(Front(L[Len(L)]), Front(o[1]))
    <2>1. PICK j \in 1 .. n : Front(L[Len(L)]) = o[j]
      BY <1>7, <1>13 DEF GoodUpTo, o
    <2>2. 1 \in 1 .. n
      BY <2>1, <1>1
    <2>3. Near(o[j], d)
      BY NearOwn DEF o, n
    <2> QED BY <1>9, <2>1, <2>2, <2>3
  <1> DEFINE J == L \o o
  <1>14. GoodLines(J)
    BY <1>7, <1>11, <1>12, <1>13, GoodJoined DEF n, GoodUpTo
  <1>15. /\ Len(J) = Len(L) + n
         /\ \A i \in 1 .. Len(L) + n : J[i] = IF i <= Len(L) THEN L[i]
                                              ELSE o[i - Len(L)]
    BY <1>1, <1>8, ConcatProperties, Zenon DEF n
  <1> HIDE DEF J
  <1>16. ASSUME NEW i \in 1 .. Len(J) PROVE Below(d, J[i])
    <2>1. CASE i <= Len(L)
      <3>1. i \in 1 .. Len(L) /\ J[i] = L[i]
        BY <1>1, <1>8, <1>15, <2>1
      <3> QED BY <1>8, <3>1
    <2>2. CASE ~ i <= Len(L)
      <3>1. i - Len(L) \in 1 .. n /\ J[i] = o[i - Len(L)]
        BY <1>1, <1>8, <1>15, <2>2
      <3> QED BY <1>9, <3>1
    <2> QED BY <2>1, <2>2
  <1>17. ASSUME J # <<>> PROVE Front(J[Len(J)]) = d
    <2>1. CASE n = 0
      <3>1. L # <<>> /\ J = L
        <4>1. o = <<>>
          BY <1>1, <2>1 DEF n
        <4>2. J = L
          BY <1>8, <4>1, ConcatEmptySeq, Zenon DEF J
        <4> QED BY <1>17, <4>2
      <3>2. \E j \in 1 .. n : TRUE
        BY <1>7, <3>1 DEF GoodUpTo
      <3> QED BY <2>1, <3>2
    <2>2. CASE n # 0
      <3>1. /\ Len(L) + n \in 1 .. Len(L) + n /\ ~ Len(L) + n <= Len(L)
            /\ Len(L) + n - Len(L) = n /\ n \in 1 .. n
        BY <1>1, <1>8, <2>2
      <3>2. J[Len(J)] = o[n]
        BY <1>15, <3>1
      <3> QED BY <1>9, <3>1, <3>2
    <2> QED BY <2>1, <2>2
  <1>18. GoodBelow(J, d)
    BY <1>14, <1>16, <1>17 DEF GoodBelow
  <1>19. LinesOf(t, f, d) = J
    BY DEF LinesOf, J, L, o, pieces
  <1> QED BY <1>18, <1>19

\* The lines of the file get_dirents reads.
LEMMA DirentsGood ==
    ASSUME NEW t \in Trees
    PROVE  GoodLines(DirentsFile(t))
  <1>1. PICK f \in [Dirs(t) -> Seq(Path)] :
           IsLines(t, f) /\ DirentsFile(t) = f[<<>>]
    BY DirentsAre
  <1>2. \A d \in Dirs(t) : f[d] = LinesOf(t, f, d)
    <2> DEFINE a == [d \in Dirs(t) |-> LinesOf(t, f, d)]
    <2>1. \A d \in Dirs(t) : a[d] = LinesOf(t, f, d)
      OBVIOUS
    <2>2. f = a
      BY <1>1 DEF IsLines
    <2> HIDE DEF a
    <2> QED BY <2>1, <2>2
  <1> DEFINE S == Dirs(t)  r == Rank(t)  N == Cardinality(DOMAIN t)
             P == {d \in S : GoodBelow(f[d], d)}
  <1>3. ASSUME NEW d \in S, \A p \in S : r[p] < r[d] => p \in P PROVE d \in P
    <2>1. ASSUME NEW i \in 1 .. Len(Own(t, d))
          PROVE  GoodBelow(f[Own(t, d)[i]], Own(t, d)[i])
      <3>1. /\ Own(t, d)[i] \in DOMAIN t /\ Len(Own(t, d)[i]) = Len(d) + 1
            /\ Len(d) \in Nat
        BY OwnFacts
      <3>2. Own(t, d)[i] \in S
        BY <3>1 DEF Dirs
      <3>3. Len(Own(t, d)[i]) > Len(d)
        BY <3>1
      <3>4. \A e \in S, p \in DOMAIN t : Len(p) > Len(e) => r[p] < r[e]
        BY TreeFacts
      <3>5. r[Own(t, d)[i]] < r[d]
        BY <3>1, <3>3, <3>4
      <3> QED BY <1>3, <3>2, <3>5
    <2>2. GoodBelow(LinesOf(t, f, d), d)
      BY <2>1, LinesGood
    <2> QED BY <1>2, <2>2
  <1>4. r \in [S -> 0 .. N] /\ N \in Nat
    BY TreeFacts
  <1>5. <<>> \in S
    BY DEF Dirs
  <1> HIDE DEF S, r, N, P
  <1>6. S \subseteq P
    BY <1>3, <1>4, RankInduction
  <1>7. GoodBelow(f[<<>>], <<>>)
    BY <1>5, <1>6 DEF P
  <1> QED BY <1>1, <1>7 DEF GoodBelow

-----------------------------------------------------------------------------
(* The listing: the pages one after the other.                               *)

LEMMA FlattenAppend ==
    ASSUME NEW S, NEW n \in Nat, NEW s \in [1 .. n -> Seq(S)],
           NEW e \in [1 .. n + 1 -> Seq(S)], \A i \in 1 .. n : e[i] = s[i]
    PROVE  /\ FlattenSeq(s) \in Seq(S)
           /\ FlattenSeq(e) = FlattenSeq(s) \o e[n + 1]
  <1>1. PICK f \in [0 .. n -> Seq(S)] :
           Joins(f, n, s) /\ FlattenSeq(s) = f[n]
    BY FlattenJoins
  <1>2. PICK g \in [0 .. n + 1 -> Seq(S)] :
           Joins(g, n + 1, e) /\ FlattenSeq(e) = g[n + 1]
    <2> DEFINE m == n + 1
    <2>1. m \in Nat /\ e \in [1 .. m -> Seq(S)]
      OBVIOUS
    <2> HIDE DEF m
    <2>2. \E g \in [0 .. m -> Seq(S)] : Joins(g, m, e) /\ FlattenSeq(e) = g[m]
      BY <2>1, FlattenJoins
    <2> QED BY <2>2 DEF m
  <1>3. /\ f[0] = <<>> /\ g[0] = <<>>
        /\ \A i \in 1 .. n : f[i] = f[i - 1] \o s[i]
        /\ \A i \in 1 .. n + 1 : g[i] = g[i - 1] \o e[i]
    BY <1>1, <1>2, Zenon DEF Joins
  <1> DEFINE T == {i \in 0 .. n : f[i] = g[i]}
  <1>4. 0 \in T
    BY <1>3
  <1>5. ASSUME NEW i \in 1 .. n, i - 1 \in T PROVE i \in T
    <2>1. f[i - 1] = g[i - 1] /\ i \in 1 .. n + 1 /\ i \in 0 .. n
      BY <1>5
    <2>2. f[i] = f[i - 1] \o s[i] /\ g[i] = g[i - 1] \o e[i] /\ e[i] = s[i]
      BY <1>3, <2>1, Zenon
    <2>3. f[i] = g[i]
      BY <2>1, <2>2, Zenon
    <2> QED BY <2>1, <2>3
  <1>6. f[n] = g[n]
    <2> HIDE DEF T
    <2>1. \A i \in 1 .. n : i - 1 \in T => i \in T
      BY <1>5
    <2>2. \A i \in 0 .. n : i \in T
      BY <1>4, <2>1, Steps, Zenon
    <2>3. n \in T
      BY <2>2
    <2> QED BY <2>3 DEF T
  <1>7. g[n + 1] = g[n] \o e[n + 1]
    <2>1. PICK k : k = n + 1
      OBVIOUS
    <2>2. k \in 1 .. n + 1 /\ k - 1 = n
      BY <2>1
    <2>3. g[k] = g[k - 1] \o e[k]
      BY <1>3, <2>2, Zenon
    <2> QED BY <2>1, <2>2, <2>3, Zenon
  <1>8. f[n] \in Seq(S)
    <2>1. n \in 0 .. n
      OBVIOUS
    <2> QED BY <1>1, <2>1
  <1> QED BY <1>1, <1>2, <1>6, <1>7, <1>8

LEMMA RisingJoined ==
    ASSUME NEW s \in Seq(Path), NEW e \in Seq(Path), NEW a \in Nat,
           NEW b \in Nat, NEW c \in Nat, NEW d \in Nat, a <= b, b <= c, c <= d,
           Rising(s, a, b), Rising(e, c, d)
    PROVE  Rising(s \o e, a, d)
  <1> DEFINE l == Len(s)  m == Len(e)  J == s \o e
  <1>1. /\ l \in Nat /\ m \in Nat
        /\ J \in Seq(Path) /\ Len(J) = l + m
        /\ \A i \in 1 .. l + m : J[i] = IF i <= l THEN s[i] ELSE e[i - l]
    BY ConcatProperties, LenProperties, Zenon
  <1>2. /\ DOMAIN s = 1 .. l /\ DOMAIN e = 1 .. m
        /\ \A i \in 1 .. l : /\ s[i] \in ToSet(lines)
                             /\ PlaceOf(s[i]) \in a + 1 .. b
        /\ \A i \in 1 .. m : /\ e[i] \in ToSet(lines)
                             /\ PlaceOf(e[i]) \in c + 1 .. d
        /\ \A i, j \in 1 .. l : i < j => PlaceOf(s[i]) < PlaceOf(s[j])
        /\ \A i, j \in 1 .. m : i < j => PlaceOf(e[i]) < PlaceOf(e[j])
    <2>1. DOMAIN s = 1 .. l /\ DOMAIN e = 1 .. m
      OBVIOUS
    <2> QED BY <2>1 DEF Rising
  <1> HIDE DEF J, l, m
  <1>3. DOMAIN J = 1 .. l + m
    BY <1>1
  <1>4. ASSUME NEW i \in 1 .. l + m
        PROVE  \/ i \in 1 .. l /\ J[i] = s[i]
               \/ i > l /\ i - l \in 1 .. m /\ J[i] = e[i - l]
    BY <1>1
  <1>5. ASSUME NEW i \in 1 .. l + m
        PROVE  J[i] \in ToSet(lines) /\ PlaceOf(J[i]) \in a + 1 .. d
    <2>1. CASE i \in 1 .. l /\ J[i] = s[i]
      <3>1. J[i] \in ToSet(lines) /\ PlaceOf(J[i]) \in a + 1 .. b
        BY <1>2, <2>1
      <3> QED BY <3>1
    <2>2. CASE i - l \in 1 .. m /\ J[i] = e[i - l]
      <3>1. J[i] \in ToSet(lines) /\ PlaceOf(J[i]) \in c + 1 .. d
        BY <1>2, <2>2
      <3> QED BY <3>1
    <2> QED BY <1>4, <2>1, <2>2
  <1>6. ASSUME NEW i \in 1 .. l + m, NEW j \in 1 .. l + m, i < j
        PROVE  PlaceOf(J[i]) < PlaceOf(J[j])
    <2>1. CASE i \in 1 .. l /\ J[i] = s[i] /\ j \in 1 .. l /\ J[j] = s[j]
      BY <1>2, <1>6, <2>1
    <2>2. CASE /\ i \in 1 .. l /\ J[i] = s[i]
               /\ j - l \in 1 .. m /\ J[j] = e[j - l]
      <3>1. PlaceOf(J[i]) \in a + 1 .. b /\ PlaceOf(J[j]) \in c + 1 .. d
        BY <1>2, <2>2
      <3> QED BY <3>1
    <2>3. CASE /\ i - l \in 1 .. m /\ J[i] = e[i - l]
               /\ j - l \in 1 .. m /\ J[j] = e[j - l]
      <3>1. i - l < j - l
        BY <1>1, <1>6
      <3> QED BY <1>2, <2>3, <3>1
    <2>4. ~ (i > l /\ j \in 1 .. l)
      BY <1>1, <1>6
    <2> QED BY <1>4, <2>1, <2>2, <2>3, <2>4
  <1>7. Rising(J, a, d)
    BY <1>3, <1>5, <1>6 DEF Rising
  <1> QED BY <1>7 DEF J

PageSet == [tags : Seq(Tags), of : Trees]
Readable(page) == /\ Taken(page).files \in Seq(Path)
                  /\ Taken(page).sound /\ Taken(page).in = <<>>

\* The last line that the pages deal with.
Upto == IF thread = "sleep" THEN Len(lines) ELSE IF start = 0 THEN 0
        ELSE start - 1

\* The files up to there that were there all the time and are on no page.
Missed == {p \in ToSet(lines) :
              /\ PlaceOf(p) <= Upto /\ p \notin ToSet(Listed)
              /\ \A k \in DOMAIN pages : IsFile(pages[k].of, p)}

InOrder == Rising(Listed, 0, Upto)

PlaceInv ==
    /\ start \in Nat /\ pageSize \in PageSizes /\ pages \in Seq(PageSet)
    /\ thread # "scan" => GoodLines(lines)
    /\ thread \notin {"pages", "sleep"} => pages = <<>> /\ start = 0
    /\ thread = "pages" => (start = 0 <=> pages = <<>>)
    /\ thread = "sleep" => pages # <<>>
    /\ pages # <<>> /\ Whole =>
          /\ \A k \in 1 .. Len(pages) : Readable(pages[k])
          /\ Upto \in 0 .. Len(lines) /\ InOrder
          /\ IsFiniteSet(Missed)
          /\ Cardinality(Missed) <= 2 * (Len(pages) - 1)

\* Where a page starts, and the lines that it passes over.
LEMMA SkippedIs ==
    ASSUME start \in Nat, GoodLines(lines), thread = "pages"
    PROVE  /\ Skipped \in 0 .. Len(lines)
           /\ Upto \in 0 .. Len(lines) =>
                 /\ Upto <= Skipped /\ Skipped <= Upto + 2
                 /\ start = 0 => Skipped = Upto
  <1>1. Len(lines) \in Nat
    BY DEF GoodLines
  <1>2. Upto = IF start = 0 THEN 0 ELSE start - 1
    BY DEF Upto
  <1>3. start + 1 \in Int /\ Len(lines) \in Int
    BY <1>1
  <1>4. Min({start + 1, Len(lines)}) = IF start + 1 <= Len(lines) THEN start + 1
                                       ELSE Len(lines)
    BY <1>3, MinOfTwo
  <1> HIDE DEF Upto
  <1>5. Skipped = IF start = 0 THEN 0
                  ELSE IF start + 1 <= Len(lines) THEN start + 1 ELSE Len(lines)
    BY <1>4 DEF Skipped
  <1> QED BY <1>1, <1>2, <1>5

LEMMA PageTyped ==
    ASSUME NEW t, GoodLines(lines), Skipped \in 0 .. Len(lines)
    PROVE  GetDirents(t).tags \in Seq(Tags)
  <1>1. PICK f : /\ Prints(t, f, Len(lines) - Skipped)
                 /\ GetDirents(t) = PageOf(f[Len(lines) - Skipped])
    BY PrintedIs
  <1> DEFINE r == f[Len(lines) - Skipped]
  <1>2. r.out \in Seq(Tags) /\ r.prevdir \in Path
    <2>1. Len(lines) \in Nat
      BY DEF GoodLines
    <2>2. Len(lines) - Skipped \in 0 .. Len(lines) - Skipped
      BY <2>1
    <2> QED BY <1>1, <2>2 DEF Prints, PrintSet
  <1> HIDE DEF r
  <1>3. [x \in DOMAIN r.prevdir |-> Close] \in Seq(Tags)
    <2>1. DOMAIN r.prevdir = 1 .. Len(r.prevdir) /\ Len(r.prevdir) \in Nat
      BY <1>2 DEF Path
    <2>2. Close \in Tags
      BY DEF Tags
    <2> QED BY <2>1, <2>2
  <1>4. r.out \o [x \in DOMAIN r.prevdir |-> Close] \in Seq(Tags)
    BY <1>2, <1>3, ConcatProperties, Zenon
  <1> QED BY <1>1, <1>4 DEF PageOf, r

\* What was listed, and one page more.
LEMMA ListedMore ==
    ASSUME pages \in Seq(PageSet), NEW page \in PageSet,
           \A k \in 1 .. Len(pages) : Readable(pages[k]), Readable(page),
           pages' = Append(pages, page)
    PROVE  /\ Listed \in Seq(Path)
           /\ Listed' = Listed \o Taken(page).files
           /\ \A k \in 1 .. Len(pages') : Readable(pages'[k])
           /\ DOMAIN pages = 1 .. Len(pages) /\ DOMAIN pages' = 1 .. Len(pages')
           /\ Len(pages') = Len(pages) + 1 /\ Len(pages) \in Nat
           /\ \A k \in 1 .. Len(pages) : pages'[k] = pages[k]
           /\ pages'[Len(pages) + 1] = page
  <1> DEFINE n == Len(pages)
             s == [k \in 1 .. n |-> Taken(pages[k]).files]
             e == [k \in 1 .. n + 1 |-> Taken(pages'[k]).files]
  <1>1. /\ n \in Nat /\ DOMAIN pages = 1 .. n
        /\ pages' \in Seq(PageSet) /\ Len(pages') = n + 1
        /\ \A k \in 1 .. n : pages'[k] = pages[k]
        /\ pages'[n + 1] = page
    BY AppendProperties
  <1>2. DOMAIN pages' = 1 .. n + 1
    BY <1>1
  <1> HIDE DEF n
  <1>3. \A k \in 1 .. n + 1 : k \in 1 .. n \/ k = n + 1
    BY <1>1
  <1>4. \A k \in 1 .. n + 1 : Readable(pages'[k])
    BY <1>1, <1>3 DEF n
  <1>5. /\ s \in [1 .. n -> Seq(Path)] /\ e \in [1 .. n + 1 -> Seq(Path)]
        /\ \A i \in 1 .. n : e[i] = s[i]
        /\ e[n + 1] = Taken(page).files
    <2>1. \A i \in 1 .. n : i \in 1 .. n + 1
      BY <1>1
    <2>2. n + 1 \in 1 .. n + 1
      BY <1>1
    <2> QED BY <1>1, <1>4, <2>1, <2>2 DEF Readable, n
  <1>6. Listed = FlattenSeq(s) /\ Listed' = FlattenSeq(e)
    BY <1>1, <1>2 DEF Listed
  <1> HIDE DEF s, e
  <1>7. FlattenSeq(s) \in Seq(Path) /\ FlattenSeq(e) = FlattenSeq(s) \o e[n + 1]
    BY <1>1, <1>5, FlattenAppend
  <1> QED BY <1>1, <1>2, <1>4, <1>5, <1>6, <1>7 DEF n

\* A page at most passes over two lines, and none if it is the first.
LEMMA PassedOver ==
    ASSUME IsFiniteSet(Missed), NEW M, NEW a, NEW b,
           M \subseteq Missed \cup {a, b}
    PROVE  /\ IsFiniteSet(M) /\ Cardinality(Missed) \in Nat
           /\ Cardinality(M) \in Nat
           /\ Cardinality(M) <= Cardinality(Missed) + 2
           /\ M \subseteq Missed => Cardinality(M) <= Cardinality(Missed)
  <1> DEFINE A == Missed \cup {a}  B == A \cup {b}
  <1>1. /\ IsFiniteSet(A) /\ Cardinality(A) \in Nat /\ Cardinality(Missed) \in Nat
        /\ Cardinality(A) <= Cardinality(Missed) + 1
    <2>1. /\ IsFiniteSet(A)
          /\ Cardinality(A) = IF a \in Missed THEN Cardinality(Missed)
                              ELSE Cardinality(Missed) + 1
      BY FS_AddElement, Zenon
    <2> HIDE DEF A
    <2>2. Cardinality(A) \in Nat /\ Cardinality(Missed) \in Nat
      BY <2>1, FS_CardinalityType
    <2> QED BY <2>1, <2>2
  <1>2. M \in SUBSET B
    OBVIOUS
  <1> HIDE DEF A
  <1>3. IsFiniteSet(B) /\ Cardinality(B) \in Nat /\ Cardinality(B) <= Cardinality(A) + 1
    <2>1. /\ IsFiniteSet(B)
          /\ Cardinality(B) = IF b \in A THEN Cardinality(A)
                              ELSE Cardinality(A) + 1
      BY <1>1, FS_AddElement, Zenon
    <2> HIDE DEF B
    <2>2. Cardinality(B) \in Nat
      BY <2>1, FS_CardinalityType
    <2> QED BY <1>1, <2>1, <2>2
  <1> HIDE DEF B
  <1>4. IsFiniteSet(M) /\ Cardinality(M) \in Nat /\ Cardinality(M) <= Cardinality(B)
    BY <1>2, <1>3, FS_Subset, FS_CardinalityType
  <1>5. M \subseteq Missed => Cardinality(M) <= Cardinality(Missed)
    BY FS_Subset
  <1> QED BY <1>1, <1>3, <1>4, <1>5

LEMMA NoneListed ==
    ASSUME pages = <<>>
    PROVE  Listed = <<>>
  <1> DEFINE s == [k \in DOMAIN pages |-> Taken(pages[k]).files]
  <1>1. s \in [1 .. 0 -> Seq(Path)]
    OBVIOUS
  <1> HIDE DEF s
  <1>2. PICK f \in [0 .. 0 -> Seq(Path)] :
           Joins(f, 0, s) /\ FlattenSeq(s) = f[0]
    BY <1>1, FlattenJoins
  <1>3. FlattenSeq(s) = <<>>
    BY <1>2 DEF Joins
  <1> QED BY <1>3 DEF Listed, s

LEMMA NothingListed ==
    ASSUME GoodLines(lines), pages = <<>>, start = 0, thread # "sleep"
    PROVE  /\ Upto = 0 /\ Listed = <<>> /\ Missed = {} /\ Rising(Listed, 0, Upto)
           /\ \A k \in 1 .. Len(pages) : Readable(pages[k])
  <1>1. Upto = 0
    BY DEF Upto
  <1>2. Listed = <<>>
    BY NoneListed
  <1>3. Missed = {}
    <2>1. ASSUME NEW p \in ToSet(lines) PROVE ~ PlaceOf(p) <= 0
      BY PlaceIs
    <2> QED BY <1>1, <2>1 DEF Missed
  <1>4. Rising(Listed, 0, Upto)
    BY <1>2 DEF Rising
  <1> QED BY <1>1, <1>2, <1>3, <1>4

LEMMA WholeBefore ==
    ASSUME PlaceInv, GetDirectory, Whole'
    PROVE  Whole /\ \A i \in 1 .. Len(lines) : IsDir(sharedir, Front(lines[i]))
  <1> DEFINE page == [tags |-> GetDirents(sharedir).tags, of |-> sharedir]
             n == Len(pages)
  <1>1. /\ pages' = Append(pages, page) /\ lines' = lines
        /\ pages \in Seq(PageSet) /\ GoodLines(lines)
    BY DEF GetDirectory, PlaceInv
  <1>2. /\ n \in Nat /\ DOMAIN pages = 1 .. n /\ DOMAIN pages' = 1 .. n + 1
        /\ \A k \in 1 .. n : pages'[k] = pages[k]
        /\ pages'[n + 1].of = sharedir /\ DOMAIN lines = 1 .. Len(lines)
    BY <1>1 DEF GoodLines
  <1> HIDE DEF n
  <1>3. \A k \in 1 .. n + 1, i \in 1 .. Len(lines) :
           IsDir(pages'[k].of, Front(lines[i]))
    BY <1>1, <1>2 DEF Whole
  <1>4. n + 1 \in 1 .. n + 1 /\ \A k \in 1 .. n : k \in 1 .. n + 1
    BY <1>2
  <1>5. Whole
    <2> SUFFICES ASSUME NEW k \in DOMAIN pages, NEW i \in DOMAIN lines
                 PROVE  IsDir(pages[k].of, Front(lines[i]))
      BY DEF Whole
    <2>1. k \in 1 .. n + 1 /\ i \in 1 .. Len(lines) /\ pages'[k] = pages[k]
      BY <1>2, <1>4
    <2>2. IsDir(pages'[k].of, Front(lines[i]))
      BY <1>3, <2>1
    <2> QED BY <2>1, <2>2
  <1> QED BY <1>2, <1>3, <1>4, <1>5

LEMMA ToSetJoined ==
    ASSUME NEW S, NEW s \in Seq(S), NEW e \in Seq(S)
    PROVE  ToSet(s \o e) = ToSet(s) \cup ToSet(e)
  <1> DEFINE l == Len(s)  m == Len(e)  J == s \o e
  <1>1. /\ J \in Seq(S) /\ Len(J) = l + m
        /\ \A i \in 1 .. l + m : J[i] = IF i <= l THEN s[i] ELSE e[i - l]
    BY ConcatProperties, Zenon
  <1>2. /\ DOMAIN s = 1 .. l /\ DOMAIN e = 1 .. m /\ l \in Nat /\ m \in Nat
    OBVIOUS
  <1> HIDE DEF l, m, J
  <1>3. DOMAIN J = 1 .. l + m
    BY <1>1
  <1>4. \A i \in 1 .. l : i \in 1 .. l + m /\ J[i] = s[i]
    BY <1>1, <1>2
  <1>5. \A i \in 1 .. m : i + l \in 1 .. l + m /\ J[i + l] = e[i]
    BY <1>1, <1>2
  <1>6. \A i \in 1 .. l + m : \/ i \in 1 .. l /\ J[i] = s[i]
                              \/ i - l \in 1 .. m /\ J[i] = e[i - l]
    BY <1>1, <1>2
  <1>7. ASSUME NEW x PROVE x \in ToSet(J) <=> x \in ToSet(s) \cup ToSet(e)
    <2>1. /\ x \in ToSet(J) <=> \E i \in 1 .. l + m : J[i] = x
          /\ x \in ToSet(s) <=> \E i \in 1 .. l : s[i] = x
          /\ x \in ToSet(e) <=> \E i \in 1 .. m : e[i] = x
      BY <1>2, <1>3 DEF ToSet
    <2> QED BY <1>4, <1>5, <1>6, <2>1
  <1>8. ToSet(J) = ToSet(s) \cup ToSet(e)
    BY <1>7
  <1> QED BY <1>8 DEF J

\* The pages a page was made after, and that page: what it adds, what it misses.
LEMMA PlaceMore ==
    ASSUME PlaceInv, sharedir \in Trees, GetDirectory, Whole',
           NEW page \in PageSet, page.tags = GetDirents(sharedir).tags,
           page.of = sharedir, pages' = Append(pages, page),
           Upto' = GetDirents(sharedir).index
    PROVE  /\ \A k \in 1 .. Len(pages') : Readable(pages'[k])
           /\ Upto' \in 0 .. Len(lines) /\ InOrder'
           /\ IsFiniteSet(Missed') /\ Cardinality(Missed') \in Nat
           /\ Cardinality(Missed') <= 2 * (Len(pages') - 1)
  <1> DEFINE d == GetDirents(sharedir)
             n == Len(pages)
  <1>1. /\ start \in Nat /\ pageSize \in Nat \ {0} /\ pages \in Seq(PageSet)
        /\ GoodLines(lines) /\ Len(lines) \in Nat
        /\ start = 0 <=> pages = <<>>
        /\ thread = "pages" /\ lines' = lines
    <2>1. PageSizes \subseteq Nat \ {0}
      BY ShareAssumption
    <2>2. thread = "pages" /\ lines' = lines
      BY DEF GetDirectory
    <2>3. /\ start \in Nat /\ pageSize \in PageSizes /\ pages \in Seq(PageSet)
          /\ GoodLines(lines) /\ (start = 0 <=> pages = <<>>)
      BY <2>2 DEF PlaceInv
    <2>4. Len(lines) \in Nat
      BY <2>3 DEF GoodLines
    <2> QED BY <2>1, <2>2, <2>3, <2>4
  <1>2. Whole /\ \A i \in 1 .. Len(lines) : IsDir(sharedir, Front(lines[i]))
    BY WholeBefore
  <1>3. /\ \A k \in 1 .. n : Readable(pages[k])
        /\ Upto \in 0 .. Len(lines) /\ Rising(Listed, 0, Upto)
        /\ IsFiniteSet(Missed)
        /\ pages # <<>> => Cardinality(Missed) <= 2 * (n - 1)
        /\ pages = <<>> => Missed = {}
    <2>1. CASE pages = <<>>
      <3>1. IsFiniteSet({})
        BY FS_EmptySet
      <3>2. /\ Upto = 0 /\ Listed = <<>> /\ Missed = {} /\ Rising(Listed, 0, Upto)
            /\ \A k \in 1 .. Len(pages) : Readable(pages[k])
        BY <1>1, <2>1, NothingListed
      <3> QED BY <1>1, <2>1, <3>1, <3>2
    <2>2. CASE pages # <<>>
      BY <1>2, <2>2 DEF PlaceInv, InOrder
    <2> QED BY <2>1, <2>2
  <1>4. /\ Skipped \in 0 .. Len(lines) /\ Upto <= Skipped
        /\ Skipped <= Upto + 2 /\ (start = 0 => Skipped = Upto)
    BY <1>1, <1>3, SkippedIs
  <1>5. PageShows(sharedir, page, d)
    BY <1>1, <1>2, <1>4, PageRead
  <1> HIDE DEF d
  <1>6. PICK s \in Seq(Path) :
           /\ Taken(page).files = s /\ Taken(page).in = <<>> /\ Taken(page).sound
           /\ Selects(s, Skipped, d.index, sharedir)
           /\ d.index \in Skipped .. Len(lines)
    BY <1>5 DEF PageShows
  <1>7. Readable(page)
    BY <1>6 DEF Readable
  <1>8. /\ Listed \in Seq(Path) /\ Listed' = Listed \o s
        /\ \A k \in 1 .. Len(pages') : Readable(pages'[k])
        /\ DOMAIN pages = 1 .. n /\ DOMAIN pages' = 1 .. Len(pages')
        /\ Len(pages') = n + 1 /\ n \in Nat
        /\ \A k \in 1 .. n : pages'[k] = pages[k]
        /\ pages'[n + 1] = page
    BY <1>1, <1>3, <1>6, <1>7, ListedMore
  <1>9. Upto' = d.index
    BY DEF d
  <1> HIDE DEF n
  <1>10. Upto' \in 0 .. Len(lines) /\ d.index \in Nat /\ Upto \in Nat /\ Skipped \in Nat
    BY <1>1, <1>3, <1>4, <1>6, <1>9
  <1>11. InOrder'
    <2>1. Rising(s, Skipped, d.index)
      BY <1>6 DEF Selects
    <2>2. 0 <= Upto /\ Skipped <= d.index /\ 0 \in Nat
      BY <1>10, <1>6
    <2>3. Rising(Listed \o s, 0, d.index)
      BY <1>3, <1>4, <1>6, <1>8, <1>10, <2>1, <2>2, RisingJoined
    <2>4. lines' = lines /\ Listed' = Listed \o s /\ Upto' = d.index
      BY <1>1, <1>8, <1>9
    <2> HIDE DEF d
    <2>5. Rising(Listed', 0, Upto')
      BY <2>3, <2>4
    <2>6. lines' = lines
      BY <2>4
    <2> QED BY <2>5, <2>6 DEF InOrder, Rising, PlaceOf
  <1> DEFINE a == lines[Upto + 1]  b == lines[Upto + 2]
  <1>12. ToSet(Listed \o s) = ToSet(Listed) \cup ToSet(s)
    BY <1>8, ToSetJoined
  <1>13. /\ Missed' \subseteq Missed \cup {a, b}
         /\ pages = <<>> => Missed' \subseteq Missed
    <2> SUFFICES ASSUME NEW p \in Missed'
                 PROVE  /\ p \in Missed \/ p = a \/ p = b
                        /\ pages = <<>> => p \in Missed
      OBVIOUS
    <2>1. /\ p \in ToSet(lines) /\ PlaceOf(p) <= d.index
          /\ p \notin ToSet(Listed \o s)
          /\ \A k \in 1 .. Len(pages') : IsFile(pages'[k].of, p)
      BY <1>1, <1>8, <1>9 DEF Missed, PlaceOf
    <2>2. p \notin ToSet(Listed) /\ p \notin ToSet(s)
      BY <1>12, <2>1
    <2>3. PlaceOf(p) \in 1 .. Len(lines) /\ lines[PlaceOf(p)] = p
      BY <1>1, <2>1, PlaceIs
    <2>4. /\ IsFile(sharedir, p)
          /\ \A k \in DOMAIN pages : IsFile(pages[k].of, p)
      <3>1. n + 1 \in 1 .. Len(pages') /\ \A k \in 1 .. n : k \in 1 .. Len(pages')
        BY <1>8
      <3>2. IsFile(pages'[n + 1].of, p)
        BY <2>1, <3>1
      <3>3. \A k \in 1 .. n : IsFile(pages[k].of, p)
        BY <1>8, <2>1, <3>1
      <3> QED BY <1>8, <3>2, <3>3
    <2>5. PlaceOf(p) <= Upto => p \in Missed
      BY <2>1, <2>2, <2>4 DEF Missed
    <2>6. ~ PlaceOf(p) > Skipped
      <3>1. \A i \in Skipped + 1 .. d.index :
               IsFile(sharedir, lines[i]) => lines[i] \in ToSet(s)
        BY <1>6 DEF Selects
      <3>2. ASSUME PlaceOf(p) > Skipped PROVE PlaceOf(p) \in Skipped + 1 .. d.index
        BY <1>10, <2>1, <2>3, <3>2
      <3> QED BY <2>2, <2>3, <2>4, <3>1, <3>2
    <2> HIDE DEF a, b
    <2>7. \/ PlaceOf(p) <= Upto
          \/ start # 0 /\ PlaceOf(p) = Upto + 1
          \/ start # 0 /\ PlaceOf(p) = Upto + 2
      BY <1>4, <1>10, <2>3, <2>6
    <2> QED BY <1>1, <2>3, <2>5, <2>7 DEF a, b
  <1>14. /\ IsFiniteSet(Missed') /\ Cardinality(Missed) \in Nat
         /\ Cardinality(Missed') \in Nat
         /\ Cardinality(Missed') <= Cardinality(Missed) + 2
         /\ Missed' \subseteq Missed => Cardinality(Missed') <= Cardinality(Missed)
    <2> HIDE DEF a, b
    <2> DEFINE M == Missed'
    <2>1. M \subseteq Missed \cup {a, b}
      BY <1>13
    <2> HIDE DEF M
    <2>2. /\ IsFiniteSet(M) /\ Cardinality(Missed) \in Nat
          /\ Cardinality(M) \in Nat
          /\ Cardinality(M) <= Cardinality(Missed) + 2
          /\ M \subseteq Missed => Cardinality(M) <= Cardinality(Missed)
      BY <1>3, <2>1, PassedOver
    <2> QED BY <2>2 DEF M
  <1>15. Cardinality(Missed') <= 2 * (Len(pages') - 1)
    <2>1. CASE pages = <<>>
      <3>1. Cardinality(Missed) = 0
        BY <1>3, <2>1, FS_EmptySet
      <3>2. Cardinality(Missed') <= 0
        BY <1>13, <1>14, <2>1, <3>1
      <3>3. Len(pages') = 1
        BY <1>8, <2>1 DEF n
      <3> QED BY <1>14, <3>2, <3>3
    <2>2. CASE pages # <<>>
      <3>1. Cardinality(Missed) <= 2 * (n - 1)
        BY <1>3, <2>2 DEF n
      <3> QED BY <1>8, <1>14, <3>1
    <2> QED BY <2>1, <2>2
  <1> QED BY <1>8, <1>10, <1>11, <1>14, <1>15

LEMMA PlaceGetDirectory ==
    ASSUME PlaceInv, sharedir \in Trees, GetDirectory
    PROVE  PlaceInv'
  <1> DEFINE d == GetDirents(sharedir)
             page == [tags |-> d.tags, of |-> sharedir]
  <1>1. /\ start \in Nat /\ pageSize \in PageSizes /\ pages \in Seq(PageSet)
        /\ GoodLines(lines) /\ Len(lines) \in Nat /\ thread = "pages"
    BY DEF PlaceInv, GetDirectory, GoodLines
  <1>2. /\ pages' = Append(pages, page) /\ lines' = lines /\ pageSize' = pageSize
        /\ IF d.moreData THEN start' = d.index + 1 /\ thread' = thread
           ELSE thread' = "sleep" /\ start' = start
    BY DEF GetDirectory
  <1>3. Skipped \in 0 .. Len(lines)
    BY <1>1, SkippedIs
  <1>4. d.index \in Nat
    <2>1. PICK f : /\ Prints(sharedir, f, Len(lines) - Skipped)
                   /\ d = PageOf(f[Len(lines) - Skipped])
      BY <1>1, <1>3, PrintedIs
    <2>2. Len(lines) - Skipped \in 0 .. Len(lines) - Skipped
      BY <1>1, <1>3
    <2> HIDE DEF d
    <2> QED BY <2>1, <2>2 DEF Prints, PrintSet, PageOf
  <1>5. page \in PageSet /\ page.tags = d.tags /\ page.of = sharedir
    <2>1. d.tags \in Seq(Tags)
      BY <1>1, <1>3, PageTyped
    <2> HIDE DEF d
    <2> QED BY <2>1 DEF PageSet
  <1>6. ~ d.moreData /\ Whole' => d.index = Len(lines)
    <2> SUFFICES ASSUME ~ d.moreData, Whole' PROVE d.index = Len(lines)
      OBVIOUS
    <2>1. \A i \in 1 .. Len(lines) : IsDir(sharedir, Front(lines[i]))
      BY WholeBefore
    <2>2. pageSize \in Nat \ {0}
      BY <1>1, ShareAssumption
    <2>3. PageShows(sharedir, page, GetDirents(sharedir))
      <3> HIDE DEF page
      <3> QED BY <1>1, <1>3, <1>5, <2>1, <2>2, PageRead DEF d
    <2> QED BY <2>3 DEF PageShows
  <1> HIDE DEF d, page
  <1>7. pages' \in Seq(PageSet) /\ pages' # <<>>
    <2>1. pages' \in Seq(PageSet) /\ Len(pages') = Len(pages) + 1 /\ Len(pages) \in Nat
      BY <1>1, <1>2, <1>5, AppendProperties
    <2> QED BY <2>1
  <1>8. /\ start' \in Nat /\ thread' \in {"pages", "sleep"}
        /\ thread' = "pages" => start' # 0
    BY <1>1, <1>2, <1>4
  <1>9. ASSUME Whole'
        PROVE  /\ \A k \in 1 .. Len(pages') : Readable(pages'[k])
               /\ Upto' \in 0 .. Len(lines) /\ InOrder'
               /\ IsFiniteSet(Missed') /\ Cardinality(Missed') \in Nat
               /\ Cardinality(Missed') <= 2 * (Len(pages') - 1)
    <2>1. Upto' = d.index
      <3>1. CASE d.moreData
        <4>1. start' = d.index + 1 /\ thread' = "pages"
          BY <1>1, <1>2, <3>1
        <4>2. Upto' = start' - 1
          BY <1>4, <4>1 DEF Upto
        <4> QED BY <1>4, <4>1, <4>2
      <3>2. CASE ~ d.moreData
        BY <1>2, <1>6, <1>9, <3>2 DEF Upto
      <3> QED BY <3>1, <3>2
    <2>2. Upto' = GetDirents(sharedir).index /\ page.tags = GetDirents(sharedir).tags
      BY <2>1, <1>5 DEF d
    <2> QED BY <1>2, <1>5, <1>9, <2>2, PlaceMore
  <1> QED BY <1>1, <1>2, <1>7, <1>8, <1>9 DEF PlaceInv

LEMMA PlaceInit == ShareInit => PlaceInv
  BY DEF ShareInit, PlaceInv

LEMMA PlaceStep == ShareTyped /\ PlaceInv /\ [ShareNext]_shareVars => PlaceInv'
  <1> SUFFICES ASSUME ShareTyped, PlaceInv, [ShareNext]_shareVars PROVE PlaceInv'
    OBVIOUS
  <1>1. CASE CreateDirentsFile
    <2>1. /\ thread = "scan" /\ thread' = "compare" /\ pages' = pages
          /\ start' = start /\ pageSize' = pageSize
          /\ lines' = DirentsFile(sharedir)
      BY <1>1 DEF CreateDirentsFile
    <2>2. GoodLines(lines')
      BY <2>1, DirentsGood DEF ShareTyped
    <2> QED BY <2>1, <2>2 DEF PlaceInv
  <1>2. CASE Compare \/ Symlink
    <2>1. /\ thread \notin {"scan", "pages", "sleep"}
          /\ thread' \notin {"scan", "sleep"}
          /\ pages' = pages /\ start' = start /\ pageSize' = pageSize
          /\ lines' = lines
      BY <1>2 DEF Compare, Symlink
    <2> QED BY <2>1 DEF PlaceInv
  <1>3. CASE GetDirectory
    BY <1>3, PlaceGetDirectory DEF ShareTyped
  <1>4. CASE Restart
    <2>1. /\ thread' = "scan" /\ start' = 0 /\ pages' = <<>> /\ pageSize' = pageSize
      BY <1>4 DEF Restart
    <2> QED BY <2>1 DEF PlaceInv
  <1>5. CASE UNCHANGED mainVars
    <2>1. /\ pageSize' = pageSize /\ lines' = lines /\ thread' = thread
          /\ start' = start /\ pages' = pages
      BY <1>5 DEF mainVars
    <2>2. Listed' = Listed /\ Upto' = Upto /\ (Whole' <=> Whole)
      BY <2>1 DEF Listed, Upto, Whole
    <2>3. Missed' = Missed
      BY <2>1, <2>2 DEF Missed, PlaceOf
    <2>4. InOrder' <=> InOrder
      BY <2>1, <2>2 DEF InOrder, Rising, PlaceOf
    <2> QED BY <2>1, <2>2, <2>3, <2>4 DEF PlaceInv
  <1> QED BY <1>1, <1>2, <1>3, <1>4, <1>5
          DEF ShareNext, MainThread, ControlThread, HostAsks, Stat, ReadChunk,
              Change, shareVars, mainVars

LEMMA PlaceMeans == PlaceInv => ListedInPlace
  <1> SUFFICES ASSUME PlaceInv, Whole PROVE ListedInPlace
    BY DEF ListedInPlace
  <1>1. CASE pages = <<>>
    <2>1. Listed = <<>>
      BY <1>1, NoneListed
    <2>2. ToSet(<<>>) = {} /\ DOMAIN pages = {} /\ DOMAIN Listed = {}
      BY <1>1, <2>1 DEF ToSet
    <2>3. thread # "sleep"
      BY <1>1 DEF PlaceInv
    <2> QED BY <2>1, <2>2, <2>3 DEF ListedInPlace
  <1>2. CASE pages # <<>>
    <2>1. /\ \A k \in DOMAIN pages : Readable(pages[k])
          /\ Rising(Listed, 0, Upto)
          /\ Cardinality(Missed) <= 2 * (Len(pages) - 1)
          /\ GoodLines(lines)
      BY <1>2 DEF PlaceInv, InOrder
    <2>2. /\ ToSet(Listed) \subseteq ToSet(lines)
          /\ \A i, j \in DOMAIN Listed :
                i < j => PlaceOf(Listed[i]) < PlaceOf(Listed[j])
      BY <2>1 DEF Rising, ToSet
    <2> DEFINE kept == {p \in ToSet(lines) :
                           \A k \in DOMAIN pages : IsFile(pages[k].of, p)}
    <2>3. ASSUME thread = "sleep" PROVE kept \ ToSet(Listed) = Missed
      <3>1. Upto = Len(lines) /\ Len(lines) \in Nat
        BY <2>1, <2>3 DEF Upto, GoodLines
      <3>2. \A p \in ToSet(lines) : PlaceOf(p) <= Len(lines)
        BY <2>1, <3>1, PlaceIs
      <3> QED BY <3>1, <3>2 DEF Missed
    <2> QED BY <2>1, <2>2, <2>3 DEF ListedInPlace, Readable
  <1> QED BY <1>1, <1>2

\* get_dirents and share_main: while no directory goes away, the host can read
\* every page, a file is listed in its own directory, once and in the order of
\* the lines, and a page break loses two lines at most; for any trees, whatever
\* changes in them between pages, and any SIZELIMIT1.
THEOREM ListsInPlace == ShareSpec => []ListedInPlace
  <1> QED BY PlaceInit, PlaceStep, PlaceMeans, ShareTypedInit, ShareTypedStep,
             PTL DEF ShareSpec

=============================================================================
