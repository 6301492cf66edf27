-------------------------- MODULE Assembler_proofs --------------------------
(***************************************************************************)
(* Proofs about Assembler: the total beside the list is the length of what *)
(* is in it, and the list implements one stream of bytes.                  *)
(*                                                                         *)
(* Everything goes through where each block lies in the stream: depths[k]  *)
(* bytes are in the first k blocks, byte j of block k is byte              *)
(* depths[k - 1] + j of the stream, and only one stream lies in a list so. *)
(***************************************************************************)
EXTENDS Assembler, DataLemmas, SequenceTheorems

Lists == Seq(Seq(Bytes))

----------------------------------------------------------------------------
(* Depths *)

\* The bytes in the first k blocks of a list.
Depths(list, depths) ==
    /\ depths \in [0 .. Len(list) -> Nat] /\ depths[0] = 0
    /\ \A k \in 1 .. Len(list) : depths[k] = depths[k - 1] + Len(list[k])

\* Every list has depths.
LEMMA DepthsExist ==
    ASSUME NEW list \in Lists
    PROVE  \E depths : Depths(list, depths)
<1> DEFINE n == Len(list)
           G == [i \in 1 .. n |-> [v \in Nat |-> v + Len(list[i])]]
<1>1. n \in Nat /\ \A i \in 1 .. n : Len(list[i]) \in Nat
  BY DEF Lists
<1>2. G \in [1 .. n -> [Nat -> Nat]] /\ \A i \in 1 .. n, v \in Nat : G[i][v] = v + Len(list[i])
  BY <1>1
<1> HIDE DEF G
<1>3. PICK f \in [0 .. n -> Nat] : Iterates(f, 0, n, G)
  BY <1>1, <1>2, IterationDefines
<1>4. \A i \in 1 .. n : i - 1 \in 0 .. n
  BY <1>1
<1>5. \A i \in 1 .. n : f[i] = f[i - 1] + Len(list[i])
  BY <1>2, <1>3, <1>4 DEF Iterates
<1> QED  BY <1>3, <1>5 DEF Depths, Iterates

\* Depths only grow.
LEMMA DepthsGrow ==
    ASSUME NEW list \in Lists, NEW d, Depths(list, d), NEW j \in 0 .. Len(list)
    PROVE  \A k \in 0 .. Len(list) : j <= k => d[j] <= d[k]
<1> DEFINE n == Len(list)
           S == {k \in Nat : k <= n /\ j <= k => d[j] <= d[k]}
<1>1. n \in Nat /\ (\A i \in 1 .. n : Len(list[i]) \in Nat) /\ \A i \in 0 .. n : d[i] \in Nat
  <2>1. n \in Nat /\ \A i \in 1 .. n : Len(list[i]) \in Nat
    BY DEF Lists
  <2>2. \A i \in 0 .. n : d[i] \in Nat
    BY DEF Depths
  <2> QED  BY <2>1, <2>2
<1>2. 0 \in S
  BY <1>1
<1>3. ASSUME NEW k \in Nat, k \in S PROVE k + 1 \in S
  <2>1. SUFFICES ASSUME k + 1 <= n, j <= k + 1 PROVE d[j] <= d[k + 1]
    OBVIOUS
  <2>2. CASE j = k + 1
    BY <1>1, <2>1, <2>2
  <2>3. CASE j <= k
    <3>1. k + 1 \in 1 .. n /\ (k + 1) - 1 = k /\ k \in 0 .. n
      BY <1>1, <2>1
    <3>2. d[k + 1] = d[k] + Len(list[k + 1])
      BY <3>1 DEF Depths
    <3> QED  BY <1>1, <1>3, <2>1, <2>3, <3>1, <3>2
  <2> QED  BY <2>1, <2>2, <2>3
<1>4. Nat \subseteq S
  <2> HIDE DEF S
  <2> QED  BY <1>2, <1>3, NaturalsByInduction
<1> QED  BY <1>1, <1>4

\* A list has only one depths.
LEMMA DepthsUnique ==
    ASSUME NEW list \in Lists, NEW d, NEW e, Depths(list, d), Depths(list, e)
    PROVE  d = e
<1> DEFINE n == Len(list)
           S == {k \in Nat : k <= n => d[k] = e[k]}
<1>1. n \in Nat
  BY DEF Lists
<1>2. 0 \in S
  BY DEF Depths
<1>3. ASSUME NEW k \in Nat, k \in S PROVE k + 1 \in S
  <2>1. SUFFICES ASSUME k + 1 <= n PROVE d[k + 1] = e[k + 1]
    OBVIOUS
  <2>2. k + 1 \in 1 .. n /\ (k + 1) - 1 = k /\ d[k] = e[k]
    BY <1>1, <1>3, <2>1
  <2> QED  BY <2>2 DEF Depths
<1>4. Nat \subseteq S
  <2> HIDE DEF S
  <2> QED  BY <1>2, <1>3, NaturalsByInduction
<1>5. \A k \in 0 .. n : d[k] = e[k]
  BY <1>1, <1>4
<1> QED  BY <1>5 DEF Depths

\* The walk of Peek counts the depths.
LEMMA DepthIs ==
    ASSUME blocks \in Lists, NEW d, Depths(blocks, d), NEW k \in 0 .. Len(blocks)
    PROVE  Depth(k) = d[k]
<1> DEFINE n == Len(blocks)
           depth == CHOOSE depth : depth = [i \in 0 .. Len(blocks) |->
                                               IF i = 0 THEN 0 ELSE depth[i - 1] + Len(blocks[i])]
<1>1. n \in Nat
  BY DEF Lists
<1>2. d = [i \in 0 .. Len(blocks) |-> IF i = 0 THEN 0 ELSE d[i - 1] + Len(blocks[i])]
  <2>1. \A i \in 0 .. n : i # 0 => i \in 1 .. n
    BY <1>1
  <2> QED  BY <2>1 DEF Depths
<1>3. depth = [i \in 0 .. Len(blocks) |-> IF i = 0 THEN 0 ELSE depth[i - 1] + Len(blocks[i])]
  BY <1>2, Zenon
<1>4. Depth(k) = depth[k]
  BY Zenon DEF Depth
<1> HIDE DEF depth
<1> DEFINE S == {i \in Nat : i <= n => depth[i] = d[i]}
<1>5. 0 \in S
  BY <1>1, <1>3 DEF Depths
<1>6. ASSUME NEW i \in Nat, i \in S PROVE i + 1 \in S
  <2>1. SUFFICES ASSUME i + 1 <= n PROVE depth[i + 1] = d[i + 1]
    OBVIOUS
  <2>2. i + 1 \in 1 .. n /\ i + 1 \in 0 .. n /\ i + 1 # 0 /\ (i + 1) - 1 = i /\ depth[i] = d[i]
    BY <1>1, <1>6, <2>1
  <2>3. depth[i + 1] = depth[i] + Len(blocks[i + 1])
    BY <1>3, <2>2
  <2>4. d[i + 1] = d[i] + Len(blocks[i + 1])
    BY <2>2 DEF Depths
  <2> QED  BY <2>2, <2>3, <2>4
<1>7. Nat \subseteq S
  <2> HIDE DEF S
  <2> QED  BY <1>5, <1>6, NaturalsByInduction
<1> QED  BY <1>1, <1>4, <1>7

----------------------------------------------------------------------------
(* Where the bytes of a list lie in a stream *)

Lies(s, list, d, n) ==
    /\ s \in Seq(Bytes) /\ Len(s) = d[n]
    /\ \A k \in 1 .. n : \A j \in 1 .. Len(list[k]) : s[d[k - 1] + j] = list[k][j]

\* One more block.
LEMMA LiesNext ==
    ASSUME NEW list \in Lists, NEW d, Depths(list, d), NEW n \in 1 .. Len(list), NEW s, Lies(s, list, d, n - 1)
    PROVE  Lies(s \o list[n], list, d, n)
<1>1. /\ n \in Nat /\ n - 1 \in 0 .. Len(list) /\ n \in 0 .. Len(list) /\ list[n] \in Seq(Bytes) /\ Len(list) \in Nat
      /\ \A k \in 1 .. n : list[k] \in Seq(Bytes) /\ k \in 1 .. Len(list) /\ k - 1 \in 0 .. Len(list)
  BY DEF Lists
<1>2. s \in Seq(Bytes) /\ Len(s) = d[n - 1]
  BY DEF Lies
<1> DEFINE f == list[n]  t == s \o f
<1>3. \A i \in 0 .. Len(list) : d[i] \in Nat
  BY DEF Depths
<1>4. d[n] = d[n - 1] + Len(f)
  BY DEF Depths
<1> HIDE DEF f
<1>5. /\ t \in Seq(Bytes) /\ Len(t) = Len(s) + Len(f)
      /\ (\A i \in 1 .. Len(s) : t[i] = s[i]) /\ \A j \in 1 .. Len(f) : t[Len(s) + j] = f[j]
  <2>1. f \in Seq(Bytes) /\ s \in Seq(Bytes)
    BY <1>1, <1>2 DEF f
  <2> QED  BY <2>1
<1> HIDE DEF t
<1>6. ASSUME NEW k \in 1 .. n, NEW j \in 1 .. Len(list[k]) PROVE t[d[k - 1] + j] = list[k][j]
  <2>1. CASE k = n
    BY <1>2, <1>5, <2>1 DEF f
  <2>2. CASE k # n
    <3>1. k \in 1 .. n - 1 /\ k \in 0 .. Len(list) /\ k <= n - 1 /\ k \in 1 .. Len(list) /\ k - 1 \in 0 .. Len(list)
      BY <1>1, <2>2
    <3>2. d[k] = d[k - 1] + Len(list[k]) /\ d[k] <= d[n - 1]
      BY <1>1, <3>1, DepthsGrow DEF Depths
    <3>3. Len(list[k]) \in Nat /\ d[k - 1] \in Nat /\ d[k] \in Nat /\ d[n - 1] \in Nat
      BY <1>1, <1>3, <3>1
    <3>4. d[k - 1] + j \in 1 .. Len(s)
      BY <1>2, <3>2, <3>3, SMTT(30)
    <3>5. s[d[k - 1] + j] = list[k][j]
      BY <3>1 DEF Lies
    <3> QED  BY <1>5, <3>4, <3>5
  <2> QED  BY <2>1, <2>2
<1>7. Lies(t, list, d, n)
  BY <1>2, <1>4, <1>5, <1>6 DEF Lies
<1> QED  BY <1>7 DEF t, f

\* The flattened list is a stream that its blocks lie in.
LEMMA FlatLies ==
    ASSUME NEW list \in Lists, NEW d, Depths(list, d)
    PROVE  Lies(FlattenSeq(list), list, d, Len(list))
<1> DEFINE n == Len(list)
           V == Seq(Bytes)
           G == [i \in 1 .. n |-> [v \in V |-> v \o list[i]]]
           flatten == CHOOSE flatten : flatten = [i \in 1 .. Len(list) |->
                                                     IF i = 1 THEN list[i] ELSE flatten[i - 1] \o list[i]]
<1>1. n \in Nat /\ (\A i \in 1 .. n : list[i] \in V) /\ <<>> \in V
  BY DEF Lists
<1>2. G \in [1 .. n -> [V -> V]] /\ \A i \in 1 .. n, v \in V : G[i][v] = v \o list[i]
  BY <1>1
<1>3. \A v \in V : <<>> \o v = v
  OBVIOUS
<1>4. CASE n = 0
  <2>1. list = <<>> /\ FlattenSeq(list) = <<>>
    BY <1>4 DEF FlattenSeq, Lists
  <2> QED  BY <1>1, <1>4, <2>1 DEF Lies, Depths
<1>5. CASE n > 0
  <2> HIDE DEF G, V
  <2>1. PICK f \in [0 .. n -> V] : Iterates(f, <<>>, n, G)
    BY <1>1, <1>2, IterationDefines
  <2>2. \A i \in 1 .. n : i - 1 \in 0 .. n /\ i \in 0 .. n /\ (i # 1 => i - 1 \in 1 .. n)
    BY <1>1
  <2>3. \A i \in 1 .. n : f[i] = f[i - 1] \o list[i] /\ f[0] = <<>>
    BY <1>2, <2>1, <2>2 DEF Iterates
  <2> DEFINE g == [i \in 1 .. Len(list) |-> f[i]]
  <2>4. \A i \in 1 .. n : g[i] = IF i = 1 THEN list[i] ELSE g[i - 1] \o list[i]
    <3>1. ASSUME NEW i \in 1 .. n, i = 1 PROVE g[i] = list[i]
      <4>1. g[i] = f[i]
        BY <3>1
      <4>2. f[i] = f[i - 1] \o list[i] /\ f[0] = <<>> /\ list[i] \in V
        BY <1>1, <2>3, <3>1
      <4>3. i - 1 = 0
        BY <3>1
      <4> HIDE DEF g
      <4>4. f[i] = <<>> \o list[i]
        BY <4>2, <4>3
      <4> QED  BY <1>3, <4>1, <4>2, <4>4
    <3>2. ASSUME NEW i \in 1 .. n, i # 1 PROVE g[i] = g[i - 1] \o list[i]
      BY <2>2, <2>3, <3>2
    <3> HIDE DEF g
    <3> QED  BY <3>1, <3>2
  <2>5. g = [i \in 1 .. Len(list) |-> IF i = 1 THEN list[i] ELSE g[i - 1] \o list[i]]
    <3>1. g = [i \in 1 .. Len(list) |-> g[i]]
      OBVIOUS
    <3> HIDE DEF g
    <3> QED  BY <2>4, <3>1
  <2> HIDE DEF g
  <2>6. flatten = [i \in 1 .. Len(list) |-> IF i = 1 THEN list[i] ELSE flatten[i - 1] \o list[i]]
    BY <2>5, Zenon
  <2>7. FlattenSeq(list) = flatten[Len(list)]
    <3>1. Len(list) # 0
      BY <1>5
    <3> QED  BY <3>1, Zenon DEF FlattenSeq
  <2> HIDE DEF flatten
  <2> DEFINE S == {k \in Nat : k \in 1 .. n => Lies(flatten[k], list, d, k)}
  <2>8. 0 \in S
    OBVIOUS
  <2>9. ASSUME NEW k \in Nat, k \in S PROVE k + 1 \in S
    <3>1. SUFFICES ASSUME k + 1 \in 1 .. n PROVE Lies(flatten[k + 1], list, d, k + 1)
      OBVIOUS
    <3>2. (k + 1) - 1 = k
      OBVIOUS
    <3>3. CASE k = 0
      <4>1. Lies(<<>>, list, d, 0)
        BY <1>1 DEF Lies, Depths, V
      <4>2. flatten[1] = list[1] /\ 1 \in 1 .. n
        BY <1>1, <2>6, <3>1, <3>3
      <4>3. Lies(<<>> \o list[1], list, d, 1)
        <5>1. 1 - 1 = 0
          OBVIOUS
        <5> QED  BY <4>1, <4>2, <5>1, LiesNext
      <4>4. <<>> \o list[1] = list[1]
        BY <1>1, <1>3, <4>2
      <4> QED  BY <3>3, <4>2, <4>3, <4>4
    <3>4. CASE k # 0
      <4>1. k \in 1 .. n /\ k + 1 # 1
        BY <1>1, <3>1, <3>4
      <4>2. flatten[k + 1] = flatten[k] \o list[k + 1]
        BY <2>6, <3>1, <3>2, <4>1
      <4>3. Lies(flatten[k], list, d, k)
        BY <2>9, <4>1
      <4> QED  BY <3>1, <3>2, <4>2, <4>3, LiesNext
    <3> QED  BY <3>3, <3>4
  <2>10. Nat \subseteq S
    <3> HIDE DEF S
    <3> QED  BY <2>8, <2>9, NaturalsByInduction
  <2>11. n \in 1 .. n
    BY <1>1, <1>5
  <2> QED  BY <1>1, <2>7, <2>10, <2>11
<1> QED  BY <1>1, <1>4, <1>5

\* What is known of the depths of a list.
LEMMA DepthFacts ==
    ASSUME NEW list \in Lists, NEW d, Depths(list, d)
    PROVE  /\ Len(list) \in Nat /\ (\A k \in 0 .. Len(list) : d[k] \in Nat) /\ d[0] = 0
           /\ \A k \in 1 .. Len(list) : /\ list[k] \in Seq(Bytes) /\ Len(list[k]) \in Nat
                                        /\ k - 1 \in 0 .. Len(list) /\ k \in 0 .. Len(list)
                                        /\ d[k] = d[k - 1] + Len(list[k])
<1>1. Len(list) \in Nat
  BY DEF Lists
<1>2. \A k \in 0 .. Len(list) : d[k] \in Nat
  BY DEF Depths
<1>3. ASSUME NEW k \in 1 .. Len(list)
      PROVE  list[k] \in Seq(Bytes) /\ Len(list[k]) \in Nat /\ k - 1 \in 0 .. Len(list) /\ k \in 0 .. Len(list)
  BY <1>1 DEF Lists
<1> QED  BY <1>1, <1>2, <1>3 DEF Depths

\* Every byte lies in a block.
LEMMA InBlock ==
    ASSUME NEW list \in Lists, NEW d, Depths(list, d), NEW i \in 1 .. d[Len(list)]
    PROVE  \E k \in 1 .. Len(list) : d[k - 1] < i /\ i <= d[k]
<1> DEFINE n == Len(list)
           T == {k \in 0 .. n : i <= d[k]}
<1>1. n \in Nat /\ (\A k \in 0 .. n : d[k] \in Nat) /\ d[0] = 0
  BY DepthFacts
<1>2. n \in T /\ T \subseteq Nat
  BY <1>1
<1>3. PICK k \in T : \A m \in T : k <= m
  BY <1>2, LeastNatural
<1>4. k # 0 /\ k \in 0 .. n
  BY <1>1, <1>3
<1>5. k \in 1 .. n /\ k - 1 \in 0 .. n /\ k - 1 < k
  BY <1>1, <1>4
<1>6. k - 1 \notin T
  BY <1>1, <1>3, <1>5
<1>7. d[k - 1] < i /\ i <= d[k]
  BY <1>1, <1>3, <1>5, <1>6
<1> QED  BY <1>5, <1>7

\* Only one stream lies in a list.
LEMMA LiesUnique ==
    ASSUME NEW list \in Lists, NEW d, Depths(list, d), NEW s, NEW t,
           Lies(s, list, d, Len(list)), Lies(t, list, d, Len(list))
    PROVE  s = t
<1> DEFINE n == Len(list)
<1>1. s \in Seq(Bytes) /\ t \in Seq(Bytes) /\ Len(s) = d[n] /\ Len(t) = d[n]
  BY DEF Lies
<1>2. ASSUME NEW i \in 1 .. d[n] PROVE s[i] = t[i]
  <2>1. PICK k \in 1 .. n : d[k - 1] < i /\ i <= d[k]
    BY InBlock
  <2>2. Len(list[k]) \in Nat /\ d[k - 1] \in Nat /\ d[k] = d[k - 1] + Len(list[k]) /\ d[k] \in Nat /\ d[n] \in Nat
    BY DepthFacts
  <2> DEFINE j == i - d[k - 1]
  <2>3. j \in 1 .. Len(list[k]) /\ d[k - 1] + j = i
    BY <2>1, <2>2
  <2> HIDE DEF j
  <2>4. s[d[k - 1] + j] = list[k][j] /\ t[d[k - 1] + j] = list[k][j]
    BY <2>3 DEF Lies
  <2> QED  BY <2>3, <2>4
<1> QED  BY <1>1, <1>2

\* Bytes i + 1 to j of a block are that piece of the stream after the first a bytes.
Piece(block, i, j, s, a) == SubSeq(block, i + 1, j) = SubSeq(s, a + i + 1, a + j)

\* A piece of a block is a piece of the stream.
LEMMA PieceOfBlock ==
    ASSUME NEW list \in Lists, NEW d, Depths(list, d), NEW s, Lies(s, list, d, Len(list)),
           NEW k \in 1 .. Len(list), NEW i \in Nat, NEW j \in Nat, i <= j, j <= Len(list[k])
    PROVE  Piece(list[k], i, j, s, d[k - 1])
<1> DEFINE n == Len(list)  b == list[k]  a == d[k - 1]
           u == SubSeq(b, i + 1, j)  v == SubSeq(s, a + i + 1, a + j)
<1>1. /\ n \in Nat /\ b \in Seq(Bytes) /\ Len(b) \in Nat /\ a \in Nat /\ d[k] = a + Len(b)
      /\ d[k] \in Nat /\ d[n] \in Nat /\ k \in 0 .. n
  BY DepthFacts
<1>2. d[k] <= d[n] /\ s \in Seq(Bytes) /\ Len(s) = d[n]
  <2>1. n \in 0 .. n
    BY <1>1
  <2> QED  BY <1>1, <2>1, DepthsGrow DEF Lies
<1>3. \A m \in 1 .. Len(b) : s[a + m] = b[m]
  BY DEF Lies
<1> HIDE DEF b, a
<1>4. Len(u) = j - i /\ u \in Seq(Bytes) /\ \A m \in 1 .. j - i : u[m] = b[i + m]
  <2>1. \A m \in i + 1 .. j : b[m] \in Bytes
    BY <1>1 DEF b
  <2>2. /\ SubSeq(b, i + 1, j) \in Seq(Bytes)
        /\ Len(SubSeq(b, i + 1, j)) = IF i + 1 <= j THEN j - (i + 1) + 1 ELSE 0
        /\ \A m \in 1 .. j - (i + 1) + 1 : SubSeq(b, i + 1, j)[m] = b[(i + 1) + m - 1]
    BY <2>1, SubSeqProperties
  <2>3. \A m \in 1 .. j - i : m \in 1 .. j - (i + 1) + 1 /\ (i + 1) + m - 1 = i + m
    OBVIOUS
  <2> QED  BY <2>2, <2>3
<1>5. Len(v) = j - i /\ v \in Seq(Bytes) /\ \A m \in 1 .. j - i : v[m] = s[a + i + m]
  <2>1. \A m \in a + i + 1 .. a + j : s[m] \in Bytes
    BY <1>1, <1>2 DEF b
  <2>2. /\ SubSeq(s, a + i + 1, a + j) \in Seq(Bytes)
        /\ Len(SubSeq(s, a + i + 1, a + j)) = IF a + i + 1 <= a + j THEN (a + j) - (a + i + 1) + 1 ELSE 0
        /\ \A m \in 1 .. (a + j) - (a + i + 1) + 1 : SubSeq(s, a + i + 1, a + j)[m] = s[(a + i + 1) + m - 1]
    <3>1. a + i + 1 \in Int /\ a + j \in Int
      BY <1>1
    <3> QED  BY <2>1, <3>1, SubSeqProperties
  <2>3. \A m \in 1 .. j - i : m \in 1 .. (a + j) - (a + i + 1) + 1 /\ (a + i + 1) + m - 1 = a + i + m
    BY <1>1
  <2> QED  BY <1>1, <2>2, <2>3
<1> HIDE DEF u, v
<1>6. \A m \in 1 .. j - i : u[m] = v[m]
  <2>1. ASSUME NEW m \in 1 .. j - i PROVE u[m] = v[m]
    <3>1. i + m \in 1 .. Len(b) /\ a + (i + m) = a + i + m
      BY <1>1 DEF b
    <3>2. s[a + (i + m)] = b[i + m]
      BY <1>3, <3>1
    <3> QED  BY <1>4, <1>5, <3>1, <3>2
  <2> QED  BY <2>1
<1>7. u = v
  BY <1>4, <1>5, <1>6
<1> QED  BY <1>7 DEF u, v, a, b, Piece

----------------------------------------------------------------------------
(* The stream of a list *)

\* A list is a stream, whose length is the depth of its end.
LEMMA FlatIsStream ==
    ASSUME NEW list \in Lists, NEW d, Depths(list, d)
    PROVE  FlattenSeq(list) \in Seq(Bytes) /\ Len(FlattenSeq(list)) = d[Len(list)]
BY FlatLies DEF Lies

\* No block, no byte.
LEMMA FlatEmpty == FlattenSeq(<<>>) = <<>> /\ <<>> \in Lists
BY DEF FlattenSeq, Lists

\* One block is a stream of its own.
LEMMA FlatSingle ==
    ASSUME NEW f \in Seq(Bytes)
    PROVE  FlattenSeq(<<f>>) = f /\ <<f>> \in Lists
<1> DEFINE list == <<f>>  d == [i \in 0 .. 1 |-> IF i = 0 THEN 0 ELSE Len(f)]
<1>1. list \in Lists /\ Len(list) = 1 /\ list[1] = f /\ Len(f) \in Nat
  BY DEF Lists
<1>2. d \in [0 .. 1 -> Nat] /\ d[0] = 0 /\ d[1] = Len(f) /\ 1 - 1 = 0
  BY <1>1
<1> HIDE DEF list, d
<1>3. Depths(list, d)
  <2>1. \A k \in 1 .. 1 : k = 1
    OBVIOUS
  <2> QED  BY <1>1, <1>2, <2>1 DEF Depths
<1>4. Lies(f, list, d, 1)
  <2>1. \A k \in 1 .. 1 : k = 1
    OBVIOUS
  <2>2. \A j \in 1 .. Len(f) : 0 + j = j
    BY <1>1
  <2> QED  BY <1>1, <1>2, <2>1, <2>2 DEF Lies
<1>5. FlattenSeq(list) = f
  <2>1. Lies(FlattenSeq(list), list, d, Len(list))
    BY <1>1, <1>3, FlatLies
  <2> QED  BY <1>1, <1>3, <1>4, <2>1, LiesUnique
<1> QED  BY <1>1, <1>5 DEF list

\* The stream of two lists in a row.
LEMMA FlatConcat ==
    ASSUME NEW l \in Lists, NEW m \in Lists
    PROVE  FlattenSeq(l \o m) = FlattenSeq(l) \o FlattenSeq(m) /\ l \o m \in Lists
<1>1. PICK d : Depths(l, d)
  BY DepthsExist
<1>2. PICK e : Depths(m, e)
  BY DepthsExist
<1> DEFINE list == l \o m
           n == Len(l)  p == Len(m)
           c == [i \in 0 .. n + p |-> IF i <= n THEN d[i] ELSE d[n] + e[i - n]]
           s == FlattenSeq(l)  t == FlattenSeq(m)  u == s \o t
<1>3. /\ n \in Nat /\ (\A k \in 0 .. n : d[k] \in Nat) /\ d[0] = 0
      /\ \A k \in 1 .. n : Len(l[k]) \in Nat /\ d[k] = d[k - 1] + Len(l[k])
  BY <1>1, DepthFacts
<1>4. /\ p \in Nat /\ (\A k \in 0 .. p : e[k] \in Nat) /\ e[0] = 0
      /\ \A k \in 1 .. p : Len(m[k]) \in Nat /\ e[k] = e[k - 1] + Len(m[k])
  BY <1>2, DepthFacts
<1>5. /\ list \in Lists /\ Len(list) = n + p
      /\ (\A k \in 1 .. n : list[k] = l[k]) /\ \A k \in 1 .. p : list[n + k] = m[k]
  BY DEF Lists
<1>6. s \in Seq(Bytes) /\ Len(s) = d[n] /\ \A k \in 1 .. n : \A j \in 1 .. Len(l[k]) : s[d[k - 1] + j] = l[k][j]
  BY <1>1, FlatLies DEF Lies
<1>7. t \in Seq(Bytes) /\ Len(t) = e[p] /\ \A k \in 1 .. p : \A j \in 1 .. Len(m[k]) : t[e[k - 1] + j] = m[k][j]
  BY <1>2, FlatLies DEF Lies
<1>8. /\ c[0] = 0 /\ c[n + p] = d[n] + e[p]
      /\ (\A k \in 0 .. n : c[k] = d[k]) /\ \A k \in 0 .. p : c[n + k] = d[n] + e[k]
  <2>1. \A k \in 0 .. n : k \in 0 .. n + p /\ k <= n
    BY <1>3, <1>4
  <2>2. \A k \in 0 .. n : c[k] = d[k]
    BY <2>1
  <2>3. ASSUME NEW k \in 0 .. p PROVE c[n + k] = d[n] + e[k]
    <3>1. n + k \in 0 .. n + p /\ (n + k) - n = k
      BY <1>3, <1>4
    <3>2. CASE k = 0
      <4>1. n + k = n /\ n \in 0 .. n /\ d[n] \in Nat
        BY <1>3, <3>2
      <4> QED  BY <1>4, <2>2, <3>2, <4>1
    <3>3. CASE k # 0
      <4>1. ~(n + k <= n)
        BY <1>3, <1>4, <3>3
      <4> QED  BY <3>1, <4>1
    <3> QED  BY <3>2, <3>3
  <2>4. 0 \in 0 .. n /\ p \in 0 .. p
    BY <1>3, <1>4
  <2> HIDE DEF c
  <2> QED  BY <1>3, <2>2, <2>3, <2>4
<1>9. c \in [0 .. n + p -> Nat]
  <2>1. ASSUME NEW i \in 0 .. n + p PROVE (IF i <= n THEN d[i] ELSE d[n] + e[i - n]) \in Nat
    <3>1. CASE i <= n
      <4>1. i \in 0 .. n
        BY <1>3, <1>4, <3>1
      <4> QED  BY <1>3, <3>1, <4>1
    <3>2. CASE ~(i <= n)
      <4>1. i - n \in 0 .. p /\ n \in 0 .. n
        BY <1>3, <1>4, <3>2
      <4>2. d[n] \in Nat /\ e[i - n] \in Nat
        BY <1>3, <1>4, <4>1
      <4> QED  BY <3>2, <4>2
    <3> QED  BY <3>1, <3>2
  <2> QED  BY <2>1
<1> HIDE DEF c, n, p, list, s, t
\* a block of the whole list is one of the first or one of the second
<1>10. ASSUME NEW k \in 1 .. n + p, k \notin 1 .. n
       PROVE  \E i \in 1 .. p : k = n + i /\ k - 1 = n + (i - 1) /\ i \in 0 .. p /\ i - 1 \in 0 .. p
  <2>1. k - n \in 1 .. p /\ k = n + (k - n) /\ k - 1 = n + ((k - n) - 1) /\ k - n \in 0 .. p /\ (k - n) - 1 \in 0 .. p
    BY <1>3, <1>4, <1>10
  <2> QED  BY <2>1
<1>11. \A k \in 1 .. n : k \in 0 .. n /\ k - 1 \in 0 .. n
  BY <1>3
<1>12. n \in 0 .. n /\ d[n] \in Nat
  BY <1>3
<1>13. Depths(list, c)
  <2>1. ASSUME NEW k \in 1 .. n + p PROVE c[k] = c[k - 1] + Len(list[k])
    <3>1. CASE k \in 1 .. n
      BY <1>3, <1>5, <1>8, <1>11, <3>1
    <3>2. CASE k \notin 1 .. n
      <4>1. PICK i \in 1 .. p : k = n + i /\ k - 1 = n + (i - 1) /\ i \in 0 .. p /\ i - 1 \in 0 .. p
        BY <1>10, <3>2
      <4>2. c[k] = d[n] + e[i] /\ c[k - 1] = d[n] + e[i - 1] /\ list[k] = m[i]
        BY <1>5, <1>8, <4>1
      <4>3. e[i] = e[i - 1] + Len(m[i]) /\ e[i - 1] \in Nat /\ Len(m[i]) \in Nat
        BY <1>4, <4>1
      <4> QED  BY <1>12, <4>2, <4>3
    <3> QED  BY <3>1, <3>2
  <2> QED  BY <1>5, <1>8, <1>9, <2>1 DEF Depths
<1>14. /\ u \in Seq(Bytes) /\ Len(u) = d[n] + e[p]
       /\ (\A i \in 1 .. Len(s) : u[i] = s[i]) /\ \A i \in 1 .. Len(t) : u[Len(s) + i] = t[i]
  <2>1. s \in Seq(Bytes) /\ t \in Seq(Bytes)
    BY <1>6, <1>7
  <2>2. /\ u \in Seq(Bytes) /\ Len(u) = Len(s) + Len(t)
        /\ (\A i \in 1 .. Len(s) : u[i] = s[i]) /\ \A i \in 1 .. Len(t) : u[Len(s) + i] = t[i]
    BY <2>1
  <2> HIDE DEF u
  <2> QED  BY <1>6, <1>7, <2>2
<1> HIDE DEF u
<1>15. Lies(u, list, c, n + p)
  <2>1. ASSUME NEW k \in 1 .. n + p, NEW j \in 1 .. Len(list[k]) PROVE u[c[k - 1] + j] = list[k][j]
    <3>1. CASE k \in 1 .. n
      <4>1. list[k] = l[k] /\ c[k - 1] = d[k - 1] /\ d[k] = d[k - 1] + Len(l[k]) /\ d[k - 1] \in Nat /\ Len(l[k]) \in Nat
        BY <1>3, <1>5, <1>8, <1>11, <3>1
      <4>2. d[k] <= d[n] /\ d[k] \in Nat
        <5>1. \A i \in 0 .. Len(l) : k <= i => d[k] <= d[i]
          BY <1>1, <1>11, <3>1, DepthsGrow DEF n
        <5> QED  BY <1>3, <1>11, <1>12, <3>1, <5>1 DEF n
      <4>3. d[k - 1] + j \in 1 .. Len(s)
        BY <1>6, <1>12, <4>1, <4>2
      <4> QED  BY <1>6, <1>14, <3>1, <4>1, <4>3
    <3>2. CASE k \notin 1 .. n
      <4>1. PICK i \in 1 .. p : k = n + i /\ k - 1 = n + (i - 1) /\ i \in 0 .. p /\ i - 1 \in 0 .. p
        BY <1>10, <3>2
      <4>2. c[k - 1] = d[n] + e[i - 1] /\ list[k] = m[i]
        BY <1>5, <1>8, <4>1
      <4>3. e[i] = e[i - 1] + Len(m[i]) /\ e[i - 1] \in Nat /\ Len(m[i]) \in Nat /\ e[i] \in Nat
        BY <1>4, <4>1
      <4>4. e[i] <= e[p] /\ e[p] \in Nat
        <5>1. \A h \in 0 .. Len(m) : i <= h => e[i] <= e[h]
          BY <1>2, <4>1, DepthsGrow DEF p
        <5>2. p \in 0 .. Len(m) /\ i <= p
          BY <1>4 DEF p
        <5> QED  BY <1>4, <5>1, <5>2 DEF p
      <4>5. e[i - 1] + j \in 1 .. Len(t) /\ c[k - 1] + j = Len(s) + (e[i - 1] + j)
        <5>1. Len(t) = e[p] /\ Len(s) = d[n] /\ list[k] = m[i]
          BY <1>6, <1>7, <4>2
        <5>2. j \in 1 .. Len(m[i])
          BY <5>1
        <5> QED  BY <1>12, <4>2, <4>3, <4>4, <5>1, <5>2, SMTT(30)
      <4>6. t[e[i - 1] + j] = m[i][j]
        BY <1>7, <4>2
      <4>7. u[Len(s) + (e[i - 1] + j)] = t[e[i - 1] + j]
        BY <1>14, <4>5
      <4> QED  BY <4>2, <4>5, <4>6, <4>7
    <3> QED  BY <3>1, <3>2
  <2> QED  BY <1>8, <1>14, <2>1 DEF Lies
<1>16. FlattenSeq(list) = u
  <2>1. Lies(FlattenSeq(list), list, c, Len(list))
    BY <1>5, <1>13, FlatLies
  <2>2. Lies(u, list, c, Len(list))
    BY <1>5, <1>15
  <2> QED  BY <1>5, <1>13, <2>1, <2>2, LiesUnique
<1> QED  BY <1>5, <1>16 DEF list, s, t, u

\* Blocks in a row are the piece of the stream from the first to the last.
LEMMA FlatSublist ==
    ASSUME NEW list \in Lists, NEW d, Depths(list, d), NEW i \in 0 .. Len(list), NEW j \in 0 .. Len(list), i <= j
    PROVE  FlattenSeq(SubSeq(list, i + 1, j)) = SubSeq(FlattenSeq(list), d[i] + 1, d[j])
<1> DEFINE n == Len(list)
           s == FlattenSeq(list)
           l == SubSeq(list, i + 1, j)
           p == j - i
           e == [k \in 0 .. p |-> d[i + k] - d[i]]
           v == SubSeq(s, d[i] + 1, d[j])
<1>1. /\ n \in Nat /\ (\A k \in 0 .. n : d[k] \in Nat) /\ i \in Nat /\ j \in Nat /\ p \in Nat /\ j = i + p /\ j <= n
      /\ \A k \in 1 .. n : list[k] \in Seq(Bytes) /\ Len(list[k]) \in Nat /\ d[k] = d[k - 1] + Len(list[k])
  <2>1. n \in Nat
    BY DEF Lists
  <2>2. i \in Nat /\ j \in Nat /\ p \in Nat /\ j = i + p /\ j <= n
    BY <2>1
  <2> QED  BY <2>1, <2>2, DepthFacts
<1>2. \A k \in 0 .. p : i + k \in 0 .. n /\ d[i + k] \in Nat
  BY <1>1
<1>3. ASSUME NEW k \in 0 .. p PROVE d[i] <= d[i + k] /\ d[i + k] <= d[j]
  <2>1. i <= i + k /\ i + k <= j /\ i + k \in 0 .. n
    BY <1>1, <1>2
  <2>2. (\A h \in 0 .. n : i <= h => d[i] <= d[h]) /\ \A h \in 0 .. n : i + k <= h => d[i + k] <= d[h]
    BY <2>1, DepthsGrow
  <2> QED  BY <2>1, <2>2
<1>4. d[j] <= d[n] /\ d[i] \in Nat /\ d[j] \in Nat /\ d[i] <= d[j] /\ d[n] \in Nat
  <2>1. \A h \in 0 .. n : j <= h => d[j] <= d[h]
    BY DepthsGrow
  <2>2. n \in 0 .. n /\ p \in 0 .. p
    BY <1>1
  <2>3. d[i] <= d[i + p]
    BY <1>3, <2>2
  <2> QED  BY <1>1, <2>1, <2>2, <2>3
<1>5. s \in Seq(Bytes) /\ Len(s) = d[n] /\ \A k \in 1 .. n : \A x \in 1 .. Len(list[k]) : s[d[k - 1] + x] = list[k][x]
  BY FlatLies DEF Lies
<1> HIDE DEF s
<1>6. l \in Lists /\ Len(l) = p /\ \A k \in 1 .. p : l[k] = list[i + k]
  <2>1. \A k \in i + 1 .. j : list[k] \in Seq(Bytes)
    BY <1>1
  <2>2. /\ SubSeq(list, i + 1, j) \in Seq(Seq(Bytes))
        /\ Len(SubSeq(list, i + 1, j)) = IF i + 1 <= j THEN j - (i + 1) + 1 ELSE 0
        /\ \A k \in 1 .. j - (i + 1) + 1 : SubSeq(list, i + 1, j)[k] = list[(i + 1) + k - 1]
    BY <2>1, SubSeqProperties
  <2>3. (\A k \in 1 .. p : k \in 1 .. j - (i + 1) + 1 /\ (i + 1) + k - 1 = i + k)
        /\ p = IF i + 1 <= j THEN j - (i + 1) + 1 ELSE 0
    BY <1>1
  <2> HIDE DEF p
  <2> QED  BY <2>2, <2>3 DEF Lists
<1>7. v \in Seq(Bytes) /\ Len(v) = d[j] - d[i] /\ \A x \in 1 .. d[j] - d[i] : v[x] = s[d[i] + x]
  <2> DEFINE a == d[i]  b == d[j]
  <2>0. a \in Nat /\ b \in Nat /\ a <= b /\ b <= Len(s)
    BY <1>4, <1>5
  <2> HIDE DEF a, b
  <2>1. \A x \in a + 1 .. b : s[x] \in Bytes
    BY <1>5, <2>0
  <2>2. /\ SubSeq(s, a + 1, b) \in Seq(Bytes)
        /\ Len(SubSeq(s, a + 1, b)) = IF a + 1 <= b THEN b - (a + 1) + 1 ELSE 0
        /\ \A x \in 1 .. b - (a + 1) + 1 : SubSeq(s, a + 1, b)[x] = s[(a + 1) + x - 1]
    BY <2>0, <2>1, SubSeqProperties
  <2>3. \A x \in 1 .. b - a : x \in 1 .. b - (a + 1) + 1 /\ (a + 1) + x - 1 = a + x
    BY <2>0
  <2>4. Len(SubSeq(s, a + 1, b)) = b - a /\ \A x \in 1 .. b - a : SubSeq(s, a + 1, b)[x] = s[a + x]
    BY <2>0, <2>2, <2>3
  <2> QED  BY <2>2, <2>4 DEF a, b
<1>8. e \in [0 .. p -> Nat] /\ e[0] = 0 /\ e[p] = d[j] - d[i] /\ \A k \in 0 .. p : e[k] = d[i + k] - d[i]
  <2>1. ASSUME NEW k \in 0 .. p PROVE d[i + k] - d[i] \in Nat
    <3>1. d[i + k] \in Nat /\ d[i] \in Nat /\ d[i] <= d[i + k]
      BY <1>2, <1>3, <1>4
    <3> HIDE DEF p
    <3> QED  BY <3>1
  <2>2. i + 0 = i /\ 0 \in 0 .. p /\ p \in 0 .. p
    BY <1>1
  <2>3. e \in [0 .. p -> Nat] /\ \A k \in 0 .. p : e[k] = d[i + k] - d[i]
    BY <2>1
  <2> HIDE DEF e
  <2>4. e[0] = d[i] - d[i]
    BY <2>2, <2>3
  <2>5. e[p] = d[i + p] - d[i]
    BY <2>2, <2>3
  <2>6. d[i] - d[i] = 0 /\ d[i + p] = d[j]
    BY <1>1, <1>4
  <2> QED  BY <2>3, <2>4, <2>5, <2>6
<1> HIDE DEF e, v, l, p
<1>9. ASSUME NEW k \in 1 .. p
      PROVE  /\ k \in 0 .. p /\ k - 1 \in 0 .. p /\ i + k \in 1 .. n
             /\ e[k] = d[i + k] - d[i] /\ e[k - 1] = d[(i + k) - 1] - d[i]
             /\ d[i + k] = d[(i + k) - 1] + Len(list[i + k])
             /\ d[(i + k) - 1] \in Nat /\ d[i + k] \in Nat /\ Len(list[i + k]) \in Nat
             /\ d[i] <= d[(i + k) - 1] /\ d[i + k] <= d[j]
  <2>1. k \in 0 .. p /\ k - 1 \in 0 .. p /\ i + k \in 1 .. n /\ i + (k - 1) = (i + k) - 1 /\ (i + k) - 1 \in 0 .. n /\ i + k \in 0 .. n
    BY <1>1
  <2>2. e[k] = d[i + k] - d[i] /\ e[k - 1] = d[(i + k) - 1] - d[i]
    BY <1>8, <2>1
  <2>3. d[i] <= d[(i + k) - 1] /\ d[i + k] <= d[j]
    BY <1>3, <2>1
  <2> QED  BY <1>1, <2>1, <2>2, <2>3
<1>10. Depths(l, e)
  <2>1. ASSUME NEW k \in 1 .. p PROVE e[k] = e[k - 1] + Len(l[k])
    <3>1. l[k] = list[i + k]
      BY <1>6
    <3> QED  BY <1>4, <1>9, <3>1, SMTT(30)
  <2> QED  BY <1>6, <1>8, <2>1 DEF Depths
<1>11. Lies(v, l, e, p)
  <2>1. ASSUME NEW k \in 1 .. p, NEW x \in 1 .. Len(l[k]) PROVE v[e[k - 1] + x] = l[k][x]
    <3>1. l[k] = list[i + k]
      BY <1>6
    <3>2. e[k - 1] + x \in 1 .. d[j] - d[i] /\ d[i] + (e[k - 1] + x) = d[(i + k) - 1] + x
      <4>1. x \in 1 .. Len(list[i + k])
        BY <3>1
      <4> DEFINE a == d[i]  b == d[(i + k) - 1]  c == d[i + k]  g == Len(list[i + k])
      <4>2. /\ a \in Nat /\ b \in Nat /\ c \in Nat /\ g \in Nat /\ d[j] \in Nat
            /\ c = b + g /\ a <= b /\ c <= d[j] /\ e[k - 1] = b - a /\ x \in 1 .. g
        BY <1>4, <1>9, <4>1
      <4> HIDE DEF a, b, c, g
      <4>3. e[k - 1] + x \in 1 .. d[j] - a /\ a + (e[k - 1] + x) = b + x
        BY <4>2
      <4> QED  BY <4>3 DEF a, b
    <3>3. v[e[k - 1] + x] = s[d[(i + k) - 1] + x]
      BY <1>7, <3>2
    <3>4. s[d[(i + k) - 1] + x] = list[i + k][x]
      BY <1>5, <1>9, <3>1
    <3> QED  BY <3>1, <3>3, <3>4
  <2> QED  BY <1>7, <1>8, <2>1 DEF Lies
<1>12. FlattenSeq(l) = v
  <2>1. Lies(FlattenSeq(l), l, e, Len(l)) /\ Lies(v, l, e, Len(l))
    BY <1>6, <1>10, <1>11, FlatLies
  <2> QED  BY <1>6, <1>10, <2>1, LiesUnique
<1> QED  BY <1>12 DEF l, v, s

----------------------------------------------------------------------------
(* Arithmetic modulo UINT, and the first block of a walk *)

\* Below UINT, adding and subtracting are exact.
LEMMA Exact ==
    ASSUME NEW x \in Nat, x < UINT
    PROVE  x % UINT = x /\ (UINT + x) % UINT = x
<1>1. UINT \in Nat /\ UINT > 0
  BY ArgumentsAssumption
<1> QED  BY <1>1

LEMMA AddExact ==
    ASSUME NEW a \in Nat, NEW b \in Nat, a + b < UINT
    PROVE  Add(a, b) = a + b
BY Exact DEF Add

LEMMA SubtractExact ==
    ASSUME NEW a \in Nat, NEW b \in Nat, b <= a, a < UINT
    PROVE  Subtract(a, b) = a - b
<1>1. UINT \in Nat /\ UINT > 0 /\ a - b \in Nat /\ a - b < UINT
  BY ArgumentsAssumption
<1>2. UINT + a - b = UINT + (a - b)
  BY <1>1
<1>3. (UINT + (a - b)) % UINT = a - b
  BY <1>1, Exact
<1> QED  BY <1>2, <1>3 DEF Subtract

\* The least of a set of naturals.
LEMMA MinLeast ==
    ASSUME NEW T \in SUBSET Nat, T # {}
    PROVE  Min(T) \in T /\ \A m \in T : Min(T) <= m
<1>1. \E n \in T : \A m \in T : n <= m
  BY LeastNatural
<1> QED  BY <1>1 DEF Min

\* The first block of the list to reach a bound that the last one reaches: the blocks
\* before it do not.
LEMMA FirstToReach ==
    ASSUME NEW n \in Nat, NEW T \in SUBSET (1 .. n), T # {}
    PROVE  /\ Min(T) \in T /\ Min(T) \in 1 .. n /\ Min(T) - 1 \in 0 .. n
           /\ (Min(T) - 1 = 0 \/ (Min(T) - 1 \in 1 .. n /\ Min(T) - 1 \notin T))
           /\ \A m \in T : Min(T) <= m
<1>1. T \in SUBSET Nat
  OBVIOUS
<1>2. Min(T) \in T /\ \A m \in T : Min(T) <= m
  BY <1>1, MinLeast
<1> DEFINE k == Min(T)
<1> HIDE DEF k
<1>3. k \in T /\ k \in 1 .. n /\ \A m \in T : k <= m
  BY <1>2 DEF k
<1>4. k - 1 \in 0 .. n /\ (k - 1 = 0 \/ k - 1 \in 1 .. n) /\ k - 1 < k
  BY <1>3
<1>5. k - 1 \notin T
  BY <1>3, <1>4
<1> QED  BY <1>3, <1>4, <1>5 DEF k

----------------------------------------------------------------------------
(* Taking bytes off the front *)

\* What Trim leaves is the stream after the bytes it took.
LEMMA TrimmedIsAfter ==
    ASSUME blocks \in Lists, NEW n \in Nat, n <= Len(FlattenSeq(blocks))
    PROVE  /\ Trimmed(n) \in Lists
           /\ FlattenSeq(Trimmed(n)) = SubSeq(FlattenSeq(blocks), n + 1, Len(FlattenSeq(blocks)))
<1>1. PICK d : Depths(blocks, d)
  BY DepthsExist
<1> DEFINE p == Len(blocks)
           s == FlattenSeq(blocks)
           after == SubSeq(s, n + 1, Len(s))
<1>2. /\ p \in Nat /\ (\A k \in 0 .. p : d[k] \in Nat) /\ d[0] = 0
      /\ \A k \in 1 .. p : /\ blocks[k] \in Seq(Bytes) /\ Len(blocks[k]) \in Nat
                           /\ k - 1 \in 0 .. p /\ k \in 0 .. p /\ d[k] = d[k - 1] + Len(blocks[k])
  BY <1>1, DepthFacts
<1>3. s \in Seq(Bytes) /\ Len(s) = d[p] /\ Lies(s, blocks, d, p)
  BY <1>1, FlatLies, FlatIsStream
<1>4. \A k \in 0 .. p : Depth(k) = d[k]
  BY <1>1, DepthIs
<1>5. DOMAIN blocks = 1 .. p
  BY DEF Lists
<1>6. Kept(n) = {k \in 1 .. p : d[k - 1] >= n \/ d[k] > n}
  BY <1>2, <1>4, <1>5 DEF Kept
<1> HIDE DEF p, s
<1>7. CASE Kept(n) = {}
  <2>1. n = Len(s)
    <3>1. CASE p = 0
      BY <1>2, <1>3, <3>1 DEF s
    <3>2. CASE p # 0
      <4>1. p \in 1 .. p
        BY <1>2, <3>2
      <4>2. ~(d[p] > n) /\ d[p] \in Nat
        BY <1>2, <1>6, <1>7, <4>1
      <4> QED  BY <1>3, <4>2 DEF s
    <3> QED  BY <3>1, <3>2
  <2>2. after = <<>>
    BY <2>1, SubSeqEmpty
  <2>3. Trimmed(n) = <<>>
    BY <1>7 DEF Trimmed
  <2> QED  BY <2>2, <2>3, FlatEmpty DEF s
<1>8. CASE Kept(n) # {}
  <2> DEFINE k == Min(Kept(n))
             first == SubSeq(blocks[k], n - Depth(k - 1) + 1, Len(blocks[k]))
             rest == SubSeq(blocks, k + 1, Len(blocks))
  <2>1. /\ k \in Kept(n) /\ k \in 1 .. p /\ k - 1 \in 0 .. p
        /\ (k - 1 = 0 \/ (k - 1 \in 1 .. p /\ k - 1 \notin Kept(n)))
    BY <1>2, <1>6, <1>8, FirstToReach
  <2>2. Trimmed(n) = <<first>> \o rest
    BY <1>8 DEF Trimmed, From
  <2> HIDE DEF k
  <2>3. /\ blocks[k] \in Seq(Bytes) /\ Len(blocks[k]) \in Nat /\ d[k] = d[k - 1] + Len(blocks[k])
        /\ d[k - 1] \in Nat /\ d[k] \in Nat /\ k \in 0 .. p
    BY <1>2, <2>1
  <2>4. d[k - 1] <= n /\ n <= d[k]
    <3>1. d[k - 1] >= n \/ d[k] > n
      BY <1>6, <2>1
    <3>2. d[k - 1] <= n
      <4>1. CASE k - 1 = 0
        BY <1>2, <4>1
      <4>2. CASE k - 1 \in 1 .. p /\ k - 1 \notin Kept(n)
        BY <1>6, <2>3, <4>2
      <4> QED  BY <2>1, <4>1, <4>2
    <3> QED  BY <2>3, <3>1, <3>2
  <2>5. n - d[k - 1] \in Nat /\ n - d[k - 1] <= Len(blocks[k])
    BY <2>3, <2>4
  <2>6. first = SubSeq(s, n + 1, d[k]) /\ first \in Seq(Bytes)
    <3> DEFINE c == n - d[k - 1]
    <3>1. first = SubSeq(blocks[k], c + 1, Len(blocks[k]))
      BY <1>4, <2>1
    <3>2. SubSeq(blocks[k], c + 1, Len(blocks[k])) = SubSeq(s, d[k - 1] + c + 1, d[k - 1] + Len(blocks[k]))
      <4>1. k \in 1 .. Len(blocks) /\ Lies(s, blocks, d, Len(blocks))
        BY <1>3, <2>1 DEF p
      <4> DEFINE g == Len(blocks[k])
      <4>2. c \in Nat /\ g \in Nat /\ c <= g /\ g <= Len(blocks[k])
        BY <2>3, <2>5
      <4> HIDE DEF c, g
      <4>3. Piece(blocks[k], c, g, s, d[k - 1])
        BY <1>1, <4>1, <4>2, PieceOfBlock
      <4> QED  BY <4>3 DEF g, Piece
    <3>3. d[k - 1] + c + 1 = n + 1
      BY <2>3
    <3>4. first \in Seq(Bytes)
      <4>1. \A i \in c + 1 .. Len(blocks[k]) : blocks[k][i] \in Bytes
        BY <2>3, <2>5
      <4>2. c + 1 \in Int /\ Len(blocks[k]) \in Int
        BY <2>3, <2>5
      <4>3. SubSeq(blocks[k], c + 1, Len(blocks[k])) \in Seq(Bytes)
        BY <4>1, <4>2, SubSeqProperties
      <4> QED  BY <3>1, <4>3
    <3> QED  BY <2>3, <3>1, <3>2, <3>3, <3>4
  <2>7. FlattenSeq(rest) = SubSeq(s, d[k] + 1, d[p]) /\ rest \in Lists
    <3>1. k \in 0 .. Len(blocks) /\ Len(blocks) \in 0 .. Len(blocks) /\ k <= Len(blocks)
      BY <1>2, <2>1 DEF p
    <3>2. FlattenSeq(rest) = SubSeq(s, d[k] + 1, d[p])
      BY <1>1, <3>1, FlatSublist DEF s, p
    <3>3. \A i \in k + 1 .. Len(blocks) : blocks[i] \in Seq(Bytes)
      BY <1>2, <2>1 DEF p
    <3>4. k + 1 \in Int /\ Len(blocks) \in Int
      BY <1>2, <2>1 DEF p
    <3>5. rest \in Seq(Seq(Bytes))
      BY <3>3, <3>4, SubSeqProperties
    <3> QED  BY <3>2, <3>5 DEF Lists
  <2> HIDE DEF first, rest
  <2>8. FlattenSeq(<<first>>) = first /\ <<first>> \in Lists
    BY <2>6, FlatSingle
  <2>9. FlattenSeq(<<first>> \o rest) = first \o FlattenSeq(rest) /\ <<first>> \o rest \in Lists
    BY <2>7, <2>8, FlatConcat
  <2>10. d[k] <= d[p] /\ d[p] \in Nat
    <3>1. k \in 0 .. Len(blocks) /\ p \in 0 .. Len(blocks) /\ k <= p /\ p \in 0 .. p
      BY <1>2, <2>1, <2>3 DEF p
    <3>2. d[k] <= d[p]
      BY <1>1, <3>1, DepthsGrow
    <3> QED  BY <1>2, <3>1, <3>2
  <2>11. SubSeq(s, n + 1, d[k]) \o SubSeq(s, d[k] + 1, d[p]) = SubSeq(s, n + 1, d[p])
    <3> DEFINE a == d[k]  b == d[p]  m == n + 1
    <3>1. m \in 1 .. Len(s) + 1 /\ a \in m - 1 .. Len(s) /\ b \in a .. Len(s)
      BY <1>3, <2>3, <2>4, <2>10
    <3> HIDE DEF a, b, m
    <3>2. SubSeq(s, m, a) \o SubSeq(s, a + 1, b) = SubSeq(s, m, b)
      BY <1>3, <3>1, ConcatAdjacentSubSeq
    <3> QED  BY <3>2 DEF a, b, m
  <2> QED  BY <1>3, <2>2, <2>6, <2>7, <2>9, <2>11 DEF s
<1> QED  BY <1>7, <1>8

----------------------------------------------------------------------------
(* Looking at the bytes *)

\* A piece copied from one block, which has it, is that piece of the stream.
LEMMA CopyIsPiece ==
    ASSUME blocks \in Lists, NEW d, Depths(blocks, d), NEW k \in 1 .. Len(blocks),
           NEW from \in Nat, NEW n \in Nat, from + n <= Len(blocks[k])
    PROVE  /\ Copy(k, from, n) = SubSeq(FlattenSeq(blocks), d[k - 1] + from + 1, d[k - 1] + from + n)
           /\ Copy(k, from, n) # NULL
<1> DEFINE g == from + n  s == FlattenSeq(blocks)
<1>1. Copy(k, from, n) = SubSeq(blocks[k], from + 1, g)
  BY DEF Copy
<1>2. blocks[k] \in Seq(Bytes) /\ Len(blocks[k]) \in Nat /\ d[k - 1] \in Nat
  BY DepthFacts
<1>3. g \in Nat /\ from <= g /\ g <= Len(blocks[k])
  OBVIOUS
<1>4. Lies(s, blocks, d, Len(blocks))
  BY FlatLies
<1> HIDE DEF g, s
<1>5. Piece(blocks[k], from, g, s, d[k - 1])
  BY <1>3, <1>4, PieceOfBlock
<1>6. SubSeq(blocks[k], from + 1, g) \in Seq(Bytes)
  <2>1. \A i \in from + 1 .. g : blocks[k][i] \in Bytes
    BY <1>2, <1>3
  <2>2. from + 1 \in Int /\ g \in Int
    BY <1>3
  <2> QED  BY <2>1, <2>2, SubSeqProperties
<1>7. Copy(k, from, n) # NULL
  BY <1>1, <1>6, ArgumentsAssumption
<1>8. SubSeq(blocks[k], from + 1, g) = SubSeq(s, d[k - 1] + from + 1, d[k - 1] + g)
  BY <1>5 DEF Piece
<1>9. d[k - 1] + g = d[k - 1] + from + n
  BY <1>2 DEF g
<1> QED  BY <1>1, <1>7, <1>8, <1>9 DEF s

\* The blocks of Peek: the start has the first byte and the end has the last.
LEMMA PeekBlocks ==
    ASSUME blocks \in Lists, NEW d, Depths(blocks, d),
           NEW offset \in Nat, NEW last \in Nat, offset < last, last <= d[Len(blocks)]
    PROVE  \E b \in 1 .. Len(blocks), c \in 1 .. Len(blocks) :
               /\ StartOf(offset) = [block |-> b, depth |-> d[b - 1]] /\ d[b - 1] <= offset /\ offset < d[b]
               /\ EndOf(last) = [block |-> c, depth |-> d[c - 1]] /\ d[c - 1] < last /\ last <= d[c]
               /\ b <= c
<1> DEFINE p == Len(blocks)
           S == {k \in DOMAIN blocks : Depth(k) > offset}
           T == {k \in DOMAIN blocks : Depth(k) >= last}
<1>1. /\ p \in Nat /\ (\A k \in 0 .. p : d[k] \in Nat) /\ d[0] = 0
      /\ \A k \in 1 .. p : k - 1 \in 0 .. p /\ k \in 0 .. p
  BY DepthFacts
<1>2. \A k \in 0 .. p : Depth(k) = d[k]
  BY DepthIs
<1>3. DOMAIN blocks = 1 .. p
  BY DEF Lists
<1>4. S = {k \in 1 .. p : d[k] > offset} /\ T = {k \in 1 .. p : d[k] >= last}
  BY <1>1, <1>2, <1>3
<1>5. p \in T /\ p \in S
  <2>1. p # 0
    BY <1>1
  <2>2. p \in 1 .. p /\ d[p] \in Nat
    BY <1>1, <2>1
  <2> HIDE DEF S, T
  <2> QED  BY <1>4, <2>2
<1> HIDE DEF p
<1> DEFINE b == Min(S)  c == Min(T)
<1>6. StartOf(offset) = [block |-> b, depth |-> Depth(b - 1)] /\ EndOf(last) = [block |-> c, depth |-> Depth(c - 1)]
  BY <1>5 DEF StartOf, EndOf, Walk
<1> HIDE DEF S, T
<1>7. /\ b \in S /\ b \in 1 .. p /\ b - 1 \in 0 .. p
      /\ (b - 1 = 0 \/ (b - 1 \in 1 .. p /\ b - 1 \notin S)) /\ \A m \in S : b <= m
  <2>1. S \in SUBSET (1 .. p) /\ S # {}
    BY <1>4, <1>5
  <2> QED  BY <1>1, <2>1, FirstToReach
<1>8. /\ c \in T /\ c \in 1 .. p /\ c - 1 \in 0 .. p
      /\ (c - 1 = 0 \/ (c - 1 \in 1 .. p /\ c - 1 \notin T)) /\ \A m \in T : c <= m
  <2>1. T \in SUBSET (1 .. p) /\ T # {}
    BY <1>4, <1>5
  <2> QED  BY <1>1, <2>1, FirstToReach
<1> HIDE DEF b, c
<1>9. d[b - 1] <= offset /\ offset < d[b]
  <2>1. CASE b - 1 = 0
    BY <1>1, <1>4, <1>7, <2>1
  <2>2. CASE b - 1 \in 1 .. p /\ b - 1 \notin S
    <3>1. ~(d[b - 1] > offset) /\ d[b - 1] \in Nat
      BY <1>1, <1>4, <1>7, <2>2
    <3> QED  BY <1>4, <1>7, <3>1
  <2> QED  BY <1>7, <2>1, <2>2
<1>10. d[c - 1] < last /\ last <= d[c]
  <2>1. CASE c - 1 = 0
    BY <1>1, <1>4, <1>8, <2>1
  <2>2. CASE c - 1 \in 1 .. p /\ c - 1 \notin T
    <3>1. ~(d[c - 1] >= last) /\ d[c - 1] \in Nat
      BY <1>1, <1>4, <1>8, <2>2
    <3> QED  BY <1>4, <1>8, <3>1
  <2> QED  BY <1>8, <2>1, <2>2
<1>11. b <= c
  <2>1. d[c] > offset
    BY <1>1, <1>8, <1>10
  <2> QED  BY <1>4, <1>7, <1>8, <2>1
<1>12. Depth(b - 1) = d[b - 1] /\ Depth(c - 1) = d[c - 1]
  BY <1>2, <1>7, <1>8
<1> QED  BY <1>6, <1>7, <1>8, <1>9, <1>10, <1>11, <1>12 DEF p

\* What is copied between the two blocks is that piece of the stream.
LEMMA CopiedIsPiece ==
    ASSUME blocks \in Lists, NEW d, Depths(blocks, d),
           NEW offset \in Nat, NEW last \in Nat, last < UINT, offset < last,
           NEW b \in 1 .. Len(blocks), NEW c \in 1 .. Len(blocks), b <= c,
           d[b - 1] <= offset, offset < d[b], d[c - 1] < last, last <= d[c],
           Len(FlattenSeq(blocks)) < UINT
    PROVE  Copied(b, c, offset - d[b - 1], last - d[c - 1], last - offset)
               = SubSeq(FlattenSeq(blocks), offset + 1, last)
<1> DEFINE s == FlattenSeq(blocks)
           p == Len(blocks)
           n == last - offset
           b0 == d[b - 1]  b1 == d[b]  lb == Len(blocks[b])
           c0 == d[c - 1]  c1 == d[c]  lc == Len(blocks[c])
           from == offset - b0
           upto == last - c0
<1>1. /\ p \in Nat /\ s \in Seq(Bytes) /\ Len(s) = d[p] /\ p \in 0 .. p
      /\ \A k \in 1 .. p : k - 1 \in 0 .. p /\ k \in 0 .. p
  BY DepthFacts, FlatIsStream
<1>2. /\ b0 \in Nat /\ b1 \in Nat /\ c0 \in Nat /\ c1 \in Nat /\ lb \in Nat /\ lc \in Nat /\ Len(s) \in Nat
      /\ b1 = b0 + lb /\ c1 = c0 + lc
  BY <1>1, DepthFacts
<1>3. b1 <= Len(s) /\ c1 <= Len(s)
  <2>1. \A j \in 0 .. p : j <= p => d[j] <= d[p]
    BY <1>1, DepthsGrow
  <2> HIDE DEF p
  <2> QED  BY <1>1, <2>1 DEF p
<1>4. UINT \in Nat /\ Len(s) < UINT /\ b0 <= offset /\ offset < b1 /\ c0 < last /\ last <= c1
  BY ArgumentsAssumption
<1>5. b # c => b1 <= c0 /\ b \in 0 .. p /\ c - 1 \in 0 .. p /\ b <= c - 1 /\ ~(b > c)
  <2>1. SUFFICES ASSUME b # c PROVE b1 <= c0 /\ b \in 0 .. p /\ c - 1 \in 0 .. p /\ b <= c - 1 /\ ~(b > c)
    OBVIOUS
  <2>2. b \in 0 .. p /\ c - 1 \in 0 .. p /\ b <= c - 1 /\ ~(b > c)
    BY <1>1, <2>1
  <2>3. \A k \in 0 .. p : b <= k => d[b] <= d[k]
    BY <2>2, DepthsGrow
  <2> QED  BY <2>2, <2>3
<1> HIDE DEF s, b0, b1, c0, c1, lb, lc, p
<1>6. from \in Nat /\ upto \in Nat /\ n \in Nat
  BY <1>2, <1>4
<1>7. CASE b = c
  <2>1. from + n <= lb /\ b0 + from + 1 = offset + 1 /\ b0 + from + n = last
    <3>1. b1 = c1 /\ last <= b1
      BY <1>4, <1>7 DEF b1, c1
    <3> QED  BY <1>2, <1>4, <3>1
  <2>2. Copied(b, c, from, upto, n) = Copy(b, from, n)
    BY <1>7 DEF Copied
  <2> HIDE DEF from, n, upto
  <2>3. Copy(b, from, n) = SubSeq(s, b0 + from + 1, b0 + from + n)
    <3>1. from + n <= Len(blocks[b])
      BY <2>1 DEF lb
    <3> QED  BY <1>6, <3>1, CopyIsPiece DEF s, b0
  <2>4. Copied(b, c, from, upto, n) = SubSeq(s, offset + 1, last)
    BY <2>1, <2>2, <2>3
  <2> QED  BY <2>4 DEF from, n, upto, s, b0, c0
<1>8. CASE b # c
  <2> DEFINE g == lb - from
             head == Copy(b, from, Subtract(lb, from))
             tail == Copy(c, 0, upto)
             middle == FlattenSeq(SubSeq(blocks, b + 1, c - 1))
  <2>1. from <= lb /\ lb < UINT
    BY <1>2, <1>3, <1>4
  <2>2. /\ g \in Nat /\ from + g <= lb /\ b0 + from + 1 = offset + 1 /\ b0 + from + g = b1
        /\ upto <= lc /\ 0 + upto <= lc /\ c0 + 0 + 1 = c0 + 1 /\ c0 + 0 + upto = last
    BY <1>2, <1>4
  <2>3. Copied(b, c, from, upto, n) = IF NULL \in {head, tail} THEN NULL ELSE head \o middle \o tail
    BY <1>5, <1>8 DEF Copied, lb
  <2> HIDE DEF from, upto, g, n
  <2>4. Subtract(lb, from) = lb - from
    BY <1>2, <1>6, <2>1, SubtractExact
  <2>5. head = SubSeq(s, offset + 1, b1) /\ head # NULL
    <3>1. from + g <= Len(blocks[b])
      BY <2>2 DEF lb
    <3>2. Copy(b, from, g) = SubSeq(s, b0 + from + 1, b0 + from + g) /\ Copy(b, from, g) # NULL
      BY <1>6, <2>2, <3>1, CopyIsPiece DEF s, b0
    <3>3. head = Copy(b, from, g)
      BY <2>4 DEF g
    <3> HIDE DEF head
    <3> QED  BY <2>2, <3>2, <3>3
  <2>6. tail = SubSeq(s, c0 + 1, last) /\ tail # NULL
    <3>1. 0 + upto <= Len(blocks[c]) /\ 0 \in Nat
      BY <2>2 DEF lc
    <3>2. Copy(c, 0, upto) = SubSeq(s, c0 + 0 + 1, c0 + 0 + upto) /\ Copy(c, 0, upto) # NULL
      BY <1>6, <3>1, CopyIsPiece DEF s, c0
    <3> QED  BY <2>2, <3>2
  <2>7. middle = SubSeq(s, b1 + 1, c0)
    <3> DEFINE e == c - 1
    <3>1. b \in 0 .. p /\ e \in 0 .. p /\ b <= e
      BY <1>5, <1>8
    <3> HIDE DEF e
    <3>2. FlattenSeq(SubSeq(blocks, b + 1, e)) = SubSeq(s, d[b] + 1, d[e])
      BY <3>1, FlatSublist DEF s, p
    <3> QED  BY <3>2 DEF e, b1, c0
  <2> HIDE DEF head, tail, middle
  <2>8. head \o middle = SubSeq(s, offset + 1, c0)
    <3> DEFINE m == offset + 1
    <3>1. m \in 1 .. Len(s) + 1 /\ b1 \in m - 1 .. Len(s) /\ c0 \in b1 .. Len(s)
      BY <1>2, <1>3, <1>4, <1>5, <1>8
    <3> HIDE DEF m
    <3>2. SubSeq(s, m, b1) \o SubSeq(s, b1 + 1, c0) = SubSeq(s, m, c0)
      BY <1>1, <3>1, ConcatAdjacentSubSeq
    <3> QED  BY <2>5, <2>7, <3>2 DEF m
  <2>9. (head \o middle) \o tail = SubSeq(s, offset + 1, last)
    <3> DEFINE m == offset + 1
    <3>1. m \in 1 .. Len(s) + 1 /\ c0 \in m - 1 .. Len(s) /\ last \in c0 .. Len(s)
      BY <1>2, <1>3, <1>4, <1>5, <1>8
    <3> HIDE DEF m
    <3>2. SubSeq(s, m, c0) \o SubSeq(s, c0 + 1, last) = SubSeq(s, m, last)
      BY <1>1, <3>1, ConcatAdjacentSubSeq
    <3> QED  BY <2>6, <2>8, <3>2 DEF m
  <2>10. Copied(b, c, from, upto, n) = (head \o middle) \o tail
    BY <2>3, <2>5, <2>6
  <2>11. Copied(b, c, from, upto, n) = SubSeq(s, offset + 1, last)
    BY <2>9, <2>10
  <2> QED  BY <2>11 DEF s, from, upto, n, b0, c0
<1> QED  BY <1>7, <1>8

\* What holds of every state: m_Size is the length of the stream and below UINT.
Held == /\ blocks \in Lists
        /\ SizeIsTotal
        /\ size <= MaxHeld

LEMMA HeldFacts ==
    ASSUME Held
    PROVE  /\ blocks \in Lists /\ FlattenSeq(blocks) \in Seq(Bytes) /\ size = Len(FlattenSeq(blocks))
           /\ size \in Nat /\ size < UINT /\ size <= MaxHeld /\ MaxHeld \in Nat /\ UINT \in Nat /\ MaxHeld < UINT
<1>1. blocks \in Lists /\ size = Len(FlattenSeq(blocks)) /\ size <= MaxHeld
  BY DEF Held, SizeIsTotal
<1>2. FlattenSeq(blocks) \in Seq(Bytes)
  <2>1. PICK d : Depths(blocks, d)
    BY <1>1, DepthsExist
  <2> QED  BY <1>1, <2>1, FlatIsStream
<1>3. size \in Nat
  BY <1>1, <1>2
<1>4. MaxHeld \in Nat /\ UINT \in Nat /\ MaxHeld < UINT
  BY ArgumentsAssumption
<1>5. size < UINT
  BY <1>1, <1>3, <1>4
<1> QED  BY <1>1, <1>2, <1>3, <1>4, <1>5

\* Peek returns the bytes of the stream asked for.
LEMMA PeekedIsTaken ==
    ASSUME Held, NEW n \in Nat, NEW offset \in Nat, n + offset < UINT
    PROVE  Peeked(n, offset) = Stream!Taken(n, offset)
<1> DEFINE last == offset + n
           s == FlattenSeq(blocks)
<1>1. /\ blocks \in Lists /\ s \in Seq(Bytes) /\ size = Len(s) /\ size \in Nat /\ size < UINT
  BY HeldFacts
<1>2. Add(offset, n) = last /\ last \in Nat /\ last < UINT
  BY AddExact
<1>3. CASE last > size \/ n = 0
  <2>1. Peeked(n, offset) = Refused
    BY <1>2, <1>3 DEF Peeked
  <2>2. ~(n > 0 /\ offset + n <= Len(s))
    BY <1>1, <1>2, <1>3
  <2>3. Stream!Taken(n, offset) = Stream!Refused
    BY <2>2 DEF Stream!Taken
  <2> QED  BY <2>1, <2>3 DEF Refused, Stream!Refused
<1>4. CASE ~(last > size \/ n = 0)
  <2>1. PICK d : Depths(blocks, d)
    BY <1>1, DepthsExist
  <2>2. offset < last /\ last <= d[Len(blocks)] /\ n > 0 /\ offset + n <= Len(s) /\ last - offset = n
    <3>1. Len(s) = d[Len(blocks)]
      BY <1>1, <2>1, FlatIsStream
    <3> QED  BY <1>1, <1>2, <1>4, <3>1
  <2>3. Stream!Taken(n, offset) = [ok |-> TRUE, data |-> SubSeq(s, offset + 1, last)]
    BY <2>2 DEF Stream!Taken
  <2>4. blocks # <<>>
    BY <2>2, FlatEmpty
  <2> HIDE DEF last, s
  <2>5. PICK b \in 1 .. Len(blocks), c \in 1 .. Len(blocks) :
            /\ StartOf(offset) = [block |-> b, depth |-> d[b - 1]] /\ d[b - 1] <= offset /\ offset < d[b]
            /\ EndOf(last) = [block |-> c, depth |-> d[c - 1]] /\ d[c - 1] < last /\ last <= d[c]
            /\ b <= c
    BY <1>1, <1>2, <2>1, <2>2, PeekBlocks
  <2>6. Subtract(offset, d[b - 1]) = offset - d[b - 1] /\ Subtract(last, d[c - 1]) = last - d[c - 1]
    <3> DEFINE b0 == d[b - 1]  c0 == d[c - 1]
    <3>1. b0 \in Nat /\ c0 \in Nat /\ b0 <= offset /\ c0 <= last /\ offset < UINT
      <4>1. d[b - 1] \in Nat /\ d[c - 1] \in Nat
        BY <1>1, <2>1, DepthFacts
      <4>2. UINT \in Nat
        BY HeldFacts
      <4> QED  BY <1>2, <2>2, <2>5, <4>1, <4>2
    <3> HIDE DEF b0, c0
    <3>2. Subtract(offset, b0) = offset - b0 /\ Subtract(last, c0) = last - c0
      BY <1>2, <3>1, SubtractExact
    <3> QED  BY <3>2 DEF b0, c0
  <2>7. Peeked(n, offset) = [ok |-> TRUE, data |-> Copied(b, c, offset - d[b - 1], last - d[c - 1], n)]
    <3>1. Peeked(n, offset) =
              [ok |-> TRUE, data |-> Copied(StartOf(offset).block, EndOf(last).block,
                                            Subtract(offset, StartOf(offset).depth),
                                            Subtract(last, EndOf(last).depth), n)]
      BY <1>2, <1>4, <2>4 DEF Peeked
    <3>2. StartOf(offset).block = b /\ StartOf(offset).depth = d[b - 1]
      BY <2>5
    <3>3. EndOf(last).block = c /\ EndOf(last).depth = d[c - 1]
      BY <2>5
    <3> QED  BY <2>6, <3>1, <3>2, <3>3
  <2>8. Copied(b, c, offset - d[b - 1], last - d[c - 1], last - offset) = SubSeq(s, offset + 1, last)
    <3>1. Len(FlattenSeq(blocks)) < UINT
      BY HeldFacts
    <3> QED  BY <1>1, <1>2, <2>1, <2>2, <2>5, <3>1, CopiedIsPiece DEF s
  <2> QED  BY <2>2, <2>3, <2>7, <2>8
<1> QED  BY <1>3, <1>4

\* Taking n bytes off leaves the rest of the stream, and the total of it.
LEMMA TakenOff ==
    ASSUME Held, NEW n \in Nat, n <= size, TakeOff(n)
    PROVE  Held' /\ FlattenSeq(blocks') = Stream!After(n)
<1> DEFINE s == FlattenSeq(blocks)
<1>1. /\ blocks \in Lists /\ s \in Seq(Bytes) /\ size = Len(s) /\ size \in Nat /\ size < UINT
      /\ size <= MaxHeld /\ MaxHeld \in Nat
  BY HeldFacts
<1>2. blocks' = Trimmed(n) /\ size' = Subtract(size, n)
  BY DEF TakeOff
<1>3. Trimmed(n) \in Lists /\ FlattenSeq(Trimmed(n)) = SubSeq(s, n + 1, Len(s))
  BY <1>1, TrimmedIsAfter
<1>4. size' = size - n
  BY <1>1, <1>2, SubtractExact
<1> HIDE DEF s
<1>5. Len(SubSeq(s, n + 1, Len(s))) = Len(s) - n
  <2>1. \A i \in n + 1 .. Len(s) : s[i] \in Bytes
    BY <1>1
  <2>2. Len(SubSeq(s, n + 1, Len(s))) = IF n + 1 <= Len(s) THEN Len(s) - (n + 1) + 1 ELSE 0
    <3>1. n + 1 \in Int /\ Len(s) \in Int
      BY <1>1
    <3> QED  BY <2>1, <3>1, SubSeqProperties
  <2> QED  BY <1>1, <2>2
<1>6. FlattenSeq(blocks') = SubSeq(s, n + 1, Len(s))
  BY <1>2, <1>3
<1>7. size' = Len(FlattenSeq(blocks')) /\ size' <= MaxHeld /\ blocks' \in Lists
  BY <1>1, <1>2, <1>3, <1>4, <1>5, <1>6
<1>8. Held'
  BY <1>7 DEF Held, SizeIsTotal
<1>9. Stream!After(n) = SubSeq(s, n + 1, Len(s))
  BY DEF Stream!After, s
<1> QED  BY <1>6, <1>8, <1>9

\* An appended fragment goes to the end of the stream.
LEMMA Appended ==
    ASSUME Held, NEW f \in Fragments, AppendBlock(f)
    PROVE  Held' /\ FlattenSeq(blocks') = FlattenSeq(blocks) \o f /\ size' = Len(FlattenSeq(blocks'))
<1> DEFINE s == FlattenSeq(blocks)
<1>1. /\ blocks \in Lists /\ s \in Seq(Bytes) /\ size = Len(s) /\ size \in Nat
      /\ MaxHeld \in Nat /\ UINT \in Nat /\ MaxHeld < UINT
  BY HeldFacts
<1>2. f \in Seq(Bytes) /\ Len(f) \in Nat
  BY ArgumentsAssumption
<1>3. blocks' = blocks \o <<f>> /\ size' = Add(size, Len(f)) /\ size + Len(f) <= MaxHeld
  BY DEF AppendBlock
<1>4. FlattenSeq(blocks \o <<f>>) = s \o f /\ blocks \o <<f>> \in Lists
  <2>1. FlattenSeq(<<f>>) = f /\ <<f>> \in Lists
    BY <1>2, FlatSingle
  <2> DEFINE g == <<f>>
  <2> HIDE DEF g
  <2>2. FlattenSeq(blocks \o g) = s \o FlattenSeq(g) /\ blocks \o g \in Lists
    BY <1>1, <2>1, FlatConcat DEF g
  <2> QED  BY <2>1, <2>2 DEF g
<1>5. size' = size + Len(f)
  <2>1. size + Len(f) < UINT
    BY <1>1, <1>2, <1>3
  <2> QED  BY <1>1, <1>2, <1>3, <2>1, AddExact
<1> HIDE DEF s
<1>6. Len(s \o f) = Len(s) + Len(f)
  BY <1>1, <1>2
<1>7. FlattenSeq(blocks') = s \o f /\ blocks' \in Lists /\ size' = Len(FlattenSeq(blocks')) /\ size' <= MaxHeld
  BY <1>1, <1>3, <1>4, <1>5, <1>6
<1> QED  BY <1>7 DEF Held, SizeIsTotal, s

\* Pop takes what it returned, if it returned anything.
LEMMA Popped ==
    ASSUME Held, NEW n \in Sizes, Pop(n)
    PROVE  Held' /\ Stream!Pop(n)
<1>1. n \in Nat /\ n + 0 < UINT /\ 0 \in Nat
  BY ArgumentsAssumption
<1>2. reply' = Stream!Taken(n, 0)
  BY <1>1, PeekedIsTaken DEF Pop
<1>3. CASE reply'.ok
  <2>1. TakeOff(n)
    BY <1>3 DEF Pop
  <2>2. n <= size
    <3>1. ~Stream!Refused.ok
      BY DEF Stream!Refused
    <3>2. 0 + n <= Len(FlattenSeq(blocks))
      BY <1>2, <1>3, <3>1 DEF Stream!Taken
    <3> QED  BY <1>1, <3>2, HeldFacts
  <2>3. Held' /\ FlattenSeq(blocks') = Stream!After(n)
    BY <1>1, <2>1, <2>2, TakenOff
  <2> QED  BY <1>2, <1>3, <2>3 DEF Stream!Pop
<1>4. CASE ~reply'.ok
  <2>1. UNCHANGED <<blocks, size>>
    BY <1>4 DEF Pop
  <2>2. Held' /\ FlattenSeq(blocks') = FlattenSeq(blocks)
    BY <2>1 DEF Held, SizeIsTotal
  <2> QED  BY <1>2, <1>4, <2>2 DEF Stream!Pop
<1> QED  BY <1>3, <1>4

----------------------------------------------------------------------------
(* The theorems *)

\* Nothing is held at first.
LEMMA HeldInit == Init => Held /\ Stream!Init
<1>1. SUFFICES ASSUME Init PROVE Held /\ Stream!Init
  OBVIOUS
<1>2. blocks = <<>> /\ size = 0 /\ reply = Refused
  BY <1>1 DEF Init
<1>3. FlattenSeq(blocks) = <<>> /\ blocks \in Lists
  BY <1>2, FlatEmpty
<1>4. Held
  BY <1>2, <1>3, ArgumentsAssumption DEF Held, SizeIsTotal
<1>5. Stream!Init
  BY <1>2, <1>3 DEF Stream!Init, Stream!Refused, Refused
<1> QED  BY <1>4, <1>5

\* Trim and Clear.
LEMMA Trimming ==
    ASSUME Held, NEW n \in Sizes, Trim(n)
    PROVE  Held' /\ Stream!Trim(n)
<1>1. n \in Nat /\ n <= size /\ TakeOff(n) /\ UNCHANGED reply
  BY ArgumentsAssumption DEF Trim
<1>2. Held' /\ FlattenSeq(blocks') = Stream!After(n)
  BY <1>1, TakenOff
<1>3. n <= Len(FlattenSeq(blocks))
  BY <1>1, HeldFacts
<1> QED  BY <1>1, <1>2, <1>3 DEF Stream!Trim

LEMMA Clearing ==
    ASSUME Held, Clear
    PROVE  Held' /\ Stream!Clear
<1>1. blocks' = <<>> /\ size' = 0 /\ UNCHANGED reply
  BY DEF Clear
<1>2. FlattenSeq(blocks') = <<>> /\ blocks' \in Lists
  BY <1>1, FlatEmpty
<1>3. Held'
  BY <1>1, <1>2, ArgumentsAssumption DEF Held, SizeIsTotal
<1> QED  BY <1>1, <1>2, <1>3 DEF Stream!Clear

\* The invariant is inductive: Peek changes neither the blocks nor the total.
LEMMA HeldStep == Held /\ [Next]_vars => Held'
<1>1. SUFFICES ASSUME Held, [Next]_vars PROVE Held'
  OBVIOUS
<1>2. ASSUME NEW f \in Fragments, AppendBlock(f) PROVE Held'
  BY <1>1, <1>2, Appended
<1>3. ASSUME NEW n \in Sizes, NEW offset \in Offsets, Peek(n, offset) PROVE Held'
  BY <1>1, <1>3 DEF Peek, Held, SizeIsTotal
<1>4. ASSUME NEW n \in Sizes, Pop(n) PROVE Held'
  BY <1>1, <1>4, Popped
<1>5. ASSUME NEW n \in Sizes, Trim(n) PROVE Held'
  BY <1>1, <1>5, Trimming
<1>6. CASE Clear
  BY <1>1, <1>6, Clearing
<1>7. CASE UNCHANGED vars
  BY <1>1, <1>7 DEF vars, Held, SizeIsTotal
<1> QED  BY <1>1, <1>2, <1>3, <1>4, <1>5, <1>6, <1>7 DEF Next

\* After any history, m_Size is below UINT and is the number of bytes in the blocks.
THEOREM AssemblerHeld == Spec => []Held
<1>1. Init => Held
  BY HeldInit
<1> QED  BY <1>1, HeldStep, PTL DEF Spec

\* m_Size, which CMessaging decides by, is the number of bytes in the blocks, whatever
\* the fragments and the sizes popped and trimmed (assembler.cpp:25-57, 139-174).
THEOREM AssemblerSizeIsTotal == Spec => []SizeIsTotal
<1>1. Held => SizeIsTotal
  BY DEF Held
<1> QED  BY <1>1, AssemblerHeld, PTL

\* No caller asks Peek for an end past UINT: its check adds without looking for the
\* wrap (assembler.cpp:74).  CMessaging peeks at offset 0 only.
PeeksFit == \A n \in Sizes, offset \in Offsets : n + offset < UINT

\* Each operation is the operation of the stream.
LEMMA StreamStep ==
    ASSUME PeeksFit, Held, [Next]_vars
    PROVE  [Stream!Next]_(Stream!vars)
<1>2. ASSUME NEW f \in Fragments, AppendBlock(f) PROVE Stream!Next
  <2>1. FlattenSeq(blocks') = FlattenSeq(blocks) \o f /\ size' = Len(FlattenSeq(blocks'))
    BY <1>2, Appended
  <2>2. reply' = [ok |-> TRUE, data |-> <<size'>>]
    BY <1>2 DEF AppendBlock
  <2>3. Stream!AppendBytes(f)
    BY <2>1, <2>2 DEF Stream!AppendBytes
  <2> QED  BY <2>3 DEF Stream!Next
<1>3. ASSUME NEW n \in Sizes, NEW offset \in Offsets, Peek(n, offset) PROVE Stream!Next
  <2>1. n \in Nat /\ offset \in Nat /\ n + offset < UINT
    BY ArgumentsAssumption DEF PeeksFit
  <2>2. reply' = Stream!Taken(n, offset) /\ blocks' = blocks
    BY <1>3, <2>1, PeekedIsTaken DEF Peek
  <2>3. Stream!Peek(n, offset)
    BY <2>2 DEF Stream!Peek
  <2> QED  BY <2>3 DEF Stream!Next
<1>4. ASSUME NEW n \in Sizes, Pop(n) PROVE Stream!Next
  BY <1>4, Popped DEF Stream!Next
<1>5. ASSUME NEW n \in Sizes, Trim(n) PROVE Stream!Next
  BY <1>5, Trimming DEF Stream!Next
<1>6. CASE Clear
  BY <1>6, Clearing DEF Stream!Next
<1>7. CASE UNCHANGED vars
  BY <1>7 DEF vars, Stream!vars
<1> QED  BY <1>2, <1>3, <1>4, <1>5, <1>6, <1>7 DEF Next

\* The block list implements one stream of bytes: whatever the fragments, every
\* operation returns what it would of the concatenation (assembler.cpp:25-174).
THEOREM AssemblerIsStream == PeeksFit => (Spec => ImplementsStream)
<1>1. SUFFICES ASSUME PeeksFit PROVE Spec => ImplementsStream
  OBVIOUS
<1>2. Init => Stream!Init
  BY HeldInit
<1>3. Held /\ [Next]_vars => [Stream!Next]_(Stream!vars)
  BY <1>1, StreamStep
<1> QED  BY <1>2, <1>3, AssemblerHeld, PTL DEF Spec, ImplementsStream, Stream!Spec
=============================================================================
