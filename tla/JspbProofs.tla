----------------------------- MODULE JspbProofs -----------------------------
(***************************************************************************)
(* What is proved about the wire format of the generated classes: whatever *)
(* texts a message has, its reader gets them as the writer could write     *)
(* them.                                                                   *)
(***************************************************************************)
EXTENDS MessageBodyJs, WellFoundedInduction, SequenceTheorems, TLAPS

-----------------------------------------------------------------------------
(* Induction over sets of numbers.                                         *)

\* A set of natural numbers that is not empty has a least element.
LEMMA LeastNumber ==
  ASSUME NEW S, S \subseteq Nat, S # {}
  PROVE  \E n \in S : \A k \in S : n <= k
<1>1. PICK n \in S : \A k \in S : ~(<<k, n>> \in OpToRel(<, Nat))
  BY NatLessThanWellFounded, WFMin
<1>2. \A k \in S : ~(k < n)
  BY <1>1 DEF OpToRel
<1>3. QED
  BY <1>2

LEMMA UpTo ==
  ASSUME NEW N \in Nat, NEW S, 0 \in S, \A n \in 0 .. N - 1 : n \in S => n + 1 \in S
  PROVE  0 .. N \subseteq S
<1> DEFINE T == {n \in 0 .. N : n \notin S}
<1>1. SUFFICES ASSUME T # {} PROVE FALSE
  OBVIOUS
<1>2. T \subseteq Nat
  OBVIOUS
<1>3. PICK n \in T : \A k \in T : n <= k
  BY <1>1, <1>2, LeastNumber
<1>4. n \in 0 .. N /\ n # 0 /\ n \notin S
  BY <1>3
<1>5. n - 1 \in 0 .. N - 1 /\ n - 1 \in 0 .. N /\ ~(n <= n - 1) /\ (n - 1) + 1 = n
  BY <1>4
<1>6. n - 1 \in S
  BY <1>3, <1>5
<1>7. QED
  BY <1>4, <1>5, <1>6

LEMMA DownFrom ==
  ASSUME NEW N \in Nat, NEW S, N \in S, \A n \in 0 .. N - 1 : n + 1 \in S => n \in S
  PROVE  0 .. N \subseteq S
<1> DEFINE T == {d \in 0 .. N : N - d \in S}
<1>1. 0 \in T
  OBVIOUS
<1>2. ASSUME NEW d \in 0 .. N - 1, d \in T PROVE d + 1 \in T
  <2>1. N - d \in S /\ d + 1 \in 0 .. N /\ N - (d + 1) \in 0 .. N - 1 /\ (N - (d + 1)) + 1 = N - d
    BY <1>2
  <2>2. N - (d + 1) \in S
    BY <2>1
  <2>3. QED
    BY <2>1, <2>2
<1> HIDE DEF T
<1>3. 0 .. N \subseteq T
  BY <1>1, <1>2, UpTo
<1>4. ASSUME NEW n \in 0 .. N PROVE n \in S
  <2>1. N - n \in 0 .. N /\ N - (N - n) = n
    OBVIOUS
  <2>2. QED
    BY <1>3, <2>1 DEF T
<1>5. QED
  BY <1>4

LEMMA LastNumber ==
  ASSUME NEW N \in Nat, NEW S, S \subseteq 0 .. N, S # {}
  PROVE  Max(S) \in S
<1> DEFINE T == {n \in 0 .. N : \A k \in S : k <= n}
<1>1. N \in T /\ T \subseteq Nat
  OBVIOUS
<1>2. PICK n \in T : \A k \in T : n <= k
  BY <1>1, LeastNumber
<1>3. n \in S
  <2>1. SUFFICES ASSUME n \notin S PROVE FALSE
    OBVIOUS
  <2>2. PICK k \in S : TRUE
    OBVIOUS
  <2>3. n \in 0 .. N /\ k <= n /\ k # n /\ k \in 0 .. N
    BY <2>1
  <2>4. \A j \in S : j \in 0 .. N /\ j <= n /\ j # n
    BY <2>1
  <2>5. n - 1 \in 0 .. N /\ \A j \in S : j <= n - 1
    BY <2>3, <2>4
  <2>6. n <= n - 1
    BY <1>2, <2>5
  <2>7. QED
    BY <2>3, <2>6
<1>4. \A k \in S : n >= k
  OBVIOUS
<1>5. QED
  BY <1>3, <1>4 DEF Max

-----------------------------------------------------------------------------
(* Sequences that are put together.                                        *)

\* f[n] is what the first n of seqs make together.
Chain(f, seqs, S) ==
  /\ f \in [0 .. Len(seqs) -> Seq(S)]
  /\ f[0] = <<>>
  /\ \A i \in 1 .. Len(seqs) : f[i] = f[i - 1] \o seqs[i]

LEMMA ChainExists ==
  ASSUME NEW S, NEW seqs \in Seq(Seq(S))
  PROVE  \E f : Chain(f, seqs, S)
<1> DEFINE N == Len(seqs)
           Part(n, f) == /\ f \in [0 .. n -> Seq(S)]
                         /\ f[0] = <<>>
                         /\ \A i \in 1 .. n : f[i] = f[i - 1] \o seqs[i]
           D == {n \in 0 .. N : \E f : Part(n, f)}
<1>1. N \in Nat
  OBVIOUS
<1>2. 0 \in D
  <2>1. <<>> \in Seq(S)
    OBVIOUS
  <2>2. Part(0, [i \in 0 .. 0 |-> <<>>])
    BY <2>1
  <2>3. \E f : Part(0, f)
    BY <2>2
  <2> HIDE DEF Part
  <2>4. QED
    BY <1>1, <2>3
<1>3. ASSUME NEW n \in 0 .. N - 1, n \in D PROVE n + 1 \in D
  <2>1. PICK f : Part(n, f)
    BY <1>3
  <2>2. n + 1 \in 1 .. N /\ n \in 0 .. n /\ n + 1 \notin 0 .. n /\ n \in Nat
    BY <1>1
  <2>3. f[n] \in Seq(S) /\ seqs[n + 1] \in Seq(S)
    BY <2>1, <2>2
  <2>4. f[n] \o seqs[n + 1] \in Seq(S)
    BY <2>3, ConcatProperties
  <2> DEFINE g == [i \in 0 .. n + 1 |-> IF i <= n THEN f[i] ELSE f[n] \o seqs[n + 1]]
  <2>5. g \in [0 .. n + 1 -> Seq(S)]
    <3>1. \A i \in 0 .. n + 1 : (IF i <= n THEN f[i] ELSE f[n] \o seqs[n + 1]) \in Seq(S)
      BY <2>1, <2>2, <2>4
    <3>2. QED
      BY <3>1
  <2>6. g[0] = <<>>
    BY <2>1, <2>2
  <2>7. ASSUME NEW i \in 1 .. n + 1 PROVE g[i] = g[i - 1] \o seqs[i]
    <3>1. CASE i <= n
      <4>1. i \in 1 .. n /\ i - 1 \in 0 .. n + 1 /\ i - 1 <= n /\ i \in 0 .. n + 1
        BY <2>2, <3>1
      <4>2. g[i] = f[i] /\ g[i - 1] = f[i - 1]
        BY <3>1, <4>1
      <4>3. QED
        BY <2>1, <4>1, <4>2
    <3>2. CASE ~(i <= n)
      <4>1. i = n + 1 /\ i - 1 = n /\ n \in 0 .. n + 1 /\ n <= n /\ n + 1 \in 0 .. n + 1 /\ ~(n + 1 <= n)
        BY <2>2, <3>2
      <4>2. g[i] = f[n] \o seqs[n + 1] /\ g[i - 1] = f[n]
        BY <4>1
      <4>3. QED
        BY <4>1, <4>2
    <3>3. QED
      BY <3>1, <3>2
  <2> HIDE DEF g
  <2>8. Part(n + 1, g)
    BY <2>5, <2>6, <2>7
  <2>9. \E h : Part(n + 1, h)
    BY <2>8
  <2>10. n + 1 \in 0 .. N
    BY <1>1
  <2> HIDE DEF Part
  <2>11. QED
    BY <2>9, <2>10
<1> HIDE DEF D
<1>4. 0 .. N \subseteq D
  BY <1>1, <1>2, <1>3, UpTo
<1>5. N \in D
  BY <1>1, <1>4
<1>6. QED
  BY <1>5 DEF D, Chain

LEMMA ChainEnd ==
  ASSUME NEW S, NEW seqs \in Seq(Seq(S)), NEW f, Chain(f, seqs, S)
  PROVE  FlattenSeq(seqs) = f[Len(seqs)]
<1> DEFINE N == Len(seqs)
           Flattens(g) == g = [i \in 1 .. N |-> IF i = 1 THEN seqs[i] ELSE g[i - 1] \o seqs[i]]
<1>1. N \in Nat
  OBVIOUS
<1>2. CASE N = 0
  <2>1. FlattenSeq(seqs) = seqs /\ seqs = <<>>
    BY <1>2 DEF FlattenSeq
  <2>2. QED
    BY <1>2, <2>1 DEF Chain
<1>3. CASE N # 0
  <2>1. FlattenSeq(seqs) = (CHOOSE g : Flattens(g))[N]
    BY <1>3 DEF FlattenSeq
  <2> DEFINE h == [i \in 1 .. N |-> f[i]]
  <2>2. Flattens(h)
    <3>1. ASSUME NEW i \in 1 .. N PROVE f[i] = IF i = 1 THEN seqs[i] ELSE h[i - 1] \o seqs[i]
      <4>1. seqs[i] \in Seq(S) /\ f[i] = f[i - 1] \o seqs[i]
        BY DEF Chain
      <4>2. CASE i = 1
        <5>1. f[i - 1] = <<>>
          BY <4>2 DEF Chain
        <5>2. <<>> \o seqs[i] = seqs[i]
          BY <4>1, ConcatEmptySeq
        <5>3. QED
          BY <4>1, <4>2, <5>1, <5>2
      <4>3. CASE i # 1
        <5>1. i - 1 \in 1 .. N
          BY <1>1, <4>3
        <5>2. QED
          BY <4>1, <4>3, <5>1
      <4>4. QED
        BY <4>2, <4>3
    <3>2. QED
      BY <3>1
  <2> HIDE DEF h
  <2>3. PICK g : Flattens(g) /\ g = CHOOSE x : Flattens(x)
    BY <2>2
  <2>4. \A i \in 1 .. N : g[i] = IF i = 1 THEN seqs[i] ELSE g[i - 1] \o seqs[i]
    BY <2>3
  <2>5. \A i \in 1 .. N : h[i] = IF i = 1 THEN seqs[i] ELSE h[i - 1] \o seqs[i]
    BY <2>2
  <2> DEFINE E == {n \in 0 .. N : n = 0 \/ g[n] = h[n]}
  <2>6. 0 \in E
    BY <1>1
  <2>7. ASSUME NEW n \in 0 .. N - 1, n \in E PROVE n + 1 \in E
    <3>1. n + 1 \in 1 .. N /\ (n + 1) - 1 = n /\ (n + 1 = 1 <=> n = 0) /\ n + 1 \in 0 .. N
      BY <1>1
    <3>2. g[n + 1] = h[n + 1]
      BY <2>4, <2>5, <2>7, <3>1
    <3>3. QED
      BY <3>1, <3>2
  <2> HIDE DEF E
  <2>8. 0 .. N \subseteq E
    BY <1>1, <2>6, <2>7, UpTo
  <2>9. g[N] = h[N]
    BY <1>1, <1>3, <2>8 DEF E
  <2>10. h[N] = f[N]
    BY <1>1, <1>3 DEF h
  <2>11. QED
    BY <2>1, <2>3, <2>9, <2>10
<1>4. QED
  BY <1>2, <1>3

LEMMA ChainPrefix ==
  ASSUME NEW S, NEW seqs \in Seq(Seq(S)), NEW f, Chain(f, seqs, S), NEW n \in 0 .. Len(seqs)
  PROVE  /\ Len(f[n]) <= Len(f[Len(seqs)])
         /\ \A i \in 1 .. Len(f[n]) : f[Len(seqs)][i] = f[n][i]
<1> DEFINE N == Len(seqs)
           D == {m \in 0 .. N : /\ Len(f[m]) <= Len(f[N])
                                /\ \A i \in 1 .. Len(f[m]) : f[N][i] = f[m][i]}
<1>1. N \in Nat /\ N \in 0 .. N
  OBVIOUS
<1>2. \A m \in 0 .. N : f[m] \in Seq(S)
  BY DEF Chain
<1>3. N \in D
  <2>1. Len(f[N]) <= Len(f[N])
    BY <1>1, <1>2
  <2>2. QED
    BY <1>1, <2>1
<1>4. ASSUME NEW m \in 0 .. N - 1, m + 1 \in D PROVE m \in D
  <2>1. m \in 0 .. N /\ m + 1 \in 1 .. N /\ (m + 1) - 1 = m
    BY <1>1
  <2>2. f[m + 1] = f[m] \o seqs[m + 1] /\ seqs[m + 1] \in Seq(S)
    BY <2>1, ElementOfSeq DEF Chain
  <2>3. PICK x \in Seq(S), y \in Seq(S), z \in Seq(S) : x = f[m] /\ y = seqs[m + 1] /\ z = f[N]
    BY <1>1, <1>2, <2>1, <2>2
  <2>4. Len(x \o y) <= Len(z) /\ \A i \in 1 .. Len(x \o y) : z[i] = (x \o y)[i]
    BY <1>4, <2>2, <2>3
  <2>5. Len(x \o y) = Len(x) + Len(y) /\ \A i \in 1 .. Len(x) : (x \o y)[i] = x[i]
    BY ConcatProperties
  <2>6. PICK k \in Nat, l \in Nat, r \in Nat : k = Len(x) /\ l = Len(y) /\ r = Len(z)
    OBVIOUS
  <2>7. k <= r /\ \A i \in 1 .. k : i \in 1 .. k + l
    BY <2>4, <2>5, <2>6
  <2>8. \A i \in 1 .. Len(x) : z[i] = x[i]
    BY <2>4, <2>5, <2>6, <2>7
  <2>9. QED
    BY <2>1, <2>3, <2>6, <2>7, <2>8
<1> HIDE DEF D
<1>5. 0 .. N \subseteq D
  BY <1>1, <1>3, <1>4, DownFrom
<1>6. QED
  BY <1>5 DEF D

LEMMA FlattenEmpty == FlattenSeq(<<>>) = <<>>
  BY DEF FlattenSeq

LEMMA FlattenType ==
  ASSUME NEW S, NEW seqs \in Seq(Seq(S))
  PROVE  FlattenSeq(seqs) \in Seq(S)
<1>1. PICK f : Chain(f, seqs, S)
  BY ChainExists
<1>2. FlattenSeq(seqs) = f[Len(seqs)] /\ Len(seqs) \in 0 .. Len(seqs)
  BY <1>1, ChainEnd
<1>3. QED
  BY <1>1, <1>2 DEF Chain

LEMMA FlattenAppend ==
  ASSUME NEW S, NEW seqs \in Seq(Seq(S)), NEW s \in Seq(S)
  PROVE  FlattenSeq(Append(seqs, s)) = FlattenSeq(seqs) \o s
<1> DEFINE N == Len(seqs)
           all == Append(seqs, s)
<1>1. PICK f : Chain(f, seqs, S)
  BY ChainExists
<1>3. N \in Nat /\ Len(all) = N + 1 /\ all[N + 1] = s /\ \A i \in 1 .. N : all[i] = seqs[i]
  OBVIOUS
<1>4. all \in Seq(Seq(S))
  OBVIOUS
<1> HIDE DEF all
<1>2. PICK g : Chain(g, all, S)
  BY <1>4, ChainExists
<1> DEFINE E == {n \in 0 .. N : g[n] = f[n]}
<1>5. 0 \in E
  BY <1>1, <1>2, <1>3 DEF Chain
<1>6. ASSUME NEW n \in 0 .. N - 1, n \in E PROVE n + 1 \in E
  <2>1. n + 1 \in 1 .. N /\ (n + 1) - 1 = n /\ n + 1 \in 1 .. Len(all) /\ n + 1 \in 0 .. N
    BY <1>3
  <2>2. f[n + 1] = f[n] \o seqs[n + 1] /\ g[n + 1] = g[n] \o seqs[n + 1]
    BY <1>1, <1>2, <1>3, <2>1 DEF Chain
  <2>3. QED
    BY <1>6, <2>1, <2>2
<1> HIDE DEF E
<1>7. 0 .. N \subseteq E
  BY <1>3, <1>5, <1>6, UpTo
<1>8. g[N] = f[N]
  BY <1>3, <1>7 DEF E
<1>9. N + 1 \in 1 .. Len(all) /\ (N + 1) - 1 = N
  BY <1>3
<1>10. g[N + 1] = f[N] \o s
  BY <1>2, <1>3, <1>8, <1>9 DEF Chain
<1>11. FlattenSeq(seqs) = f[N] /\ FlattenSeq(all) = g[N + 1]
  BY <1>1, <1>2, <1>3, <1>4, ChainEnd
<1>12. QED
  BY <1>10, <1>11 DEF all

\* Concatenation may be grouped either way.
Regroup(x, y, z) == (x \o y) \o z = x \o (y \o z)

LEMMA Regrouped ==
  ASSUME NEW S, NEW x \in Seq(S), NEW y \in Seq(S), NEW z \in Seq(S)
  PROVE  Regroup(x, y, z)
  BY SMT DEF Regroup

LEMMA FlattenConcat ==
  ASSUME NEW S, NEW s \in Seq(Seq(S)), NEW t \in Seq(Seq(S))
  PROVE  FlattenSeq(s \o t) = FlattenSeq(s) \o FlattenSeq(t)
<1> DEFINE M == Len(s)
           N == Len(t)
           all == s \o t
<1>1. all \in Seq(Seq(S)) /\ Len(all) = M + N
  BY ConcatProperties
<1>2. /\ \A i \in 1 .. M : all[i] = s[i]
      /\ \A i \in 1 .. N : all[M + i] = t[i]
  BY ConcatProperties
<1>3. M \in Nat /\ N \in Nat
  OBVIOUS
<1> HIDE DEF all
<1>4. PICK f : Chain(f, all, S)
  BY <1>1, ChainExists
<1>5. PICK g : Chain(g, t, S)
  BY ChainExists
<1> DEFINE h == [i \in 0 .. M |-> f[i]]
<1>6. Chain(h, s, S)
  <2>1. \A i \in 0 .. M : i \in 0 .. Len(all)
    BY <1>1, <1>3
  <2>2. h \in [0 .. M -> Seq(S)] /\ h[0] = <<>>
    BY <1>3, <1>4, <2>1 DEF Chain
  <2>3. ASSUME NEW i \in 1 .. M PROVE h[i] = h[i - 1] \o s[i]
    <3>1. i \in 1 .. Len(all) /\ i \in 0 .. M /\ i - 1 \in 0 .. M
      BY <1>1, <1>3
    <3>2. f[i] = f[i - 1] \o all[i]
      BY <1>4, <3>1 DEF Chain
    <3>3. QED
      BY <1>2, <3>1, <3>2
  <2> HIDE DEF h
  <2>4. QED
    BY <2>2, <2>3 DEF Chain
<1>7. FlattenSeq(s) = f[M]
  <2>1. FlattenSeq(s) = h[M]
    BY <1>6, ChainEnd
  <2>2. QED
    BY <1>3, <2>1
<1> HIDE DEF h
<1> DEFINE E == {n \in 0 .. N : f[M + n] = f[M] \o g[n]}
<1>8. f[M] \in Seq(S)
  BY <1>1, <1>3, <1>4 DEF Chain
<1>9. 0 \in E
  <2>1. f[M] \o <<>> = f[M]
    BY <1>8, ConcatEmptySeq
  <2>2. g[0] = <<>> /\ M + 0 = M /\ 0 \in 0 .. N
    BY <1>3, <1>5 DEF Chain
  <2>3. QED
    BY <2>1, <2>2
<1>10. ASSUME NEW n \in 0 .. N - 1, n \in E PROVE n + 1 \in E
  <2>1. /\ n + 1 \in 1 .. N /\ (n + 1) - 1 = n /\ n + 1 \in 0 .. N /\ n \in 0 .. N
        /\ M + (n + 1) \in 1 .. Len(all) /\ M + (n + 1) - 1 = M + n
    BY <1>1, <1>3
  <2>2. g[n + 1] = g[n] \o t[n + 1] /\ g[n] \in Seq(S)
    BY <1>5, <2>1 DEF Chain
  <2> t[n + 1] \in Seq(S)
    BY <2>1
  <2>3. f[M + (n + 1)] = f[M + n] \o all[M + (n + 1)]
    <3>1. PICK m \in 1 .. Len(all) : m = M + (n + 1)
      BY <2>1
    <3>2. m - 1 = M + n
      BY <2>1, <3>1
    <3>3. f[m] = f[m - 1] \o all[m]
      BY <1>4 DEF Chain
    <3>4. QED
      BY <3>1, <3>2, <3>3
  <2>4. all[M + (n + 1)] = t[n + 1] /\ f[M + n] = f[M] \o g[n]
    BY <1>2, <1>10, <2>1
  <2>5. (f[M] \o g[n]) \o t[n + 1] = f[M] \o (g[n] \o t[n + 1])
    <3>1. PICK x \in Seq(S), y \in Seq(S), z \in Seq(S) : x = f[M] /\ y = g[n] /\ z = t[n + 1]
      BY <1>8, <2>2
    <3>2. Regroup(x, y, z)
      BY Regrouped
    <3>3. QED
      BY <3>1, <3>2 DEF Regroup
  <2>6. QED
    BY <2>1, <2>2, <2>3, <2>4, <2>5
<1> HIDE DEF E
<1>11. 0 .. N \subseteq E
  BY <1>3, <1>9, <1>10, UpTo
<1>12. f[M + N] = f[M] \o g[N]
  <2>1. N \in E
    BY <1>3, <1>11
  <2>2. QED
    BY <2>1 DEF E
<1>13. FlattenSeq(all) = f[M + N] /\ FlattenSeq(t) = g[N]
  BY <1>1, <1>4, <1>5, ChainEnd
<1>14. QED
  BY <1>7, <1>12, <1>13 DEF all

\* Groups of the same length G, of which the last one may have another.
Groups(seqs, S, G) ==
  /\ seqs \in Seq(Seq(S)) /\ Len(seqs) >= 1
  /\ \A j \in 1 .. Len(seqs) - 1 : Len(seqs[j]) = G

\* Where the k-th of the j-th group comes.
Place(G, j, k) == G * (j - 1) + k

LEMMA PlaceBehind ==
  ASSUME NEW G \in {3, 4}, NEW j \in Nat \ {0}, NEW k \in Nat
  PROVE  Place(G, j, 0) \in Nat /\ Place(G, j, k) = Place(G, j, 0) + k
<1>1. CASE G = 3
  BY <1>1 DEF Place
<1>2. CASE G = 4
  BY <1>2 DEF Place
<1>3. QED
  BY <1>1, <1>2

LEMMA PlaceNext ==
  ASSUME NEW G \in {3, 4}, NEW j \in Nat \ {0}
  PROVE  Place(G, 1, 0) = 0 /\ Place(G, j + 1, 0) = Place(G, j, 0) + G
<1>1. CASE G = 3
  BY <1>1 DEF Place
<1>2. CASE G = 4
  BY <1>2 DEF Place
<1>3. QED
  BY <1>1, <1>2

Flattened(seqs, S, G) ==
  /\ FlattenSeq(seqs) \in Seq(S)
  /\ Len(FlattenSeq(seqs)) = Place(G, Len(seqs), Len(seqs[Len(seqs)]))
  /\ \A j \in 1 .. Len(seqs) : \A k \in 1 .. Len(seqs[j]) : FlattenSeq(seqs)[Place(G, j, k)] = seqs[j][k]

LEMMA FlattenGroups ==
  ASSUME NEW S, NEW G \in {3, 4}, NEW seqs, Groups(seqs, S, G)
  PROVE  Flattened(seqs, S, G)
<1> DEFINE N == Len(seqs)
<1>1. /\ seqs \in Seq(Seq(S)) /\ N \in Nat /\ N >= 1 /\ N \in 0 .. N /\ N \in 1 .. N
      /\ \A j \in 1 .. N : seqs[j] \in Seq(S) /\ Len(seqs[j]) \in Nat
  <2>1. seqs \in Seq(Seq(S)) /\ N \in Nat /\ N >= 1
    BY DEF Groups
  <2>2. \A j \in 1 .. N : seqs[j] \in Seq(S)
    BY <2>1, ElementOfSeq
  <2>3. QED
    BY <2>1, <2>2
<1>2. PICK f : Chain(f, seqs, S)
  BY <1>1, ChainExists
<1>3. FlattenSeq(seqs) = f[N]
  BY <1>1, <1>2, ChainEnd
<1>4. /\ \A n \in 0 .. N : f[n] \in Seq(S)
      /\ f[0] = <<>> /\ \A i \in 1 .. N : f[i] = f[i - 1] \o seqs[i]
  BY <1>2 DEF Chain
<1> DEFINE D == {n \in 0 .. N : n < N => Len(f[n]) = Place(G, n + 1, 0)}
<1>5. ASSUME NEW n \in 0 .. N - 1, n \in D PROVE n + 1 \in D
  <2>1. n + 1 \in 1 .. N /\ (n + 1) - 1 = n /\ n \in 0 .. N /\ n + 1 \in 0 .. N
    BY <1>1
  <2>2. SUFFICES ASSUME n + 1 < N PROVE Len(f[n + 1]) = Place(G, (n + 1) + 1, 0)
    BY <2>1
  <2>3. Len(seqs[n + 1]) = G
    <3>1. n + 1 \in 1 .. N - 1
      BY <1>1, <2>2
    <3>2. QED
      BY <3>1 DEF Groups
  <2>4. f[n + 1] = f[n] \o seqs[n + 1] /\ f[n] \in Seq(S) /\ seqs[n + 1] \in Seq(S)
    BY <1>1, <1>4, <2>1
  <2>5. Len(f[n + 1]) = Len(f[n]) + G
    <3>1. PICK x \in Seq(S), y \in Seq(S) : x = f[n] /\ y = seqs[n + 1]
      BY <2>4
    <3>2. Len(x \o y) = Len(x) + Len(y)
      BY ConcatProperties
    <3>3. QED
      BY <2>3, <2>4, <3>1, <3>2
  <2>6. Len(f[n]) = Place(G, n + 1, 0)
    BY <1>5, <2>1, <2>2
  <2>7. Place(G, (n + 1) + 1, 0) = Place(G, n + 1, 0) + G
    <3>1. n + 1 \in Nat \ {0}
      OBVIOUS
    <3>2. QED
      BY <3>1, PlaceNext
  <2>8. QED
    BY <2>5, <2>6, <2>7
<1>6. 0 \in D
  <2>1. Len(f[0]) = 0
    BY <1>4
  <2>2. Place(G, 0 + 1, 0) = 0
    <3>1. 0 + 1 = 1 /\ 1 \in Nat \ {0}
      OBVIOUS
    <3>2. QED
      BY <3>1, PlaceNext, Zenon
  <2>3. QED
    BY <1>1, <2>1, <2>2
<1> HIDE DEF D
<1>7. 0 .. N \subseteq D
  BY <1>1, <1>5, <1>6, UpTo
<1>8. ASSUME NEW j \in 1 .. N
      PROVE  /\ f[j] = f[j - 1] \o seqs[j] /\ f[j - 1] \in Seq(S) /\ Len(f[j - 1]) = Place(G, j, 0)
  <2>1. j - 1 \in 0 .. N /\ j - 1 < N /\ (j - 1) + 1 = j
    BY <1>1
  <2>2. j - 1 \in D
    BY <1>7, <2>1
  <2>3. Len(f[j - 1]) = Place(G, j, 0)
    BY <2>1, <2>2 DEF D
  <2>4. QED
    BY <1>4, <2>1, <2>3
<1>9. Len(f[N]) = Place(G, N, Len(seqs[N]))
  <2>1. PICK x \in Seq(S), y \in Seq(S) : x = f[N - 1] /\ y = seqs[N]
    BY <1>1, <1>8
  <2>2. f[N] = x \o y /\ Len(x) = Place(G, N, 0)
    BY <1>1, <1>8, <2>1
  <2>3. Len(f[N]) = Len(x) + Len(y)
    BY <2>2, ConcatProperties
  <2>4. Place(G, N, Len(y)) = Place(G, N, 0) + Len(y)
    <3>1. N \in Nat \ {0} /\ Len(y) \in Nat
      BY <1>1
    <3>2. QED
      BY <3>1, PlaceBehind
  <2>5. QED
    BY <2>1, <2>2, <2>3, <2>4
<1>10. ASSUME NEW j \in 1 .. N, NEW k \in 1 .. Len(seqs[j])
       PROVE  f[N][Place(G, j, k)] = seqs[j][k]
  <2>1. PICK x \in Seq(S), y \in Seq(S) : x = f[j - 1] /\ y = seqs[j]
    BY <1>1, <1>8
  <2>2. f[j] = x \o y /\ Len(x) = Place(G, j, 0) /\ k \in 1 .. Len(y)
    BY <1>8, <2>1
  <2>3. PICK l \in Nat, m \in Nat : l = Len(x) /\ m = Len(y)
    OBVIOUS
  <2>4. Place(G, j, k) = l + k
    <3>1. j \in Nat \ {0} /\ k \in Nat
      BY <1>1
    <3>2. Place(G, j, k) = Place(G, j, 0) + k
      BY <3>1, PlaceBehind
    <3>3. QED
      BY <2>2, <2>3, <3>2
  <2>5. k \in 1 .. m
    BY <2>2, <2>3
  <2>6. Len(x \o y) = l + m /\ (x \o y)[l + k] = y[k]
    BY <2>3, <2>5, SMT
  <2>7. l + k \in 1 .. Len(x \o y)
    BY <2>5, <2>6
  <2>8. f[N][l + k] = f[j][l + k]
    <3>1. j \in 0 .. Len(seqs)
      OBVIOUS
    <3>2. \A i \in 1 .. Len(f[j]) : f[N][i] = f[j][i]
      <4>1. Len(f[j]) <= Len(f[N]) /\ \A i \in 1 .. Len(f[j]) : f[N][i] = f[j][i]
        BY <1>1, <1>2, <3>1, ChainPrefix
      <4>2. QED
        BY <4>1
    <3>3. QED
      BY <2>2, <2>7, <3>2
  <2>9. QED
    BY <2>1, <2>2, <2>4, <2>6, <2>8
<1>11. f[N] \in Seq(S)
  BY <1>1, <1>4
<1>12. QED
  BY <1>3, <1>9, <1>10, <1>11 DEF Flattened

-----------------------------------------------------------------------------
(* Characters.                                                             *)

Byte == 0 .. 255
Unit == 0 .. 65535

\* No character is cut off at the end of bytes.
Whole(bytes) ==
  \A c \in 1 .. Len(bytes) :
    /\ bytes[c] \in 192 .. 223 => c + 1 <= Len(bytes)
    /\ bytes[c] \in 224 .. 239 => c + 2 <= Len(bytes)
    /\ bytes[c] \in 240 .. 247 => c + 3 <= Len(bytes)

\* The units of a character, by its first byte.
LEMMA UnitsOfOne ==
  ASSUME NEW f \in Byte, NEW g, NEW h, NEW k, f < 128
  PROVE  Units(f, g, h, k) = <<f>>
  BY SMT DEF Units

LEMMA UnitsWithin ==
  ASSUME NEW f \in Byte, NEW g, NEW h, NEW k, f \in 128 .. 191 \/ f > 247
  PROVE  Units(f, g, h, k) = <<>>
  BY SMTT(60) DEF Units, Byte

LEMMA UnitsOfTwo ==
  ASSUME NEW f \in Byte, NEW g, NEW h, NEW k, f \in 192 .. 223
  PROVE  Units(f, g, h, k) = <<(f % 32) * 64 + (g % 64)>>
  BY SMTT(60) DEF Units, Byte

Joined(f, g, h) == (f % 16) * 4096 + (g % 64) * 64 + (h % 64)

LEMMA UnitsOfThree ==
  ASSUME NEW f \in Byte, NEW g, NEW h, NEW k, f \in 224 .. 239
  PROVE  Units(f, g, h, k) = <<Joined(f, g, h)>>
  BY SMTT(60) DEF Units, Byte, Joined

Behind(f, g, h, k) == (f % 8) * 262144 + (g % 64) * 4096 + (h % 64) * 64 + (k % 64) - 65536
Halves(p) == <<(p \div 1024) + 55296, (p % 1024) + 56320>>

LEMMA UnitsOfFour ==
  ASSUME NEW f \in Byte, NEW g, NEW h, NEW k, f \in 240 .. 247
  PROVE  Units(f, g, h, k) = Halves(Behind(f, g, h, k))
  BY SMTT(60) DEF Units, Byte, Behind, Halves

\* They depend on the bytes of the character only.
LEMMA UnitsSame ==
  ASSUME NEW f \in Byte, NEW g, NEW h, NEW k, NEW x, NEW y, NEW z,
         f \in 192 .. 223 => g = x,
         f \in 224 .. 239 => g = x /\ h = y,
         f \in 240 .. 247 => g = x /\ h = y /\ k = z
  PROVE  Units(f, g, h, k) = Units(f, x, y, z)
<1>1. CASE f < 128
  BY <1>1, UnitsOfOne
<1>5. CASE f \in 128 .. 191 \/ f > 247
  BY <1>5, UnitsWithin
<1>2. CASE f \in 192 .. 223
  BY <1>2, UnitsOfTwo
<1>3. CASE f \in 224 .. 239
  BY <1>3, UnitsOfThree
<1>4. CASE f \in 240 .. 247
  BY <1>4
<1>6. QED
  BY <1>1, <1>2, <1>3, <1>4, <1>5 DEF Byte

LEMMA UnitsAtBefore ==
  ASSUME NEW a \in Seq(Byte), NEW b \in Seq(Byte), Whole(a), NEW c \in 1 .. Len(a)
  PROVE  UnitsAt(a \o b, c) = UnitsAt(a, c)
<1>1. Len(a) \in Nat /\ \A i \in 1 .. Len(a) : (a \o b)[i] = a[i]
  BY ConcatProperties
<1>2. (a \o b)[c] = a[c] /\ a[c] \in Byte
  BY <1>1
<1>3. a[c] \in 192 .. 223 => c + 1 \in 1 .. Len(a)
  BY <1>1 DEF Whole
<1>4. a[c] \in 224 .. 239 => c + 1 \in 1 .. Len(a) /\ c + 2 \in 1 .. Len(a)
  BY <1>1 DEF Whole
<1>5. a[c] \in 240 .. 247 => c + 1 \in 1 .. Len(a) /\ c + 2 \in 1 .. Len(a) /\ c + 3 \in 1 .. Len(a)
  BY <1>1 DEF Whole
<1>6. Units(a[c], (a \o b)[c + 1], (a \o b)[c + 2], (a \o b)[c + 3])
        = Units(a[c], a[c + 1], a[c + 2], a[c + 3])
  <2>1. PICK f \in Byte : f = a[c]
    BY <1>2
  <2>2. f \in 192 .. 223 => (a \o b)[c + 1] = a[c + 1]
    BY <1>1, <1>3, <2>1
  <2>3. f \in 224 .. 239 => (a \o b)[c + 1] = a[c + 1] /\ (a \o b)[c + 2] = a[c + 2]
    BY <1>1, <1>4, <2>1
  <2>4. f \in 240 .. 247 => /\ (a \o b)[c + 1] = a[c + 1] /\ (a \o b)[c + 2] = a[c + 2]
                            /\ (a \o b)[c + 3] = a[c + 3]
    BY <1>1, <1>5, <2>1
  <2>5. Units(f, (a \o b)[c + 1], (a \o b)[c + 2], (a \o b)[c + 3]) = Units(f, a[c + 1], a[c + 2], a[c + 3])
    <3>1. PICK g, h, k : g = (a \o b)[c + 1] /\ h = (a \o b)[c + 2] /\ k = (a \o b)[c + 3]
      OBVIOUS
    <3>2. PICK x, y, z : x = a[c + 1] /\ y = a[c + 2] /\ z = a[c + 3]
      OBVIOUS
    <3>3. f \in 192 .. 223 => g = x
      BY <2>2, <3>1, <3>2
    <3>4. f \in 224 .. 239 => g = x /\ h = y
      BY <2>3, <3>1, <3>2
    <3>5. f \in 240 .. 247 => g = x /\ h = y /\ k = z
      BY <2>4, <3>1, <3>2
    <3>6. Units(f, g, h, k) = Units(f, x, y, z)
      BY <3>3, <3>4, <3>5, UnitsSame
    <3>7. QED
      BY <3>1, <3>2, <3>6
  <2>6. QED
    BY <2>1, <2>5
<1>7. QED
  BY <1>2, <1>6 DEF UnitsAt

LEMMA UnitsAtBehind ==
  ASSUME NEW a \in Seq(Byte), NEW b \in Seq(Byte), Whole(b), NEW c \in 1 .. Len(b)
  PROVE  UnitsAt(a \o b, Len(a) + c) = UnitsAt(b, c)
<1>1. Len(a) \in Nat /\ Len(b) \in Nat /\ \A i \in 1 .. Len(b) : (a \o b)[Len(a) + i] = b[i]
  BY ConcatProperties
<1>2. (a \o b)[Len(a) + c] = b[c] /\ b[c] \in Byte
  BY <1>1
<1>3. b[c] \in 192 .. 223 => c + 1 \in 1 .. Len(b)
  BY <1>1 DEF Whole
<1>4. b[c] \in 224 .. 239 => c + 1 \in 1 .. Len(b) /\ c + 2 \in 1 .. Len(b)
  BY <1>1 DEF Whole
<1>5. b[c] \in 240 .. 247 => c + 1 \in 1 .. Len(b) /\ c + 2 \in 1 .. Len(b) /\ c + 3 \in 1 .. Len(b)
  BY <1>1 DEF Whole
<1>6. /\ (Len(a) + c) + 1 = Len(a) + (c + 1)
      /\ (Len(a) + c) + 2 = Len(a) + (c + 2)
      /\ (Len(a) + c) + 3 = Len(a) + (c + 3)
  BY <1>1
<1>7. Units(b[c], (a \o b)[Len(a) + (c + 1)], (a \o b)[Len(a) + (c + 2)], (a \o b)[Len(a) + (c + 3)])
        = Units(b[c], b[c + 1], b[c + 2], b[c + 3])
  <2>1. PICK f \in Byte : f = b[c]
    BY <1>2
  <2>2. f \in 192 .. 223 => (a \o b)[Len(a) + (c + 1)] = b[c + 1]
    BY <1>1, <1>3, <2>1
  <2>3. f \in 224 .. 239 => /\ (a \o b)[Len(a) + (c + 1)] = b[c + 1]
                            /\ (a \o b)[Len(a) + (c + 2)] = b[c + 2]
    BY <1>1, <1>4, <2>1
  <2>4. f \in 240 .. 247 => /\ (a \o b)[Len(a) + (c + 1)] = b[c + 1]
                            /\ (a \o b)[Len(a) + (c + 2)] = b[c + 2]
                            /\ (a \o b)[Len(a) + (c + 3)] = b[c + 3]
    BY <1>1, <1>5, <2>1
  <2>5. Units(f, (a \o b)[Len(a) + (c + 1)], (a \o b)[Len(a) + (c + 2)], (a \o b)[Len(a) + (c + 3)])
          = Units(f, b[c + 1], b[c + 2], b[c + 3])
    <3>1. PICK g, h, k : g = (a \o b)[Len(a) + (c + 1)] /\ h = (a \o b)[Len(a) + (c + 2)] /\ k = (a \o b)[Len(a) + (c + 3)]
      OBVIOUS
    <3>2. PICK x, y, z : x = b[c + 1] /\ y = b[c + 2] /\ z = b[c + 3]
      OBVIOUS
    <3>3. f \in 192 .. 223 => g = x
      BY <2>2, <3>1, <3>2
    <3>4. f \in 224 .. 239 => g = x /\ h = y
      BY <2>3, <3>1, <3>2
    <3>5. f \in 240 .. 247 => g = x /\ h = y /\ k = z
      BY <2>4, <3>1, <3>2
    <3>6. Units(f, g, h, k) = Units(f, x, y, z)
      BY <3>3, <3>4, <3>5, UnitsSame
    <3>7. QED
      BY <3>1, <3>2, <3>6
  <2>6. QED
    BY <2>1, <2>5
<1>8. QED
  BY <1>2, <1>6, <1>7 DEF UnitsAt

LEMMA WholeConcat ==
  ASSUME NEW a \in Seq(Byte), NEW b \in Seq(Byte), Whole(a), Whole(b)
  PROVE  Whole(a \o b)
<1>1. /\ Len(a) \in Nat /\ Len(b) \in Nat /\ Len(a \o b) = Len(a) + Len(b)
      /\ \A i \in 1 .. Len(a) : (a \o b)[i] = a[i]
      /\ \A i \in 1 .. Len(b) : (a \o b)[Len(a) + i] = b[i]
  BY ConcatProperties
<1>2. SUFFICES ASSUME NEW c \in 1 .. Len(a) + Len(b)
               PROVE  /\ (a \o b)[c] \in 192 .. 223 => c + 1 <= Len(a) + Len(b)
                      /\ (a \o b)[c] \in 224 .. 239 => c + 2 <= Len(a) + Len(b)
                      /\ (a \o b)[c] \in 240 .. 247 => c + 3 <= Len(a) + Len(b)
  BY <1>1 DEF Whole
<1>3. CASE c <= Len(a)
  <2>1. c \in 1 .. Len(a) /\ (a \o b)[c] = a[c]
    BY <1>1, <1>3
  <2>2. QED
    BY <1>1, <2>1 DEF Whole
<1>4. CASE ~(c <= Len(a))
  <2>1. PICK d \in 1 .. Len(b) : c = Len(a) + d
    <3>1. c - Len(a) \in 1 .. Len(b) /\ c = Len(a) + (c - Len(a))
      BY <1>1, <1>4
    <3>2. QED
      BY <3>1
  <2>2. (a \o b)[c] = b[d]
    BY <1>1, <2>1
  <2>3. /\ b[d] \in 192 .. 223 => d + 1 <= Len(b)
        /\ b[d] \in 224 .. 239 => d + 2 <= Len(b)
        /\ b[d] \in 240 .. 247 => d + 3 <= Len(b)
    BY DEF Whole
  <2>4. PICK m \in Nat, n \in Nat : m = Len(a) /\ n = Len(b)
    BY <1>1
  <2>5. d \in 1 .. n /\ c = m + d
    BY <2>1, <2>4
  <2>6. d \in Nat
    BY <2>5
  <2>7. d + 1 <= n => c + 1 <= m + n
    BY <2>5, <2>6
  <2>8. d + 2 <= n => c + 2 <= m + n
    BY <2>5, <2>6
  <2>9. d + 3 <= n => c + 3 <= m + n
    BY <2>5, <2>6
  <2>10. Len(a) = m /\ Len(b) = n
    BY <2>4
  <2>11. b[d] \in 192 .. 223 => c + 1 <= Len(a) + Len(b)
    BY <2>3, <2>7, <2>10
  <2>12. b[d] \in 224 .. 239 => c + 2 <= Len(a) + Len(b)
    BY <2>3, <2>8, <2>10
  <2>13. b[d] \in 240 .. 247 => c + 3 <= Len(a) + Len(b)
    BY <2>3, <2>9, <2>10
  <2>14. QED
    BY <2>2, <2>11, <2>12, <2>13
<1>5. QED
  BY <1>3, <1>4

LEMMA UnitsAtType ==
  ASSUME NEW a \in Seq(Byte), Whole(a), NEW c \in 1 .. Len(a)
  PROVE  UnitsAt(a, c) \in Seq(Int)
<1>1. PICK f \in Byte : f = a[c]
  OBVIOUS
<1>2. UnitsAt(a, c) = Units(f, a[c + 1], a[c + 2], a[c + 3])
  BY <1>1 DEF UnitsAt
<1>3. Len(a) \in Nat /\ \A i \in 1 .. Len(a) : a[i] \in Byte
  OBVIOUS
<1>4. CASE f < 128 \/ f \in 128 .. 191 \/ f > 247
  <2>1. UnitsAt(a, c) = <<f>> \/ UnitsAt(a, c) = <<>>
    BY <1>2, <1>4, UnitsOfOne, UnitsWithin
  <2>2. f \in Int
    BY DEF Byte
  <2>3. <<f>> \in Seq(Int) /\ <<>> \in Seq(Int)
    BY <2>2
  <2>4. QED
    BY <2>1, <2>3
<1>5. CASE f \in 192 .. 223
  <2>1. c + 1 \in 1 .. Len(a)
    BY <1>1, <1>3, <1>5 DEF Whole
  <2>2. PICK g \in Byte : g = a[c + 1]
    BY <1>3, <2>1
  <2>3. UnitsAt(a, c) = <<(f % 32) * 64 + (g % 64)>>
    BY <1>2, <1>5, <2>2, UnitsOfTwo, SMT
  <2>4. QED
    BY <2>3, SMT DEF Byte
<1>6. CASE f \in 224 .. 239
  <2>1. c + 1 \in 1 .. Len(a) /\ c + 2 \in 1 .. Len(a)
    BY <1>1, <1>3, <1>6 DEF Whole
  <2>2. PICK g \in Byte : g = a[c + 1]
    BY <1>3, <2>1
  <2>3. PICK h \in Byte : h = a[c + 2]
    BY <1>3, <2>1
  <2>4. UnitsAt(a, c) = <<Joined(f, g, h)>>
    BY <1>2, <1>6, <2>2, <2>3, UnitsOfThree
  <2>5. PICK p \in Int : p = Joined(f, g, h)
    BY SMT DEF Byte, Joined
  <2>6. QED
    BY <2>4, <2>5
<1>7. CASE f \in 240 .. 247
  <2>1. c + 1 \in 1 .. Len(a) /\ c + 2 \in 1 .. Len(a) /\ c + 3 \in 1 .. Len(a)
    BY <1>1, <1>3, <1>7 DEF Whole
  <2>2. PICK g \in Byte : g = a[c + 1]
    BY <1>3, <2>1
  <2>3. PICK h \in Byte : h = a[c + 2]
    BY <1>3, <2>1
  <2>4. PICK k \in Byte : k = a[c + 3]
    BY <1>3, <2>1
  <2>5. UnitsAt(a, c) = Halves(Behind(f, g, h, k))
    BY <1>2, <1>7, <2>2, <2>3, <2>4, UnitsOfFour
  <2>6. PICK p \in Int : p = Behind(f, g, h, k)
    BY SMT DEF Byte, Behind
  <2>7. Halves(p) \in Seq(Int)
    BY SMT DEF Halves
  <2>8. QED
    BY <2>5, <2>6, <2>7
<1>8. QED
  BY <1>4, <1>5, <1>6, <1>7 DEF Byte

LEMMA DecodeType ==
  ASSUME NEW a \in Seq(Byte), Whole(a)
  PROVE  /\ [c \in 1 .. Len(a) |-> UnitsAt(a, c)] \in Seq(Seq(Int))
         /\ DecodeString(a) \in Seq(Int)
<1>1. [c \in 1 .. Len(a) |-> UnitsAt(a, c)] \in Seq(Seq(Int))
  <2>1. \A c \in 1 .. Len(a) : UnitsAt(a, c) \in Seq(Int)
    BY UnitsAtType
  <2>2. Len(a) \in Nat
    OBVIOUS
  <2>3. QED
    BY <2>1, <2>2
<1>2. QED
  BY <1>1, FlattenType DEF DecodeString

\* What is read of two parts is what is read of each of them.
LEMMA DecodeConcat ==
  ASSUME NEW a \in Seq(Byte), NEW b \in Seq(Byte), Whole(a), Whole(b)
  PROVE  DecodeString(a \o b) = DecodeString(a) \o DecodeString(b)
<1> DEFINE A == [c \in 1 .. Len(a) |-> UnitsAt(a, c)]
           B == [c \in 1 .. Len(b) |-> UnitsAt(b, c)]
           C == [c \in 1 .. Len(a \o b) |-> UnitsAt(a \o b, c)]
<1>1. A \in Seq(Seq(Int)) /\ B \in Seq(Seq(Int))
  BY DecodeType
<1>2. a \o b \in Seq(Byte) /\ Whole(a \o b)
  BY ConcatProperties, WholeConcat
<1>3. C \in Seq(Seq(Int))
  BY <1>2, DecodeType
<1>4. Len(a) \in Nat /\ Len(b) \in Nat /\ Len(a \o b) = Len(a) + Len(b)
  BY ConcatProperties
<1>5. Len(A) = Len(a) /\ Len(B) = Len(b) /\ Len(C) = Len(a) + Len(b)
  BY <1>4
<1>6. \A c \in 1 .. Len(a) : C[c] = A[c]
  BY <1>4, UnitsAtBefore
<1>7. \A c \in 1 .. Len(b) : C[Len(a) + c] = B[c]
  <2>1. ASSUME NEW c \in 1 .. Len(b) PROVE C[Len(a) + c] = B[c]
    <3>1. Len(a) + c \in 1 .. Len(a \o b)
      BY <1>4
    <3>2. QED
      BY <3>1, UnitsAtBehind
  <2>2. QED
    BY <2>1
<1> HIDE DEF A, B, C
<1>8. /\ A \o B \in Seq(Seq(Int)) /\ Len(A \o B) = Len(a) + Len(b)
      /\ \A c \in 1 .. Len(a) : (A \o B)[c] = A[c]
      /\ \A c \in 1 .. Len(b) : (A \o B)[Len(a) + c] = B[c]
  BY <1>1, <1>5, ConcatProperties
<1>9. C = A \o B
  <2>1. ASSUME NEW c \in 1 .. Len(a) + Len(b) PROVE C[c] = (A \o B)[c]
    <3>1. CASE c <= Len(a)
      <4>1. c \in 1 .. Len(a)
        BY <1>4, <3>1
      <4>2. QED
        BY <1>6, <1>8, <4>1
    <3>2. CASE ~(c <= Len(a))
      <4>1. PICK d \in 1 .. Len(b) : c = Len(a) + d
        <5>1. c - Len(a) \in 1 .. Len(b) /\ c = Len(a) + (c - Len(a))
          BY <1>4, <3>2
        <5>2. QED
          BY <5>1
      <4>2. QED
        BY <1>7, <1>8, <4>1
    <3>3. QED
      BY <3>1, <3>2
  <2>2. QED
    BY <1>3, <1>5, <1>8, <2>1, SeqEqual
<1>10. FlattenSeq(A \o B) = FlattenSeq(A) \o FlattenSeq(B)
  BY <1>1, FlattenConcat
<1>11. QED
  BY <1>9, <1>10 DEF A, B, C, DecodeString

LEMMA FlattenFirst ==
  ASSUME NEW S, NEW seqs \in Seq(Seq(S)), Len(seqs) >= 1, \A i \in 2 .. Len(seqs) : seqs[i] = <<>>
  PROVE  FlattenSeq(seqs) = seqs[1]
<1>1. PICK f : Chain(f, seqs, S)
  BY ChainExists
<1>2. Len(seqs) \in Nat /\ 1 \in 1 .. Len(seqs) /\ seqs[1] \in Seq(S)
  OBVIOUS
<1> DEFINE E == {n \in 0 .. Len(seqs) : n = 0 \/ f[n] = seqs[1]}
<1>3. 0 \in E
  BY <1>2
<1>4. ASSUME NEW n \in 0 .. Len(seqs) - 1, n \in E PROVE n + 1 \in E
  <2>1. n + 1 \in 1 .. Len(seqs) /\ (n + 1) - 1 = n /\ n + 1 \in 0 .. Len(seqs)
    BY <1>2
  <2>2. f[n + 1] = f[n] \o seqs[n + 1]
    BY <1>1, <2>1 DEF Chain
  <2>3. CASE n = 0
    <3>1. f[n] = <<>> /\ n + 1 = 1
      BY <1>1, <2>3 DEF Chain
    <3>2. <<>> \o seqs[1] = seqs[1]
      BY <1>2, ConcatEmptySeq
    <3>3. QED
      BY <2>1, <2>2, <3>1, <3>2
  <2>4. CASE n # 0
    <3>1. n + 1 \in 2 .. Len(seqs)
      BY <1>2, <2>4
    <3>2. seqs[n + 1] = <<>> /\ f[n] = seqs[1]
      BY <1>4, <2>4, <3>1
    <3>3. seqs[1] \o <<>> = seqs[1]
      BY <1>2, ConcatEmptySeq
    <3>4. QED
      BY <2>1, <2>2, <3>2, <3>3
  <2>5. QED
    BY <2>3, <2>4
<1> HIDE DEF E
<1>5. 0 .. Len(seqs) \subseteq E
  BY <1>2, <1>3, <1>4, UpTo
<1>6. Len(seqs) \in E
  BY <1>2, <1>5
<1>7. f[Len(seqs)] = seqs[1]
  BY <1>2, <1>6 DEF E
<1>8. QED
  BY <1>1, <1>7, ChainEnd

\* One character: its bytes behind the first are read with it.
LEMMA DecodeCharacter ==
  ASSUME NEW u \in Seq(Byte), Len(u) >= 1, Whole(u), \A i \in 2 .. Len(u) : u[i] \in 128 .. 191
  PROVE  DecodeString(u) = UnitsAt(u, 1)
<1> DEFINE A == [c \in 1 .. Len(u) |-> UnitsAt(u, c)]
<1>1. A \in Seq(Seq(Int)) /\ Len(A) = Len(u)
  <2>1. Len(u) \in Nat
    OBVIOUS
  <2>2. QED
    BY <2>1, DecodeType
<1>2. ASSUME NEW i \in 2 .. Len(u) PROVE A[i] = <<>>
  <2>1. u[i] \in 128 .. 191 /\ i \in 1 .. Len(u)
    OBVIOUS
  <2>2. PICK f \in Byte : f = u[i] /\ f \in 128 .. 191
    BY <2>1 DEF Byte
  <2>3. Units(f, u[i + 1], u[i + 2], u[i + 3]) = <<>>
    <3>1. PICK g, h, k : g = u[i + 1] /\ h = u[i + 2] /\ k = u[i + 3]
      OBVIOUS
    <3>2. Units(f, g, h, k) = <<>>
      BY <2>2, UnitsWithin
    <3>3. QED
      BY <3>1, <3>2
  <2>4. QED
    BY <2>1, <2>2, <2>3 DEF UnitsAt
<1>3. A[1] = UnitsAt(u, 1)
  BY <1>1
<1> HIDE DEF A
<1>4. FlattenSeq(A) = A[1]
  BY <1>1, <1>2, FlattenFirst
<1>5. QED
  BY <1>3, <1>4 DEF A, DecodeString

\* What is read of the c-th unit: a pair with its high half.
UnitRead(text, c) ==
  IF IsHigh(text[c]) /\ c < Len(text)
  THEN IF IsLow(text[c + 1]) THEN <<text[c], text[c + 1]>> ELSE <<>>
  ELSE IF c > 1 /\ IsLow(text[c]) /\ IsHigh(text[c - 1]) THEN <<>> ELSE <<text[c]>>

\* Bytes that are read as units, none of them cut off.
ReadAs(bytes, units) ==
  bytes \in Seq(Byte) /\ Whole(bytes) /\ DecodeString(bytes) = units

\* A character that has as many bytes as its first one says.
Character(u) ==
  /\ u \in Seq(Byte)
  /\ Len(u) >= 1
  /\ \A i \in 2 .. Len(u) : u[i] \in 128 .. 191
  /\ u[1] \in 192 .. 223 => Len(u) >= 2
  /\ u[1] \in 224 .. 239 => Len(u) >= 3
  /\ u[1] \in 240 .. 247 => Len(u) >= 4

LEMMA CharacterRead ==
  ASSUME NEW u, Character(u)
  PROVE  ReadAs(u, UnitsAt(u, 1))
<1>1. Len(u) \in Nat /\ u \in Seq(Byte)
  BY DEF Character
<1>2. Whole(u)
  <2>1. ASSUME NEW c \in 1 .. Len(u)
        PROVE  /\ u[c] \in 192 .. 223 => c + 1 <= Len(u)
               /\ u[c] \in 224 .. 239 => c + 2 <= Len(u)
               /\ u[c] \in 240 .. 247 => c + 3 <= Len(u)
    <3>1. CASE c = 1
      BY <1>1, <3>1, SMT DEF Character
    <3>2. CASE c # 1
      <4>1. c \in 2 .. Len(u)
        BY <1>1, <3>2
      <4>2. u[c] \in 128 .. 191
        BY <4>1 DEF Character
      <4>3. PICK f \in 128 .. 191 : f = u[c]
        BY <4>2
      <4>4. f \notin 192 .. 223 /\ f \notin 224 .. 239 /\ f \notin 240 .. 247
        OBVIOUS
      <4>5. QED
        BY <4>3, <4>4
    <3>3. QED
      BY <3>1, <3>2
  <2>2. QED
    BY <2>1 DEF Whole
<1>3. DecodeString(u) = UnitsAt(u, 1)
  BY <1>2, DecodeCharacter DEF Character
<1>4. QED
  BY <1>1, <1>2, <1>3 DEF ReadAs

\* A number is the sum of its groups of six bits.
SumOfThree(n) == (n \div 4096) * 4096 + ((n \div 64) % 64) * 64 + (n % 64) = n
SumOfFour(n) == (n \div 262144) * 262144 + ((n \div 4096) % 64) * 4096 + ((n \div 64) % 64) * 64 + (n % 64) = n

LEMMA SixBitGroups ==
  ASSUME NEW n \in Nat
  PROVE  SumOfThree(n) /\ SumOfFour(n)
<1>1. (n \div 4096) * 4096 + ((n \div 64) % 64) * 64 + (n % 64) = n
  BY SMT
<1>2. (n \div 262144) * 262144 + ((n \div 4096) % 64) * 4096 + ((n \div 64) % 64) * 64 + (n % 64) = n
  BY SMT
<1>3. QED
  BY <1>1, <1>2 DEF SumOfThree, SumOfFour

LEMMA SixBits ==
  ASSUME NEW n \in Nat
  PROVE  /\ (n % 64) + 128 \in 128 .. 191
         /\ ((n % 64) + 128) % 64 = n % 64
  BY SMT

LEMMA OneRead ==
  ASSUME NEW f \in 0 .. 127
  PROVE  ReadAs(<<f>>, <<f>>)
<1> DEFINE u == <<f>>
<1>1. f \in Byte /\ f < 128
  BY DEF Byte
<1>2. u \in Seq(Byte) /\ Len(u) = 1 /\ u[1] = f
  BY <1>1
<1>3. PICK g, h, k : g = u[1 + 1] /\ h = u[1 + 2] /\ k = u[1 + 3]
  OBVIOUS
<1> HIDE DEF u
<1>4. Character(u)
  BY <1>1, <1>2, SMT DEF Character
<1>5. UnitsAt(u, 1) = Units(f, g, h, k)
  BY <1>2, <1>3 DEF UnitsAt
<1>6. Units(f, g, h, k) = <<f>>
  BY <1>1, UnitsOfOne
<1>7. ReadAs(u, <<f>>)
  BY <1>4, <1>5, <1>6, CharacterRead
<1>8. QED
  BY <1>7 DEF u

LEMMA TwoRead ==
  ASSUME NEW f \in 192 .. 223, NEW g \in 128 .. 191
  PROVE  ReadAs(<<f, g>>, <<(f % 32) * 64 + (g % 64)>>)
<1> DEFINE u == <<f, g>>
<1>1. f \in Byte /\ g \in Byte
  BY DEF Byte
<1>2. u \in Seq(Byte) /\ Len(u) = 2 /\ u[1] = f /\ u[2] = g
  BY <1>1
<1>3. PICK h, k : h = u[1 + 2] /\ k = u[1 + 3]
  OBVIOUS
<1> HIDE DEF u
<1>4. Character(u)
  <2>1. \A i \in 2 .. Len(u) : u[i] \in 128 .. 191
    <3>1. ASSUME NEW i \in 2 .. Len(u) PROVE u[i] \in 128 .. 191
      <4>1. i = 2
        BY <1>2
      <4>2. QED
        BY <1>2, <4>1
    <3>2. QED
      BY <3>1
  <2>2. Len(u) >= 1 /\ Len(u) >= 2 /\ u[1] \notin 224 .. 239 /\ u[1] \notin 240 .. 247
    BY <1>2
  <2>3. QED
    BY <1>2, <2>1, <2>2 DEF Character
<1>5. UnitsAt(u, 1) = Units(f, g, h, k)
  BY <1>2, <1>3 DEF UnitsAt
<1>6. Units(f, g, h, k) = <<(f % 32) * 64 + (g % 64)>>
  BY <1>1, UnitsOfTwo, SMT
<1>7. ReadAs(u, <<(f % 32) * 64 + (g % 64)>>)
  BY <1>4, <1>5, <1>6, CharacterRead, SMT
<1>8. QED
  BY <1>7 DEF u

LEMMA ThreeRead ==
  ASSUME NEW f \in 224 .. 239, NEW g \in 128 .. 191, NEW h \in 128 .. 191
  PROVE  ReadAs(<<f, g, h>>, <<Joined(f, g, h)>>)
<1> DEFINE u == <<f, g, h>>
<1>1. f \in Byte /\ g \in Byte /\ h \in Byte
  BY DEF Byte
<1>2. u \in Seq(Byte) /\ Len(u) = 3 /\ u[1] = f /\ u[2] = g /\ u[3] = h
  BY <1>1
<1>3. PICK k : k = u[1 + 3]
  OBVIOUS
<1> HIDE DEF u
<1>4. Character(u)
  <2>1. \A i \in 2 .. Len(u) : u[i] \in 128 .. 191
    <3>1. ASSUME NEW i \in 2 .. Len(u) PROVE u[i] \in 128 .. 191
      <4>1. i = 2 \/ i = 3
        BY <1>2
      <4>2. QED
        BY <1>2, <4>1
    <3>2. QED
      BY <3>1
  <2>2. Len(u) >= 1 /\ Len(u) >= 3 /\ u[1] \notin 192 .. 223 /\ u[1] \notin 240 .. 247
    BY <1>2
  <2>3. QED
    BY <1>2, <2>1, <2>2 DEF Character
<1>5. UnitsAt(u, 1) = Units(f, g, h, k)
  BY <1>2, <1>3 DEF UnitsAt
<1>6. Units(f, g, h, k) = <<Joined(f, g, h)>>
  BY <1>1, UnitsOfThree
<1>7. ReadAs(u, <<Joined(f, g, h)>>)
  BY <1>4, <1>5, <1>6, CharacterRead
<1>8. QED
  BY <1>7 DEF u

LEMMA FourRead ==
  ASSUME NEW f \in 240 .. 247, NEW g \in 128 .. 191, NEW h \in 128 .. 191, NEW k \in 128 .. 191
  PROVE  ReadAs(<<f, g, h, k>>, Units(f, g, h, k))
<1> DEFINE u == <<f, g, h, k>>
<1>1. f \in Byte /\ g \in Byte /\ h \in Byte /\ k \in Byte
  BY DEF Byte
<1>2. u \in Seq(Byte) /\ Len(u) = 4 /\ u[1] = f /\ u[2] = g /\ u[3] = h /\ u[4] = k
  BY <1>1
<1> HIDE DEF u
<1>3. Character(u)
  <2>1. \A i \in 2 .. Len(u) : u[i] \in 128 .. 191
    <3>1. ASSUME NEW i \in 2 .. Len(u) PROVE u[i] \in 128 .. 191
      <4>1. i = 2 \/ i = 3 \/ i = 4
        BY <1>2
      <4>2. QED
        BY <1>2, <4>1
    <3>2. QED
      BY <3>1
  <2>2. Len(u) >= 1 /\ Len(u) >= 4 /\ u[1] \notin 192 .. 223 /\ u[1] \notin 224 .. 239
    BY <1>2
  <2>3. QED
    BY <1>2, <2>1, <2>2 DEF Character
<1>4. UnitsAt(u, 1) = Units(f, g, h, k)
  BY <1>2 DEF UnitsAt
<1>5. ReadAs(u, Units(f, g, h, k))
  BY <1>3, <1>4, CharacterRead
<1>6. QED
  BY <1>5 DEF u

Middle(d) == d \in 128 .. 2047

LEMMA TwoBytes ==
  ASSUME NEW d, Middle(d)
  PROVE  ReadAs(<<(d \div 64) + 192, Continuation(d, 1)>>, <<d>>)
<1>0. d \in 128 .. 2047
  BY DEF Middle
<1>1. PICK f \in Nat : f = (d \div 64) + 192
  BY <1>0, SMT
<1>2. f >= 192 /\ f <= 223
  BY <1>0, <1>1, SMT
<1>3. PICK g \in 128 .. 191 : g = (d % 64) + 128
  BY <1>0, SMT
<1>4. Continuation(d, 1) = g
  BY <1>0, <1>3, SMT DEF Continuation
<1>5. f \in 192 .. 223
  BY <1>2, SMT
<1>6. (f % 32) * 64 + (g % 64) = d
  BY <1>0, <1>1, <1>3, SMT
<1>7. ReadAs(<<f, g>>, <<(f % 32) * 64 + (g % 64)>>)
  BY <1>5, TwoRead
<1>8. QED
  BY <1>1, <1>4, <1>6, <1>7, SMT

Wide(d) == d \in Nat /\ d >= 2048 /\ d <= 65535

LEMMA ThreeBytes ==
  ASSUME NEW d, Wide(d)
  PROVE  ReadAs(<<(d \div 4096) + 224, Continuation(d, 64), Continuation(d, 1)>>, <<d>>)
<1> d \in Nat
  BY DEF Wide
<1>1. PICK f \in Nat : f = (d \div 4096) + 224
  BY SMT
<1>2. f >= 224 /\ f <= 239
  BY <1>1, SMT DEF Wide
<1>3. f % 16 = d \div 4096
  <2>1. PICK q \in Nat : q = d \div 4096
    BY SMT
  <2>2. q <= 15
    BY <2>1, SMT DEF Wide
  <2>3. (q + 224) % 16 = q
    BY <2>2, SMT
  <2>4. QED
    BY <1>1, <2>1, <2>3, SMT
<1>4. PICK m \in Nat : m = d \div 64
  BY SMT
<1>5. PICK g \in 128 .. 191 : g = (m % 64) + 128 /\ g % 64 = m % 64
  BY SixBits
<1>6. PICK h \in 128 .. 191 : h = (d % 64) + 128 /\ h % 64 = d % 64
  BY SixBits
<1>7. Continuation(d, 64) = g /\ Continuation(d, 1) = h
  BY <1>4, <1>5, <1>6, SMT DEF Continuation
<1>8. Joined(f, g, h) = d
  <2>1. SumOfThree(d)
    BY SixBitGroups
  <2>2. QED
    BY <1>3, <1>4, <1>5, <1>6, <2>1, SMT DEF Joined, SumOfThree
<1>9. ReadAs(<<f, g, h>>, <<Joined(f, g, h)>>)
  <2>1. f \in 224 .. 239
    BY <1>2, SMT
  <2>2. QED
    BY <2>1, ThreeRead
<1>10. QED
  BY <1>1, <1>7, <1>8, <1>9, SMT

LEMMA FourBytes ==
  ASSUME NEW high, NEW low, NEW p, IsHigh(high), IsLow(low), p = CodePoint(high, low)
  PROVE  ReadAs(<<(p \div 262144) + 240, Continuation(p, 4096), Continuation(p, 64), Continuation(p, 1)>>,
                <<high, low>>)
<1>1. p \in Nat /\ p <= 1114111
  BY SMTT(30) DEF CodePoint, IsHigh, IsLow
<1>2. PICK f \in Nat : f = (p \div 262144) + 240
  BY <1>1, SMT
<1>3. f >= 240 /\ f <= 247 /\ f % 8 = p \div 262144
  <2>1. PICK q \in Nat : q = p \div 262144
    BY <1>1, SMT
  <2>2. q <= 7
    BY <1>1, <2>1, SMT
  <2>3. (q + 240) % 8 = q
    BY <2>2, SMT
  <2>4. QED
    BY <1>2, <2>1, <2>2, <2>3, SMT
<1>4. PICK m \in Nat, n \in Nat : m = p \div 4096 /\ n = p \div 64
  BY <1>1, SMT
<1>5. PICK g \in 128 .. 191 : g = (m % 64) + 128 /\ g % 64 = m % 64
  BY <1>1, SixBits, SMT
<1>6. PICK h \in 128 .. 191 : h = (n % 64) + 128 /\ h % 64 = n % 64
  BY <1>1, SixBits, SMT
<1>7. PICK k \in 128 .. 191 : k = (p % 64) + 128 /\ k % 64 = p % 64
  BY <1>1, SixBits, SMT
<1>8. Continuation(p, 4096) = g /\ Continuation(p, 64) = h /\ Continuation(p, 1) = k
  <2>1. Continuation(p, 4096) = g
    BY <1>4, <1>5, SMT DEF Continuation
  <2>2. Continuation(p, 64) = h
    BY <1>4, <1>6, SMT DEF Continuation
  <2>3. Continuation(p, 1) = k
    BY <1>1, <1>7, SMT DEF Continuation
  <2>4. QED
    BY <2>1, <2>2, <2>3
<1>9. f \in 240 .. 247
  BY <1>3, SMT
<1>10. Behind(f, g, h, k) = p - 65536
  <2>1. SumOfFour(p)
    BY <1>1, SixBitGroups
  <2>2. QED
    BY <1>1, <1>3, <1>4, <1>5, <1>6, <1>7, <2>1, SMT DEF Behind, SumOfFour
<1>11. Halves(p - 65536) = <<high, low>>
  <2>1. PICK q \in Int : q = p - 65536
    BY <1>1, SMT
  <2>2. q = 1024 * (high - 55296) + (low - 56320)
    BY <2>1, SMT DEF CodePoint, IsHigh, IsLow
  <2>3. q \div 1024 = high - 55296 /\ q % 1024 = low - 56320
    BY <2>2, SMT DEF IsHigh, IsLow
  <2>4. (q \div 1024) + 55296 = high /\ (q % 1024) + 56320 = low
    BY <2>3, SMT DEF IsHigh, IsLow
  <2>5. QED
    BY <2>1, <2>4, SMT DEF Halves
<1>12. Units(f, g, h, k) = <<high, low>>
  <2>1. f \in Byte
    BY <1>3, SMT DEF Byte
  <2>2. Units(f, g, h, k) = Halves(Behind(f, g, h, k))
    BY <1>9, <2>1, UnitsOfFour
  <2>3. QED
    BY <1>10, <1>11, <2>2
<1>13. ReadAs(<<f, g, h, k>>, Units(f, g, h, k))
  BY <1>9, FourRead
<1>14. ReadAs(<<f, g, h, k>>, <<high, low>>)
  BY <1>12, <1>13
<1>15. QED
  BY <1>2, <1>8, <1>14, SMT

LEMMA NothingRead == ReadAs(<<>>, <<>>)
<1>1. <<>> \in Seq(Byte) /\ Len(<<>>) = 0
  OBVIOUS
<1>2. Whole(<<>>)
  BY <1>1 DEF Whole
<1>3. [c \in 1 .. Len(<<>>) |-> UnitsAt(<<>>, c)] = <<>>
  BY <1>1
<1>4. DecodeString(<<>>) = <<>>
  BY <1>3, FlattenEmpty DEF DecodeString
<1>5. QED
  BY <1>1, <1>2, <1>4 DEF ReadAs

LEMMA UnitRange ==
  ASSUME NEW d \in Unit
  PROVE  d \in Int /\ 0 <= d /\ d <= 65535
  BY SMTT(60) DEF Unit

\* What writeString() writes for a unit is read as that unit, or as its pair.
LEMMA UnitBytesRead ==
  ASSUME NEW text \in Seq(Unit), NEW c \in 1 .. Len(text)
  PROVE  ReadAs(UnitBytes(text, c), UnitRead(text, c)) /\ Len(UnitBytes(text, c)) <= 4
<1>1. PICK d \in Unit : d = text[c]
  OBVIOUS
<1>9. d \in Int /\ 0 <= d /\ d <= 65535
  BY UnitRange
<1> DEFINE paired == c > 1 /\ IsLow(d) /\ IsHigh(text[c - 1])
<1>2. /\ d < 128 => ~IsHigh(d) /\ ~IsLow(d)
      /\ d < 2048 => ~IsHigh(d) /\ ~IsLow(d)
      /\ IsHigh(d) => ~IsLow(d) /\ ~(d < 2048) /\ ~(d < 128)
  BY <1>9, SMT DEF IsHigh, IsLow
<1>3. CASE d < 128
  <2>1. UnitBytes(text, c) = <<d>>
    BY <1>1, <1>3 DEF UnitBytes
  <2>2. UnitRead(text, c) = <<d>>
    BY <1>1, <1>2, <1>3 DEF UnitRead
  <2>3. d \in 0 .. 127
    BY <1>3, <1>9
  <2>4. Len(<<d>>) <= 4
    OBVIOUS
  <2>5. QED
    BY <2>1, <2>2, <2>3, <2>4, OneRead
<1>4. CASE ~(d < 128) /\ d < 2048
  <2>1. UnitBytes(text, c) = <<(d \div 64) + 192, Continuation(d, 1)>>
    BY <1>1, <1>4, SMT DEF UnitBytes
  <2>2. UnitRead(text, c) = <<d>>
    BY <1>1, <1>2, <1>4 DEF UnitRead
  <2>3. Middle(d)
    BY <1>4, <1>9, SMT DEF Middle
  <2>4. Len(UnitBytes(text, c)) <= 4
    BY <2>1, SMT
  <2>5. ReadAs(<<(d \div 64) + 192, Continuation(d, 1)>>, <<d>>)
    BY <2>3, TwoBytes
  <2>6. QED
    BY <2>1, <2>2, <2>4, <2>5
<1>5. CASE ~(d < 2048) /\ IsHigh(d) /\ c < Len(text) /\ IsLow(text[c + 1])
  <2>1. PICK low : low = text[c + 1] /\ IsLow(low)
    BY <1>5
  <2>2. PICK p : p = CodePoint(d, low)
    OBVIOUS
  <2>3. UnitBytes(text, c)
          = <<(p \div 262144) + 240, Continuation(p, 4096), Continuation(p, 64), Continuation(p, 1)>>
    BY <1>1, <1>2, <1>5, <2>1, <2>2, SMT DEF UnitBytes
  <2>4. UnitRead(text, c) = <<d, low>>
    BY <1>1, <1>5, <2>1 DEF UnitRead
  <2>5. Len(UnitBytes(text, c)) <= 4
    BY <2>3, SMT
  <2>6. ReadAs(<<(p \div 262144) + 240, Continuation(p, 4096), Continuation(p, 64), Continuation(p, 1)>>,
               <<d, low>>)
    BY <1>5, <2>1, <2>2, FourBytes
  <2>7. QED
    BY <2>3, <2>4, <2>5, <2>6
<1>6. CASE \/ ~(d < 2048) /\ IsHigh(d) /\ c < Len(text) /\ ~IsLow(text[c + 1])
           \/ ~(d < 2048) /\ ~(IsHigh(d) /\ c < Len(text)) /\ paired
  <2>1. UnitBytes(text, c) = <<>>
    BY <1>1, <1>2, <1>6, SMT DEF UnitBytes
  <2>2. UnitRead(text, c) = <<>>
    BY <1>1, <1>2, <1>6 DEF UnitRead
  <2>3. Len(<<>>) <= 4
    OBVIOUS
  <2>4. QED
    BY <2>1, <2>2, <2>3, NothingRead
<1>7. CASE ~(d < 2048) /\ ~(IsHigh(d) /\ c < Len(text)) /\ ~paired
  <2>1. UnitBytes(text, c) = <<(d \div 4096) + 224, Continuation(d, 64), Continuation(d, 1)>>
    <3>1. ~(d < 128)
      BY <1>7, <1>9, SMT
    <3>2. QED
      BY <1>1, <1>7, <3>1, SMT DEF UnitBytes
  <2>2. UnitRead(text, c) = <<d>>
    BY <1>1, <1>2, <1>7 DEF UnitRead
  <2>3. Wide(d)
    BY <1>7, <1>9, SMT DEF Wide
  <2>4. Len(UnitBytes(text, c)) <= 4
    BY <2>1, SMT
  <2>5. ReadAs(<<(d \div 4096) + 224, Continuation(d, 64), Continuation(d, 1)>>, <<d>>)
    BY <2>3, ThreeBytes
  <2>6. QED
    BY <2>1, <2>2, <2>4, <2>5
<1>8. QED
  BY <1>3, <1>4, <1>5, <1>6, <1>7

LEMMA ReadAsConcat ==
  ASSUME NEW a, NEW b, NEW u, NEW v, ReadAs(a, u), ReadAs(b, v)
  PROVE  ReadAs(a \o b, u \o v)
<1>1. a \in Seq(Byte) /\ b \in Seq(Byte) /\ Whole(a) /\ Whole(b) /\ DecodeString(a) = u /\ DecodeString(b) = v
  BY DEF ReadAs
<1>2. a \o b \in Seq(Byte) /\ Whole(a \o b)
  BY <1>1, ConcatProperties, WholeConcat
<1>3. DecodeString(a \o b) = u \o v
  BY <1>1, DecodeConcat
<1>4. QED
  BY <1>2, <1>3 DEF ReadAs

-----------------------------------------------------------------------------
(* Texts.                                                                  *)

Lost(text, c) == IsHigh(text[c]) /\ c < Len(text) /\ ~IsLow(text[c + 1])

Kept(text, c) == IF Lost(text, c) THEN <<>> ELSE <<text[c]>>

\* The low half that has been written with unit n and is the next to be kept.
Ahead(text, n) ==
  IF n >= 1 /\ n < Len(text) /\ IsHigh(text[n]) /\ IsLow(text[n + 1]) THEN <<text[n + 1]>> ELSE <<>>

LEMMA HighOrLow ==
  ASSUME NEW d \in Unit
  PROVE  ~(IsHigh(d) /\ IsLow(d))
<1>1. d \in Int
  BY UnitRange
<1>2. IsHigh(d) => d <= 56319
  BY SMT DEF IsHigh
<1>3. IsLow(d) => 56320 <= d
  BY SMT DEF IsLow
<1>4. QED
  BY <1>1, <1>2, <1>3, SMT

LEMMA KeptStep ==
  ASSUME NEW text \in Seq(Unit), NEW n \in 0 .. Len(text) - 1
  PROVE  Ahead(text, n) \o UnitRead(text, n + 1) = Kept(text, n + 1) \o Ahead(text, n + 1)
<1>1. PICK c : c = n + 1
  OBVIOUS
<1>2. PICK d \in Unit : d = text[c]
  <2>1. c \in 1 .. Len(text)
    BY <1>1
  <2>2. QED
    BY <2>1
<1>3. c \in Nat /\ c - 1 = n /\ c >= 1 /\ (n >= 1 <=> c > 1) /\ n < Len(text) /\ Len(text) \in Nat
  BY <1>1
<1>4. ~(IsHigh(d) /\ IsLow(d))
  BY HighOrLow
<1>5. CASE c > 1 /\ IsHigh(text[n]) /\ IsLow(d)
  <2>1. Ahead(text, n) = <<d>>
    BY <1>1, <1>2, <1>3, <1>5 DEF Ahead
  <2>2. UnitRead(text, c) = <<>>
    BY <1>2, <1>3, <1>4, <1>5 DEF UnitRead
  <2>3. Kept(text, c) = <<d>>
    BY <1>2, <1>4, <1>5 DEF Kept, Lost
  <2>4. Ahead(text, c) = <<>>
    BY <1>2, <1>4, <1>5 DEF Ahead
  <2>5. QED
    BY <1>1, <2>1, <2>2, <2>3, <2>4
<1>6. CASE ~(c > 1 /\ IsHigh(text[n]) /\ IsLow(d))
  <2>1. Ahead(text, n) = <<>>
    BY <1>1, <1>2, <1>3, <1>6 DEF Ahead
  <2>2. CASE IsHigh(d) /\ c < Len(text) /\ IsLow(text[c + 1])
    <3>1. c + 1 \in 1 .. Len(text)
      BY <1>3, <2>2
    <3>2. PICK e \in Unit : e = text[c + 1]
      BY <3>1
    <3>3. UnitRead(text, c) = <<d, e>>
      BY <1>2, <2>2, <3>2 DEF UnitRead
    <3>4. Kept(text, c) = <<d>>
      BY <1>2, <2>2 DEF Kept, Lost
    <3>5. Ahead(text, c) = <<e>>
      BY <1>2, <1>3, <2>2, <3>2 DEF Ahead
    <3>6. <<>> \o <<d, e>> = <<d>> \o <<e>>
      OBVIOUS
    <3>7. QED
      BY <1>1, <2>1, <3>3, <3>4, <3>5, <3>6
  <2>3. CASE Lost(text, c)
    <3>1. UnitRead(text, c) = <<>>
      BY <1>2, <2>3 DEF UnitRead, Lost
    <3>2. Kept(text, c) = <<>>
      BY <2>3 DEF Kept
    <3>3. Ahead(text, c) = <<>>
      BY <2>3 DEF Ahead, Lost
    <3>4. QED
      BY <1>1, <2>1, <3>1, <3>2, <3>3
  <2>4. CASE ~(IsHigh(d) /\ c < Len(text))
    <3>1. UnitRead(text, c) = <<d>>
      BY <1>2, <1>3, <1>6, <2>4 DEF UnitRead
    <3>2. Kept(text, c) = <<d>>
      BY <1>2, <2>4 DEF Kept, Lost
    <3>3. Ahead(text, c) = <<>>
      BY <1>2, <2>4 DEF Ahead
    <3>4. <<>> \o <<d>> = <<d>> \o <<>>
      OBVIOUS
    <3>5. QED
      BY <1>1, <2>1, <3>1, <3>2, <3>3, <3>4
  <2>5. QED
    BY <1>2, <2>2, <2>3, <2>4 DEF Lost
<1>7. QED
  BY <1>5, <1>6

LEMMA AheadType ==
  ASSUME NEW text \in Seq(Unit), NEW n \in 0 .. Len(text)
  PROVE  Ahead(text, n) \in Seq(Unit)
<1>1. CASE n < Len(text)
  <2>1. n + 1 \in 1 .. Len(text)
    BY <1>1
  <2>2. text[n + 1] \in Unit
    BY <2>1
  <2>3. <<text[n + 1]>> \in Seq(Unit) /\ <<>> \in Seq(Unit)
    BY <2>2
  <2>4. QED
    BY <2>3 DEF Ahead
<1>2. CASE ~(n < Len(text))
  <2>1. Ahead(text, n) = <<>>
    BY <1>2 DEF Ahead
  <2>2. QED
    BY <2>1
<1>3. QED
  BY <1>1, <1>2

LEMMA UnitReadType ==
  ASSUME NEW text \in Seq(Unit), NEW c \in 1 .. Len(text)
  PROVE  UnitRead(text, c) \in Seq(Unit)
<1>1. PICK d \in Unit : d = text[c]
  OBVIOUS
<1>2. <<d>> \in Seq(Unit) /\ <<>> \in Seq(Unit)
  OBVIOUS
<1>3. CASE IsHigh(d) /\ c < Len(text)
  <2>1. c + 1 \in 1 .. Len(text)
    BY <1>3
  <2>2. PICK e \in Unit : e = text[c + 1]
    BY <2>1
  <2>3. <<d, e>> \in Seq(Unit)
    OBVIOUS
  <2>4. QED
    BY <1>1, <1>2, <1>3, <2>2, <2>3 DEF UnitRead
<1>4. CASE ~(IsHigh(d) /\ c < Len(text))
  BY <1>1, <1>2, <1>4 DEF UnitRead
<1>5. QED
  BY <1>3, <1>4

\* Whatever a text is, it is read as what could be written of it.
LEMMA TextRead ==
  ASSUME NEW text \in Seq(Unit)
  PROVE  /\ ReadAs(EncodeString(text), Received(text))
         /\ Len(EncodeString(text)) <= 4 * Len(text)
<1> DEFINE N == Len(text)
           pieces == [c \in 1 .. N |-> UnitBytes(text, c)]
           kept == [c \in 1 .. N |-> Kept(text, c)]
<1>1. N \in Nat
  OBVIOUS
<1>2. ASSUME NEW c \in 1 .. N
      PROVE  /\ ReadAs(UnitBytes(text, c), UnitRead(text, c))
             /\ UnitBytes(text, c) \in Seq(Byte)
             /\ Len(UnitBytes(text, c)) <= 4
             /\ Kept(text, c) \in Seq(Unit)
  <2>1. text[c] \in Unit
    OBVIOUS
  <2>2. <<text[c]>> \in Seq(Unit) /\ <<>> \in Seq(Unit)
    BY <2>1
  <2>3. QED
    BY <2>2, UnitBytesRead DEF ReadAs, Kept
<1>3. pieces \in Seq(Seq(Byte)) /\ Len(pieces) = N /\ \A c \in 1 .. N : pieces[c] = UnitBytes(text, c)
  BY <1>1, <1>2
<1>4. kept \in Seq(Seq(Unit)) /\ Len(kept) = N /\ \A c \in 1 .. N : kept[c] = Kept(text, c)
  BY <1>1, <1>2
<1> HIDE DEF pieces, kept
<1>5. PICK f : Chain(f, pieces, Byte)
  BY <1>3, ChainExists
<1>6. PICK g : Chain(g, kept, Unit)
  BY <1>4, ChainExists
<1> DEFINE E == {n \in 0 .. N : ReadAs(f[n], g[n] \o Ahead(text, n)) /\ Len(f[n]) <= 4 * n}
<1>7. 0 \in E
  <2>1. f[0] = <<>> /\ g[0] = <<>>
    BY <1>5, <1>6 DEF Chain
  <2>2. Ahead(text, 0) = <<>>
    BY DEF Ahead
  <2>3. <<>> \o <<>> = <<>> /\ Len(<<>>) = 0 /\ 0 <= 4 * 0 /\ 0 \in 0 .. N
    BY <1>1
  <2>4. ReadAs(f[0], g[0] \o Ahead(text, 0))
    BY <2>1, <2>2, <2>3, NothingRead
  <2>5. QED
    BY <2>1, <2>3, <2>4
<1>8. ASSUME NEW n \in 0 .. N - 1, n \in E PROVE n + 1 \in E
  <2>1. n + 1 \in 1 .. N /\ n \in 0 .. N /\ n + 1 \in 0 .. N /\ (n + 1) - 1 = n /\ n \in Nat
    BY <1>1
  <2>2. f[n + 1] = f[n] \o UnitBytes(text, n + 1) /\ f[n] \in Seq(Byte)
    BY <1>3, <1>5, <2>1 DEF Chain
  <2>3. g[n + 1] = g[n] \o Kept(text, n + 1) /\ g[n] \in Seq(Unit)
    BY <1>4, <1>6, <2>1 DEF Chain
  <2>4. PICK x, y, z, k, a :
          /\ x = g[n] /\ y = Ahead(text, n) /\ z = UnitRead(text, n + 1)
          /\ k = Kept(text, n + 1) /\ a = Ahead(text, n + 1)
    OBVIOUS
  <2>5. y \o z = k \o a
    BY <2>4, KeptStep
  <2>6. x \in Seq(Unit) /\ y \in Seq(Unit) /\ z \in Seq(Unit) /\ k \in Seq(Unit) /\ a \in Seq(Unit)
    <3>1. x \in Seq(Unit) /\ k \in Seq(Unit)
      BY <1>2, <2>1, <2>3, <2>4
    <3>2. y \in Seq(Unit) /\ a \in Seq(Unit)
      BY <2>1, <2>4, AheadType
    <3>3. QED
      BY <2>1, <2>4, <3>1, <3>2, UnitReadType
  <2>7. (x \o y) \o z = (x \o k) \o a
    <3>1. x \in Seq(Unit) /\ y \in Seq(Unit) /\ z \in Seq(Unit)
      BY <2>6
    <3>2. x \in Seq(Unit) /\ k \in Seq(Unit) /\ a \in Seq(Unit)
      BY <2>6
    <3>3. Regroup(x, y, z) /\ Regroup(x, k, a)
      BY <3>1, <3>2, Regrouped
    <3>4. QED
      BY <2>5, <3>3, SMT DEF Regroup
  <2>8. ReadAs(f[n], x \o y)
    BY <1>8, <2>4
  <2>9. ReadAs(UnitBytes(text, n + 1), z)
    BY <1>2, <2>1, <2>4
  <2>10. ReadAs(f[n + 1], (x \o k) \o a)
    BY <2>2, <2>7, <2>8, <2>9, ReadAsConcat
  <2>11. Len(f[n + 1]) <= 4 * (n + 1)
    <3>1. PICK b \in Seq(Byte) : b = UnitBytes(text, n + 1) /\ Len(b) <= 4
      BY <1>2, <2>1
    <3>2. Len(f[n + 1]) = Len(f[n]) + Len(b)
      BY <2>2, <3>1, ConcatProperties
    <3>3. PICK i \in Nat, j \in Nat : i = Len(f[n]) /\ j = Len(b)
      BY <2>2
    <3>4. i <= 4 * n /\ j <= 4
      BY <1>8, <3>1, <3>3
    <3>5. i + j <= 4 * (n + 1)
      BY <2>1, <3>4
    <3>6. QED
      BY <3>2, <3>3, <3>5
  <2>12. QED
    BY <2>1, <2>3, <2>4, <2>10, <2>11
<1> HIDE DEF E
<1>9. 0 .. N \subseteq E
  BY <1>1, <1>7, <1>8, UpTo
<1>10. N \in E
  BY <1>1, <1>9
<1>11. ReadAs(f[N], g[N] \o Ahead(text, N)) /\ Len(f[N]) <= 4 * N
  BY <1>10 DEF E
<1>12. g[N] \o Ahead(text, N) = g[N]
  <2>1. Ahead(text, N) = <<>>
    BY <1>1 DEF Ahead
  <2>2. g[N] \in Seq(Unit)
    BY <1>1, <1>4, <1>6 DEF Chain
  <2>3. QED
    BY <2>1, <2>2, ConcatEmptySeq
<1>13. EncodeString(text) = f[N]
  BY <1>3, <1>5, ChainEnd DEF EncodeString, pieces
<1>14. Received(text) = g[N]
  BY <1>4, <1>6, ChainEnd DEF Received, kept, Kept, Lost
<1>15. QED
  BY <1>11, <1>12, <1>13, <1>14

\* Before its last unit, a high half stands before a low one only.
Paired(text) == \A i \in 1 .. Len(text) - 1 : IsHigh(text[i]) => IsLow(text[i + 1])

\* The last unit is a high half.
Open(text) == Len(text) > 0 /\ IsHigh(text[Len(text)])

LEMMA PairedAppend ==
  ASSUME NEW text \in Seq(Unit), NEW d \in Unit, Paired(text), Open(text) => IsLow(d)
  PROVE  Paired(text \o <<d>>) /\ (Open(text \o <<d>>) => IsHigh(d))
<1> DEFINE L == Len(text)
           all == text \o <<d>>
<1>1. L \in Nat /\ Len(all) = L + 1 /\ all[L + 1] = d /\ \A i \in 1 .. L : all[i] = text[i]
  OBVIOUS
<1> HIDE DEF all
<1>2. ASSUME NEW i \in 1 .. Len(all) - 1, IsHigh(all[i]) PROVE IsLow(all[i + 1])
  <2>1. i \in 1 .. L /\ all[i] = text[i]
    BY <1>1
  <2>2. CASE i = L
    <3>1. Open(text)
      BY <1>1, <1>2, <2>1, <2>2 DEF Open
    <3>2. all[i + 1] = d
      BY <1>1, <2>2
    <3>3. QED
      BY <3>1, <3>2
  <2>3. CASE i # L
    <3>1. i \in 1 .. L - 1 /\ i + 1 \in 1 .. L
      BY <1>1, <2>1, <2>3
    <3>2. all[i + 1] = text[i + 1]
      BY <1>1, <3>1
    <3>3. QED
      BY <1>2, <2>1, <3>1, <3>2 DEF Paired
  <2>4. QED
    BY <2>2, <2>3
<1>3. Paired(all)
  BY <1>2 DEF Paired
<1>4. Open(all) => IsHigh(d)
  BY <1>1 DEF Open
<1>5. QED
  BY <1>3, <1>4 DEF all

\* What is received is not longer than what was typed, and has no half to lose.
LEMMA ReceivedType ==
  ASSUME NEW text \in Seq(Unit)
  PROVE  Received(text) \in Seq(Unit) /\ Len(Received(text)) <= Len(text) /\ Paired(Received(text))
<1> DEFINE N == Len(text)
           kept == [c \in 1 .. N |-> Kept(text, c)]
<1>1. N \in Nat
  OBVIOUS
<1>2. ASSUME NEW c \in 1 .. N PROVE text[c] \in Unit /\ Kept(text, c) \in Seq(Unit)
  <2>1. text[c] \in Unit
    OBVIOUS
  <2>2. <<text[c]>> \in Seq(Unit) /\ <<>> \in Seq(Unit)
    BY <2>1
  <2>3. QED
    BY <2>1, <2>2 DEF Kept
<1>3. kept \in Seq(Seq(Unit)) /\ Len(kept) = N /\ \A c \in 1 .. N : kept[c] = Kept(text, c)
  BY <1>1, <1>2
<1> HIDE DEF kept
<1>4. PICK f : Chain(f, kept, Unit)
  BY <1>3, ChainExists
<1> DEFINE Awaits(n) == Open(f[n]) /\ n < N => IsLow(text[n + 1])
           E == {n \in 0 .. N : Len(f[n]) <= n /\ Paired(f[n]) /\ Awaits(n)}
<1>5. 0 \in E
  <2>1. f[0] = <<>> /\ Len(<<>>) = 0
    BY <1>4 DEF Chain
  <2>2. Len(f[0]) <= 0 /\ Paired(f[0]) /\ ~Open(f[0]) /\ 0 \in 0 .. N
    BY <1>1, <2>1 DEF Paired, Open
  <2>3. QED
    BY <2>2
<1>6. ASSUME NEW n \in 0 .. N - 1, n \in E PROVE n + 1 \in E
  <2>1. n + 1 \in 1 .. N /\ n \in 0 .. N /\ n + 1 \in 0 .. N /\ (n + 1) - 1 = n /\ n < N /\ n \in Nat
    BY <1>1
  <2>2. f[n + 1] = f[n] \o Kept(text, n + 1) /\ f[n] \in Seq(Unit)
    BY <1>3, <1>4, <2>1 DEF Chain
  <2>3. Len(f[n]) <= n /\ Paired(f[n]) /\ (Open(f[n]) => IsLow(text[n + 1]))
    BY <1>6, <2>1
  <2>4. PICK d \in Unit : d = text[n + 1]
    BY <1>2, <2>1
  <2>5. ~(IsHigh(d) /\ IsLow(d))
    BY HighOrLow
  <2>6. PICK x \in Seq(Unit) : x = f[n]
    BY <2>2
  <2>7. CASE Lost(text, n + 1)
    <3>1. Kept(text, n + 1) = <<>> /\ IsHigh(d)
      BY <2>4, <2>7 DEF Kept, Lost
    <3>2. x \o <<>> = x
      OBVIOUS
    <3>3. f[n + 1] = f[n]
      BY <2>2, <2>6, <3>1, <3>2
    <3>4. ~Open(f[n])
      BY <2>3, <2>4, <2>5, <3>1
    <3>5. Len(f[n]) <= n + 1
      BY <2>1, <2>3, <2>6
    <3>6. QED
      BY <2>1, <2>3, <3>3, <3>4, <3>5
  <2>8. CASE ~Lost(text, n + 1)
    <3>1. Kept(text, n + 1) = <<d>>
      BY <2>4, <2>8 DEF Kept
    <3>2. f[n + 1] = x \o <<d>>
      BY <2>2, <2>6, <3>1
    <3>3. Paired(x \o <<d>>) /\ (Open(x \o <<d>>) => IsHigh(d))
      BY <2>3, <2>4, <2>6, PairedAppend
    <3>4. Len(x \o <<d>>) <= n + 1
      BY <2>1, <2>3, <2>6
    <3>5. IsHigh(d) /\ n + 1 < N => IsLow(text[(n + 1) + 1])
      BY <2>4, <2>8 DEF Lost
    <3>6. QED
      BY <2>1, <3>2, <3>3, <3>4, <3>5
  <2>9. QED
    BY <2>7, <2>8
<1> HIDE DEF E
<1>7. 0 .. N \subseteq E
  BY <1>1, <1>5, <1>6, UpTo
<1>8. N \in E
  BY <1>1, <1>7
<1>9. Len(f[N]) <= N /\ Paired(f[N])
  BY <1>8 DEF E
<1>10. f[N] \in Seq(Unit)
  BY <1>1, <1>3, <1>4 DEF Chain
<1>11. Received(text) = f[N]
  BY <1>3, <1>4, ChainEnd DEF Received, kept, Kept, Lost
<1>12. QED
  BY <1>9, <1>10, <1>11

\* A text without a half to lose is received as it is.
LEMMA PairedReceived ==
  ASSUME NEW text \in Seq(Unit), Paired(text)
  PROVE  Received(text) = text
<1> DEFINE N == Len(text)
           kept == [c \in 1 .. N |-> Kept(text, c)]
<1>1. N \in Nat
  OBVIOUS
<1>2. ASSUME NEW c \in 1 .. N PROVE text[c] \in Unit /\ Kept(text, c) = <<text[c]>>
  <2>1. text[c] \in Unit
    OBVIOUS
  <2>2. c < N => c \in 1 .. N - 1
    BY <1>1
  <2>3. ~Lost(text, c)
    BY <2>2 DEF Lost, Paired
  <2>4. QED
    BY <2>1, <2>3 DEF Kept
<1>3. kept \in Seq(Seq(Unit)) /\ Len(kept) = N /\ \A c \in 1 .. N : kept[c] = <<text[c]>>
  <2>1. \A c \in 1 .. N : <<text[c]>> \in Seq(Unit)
    BY <1>2
  <2>2. \A c \in 1 .. N : Kept(text, c) \in Seq(Unit)
    BY <1>2, <2>1
  <2>3. kept \in Seq(Seq(Unit)) /\ Len(kept) = N
    BY <1>1, <2>2
  <2>4. QED
    BY <1>2, <2>3
<1> HIDE DEF kept
<1>4. PICK f : Chain(f, kept, Unit)
  BY <1>3, ChainExists
<1> DEFINE E == {n \in 0 .. N : Len(f[n]) = n /\ \A i \in 1 .. n : f[n][i] = text[i]}
<1>5. 0 \in E
  <2>1. f[0] = <<>> /\ Len(<<>>) = 0
    BY <1>4 DEF Chain
  <2>2. QED
    BY <1>1, <2>1
<1>6. ASSUME NEW n \in 0 .. N - 1, n \in E PROVE n + 1 \in E
  <2>1. n + 1 \in 1 .. N /\ n \in 0 .. N /\ n + 1 \in 0 .. N /\ (n + 1) - 1 = n /\ n \in Nat
    BY <1>1
  <2>2. PICK x \in Seq(Unit), d \in Unit : x = f[n] /\ d = text[n + 1]
    BY <1>2, <1>3, <1>4, <2>1 DEF Chain
  <2>3. f[n + 1] = x \o <<d>>
    BY <1>3, <1>4, <2>1, <2>2 DEF Chain
  <2>4. Len(x) = n /\ \A i \in 1 .. n : x[i] = text[i]
    BY <1>6, <2>2
  <2>5. Len(x \o <<d>>) = n + 1 /\ (x \o <<d>>)[n + 1] = d /\ \A i \in 1 .. n : (x \o <<d>>)[i] = x[i]
    BY <2>1, <2>4
  <2>6. ASSUME NEW i \in 1 .. n + 1 PROVE (x \o <<d>>)[i] = text[i]
    <3>1. CASE i = n + 1
      BY <2>2, <2>5, <3>1
    <3>2. CASE i # n + 1
      <4>1. i \in 1 .. n
        BY <2>1, <3>2
      <4>2. QED
        BY <2>4, <2>5, <4>1
    <3>3. QED
      BY <3>1, <3>2
  <2>7. QED
    BY <2>1, <2>3, <2>5, <2>6
<1> HIDE DEF E
<1>7. 0 .. N \subseteq E
  BY <1>1, <1>5, <1>6, UpTo
<1>8. N \in E
  BY <1>1, <1>7
<1>9. Len(f[N]) = N /\ \A i \in 1 .. N : f[N][i] = text[i]
  BY <1>8 DEF E
<1>10. f[N] \in Seq(Unit)
  BY <1>1, <1>3, <1>4 DEF Chain
<1>11. f[N] = text
  BY <1>9, <1>10, SeqEqual
<1>12. Received(text) = f[N]
  BY <1>3, <1>4, ChainEnd DEF Received, kept, Kept, Lost
<1>13. QED
  BY <1>11, <1>12

LEMMA ReceivedNothing == Received(<<>>) = <<>>
<1>1. <<>> \in Seq(Unit) /\ Paired(<<>>)
  BY DEF Paired
<1>2. QED
  BY <1>1, PairedReceived

LEMMA ReceivedTwice ==
  ASSUME NEW text \in Seq(Unit)
  PROVE  Received(Received(text)) = Received(text)
  BY ReceivedType, PairedReceived

\* What is written of a text is written of what its reader gets of it.
LEMMA ReceivedEncoded ==
  ASSUME NEW text \in Seq(Unit)
  PROVE  EncodeString(Received(text)) = EncodeString(text) /\ (Received(text) = <<>> <=> text = <<>>)
<1> DEFINE N == Len(text)
           kept == [c \in 1 .. N |-> Kept(text, c)]
           R == Received(text)
<1>1. N \in Nat
  OBVIOUS
<1>2. ASSUME NEW c \in 1 .. N PROVE text[c] \in Unit /\ Kept(text, c) \in Seq(Unit)
  <2>1. text[c] \in Unit
    OBVIOUS
  <2>2. <<text[c]>> \in Seq(Unit) /\ <<>> \in Seq(Unit)
    BY <2>1
  <2>3. QED
    BY <2>1, <2>2 DEF Kept
<1>3. kept \in Seq(Seq(Unit)) /\ Len(kept) = N /\ \A c \in 1 .. N : kept[c] = Kept(text, c)
  BY <1>1, <1>2
<1>4. R = FlattenSeq(kept)
  BY DEF Received, Kept, Lost
<1> HIDE DEF kept, R
<1>5. PICK f : Chain(f, kept, Unit)
  BY <1>3, ChainExists
<1>6. R = f[N]
  BY <1>3, <1>4, <1>5, ChainEnd
<1>7. \A n \in 0 .. N : f[n] \in Seq(Unit)
  BY <1>3, <1>5 DEF Chain
<1>8. R \in Seq(Unit)
  BY <1>1, <1>6, <1>7
<1>9. ASSUME NEW n \in 0 .. N
      PROVE  Len(f[n]) \in 0 .. Len(R) /\ \A i \in 1 .. Len(f[n]) : R[i] = f[n][i]
  <2>1. Len(f[n]) <= Len(R) /\ \A i \in 1 .. Len(f[n]) : R[i] = f[n][i]
    BY <1>3, <1>5, <1>6, ChainPrefix
  <2>2. Len(f[n]) \in Nat /\ Len(R) \in Nat
    BY <1>7, <1>8
  <2>3. QED
    BY <2>1, <2>2
\* One unit more.
<1>10. ASSUME NEW c \in 1 .. N
       PROVE  /\ c - 1 \in 0 .. N
              /\ Lost(text, c) => f[c] = f[c - 1]
              /\ ~Lost(text, c) => f[c] = f[c - 1] \o <<text[c]>> /\ Len(f[c]) = Len(f[c - 1]) + 1
                                   /\ R[Len(f[c])] = text[c] /\ Len(f[c]) \in 1 .. Len(R)
  <2>1. c - 1 \in 0 .. N /\ c \in 0 .. N
    BY <1>1
  <2>2. f[c] = f[c - 1] \o Kept(text, c)
    BY <1>3, <1>5 DEF Chain
  <2>3. PICK x \in Seq(Unit), d \in Unit : x = f[c - 1] /\ d = text[c]
    BY <1>2, <1>7, <2>1
  <2>4. CASE Lost(text, c)
    <3>1. x \o <<>> = x
      OBVIOUS
    <3>2. QED
      BY <2>1, <2>2, <2>3, <2>4, <3>1 DEF Kept
  <2>5. CASE ~Lost(text, c)
    <3>1. f[c] = x \o <<d>>
      BY <2>2, <2>3, <2>5 DEF Kept
    <3>2. Len(x \o <<d>>) = Len(x) + 1 /\ (x \o <<d>>)[Len(x) + 1] = d
      OBVIOUS
    <3>3. PICK k \in Nat : k = Len(x)
      OBVIOUS
    <3>4. Len(f[c]) = k + 1 /\ k + 1 \in 1 .. Len(f[c])
      BY <3>1, <3>2, <3>3
    <3>5. R[k + 1] = d /\ k + 1 \in 0 .. Len(R)
      BY <1>9, <2>1, <3>1, <3>2, <3>3, <3>4
    <3>6. k + 1 \in 1 .. Len(R)
      BY <1>8, <3>5
    <3>7. QED
      BY <2>1, <2>3, <2>5, <3>1, <3>3, <3>4, <3>5, <3>6
  <2>6. QED
    BY <2>4, <2>5
\* What is kept ends with a high half only if the last unit is one.
<1> DEFINE O == {n \in 0 .. N : Open(f[n]) => n >= 1 /\ IsHigh(text[n]) /\ ~Lost(text, n)}
<1>11. 0 .. N \subseteq O
  <2>1. 0 \in O
    <3>1. f[0] = <<>> /\ Len(<<>>) = 0
      BY <1>5 DEF Chain
    <3>2. ~Open(f[0]) /\ 0 \in 0 .. N
      BY <1>1, <3>1 DEF Open
    <3>3. QED
      BY <3>2
  <2>2. ASSUME NEW n \in 0 .. N - 1, n \in O PROVE n + 1 \in O
    <3>1. PICK c \in 1 .. N : c = n + 1 /\ c - 1 = n /\ n \in 0 .. N /\ c >= 1 /\ c \in 0 .. N
      BY <1>1
    <3>2. CASE Lost(text, c)
      <4>1. f[c] = f[n] /\ IsHigh(text[c])
        BY <1>10, <3>1, <3>2 DEF Lost
      <4>2. ASSUME Open(f[n]) PROVE FALSE
        <5>1. n >= 1 /\ IsHigh(text[n]) /\ ~Lost(text, n)
          BY <2>2, <4>2
        <5>2. n < N /\ text[n + 1] = text[c]
          BY <1>1, <3>1
        <5>3. IsLow(text[c])
          BY <5>1, <5>2 DEF Lost
        <5>4. QED
          BY <1>2, <4>1, <5>3, HighOrLow
      <4>3. QED
        BY <3>1, <4>1, <4>2
    <3>3. CASE ~Lost(text, c)
      <4>1. f[c] = f[n] \o <<text[c]>> /\ Len(f[c]) = Len(f[n]) + 1
        BY <1>10, <3>1, <3>3
      <4>2. PICK x \in Seq(Unit), d \in Unit : x = f[n] /\ d = text[c]
        BY <1>2, <1>7, <3>1
      <4>3. (x \o <<d>>)[Len(x) + 1] = d
        OBVIOUS
      <4>4. Open(f[c]) => IsHigh(d)
        BY <4>1, <4>2, <4>3 DEF Open
      <4>5. QED
        BY <3>1, <3>3, <4>2, <4>4
    <3>4. QED
      BY <3>2, <3>3
  <2> HIDE DEF O
  <2>3. QED
    BY <1>1, <2>1, <2>2, UpTo
\* A unit that is kept is written as it was.
<1>12. ASSUME NEW c \in 1 .. N, ~Lost(text, c)
       PROVE  UnitBytes(R, Len(f[c])) = UnitBytes(text, c)
  <2>1. PICK k \in 1 .. Len(R), d \in Unit : k = Len(f[c]) /\ d = text[c] /\ R[k] = d
    BY <1>2, <1>10, <1>12
  <2>2. c - 1 \in 0 .. N /\ k = Len(f[c - 1]) + 1 /\ c \in 0 .. N
    <3>1. c - 1 \in 0 .. N /\ Len(f[c]) = Len(f[c - 1]) + 1
      BY <1>10, <1>12
    <3>2. c \in 0 .. N
      BY <1>1
    <3>3. QED
      BY <2>1, <3>1, <3>2
  <2>3. PICK j \in Nat : j = Len(f[c - 1]) /\ k = j + 1
    BY <1>7, <2>2
  <2>4. Len(R) \in Nat
    BY <1>8
  <2>5. CASE IsHigh(d) /\ c < N
    <3>1. PICK b \in 1 .. N : b = c + 1 /\ b - 1 = c
      BY <1>1, <2>5
    <3>2. IsLow(text[b])
      BY <1>12, <2>1, <2>5, <3>1 DEF Lost
    <3>3. ~Lost(text, b)
      BY <1>2, <3>2, HighOrLow DEF Lost
    <3>4. R[k + 1] = text[b] /\ k + 1 \in 1 .. Len(R)
      BY <1>10, <2>1, <3>1, <3>3
    <3>5. k < Len(R) /\ c < Len(text)
      BY <2>4, <2>5, <3>4
    <3>6. R[k] = text[c] /\ R[k + 1] = text[c + 1] /\ IsLow(text[c + 1]) /\ IsHigh(text[c])
      BY <2>1, <2>5, <3>1, <3>2, <3>4
    <3>7. QED
      BY <2>1, <3>5, <3>6 DEF UnitBytes
  <2>6. CASE IsHigh(d) /\ ~(c < N)
    <3>1. c = N
      BY <1>1, <2>6
    <3>2. ~(k < Len(R)) /\ ~(c < Len(text))
      BY <1>6, <2>1, <2>4, <2>6, <3>1
    <3>3. ~IsLow(d)
      BY <2>6, HighOrLow
    <3>4. QED
      BY <2>1, <3>2, <3>3 DEF UnitBytes
  <2>7. CASE ~IsHigh(d)
    <3>1. k > 1 /\ IsLow(d) /\ IsHigh(R[k - 1]) <=> c > 1 /\ IsLow(d) /\ IsHigh(text[c - 1])
      <4>1. ASSUME k > 1, IsLow(d), IsHigh(R[k - 1]) PROVE c > 1 /\ IsHigh(text[c - 1])
        <5>1. j >= 1 /\ k - 1 = j /\ j \in 1 .. Len(f[c - 1])
          BY <2>3, <4>1
        <5>2. R[j] = f[c - 1][j]
          BY <1>9, <2>2, <5>1
        <5>3. Open(f[c - 1])
          BY <2>3, <4>1, <5>1, <5>2 DEF Open
        <5>4. c - 1 >= 1 /\ IsHigh(text[c - 1])
          BY <1>11, <2>2, <5>3
        <5>5. QED
          BY <5>4
      <4>2. ASSUME c > 1, IsLow(d), IsHigh(text[c - 1]) PROVE k > 1 /\ IsHigh(R[k - 1])
        <5>1. PICK b \in 1 .. N : b = c - 1 /\ b + 1 = c
          BY <1>1, <4>2
        <5>2. ~Lost(text, b)
          BY <2>1, <4>2, <5>1 DEF Lost
        <5>3. R[j] = text[b] /\ j \in 1 .. Len(R)
          BY <1>10, <2>3, <5>1, <5>2
        <5>4. k > 1 /\ k - 1 = j
          BY <2>3, <5>3
        <5>5. QED
          BY <4>2, <5>1, <5>3, <5>4
      <4>3. QED
        BY <4>1, <4>2
    <3>2. QED
      BY <2>1, <2>7, <3>1 DEF UnitBytes
  <2>8. QED
    BY <2>5, <2>6, <2>7
<1>13. \A c \in 1 .. N : Lost(text, c) => UnitBytes(text, c) = <<>>
  <2>1. ASSUME NEW c \in 1 .. N, Lost(text, c) PROVE UnitBytes(text, c) = <<>>
    <3>1. PICK d \in Unit : d = text[c]
      BY <1>2
    <3>2. IsHigh(d) /\ c < Len(text) /\ ~IsLow(text[c + 1])
      BY <2>1, <3>1 DEF Lost
    <3>3. ~(d < 2048) /\ ~(d < 128)
      BY <3>2, SMT DEF IsHigh
    <3>4. QED
      BY <3>1, <3>2, <3>3 DEF UnitBytes
  <2>2. QED
    BY <2>1
\* What is written of the first n units.
<1> DEFINE pieces == [c \in 1 .. N |-> UnitBytes(text, c)]
           again == [k \in 1 .. Len(R) |-> UnitBytes(R, k)]
<1>14. pieces \in Seq(Seq(Byte)) /\ Len(pieces) = N /\ \A c \in 1 .. N : pieces[c] = UnitBytes(text, c)
  <2>1. \A c \in 1 .. N : UnitBytes(text, c) \in Seq(Byte)
    BY UnitBytesRead DEF ReadAs
  <2>2. QED
    BY <1>1, <2>1
<1>15. again \in Seq(Seq(Byte)) /\ Len(again) = Len(R) /\ \A k \in 1 .. Len(R) : again[k] = UnitBytes(R, k)
  <2>1. \A k \in 1 .. Len(R) : UnitBytes(R, k) \in Seq(Byte)
    BY <1>8, UnitBytesRead DEF ReadAs
  <2>2. QED
    BY <1>8, <2>1
<1>16. EncodeString(text) = FlattenSeq(pieces) /\ EncodeString(R) = FlattenSeq(again)
  BY DEF EncodeString
<1> HIDE DEF pieces, again
<1>17. PICK g : Chain(g, pieces, Byte)
  BY <1>14, ChainExists
<1>18. PICK h : Chain(h, again, Byte)
  BY <1>15, ChainExists
<1> DEFINE E == {n \in 0 .. N : h[Len(f[n])] = g[n]}
<1>19. 0 \in E
  <2>1. f[0] = <<>> /\ Len(<<>>) = 0 /\ g[0] = <<>> /\ h[0] = <<>>
    BY <1>5, <1>17, <1>18 DEF Chain
  <2>2. QED
    BY <1>1, <2>1
<1>20. ASSUME NEW n \in 0 .. N - 1, n \in E PROVE n + 1 \in E
  <2>1. PICK c \in 1 .. N : c = n + 1 /\ c - 1 = n /\ n \in 0 .. N /\ c \in 0 .. N
    BY <1>1
  <2>2. g[c] = g[n] \o UnitBytes(text, c) /\ g[n] \in Seq(Byte)
    BY <1>14, <1>17, <2>1 DEF Chain
  <2>3. CASE Lost(text, c)
    <3>1. f[c] = f[n]
      BY <1>10, <2>1, <2>3
    <3>2. g[c] = g[n]
      BY <1>13, <2>2, <2>3, ConcatEmptySeq
    <3>3. QED
      BY <1>20, <2>1, <3>1, <3>2
  <2>4. CASE ~Lost(text, c)
    <3>1. PICK k \in 1 .. Len(R) : k = Len(f[c]) /\ k = Len(f[n]) + 1
      BY <1>10, <2>1, <2>4
    <3>2. k - 1 = Len(f[n])
      BY <1>7, <2>1, <3>1
    <3>3. h[k] = h[k - 1] \o UnitBytes(R, k)
      BY <1>15, <1>18 DEF Chain
    <3>4. UnitBytes(R, k) = UnitBytes(text, c)
      BY <1>12, <2>4, <3>1
    <3>5. h[k] = g[c]
      BY <1>20, <2>2, <3>2, <3>3, <3>4
    <3>6. QED
      BY <2>1, <3>1, <3>5
  <2>5. QED
    BY <2>3, <2>4
<1> HIDE DEF E
<1>21. N \in E
  <2>1. 0 .. N \subseteq E
    BY <1>1, <1>19, <1>20, UpTo
  <2>2. QED
    BY <1>1, <2>1
<1>22. EncodeString(R) = EncodeString(text)
  <2>1. h[Len(R)] = g[N]
    BY <1>6, <1>21 DEF E
  <2>2. FlattenSeq(again) = h[Len(again)] /\ FlattenSeq(pieces) = g[Len(pieces)]
    BY <1>14, <1>15, <1>17, <1>18, ChainEnd
  <2>3. QED
    BY <1>14, <1>15, <1>16, <2>1, <2>2
\* The last unit is kept.
<1>23. text # <<>> => R # <<>>
  <2>1. SUFFICES ASSUME text # <<>> PROVE R # <<>>
    OBVIOUS
  <2>2. N \in 1 .. N
    BY <1>1, <2>1
  <2>3. ~Lost(text, N)
    BY <1>1 DEF Lost
  <2>4. Len(R) \in 1 .. Len(R)
    BY <1>6, <1>10, <2>2, <2>3
  <2>5. Len(<<>>) = 0
    OBVIOUS
  <2>6. QED
    BY <2>4, <2>5
<1>24. QED
  BY <1>22, <1>23, ReceivedNothing DEF R

-----------------------------------------------------------------------------
(* Numbers.                                                                *)

Digit == 0 .. 127

\* The number of five digits of seven bits, the low ones first.
SumOf(d) == d[1] + 128 * d[2] + 16384 * d[3] + 2097152 * d[4] + 268435456 * d[5]

\* The digits from the i-th on are zero.
ZeroBehind(d, size) == \A k \in 1 .. 5 : k > size => d[k] = 0

\* Digits as they are written: all but the last one with a mark.
Marked(d, size) == [k \in 1 .. size |-> IF k < size THEN d[k] + 128 ELSE d[k]]

Countable(n) == n \in Nat /\ n < 2147483648

LEMMA VarintDigits ==
  ASSUME NEW n, Countable(n)
  PROVE  \E d \in [1 .. 5 -> Digit], size \in 1 .. 5 :
           Varint(n) = Marked(d, size) /\ ZeroBehind(d, size) /\ SumOf(d) = n
<1>0. n \in Nat /\ n < 2147483648
  BY DEF Countable
<1>1. PICK d1, d2, d3, d4, d5 :
        /\ d1 = n % 128 /\ d2 = (n \div 128) % 128 /\ d3 = (n \div 16384) % 128
        /\ d4 = (n \div 2097152) % 128 /\ d5 = n \div 268435456
  OBVIOUS
<1>2. d1 \in Digit /\ d2 \in Digit /\ d3 \in Digit /\ d4 \in Digit
  BY <1>0, <1>1, SMT DEF Digit
<1>3. d5 \in Digit
  <2>1. d5 \in Int /\ 0 <= d5 /\ d5 <= 127
    BY <1>0, <1>1, SMT
  <2>2. QED
    BY <2>1 DEF Digit
<1>4. d1 + 128 * d2 + 16384 * d3 + 2097152 * d4 + 268435456 * d5 = n
  BY <1>0, <1>1, SMT
<1> DEFINE d == <<d1, d2, d3, d4, d5>>
           size == IF n < 128 THEN 1 ELSE IF n < 16384 THEN 2 ELSE IF n < 2097152 THEN 3
                   ELSE IF n < 268435456 THEN 4 ELSE 5
<1>5. d \in [1 .. 5 -> Digit] /\ d[1] = d1 /\ d[2] = d2 /\ d[3] = d3 /\ d[4] = d4 /\ d[5] = d5
  BY <1>2, <1>3
<1>6. size \in 1 .. 5
  BY <1>0, SMT
<1>7. Varint(n) = Marked(d, size)
  BY <1>1, SMT DEF Varint, Marked
<1>8. SumOf(d) = n
  BY <1>4, <1>5, SMT DEF SumOf
<1>9. ZeroBehind(d, size)
  <2>1. (n < 268435456 => d5 = 0) /\ (n < 2097152 => d4 = 0) /\ (n < 16384 => d3 = 0) /\ (n < 128 => d2 = 0)
    BY <1>0, <1>1, SMT
  <2>2. ASSUME NEW k \in 1 .. 5, k > size PROVE d[k] = 0
    <3>1. k = 1 \/ k = 2 \/ k = 3 \/ k = 4 \/ k = 5
      OBVIOUS
    <3>2. QED
      BY <1>0, <1>5, <2>1, <2>2, <3>1, SMT
  <2>3. QED
    BY <2>2 DEF ZeroBehind
<1> HIDE DEF d, size
<1>10. QED
  BY <1>5, <1>6, <1>7, <1>8, <1>9

\* v is the part of bytes that begins at c.
Stands(v, bytes, c) ==
  /\ c + Len(v) - 1 <= Len(bytes)
  /\ \A k \in 1 .. Len(v) : bytes[c + k - 1] = v[k]

LEMMA MarkedType ==
  ASSUME NEW d \in [1 .. 5 -> Digit], NEW size \in 1 .. 5
  PROVE  Marked(d, size) \in Seq(Byte) /\ Len(Marked(d, size)) = size
<1>1. ASSUME NEW k \in 1 .. size PROVE (IF k < size THEN d[k] + 128 ELSE d[k]) \in Byte
  <2>1. k \in 1 .. 5
    OBVIOUS
  <2>2. d[k] \in 0 .. 127
    BY <2>1 DEF Digit
  <2>3. QED
    BY <2>2 DEF Byte
<1>2. QED
  BY <1>1 DEF Marked

LEMMA ByteRange ==
  ASSUME NEW d \in Byte
  PROVE  d \in Int /\ 0 <= d /\ d <= 255
  BY DEF Byte

LEMMA EndOf ==
  ASSUME NEW bytes, NEW c \in Nat, NEW e \in c .. Len(bytes), bytes \in Seq(Byte), bytes[e] < 128,
         \A i \in c .. e - 1 : bytes[i] >= 128, c >= 1
  PROVE  VarintEnd(bytes, c) = e
<1> DEFINE Is(x) == bytes[x] < 128 /\ \A i \in c .. x - 1 : bytes[i] >= 128
<1>1. Len(bytes) \in Nat /\ \A i \in c .. Len(bytes) : bytes[i] \in Int
  <2>1. ASSUME NEW i \in c .. Len(bytes) PROVE bytes[i] \in Int
    <3>1. i \in 1 .. Len(bytes)
      OBVIOUS
    <3>2. bytes[i] \in Byte
      BY <3>1
    <3>3. QED
      BY <3>2, ByteRange
  <2>2. QED
    BY <2>1
<1>2. Is(e)
  OBVIOUS
<1>3. ASSUME NEW x \in c .. Len(bytes), Is(x) PROVE x = e
  <2>1. CASE x < e
    <3>1. x \in c .. e - 1
      BY <2>1
    <3>2. bytes[x] >= 128 /\ bytes[x] < 128 /\ bytes[x] \in Int
      BY <1>1, <1>3, <3>1
    <3>3. QED
      BY <3>2
  <2>2. CASE e < x
    <3>1. e \in c .. x - 1
      BY <2>2
    <3>2. bytes[e] >= 128 /\ bytes[e] < 128 /\ bytes[e] \in Int
      BY <1>1, <1>3, <3>1
    <3>3. QED
      BY <3>2
  <2>3. QED
    BY <2>1, <2>2
<1>4. VarintEnd(bytes, c) = CHOOSE x \in c .. Len(bytes) : Is(x)
  BY DEF VarintEnd
<1> HIDE DEF Is
<1>5. QED
  BY <1>2, <1>3, <1>4

LEMMA SevenBits ==
  ASSUME NEW x \in Int, 0 <= x, x < 128
  PROVE  x % 128 = x /\ (x + 128) % 128 = x
  BY SMT

\* A number is read as it was written, wherever it stands.
LEMMA VarintRead ==
  ASSUME NEW n, Countable(n), NEW bytes \in Seq(Byte), NEW c \in Nat \ {0}, Stands(Varint(n), bytes, c)
  PROVE  /\ VarintEnd(bytes, c) = c + Len(Varint(n)) - 1
         /\ ReadVarint(bytes, c) = n
<1>1. PICK d \in [1 .. 5 -> Digit], size \in 1 .. 5 :
        Varint(n) = Marked(d, size) /\ ZeroBehind(d, size) /\ SumOf(d) = n
  BY VarintDigits
<1>2. Len(Varint(n)) = size
  BY <1>1, MarkedType
<1>3. PICK e \in Nat : e = c + size - 1
  OBVIOUS
<1>4. e \in c .. Len(bytes) /\ Len(bytes) \in Nat
  BY <1>2, <1>3 DEF Stands
<1>5. ASSUME NEW k \in 1 .. size
      PROVE  bytes[c + k - 1] = IF k < size THEN d[k] + 128 ELSE d[k]
  BY <1>1, <1>2 DEF Stands, Marked
<1>6. ASSUME NEW k \in 1 .. 5 PROVE d[k] \in Int /\ 0 <= d[k] /\ d[k] < 128
  <2>1. PICK x \in Digit : x = d[k]
    OBVIOUS
  <2>2. x \in Int /\ 0 <= x /\ x < 128
    BY DEF Digit
  <2>3. QED
    BY <2>1, <2>2
<1>7. bytes[e] < 128
  <2>1. bytes[c + size - 1] = d[size]
    BY <1>5
  <2>2. QED
    BY <1>3, <1>6, <2>1
<1>8. ASSUME NEW i \in c .. e - 1 PROVE bytes[i] >= 128
  <2>1. PICK k \in 1 .. size : i = c + k - 1 /\ k < size
    <3>1. i - c + 1 \in 1 .. size /\ i = c + (i - c + 1) - 1 /\ i - c + 1 < size
      BY <1>3
    <3>2. QED
      BY <3>1
  <2>2. bytes[i] = d[k] + 128 /\ k \in 1 .. 5
    BY <1>5, <2>1
  <2>3. PICK x \in Int : x = d[k] /\ 0 <= x
    BY <1>6, <2>2
  <2>4. bytes[i] = x + 128
    BY <2>2, <2>3
  <2>5. QED
    BY <2>3, <2>4
<1>9. VarintEnd(bytes, c) = e
  BY <1>4, <1>7, <1>8, EndOf
<1> DEFINE bits(k) == IF c + k > e THEN 0 ELSE bytes[c + k] % 128
<1>10. ASSUME NEW k \in 0 .. 4 PROVE bits(k) = d[k + 1]
  <2>1. k + 1 \in 1 .. 5
    OBVIOUS
  <2>2. CASE k + 1 > size
    <3>1. c + k > e
      BY <1>3, <2>2
    <3>2. d[k + 1] = 0
      BY <1>1, <2>1, <2>2 DEF ZeroBehind
    <3>3. QED
      BY <3>1, <3>2
  <2>3. CASE ~(k + 1 > size)
    <3>1. ~(c + k > e) /\ k + 1 \in 1 .. size /\ c + (k + 1) - 1 = c + k
      BY <1>3, <2>3
    <3>2. PICK x \in Int : x = d[k + 1] /\ 0 <= x /\ x < 128
      BY <1>6, <2>1
    <3>3. bytes[c + k] = x \/ bytes[c + k] = x + 128
      BY <1>5, <3>1, <3>2
    <3>4. x % 128 = x /\ (x + 128) % 128 = x
      BY <3>2, SevenBits
    <3>5. bytes[c + k] % 128 = x
      BY <3>3, <3>4
    <3>6. QED
      BY <3>1, <3>2, <3>5
  <2>4. QED
    BY <2>2, <2>3
<1>11. ReadVarint(bytes, c) = bits(0) + 128 * bits(1) + 16384 * bits(2) + 2097152 * bits(3) + 268435456 * bits(4)
  BY <1>9, SMT DEF ReadVarint
<1> HIDE DEF bits
<1>12. bits(0) = d[1] /\ bits(1) = d[2] /\ bits(2) = d[3] /\ bits(3) = d[4] /\ bits(4) = d[5]
  <2>1. bits(0) = d[0 + 1] /\ bits(1) = d[1 + 1] /\ bits(2) = d[2 + 1] /\ bits(3) = d[3 + 1] /\ bits(4) = d[4 + 1]
    BY <1>10
  <2>2. 0 + 1 = 1 /\ 1 + 1 = 2 /\ 2 + 1 = 3 /\ 3 + 1 = 4 /\ 4 + 1 = 5
    OBVIOUS
  <2>3. QED
    BY <2>1, <2>2
<1>13. ReadVarint(bytes, c) = n
  BY <1>1, <1>11, <1>12, SMT DEF SumOf
<1>14. QED
  BY <1>2, <1>3, <1>9, <1>13

LEMMA VarintType ==
  ASSUME NEW n, Countable(n)
  PROVE  Varint(n) \in Seq(Byte) /\ Len(Varint(n)) \in 1 .. 5
  BY VarintDigits, MarkedType

-----------------------------------------------------------------------------
(* Fields.                                                                 *)

LEMMA StandsConcat ==
  ASSUME NEW u \in Seq(Byte), NEW v \in Seq(Byte), NEW bytes \in Seq(Byte), NEW c \in Nat \ {0},
         Stands(u \o v, bytes, c)
  PROVE  Stands(u, bytes, c) /\ Stands(v, bytes, c + Len(u))
<1> DEFINE all == u \o v
<1>1. /\ Len(all) = Len(u) + Len(v) /\ Len(u) \in Nat /\ Len(v) \in Nat
      /\ \A k \in 1 .. Len(u) : all[k] = u[k]
      /\ \A k \in 1 .. Len(v) : all[Len(u) + k] = v[k]
  BY ConcatProperties
<1>2. Stands(all, bytes, c)
  OBVIOUS
<1> HIDE DEF all
<1>3. PICK l \in Nat, m \in Nat, N \in Nat : l = Len(u) /\ m = Len(v) /\ N = Len(bytes)
  BY <1>1
<1>4. c + (l + m) - 1 <= N /\ \A k \in 1 .. l + m : bytes[c + k - 1] = all[k]
  BY <1>1, <1>2, <1>3 DEF Stands
<1>5. ASSUME NEW k \in 1 .. l PROVE bytes[c + k - 1] = u[k]
  <2>1. k \in 1 .. l + m
    OBVIOUS
  <2>2. QED
    BY <1>1, <1>3, <1>4, <2>1
<1>6. ASSUME NEW k \in 1 .. m PROVE bytes[(c + l) + k - 1] = v[k]
  <2>1. PICK j \in 1 .. l + m : j = l + k
    OBVIOUS
  <2>2. bytes[c + j - 1] = all[j] /\ c + j - 1 = (c + l) + k - 1
    BY <1>4, <2>1
  <2>3. all[l + k] = v[k]
    BY <1>1, <1>3
  <2>4. QED
    BY <2>1, <2>2, <2>3
<1>7. c + l - 1 <= N /\ (c + l) + m - 1 <= N
  BY <1>4
<1>8. QED
  BY <1>3, <1>5, <1>6, <1>7 DEF Stands

LEMMA StandsSubSeq ==
  ASSUME NEW v \in Seq(Byte), NEW bytes \in Seq(Byte), NEW c \in Nat \ {0}, Stands(v, bytes, c)
  PROVE  SubSeq(bytes, c, c + Len(v) - 1) = v
<1>1. PICK l \in Nat, N \in Nat : l = Len(v) /\ N = Len(bytes)
  OBVIOUS
<1>2. c + l - 1 <= N /\ \A k \in 1 .. l : bytes[c + k - 1] = v[k]
  BY <1>1 DEF Stands
<1> DEFINE part == SubSeq(bytes, c, c + l - 1)
<1>3. part \in Seq(Byte) /\ Len(part) = l /\ \A k \in 1 .. l : part[k] = bytes[c + k - 1]
  <2>1. c \in 1 .. N + 1 /\ c + l - 1 \in c - 1 .. N
    BY <1>2
  <2>2. PICK e \in c - 1 .. N : e = c + l - 1
    BY <2>1
  <2>3. e - c + 1 = l
    BY <2>2
  <2>4. \A k \in c .. e : k \in 1 .. N
    BY <2>1
  <2>5. SubSeq(bytes, c, e) = [k \in 1 .. e - c + 1 |-> bytes[c + k - 1]]
    BY <2>1
  <2>6. \A k \in 1 .. l : bytes[c + k - 1] \in Byte
    <3>1. ASSUME NEW k \in 1 .. l PROVE bytes[c + k - 1] \in Byte
      <4>1. c + k - 1 \in 1 .. N
        BY <1>2
      <4>2. QED
        BY <1>1, <4>1
    <3>2. QED
      BY <3>1
  <2>7. part = [k \in 1 .. l |-> bytes[c + k - 1]]
    BY <2>2, <2>3, <2>5
  <2> HIDE DEF part
  <2>8. QED
    BY <2>6, <2>7
<1> HIDE DEF part
<1>4. part = v
  BY <1>1, <1>2, <1>3, SeqEqual
<1>5. QED
  BY <1>1, <1>4 DEF part

\* v is how a field with the number, the wire type and the value of x is written:
\* that field is read wherever v stands.
IsImage(v, x) ==
  /\ v \in Seq(Byte) /\ Len(v) >= 1
  /\ \A bytes \in Seq(Byte), c \in Nat \ {0} :
       Stands(v, bytes, c) => FieldAt(bytes, c) = [number |-> x.number, wireType |-> x.wireType,
                                                   value |-> x.value, last |-> c + Len(v) - 1]

Carried(number, wireType, value) == [number |-> number, wireType |-> wireType, value |-> value]

\* What follows a header is a value of that wire type.
IsPayload(rest, wireType, value) ==
  \A bytes \in Seq(Byte), d \in Nat \ {0} :
    Stands(rest, bytes, d) => /\ Payload(bytes, d, wireType).last = d + Len(rest) - 1
                              /\ SubSeq(bytes, Payload(bytes, d, wireType).first, d + Len(rest) - 1) = value

\* The numbers of fields whose headers TLC has.
IsNumber(i) == i \in Nat \ {0} /\ i < 268435456

WireTypes == {VARINT, FIXED64, DELIMITED, FIXED32}

LEMMA HeaderParts ==
  ASSUME NEW i, IsNumber(i), NEW w \in WireTypes
  PROVE  Countable(8 * i + w) /\ (8 * i + w) \div 8 = i /\ (8 * i + w) % 8 = w
<1>1. w \in Nat /\ w < 8
  BY DEF WireTypes, VARINT, FIXED64, DELIMITED, FIXED32
<1>2. i \in Nat /\ i < 268435456
  BY SMT DEF IsNumber
<1>3. PICK n \in Nat : n = 8 * i + w
  BY <1>1, <1>2
<1>4. n < 2147483648 /\ n \div 8 = i /\ n % 8 = w
  BY <1>1, <1>2, <1>3, SMT
<1>5. QED
  BY <1>3, <1>4, SMT DEF Countable

LEMMA HeaderType ==
  ASSUME NEW i, IsNumber(i), NEW w \in WireTypes
  PROVE  FieldHeader(i, w) \in Seq(Byte) /\ Len(FieldHeader(i, w)) \in 1 .. 5
  BY HeaderParts, VarintType DEF FieldHeader

\* A header and a value make a field.
LEMMA FieldImage ==
  ASSUME NEW i, IsNumber(i), NEW w \in WireTypes, NEW rest \in Seq(Byte), NEW value,
         IsPayload(rest, w, value)
  PROVE  IsImage(FieldHeader(i, w) \o rest, Carried(i, w, value))
<1> DEFINE H == FieldHeader(i, w)
           v == H \o rest
           x == Carried(i, w, value)
<1>1. H \in Seq(Byte) /\ Len(H) \in 1 .. 5
  BY HeaderType
<1>2. PICK header : /\ header = 8 * i + w /\ Countable(header) /\ header \div 8 = i /\ header % 8 = w
                    /\ H = Varint(header)
  BY HeaderParts DEF FieldHeader
<1> HIDE DEF H
<1>3. v \in Seq(Byte) /\ Len(v) = Len(H) + Len(rest)
  BY <1>1, ConcatProperties
<1>4. PICK l \in 1 .. 5, r \in Nat : l = Len(H) /\ r = Len(rest)
  BY <1>1
<1>5. ASSUME NEW bytes \in Seq(Byte), NEW c \in Nat \ {0}, Stands(v, bytes, c)
      PROVE  FieldAt(bytes, c) = [number |-> i, wireType |-> w, value |-> value, last |-> c + Len(v) - 1]
  <2>1. PICK d \in Nat \ {0} : d = c + l
    OBVIOUS
  <2>2. Stands(H, bytes, c) /\ Stands(rest, bytes, d)
    BY <1>1, <1>4, <1>5, <2>1, StandsConcat
  <2>3. VarintEnd(bytes, c) = c + Len(H) - 1 /\ ReadVarint(bytes, c) = header
    BY <1>2, <2>2, VarintRead
  <2>4. VarintEnd(bytes, c) + 1 = d
    BY <1>4, <2>1, <2>3
  <2> DEFINE P == Payload(bytes, d, w)
  <2>5. FieldAt(bytes, c) = [number |-> i, wireType |-> w, value |-> SubSeq(bytes, P.first, P.last), last |-> P.last]
    BY <1>2, <2>3, <2>4, Zenon DEF FieldAt
  <2>6. P.last = d + Len(rest) - 1 /\ SubSeq(bytes, P.first, d + Len(rest) - 1) = value
    BY <2>2 DEF IsPayload
  <2> HIDE DEF P
  <2>7. d + Len(rest) - 1 = c + Len(v) - 1
    BY <1>3, <1>4, <2>1
  <2>8. QED
    BY <2>5, <2>6, <2>7, Zenon
<1>6. Len(v) >= 1
  BY <1>3, <1>4
<1> HIDE DEF v
<1>7. x.number = i /\ x.wireType = w /\ x.value = value
  BY DEF Carried
<1> HIDE DEF x
<1>8. IsImage(v, x)
  BY <1>3, <1>5, <1>6, <1>7 DEF IsImage
<1>9. QED
  BY <1>8 DEF v, x, H

\* A value with its length before it.
LEMMA DelimitedPayload ==
  ASSUME NEW value \in Seq(Byte), Countable(Len(value))
  PROVE  Varint(Len(value)) \o value \in Seq(Byte) /\ IsPayload(Varint(Len(value)) \o value, DELIMITED, value)
<1> DEFINE V == Varint(Len(value))
           rest == V \o value
<1>1. V \in Seq(Byte) /\ Len(V) \in 1 .. 5
  BY VarintType
<1>2. PICK m \in 1 .. 5, n \in Nat : m = Len(V) /\ n = Len(value)
  BY <1>1
<1>3. \A bytes \in Seq(Byte), d \in Nat \ {0} :
        Stands(V, bytes, d) => VarintEnd(bytes, d) = d + Len(V) - 1 /\ ReadVarint(bytes, d) = Len(value)
  BY VarintRead
<1> HIDE DEF V
<1>4. rest \in Seq(Byte) /\ Len(rest) = Len(V) + Len(value)
  BY <1>1, ConcatProperties
<1>5. ASSUME NEW bytes \in Seq(Byte), NEW d \in Nat \ {0}, Stands(rest, bytes, d)
      PROVE  /\ Payload(bytes, d, DELIMITED).last = d + Len(rest) - 1
             /\ SubSeq(bytes, Payload(bytes, d, DELIMITED).first, d + Len(rest) - 1) = value
  <2>1. PICK e \in Nat \ {0} : e = d + m
    OBVIOUS
  <2>2. Stands(V, bytes, d) /\ Stands(value, bytes, e)
    BY <1>1, <1>2, <1>5, <2>1, StandsConcat
  <2>3. VarintEnd(bytes, d) = d + m - 1 /\ ReadVarint(bytes, d) = n
    BY <1>2, <1>3, <2>2
  <2>4. (d + m - 1) + 1 = e /\ (d + m - 1) + n = e + n - 1
    BY <2>1
  <2>5. Payload(bytes, d, DELIMITED) = [first |-> e, last |-> e + n - 1]
    BY <2>3, <2>4 DEF Payload
  <2>6. SubSeq(bytes, e, e + n - 1) = value
    BY <1>2, <2>2, StandsSubSeq
  <2>7. e + n - 1 = d + Len(rest) - 1
    BY <1>2, <1>4, <2>1
  <2>8. Payload(bytes, d, DELIMITED).first = e /\ Payload(bytes, d, DELIMITED).last = e + n - 1
    BY <2>5
  <2>9. QED
    BY <2>6, <2>7, <2>8, Zenon
<1> HIDE DEF rest
<1>6. rest \in Seq(Byte) /\ IsPayload(rest, DELIMITED, value)
  BY <1>4, <1>5 DEF IsPayload
<1>7. QED
  BY <1>6 DEF rest, V

LEMMA VarintPayload ==
  ASSUME NEW n, Countable(n)
  PROVE  IsPayload(Varint(n), VARINT, Varint(n))
<1>1. Varint(n) \in Seq(Byte) /\ Len(Varint(n)) \in 1 .. 5
  BY VarintType
<1>2. ASSUME NEW bytes \in Seq(Byte), NEW d \in Nat \ {0}, Stands(Varint(n), bytes, d)
      PROVE  /\ Payload(bytes, d, VARINT).last = d + Len(Varint(n)) - 1
             /\ SubSeq(bytes, Payload(bytes, d, VARINT).first, d + Len(Varint(n)) - 1) = Varint(n)
  <2>1. VarintEnd(bytes, d) = d + Len(Varint(n)) - 1
    BY <1>2, VarintRead
  <2>2. Payload(bytes, d, VARINT) = [first |-> d, last |-> VarintEnd(bytes, d)]
    BY DEF Payload, VARINT, DELIMITED
  <2>3. SubSeq(bytes, d, d + Len(Varint(n)) - 1) = Varint(n)
    BY <1>1, <1>2, StandsSubSeq
  <2>4. Payload(bytes, d, VARINT).first = d /\ Payload(bytes, d, VARINT).last = VarintEnd(bytes, d)
    BY <2>2
  <2>5. QED
    BY <2>1, <2>3, <2>4, Zenon
<1>3. QED
  BY <1>2 DEF IsPayload

LEMMA FixedPayload ==
  ASSUME NEW w \in {FIXED32, FIXED64}, NEW value \in Seq(Byte), Len(value) = IF w = FIXED64 THEN 8 ELSE 4
  PROVE  IsPayload(value, w, value)
<1>1. ASSUME NEW bytes \in Seq(Byte), NEW d \in Nat \ {0}, Stands(value, bytes, d)
      PROVE  /\ Payload(bytes, d, w).last = d + Len(value) - 1
             /\ SubSeq(bytes, Payload(bytes, d, w).first, d + Len(value) - 1) = value
  <2>1. Payload(bytes, d, w) = [first |-> d, last |-> IF w = FIXED64 THEN d + 7 ELSE d + 3]
    BY DEF Payload, VARINT, DELIMITED, FIXED64, FIXED32
  <2>2. (IF w = FIXED64 THEN d + 7 ELSE d + 3) = d + Len(value) - 1
    <3>1. CASE w = FIXED64
      BY <3>1
    <3>2. CASE w # FIXED64
      BY <3>2
    <3>3. QED
      BY <3>1, <3>2
  <2>3. SubSeq(bytes, d, d + Len(value) - 1) = value
    BY <1>1, StandsSubSeq
  <2>4. Payload(bytes, d, w).first = d /\ Payload(bytes, d, w).last = IF w = FIXED64 THEN d + 7 ELSE d + 3
    BY <2>1
  <2>5. QED
    BY <2>2, <2>3, <2>4, Zenon
<1>2. QED
  BY <1>1 DEF IsPayload

\* writeBytes(), writeString() and writeUint32() write fields.
LEMMA BytesImage ==
  ASSUME NEW i, IsNumber(i), NEW value \in Seq(Byte), Countable(Len(value))
  PROVE  IsImage(WriteBytes(i, value), Carried(i, DELIMITED, value))
<1>1. DELIMITED \in WireTypes
  BY DEF WireTypes
<1>2. PICK h \in Seq(Byte), m \in Seq(Byte) : h = FieldHeader(i, DELIMITED) /\ m = Varint(Len(value))
  BY <1>1, HeaderType, VarintType
<1>3. WriteBytes(i, value) = (h \o m) \o value
  BY <1>2 DEF WriteBytes
<1>4. Regroup(h, m, value)
  BY Regrouped
<1>5. WriteBytes(i, value) = h \o (m \o value)
  BY <1>3, <1>4 DEF Regroup
<1>6. IsImage(h \o (m \o value), Carried(i, DELIMITED, value))
  BY <1>1, <1>2, DelimitedPayload, FieldImage
<1>7. QED
  BY <1>5, <1>6

LEMMA StringImage ==
  ASSUME NEW i, IsNumber(i), NEW text, EncodeString(text) \in Seq(Byte), Countable(Len(EncodeString(text)))
  PROVE  IsImage(WriteString(i, text), Carried(i, DELIMITED, EncodeString(text)))
<1>1. WriteString(i, text) = WriteBytes(i, EncodeString(text))
  BY DEF WriteString, WriteBytes
<1>2. QED
  BY <1>1, BytesImage

LEMMA NumberImage ==
  ASSUME NEW i, IsNumber(i), NEW n, Countable(n)
  PROVE  IsImage(WriteUint32(i, n), Carried(i, VARINT, Varint(n)))
<1>1. VARINT \in WireTypes /\ Varint(n) \in Seq(Byte)
  BY VarintType DEF WireTypes
<1>2. QED
  BY <1>1, VarintPayload, FieldImage DEF WriteUint32

-----------------------------------------------------------------------------
(* Frames.                                                                 *)

\* The fields of bytes from c on, when f says which follow.
FieldsAt(bytes, f, c) ==
  IF c <= Len(bytes) /\ FieldAt(bytes, c).last \in c .. Len(bytes)
  THEN <<FieldAt(bytes, c)>> \o f[FieldAt(bytes, c).last + 1]
  ELSE <<>>

Reads(bytes, f) == f = [c \in 1 .. Len(bytes) + 1 |-> FieldsAt(bytes, f, c)]

LEMMA ReadsExists ==
  ASSUME NEW bytes \in Seq(Byte)
  PROVE  \E f : Reads(bytes, f)
<1> DEFINE N == Len(bytes)
           Part(n, f) == \A c \in N + 1 - n .. N + 1 : f[c] = FieldsAt(bytes, f, c)
           D == {n \in 0 .. N : \E f : Part(n, f)}
<1>1. N \in Nat
  OBVIOUS
<1>2. 0 \in D
  <2> DEFINE f == [c \in 1 .. N + 1 |-> <<>>]
  <2>1. ASSUME NEW c \in N + 1 - 0 .. N + 1 PROVE f[c] = FieldsAt(bytes, f, c)
    <3>1. c \in 1 .. N + 1 /\ ~(c <= N)
      BY <1>1
    <3>2. QED
      BY <3>1 DEF FieldsAt
  <2> HIDE DEF f
  <2>2. Part(0, f)
    BY <2>1
  <2> HIDE DEF Part
  <2>3. QED
    BY <1>1, <2>2
<1>3. ASSUME NEW n \in 0 .. N - 1, n \in D PROVE n + 1 \in D
  <2>1. PICK f : Part(n, f)
    BY <1>3
  <2>2. PICK s \in 1 .. N : s = N - n
    <3>1. N - n \in 1 .. N
      BY <1>1
    <3>2. QED
      BY <3>1
  <2> DEFINE g == [c \in 1 .. N + 1 |-> IF c > s THEN f[c] ELSE FieldsAt(bytes, f, s)]
  <2>3. ASSUME NEW c \in s .. N + 1 PROVE g[c] = FieldsAt(bytes, g, c)
    <3>1. c \in 1 .. N + 1
      BY <1>1
    <3>2. g[c] = FieldsAt(bytes, f, c)
      <4>1. CASE c > s
        <5>1. c \in N + 1 - n .. N + 1
          BY <1>1, <2>2, <4>1
        <5>2. f[c] = FieldsAt(bytes, f, c)
          BY <2>1, <5>1
        <5>3. QED
          BY <3>1, <4>1, <5>2
      <4>2. CASE ~(c > s)
        <5>1. c = s
          BY <1>1, <4>2
        <5>2. QED
          BY <3>1, <4>2, <5>1
      <4>3. QED
        BY <4>1, <4>2
    <3>3. FieldsAt(bytes, f, c) = FieldsAt(bytes, g, c)
      <4>1. CASE c <= N /\ FieldAt(bytes, c).last \in c .. N
        <5>1. PICK l \in c .. N : l = FieldAt(bytes, c).last
          BY <4>1
        <5>2. l + 1 \in 1 .. N + 1 /\ l + 1 > s
          BY <1>1, <3>1
        <5>3. g[l + 1] = f[l + 1]
          BY <5>2
        <5> HIDE DEF g
        <5>4. QED
          BY <4>1, <5>1, <5>3 DEF FieldsAt
      <4>2. CASE ~(c <= N /\ FieldAt(bytes, c).last \in c .. N)
        BY <4>2 DEF FieldsAt
      <4>3. QED
        BY <4>1, <4>2
    <3>4. QED
      BY <3>2, <3>3
  <2> HIDE DEF g
  <2>4. N + 1 - (n + 1) = s /\ n + 1 \in 0 .. N
    BY <1>1, <2>2
  <2>5. Part(n + 1, g)
    BY <2>3, <2>4
  <2> HIDE DEF Part
  <2>6. QED
    BY <2>4, <2>5
<1> HIDE DEF D
<1>4. 0 .. N \subseteq D
  BY <1>1, <1>2, <1>3, UpTo
<1>5. N \in D
  BY <1>1, <1>4
<1>6. PICK f : Part(N, f)
  BY <1>5 DEF D
<1>7. N + 1 - N = 1
  BY <1>1
<1>8. \A c \in 1 .. N + 1 : f[c] = FieldsAt(bytes, f, c)
  BY <1>6, <1>7
<1> DEFINE g == [c \in 1 .. N + 1 |-> f[c]]
<1>9. ASSUME NEW c \in 1 .. N + 1 PROVE f[c] = FieldsAt(bytes, g, c)
  <2>1. CASE c <= N /\ FieldAt(bytes, c).last \in c .. N
    <3>1. PICK l \in c .. N : l = FieldAt(bytes, c).last
      BY <2>1
    <3>2. l + 1 \in 1 .. N + 1
      BY <1>1
    <3>3. g[l + 1] = f[l + 1]
      BY <3>2
    <3> HIDE DEF g
    <3>4. QED
      BY <1>8, <2>1, <3>1, <3>3 DEF FieldsAt
  <2>2. CASE ~(c <= N /\ FieldAt(bytes, c).last \in c .. N)
    BY <1>8, <2>2 DEF FieldsAt
  <2>3. QED
    BY <2>1, <2>2
<1>10. Reads(bytes, g)
  BY <1>9 DEF Reads
<1> HIDE DEF g
<1>11. QED
  BY <1>10

LEMMA ReadFieldsRead ==
  ASSUME NEW bytes \in Seq(Byte)
  PROVE  \E f : /\ ReadFields(bytes) = f[1]
                /\ \A c \in 1 .. Len(bytes) + 1 : f[c] = FieldsAt(bytes, f, c)
<1>1. PICK f : f = CHOOSE x : Reads(bytes, x)
  OBVIOUS
<1>2. Reads(bytes, f)
  BY <1>1, ReadsExists
<1>3. ReadFields(bytes) = f[1]
  BY <1>1 DEF ReadFields, Reads, FieldsAt
<1>4. \A c \in 1 .. Len(bytes) + 1 : f[c] = FieldsAt(bytes, f, c)
  BY <1>2 DEF Reads
<1>5. QED
  BY <1>3, <1>4

\* The pieces of a frame: the i-th one is how the i-th of the fields is written, or
\* it is empty.
Carries(pieces, w) ==
  /\ pieces \in Seq(Seq(Byte))
  /\ \A i \in 1 .. Len(pieces) : pieces[i] # <<>> => IsImage(pieces[i], w[i])

\* x is the field of the i-th piece.
IsField(x, pieces, w, i) ==
  pieces[i] # <<>> /\ x.number = w[i].number /\ x.wireType = w[i].wireType /\ x.value = w[i].value

\* The fields are those of the pieces from the j-th on that are not empty.
FieldsFrom(fields, pieces, w, j) ==
  /\ \A k \in 1 .. Len(fields) : \E i \in j .. Len(pieces) : IsField(fields[k], pieces, w, i)
  /\ \A i \in j .. Len(pieces) : pieces[i] # <<>> => \E k \in 1 .. Len(fields) : IsField(fields[k], pieces, w, i)

\* A field before others of the pieces behind it.
LEMMA FieldBefore ==
  ASSUME NEW S, NEW x \in S, NEW fields \in Seq(S), NEW pieces, NEW w, Len(pieces) \in Nat,
         NEW j \in 1 .. Len(pieces), IsField(x, pieces, w, j), FieldsFrom(fields, pieces, w, j + 1)
  PROVE  <<x>> \o fields \in Seq(S) /\ FieldsFrom(<<x>> \o fields, pieces, w, j)
<1> DEFINE L == Len(fields)
           M == Len(pieces)
           all == <<x>> \o fields
<1>1. /\ all \in Seq(S) /\ L \in Nat /\ Len(all) = L + 1 /\ all[1] = x
      /\ \A k \in 1 .. L : all[k + 1] = fields[k]
  OBVIOUS
<1> HIDE DEF all
<1>0. M \in Nat /\ j \in 1 .. M
  OBVIOUS
<1>2. ASSUME NEW k \in 1 .. Len(all) PROVE \E i \in j .. M : IsField(all[k], pieces, w, i)
  <2>1. CASE k = 1
    <3>1. j \in j .. M
      BY <1>0
    <3>2. QED
      BY <1>1, <2>1, <3>1
  <2>2. CASE k # 1
    <3>1. PICK m \in 1 .. L : k = m + 1
      <4>1. k - 1 \in 1 .. L /\ k = (k - 1) + 1
        BY <1>1, <2>2
      <4>2. QED
        BY <4>1
    <3>2. all[k] = fields[m]
      BY <1>1, <3>1
    <3>3. PICK i \in j + 1 .. M : IsField(fields[m], pieces, w, i)
      BY DEF FieldsFrom
    <3>4. i \in j .. M
      BY <1>0
    <3>5. QED
      BY <3>2, <3>3, <3>4
  <2>3. QED
    BY <2>1, <2>2
<1>3. ASSUME NEW i \in j .. M, pieces[i] # <<>>
      PROVE  \E k \in 1 .. Len(all) : IsField(all[k], pieces, w, i)
  <2>1. CASE i = j
    <3>1. 1 \in 1 .. Len(all)
      BY <1>1
    <3>2. QED
      BY <1>1, <2>1, <3>1
  <2>2. CASE i # j
    <3>1. i \in j + 1 .. M
      BY <1>0, <2>2
    <3>2. PICK k \in 1 .. L : IsField(fields[k], pieces, w, i)
      BY <1>3, <3>1 DEF FieldsFrom
    <3>3. k + 1 \in 1 .. Len(all) /\ all[k + 1] = fields[k]
      BY <1>1
    <3>4. QED
      BY <3>2, <3>3
  <2>3. QED
    BY <2>1, <2>2
<1> HIDE DEF M
<1>4. FieldsFrom(all, pieces, w, j)
  BY <1>2, <1>3 DEF FieldsFrom, M
<1>5. QED
  BY <1>1, <1>4 DEF all

\* What is read of a frame: a field for each piece that is not empty, and no other.
LEMMA FrameRead ==
  ASSUME NEW pieces, NEW w, Carries(pieces, w)
  PROVE  /\ \E S : ReadFields(FlattenSeq(pieces)) \in Seq(S)
         /\ FieldsFrom(ReadFields(FlattenSeq(pieces)), pieces, w, 1)
<1> DEFINE bytes == FlattenSeq(pieces)
           N == Len(bytes)
           M == Len(pieces)
           S == {FieldAt(bytes, c) : c \in 1 .. N}
<1>1. pieces \in Seq(Seq(Byte)) /\ M \in Nat
  BY DEF Carries
<1>2. \A i \in 1 .. M : pieces[i] # <<>> => IsImage(pieces[i], w[i])
  BY DEF Carries
<1>3. PICK e : Chain(e, pieces, Byte)
  BY <1>1, ChainExists
<1>4. bytes = e[M]
  BY <1>1, <1>3, ChainEnd
<1>5. \A j \in 0 .. M : e[j] \in Seq(Byte)
  BY <1>3 DEF Chain
<1>6. bytes \in Seq(Byte) /\ N \in Nat
  <2>1. M \in 0 .. M
    BY <1>1
  <2>2. bytes \in Seq(Byte)
    BY <1>4, <1>5, <2>1
  <2>3. QED
    BY <2>2
<1>7. ASSUME NEW j \in 0 .. M - 1
      PROVE  e[j + 1] = e[j] \o pieces[j + 1] /\ pieces[j + 1] \in Seq(Byte) /\ e[j] \in Seq(Byte)
  <2>1. j + 1 \in 1 .. M /\ (j + 1) - 1 = j /\ j \in 0 .. M
    BY <1>1
  <2>2. pieces[j + 1] \in Seq(Byte)
    BY <1>1, <2>1, ElementOfSeq
  <2>3. e[j + 1] = e[j] \o pieces[j + 1]
    BY <1>3, <2>1 DEF Chain
  <2>4. QED
    BY <1>5, <2>1, <2>2, <2>3
<1> HIDE DEF bytes
<1> DEFINE P == {j \in 0 .. M : Stands(e[j], bytes, 1)}
<1>8. M \in P
  <2>1. 1 + N - 1 <= N /\ \A k \in 1 .. N : bytes[1 + k - 1] = bytes[k]
    BY <1>6
  <2>2. Stands(bytes, bytes, 1)
    BY <2>1 DEF Stands
  <2>3. M \in 0 .. M
    BY <1>1
  <2>4. QED
    BY <1>4, <2>2, <2>3
<1>9. ASSUME NEW j \in 0 .. M - 1, j + 1 \in P
      PROVE  Stands(e[j], bytes, 1) /\ Stands(pieces[j + 1], bytes, 1 + Len(e[j]))
  <2>1. PICK u \in Seq(Byte), v \in Seq(Byte) : u = e[j] /\ v = pieces[j + 1]
    BY <1>7
  <2>2. Stands(u \o v, bytes, 1)
    BY <1>7, <1>9, <2>1
  <2>3. 1 \in Nat \ {0}
    OBVIOUS
  <2>4. QED
    BY <1>6, <2>1, <2>2, <2>3, StandsConcat
<1>10. 0 .. M \subseteq P
  <2>1. ASSUME NEW j \in 0 .. M - 1, j + 1 \in P PROVE j \in P
    <3>1. j \in 0 .. M
      BY <1>1
    <3>2. QED
      BY <1>9, <2>1, <3>1
  <2> HIDE DEF P, M
  <2>2. QED
    BY <1>1, <1>8, <2>1, DownFrom
<1> HIDE DEF P
<1>11. ASSUME NEW j \in 0 .. M - 1 PROVE Stands(pieces[j + 1], bytes, 1 + Len(e[j]))
  <2>1. j + 1 \in 0 .. M
    BY <1>1
  <2>2. QED
    BY <1>9, <1>10, <2>1
<1>12. PICK f : /\ ReadFields(bytes) = f[1]
                /\ \A c \in 1 .. N + 1 : f[c] = FieldsAt(bytes, f, c)
  BY <1>6, ReadFieldsRead
<1> DEFINE R == {j \in 0 .. M : f[Len(e[j]) + 1] \in Seq(S) /\ FieldsFrom(f[Len(e[j]) + 1], pieces, w, j + 1)}
<1>13. M \in R
  <2>1. f[N + 1] = FieldsAt(bytes, f, N + 1) /\ ~(N + 1 <= N)
    BY <1>6, <1>12
  <2>2. f[N + 1] = <<>>
    BY <2>1 DEF FieldsAt
  <2>3. <<>> \in Seq(S) /\ Len(<<>>) = 0 /\ \A i : i \notin M + 1 .. M
    BY <1>1
  <2>4. \A k : k \notin 1 .. 0
    OBVIOUS
  <2>5. FieldsFrom(<<>>, pieces, w, M + 1)
    BY <2>3, <2>4 DEF FieldsFrom
  <2>6. M \in 0 .. M /\ f[Len(e[M]) + 1] = <<>>
    BY <1>1, <1>4, <2>2
  <2> HIDE DEF S
  <2>7. QED
    BY <2>3, <2>5, <2>6
<1>14. ASSUME NEW j \in 0 .. M - 1, j + 1 \in R PROVE j \in R
  <2>1. j \in 0 .. M /\ j + 1 \in 1 .. M /\ (j + 1) + 1 = j + 2
    BY <1>1
  <2>2. e[j + 1] = e[j] \o pieces[j + 1] /\ pieces[j + 1] \in Seq(Byte) /\ e[j] \in Seq(Byte)
    BY <1>7
  <2>3. f[Len(e[j + 1]) + 1] \in Seq(S) /\ FieldsFrom(f[Len(e[j + 1]) + 1], pieces, w, (j + 1) + 1)
    BY <1>14
  <2>4. PICK m \in 1 .. M : m = j + 1
    BY <2>1
  <2>5. CASE pieces[m] = <<>>
    <3>1. e[j + 1] = e[j]
      BY <2>2, <2>4, <2>5, ConcatEmptySeq
    <3>2. FieldsFrom(f[Len(e[j]) + 1], pieces, w, m + 1)
      BY <2>3, <2>4, <3>1
    <3>3. \A i \in m .. M : i = m \/ i \in m + 1 .. M
      BY <1>1
    <3>4. \A i \in m + 1 .. M : i \in m .. M
      BY <1>1
    <3>5. FieldsFrom(f[Len(e[j]) + 1], pieces, w, m)
      BY <2>5, <3>2, <3>3, <3>4 DEF FieldsFrom
    <3>6. QED
      BY <2>1, <2>3, <2>4, <3>1, <3>5
  <2>6. CASE pieces[m] # <<>>
    <3>1. IsImage(pieces[m], w[m])
      BY <1>2, <2>6
    <3>2. PICK v \in Seq(Byte) : v = pieces[m] /\ Len(v) >= 1
      BY <3>1 DEF IsImage
    <3>3. PICK c \in Nat \ {0}, l \in Nat \ {0} : c = 1 + Len(e[j]) /\ l = Len(v)
      BY <2>2, <3>2
    <3>4. Stands(v, bytes, c)
      BY <1>11, <2>4, <3>2, <3>3
    <3>5. c + l - 1 <= N
      BY <3>3, <3>4 DEF Stands
    <3>6. FieldAt(bytes, c) = [number |-> w[m].number, wireType |-> w[m].wireType, value |-> w[m].value,
                               last |-> c + l - 1]
      BY <1>6, <3>1, <3>2, <3>3, <3>4 DEF IsImage
    <3>7. PICK x : x = FieldAt(bytes, c)
      OBVIOUS
    <3>8. IsField(x, pieces, w, m) /\ x.last = c + l - 1
      BY <2>6, <3>6, <3>7 DEF IsField
    <3>9. c \in 1 .. N /\ c <= N /\ x.last \in c .. N /\ x.last + 1 = c + l /\ c \in 1 .. N + 1
      <4>1. PICK y \in Nat : y = c + l - 1
        OBVIOUS
      <4>2. c \in 1 .. N /\ c <= N /\ y \in c .. N /\ y + 1 = c + l /\ c \in 1 .. N + 1
        BY <1>6, <3>5, <4>1
      <4>3. QED
        BY <3>8, <4>1, <4>2
    <3>10. x \in S
      BY <3>7, <3>9
    <3>11. Len(e[j + 1]) + 1 = c + l
      <4>1. Len(e[j + 1]) = Len(e[j]) + Len(pieces[j + 1])
        BY <2>2, ConcatProperties
      <4>2. PICK n \in Nat : n = Len(e[j])
        BY <2>2
      <4>3. Len(e[j + 1]) = n + l
        BY <2>4, <3>2, <3>3, <4>1, <4>2
      <4>4. c = 1 + n
        BY <3>3, <4>2, Zenon
      <4>5. (n + l) + 1 = c + l
        BY <4>4
      <4>6. QED
        BY <4>3, <4>5, Zenon
    <3>12. f[c] = <<x>> \o f[c + l]
      BY <1>12, <3>7, <3>9 DEF FieldsAt
    <3> HIDE DEF S
    <3>13. f[c + l] \in Seq(S) /\ FieldsFrom(f[c + l], pieces, w, m + 1)
      BY <2>3, <2>4, <3>11
    <3>14. f[c] \in Seq(S) /\ FieldsFrom(f[c], pieces, w, m)
      BY <1>1, <3>8, <3>10, <3>12, <3>13, FieldBefore
    <3>15. Len(e[j]) + 1 = c
      BY <2>2, <3>3
    <3>16. QED
      BY <2>1, <2>4, <3>14, <3>15
  <2>7. QED
    BY <2>5, <2>6
<1> HIDE DEF R
<1>15. 0 .. M \subseteq R
  <2> HIDE DEF M
  <2>1. QED
    BY <1>1, <1>13, <1>14, DownFrom
<1>16. 0 \in R
  BY <1>1, <1>15
<1>17. e[0] = <<>> /\ Len(<<>>) = 0
  BY <1>3 DEF Chain
<1>18. f[0 + 1] \in Seq(S) /\ FieldsFrom(f[0 + 1], pieces, w, 0 + 1)
  BY <1>16, <1>17 DEF R
<1>19. 0 + 1 = 1
  OBVIOUS
<1> HIDE DEF S
<1>20. QED
  BY <1>12, <1>18, <1>19 DEF bytes

\* The pieces are of a class with the fields 1 to M, and of no other field with one
\* of these numbers.
IsFrame(pieces, w, M) ==
  /\ Carries(pieces, w)
  /\ M \in Nat /\ M <= Len(pieces)
  /\ \A i \in 1 .. M : w[i].number = i
  /\ \A i \in M + 1 .. Len(pieces) : pieces[i] # <<>> => w[i].number \notin 1 .. M

\* Of each of its fields the class finds what was written, if it was, and nothing
\* that is written for another.
Finds(fields, pieces, w, M) ==
  /\ \A k \in DOMAIN fields : fields[k].number \in 1 .. M => fields[k].wireType = w[fields[k].number].wireType
  /\ \A i \in 1 .. M : HasField(fields, i) <=> pieces[i] # <<>>
  /\ \A i \in 1 .. M : pieces[i] # <<>> => /\ LastField(fields, i).number = i
                                           /\ LastField(fields, i).value = w[i].value

LEMMA FrameFields ==
  ASSUME NEW pieces, NEW w, NEW M, IsFrame(pieces, w, M), NEW fields, fields = ReadFields(FlattenSeq(pieces))
  PROVE  Finds(fields, pieces, w, M)
<1>0. /\ Carries(pieces, w) /\ M \in Nat /\ M <= Len(pieces)
      /\ \A i \in 1 .. M : w[i].number = i
      /\ \A i \in M + 1 .. Len(pieces) : pieces[i] # <<>> => w[i].number \notin 1 .. M
  BY DEF IsFrame
<1>1. PICK S : fields \in Seq(S)
  BY <1>0, FrameRead
<1>2. FieldsFrom(fields, pieces, w, 1)
  BY <1>0, FrameRead
<1>3. DOMAIN fields = 1 .. Len(fields) /\ Len(fields) \in Nat /\ Len(pieces) \in Nat
  BY <1>0, <1>1 DEF Carries
<1>4. ASSUME NEW k \in DOMAIN fields, fields[k].number \in 1 .. M
      PROVE  IsField(fields[k], pieces, w, fields[k].number)
  <2>1. PICK i \in 1 .. Len(pieces) : IsField(fields[k], pieces, w, i)
    BY <1>2, <1>3 DEF FieldsFrom
  <2>2. fields[k].number = w[i].number /\ pieces[i] # <<>>
    BY <2>1 DEF IsField
  <2>3. i \in 1 .. M \/ i \in M + 1 .. Len(pieces)
    BY <1>0, <1>3
  <2>4. i \in 1 .. M
    BY <1>0, <1>4, <2>2, <2>3
  <2>5. QED
    BY <1>0, <2>1, <2>2, <2>4
<1>5. ASSUME NEW i \in 1 .. M, pieces[i] # <<>> PROVE HasField(fields, i)
  <2>1. i \in 1 .. Len(pieces)
    BY <1>0, <1>3
  <2>2. PICK k \in 1 .. Len(fields) : IsField(fields[k], pieces, w, i)
    BY <1>2, <1>5, <2>1 DEF FieldsFrom
  <2>3. k \in DOMAIN fields /\ fields[k].number = i
    BY <1>0, <1>3, <2>2 DEF IsField
  <2>4. QED
    BY <2>3 DEF HasField
<1>6. ASSUME NEW i \in 1 .. M, HasField(fields, i) PROVE pieces[i] # <<>>
  <2>1. PICK k \in DOMAIN fields : fields[k].number = i
    BY <1>6 DEF HasField
  <2>2. QED
    BY <1>4, <2>1 DEF IsField
<1>7. ASSUME NEW i \in 1 .. M, pieces[i] # <<>>
      PROVE  LastField(fields, i).number = i /\ LastField(fields, i).value = w[i].value
  <2> DEFINE K == {k \in DOMAIN fields : fields[k].number = i}
  <2>1. K \subseteq 0 .. Len(fields) /\ K # {}
    <3>1. PICK k \in DOMAIN fields : fields[k].number = i
      BY <1>5, <1>7 DEF HasField
    <3>2. k \in K
      BY <3>1
    <3>3. \A j \in DOMAIN fields : j \in 0 .. Len(fields)
      BY <1>3
    <3>4. QED
      BY <3>2, <3>3
  <2>2. Max(K) \in K
    BY <1>3, <2>1, LastNumber
  <2>3. PICK m \in DOMAIN fields : m = Max(K) /\ fields[m].number = i
    BY <2>2
  <2>4. LastField(fields, i) = fields[m]
    BY <2>3 DEF LastField
  <2>5. IsField(fields[m], pieces, w, i)
    BY <1>4, <2>3
  <2>6. QED
    BY <2>3, <2>4, <2>5 DEF IsField
<1>8. ASSUME NEW k \in DOMAIN fields, fields[k].number \in 1 .. M
      PROVE  fields[k].wireType = w[fields[k].number].wireType
  BY <1>4, <1>8 DEF IsField
<1>9. QED
  BY <1>5, <1>6, <1>7, <1>8 DEF Finds

-----------------------------------------------------------------------------
(* The class of the web page.                                              *)

\* The nine texts of a message, of which each can be counted in bytes.
MostUnits == 536870911

Short == {text \in Seq(Unit) : Len(text) <= MostUnits}

Written(t) == t \in [1 .. 9 -> Short]

\* Their fields, and how they are written.
Fields(t) == [i \in 1 .. 9 |-> Carried(i, DELIMITED, EncodeString(t[i]))]

Pieces(t) == [i \in 1 .. 9 |-> IF t[i] # <<>> THEN WriteString(i, t[i]) ELSE <<>>]

Frame(t) == FlattenSeq(Pieces(t))

LEMMA ReceivedShort ==
  ASSUME NEW text \in Short
  PROVE  Received(text) \in Short
<1>1. text \in Seq(Unit) /\ Len(text) <= MostUnits
  BY DEF Short
<1>2. Received(text) \in Seq(Unit) /\ Len(Received(text)) <= Len(text)
  BY <1>1, ReceivedType
<1>3. Len(Received(text)) <= MostUnits
  BY <1>1, <1>2, SMT DEF MostUnits
<1>4. QED
  BY <1>2, <1>3 DEF Short

LEMMA TextWritten ==
  ASSUME NEW t, Written(t), NEW i \in 1 .. 9
  PROVE  /\ t[i] \in Seq(Unit) /\ EncodeString(t[i]) \in Seq(Byte)
         /\ Countable(Len(EncodeString(t[i])))
         /\ DecodeString(EncodeString(t[i])) = Received(t[i])
<1>1. t[i] \in Seq(Unit) /\ Len(t[i]) <= MostUnits
  <2>1. t[i] \in Short
    BY DEF Written
  <2>2. QED
    BY <2>1 DEF Short
<1>2. ReadAs(EncodeString(t[i]), Received(t[i])) /\ Len(EncodeString(t[i])) <= 4 * Len(t[i])
  BY <1>1, TextRead
<1>3. EncodeString(t[i]) \in Seq(Byte) /\ DecodeString(EncodeString(t[i])) = Received(t[i])
  BY <1>2 DEF ReadAs
<1>4. Countable(Len(EncodeString(t[i])))
  <2>1. PICK l \in Nat, m \in Nat : l = Len(t[i]) /\ m = Len(EncodeString(t[i]))
    BY <1>1, <1>3
  <2>2. l <= 536870911 /\ m <= 4 * l
    BY <1>1, <1>2, <2>1, SMT DEF MostUnits
  <2>3. m < 2147483648
    BY <2>2, SMT
  <2>4. QED
    BY <2>1, <2>3, SMT DEF Countable
<1>5. QED
  BY <1>1, <1>3, <1>4

LEMMA PiecesCarry ==
  ASSUME NEW t, Written(t)
  PROVE  /\ Carries(Pieces(t), Fields(t)) /\ Len(Pieces(t)) = 9
         /\ \A i \in 1 .. 9 : Pieces(t)[i] # <<>> <=> t[i] # <<>>
<1>1. ASSUME NEW i \in 1 .. 9, t[i] # <<>>
      PROVE  IsImage(WriteString(i, t[i]), Fields(t)[i])
  <2>1. EncodeString(t[i]) \in Seq(Byte) /\ Countable(Len(EncodeString(t[i])))
    BY TextWritten
  <2>2. IsNumber(i)
    BY SMT DEF IsNumber
  <2>3. IsImage(WriteString(i, t[i]), Carried(i, DELIMITED, EncodeString(t[i])))
    BY <2>1, <2>2, StringImage
  <2>4. QED
    BY <2>3 DEF Fields
<1>2. \A i \in 1 .. 9 : t[i] # <<>> => WriteString(i, t[i]) \in Seq(Byte) /\ WriteString(i, t[i]) # <<>>
  <2>1. ASSUME NEW i \in 1 .. 9, t[i] # <<>>
        PROVE  WriteString(i, t[i]) \in Seq(Byte) /\ Len(WriteString(i, t[i])) >= 1
    BY <1>1, <2>1 DEF IsImage
  <2>2. Len(<<>>) = 0
    OBVIOUS
  <2>3. QED
    BY <2>1, <2>2
<1> DEFINE pieces == Pieces(t)
<1>3. \A i \in 1 .. 9 : pieces[i] = IF t[i] # <<>> THEN WriteString(i, t[i]) ELSE <<>>
  BY DEF Pieces
<1>4. pieces \in Seq(Seq(Byte)) /\ Len(pieces) = 9
  <2>1. \A i \in 1 .. 9 : (IF t[i] # <<>> THEN WriteString(i, t[i]) ELSE <<>>) \in Seq(Byte)
    BY <1>2
  <2>2. QED
    BY <2>1 DEF Pieces
<1> HIDE DEF pieces
<1>5. \A i \in 1 .. 9 : pieces[i] # <<>> <=> t[i] # <<>>
  BY <1>2, <1>3
<1>6. \A i \in 1 .. Len(pieces) : pieces[i] # <<>> => IsImage(pieces[i], Fields(t)[i])
  BY <1>1, <1>3, <1>4, <1>5
<1>7. Carries(pieces, Fields(t))
  BY <1>4, <1>6 DEF Carries
<1>8. QED
  BY <1>4, <1>5, <1>7 DEF pieces

LEMMA NamesOf == DOMAIN Names = 1 .. 9
  BY DEF Names

LEMMA NumberOfName ==
  ASSUME NEW i \in 1 .. 9
  PROVE  NumberOf(Names[i]) = i
<1>1. \A j \in 1 .. 9 : Names[j] = Names[i] => j = i
  BY DEF Names
<1>2. QED
  BY <1>1, NamesOf DEF NumberOf

\* The texts that are written for a message.
TextsOf(msg) == [i \in 1 .. 9 |-> IF msg[i] = None THEN <<>> ELSE msg[i]]

LEMMA SerializedFrame ==
  ASSUME NEW msg, Written(TextsOf(msg))
  PROVE  SerializeBinary(msg) = Frame(TextsOf(msg))
<1>1. ASSUME NEW i \in 1 .. 9
      PROVE  /\ Get(msg, Names[i]) = TextsOf(msg)[i]
             /\ Len(Get(msg, Names[i])) > 0 <=> Get(msg, Names[i]) # <<>>
  <2>1. Get(msg, Names[i]) = TextsOf(msg)[i]
    BY NumberOfName DEF Get, GetFieldWithDefault, TextsOf
  <2>2. PICK text \in Seq(Unit) : text = TextsOf(msg)[i]
    BY TextWritten
  <2>3. Len(text) > 0 <=> text # <<>>
    OBVIOUS
  <2>4. QED
    BY <2>1, <2>2, <2>3
<1>2. [i \in DOMAIN Names |-> LET f == Get(msg, Names[i]) IN IF Len(f) > 0 THEN WriteString(i, f) ELSE <<>>]
        = Pieces(TextsOf(msg))
  BY <1>1, NamesOf DEF Pieces
<1>3. QED
  BY <1>2 DEF SerializeBinary, SerializeBinaryToWriter, Frame

\* What is read of a frame into a message: the texts of the frame, and for the
\* empty ones what the message has.  A newer writer may have added a field that
\* the class does not know.
IsTail(tail, x) == tail # <<>> => IsImage(tail, x) /\ x.number \notin 1 .. 9

Into(msg, t) == [i \in 1 .. 9 |-> IF t[i] # <<>> THEN Received(t[i]) ELSE msg[i]]

\* What the class finds of its texts.
FindsTexts(fields, t) ==
  /\ \A k \in DOMAIN fields : fields[k].number \in 1 .. 9 => fields[k].wireType = DELIMITED
  /\ \A i \in 1 .. 9 : HasField(fields, i) <=> t[i] # <<>>
  /\ \A i \in 1 .. 9 : t[i] # <<>> => DecodeString(LastField(fields, i).value) = Received(t[i])

LEMMA TextsFound ==
  ASSUME NEW t, Written(t), NEW tail \in Seq(Byte), NEW x, IsTail(tail, x)
  PROVE  FindsTexts(ReadFields(Frame(t) \o tail), t)
<1> DEFINE pieces == Append(Pieces(t), tail)
           w == [i \in 1 .. 10 |-> IF i = 10 THEN x ELSE Fields(t)[i]]
<1>1. Carries(Pieces(t), Fields(t)) /\ Len(Pieces(t)) = 9
  BY PiecesCarry
<1>2. Pieces(t) \in Seq(Seq(Byte))
  BY <1>1 DEF Carries
<1>3. FlattenSeq(pieces) = Frame(t) \o tail
  BY <1>2, FlattenAppend DEF Frame
<1>4. pieces \in Seq(Seq(Byte)) /\ Len(pieces) = 10 /\ pieces[10] = tail /\ \A i \in 1 .. 9 : pieces[i] = Pieces(t)[i]
  <2>1. PICK p \in Seq(Seq(Byte)) : p = Pieces(t) /\ Len(p) = 9
    BY <1>1, <1>2
  <2>2. /\ Append(p, tail) \in Seq(Seq(Byte)) /\ Len(Append(p, tail)) = 10 /\ Append(p, tail)[10] = tail
        /\ \A i \in 1 .. 9 : Append(p, tail)[i] = p[i]
    <3>1. /\ Append(p, tail) \in Seq(Seq(Byte)) /\ Len(Append(p, tail)) = Len(p) + 1
          /\ \A i \in 1 .. Len(p) : Append(p, tail)[i] = p[i]
          /\ Append(p, tail)[Len(p) + 1] = tail
      BY AppendProperties
    <3>2. Len(p) + 1 = 10
      BY <2>1
    <3>3. QED
      BY <2>1, <3>1, <3>2
  <2>3. QED
    BY <2>1, <2>2
<1> HIDE DEF pieces
<1>5. w[10] = x /\ \A i \in 1 .. 9 : w[i] = Fields(t)[i]
  OBVIOUS
<1> HIDE DEF w
<1>6. \A i \in 1 .. 10 : i = 10 \/ i \in 1 .. 9
  OBVIOUS
<1>7. Carries(pieces, w)
  BY <1>1, <1>4, <1>5, <1>6 DEF Carries, IsTail
<1>8. \A i \in 1 .. 9 : w[i].number = i /\ w[i].wireType = DELIMITED /\ w[i].value = EncodeString(t[i])
  BY <1>5 DEF Fields, Carried
<1>9. \A i \in 9 + 1 .. Len(pieces) : pieces[i] # <<>> => w[i].number \notin 1 .. 9
  <2>1. \A i \in 9 + 1 .. 10 : i = 10
    OBVIOUS
  <2>2. QED
    BY <1>4, <1>5, <2>1 DEF IsTail
<1>10. PICK fields : fields = ReadFields(FlattenSeq(pieces))
  OBVIOUS
<1>11. IsFrame(pieces, w, 9)
  <2>1. 9 \in Nat /\ 9 <= Len(pieces)
    BY <1>4
  <2>2. \A i \in 1 .. 9 : w[i].number = i
    BY <1>8
  <2>3. QED
    BY <1>7, <1>9, <2>1, <2>2 DEF IsFrame
<1>12. /\ \A k \in DOMAIN fields : fields[k].number \in 1 .. 9 => fields[k].wireType = w[fields[k].number].wireType
       /\ \A i \in 1 .. 9 : HasField(fields, i) <=> pieces[i] # <<>>
       /\ \A i \in 1 .. 9 : pieces[i] # <<>> => /\ LastField(fields, i).number = i
                                                /\ LastField(fields, i).value = w[i].value
  <2>1. Finds(fields, pieces, w, 9)
    BY <1>10, <1>11, FrameFields
  <2>2. QED
    BY <2>1 DEF Finds
<1>13. \A k \in DOMAIN fields : fields[k].number \in 1 .. 9 => fields[k].wireType = DELIMITED
  BY <1>8, <1>12
<1>14. \A i \in 1 .. 9 : HasField(fields, i) <=> t[i] # <<>>
  BY <1>4, <1>12, PiecesCarry
<1>15. ASSUME NEW i \in 1 .. 9, t[i] # <<>> PROVE DecodeString(LastField(fields, i).value) = Received(t[i])
  <2>1. LastField(fields, i).value = EncodeString(t[i])
    BY <1>8, <1>12, <1>14, <1>15
  <2>2. QED
    BY <2>1, TextWritten
<1>16. FindsTexts(fields, t)
  BY <1>13, <1>14, <1>15 DEF FindsTexts
<1>17. QED
  BY <1>3, <1>10, <1>16

LEMMA FoundInto ==
  ASSUME NEW frame, NEW t, FindsTexts(ReadFields(frame), t), NEW msg
  PROVE  DeserializeBinaryFromReader(msg, frame) = Into(msg, t)
<1>1. PICK fields : fields = ReadFields(frame)
  OBVIOUS
<1>2. /\ \A k \in DOMAIN fields : fields[k].number \in 1 .. 9 => fields[k].wireType = DELIMITED
      /\ \A i \in 1 .. 9 : HasField(fields, i) <=> t[i] # <<>>
      /\ \A i \in 1 .. 9 : t[i] # <<>> => DecodeString(LastField(fields, i).value) = Received(t[i])
  BY <1>1 DEF FindsTexts
<1>3. DeserializeBinaryFromReader(msg, frame)
        = [i \in 1 .. 9 |-> IF HasField(fields, i) THEN DecodeString(LastField(fields, i).value) ELSE msg[i]]
  BY <1>1, <1>2, NamesOf DEF DeserializeBinaryFromReader
<1>4. QED
  BY <1>2, <1>3 DEF Into

LEMMA ReadInto ==
  ASSUME NEW t, Written(t), NEW tail \in Seq(Byte), NEW x, IsTail(tail, x), NEW msg
  PROVE  DeserializeBinaryFromReader(msg, Frame(t) \o tail) = Into(msg, t)
  BY TextsFound, FoundInto

LEMMA FrameType ==
  ASSUME NEW t, Written(t)
  PROVE  Frame(t) \in Seq(Byte)
<1>1. Pieces(t) \in Seq(Seq(Byte))
  BY PiecesCarry DEF Carries
<1>2. QED
  BY <1>1, FlattenType DEF Frame

LEMMA FrameTexts ==
  ASSUME NEW t, Written(t)
  PROVE  FindsTexts(ReadFields(Frame(t)), t)
<1>1. PICK tail \in Seq(Byte) : tail = <<>> /\ IsTail(tail, 0)
  <2>1. <<>> \in Seq(Byte)
    OBVIOUS
  <2>2. IsTail(<<>>, 0)
    BY DEF IsTail
  <2>3. QED
    BY <2>1, <2>2
<1>2. Frame(t) \o tail = Frame(t)
  BY <1>1, FrameType, ConcatEmptySeq
<1>3. FindsTexts(ReadFields(Frame(t) \o tail), t)
  BY <1>1, TextsFound
<1>4. QED
  BY <1>2, <1>3

LEMMA ReadWhole ==
  ASSUME NEW t, Written(t), NEW msg
  PROVE  DeserializeBinaryFromReader(msg, Frame(t)) = Into(msg, t)
  BY FrameTexts, FoundInto

\* The texts that are read of a frame into a new message.
LEMMA Deserialized ==
  ASSUME NEW t, Written(t)
  PROVE  DeserializeBinary(Frame(t)) = [i \in 1 .. 9 |-> IF t[i] # <<>> THEN Received(t[i]) ELSE None]
<1>1. \A i \in 1 .. 9 : New[i] = None
  BY NamesOf DEF New
<1>2. DeserializeBinary(Frame(t)) = [i \in 1 .. 9 |-> IF t[i] # <<>> THEN Received(t[i]) ELSE New[i]]
  BY ReadWhole DEF DeserializeBinary, Into
<1>3. QED
  BY <1>1, <1>2

\* The round trip of a message: its reader gets, as an object, the texts as they
\* could be written, and an empty text for one that is not there.
THEOREM RoundTrip ==
  ASSUME NEW msg, Written(TextsOf(msg)), NEW name \in Range(Names), None \notin Short
  PROVE  Get(DeserializeBinary(SerializeBinary(msg)), name) = Received(Get(msg, name))
<1> DEFINE t == TextsOf(msg)
<1>1. PICK i \in 1 .. 9 : name = Names[i]
  BY NamesOf DEF Range
<1>2. NumberOf(name) = i
  BY <1>1, NumberOfName
<1>3. Get(msg, name) = t[i]
  BY <1>2 DEF Get, GetFieldWithDefault, TextsOf
<1>4. SerializeBinary(msg) = Frame(t)
  BY SerializedFrame
<1> HIDE DEF t
<1>5. Written(t)
  BY DEF t
<1>6. DeserializeBinary(Frame(t))[i] = IF t[i] # <<>> THEN Received(t[i]) ELSE None
  BY <1>5, Deserialized
<1>7. Received(<<>>) = <<>>
  BY ReceivedNothing
<1>8. Received(t[i]) # None
  <2>1. t[i] \in Short
    BY <1>5 DEF Written
  <2>2. Received(t[i]) \in Short
    BY <2>1, ReceivedShort
  <2>3. QED
    BY <2>2
<1>9. Get(DeserializeBinary(Frame(t)), name) = Received(t[i])
  BY <1>2, <1>6, <1>7, <1>8 DEF Get, GetFieldWithDefault
<1>10. QED
  BY <1>3, <1>4, <1>9

=============================================================================
