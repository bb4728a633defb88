-------------------------- MODULE WatchCodecProofs --------------------------
(***************************************************************************)
(* What is proved about the text protocol of the watches, for any messages *)
(* and noise: the decoders fire what was encoded, at once.                 *)
(***************************************************************************)
EXTENDS WatchCodec, FiniteSetTheorems, WellFoundedInduction, SequenceTheorems, TLAPS

-----------------------------------------------------------------------------
(* Positions.                                                              *)

\* A set of natural numbers that is not empty has a least element.
LEMMA LeastElement ==
  ASSUME NEW S, S \subseteq Nat, S # {}
  PROVE  \E n \in S : \A k \in S : n <= k
<1>1. PICK n \in S : \A k \in S : ~(<<k, n>> \in OpToRel(<, Nat))
  BY NatLessThanWellFounded, WFMin
<1>2. \A k \in S : ~(k < n)
  BY <1>1 DEF OpToRel
<1>3. QED
  BY <1>2

LEMMA GreatestElement ==
  ASSUME NEW n \in Nat, NEW S, S \subseteq 0 .. n, S # {}
  PROVE  \E k \in S : \A j \in S : j <= k
<1> DEFINE T == {d \in 0 .. n : n - d \in S}
<1>1. T \subseteq Nat /\ T # {}
  <2>1. PICK k \in S : TRUE
    OBVIOUS
  <2>2. k \in 0 .. n /\ n - k \in 0 .. n /\ n - (n - k) = k
    OBVIOUS
  <2>3. n - k \in T
    BY <2>2
  <2>4. T \subseteq Nat
    OBVIOUS
  <2>5. QED
    BY <2>3, <2>4
<1>2. PICK d \in T : \A e \in T : d <= e
  BY <1>1, LeastElement
<1>3. n - d \in S /\ d \in 0 .. n
  OBVIOUS
<1>4. ASSUME NEW j \in S PROVE j <= n - d
  <2>1. j \in 0 .. n /\ n - j \in 0 .. n /\ n - (n - j) = j
    OBVIOUS
  <2>2. d <= n - j
    BY <1>2, <2>1
  <2>3. QED
    BY <1>3, <2>1, <2>2
<1>5. QED
  BY <1>3, <1>4

LEMMA IndexOfFact ==
  ASSUME NEW str \in Text, NEW symbol
  PROVE  /\ IndexOf(str, symbol) \in 0 .. Len(str)
         /\ IndexOf(str, symbol) # 0 => str[IndexOf(str, symbol)] = symbol
         /\ IndexOf(str, symbol) # 0 => \A i \in 1 .. IndexOf(str, symbol) - 1 : str[i] # symbol
         /\ IndexOf(str, symbol) = 0 => \A i \in 1 .. Len(str) : str[i] # symbol
<1>1. PICK n \in Nat : n = IndexOf(str, symbol) /\ IF \E i \in 1 .. Len(str) : str[i] = symbol
                         THEN /\ n \in 1 .. Len(str) /\ str[n] = symbol
                              /\ \A i \in 1 .. Len(str) : str[i] = symbol => n <= i
                         ELSE n = 0
  <2> DEFINE I == {i \in 1 .. Len(str) : str[i] = symbol}
  <2>1. IndexOf(str, symbol) = IF I # {} THEN Min(I) ELSE 0
    BY DEF IndexOf, SelectInSeq
  <2>2. Len(str) \in Nat /\ I \subseteq Nat
    BY DEF Text
  <2>3. \A i : i \in I <=> i \in 1 .. Len(str) /\ str[i] = symbol
    OBVIOUS
  <2> HIDE DEF I
  <2>4. ASSUME I # {} PROVE Min(I) \in I /\ \A k \in I : Min(I) <= k
    <3>1. \E n \in I : \A k \in I : n <= k
      BY <2>2, <2>4, LeastElement
    <3>2. QED
      BY <3>1 DEF Min
  <2>5. CASE I = {}
    BY <2>1, <2>3, <2>5
  <2>6. CASE I # {}
    BY <2>1, <2>2, <2>3, <2>4, <2>6
  <2>7. QED
    BY <2>5, <2>6
<1>2. Len(str) \in Nat
  BY DEF Text
<1>3. QED
  BY <1>1, <1>2

LEMMA IndexOfIs ==
  ASSUME NEW str \in Text, NEW symbol, NEW n \in 1 .. Len(str), str[n] = symbol,
         \A i \in 1 .. n - 1 : str[i] # symbol
  PROVE  IndexOf(str, symbol) = n
<1>1. Len(str) \in Nat
  BY DEF Text
<1>2. QED
  BY <1>1, IndexOfFact

LEMMA NoIndexOf ==
  ASSUME NEW str \in Text, NEW symbol, \A i \in 1 .. Len(str) : str[i] # symbol
  PROVE  IndexOf(str, symbol) = 0
<1>1. Len(str) \in Nat
  BY DEF Text
<1>2. QED
  BY <1>1, IndexOfFact

\* The number of cut i, counted from the left.
Rank(cuts, i) == Cardinality({j \in cuts : j <= i})

LEMMA FirstRank ==
  ASSUME NEW cuts, IsFiniteSet(cuts), cuts \subseteq Nat, NEW i \in cuts, \A j \in cuts : i <= j
  PROVE  Rank(cuts, i) = 1
<1>1. \A j \in cuts : j \in Nat /\ (j <= i <=> j = i)
  OBVIOUS
<1>2. {j \in cuts : j <= i} = {i}
  BY <1>1
<1>3. QED
  BY <1>2, FS_Singleton DEF Rank

LEMMA NextRank ==
  ASSUME NEW cuts, IsFiniteSet(cuts), cuts \subseteq Nat, NEW i \in cuts, NEW k \in cuts, i < k,
         \A j \in cuts : j <= i \/ k <= j
  PROVE  Rank(cuts, k) = Rank(cuts, i) + 1
<1> DEFINE upTo == {j \in cuts : j <= i}
<1>1. \A j \in cuts : j \in Nat /\ (j <= k <=> j <= i \/ j = k) /\ ~(k <= i)
  OBVIOUS
<1>2. {j \in cuts : j <= k} = upTo \cup {k} /\ k \notin upTo
  BY <1>1
<1>3. IsFiniteSet(upTo)
  BY FS_Subset
<1>4. Cardinality(upTo \cup {k}) = Cardinality(upTo) + 1
  BY <1>2, <1>3, FS_AddElement
<1>5. QED
  BY <1>2, <1>4 DEF Rank

LEMMA OneOfRank ==
  ASSUME NEW cuts, IsFiniteSet(cuts), cuts \subseteq Nat, NEW i \in cuts, NEW k \in cuts,
         Rank(cuts, i) = Rank(cuts, k)
  PROVE  i = k
<1>1. ASSUME NEW a \in cuts, NEW b \in cuts, a < b PROVE Rank(cuts, a) # Rank(cuts, b)
  <2> DEFINE A == {j \in cuts : j <= a}
             B == {j \in cuts : j <= b}
  <2>1. A \subseteq B /\ b \in B /\ b \notin A
    <3>1. \A j \in cuts : j \in Nat /\ (j <= a => j <= b) /\ b <= b /\ ~(b <= a)
      BY <1>1
    <3>2. QED
      BY <3>1
  <2>2. IsFiniteSet(B)
    BY FS_Subset
  <2>3. Cardinality(A) # Cardinality(B)
    BY <2>1, <2>2, FS_Subset
  <2>4. QED
    BY <2>3 DEF Rank
<1>2. i \in Nat /\ k \in Nat
  OBVIOUS
<1>3. QED
  BY <1>1, <1>2

LEMMA EveryRank ==
  ASSUME NEW cuts, IsFiniteSet(cuts), cuts \subseteq Nat, NEW n \in 1 .. Cardinality(cuts)
  PROVE  \E i \in cuts : Rank(cuts, i) = n
<1> DEFINE missing == {k \in 1 .. Cardinality(cuts) : \A i \in cuts : Rank(cuts, i) # k}
<1>1. Cardinality(cuts) \in Nat /\ cuts # {}
  BY FS_CardinalityType, FS_EmptySet
<1>2. SUFFICES ASSUME missing # {} PROVE FALSE
  OBVIOUS
<1>3. PICK k \in missing : \A j \in missing : k <= j
  <2>1. missing \subseteq Nat
    BY <1>1
  <2>2. QED
    BY <1>2, <2>1, LeastElement
<1>4. k \in 1 .. Cardinality(cuts) /\ \A i \in cuts : Rank(cuts, i) # k
  OBVIOUS
<1>5. PICK first \in cuts : \A j \in cuts : first <= j
  BY <1>1, LeastElement
<1>6. k # 1
  BY <1>4, <1>5, FirstRank
<1>7. k - 1 \in 1 .. Cardinality(cuts) /\ ~(k <= k - 1)
  BY <1>1, <1>4, <1>6
<1>8. PICK i \in cuts : Rank(cuts, i) = k - 1
  BY <1>3, <1>7
<1> DEFINE after == {j \in cuts : i < j}
<1>9. after # {}
  <2>1. CASE after = {}
    <3>1. \A j \in cuts : j \in Nat /\ ~(i < j) /\ j <= i
      BY <2>1
    <3>2. {j \in cuts : j <= i} = cuts
      BY <3>1
    <3>3. QED
      BY <1>1, <1>4, <1>8, <3>2 DEF Rank
  <2>2. QED
    BY <2>1
<1>10. PICK next \in after : \A j \in after : next <= j
  <2>1. after \subseteq Nat
    OBVIOUS
  <2>2. QED
    BY <1>9, <2>1, LeastElement
<1>11. next \in cuts /\ i < next /\ \A j \in cuts : j <= i \/ next <= j
  <2>1. \A j \in cuts : j \in Nat /\ (i < j => j \in after)
    OBVIOUS
  <2>2. QED
    BY <1>10, <2>1
<1>12. Rank(cuts, next) = k
  <2>1. Rank(cuts, next) = (k - 1) + 1
    BY <1>8, <1>11, NextRank
  <2>2. QED
    BY <1>1, <1>4, <2>1
<1>13. QED
  BY <1>4, <1>11, <1>12

-----------------------------------------------------------------------------
(* String.split.                                                           *)

Cuts(str, symbol) == {i \in 1 .. Len(str) : str[i] = symbol}

\* The k-th piece is between the cuts of rank k - 1 and k.
LEMMA PiecesFact ==
  ASSUME NEW str \in Text, NEW symbol
  PROVE  LET n == Cardinality(Cuts(str, symbol))
             pieces == Pieces(str, symbol)
         IN  /\ n \in Nat /\ DOMAIN pieces = 1 .. n + 1
             /\ pieces = [k \in 1 .. n + 1 |-> pieces[k]]
             /\ n = 0 => pieces[1] = SubSeq(str, 1, Len(str))
             /\ \A k \in 1 .. n : \A i \in Cuts(str, symbol) : Rank(Cuts(str, symbol), i) = k =>
                  /\ k = 1 => pieces[k] = SubSeq(str, 1, i - 1)
                  /\ k = n => pieces[k + 1] = SubSeq(str, i + 1, Len(str))
                  /\ \A j \in Cuts(str, symbol) : Rank(Cuts(str, symbol), j) = k + 1 =>
                       pieces[k + 1] = SubSeq(str, i + 1, j - 1)
<1> DEFINE cuts == Cuts(str, symbol)
           n == Cardinality(cuts)
           cut(k) == CHOOSE i \in cuts : Cardinality({j \in cuts : j <= i}) = k
           first(k) == IF k = 1 THEN 1 ELSE cut(k - 1) + 1
           last(k) == IF k > n THEN Len(str) ELSE cut(k) - 1
           pieces == Pieces(str, symbol)
<1>1. Len(str) \in Nat /\ DOMAIN str = 1 .. Len(str)
  BY DEF Text
<1>2. IsFiniteSet(cuts) /\ cuts \subseteq Nat /\ n \in Nat
  <2>1. cuts \subseteq 1 .. Len(str)
    BY DEF Cuts
  <2>2. IsFiniteSet(cuts)
    <3>1. IsFiniteSet(1 .. Len(str))
      BY <1>1, FS_Interval
    <3>2. QED
      BY <2>1, <3>1, FS_Subset
  <2>3. QED
    BY <1>1, <2>1, <2>2, FS_CardinalityType
<1>3. pieces = [k \in 1 .. n + 1 |-> SubSeq(str, first(k), last(k))]
  BY <1>1 DEF Pieces, Cuts
<1>4. ASSUME NEW k, NEW i \in cuts, Rank(cuts, i) = k PROVE cut(k) = i
  <2>1. Cardinality({j \in cuts : j <= i}) = k
    BY <1>4 DEF Rank
  <2>2. cut(k) \in cuts /\ Rank(cuts, cut(k)) = k
    BY <2>1 DEF Rank
  <2>3. QED
    BY <1>2, <1>4, <2>2, OneOfRank
<1> HIDE DEF pieces, cuts, cut
<1>5. DOMAIN pieces = 1 .. n + 1 /\ pieces = [k \in 1 .. n + 1 |-> pieces[k]]
  BY <1>3
<1>6. n = 0 => pieces[1] = SubSeq(str, 1, Len(str))
  BY <1>2, <1>3
<1>7. ASSUME NEW k \in 1 .. n, NEW i \in cuts, Rank(cuts, i) = k
      PROVE  /\ k = 1 => pieces[k] = SubSeq(str, 1, i - 1)
             /\ k = n => pieces[k + 1] = SubSeq(str, i + 1, Len(str))
             /\ \A j \in cuts : Rank(cuts, j) = k + 1 => pieces[k + 1] = SubSeq(str, i + 1, j - 1)
  <2>1. cut(k) = i
    BY <1>4, <1>7
  <2>2. k \in Nat /\ k \in 1 .. n + 1 /\ k + 1 \in 1 .. n + 1 /\ k + 1 # 1 /\ (k + 1) - 1 = k /\ ~(k > n)
    BY <1>2
  <2>3. first(k + 1) = i + 1 /\ (k = 1 => first(k) = 1) /\ last(k) = i - 1
    BY <2>1, <2>2
  <2>4. k = n => last(k + 1) = Len(str)
    BY <2>2
  <2>5. ASSUME NEW j \in cuts, Rank(cuts, j) = k + 1 PROVE last(k + 1) = j - 1
    <3>1. cut(k + 1) = j
      BY <1>4, <2>5
    <3>2. k + 1 \in 1 .. n
      <4>1. Rank(cuts, j) <= n
        BY <1>2, FS_Subset DEF Rank
      <4>2. QED
        BY <1>2, <2>2, <2>5, <4>1
    <3>3. ~(k + 1 > n)
      BY <1>2, <3>2
    <3>4. QED
      BY <3>1, <3>3
  <2>6. pieces[k] = SubSeq(str, first(k), last(k)) /\ pieces[k + 1] = SubSeq(str, first(k + 1), last(k + 1))
    BY <1>3, <2>2
  <2>7. QED
    BY <2>3, <2>4, <2>5, <2>6
<1>8. QED
  BY <1>2, <1>5, <1>6, <1>7 DEF cuts, pieces

LEMMA SubText ==
  ASSUME NEW str \in Text, NEW first \in Nat \ {0}, NEW last \in Int, last <= Len(str)
  PROVE  /\ SubSeq(str, first, last) \in Text
         /\ Len(SubSeq(str, first, last)) = IF first <= last THEN last - first + 1 ELSE 0
         /\ \A i \in 1 .. last - first + 1 : SubSeq(str, first, last)[i] = str[first + i - 1]
<1>1. Len(str) \in Nat /\ str \in [1 .. Len(str) -> Characters]
  BY LenProperties DEF Text
<1>2. \A i \in first .. last : str[i] \in Characters
  BY <1>1
<1>3. QED
  BY <1>2, SubSeqProperties DEF Text

LEMMA CutsFinite ==
  ASSUME NEW str \in Text, NEW symbol
  PROVE  /\ IsFiniteSet(Cuts(str, symbol)) /\ Cuts(str, symbol) \subseteq 1 .. Len(str)
         /\ Cuts(str, symbol) \subseteq Nat /\ Cardinality(Cuts(str, symbol)) \in Nat
<1>1. Len(str) \in Nat
  BY DEF Text
<1>2. Cuts(str, symbol) \subseteq 1 .. Len(str)
  BY DEF Cuts
<1>3. IsFiniteSet(1 .. Len(str))
  BY <1>1, FS_Interval
<1>4. IsFiniteSet(Cuts(str, symbol))
  BY <1>2, <1>3, FS_Subset
<1>5. QED
  BY <1>1, <1>2, <1>4, FS_CardinalityType

LEMMA PiecesType ==
  ASSUME NEW str \in Text, NEW symbol
  PROVE  Pieces(str, symbol) \in Seq(Text)
<1> DEFINE cuts == Cuts(str, symbol)
           n == Cardinality(cuts)
           pieces == Pieces(str, symbol)
<1>1. /\ Len(str) \in Nat /\ n \in Nat /\ IsFiniteSet(cuts)
      /\ cuts \subseteq Nat /\ \A i \in cuts : i \in 1 .. Len(str)
  BY CutsFinite DEF Text
<1>2. /\ DOMAIN pieces = 1 .. n + 1 /\ pieces = [k \in 1 .. n + 1 |-> pieces[k]]
      /\ n = 0 => pieces[1] = SubSeq(str, 1, Len(str))
      /\ \A k \in 1 .. n : \A i \in cuts : Rank(cuts, i) = k =>
           /\ k = 1 => pieces[k] = SubSeq(str, 1, i - 1)
           /\ k = n => pieces[k + 1] = SubSeq(str, i + 1, Len(str))
           /\ \A j \in cuts : Rank(cuts, j) = k + 1 => pieces[k + 1] = SubSeq(str, i + 1, j - 1)
  BY PiecesFact
<1>3. \A k \in 1 .. n : \E i \in cuts : Rank(cuts, i) = k
  BY <1>1, EveryRank
<1>4. ASSUME NEW first \in Nat \ {0}, NEW last \in Int, last <= Len(str)
      PROVE  SubSeq(str, first, last) \in Text
  BY <1>4, SubText
<1> HIDE DEF pieces, n, cuts
<1>5. ASSUME NEW k \in 1 .. n + 1 PROVE pieces[k] \in Text
  <2>1. CASE n = 0
    <3>1. k = 1 /\ pieces[1] = SubSeq(str, 1, Len(str))
      BY <1>2, <2>1
    <3>2. QED
      BY <1>1, <1>4, <3>1
  <2>2. CASE n > 0 /\ k = 1
    <3>1. PICK i \in cuts : Rank(cuts, i) = 1
      BY <1>1, <1>3, <2>2
    <3>2. 1 \in 1 .. n
      BY <1>1, <2>2
    <3>3. pieces[1] = SubSeq(str, 1, i - 1)
      BY <1>2, <3>1, <3>2
    <3>4. i \in 1 .. Len(str)
      BY <1>1
    <3>5. QED
      BY <1>1, <1>4, <2>2, <3>3, <3>4
  <2>3. CASE n > 0 /\ k > 1
    <3>1. k - 1 \in 1 .. n /\ (k - 1) + 1 = k
      BY <1>1, <2>3
    <3>2. PICK i \in cuts : Rank(cuts, i) = k - 1
      BY <1>3, <3>1
    <3>3. i \in 1 .. Len(str) /\ i + 1 \in Nat \ {0}
      BY <1>1
    <3>4. CASE k - 1 = n
      <4>1. pieces[k] = SubSeq(str, i + 1, Len(str))
        BY <1>2, <3>1, <3>2, <3>4
      <4>2. QED
        BY <1>1, <1>4, <3>3, <4>1
    <3>5. CASE k - 1 # n
      <4>1. k \in 1 .. n
        BY <1>1, <3>1, <3>5
      <4>2. PICK j \in cuts : Rank(cuts, j) = k
        BY <1>3, <4>1
      <4>3. pieces[k] = SubSeq(str, i + 1, j - 1)
        BY <1>2, <3>1, <3>2, <4>2
      <4>4. j \in 1 .. Len(str) /\ j - 1 \in Int /\ j - 1 <= Len(str)
        BY <1>1
      <4>5. QED
        BY <1>4, <3>3, <4>3, <4>4
    <3>6. QED
      BY <3>4, <3>5
  <2>4. QED
    BY <1>1, <2>1, <2>2, <2>3
<1>6. pieces \in [1 .. n + 1 -> Text]
  BY <1>2, <1>5
<1>7. QED
  BY <1>1, <1>6 DEF pieces

\* The number of pieces that String.split keeps.
Kept(pieces) == SelectLastInSeq(pieces, LAMBDA p : p # <<>>)

LEMMA KeptFact ==
  ASSUME NEW pieces \in Seq(Text)
  PROVE  /\ Kept(pieces) \in 0 .. Len(pieces)
         /\ \A i \in 1 .. Len(pieces) : pieces[i] # <<>> => i <= Kept(pieces)
<1>1. PICK n \in Nat : n = Kept(pieces) /\ IF \E i \in 1 .. Len(pieces) : pieces[i] # <<>>
                         THEN /\ n \in 1 .. Len(pieces)
                              /\ \A i \in 1 .. Len(pieces) : pieces[i] # <<>> => i <= n
                         ELSE n = 0
  <2> DEFINE I == {i \in 1 .. Len(pieces) : pieces[i] # <<>>}
  <2>1. Kept(pieces) = IF I # {} THEN Max(I) ELSE 0
    BY DEF Kept, SelectLastInSeq
  <2>2. Len(pieces) \in Nat /\ I \subseteq 0 .. Len(pieces)
    OBVIOUS
  <2>3. \A i : i \in I <=> i \in 1 .. Len(pieces) /\ pieces[i] # <<>>
    OBVIOUS
  <2> HIDE DEF I
  <2>4. ASSUME I # {} PROVE Max(I) \in I /\ \A k \in I : k <= Max(I)
    <3>1. \E n \in I : \A k \in I : k <= n
      BY <2>2, <2>4, GreatestElement
    <3>2. PICK n \in I : \A k \in I : n >= k
      BY <2>2, <3>1
    <3>3. Max(I) \in I /\ \A k \in I : Max(I) >= k
      BY <3>2 DEF Max
    <3>4. QED
      BY <2>2, <3>3
  <2>5. CASE I = {}
    BY <2>1, <2>3, <2>5
  <2>6. CASE I # {}
    BY <2>1, <2>2, <2>3, <2>4, <2>6
  <2>7. QED
    BY <2>5, <2>6
<1>2. Len(pieces) \in Nat
  OBVIOUS
<1>3. QED
  BY <1>1, <1>2

\* Parts are texts, and a text whose first part is not empty keeps it.
LEMMA SplitFact ==
  ASSUME NEW str \in Text, NEW symbol
  PROVE  /\ Split(str, symbol) \in Seq(Text)
         /\ str # <<>> => \A n \in 1 .. Len(Pieces(str, symbol)) :
              Pieces(str, symbol)[n] # <<>> =>
                /\ Len(Split(str, symbol)) >= n
                /\ \A i \in 1 .. n : Split(str, symbol)[i] = Pieces(str, symbol)[i]
<1> DEFINE pieces == Pieces(str, symbol)
           split == Split(str, symbol)
<1>1. pieces \in Seq(Text)
  BY PiecesType
<1>2. Kept(pieces) \in 0 .. Len(pieces) /\ \A i \in 1 .. Len(pieces) : pieces[i] # <<>> => i <= Kept(pieces)
  BY <1>1, KeptFact
<1>3. split = IF str = <<>> THEN <<str>> ELSE SubSeq(pieces, 1, Kept(pieces))
  BY DEF Split, Kept
<1> HIDE DEF pieces, split
<1>4. Len(pieces) \in Nat /\ \A i \in 1 .. Kept(pieces) : pieces[i] \in Text
  BY <1>1, <1>2
<1>5. /\ SubSeq(pieces, 1, Kept(pieces)) \in Seq(Text)
      /\ Len(SubSeq(pieces, 1, Kept(pieces))) = Kept(pieces)
      /\ \A i \in 1 .. Kept(pieces) : SubSeq(pieces, 1, Kept(pieces))[i] = pieces[i]
  BY <1>1, <1>2, <1>4, SubSeqProperties
<1>6. <<str>> \in Seq(Text)
  OBVIOUS
<1>7. split \in Seq(Text)
  BY <1>3, <1>5, <1>6
<1>8. ASSUME str # <<>>, NEW n \in 1 .. Len(pieces), pieces[n] # <<>>
      PROVE  Len(split) >= n /\ \A i \in 1 .. n : split[i] = pieces[i]
  <2>1. n <= Kept(pieces) /\ n \in Nat
    BY <1>2, <1>8
  <2>2. split = SubSeq(pieces, 1, Kept(pieces))
    BY <1>3, <1>8
  <2>3. QED
    BY <1>2, <1>4, <1>5, <2>1, <2>2
<1>9. QED
  BY <1>7, <1>8 DEF pieces, split

-----------------------------------------------------------------------------
(* The parsing functions.                                                  *)

LEMMA FirstSplitFact ==
  ASSUME NEW str \in Text, NEW symbol
  PROVE  /\ FirstSplit(str, symbol) \in Text
         /\ \A i \in 1 .. Len(FirstSplit(str, symbol)) :
              \E j \in 1 .. Len(str) : FirstSplit(str, symbol)[i] = str[j]
<1>1. PICK n \in 0 .. Len(str) : n = IndexOf(str, symbol)
  BY IndexOfFact
<1>2. Len(str) \in Nat
  BY DEF Text
<1>3. CASE n = 0
  <2>1. FirstSplit(str, symbol) = <<>>
    BY <1>1, <1>3 DEF FirstSplit
  <2>2. QED
    BY <2>1 DEF Text
<1>4. CASE n # 0
  <2>1. FirstSplit(str, symbol) = SubSeq(str, n + 1, Len(str))
    BY <1>1, <1>4 DEF FirstSplit
  <2>2. n + 1 \in Nat \ {0}
    BY <1>1, <1>2
  <2>3. /\ SubSeq(str, n + 1, Len(str)) \in Text
        /\ Len(SubSeq(str, n + 1, Len(str))) = IF n + 1 <= Len(str) THEN Len(str) - (n + 1) + 1 ELSE 0
        /\ \A i \in 1 .. Len(str) - (n + 1) + 1 : SubSeq(str, n + 1, Len(str))[i] = str[n + 1 + i - 1]
    BY <1>2, <2>2, SubText
  <2>4. ASSUME NEW i \in 1 .. Len(SubSeq(str, n + 1, Len(str)))
        PROVE  \E j \in 1 .. Len(str) : SubSeq(str, n + 1, Len(str))[i] = str[j]
    <3>1. i \in 1 .. Len(str) - (n + 1) + 1 /\ n + 1 + i - 1 \in 1 .. Len(str)
      BY <1>1, <1>2, <2>3, <2>4
    <3>2. QED
      BY <2>3, <3>1
  <2>5. QED
    BY <2>1, <2>3, <2>4
<1>5. QED
  BY <1>3, <1>4

LEMMA FilterFact ==
  ASSUME NEW data \in Text
  PROVE  /\ FilterData(data) \in Text
         /\ Intercept(FilterData(data)) \in Text
         /\ \A i \in 1 .. Len(Intercept(FilterData(data))) : Intercept(FilterData(data))[i] # "]"
<1>1. PICK first \in 0 .. Len(data) : first = IndexOf(data, "[")
  BY IndexOfFact
<1>2. PICK last \in 0 .. Len(data) : last = IndexOf(data, "]")
  BY IndexOfFact
<1>3. Len(data) \in Nat /\ \A i \in 1 .. last - 1 : last # 0 => data[i] # "]"
  BY <1>2, IndexOfFact DEF Text
<1>4. CASE first = 0 \/ last = 0
  <2>1. FilterData(data) = <<>>
    BY <1>1, <1>2, <1>4 DEF FilterData
  <2>2. Intercept(<<>>) = <<>>
    BY SubSeqEmpty DEF Intercept
  <2>3. <<>> \in Text /\ Len(<<>>) = 0
    BY DEF Text
  <2>4. QED
    BY <2>1, <2>2, <2>3
<1>5. CASE first # 0 /\ last # 0
  <2> DEFINE framed == SubSeq(data, first, last)
  <2>1. FilterData(data) = framed
    BY <1>1, <1>2, <1>5 DEF FilterData
  <2>2. /\ framed \in Text
        /\ Len(framed) = IF first <= last THEN last - first + 1 ELSE 0
        /\ \A i \in 1 .. last - first + 1 : framed[i] = data[first + i - 1]
    BY <1>3, <1>5, SubText
  <2> HIDE DEF framed
  <2> DEFINE n == Len(framed)
             inner == SubSeq(framed, 2, n - 1)
  <2>3. n \in Nat
    BY <2>2 DEF Text
  <2>4. /\ inner \in Text
        /\ Len(inner) = IF 2 <= n - 1 THEN (n - 1) - 2 + 1 ELSE 0
        /\ \A i \in 1 .. (n - 1) - 2 + 1 : inner[i] = framed[2 + i - 1]
    BY <2>2, <2>3, SubText
  <2>5. Intercept(framed) = inner
    BY DEF Intercept
  <2>6. ASSUME NEW i \in 1 .. Len(inner) PROVE inner[i] # "]"
    <3>1. 2 <= n - 1 /\ i \in 1 .. n - 2
      BY <2>3, <2>4, <2>6
    <3>2. inner[i] = framed[i + 1]
      BY <2>3, <2>4, <3>1
    <3>3. first <= last /\ n = last - first + 1 /\ i + 1 \in 1 .. last - first + 1
      BY <2>2, <2>3, <3>1
    <3>4. framed[i + 1] = data[first + (i + 1) - 1]
      BY <2>2, <3>3
    <3>5. first + (i + 1) - 1 \in 1 .. last - 1
      BY <3>1, <3>3, <1>5
    <3>6. QED
      BY <1>3, <1>5, <3>2, <3>4, <3>5
  <2>7. QED
    BY <2>1, <2>2, <2>4, <2>5, <2>6
<1>6. QED
  BY <1>4, <1>5

LEMMA ReceiveType ==
  ASSUME NEW data \in Text
  PROVE  \/ ReceiveAnalyticData(FilterData(data)) = <<>>
         \/ \E m \in Received : /\ ReceiveAnalyticData(FilterData(data)) = <<m>>
                                /\ IndexOf(m.body, "]") = 0
<1> DEFINE str == Intercept(FilterData(data))
           len == Split(str, Comma)
           info == Split(len[1], "*")
           body == FirstSplit(str, Comma)
           m == [factory |-> info[1], deviceId |-> info[2], length |-> info[3], type |-> info[4], body |-> body]
<1>1. str \in Text /\ \A i \in 1 .. Len(str) : str[i] # "]"
  BY FilterFact
<1>2. body \in Text /\ IndexOf(body, "]") = 0
  <2> HIDE DEF str
  <2>1. body \in Text /\ \A i \in 1 .. Len(body) : \E j \in 1 .. Len(str) : body[i] = str[j]
    BY <1>1, FirstSplitFact
  <2> HIDE DEF body
  <2>2. QED
    BY <1>1, <2>1, NoIndexOf
<1>3. len \in Seq(Text)
  BY <1>1, SplitFact
<1>4. ReceiveAnalyticData(FilterData(data)) =
        IF FilterData(data) = <<>> \/ len = <<>> THEN <<>>
        ELSE IF Len(info) < 4 THEN <<>> ELSE <<m>>
  BY DEF ReceiveAnalyticData
<1> HIDE DEF str, len, body
<1>5. SUFFICES ASSUME len # <<>>, ~(Len(info) < 4) PROVE m \in Received
  BY <1>2, <1>4
<1>6. len[1] \in Text
  BY <1>3, <1>5
<1>7. info \in Seq(Text)
  BY <1>6, SplitFact
<1> HIDE DEF info
<1>8. Len(info) \in Nat /\ 4 <= Len(info)
  BY <1>5, <1>7
<1>9. info[1] \in Text /\ info[2] \in Text /\ info[3] \in Text /\ info[4] \in Text
  BY <1>7, <1>8
<1>10. QED
  BY <1>2, <1>9 DEF Received

LEMMA SymbolsText ==
  /\ "]" \in Characters /\ <<>> \in Text /\ <<"[">> \in Text /\ <<"]">> \in Text
  /\ <<"*">> \in Text /\ <<Comma>> \in Text /\ <<"3", "G">> \in Text
<1>1. HexDigits[4] = "3"
  BY DEF HexDigits
<1>2. {"[", "]", "*", Comma, Space, "G"} \subseteq Characters /\ HexDigits[4] \in Characters
  BY CharacterAssumption DEF CharacterAssumption
<1>3. /\ "[" \in Characters /\ "]" \in Characters /\ "*" \in Characters /\ Comma \in Characters
      /\ "G" \in Characters
  BY <1>2
<1>4. "3" \in Characters
  BY <1>1, <1>2
<1>5. ASSUME NEW x \in Characters, NEW y \in Characters
      PROVE  <<>> \in Text /\ <<x>> \in Text /\ <<x, y>> \in Text
  BY DEF Text
<1>6. QED
  BY <1>3, <1>4, <1>5

LEMMA HexDigitsFact ==
  \A i \in 1 .. 16 : HexDigits[i] \in Characters /\ HexDigits[i] \notin {"[", "]", "*", Comma}
<1>1. \A i \in 1 .. 16 : HexDigits[i] \in Characters
  BY CharacterAssumption DEF CharacterAssumption
<1>2. ASSUME NEW i \in 1 .. 16 PROVE HexDigits[i] \notin {"[", "]", "*", Comma}
  <2>1. HexDigits[i] \notin {"[", "]", "*"}
    BY DEF HexDigits
  <2>2. HexDigits[i] # Comma
    <3>1. Comma \notin {"0", "1", "2", "3", "4", "5", "6", "7", "8", "9", "A", "B", "C", "D", "E", "F"}
      BY Zenon DEF Comma
    <3>2. QED
      BY <3>1 DEF HexDigits
  <2>3. QED
    BY <2>1, <2>2
<1>3. QED
  BY <1>1, <1>2

LEMMA IntToHexFact ==
  ASSUME NEW n \in Nat
  PROVE  /\ IntToHex(n) \in Text
         /\ \A i \in 1 .. Len(IntToHex(n)) : IntToHex(n)[i] \notin {"[", "]", "*", Comma}
<1> DEFINE at(unit) == 1 + ((n \div unit) % 16)
<1>1. /\ at(4096) \in 1 .. 16 /\ at(256) \in 1 .. 16 /\ at(16) \in 1 .. 16 /\ at(1) \in 1 .. 16
  OBVIOUS
<1>2. IntToHex(n) = <<HexDigits[at(4096)], HexDigits[at(256)], HexDigits[at(16)], HexDigits[at(1)]>>
  BY DEF IntToHex
<1> HIDE DEF at
<1>3. PICK a \in Characters, b \in Characters, c \in Characters, d \in Characters :
        /\ IntToHex(n) = <<a, b, c, d>>
        /\ {a, b, c, d} \cap {"[", "]", "*", Comma} = {}
  BY <1>1, <1>2, HexDigitsFact
<1> DEFINE hex == <<a, b, c, d>>
<1>4. hex \in Text /\ Len(hex) = 4
  BY DEF Text
<1>5. ASSUME NEW i \in 1 .. 4 PROVE hex[i] \in {a, b, c, d}
  OBVIOUS
<1>6. QED
  BY <1>3, <1>4, <1>5

LEMMA ConcatText ==
  ASSUME NEW s \in Text, NEW t \in Text
  PROVE  s \o t \in Text
BY ConcatProperties DEF Text

LEMMA EncodedText ==
  ASSUME NEW m \in Model
  PROVE  Encoded(m) \in Text
<1>1. ASSUME NEW n \in Model PROVE SendWatchData(n) \in Text
  <2> DEFINE factory == IF Blank(n.factory) THEN <<"3", "G">> ELSE n.factory
             length == IntToHex(Len(n.type))
             header == factory \o <<"*">> \o n.deviceId \o <<"*">> \o length \o <<"*">> \o n.type
             content == IF Blank(n.body) THEN header ELSE header \o <<Comma>> \o n.body
  <2>1. <<"[">> \in Text /\ <<"]">> \in Text /\ <<"*">> \in Text /\ <<Comma>> \in Text /\ <<>> \in Text
        /\ <<"3", "G">> \in Text
    BY SymbolsText
  <2>2. n.deviceId \in Text /\ n.type \in Text /\ n.body \in Text /\ n.factory \in Text
    BY DEF Model
  <2>3. factory \in Text /\ length \in Text
    <3>1. Len(n.type) \in Nat
      BY <2>2 DEF Text
    <3>2. QED
      BY <2>1, <2>2, <3>1, IntToHexFact
  <2>4. SendWatchData(n) = IF Blank(n.deviceId) THEN <<>> ELSE <<"[">> \o content \o <<"]">>
    BY DEF SendWatchData
  <2> HIDE DEF factory, length
  <2>5. factory \o <<"*">> \o n.deviceId \in Text
    BY <2>1, <2>2, <2>3, ConcatText
  <2>6. header \in Text
    BY <2>1, <2>2, <2>3, <2>5, ConcatText
  <2> HIDE DEF header
  <2>7. content \in Text
    BY <2>1, <2>2, <2>6, ConcatText
  <2> HIDE DEF content
  <2>8. QED
    BY <2>1, <2>4, <2>7, ConcatText
<1>2. [m EXCEPT !.deviceId = m.receiver] \in Model
  BY DEF Model
<1>3. QED
  BY <1>1, <1>2 DEF Encoded

LEMMA TemplateModel ==
  ASSUME NEW t \in Templates
  PROVE  GenerateTemplate(t.deviceId, t.type, t.body) \in Model
<1>1. t.deviceId \in Text /\ t.type \in Text /\ t.body \in Text
  BY TextAssumption DEF TextAssumption
<1>2. <<"3", "G">> \in Text /\ <<>> \in Text
  BY SymbolsText
<1>3. QED
  BY <1>1, <1>2, FirstSplitFact DEF GenerateTemplate, Model

LEMMA DecodedType ==
  ASSUME NEW frame \in Text
  PROVE  \/ Decoded(frame) = <<>>
         \/ \E m \in Received : Decoded(frame) = <<m>> /\ IndexOf(m.body, "]") = 0
<1>1. Append(frame, "]") \in Text
  BY SymbolsText, AppendProperties DEF Text
<1>2. QED
  BY <1>1, ReceiveType DEF Decoded

-----------------------------------------------------------------------------
(* Type correctness.                                                       *)

LEMMA InitType == Init => TypeOK
<1> SUFFICES ASSUME Init PROVE TypeOK
  OBVIOUS
<1>1. connected \in BOOLEAN /\ stalled \in BOOLEAN
  BY DEF Init
<1>2. wire \in Text /\ part \in Text /\ discarded \in Text
  BY DEF Init, Text
<1>3. /\ sent \in Seq(Sent) /\ Len(sent) <= MaxSent /\ noise \in 0 .. MaxNoise /\ ahead \in Nat
      /\ got \in Seq(Seq(Received)) /\ DOMAIN got = {}
  BY TextAssumption DEF Init, TextAssumption
<1>4. QED
  BY <1>1, <1>2, <1>3 DEF TypeOK

LEMMA SendType ==
  ASSUME TypeOK, NEW m \in Model, Send(m)
  PROVE  TypeOK'
<1> DEFINE long == ahead + Len(Encoded(m)) > MaxFrame + 1
           message == [model |-> m, long |-> long]
<1>1. wire' \in Text /\ part' \in Text /\ discarded' \in Text
  BY EncodedText, ConcatText DEF Send, TypeOK
<1>2. message \in Sent
  <2>1. long \in BOOLEAN
    OBVIOUS
  <2> HIDE DEF long
  <2>2. QED
    BY <2>1 DEF Sent
<1> HIDE DEF message
<1>3. sent' \in Seq(Sent) /\ Len(sent') <= MaxSent
  <2>1. sent' = Append(sent, message) /\ Len(sent) < MaxSent
    BY DEF Send, message
  <2>2. QED
    BY <1>2, <2>1, TextAssumption, AppendProperties DEF TypeOK, TextAssumption
<1>4. QED
  BY <1>1, <1>3 DEF Send, TypeOK

\* A frame is taken and what the decoder fires of it is noted.
LEMMA GotType ==
  ASSUME TypeOK, NEW models, got' = Append(got, models),
         \/ models = <<>>
         \/ \E m \in Received : models = <<m>> /\ IndexOf(m.body, "]") = 0
  PROVE  /\ got' \in Seq(Seq(Received))
         /\ \A i \in DOMAIN got' : \A j \in DOMAIN got'[i] : IndexOf(got'[i][j].body, "]") = 0
<1>1. models \in Seq(Received) /\ \A j \in DOMAIN models : IndexOf(models[j].body, "]") = 0
  <2>1. CASE models = <<>>
    BY <2>1
  <2>2. CASE \E m \in Received : models = <<m>> /\ IndexOf(m.body, "]") = 0
    <3>1. PICK m \in Received : models = <<m>> /\ IndexOf(m.body, "]") = 0
      BY <2>2
    <3>2. models \in Seq(Received) /\ DOMAIN models = {1} /\ models[1] = m
      BY <3>1
    <3>3. QED
      BY <3>1, <3>2
  <2>3. QED
    BY <2>1, <2>2
<1>2. got \in Seq(Seq(Received))
  BY DEF TypeOK
<1>3. /\ got' \in Seq(Seq(Received)) /\ Len(got') = Len(got) + 1 /\ got'[Len(got) + 1] = models
      /\ \A i \in 1 .. Len(got) : got'[i] = got[i]
  BY <1>1, <1>2, AppendProperties
<1>4. ASSUME NEW i \in DOMAIN got', NEW j \in DOMAIN got'[i] PROVE IndexOf(got'[i][j].body, "]") = 0
  <2>1. i \in 1 .. Len(got) \/ i = Len(got) + 1
    BY <1>2, <1>3
  <2>2. CASE i \in 1 .. Len(got)
    <3>1. i \in DOMAIN got /\ got'[i] = got[i]
      BY <1>2, <1>3, <2>2
    <3>2. QED
      BY <3>1 DEF TypeOK
  <2>3. CASE i = Len(got) + 1
    BY <1>1, <1>3, <2>3
  <2>4. QED
    BY <2>1, <2>2, <2>3
<1>5. QED
  BY <1>3, <1>4

LEMMA KeepType ==
  ASSUME NEW text \in Text, NEW before \in Text, Keep(text, before)
  PROVE  part' \in Text /\ discarded' \in Text
<1>1. before \o text \in Text /\ <<>> \in Text
  BY ConcatText DEF Text
<1>2. QED
  BY <1>1 DEF Keep

\* The first frame of what has arrived, and the rest.
LEMMA CutType ==
  ASSUME part \in Text, ~Resting
  PROVE  /\ IndexOf(part, "]") \in 1 .. Len(part)
         /\ Frame \in Text /\ Len(Frame) = IndexOf(part, "]") - 1
         /\ Rest \in Text
<1>1. PICK end \in 1 .. Len(part) : end = IndexOf(part, "]")
  BY IndexOfFact DEF Resting
<1>2. Len(part) \in Nat
  BY DEF Text
<1>3. SubSeq(part, 1, end - 1) \in Text /\ Len(SubSeq(part, 1, end - 1)) = end - 1
  BY <1>1, <1>2, SubText
<1>4. SubSeq(part, end + 1, Len(part)) \in Text
  BY <1>1, <1>2, SubText
<1>5. QED
  BY <1>1, <1>3, <1>4 DEF Frame, Rest

LEMMA TakeType ==
  ASSUME TypeOK, Decode \/ Drop \/ Skip
  PROVE  TypeOK'
<1>1. /\ ~Resting /\ part \in Text /\ <<>> \in Text
      /\ connected' = connected /\ wire' = wire /\ history' = history
  BY DEF Decode, Drop, Skip, TypeOK, Text
<1>2. Frame \in Text /\ Rest \in Text
  BY <1>1, CutType
<1>3. part' \in Text /\ discarded' \in Text
  BY <1>1, <1>2, KeepType DEF Decode, Drop, Skip, TypeOK
<1>4. got' = Append(got, Decoded(Frame)) \/ got' = Append(got, <<>>)
  BY DEF Decode, Drop, Skip
<1>5. /\ got' \in Seq(Seq(Received))
      /\ \A i \in DOMAIN got' : \A j \in DOMAIN got'[i] : IndexOf(got'[i][j].body, "]") = 0
  BY <1>2, <1>4, DecodedType, GotType
<1>6. stalled' \in BOOLEAN
  <2>1. stalled \in BOOLEAN
    BY DEF TypeOK
  <2>2. stalled' = stalled \/ stalled' = TRUE
    BY DEF Decode, Drop, Skip
  <2>3. QED
    BY <2>1, <2>2
<1>7. QED
  BY <1>1, <1>3, <1>5, <1>6 DEF TypeOK, history

LEMMA TypeInductive == TypeOK /\ [Next]_vars => TypeOK'
<1> SUFFICES ASSUME TypeOK, [Next]_vars PROVE TypeOK'
  OBVIOUS
<1>1. CASE Encode
  <2>1. PICK m \in Messages : Send(m)
    BY <1>1 DEF Encode
  <2>2. m \in Model
    BY TextAssumption DEF TextAssumption
  <2>3. QED
    BY <2>1, <2>2, SendType
<1>2. CASE EncodeTemplate
  BY <1>2, TemplateModel, SendType DEF EncodeTemplate
<1>3. CASE Noise
  <2>1. PICK n \in Noises : wire' = wire \o n /\ ahead' = ahead + Len(n)
    BY <1>3 DEF Noise
  <2>2. n \in Text
    BY TextAssumption DEF TextAssumption
  <2>3. wire' \in Text /\ ahead' \in Nat
    BY <2>1, <2>2, ConcatText DEF TypeOK, Text
  <2>4. noise' \in 0 .. MaxNoise
    BY <1>3, TextAssumption DEF Noise, TypeOK, TextAssumption
  <2>5. QED
    BY <1>3, <2>3, <2>4 DEF Noise, TypeOK
<1>4. CASE Arrive
  <2>1. PICK k \in 1 .. Len(wire) : /\ Keep(part \o SubSeq(wire, 1, k), discarded)
                                    /\ wire' = SubSeq(wire, k + 1, Len(wire))
    BY <1>4 DEF Arrive
  <2>2. wire \in Text /\ part \in Text /\ discarded \in Text /\ Len(wire) \in Nat
    BY DEF TypeOK, Text
  <2>3. SubSeq(wire, 1, k) \in Text /\ SubSeq(wire, k + 1, Len(wire)) \in Text
    BY <2>2, SubText
  <2>4. wire' \in Text /\ part' \in Text /\ discarded' \in Text
    BY <2>1, <2>2, <2>3, ConcatText, KeepType
  <2>5. stalled' \in BOOLEAN
    BY <1>4 DEF Arrive
  <2>6. QED
    BY <1>4, <2>4, <2>5 DEF Arrive, TypeOK, history
<1>5. CASE Decode \/ Drop \/ Skip
  BY <1>5, TakeType
<1>6. CASE Disconnect
  <2>1. connected' \in BOOLEAN /\ stalled' \in BOOLEAN
    BY <1>6 DEF Disconnect
  <2>2. QED
    BY <1>6, <2>1 DEF Disconnect, TypeOK, history
<1>7. CASE Ended \/ UNCHANGED vars
  BY <1>7 DEF Ended, vars, TypeOK, history
<1>8. QED
  BY <1>1, <1>2, <1>3, <1>4, <1>5, <1>6, <1>7 DEF Next

\* Whatever is cut out of the stream, what the decoder fires has the five texts
\* of a message, and no body with the delimiter (receiveAnalyticData, Split).
THEOREM TypeCorrect == Spec => []TypeOK
<1>1. Init => TypeOK
  BY InitType
<1>2. QED
  BY <1>1, TypeInductive, PTL DEF Spec

-----------------------------------------------------------------------------
(* What was encoded is decoded.                                            *)

LEMMA PartFact ==
  ASSUME NEW str \in Text, NEW s \in Text, NEW a \in Nat, a + Len(s) <= Len(str),
         \A i \in 1 .. Len(s) : str[a + i] = s[i]
  PROVE  SubSeq(str, a + 1, a + Len(s)) = s
<1> DEFINE u == SubSeq(str, a + 1, a + Len(s))
<1>1. Len(s) \in Nat /\ s \in Seq(Characters)
  BY DEF Text
<1>2. a + 1 \in Nat \ {0} /\ a + Len(s) \in Int
  BY <1>1
<1>3. /\ u \in Text /\ Len(u) = IF a + 1 <= a + Len(s) THEN a + Len(s) - (a + 1) + 1 ELSE 0
      /\ \A i \in 1 .. a + Len(s) - (a + 1) + 1 : u[i] = str[a + 1 + i - 1]
  BY <1>2, SubText
<1> HIDE DEF u
<1>4. Len(u) = Len(s)
  BY <1>1, <1>3
<1>5. ASSUME NEW i \in 1 .. Len(s) PROVE u[i] = s[i]
  <2>1. u[i] = str[a + 1 + i - 1] /\ a + 1 + i - 1 = a + i
    BY <1>1, <1>3
  <2>2. QED
    BY <2>1
<1>6. u = s
  BY <1>1, <1>3, <1>4, <1>5, SeqEqual DEF Text
<1>7. QED
  BY <1>6 DEF u

LEMMA JoinFact ==
  ASSUME NEW s \in Text, NEW t \in Text, NEW symbol \in Characters
  PROVE  LET str == s \o <<symbol>> \o t
         IN  /\ str \in Text /\ Len(str) = Len(s) + 1 + Len(t)
             /\ \A i \in 1 .. Len(s) : str[i] = s[i]
             /\ str[Len(s) + 1] = symbol
             /\ \A i \in 1 .. Len(t) : str[Len(s) + 1 + i] = t[i]
<1> DEFINE str == s \o <<symbol>> \o t
           head == s \o <<symbol>>
<1>1. Len(s) \in Nat /\ Len(t) \in Nat /\ <<symbol>> \in Text /\ s \in Seq(Characters) /\ t \in Seq(Characters)
  BY DEF Text
<1>2. /\ head \in Text /\ Len(head) = Len(s) + 1
      /\ \A i \in 1 .. Len(s) + 1 : head[i] = IF i <= Len(s) THEN s[i] ELSE symbol
  BY <1>1 DEF Text
<1> HIDE DEF head
<1>3. /\ str \in Text /\ Len(str) = Len(s) + 1 + Len(t)
      /\ \A i \in 1 .. Len(s) + 1 + Len(t) :
           str[i] = IF i <= Len(s) + 1 THEN head[i] ELSE t[i - (Len(s) + 1)]
  BY <1>1, <1>2, ConcatProperties DEF Text, head
<1> HIDE DEF str
<1>4. ASSUME NEW i \in 1 .. Len(s) PROVE str[i] = s[i]
  BY <1>1, <1>2, <1>3
<1>5. str[Len(s) + 1] = symbol
  <2>1. Len(s) + 1 \in 1 .. Len(s) + 1 + Len(t) /\ Len(s) + 1 \in 1 .. Len(s) + 1 /\ ~(Len(s) + 1 <= Len(s))
    BY <1>1
  <2>2. QED
    BY <1>1, <1>2, <1>3, <2>1
<1>6. ASSUME NEW i \in 1 .. Len(t) PROVE str[Len(s) + 1 + i] = t[i]
  <2>1. /\ Len(s) + 1 + i \in 1 .. Len(s) + 1 + Len(t) /\ ~(Len(s) + 1 + i <= Len(s) + 1)
        /\ (Len(s) + 1 + i) - (Len(s) + 1) = i
    BY <1>1
  <2>2. QED
    BY <1>3, <2>1
<1>7. QED
  BY <1>3, <1>4, <1>5, <1>6 DEF str

\* A text that starts with a part without the symbol, and the symbol.
LEMMA FirstCut ==
  ASSUME NEW s \in Text, NEW t \in Text, NEW symbol \in Characters, \A i \in 1 .. Len(s) : s[i] # symbol
  PROVE  LET str == s \o <<symbol>> \o t
         IN  /\ str \in Text /\ Len(str) = Len(s) + 1 + Len(t)
             /\ IndexOf(str, symbol) = Len(s) + 1
             /\ SubSeq(str, 1, Len(s)) = s
             /\ SubSeq(str, Len(s) + 2, Len(str)) = t
<1> DEFINE str == s \o <<symbol>> \o t
<1>1. Len(s) \in Nat /\ Len(t) \in Nat
  BY DEF Text
<1>2. /\ str \in Text /\ Len(str) = Len(s) + 1 + Len(t)
      /\ \A i \in 1 .. Len(s) : str[i] = s[i]
      /\ str[Len(s) + 1] = symbol
      /\ \A i \in 1 .. Len(t) : str[Len(s) + 1 + i] = t[i]
  BY JoinFact
<1> HIDE DEF str
<1>3. IndexOf(str, symbol) = Len(s) + 1
  <2>1. Len(s) + 1 \in 1 .. Len(str) /\ (Len(s) + 1) - 1 = Len(s)
    BY <1>1, <1>2
  <2>2. \A i \in 1 .. (Len(s) + 1) - 1 : str[i] # symbol
    BY <1>2, <2>1
  <2>3. QED
    BY <1>2, <2>1, <2>2, IndexOfIs
<1>4. SubSeq(str, 1, Len(s)) = s
  <2>1. 0 + Len(s) = Len(s) /\ 0 + 1 = 1 /\ Len(s) <= Len(str) /\ \A i \in 1 .. Len(s) : 0 + i = i
    BY <1>1, <1>2
  <2>2. 0 + Len(s) <= Len(str) /\ \A i \in 1 .. Len(s) : str[0 + i] = s[i]
    BY <1>2, <2>1
  <2>3. SubSeq(str, 0 + 1, 0 + Len(s)) = s
    BY <1>2, <2>2, PartFact
  <2>4. QED
    BY <2>1, <2>3
<1>5. SubSeq(str, Len(s) + 2, Len(str)) = t
  <2>1. Len(s) + 1 \in Nat /\ (Len(s) + 1) + 1 = Len(s) + 2 /\ (Len(s) + 1) + Len(t) <= Len(str)
    BY <1>1, <1>2
  <2>2. SubSeq(str, (Len(s) + 1) + 1, (Len(s) + 1) + Len(t)) = t
    BY <1>2, <2>1, PartFact
  <2>3. QED
    BY <1>2, <2>1, <2>2
<1>6. QED
  BY <1>2, <1>3, <1>4, <1>5 DEF str

\* The pieces of a text between its cuts.
Between(pieces, str, cuts) ==
  /\ DOMAIN pieces = 1 .. Cardinality(cuts) + 1
  /\ \A k \in 1 .. Cardinality(cuts) : \A i \in cuts : Rank(cuts, i) = k =>
       /\ k = 1 => pieces[k] = SubSeq(str, 1, i - 1)
       /\ k = Cardinality(cuts) => pieces[k + 1] = SubSeq(str, i + 1, Len(str))
       /\ \A j \in cuts : Rank(cuts, j) = k + 1 => pieces[k + 1] = SubSeq(str, i + 1, j - 1)

LEMMA PiecesBetween ==
  ASSUME NEW str \in Text, NEW symbol
  PROVE  Between(Pieces(str, symbol), str, Cuts(str, symbol))
BY PiecesFact DEF Between

\* A text that is cut in three places into four parts, the last of them not
\* empty.
LEMMA FourParts ==
  ASSUME NEW str \in Text, NEW symbol, NEW p \in Nat, NEW q \in Nat, NEW r \in Nat,
         0 < p, p < q, q < r, r < Len(str),
         Cuts(str, symbol) = {p, q, r}
  PROVE  LET parts == Split(str, symbol)
         IN  /\ Len(parts) >= 4
             /\ parts[1] = SubSeq(str, 1, p - 1) /\ parts[2] = SubSeq(str, p + 1, q - 1)
             /\ parts[3] = SubSeq(str, q + 1, r - 1) /\ parts[4] = SubSeq(str, r + 1, Len(str))
<1> DEFINE cuts == Cuts(str, symbol)
           pieces == Pieces(str, symbol)
<1>1. Len(str) \in Nat
  BY DEF Text
<1>2. cuts = {p, q, r} /\ IsFiniteSet(cuts) /\ cuts \subseteq Nat
  <2>1. cuts = {p, q, r}
    OBVIOUS
  <2>2. QED
    BY <2>1, CutsFinite
<1> HIDE DEF cuts, pieces
<1>3. /\ DOMAIN pieces = 1 .. Cardinality(cuts) + 1
      /\ \A k \in 1 .. Cardinality(cuts) : \A i \in cuts : Rank(cuts, i) = k =>
           /\ k = 1 => pieces[k] = SubSeq(str, 1, i - 1)
           /\ k = Cardinality(cuts) => pieces[k + 1] = SubSeq(str, i + 1, Len(str))
           /\ \A j \in cuts : Rank(cuts, j) = k + 1 => pieces[k + 1] = SubSeq(str, i + 1, j - 1)
  <2>1. Between(pieces, str, cuts)
    BY PiecesBetween DEF cuts, pieces
  <2>2. QED
    BY <2>1 DEF Between
<1>4. p \in cuts /\ q \in cuts /\ r \in cuts
  BY <1>2
<1>5. Rank(cuts, p) = 1
  BY <1>2, <1>4, FirstRank
<1>6. Rank(cuts, q) = 2
  <2>1. \A j \in cuts : j <= p \/ q <= j
    BY <1>2
  <2>2. Rank(cuts, q) = Rank(cuts, p) + 1
    BY <1>2, <1>4, <2>1, NextRank
  <2>3. QED
    BY <1>5, <2>2
<1>7. Rank(cuts, r) = 3
  <2>1. \A j \in cuts : j <= q \/ r <= j
    BY <1>2
  <2>2. Rank(cuts, r) = Rank(cuts, q) + 1
    BY <1>2, <1>4, <2>1, NextRank
  <2>3. QED
    BY <1>6, <2>2
<1>8. Cardinality(cuts) = 3
  <2>1. \A j \in cuts : j <= r
    BY <1>2
  <2>2. {j \in cuts : j <= r} = cuts
    BY <2>1
  <2>3. QED
    BY <1>7, <2>2 DEF Rank
<1>9. /\ 1 \in 1 .. Cardinality(cuts) /\ 2 \in 1 .. Cardinality(cuts) /\ 3 \in 1 .. Cardinality(cuts)
      /\ 1 + 1 = 2 /\ 2 + 1 = 3 /\ 3 + 1 = 4
  BY <1>8
<1>10. pieces[1] = SubSeq(str, 1, p - 1)
  BY <1>3, <1>4, <1>5, <1>9
<1>11. pieces[2] = SubSeq(str, p + 1, q - 1)
  BY <1>3, <1>4, <1>5, <1>6, <1>9
<1>12. pieces[3] = SubSeq(str, q + 1, r - 1)
  BY <1>3, <1>4, <1>6, <1>7, <1>9
<1>13. pieces[4] = SubSeq(str, r + 1, Len(str))
  BY <1>3, <1>4, <1>7, <1>8, <1>9
<1>14. pieces[4] # <<>>
  <2>1. r + 1 \in Nat \ {0} /\ r + 1 <= Len(str)
    BY <1>1
  <2>2. Len(SubSeq(str, r + 1, Len(str))) = Len(str) - (r + 1) + 1
    BY <1>1, <2>1, SubText
  <2>3. Len(pieces[4]) # 0
    BY <1>1, <1>13, <2>2
  <2>4. QED
    BY <2>3
<1>15. Len(pieces) = 4
  <2>1. pieces \in Seq(Text)
    BY PiecesType DEF pieces
  <2>2. DOMAIN pieces = 1 .. 4
    BY <1>3, <1>8
  <2>3. QED
    BY <2>1, <2>2
<1>16. str # <<>>
  BY <1>1
<1>17. /\ Len(Split(str, symbol)) >= 4
       /\ \A i \in 1 .. 4 : Split(str, symbol)[i] = pieces[i]
  <2>1. 4 \in 1 .. Len(pieces)
    BY <1>15
  <2>2. QED
    BY <1>14, <1>16, <2>1, SplitFact DEF pieces
<1> DEFINE parts == Split(str, symbol)
<1> HIDE DEF parts
<1>18. parts[1] = pieces[1] /\ parts[2] = pieces[2] /\ parts[3] = pieces[3] /\ parts[4] = pieces[4]
  <2>1. 1 \in 1 .. 4 /\ 2 \in 1 .. 4 /\ 3 \in 1 .. 4 /\ 4 \in 1 .. 4
    OBVIOUS
  <2>2. QED
    BY <1>17, <2>1 DEF parts
<1>19. QED
  BY <1>10, <1>11, <1>12, <1>13, <1>17, <1>18 DEF parts

\* The header of a message.
Header(f, d, h, t) == f \o <<"*">> \o d \o <<"*">> \o h \o <<"*">> \o t

LEMMA HeaderFact ==
  ASSUME NEW f \in Text, NEW d \in Text, NEW h \in Text, NEW t \in Text,
         Clean(f), Clean(d), Clean(h), Clean(t), t # <<>>
  PROVE  LET str == Header(f, d, h, t)
             parts == Split(str, "*")
         IN  /\ str \in Text /\ str # <<>>
             /\ \A i \in 1 .. Len(str) : str[i] # "]" /\ str[i] # Comma
             /\ Len(parts) >= 4
             /\ parts[1] = f /\ parts[2] = d /\ parts[3] = h /\ parts[4] = t
<1>1. /\ Len(f) \in Nat /\ Len(d) \in Nat /\ Len(h) \in Nat /\ Len(t) \in Nat \ {0} /\ "*" \in Characters
  BY SymbolsText DEF Text
<1>2. PICK star \in Characters : star = "*"
  BY <1>1
<1>3. star # "]" /\ star # Comma
  BY <1>2, Zenon DEF Comma
<1> DEFINE two == f \o <<star>> \o d
           three == two \o <<star>> \o h
           str == three \o <<star>> \o t
           p == Len(f) + 1
           q == p + Len(d) + 1
           r == q + Len(h) + 1
<1>4. /\ two \in Text /\ Len(two) = Len(f) + 1 + Len(d)
      /\ \A i \in 1 .. Len(f) : two[i] = f[i]
      /\ two[Len(f) + 1] = star
      /\ \A i \in 1 .. Len(d) : two[Len(f) + 1 + i] = d[i]
  BY <1>1, JoinFact
<1> HIDE DEF two
<1>5. /\ three \in Text /\ Len(three) = Len(two) + 1 + Len(h)
      /\ \A i \in 1 .. Len(two) : three[i] = two[i]
      /\ three[Len(two) + 1] = star
      /\ \A i \in 1 .. Len(h) : three[Len(two) + 1 + i] = h[i]
  <2>1. two \in Text /\ h \in Text /\ star \in Characters
    BY <1>1, <1>4
  <2>2. QED
    BY <2>1, JoinFact
<1> HIDE DEF three
<1>6. /\ str \in Text /\ Len(str) = Len(three) + 1 + Len(t)
      /\ \A i \in 1 .. Len(three) : str[i] = three[i]
      /\ str[Len(three) + 1] = star
      /\ \A i \in 1 .. Len(t) : str[Len(three) + 1 + i] = t[i]
  <2>1. three \in Text /\ t \in Text /\ star \in Characters
    BY <1>1, <1>5
  <2>2. QED
    BY <2>1, JoinFact
<1> HIDE DEF str
<1>7. /\ p \in Nat /\ q \in Nat /\ r \in Nat /\ 0 < p /\ p < q /\ q < r /\ r < Len(str)
      /\ Len(two) = q - 1 /\ Len(three) = r - 1 /\ Len(str) = r + Len(t)
  BY <1>1, <1>4, <1>5, <1>6
<1>8. /\ str[p] = star /\ str[q] = star /\ str[r] = star
  <2>1. p \in 1 .. Len(two) /\ p \in 1 .. Len(three) /\ q \in 1 .. Len(three)
        /\ Len(two) + 1 = q /\ Len(three) + 1 = r
    BY <1>1, <1>7
  <2>2. QED
    BY <1>4, <1>5, <1>6, <2>1
<1>9. ASSUME NEW i \in 1 .. Len(f) PROVE str[0 + i] = f[i]
  <2>1. 0 + i = i /\ i \in 1 .. Len(two) /\ i \in 1 .. Len(three)
    BY <1>1, <1>7
  <2>2. QED
    BY <1>4, <1>5, <1>6, <2>1
<1>10. ASSUME NEW i \in 1 .. Len(d) PROVE str[p + i] = d[i]
  <2>1. p + i \in 1 .. Len(two) /\ p + i \in 1 .. Len(three)
    BY <1>1, <1>7
  <2>2. QED
    BY <1>4, <1>5, <1>6, <2>1
<1>11. ASSUME NEW i \in 1 .. Len(h) PROVE str[q + i] = h[i]
  <2>1. q + i \in 1 .. Len(three) /\ Len(two) + 1 = q
    BY <1>1, <1>7
  <2>2. QED
    BY <1>5, <1>6, <2>1
<1>12. ASSUME NEW i \in 1 .. Len(t) PROVE str[r + i] = t[i]
  <2>1. Len(three) + 1 = r
    BY <1>1, <1>7
  <2>2. QED
    BY <1>6, <2>1
<1> DEFINE plain(c) == c # "]" /\ c # star /\ c # Comma
<1>13. /\ \A i \in 1 .. Len(f) : plain(f[i])
       /\ \A i \in 1 .. Len(d) : plain(d[i])
       /\ \A i \in 1 .. Len(h) : plain(h[i])
       /\ \A i \in 1 .. Len(t) : plain(t[i])
  BY <1>2 DEF Clean, Text
<1>14. ASSUME NEW i \in 1 .. Len(str) PROVE i \in {p, q, r} \/ plain(str[i])
  <2> HIDE DEF plain
  <2>1. CASE i < p
    <3>1. i \in 1 .. Len(f) /\ 0 + i = i
      BY <1>1, <2>1
    <3>2. str[i] = f[i]
      BY <1>9, <3>1
    <3>3. QED
      BY <1>13, <3>1, <3>2
  <2>2. CASE p < i /\ i < q
    <3>1. i - p \in 1 .. Len(d) /\ p + (i - p) = i
      BY <1>1, <1>7, <2>2
    <3>2. str[i] = d[i - p]
      BY <1>10, <3>1
    <3>3. QED
      BY <1>13, <3>1, <3>2
  <2>3. CASE q < i /\ i < r
    <3>1. i - q \in 1 .. Len(h) /\ q + (i - q) = i
      BY <1>1, <1>7, <2>3
    <3>2. str[i] = h[i - q]
      BY <1>11, <3>1
    <3>3. QED
      BY <1>13, <3>1, <3>2
  <2>4. CASE r < i
    <3>1. i - r \in 1 .. Len(t) /\ r + (i - r) = i
      BY <1>1, <1>7, <2>4
    <3>2. str[i] = t[i - r]
      BY <1>12, <3>1
    <3>3. QED
      BY <1>13, <3>1, <3>2
  <2>5. QED
    BY <1>1, <1>7, <2>1, <2>2, <2>3, <2>4
<1>15. \A i \in 1 .. Len(str) : str[i] = star <=> i \in {p, q, r}
  BY <1>8, <1>14
<1> HIDE DEF plain
<1> HIDE DEF p, q, r
<1> DEFINE parts == Split(str, star)
<1>16. /\ Len(parts) >= 4
       /\ parts[1] = SubSeq(str, 1, p - 1) /\ parts[2] = SubSeq(str, p + 1, q - 1)
       /\ parts[3] = SubSeq(str, q + 1, r - 1) /\ parts[4] = SubSeq(str, r + 1, Len(str))
  <2>1. str \in Text /\ p \in Nat /\ q \in Nat /\ r \in Nat /\ 0 < p /\ p < q /\ q < r /\ r < Len(str)
    BY <1>6, <1>7
  <2>2. p \in 1 .. Len(str) /\ q \in 1 .. Len(str) /\ r \in 1 .. Len(str)
    BY <1>1, <1>7
  <2>3. Cuts(str, star) = {p, q, r}
    BY <1>15, <2>2 DEF Cuts
  <2>4. QED
    BY <2>1, <2>3, FourParts
<1> HIDE DEF parts
<1>17. parts[1] = f
  <2>1. 0 + Len(f) <= Len(str) /\ 0 + 1 = 1 /\ 0 + Len(f) = p - 1
    BY <1>1, <1>7 DEF p
  <2>2. SubSeq(str, 0 + 1, 0 + Len(f)) = f
    BY <1>6, <1>9, <2>1, PartFact
  <2>3. QED
    BY <1>16, <2>1, <2>2
<1>18. parts[2] = d
  <2>1. p + Len(d) <= Len(str) /\ p + Len(d) = q - 1
    BY <1>1, <1>7 DEF q
  <2>2. SubSeq(str, p + 1, p + Len(d)) = d
    BY <1>6, <1>7, <1>10, <2>1, PartFact
  <2>3. QED
    BY <1>16, <2>1, <2>2
<1>19. parts[3] = h
  <2>1. q + Len(h) <= Len(str) /\ q + Len(h) = r - 1
    BY <1>1, <1>7 DEF r
  <2>2. SubSeq(str, q + 1, q + Len(h)) = h
    BY <1>6, <1>7, <1>11, <2>1, PartFact
  <2>3. QED
    BY <1>16, <2>1, <2>2
<1>20. parts[4] = t
  <2>1. r + Len(t) <= Len(str) /\ r + Len(t) = Len(str)
    BY <1>1, <1>7
  <2>2. SubSeq(str, r + 1, r + Len(t)) = t
    BY <1>6, <1>7, <1>12, <2>1, PartFact
  <2>3. QED
    BY <1>16, <2>1, <2>2
<1>21. \A i \in 1 .. Len(str) : str[i] # "]" /\ str[i] # Comma
  <2> TAKE i \in 1 .. Len(str)
  <2>1. CASE plain(str[i])
    BY <2>1 DEF plain
  <2>2. CASE str[i] = star
    BY <1>2, <1>3, <2>2
  <2>3. QED
    BY <1>14, <1>15, <2>1, <2>2
<1>22. str # <<>>
  BY <1>1, <1>7
<1>23. str = Header(f, d, h, t)
  BY <1>2 DEF str, three, two, Header
<1>24. parts = Split(str, "*")
  BY <1>2 DEF parts
<1>25. QED
  BY <1>6, <1>16, <1>17, <1>18, <1>19, <1>20, <1>21, <1>22, <1>23, <1>24

\* A header alone, or with a body after a comma.
LEMMA ContentFact ==
  ASSUME NEW s \in Text, NEW symbol \in Characters, s # <<>>, \A i \in 1 .. Len(s) : s[i] # symbol
  PROVE  /\ Split(s, symbol) # <<>> /\ Split(s, symbol)[1] = s /\ FirstSplit(s, symbol) = <<>>
         /\ \A t \in Text : LET str == s \o <<symbol>> \o t
                            IN  /\ Split(str, symbol) # <<>> /\ Split(str, symbol)[1] = s
                                /\ FirstSplit(str, symbol) = t
<1>1. Len(s) \in Nat /\ Len(s) # 0 /\ s \in Seq(Characters) /\ 1 \in 1 .. 1
  BY DEF Text
<1>2. Split(s, symbol) # <<>> /\ Split(s, symbol)[1] = s
  <2>1. Cuts(s, symbol) = {}
    BY DEF Cuts
  <2>2. Cardinality(Cuts(s, symbol)) = 0
    BY <2>1, FS_EmptySet
  <2>3. Pieces(s, symbol)[1] = SubSeq(s, 1, Len(s)) /\ DOMAIN Pieces(s, symbol) = 1 .. 1
    <3> DEFINE n == Cardinality(Cuts(s, symbol))
               pieces == Pieces(s, symbol)
    <3>1. DOMAIN pieces = 1 .. n + 1 /\ (n = 0 => pieces[1] = SubSeq(s, 1, Len(s)))
      BY PiecesFact
    <3> HIDE DEF n, pieces
    <3>2. n = 0 /\ 0 + 1 = 1
      BY <2>2 DEF n
    <3>3. QED
      BY <3>1, <3>2 DEF pieces
  <2>4. Pieces(s, symbol)[1] = s
    BY <1>1, <2>3, SubSeqFull
  <2>5. 1 \in 1 .. Len(Pieces(s, symbol))
    <3>1. Pieces(s, symbol) \in Seq(Text)
      BY PiecesType
    <3>2. Len(Pieces(s, symbol)) = 1
      BY <2>3, <3>1
    <3>3. QED
      BY <3>2
  <2>6. Len(Split(s, symbol)) >= 1 /\ Split(s, symbol)[1] = Pieces(s, symbol)[1]
    BY <1>1, <2>4, <2>5, SplitFact
  <2>7. QED
    BY <2>4, <2>6
<1>3. FirstSplit(s, symbol) = <<>>
  BY NoIndexOf DEF FirstSplit
<1>4. ASSUME NEW t \in Text
      PROVE  LET str == s \o <<symbol>> \o t
             IN  /\ Split(str, symbol) # <<>> /\ Split(str, symbol)[1] = s
                 /\ FirstSplit(str, symbol) = t
  <2> DEFINE str == s \o <<symbol>> \o t
             c == Len(s) + 1
  <2>1. /\ str \in Text /\ Len(str) = Len(s) + 1 + Len(t)
        /\ IndexOf(str, symbol) = c
        /\ SubSeq(str, 1, Len(s)) = s
        /\ SubSeq(str, Len(s) + 2, Len(str)) = t
    BY FirstCut
  <2> HIDE DEF str
  <2>2. c \in Nat /\ c # 0 /\ c + 1 = Len(s) + 2 /\ c - 1 = Len(s) /\ Len(str) \in Nat
    BY <1>1, <2>1 DEF Text
  <2>3. FirstSplit(str, symbol) = t
    BY <2>1, <2>2 DEF FirstSplit
  <2> DEFINE cuts == Cuts(str, symbol)
  <2>4. c \in cuts /\ \A j \in cuts : c <= j
    <3>1. c \in 1 .. Len(str) /\ str[c] = symbol /\ \A i \in 1 .. c - 1 : str[i] # symbol
      <4>1. c \in 0 .. Len(str)
        BY <2>1, IndexOfFact
      <4>2. str[c] = symbol /\ \A i \in 1 .. c - 1 : str[i] # symbol
        BY <2>1, <2>2, IndexOfFact
      <4>3. QED
        BY <2>2, <4>1, <4>2
    <3>2. QED
      BY <2>2, <3>1 DEF Cuts
  <2>5. IsFiniteSet(cuts) /\ cuts \subseteq Nat /\ Cardinality(cuts) \in Nat
    BY <2>1, CutsFinite
  <2>6. Rank(cuts, c) = 1
    BY <2>4, <2>5, FirstRank
  <2>7. 1 \in 1 .. Cardinality(cuts)
    BY <2>4, <2>5, FS_EmptySet
  <2>8. /\ DOMAIN Pieces(str, symbol) = 1 .. Cardinality(cuts) + 1
        /\ Pieces(str, symbol)[1] = SubSeq(str, 1, c - 1)
    <3> DEFINE n == Cardinality(cuts)
               pieces == Pieces(str, symbol)
    <3>1. /\ DOMAIN pieces = 1 .. n + 1
          /\ \A k \in 1 .. n : \A i \in cuts : Rank(cuts, i) = k => (k = 1 => pieces[k] = SubSeq(str, 1, i - 1))
      BY <2>1, PiecesFact
    <3>2. 1 \in 1 .. n
      BY <2>7
    <3> HIDE DEF n, pieces, cuts, c
    <3>3. pieces[1] = SubSeq(str, 1, c - 1)
      BY <2>4, <2>6, <3>1, <3>2
    <3>4. QED
      BY <3>1, <3>3 DEF n, pieces
  <2>9. Pieces(str, symbol)[1] = s
    BY <2>1, <2>2, <2>8
  <2> HIDE DEF c, cuts
  <2>10. 1 \in 1 .. Len(Pieces(str, symbol))
    BY <2>1, <2>5, <2>8, PiecesType
  <2>11. str # <<>>
    BY <1>1, <2>1, <2>2
  <2>12. Len(Split(str, symbol)) >= 1 /\ Split(str, symbol)[1] = Pieces(str, symbol)[1]
    BY <1>1, <2>1, <2>9, <2>10, <2>11, SplitFact
  <2>13. QED
    BY <2>3, <2>9, <2>12 DEF str
<1>5. QED
  BY <1>2, <1>3, <1>4

\* A frame after a text without brackets.
LEMMA FrameFact ==
  ASSUME NEW x \in Text, NEW c \in Text,
         \A i \in 1 .. Len(x) : x[i] # "[" /\ x[i] # "]", \A i \in 1 .. Len(c) : c[i] # "]"
  PROVE  LET frame == <<"[">> \o c \o <<"]">>
             str == x \o frame
         IN  /\ str \in Text /\ IndexOf(str, "]") = Len(str) /\ Len(str) = Len(x) + Len(c) + 2
             /\ FilterData(str) = frame /\ frame # <<>> /\ Intercept(frame) = c
<1>1. PICK open \in Characters, close \in Characters : open = "[" /\ close = "]" /\ open # close
  BY CharacterAssumption DEF CharacterAssumption
<1> DEFINE frame == <<open>> \o c \o <<close>>
           str == x \o frame
           n == Len(c)
           k == Len(x)
<1>2. n \in Nat /\ k \in Nat /\ <<open>> \in Text /\ <<close>> \in Text
  BY DEF Text
<1>3. /\ frame \in Text /\ Len(frame) = n + 2 /\ frame[1] = open /\ frame[n + 2] = close
      /\ \A i \in 1 .. n : frame[1 + i] = c[i]
  BY <1>2 DEF Text
<1> HIDE DEF frame
<1>4. /\ str \in Text /\ Len(str) = k + (n + 2)
      /\ \A i \in 1 .. k + (n + 2) : str[i] = IF i <= k THEN x[i] ELSE frame[i - k]
  <2>1. x \in Seq(Characters) /\ frame \in Seq(Characters)
    BY <1>3 DEF Text
  <2>2. /\ str \in Seq(Characters) /\ Len(str) = k + Len(frame)
        /\ \A i \in 1 .. k + Len(frame) : str[i] = IF i <= k THEN x[i] ELSE frame[i - k]
    BY <2>1, ConcatProperties
  <2> HIDE DEF str, k
  <2>3. QED
    BY <1>3, <2>2 DEF Text
<1> HIDE DEF str
<1>5. str[k + 1] = open /\ str[k + (n + 2)] = close
  <2>1. /\ k + 1 \in 1 .. k + (n + 2) /\ ~(k + 1 <= k) /\ (k + 1) - k = 1
        /\ k + (n + 2) \in 1 .. k + (n + 2) /\ ~(k + (n + 2) <= k) /\ (k + (n + 2)) - k = n + 2
    BY <1>2
  <2>2. QED
    BY <1>3, <1>4, <2>1
<1>6. ASSUME NEW i \in 1 .. k PROVE str[i] = x[i]
  BY <1>2, <1>4
<1>7. ASSUME NEW i \in 1 .. n PROVE str[k + (1 + i)] = c[i]
  <2>1. k + (1 + i) \in 1 .. k + (n + 2) /\ ~(k + (1 + i) <= k) /\ (k + (1 + i)) - k = 1 + i
    BY <1>2
  <2>2. QED
    BY <1>3, <1>4, <2>1
<1>8. /\ \A i \in 1 .. k : x[i] # open /\ x[i] # close
      /\ \A i \in 1 .. n : c[i] # close
  BY <1>1
<1>9. IndexOf(str, open) = k + 1
  <2>1. k + 1 \in 1 .. Len(str) /\ (k + 1) - 1 = k
    BY <1>2, <1>4
  <2>2. \A i \in 1 .. (k + 1) - 1 : str[i] # open
    BY <1>6, <1>8, <2>1
  <2>3. QED
    BY <1>4, <1>5, <2>1, <2>2, IndexOfIs
<1>10. IndexOf(str, close) = k + (n + 2)
  <2>1. k + (n + 2) \in 1 .. Len(str)
    BY <1>2, <1>4
  <2>2. ASSUME NEW i \in 1 .. (k + (n + 2)) - 1 PROVE str[i] # close
    <3>1. CASE i <= k
      BY <1>2, <1>6, <1>8, <3>1
    <3>2. CASE i = k + 1
      BY <1>1, <1>5, <3>2
    <3>3. CASE i > k + 1
      <4>1. i - k - 1 \in 1 .. n /\ k + (1 + (i - k - 1)) = i
        BY <1>2, <3>3
      <4>2. str[i] = c[i - k - 1]
        BY <1>7, <4>1
      <4>3. QED
        BY <1>8, <4>1, <4>2
    <3>4. QED
      BY <1>2, <3>1, <3>2, <3>3
  <2>3. QED
    BY <1>4, <1>5, <2>1, <2>2, IndexOfIs
<1>11. SubSeq(str, k + 1, k + (n + 2)) = frame
  <2>1. \A i \in 1 .. Len(frame) : str[k + i] = frame[i]
    <3> TAKE i \in 1 .. Len(frame)
    <3>1. k + i \in 1 .. k + (n + 2) /\ ~(k + i <= k) /\ (k + i) - k = i
      BY <1>2, <1>3
    <3>2. QED
      BY <1>4, <3>1
  <2>2. k + Len(frame) <= Len(str)
    BY <1>2, <1>3, <1>4
  <2>3. SubSeq(str, k + 1, k + Len(frame)) = frame
    BY <1>2, <1>3, <1>4, <2>1, <2>2, PartFact
  <2>4. QED
    BY <1>3, <2>3
<1>12. FilterData(str) = frame
  <2>1. k + 1 # 0 /\ k + (n + 2) # 0
    BY <1>2
  <2>2. QED
    BY <1>1, <1>9, <1>10, <1>11, <2>1 DEF FilterData
<1>13. Intercept(frame) = c
  <2>1. 1 + n <= Len(frame) /\ 1 + 1 = 2 /\ 1 + n = Len(frame) - 1
    BY <1>2, <1>3
  <2>2. SubSeq(frame, 1 + 1, 1 + n) = c
    BY <1>3, <2>1, PartFact
  <2>3. QED
    BY <2>1, <2>2 DEF Intercept
<1>14. frame # <<>> /\ Len(str) = k + n + 2
  BY <1>2, <1>3, <1>4
<1>15. IndexOf(str, "]") = Len(str)
  BY <1>1, <1>4, <1>10
<1>16. frame = <<"[">> \o c \o <<"]">>
  BY <1>1 DEF frame
<1>17. str = x \o (<<"[">> \o c \o <<"]">>)
  BY <1>16 DEF str
<1>18. QED
  BY <1>4, <1>12, <1>13, <1>14, <1>15, <1>16, <1>17

LEMMA FactoryFact ==
  /\ <<"3", "G">> \in Text /\ Clean(<<"3", "G">>)
  /\ Comma \in Characters /\ Comma # "]"
<1>1. Comma # "]" /\ Comma # "G"
  BY Zenon DEF Comma
<1>2. "3" \notin {"]", "*", Comma}
  <2>1. HexDigits[4] = "3" /\ 4 \in 1 .. 16
    BY DEF HexDigits
  <2>2. QED
    BY <2>1, HexDigitsFact
<1>3. "G" \notin {"]", "*", Comma}
  BY <1>1
<1>4. PICK three, g : three = "3" /\ g = "G"
  OBVIOUS
<1>5. \A i \in DOMAIN <<three, g>> : <<three, g>>[i] \in {three, g}
  OBVIOUS
<1>6. Clean(<<three, g>>)
  BY <1>2, <1>3, <1>4, <1>5 DEF Clean
<1>7. Comma \in Characters
  BY CharacterAssumption DEF CharacterAssumption
<1>8. QED
  BY <1>1, <1>4, <1>6, <1>7, SymbolsText

\* A text that ends with an encoded message, and has no bracket before it, is
\* read as that message was meant.
LEMMA ReadFact ==
  ASSUME NEW x \in Text, \A i \in 1 .. Len(x) : x[i] # "[" /\ x[i] # "]",
         NEW m \in Model, Speakable(m), Encoded(m) # <<>>
  PROVE  LET str == x \o Encoded(m)
         IN  /\ str \in Text /\ IndexOf(str, "]") = Len(str) /\ Len(str) > Len(x)
             /\ ReadAsMeant(Reads(str), m)
<1> DEFINE n == IF m.receiver = <<>> THEN m ELSE [m EXCEPT !.deviceId = m.receiver]
           factory == IF Blank(m.factory) THEN <<"3", "G">> ELSE m.factory
           id == IF m.receiver = <<>> THEN m.deviceId ELSE m.receiver
           length == IntToHex(Len(m.type))
           header == Header(factory, id, length, m.type)
           content == IF Blank(m.body) THEN header ELSE header \o <<Comma>> \o m.body
           frame == <<"[">> \o content \o <<"]">>
           str == x \o frame
<1>1. /\ m.factory \in Text /\ m.deviceId \in Text /\ m.receiver \in Text /\ m.type \in Text /\ m.body \in Text
      /\ Len(m.type) \in Nat
  BY DEF Model, Text
<1>2. n.factory = m.factory /\ n.type = m.type /\ n.body = m.body /\ n.deviceId = id
  BY DEF Model
<1>3. Encoded(m) = frame
  <2>1. Encoded(m) = SendWatchData(n)
    BY DEF Encoded
  <2> HIDE DEF n
  <2>2. SendWatchData(n) = <<>> \/ SendWatchData(n) = frame
    BY <1>2 DEF SendWatchData, Header
  <2>3. QED
    BY <2>1, <2>2
<1>4. /\ factory \in Text /\ id \in Text /\ length \in Text
      /\ Clean(factory) /\ Clean(id) /\ Clean(length) /\ Clean(m.type) /\ m.type # <<>>
  <2>1. factory \in Text /\ Clean(factory) /\ id \in Text /\ Clean(id) /\ Clean(m.type) /\ m.type # <<>>
    BY <1>1, FactoryFact DEF Speakable
  <2>2. length \in Text /\ \A i \in 1 .. Len(length) : length[i] \notin {"]", "*", Comma}
    BY <1>1, IntToHexFact
  <2> HIDE DEF length
  <2>3. Clean(length)
    BY <2>2 DEF Clean, Text
  <2>4. QED
    BY <2>1, <2>2, <2>3
<1> HIDE DEF factory, id, length, n
<1> DEFINE parts == Split(header, "*")
<1>5. /\ header \in Text /\ header # <<>>
      /\ \A i \in 1 .. Len(header) : header[i] # "]" /\ header[i] # Comma
      /\ Len(parts) >= 4
      /\ parts[1] = factory /\ parts[2] = id /\ parts[3] = length /\ parts[4] = m.type
  <2>1. PICK t \in Text : t = m.type
    BY <1>1
  <2>2. Clean(factory) /\ Clean(id) /\ Clean(length) /\ Clean(t) /\ t # <<>>
    BY <1>4, <2>1
  <2>3. factory \in Text /\ id \in Text /\ length \in Text
    BY <1>4
  <2> DEFINE text == Header(factory, id, length, t)
  <2>4. /\ text \in Text /\ text # <<>>
        /\ \A i \in 1 .. Len(text) : text[i] # "]" /\ text[i] # Comma
        /\ Len(Split(text, "*")) >= 4
        /\ Split(text, "*")[1] = factory /\ Split(text, "*")[2] = id
        /\ Split(text, "*")[3] = length /\ Split(text, "*")[4] = t
    BY <2>2, <2>3, HeaderFact
  <2>5. QED
    BY <2>1, <2>4
<1> HIDE DEF header
<1>6. Comma \in Characters /\ Comma # "]"
  BY FactoryFact
<1>7. /\ content \in Text /\ \A i \in 1 .. Len(content) : content[i] # "]"
      /\ Split(content, Comma) # <<>> /\ Split(content, Comma)[1] = header
      /\ FirstSplit(content, Comma) = IF Blank(m.body) THEN <<>> ELSE m.body
  <2>1. header \in Text /\ header # <<>> /\ \A i \in 1 .. Len(header) : header[i] # Comma
    BY <1>5
  <2>2. PICK comma \in Characters : comma = Comma /\ comma # "]"
    BY <1>6
  <2>3. \A i \in 1 .. Len(header) : header[i] # comma
    BY <2>1, <2>2
  <2>4. /\ Split(header, comma) # <<>> /\ Split(header, comma)[1] = header /\ FirstSplit(header, comma) = <<>>
        /\ \A t \in Text : LET text == header \o <<comma>> \o t
                           IN  /\ Split(text, comma) # <<>> /\ Split(text, comma)[1] = header
                               /\ FirstSplit(text, comma) = t
    BY <2>1, <2>3, ContentFact
  <2>5. CASE Blank(m.body)
    <3>1. content = header
      BY <2>5
    <3> HIDE DEF content
    <3>2. QED
      BY <1>5, <2>2, <2>4, <2>5, <3>1
  <2>6. CASE ~Blank(m.body)
    <3>1. PICK b \in Text : b = m.body
      BY <1>1
    <3> DEFINE c == header \o <<comma>> \o b
    <3>2. content = c
      BY <2>2, <2>6, <3>1
    <3> HIDE DEF content
    <3>3. Split(c, comma) # <<>> /\ Split(c, comma)[1] = header /\ FirstSplit(c, comma) = b
      BY <2>4
    <3>4. /\ c \in Text /\ Len(c) = Len(header) + 1 + Len(b)
          /\ \A i \in 1 .. Len(header) : c[i] = header[i]
          /\ c[Len(header) + 1] = comma
          /\ \A i \in 1 .. Len(b) : c[Len(header) + 1 + i] = b[i]
      <4>1. header \in Text /\ b \in Text /\ comma \in Characters
        BY <2>1
      <4> HIDE DEF header
      <4>2. QED
        BY <4>1, JoinFact
    <3> HIDE DEF c
    <3>5. \A i \in 1 .. Len(b) : b[i] # "]"
      <4>1. IndexOf(b, "]") = 0
        BY <3>1 DEF Speakable
      <4>2. QED
        BY <4>1, IndexOfFact
    <3>6. Len(header) \in Nat /\ Len(b) \in Nat
      BY <2>1 DEF Text
    <3>7. ASSUME NEW i \in 1 .. Len(c) PROVE c[i] # "]"
      <4>1. CASE i <= Len(header)
        <5>1. i \in 1 .. Len(header)
          BY <3>6, <4>1
        <5>2. header[i] # "]"
          BY <1>5, <5>1
        <5>3. QED
          BY <3>4, <5>1, <5>2
      <4>2. CASE i = Len(header) + 1
        BY <2>2, <3>4, <4>2
      <4>3. CASE i > Len(header) + 1
        <5>1. PICK k \in 1 .. Len(b) : i = Len(header) + 1 + k
          <6>1. i - (Len(header) + 1) \in 1 .. Len(b) /\ i = Len(header) + 1 + (i - (Len(header) + 1))
            BY <3>4, <3>6, <4>3
          <6>2. QED
            BY <6>1
        <5>2. QED
          BY <3>4, <3>5, <5>1
      <4>4. QED
        BY <3>6, <4>1, <4>2, <4>3
    <3>8. QED
      BY <2>2, <2>6, <3>1, <3>2, <3>3, <3>4, <3>7
  <2>7. QED
    BY <2>5, <2>6
<1> HIDE DEF content
<1>8. /\ str \in Text /\ IndexOf(str, "]") = Len(str) /\ Len(str) = Len(x) + Len(content) + 2
      /\ FilterData(str) = frame /\ frame # <<>> /\ Intercept(frame) = content
  BY <1>7, FrameFact
<1> HIDE DEF frame, str
<1>9. Reads(str) = << [factory |-> factory, deviceId |-> id, length |-> length, type |-> m.type,
                       body |-> FirstSplit(content, Comma)] >>
  <2>1. Split(Split(content, Comma)[1], "*") = parts
    BY <1>7
  <2>2. ~(Len(parts) < 4)
    <3>1. parts \in Seq(Text)
      BY <1>5, SplitFact
    <3>2. QED
      BY <1>5, <3>1
  <2> DEFINE len == Split(content, Comma)
             info == Split(len[1], "*")
  <2>3. Reads(str) = IF frame = <<>> \/ len = <<>> THEN <<>>
                     ELSE IF Len(info) < 4 THEN <<>>
                     ELSE << [factory |-> info[1], deviceId |-> info[2], length |-> info[3],
                              type |-> info[4], body |-> FirstSplit(content, Comma)] >>
    BY <1>8, Zenon DEF Reads, ReceiveAnalyticData
  <2>4. info = parts /\ len # <<>>
    BY <1>7, <2>1
  <2> HIDE DEF info, len, parts
  <2>5. QED
    BY <1>5, <1>8, <2>2, <2>3, <2>4
<1>10. ReadAsMeant(Reads(str), m)
  BY <1>7, <1>9 DEF ReadAsMeant, Content, Meant, factory, id
<1>11. Len(str) > Len(x)
  <2>1. Len(x) \in Nat /\ Len(content) \in Nat
    BY <1>7 DEF Text
  <2>2. QED
    BY <1>8, <2>1
<1>12. QED
  BY <1>3, <1>8, <1>10, <1>11 DEF str

-----------------------------------------------------------------------------
(* The frames of a text.                                                   *)

\* What is written behind a text does not change its beginning.
LEMMA BeginningFact ==
  ASSUME NEW s \in Text, NEW t \in Text, NEW a \in Nat, NEW b \in 0 .. Len(s)
  PROVE  SubSeq(s \o t, a + 1, b) = SubSeq(s, a + 1, b)
<1> DEFINE u == SubSeq(s, a + 1, b)
<1>1. Len(s) \in Nat /\ Len(t) \in Nat /\ a + 1 \in Nat \ {0} /\ b \in Int /\ b <= Len(s)
  BY DEF Text
<1>2. /\ s \o t \in Text /\ Len(s \o t) = Len(s) + Len(t)
      /\ \A i \in 1 .. Len(s) + Len(t) : (s \o t)[i] = IF i <= Len(s) THEN s[i] ELSE t[i - Len(s)]
  BY ConcatProperties DEF Text
<1>3. /\ u \in Text /\ Len(u) = IF a + 1 <= b THEN b - (a + 1) + 1 ELSE 0
      /\ \A i \in 1 .. b - (a + 1) + 1 : u[i] = s[a + 1 + i - 1]
  BY <1>1, SubText
<1>4. CASE a + 1 <= b
  <2> HIDE DEF u
  <2>1. Len(u) = b - a
    BY <1>1, <1>3, <1>4
  <2>2. a + Len(u) = b /\ a + Len(u) <= Len(s \o t)
    BY <1>1, <1>2, <2>1
  <2>3. ASSUME NEW i \in 1 .. Len(u) PROVE (s \o t)[a + i] = u[i]
    <3>1. /\ i \in 1 .. b - (a + 1) + 1 /\ a + 1 + i - 1 = a + i
          /\ a + i \in 1 .. Len(s) + Len(t) /\ a + i <= Len(s)
      BY <1>1, <2>1
    <3>2. QED
      BY <1>2, <1>3, <3>1
  <2>4. SubSeq(s \o t, a + 1, a + Len(u)) = u
    BY <1>2, <1>3, <2>2, <2>3, PartFact
  <2>5. QED
    BY <2>2, <2>4 DEF u
<1>5. CASE ~(a + 1 <= b)
  <2>1. a + 1 \in Int /\ b < a + 1
    BY <1>1, <1>5
  <2>2. SubSeq(s \o t, a + 1, b) = <<>> /\ SubSeq(s, a + 1, b) = <<>>
    BY <1>1, <2>1, SubSeqEmpty
  <2>3. QED
    BY <2>2
<1>6. QED
  BY <1>4, <1>5

\* What is written behind a text goes behind its end.
LEMMA EndFact ==
  ASSUME NEW s \in Text, NEW t \in Text, NEW a \in 0 .. Len(s)
  PROVE  SubSeq(s \o t, a + 1, Len(s \o t)) = SubSeq(s, a + 1, Len(s)) \o t
<1> DEFINE v == SubSeq(s, a + 1, Len(s))
           u == v \o t
<1>1. Len(s) \in Nat /\ Len(t) \in Nat /\ a + 1 \in Nat \ {0} /\ a \in Nat
  BY DEF Text
<1>2. /\ s \o t \in Text /\ Len(s \o t) = Len(s) + Len(t)
      /\ \A i \in 1 .. Len(s) + Len(t) : (s \o t)[i] = IF i <= Len(s) THEN s[i] ELSE t[i - Len(s)]
  BY ConcatProperties DEF Text
<1>3. /\ v \in Text /\ Len(v) = IF a + 1 <= Len(s) THEN Len(s) - (a + 1) + 1 ELSE 0
      /\ \A i \in 1 .. Len(s) - (a + 1) + 1 : v[i] = s[a + 1 + i - 1]
  BY <1>1, SubText
<1> HIDE DEF v
<1>4. Len(v) = Len(s) - a
  BY <1>1, <1>3
<1>5. /\ u \in Text /\ Len(u) = Len(v) + Len(t)
      /\ \A i \in 1 .. Len(v) + Len(t) : u[i] = IF i <= Len(v) THEN v[i] ELSE t[i - Len(v)]
  BY <1>3, ConcatProperties DEF Text
<1> HIDE DEF u
<1>6. a + Len(u) = Len(s \o t) /\ a + Len(u) <= Len(s \o t)
  BY <1>1, <1>2, <1>4, <1>5
<1>7. ASSUME NEW i \in 1 .. Len(u) PROVE (s \o t)[a + i] = u[i]
  <2>1. i \in 1 .. Len(v) + Len(t) /\ a + i \in 1 .. Len(s) + Len(t)
    BY <1>1, <1>4, <1>5
  <2>2. CASE i <= Len(v)
    <3>1. i \in 1 .. Len(s) - (a + 1) + 1 /\ a + 1 + i - 1 = a + i /\ a + i <= Len(s)
      BY <1>1, <1>4, <2>2
    <3>2. QED
      BY <1>2, <1>3, <1>5, <2>1, <2>2, <3>1
  <2>3. CASE ~(i <= Len(v))
    <3>1. ~(a + i <= Len(s)) /\ (a + i) - Len(s) = i - Len(v)
      BY <1>1, <1>4, <2>3
    <3>2. QED
      BY <1>2, <1>5, <2>1, <2>3, <3>1
  <2>4. QED
    BY <2>2, <2>3
<1>8. SubSeq(s \o t, a + 1, a + Len(u)) = u
  BY <1>1, <1>2, <1>5, <1>6, <1>7, PartFact
<1>9. QED
  BY <1>6, <1>8 DEF u, v

\* A part of the end of a text.
LEMMA PartOfEnd ==
  ASSUME NEW s \in Text, NEW c \in 0 .. Len(s)
  PROVE  LET u == SubSeq(s, c + 1, Len(s))
         IN  /\ u \in Text /\ Len(u) = Len(s) - c
             /\ \A i \in 1 .. Len(s) - c : u[i] = s[c + i]
             /\ \A a \in Nat : \A b \in 0 .. Len(s) - c : SubSeq(u, a + 1, b) = SubSeq(s, c + a + 1, c + b)
<1> DEFINE u == SubSeq(s, c + 1, Len(s))
<1>1. Len(s) \in Nat /\ c \in Nat /\ c + 1 \in Nat \ {0}
  BY DEF Text
<1>2. /\ u \in Text /\ Len(u) = IF c + 1 <= Len(s) THEN Len(s) - (c + 1) + 1 ELSE 0
      /\ \A i \in 1 .. Len(s) - (c + 1) + 1 : u[i] = s[c + 1 + i - 1]
  BY <1>1, SubText
<1> HIDE DEF u
<1>3. Len(u) = Len(s) - c
  BY <1>1, <1>2
<1>4. ASSUME NEW i \in 1 .. Len(s) - c PROVE u[i] = s[c + i]
  <2>1. i \in 1 .. Len(s) - (c + 1) + 1 /\ c + 1 + i - 1 = c + i
    BY <1>1
  <2>2. QED
    BY <1>2, <2>1
<1>5. ASSUME NEW a \in Nat, NEW b \in 0 .. Len(s) - c
      PROVE  SubSeq(u, a + 1, b) = SubSeq(s, c + a + 1, c + b)
  <2> DEFINE v == SubSeq(s, c + a + 1, c + b)
  <2>1. c + a + 1 \in Nat \ {0} /\ c + b \in Int /\ c + b <= Len(s) /\ a + 1 \in Int /\ b \in Int
    BY <1>1
  <2>2. /\ v \in Text /\ Len(v) = IF c + a + 1 <= c + b THEN c + b - (c + a + 1) + 1 ELSE 0
        /\ \A i \in 1 .. c + b - (c + a + 1) + 1 : v[i] = s[c + a + 1 + i - 1]
    BY <2>1, SubText
  <2>3. CASE a + 1 <= b
    <3> HIDE DEF v
    <3>1. Len(v) = b - a /\ a + Len(v) = b /\ a + Len(v) <= Len(u)
      BY <1>1, <1>3, <2>2, <2>3
    <3>2. ASSUME NEW i \in 1 .. Len(v) PROVE u[a + i] = v[i]
      <4>1. /\ i \in 1 .. c + b - (c + a + 1) + 1 /\ c + a + 1 + i - 1 = c + (a + i)
            /\ a + i \in 1 .. Len(s) - c
        BY <1>1, <2>3, <3>1
      <4>2. QED
        BY <1>4, <2>2, <4>1
    <3>3. SubSeq(u, a + 1, a + Len(v)) = v
      BY <1>2, <2>2, <3>1, <3>2, PartFact
    <3>4. QED
      BY <3>1, <3>3 DEF v
  <2>4. CASE ~(a + 1 <= b)
    <3>1. b < a + 1 /\ c + b < c + a + 1 /\ c + a + 1 \in Int
      BY <1>1, <2>4
    <3>2. SubSeq(u, a + 1, b) = <<>> /\ SubSeq(s, c + a + 1, c + b) = <<>>
      BY <2>1, <3>1, SubSeqEmpty
    <3>3. QED
      BY <3>2
  <2>5. QED
    BY <2>3, <2>4
<1>6. QED
  BY <1>2, <1>3, <1>4, <1>5 DEF u

\* A text that is cut in two is whole again when the pieces are joined.
LEMMA CutInTwo ==
  ASSUME NEW s \in Text, NEW t \in Text, NEW k \in 0 .. Len(t)
  PROVE  (s \o SubSeq(t, 1, k)) \o SubSeq(t, k + 1, Len(t)) = s \o t
<1> DEFINE first == SubSeq(t, 1, k)
           rest == SubSeq(t, k + 1, Len(t))
<1>1. Len(t) \in Nat /\ k \in Nat /\ k \in Int /\ k <= Len(t) /\ 1 \in Nat \ {0}
  BY DEF Text
<1>2. /\ first \in Text /\ Len(first) = IF 1 <= k THEN k - 1 + 1 ELSE 0
      /\ \A i \in 1 .. k - 1 + 1 : first[i] = t[1 + i - 1]
  BY <1>1, SubText
<1>3. /\ rest \in Text /\ Len(rest) = Len(t) - k
      /\ \A i \in 1 .. Len(t) - k : rest[i] = t[k + i]
  BY PartOfEnd
<1> HIDE DEF first, rest
<1>4. Len(first) = k
  BY <1>1, <1>2
<1>5. /\ first \o rest \in Text /\ Len(first \o rest) = Len(first) + Len(rest)
      /\ \A i \in 1 .. Len(first) + Len(rest) :
           (first \o rest)[i] = IF i <= Len(first) THEN first[i] ELSE rest[i - Len(first)]
  BY <1>2, <1>3, ConcatProperties DEF Text
<1>6. ASSUME NEW i \in 1 .. Len(t) PROVE (first \o rest)[i] = t[i]
  <2>1. i \in 1 .. Len(first) + Len(rest)
    BY <1>1, <1>3, <1>4
  <2>2. CASE i <= k
    <3>1. i \in 1 .. k - 1 + 1 /\ 1 + i - 1 = i
      BY <1>1, <2>2
    <3>2. QED
      BY <1>2, <1>4, <1>5, <2>1, <2>2, <3>1
  <2>3. CASE ~(i <= k)
    <3>1. i - k \in 1 .. Len(t) - k /\ k + (i - k) = i
      BY <1>1, <2>3
    <3>2. QED
      BY <1>3, <1>4, <1>5, <2>1, <2>3, <3>1
  <2>4. QED
    BY <2>2, <2>3
<1>7. first \o rest = t
  <2>1. Len(first \o rest) = Len(t)
    BY <1>1, <1>3, <1>4, <1>5
  <2>2. QED
    BY <1>5, <1>6, <2>1, SeqEqual DEF Text
<1>8. (s \o first) \o rest = s \o (first \o rest)
  <2>1. s \in Seq(Characters) /\ first \in Seq(Characters) /\ rest \in Seq(Characters)
    BY <1>2, <1>3 DEF Text
  <2>2. QED
    BY <2>1, ConcatAssociative
<1>9. QED
  BY <1>7, <1>8 DEF first, rest

\* The n frames of a text that end at ends, which are those of the messages
\* after the first k.
FramesEnd(text, messages, k, n, ends) ==
  /\ ends[0] = 0
  /\ \A i \in 0 .. n : ends[i] \in 0 .. Len(text)
  /\ \A i \in 0 .. n : \A j \in 0 .. n : i < j => ends[i] < ends[j]
  /\ \A i \in 1 .. n :
       /\ text[ends[i]] = "]"
       /\ \A j \in ends[i - 1] + 1 .. ends[i] - 1 : text[j] # "]"
       /\ TakenAs(SubSeq(text, ends[i - 1] + 1, ends[i]), messages[k + i])

NoBracket(text, first) == \A j \in first .. Len(text) : text[j] # "[" /\ text[j] # "]"

LEMMA FramesAre ==
  ASSUME NEW text \in Text, NEW messages \in Seq(Sent), NEW k \in 0 .. Len(messages), NEW behind \in Nat,
         Frames(text, messages, k, behind)
  PROVE  LET n == Len(messages) - k
         IN  \E ends \in [0 .. n -> Nat] :
               /\ FramesEnd(text, messages, k, n, ends)
               /\ NoBracket(text, ends[n] + 1)
               /\ ends[n] + behind = Len(text)
<1> DEFINE n == Len(messages) - k
           spots == {0} \cup {i \in 1 .. Len(text) : text[i] = "]"}
<1>1. Len(text) \in Nat /\ n \in Nat
  BY DEF Text
<1>2. \A i \in spots : i \in 0 .. Len(text) /\ (i # 0 => text[i] = "]")
  BY <1>1
<1>3. PICK ends \in [0 .. n -> spots] :
        /\ ends[0] = 0
        /\ \A i \in 0 .. n : \A j \in 0 .. n : i < j => ends[i] < ends[j]
        /\ \A i \in 1 .. n :
             /\ \A j \in ends[i - 1] + 1 .. ends[i] - 1 : text[j] # "]"
             /\ TakenAs(SubSeq(text, ends[i - 1] + 1, ends[i]), messages[k + i])
        /\ \A j \in ends[n] + 1 .. Len(text) : text[j] # "[" /\ text[j] # "]"
        /\ ends[n] + behind = Len(text)
  BY DEF Frames
<1> HIDE DEF spots, n
<1>4. \A i \in 0 .. n : ends[i] \in 0 .. Len(text) /\ (ends[i] # 0 => text[ends[i]] = "]")
  BY <1>2, <1>3
<1>5. ends \in [0 .. n -> Nat]
  <2>1. spots \subseteq Nat
    BY <1>1, <1>2
  <2>2. QED
    BY <1>3, <2>1
<1>6. ASSUME NEW i \in 1 .. n PROVE text[ends[i]] = "]"
  <2>1. 0 \in 0 .. n /\ i \in 0 .. n /\ 0 < i
    BY <1>1
  <2>2. ends[0] < ends[i] /\ ends[i] \in 0 .. Len(text)
    BY <1>3, <1>4, <2>1
  <2>3. ends[i] # 0
    BY <1>1, <1>3, <2>2
  <2>4. QED
    BY <1>4, <2>1, <2>3
<1>7. FramesEnd(text, messages, k, n, ends)
  BY <1>3, <1>4, <1>6 DEF FramesEnd
<1>8. NoBracket(text, ends[n] + 1)
  BY <1>3 DEF NoBracket
<1>9. QED
  BY <1>3, <1>5, <1>7, <1>8 DEF n

LEMMA AreFrames ==
  ASSUME NEW text \in Text, NEW messages \in Seq(Sent), NEW k \in 0 .. Len(messages), NEW behind \in Nat,
         NEW n, n = Len(messages) - k, NEW ends \in [0 .. n -> Nat],
         FramesEnd(text, messages, k, n, ends), NoBracket(text, ends[n] + 1), ends[n] + behind = Len(text)
  PROVE  Frames(text, messages, k, behind)
<1> DEFINE spots == {0} \cup {i \in 1 .. Len(text) : text[i] = "]"}
<1>1. Len(text) \in Nat /\ n \in Nat
  BY DEF Text
<1>2. ends \in [0 .. n -> spots]
  <2>1. ASSUME NEW i \in 0 .. n PROVE ends[i] \in spots
    <3>1. CASE i = 0
      BY <3>1 DEF FramesEnd
    <3>2. CASE i # 0
      <4>1. i \in 1 .. n /\ 0 \in 0 .. n /\ 0 < i
        BY <1>1, <3>2
      <4>2. ends[0] = 0 /\ ends[0] < ends[i] /\ ends[i] \in 0 .. Len(text) /\ text[ends[i]] = "]"
        BY <4>1 DEF FramesEnd
      <4>3. ends[i] \in 1 .. Len(text)
        BY <1>1, <4>2
      <4>4. QED
        BY <4>2, <4>3
    <3>3. QED
      BY <3>1, <3>2
  <2>2. QED
    BY <2>1
<1> HIDE DEF spots
<1>3. /\ ends[0] = 0
      /\ \A i \in 0 .. n : \A j \in 0 .. n : i < j => ends[i] < ends[j]
      /\ \A i \in 1 .. n :
           /\ \A j \in ends[i - 1] + 1 .. ends[i] - 1 : text[j] # "]"
           /\ TakenAs(SubSeq(text, ends[i - 1] + 1, ends[i]), messages[k + i])
      /\ \A j \in ends[n] + 1 .. Len(text) : text[j] # "[" /\ text[j] # "]"
      /\ ends[n] + behind = Len(text)
  BY DEF FramesEnd, NoBracket
<1>4. QED
  BY <1>2, <1>3 DEF Frames, spots

\* What is written behind a text does not change its frames.
LEMMA FramesStay ==
  ASSUME NEW text \in Text, NEW x \in Text, NEW messages, NEW more, NEW k \in Nat, NEW n \in Nat,
         NEW ends \in [0 .. n -> Nat], FramesEnd(text, messages, k, n, ends),
         \A i \in 1 .. n : more[k + i] = messages[k + i]
  PROVE  FramesEnd(text \o x, more, k, n, ends)
<1>1. Len(text) \in Nat /\ Len(x) \in Nat
  BY DEF Text
<1>2. /\ text \o x \in Text /\ Len(text \o x) = Len(text) + Len(x)
      /\ \A i \in 1 .. Len(text) + Len(x) : (text \o x)[i] = IF i <= Len(text) THEN text[i] ELSE x[i - Len(text)]
  BY ConcatProperties DEF Text
<1> DEFINE joined == text \o x
<1> HIDE DEF joined
<1>3. \A i \in 1 .. Len(text) : joined[i] = text[i]
  BY <1>1, <1>2 DEF joined
<1>4. /\ ends[0] = 0
      /\ \A i \in 0 .. n : ends[i] \in 0 .. Len(text)
      /\ \A i \in 0 .. n : \A j \in 0 .. n : i < j => ends[i] < ends[j]
  BY DEF FramesEnd
<1>5. \A i \in 0 .. n : ends[i] \in 0 .. Len(joined)
  BY <1>1, <1>2, <1>4 DEF joined
<1>6. ASSUME NEW i \in 1 .. n
      PROVE  /\ joined[ends[i]] = "]"
             /\ \A j \in ends[i - 1] + 1 .. ends[i] - 1 : joined[j] # "]"
             /\ TakenAs(SubSeq(joined, ends[i - 1] + 1, ends[i]), more[k + i])
  <2>1. i - 1 \in 0 .. n /\ i \in 0 .. n /\ i - 1 < i
    OBVIOUS
  <2>2. ends[i - 1] \in 0 .. Len(text) /\ ends[i] \in 0 .. Len(text) /\ ends[i - 1] < ends[i]
    BY <1>4, <2>1
  <2>3. ends[i] \in 1 .. Len(text) /\ ends[i - 1] \in Nat
    BY <1>1, <2>2
  <2>4. /\ text[ends[i]] = "]"
        /\ \A j \in ends[i - 1] + 1 .. ends[i] - 1 : text[j] # "]"
        /\ TakenAs(SubSeq(text, ends[i - 1] + 1, ends[i]), messages[k + i])
    BY DEF FramesEnd
  <2>5. joined[ends[i]] = "]"
    BY <1>3, <2>3, <2>4
  <2>6. ASSUME NEW j \in ends[i - 1] + 1 .. ends[i] - 1 PROVE joined[j] # "]"
    <3>1. j \in 1 .. Len(text)
      BY <1>1, <2>2
    <3>2. QED
      BY <1>3, <2>4, <3>1
  <2>7. SubSeq(joined, ends[i - 1] + 1, ends[i]) = SubSeq(text, ends[i - 1] + 1, ends[i])
    BY <2>2, <2>3, BeginningFact DEF joined
  <2>8. QED
    BY <2>4, <2>5, <2>6, <2>7
<1>7. QED
  BY <1>4, <1>5, <1>6 DEF FramesEnd, joined

\* Noise behind the frames.
LEMMA FramesNoise ==
  ASSUME NEW text \in Text, NEW messages \in Seq(Sent), NEW k \in 0 .. Len(messages), NEW behind \in Nat,
         Frames(text, messages, k, behind),
         NEW x \in Text, NoBracket(x, 1)
  PROVE  Frames(text \o x, messages, k, behind + Len(x))
<1> DEFINE n == Len(messages) - k
           joined == text \o x
<1>1. Len(text) \in Nat /\ Len(x) \in Nat /\ n \in Nat /\ k \in Nat
  BY DEF Text
<1>2. PICK ends \in [0 .. n -> Nat] :
        /\ FramesEnd(text, messages, k, n, ends)
        /\ NoBracket(text, ends[n] + 1)
        /\ ends[n] + behind = Len(text)
  BY FramesAre
<1> HIDE DEF n
<1>3. FramesEnd(joined, messages, k, n, ends)
  BY <1>1, <1>2, FramesStay
<1>4. /\ joined \in Text /\ Len(joined) = Len(text) + Len(x)
      /\ \A i \in 1 .. Len(text) + Len(x) : joined[i] = IF i <= Len(text) THEN text[i] ELSE x[i - Len(text)]
  BY ConcatProperties DEF Text
<1> HIDE DEF joined
<1>5. ASSUME NEW j \in ends[n] + 1 .. Len(joined) PROVE joined[j] # "[" /\ joined[j] # "]"
  <2>1. n \in 0 .. n
    BY <1>1
  <2>2. ends[n] \in Nat
    BY <2>1
  <2>3. j \in 1 .. Len(text) + Len(x) /\ j \in Nat
    BY <1>1, <1>4, <2>2
  <2>4. CASE j <= Len(text)
    <3>1. j \in ends[n] + 1 .. Len(text)
      BY <1>1, <2>2, <2>4
    <3>2. text[j] # "[" /\ text[j] # "]"
      BY <1>2, <3>1 DEF NoBracket
    <3>3. QED
      BY <1>4, <2>3, <2>4, <3>2
  <2>5. CASE ~(j <= Len(text))
    <3>1. j - Len(text) \in 1 .. Len(x)
      BY <1>1, <2>3, <2>5
    <3>2. x[j - Len(text)] # "[" /\ x[j - Len(text)] # "]"
      BY <3>1 DEF NoBracket
    <3>3. QED
      BY <1>4, <2>3, <2>5, <3>2
  <2>6. QED
    BY <2>4, <2>5
<1>6. NoBracket(joined, ends[n] + 1)
  BY <1>5 DEF NoBracket
<1>7. ends[n] + (behind + Len(x)) = Len(joined) /\ behind + Len(x) \in Nat
  <2>1. n \in 0 .. n
    BY <1>1
  <2>2. ends[n] \in Nat
    BY <2>1
  <2>3. ends[n] + behind = Len(text)
    BY <1>2
  <2>4. Len(joined) = Len(text) + Len(x)
    BY <1>4
  <2>5. PICK e \in Nat, t \in Nat, l \in Nat, j \in Nat : e = ends[n] /\ t = Len(text) /\ l = Len(x) /\ j = Len(joined)
    BY <1>1, <1>4, <2>2
  <2>6. e + behind = t /\ j = t + l
    BY <2>3, <2>4, <2>5
  <2>7. e + (behind + l) = j /\ behind + l \in Nat
    BY <2>6
  <2>8. QED
    BY <2>5, <2>7, Zenon
<1>8. QED
  BY <1>3, <1>4, <1>6, <1>7, AreFrames DEF joined, n

\* A message behind the frames and the noise: one frame more.
LEMMA FramesSend ==
  ASSUME NEW text \in Text, NEW messages \in Seq(Sent), NEW k \in 0 .. Len(messages), NEW behind \in Nat,
         Frames(text, messages, k, behind),
         NEW m \in Sent, Speakable(m.model), Encoded(m.model) # <<>>,
         m.long <=> behind + Len(Encoded(m.model)) > MaxFrame + 1
  PROVE  Frames(text \o Encoded(m.model), Append(messages, m), k, 0)
<1> DEFINE n == Len(messages) - k
           encoded == Encoded(m.model)
           joined == text \o encoded
           more == Append(messages, m)
<1>1. Len(text) \in Nat /\ n \in Nat /\ k \in Nat /\ Len(messages) \in Nat
  BY DEF Text
<1>2. PICK ends \in [0 .. n -> Nat] :
        /\ FramesEnd(text, messages, k, n, ends)
        /\ NoBracket(text, ends[n] + 1)
        /\ ends[n] + behind = Len(text)
  BY FramesAre
<1>3. /\ more \in Seq(Sent) /\ Len(more) = Len(messages) + 1 /\ more[Len(messages) + 1] = m
      /\ \A i \in 1 .. Len(messages) : more[i] = messages[i]
  BY AppendProperties
<1>4. encoded \in Text /\ m.model \in Model /\ m.long \in BOOLEAN
  BY EncodedText DEF Sent
<1> HIDE DEF encoded, more
<1> DEFINE end == Len(joined)
           longer == [i \in 0 .. n + 1 |-> IF i = n + 1 THEN end ELSE ends[i]]
           x == SubSeq(text, ends[n] + 1, Len(text))
<1>5. ends[n] \in 0 .. Len(text) /\ ends[n] \in Nat /\ n \in 0 .. n
  <2>1. n \in 0 .. n
    BY <1>1
  <2>2. QED
    BY <1>2, <2>1 DEF FramesEnd
<1>6. /\ x \in Text /\ Len(x) = Len(text) - ends[n]
      /\ \A i \in 1 .. Len(text) - ends[n] : x[i] = text[ends[n] + i]
  BY <1>5, PartOfEnd
<1>7. joined \in Text /\ end = Len(text) + Len(encoded) /\ end \in Nat /\ Len(encoded) \in Nat
  BY <1>4, ConcatProperties DEF Text
<1>8. SubSeq(joined, ends[n] + 1, end) = x \o encoded
  BY <1>4, <1>5, EndFact
<1> HIDE DEF x
<1>9. \A i \in 1 .. Len(x) : x[i] # "[" /\ x[i] # "]"
  <2> TAKE i \in 1 .. Len(x)
  <2>1. i \in 1 .. Len(text) - ends[n] /\ ends[n] + i \in ends[n] + 1 .. Len(text)
    BY <1>1, <1>5, <1>6
  <2>2. QED
    BY <1>2, <1>6, <2>1 DEF NoBracket
<1>10. /\ x \o encoded \in Text /\ IndexOf(x \o encoded, "]") = Len(x \o encoded) /\ Len(x \o encoded) > Len(x)
       /\ ReadAsMeant(Reads(x \o encoded), m.model)
  <2>1. PICK model \in Model : model = m.model
    BY <1>4
  <2> DEFINE str == x \o Encoded(model)
  <2>2. Speakable(model) /\ Encoded(model) # <<>>
    BY <2>1
  <2>3. /\ str \in Text /\ IndexOf(str, "]") = Len(str) /\ Len(str) > Len(x)
        /\ ReadAsMeant(Reads(str), model)
    BY <1>6, <1>9, <2>2, ReadFact
  <2>4. QED
    BY <2>1, <2>3 DEF encoded
<1>11. FramesEnd(joined, more, k, n, ends)
  <2>1. ASSUME NEW i \in 1 .. n PROVE more[k + i] = messages[k + i]
    <3>1. k + i \in 1 .. Len(messages)
      BY <1>1
    <3>2. QED
      BY <1>3, <3>1
  <2>2. QED
    BY <1>1, <1>2, <1>4, <2>1, FramesStay
<1>12. /\ SubSeq(joined, ends[n] + 1, end) \in Text
       /\ Len(x \o encoded) = end - ends[n]
       /\ \A i \in 1 .. end - ends[n] : (x \o encoded)[i] = joined[ends[n] + i]
  <2> HIDE DEF joined
  <2> DEFINE u == SubSeq(joined, ends[n] + 1, Len(joined))
  <2>1. ends[n] \in 0 .. Len(joined)
    BY <1>1, <1>5, <1>7
  <2>2. joined \in Text
    BY <1>7
  <2>3. u \in Text /\ Len(u) = Len(joined) - ends[n] /\ \A i \in 1 .. Len(joined) - ends[n] : u[i] = joined[ends[n] + i]
    BY <2>1, <2>2, PartOfEnd
  <2>4. u = x \o encoded
    BY <1>8
  <2> HIDE DEF u
  <2>5. QED
    BY <1>8, <2>3, <2>4
<1>13. ends[n] < end /\ ends[n] + 1 \in Nat
  <2>1. Len(x) \in Nat /\ Len(x \o encoded) \in Nat
    BY <1>6, <1>10 DEF Text
  <2>2. QED
    BY <1>5, <1>7, <1>10, <1>12, <2>1
<1> HIDE DEF joined
<1>14. joined[end] = "]" /\ \A j \in ends[n] + 1 .. end - 1 : joined[j] # "]"
  <2> DEFINE l == Len(x \o encoded)
  <2>1. l \in 1 .. end - ends[n] /\ l = end - ends[n] /\ l # 0
    BY <1>5, <1>7, <1>12, <1>13
  <2>2. (x \o encoded)[l] = "]" /\ \A i \in 1 .. l - 1 : (x \o encoded)[i] # "]"
    BY <1>10, <2>1, IndexOfFact
  <2>3. ends[n] + l = end
    BY <1>5, <1>7, <2>1
  <2>4. joined[end] = "]"
    BY <1>12, <2>1, <2>2, <2>3
  <2>5. ASSUME NEW j \in ends[n] + 1 .. end - 1 PROVE joined[j] # "]"
    <3>1. j - ends[n] \in 1 .. l - 1 /\ j - ends[n] \in 1 .. end - ends[n] /\ ends[n] + (j - ends[n]) = j
      BY <1>5, <1>7, <2>1
    <3>2. QED
      BY <1>12, <2>2, <3>1
  <2>6. QED
    BY <2>4, <2>5
<1>15. longer \in [0 .. n + 1 -> Nat] /\ longer[n + 1] = end /\ \A i \in 0 .. n : longer[i] = ends[i]
  <2>1. \A i \in 0 .. n + 1 : i # n + 1 => i \in 0 .. n
    BY <1>1
  <2>2. n + 1 \in 0 .. n + 1 /\ \A i \in 0 .. n : i \in 0 .. n + 1 /\ i # n + 1
    BY <1>1
  <2>3. QED
    BY <1>7, <2>1, <2>2
<1> HIDE DEF longer, end
<1>16. FramesEnd(joined, more, k, n + 1, longer)
  <2>1. /\ ends[0] = 0
        /\ \A i \in 0 .. n : ends[i] \in 0 .. Len(joined)
        /\ \A i \in 0 .. n : \A j \in 0 .. n : i < j => ends[i] < ends[j]
        /\ \A i \in 1 .. n :
             /\ joined[ends[i]] = "]"
             /\ \A j \in ends[i - 1] + 1 .. ends[i] - 1 : joined[j] # "]"
             /\ TakenAs(SubSeq(joined, ends[i - 1] + 1, ends[i]), more[k + i])
    BY <1>11 DEF FramesEnd
  <2>2. longer[0] = 0
    <3>1. 0 \in 0 .. n
      BY <1>1
    <3>2. QED
      BY <1>15, <2>1, <3>1
  <2>3. ASSUME NEW i \in 0 .. n PROVE ends[i] \in Nat /\ ends[i] < end
    <3>1. (i = n \/ i < n) /\ n \in 0 .. n
      BY <1>1
    <3>2. i = n \/ ends[i] < ends[n]
      BY <2>1, <3>1
    <3>3. ends[i] \in Nat
      OBVIOUS
    <3>4. QED
      BY <1>5, <1>7, <1>13, <3>2, <3>3
  <2>4. ASSUME NEW i \in 0 .. n + 1 PROVE longer[i] \in 0 .. Len(joined)
    <3>1. CASE i = n + 1
      BY <1>7, <1>15, <3>1 DEF end
    <3>2. CASE i \in 0 .. n
      BY <1>15, <2>1, <3>2
    <3>3. QED
      BY <1>1, <3>1, <3>2
  <2>5. ASSUME NEW i \in 0 .. n + 1, NEW j \in 0 .. n + 1, i < j PROVE longer[i] < longer[j]
    <3>1. i \in 0 .. n
      BY <1>1, <2>5
    <3>2. CASE j = n + 1
      BY <1>15, <2>3, <3>1, <3>2
    <3>3. CASE j \in 0 .. n
      BY <1>15, <2>1, <2>5, <3>1, <3>3
    <3>4. QED
      BY <1>1, <3>2, <3>3
  <2>6. ASSUME NEW i \in 1 .. n + 1
        PROVE  /\ joined[longer[i]] = "]"
               /\ \A j \in longer[i - 1] + 1 .. longer[i] - 1 : joined[j] # "]"
               /\ TakenAs(SubSeq(joined, longer[i - 1] + 1, longer[i]), more[k + i])
    <3>1. CASE i = n + 1
      <4>1. i - 1 = n /\ k + i = Len(messages) + 1
        BY <1>1, <3>1
      <4>2. longer[i] = end /\ longer[i - 1] = ends[n] /\ more[k + i] = m
        BY <1>3, <1>5, <1>15, <3>1, <4>1
      <4>3. TakenAs(SubSeq(joined, ends[n] + 1, end), m)
        <5>1. Len(x \o encoded) = behind + Len(encoded) /\ Len(encoded) \in Nat
          <6>1. ends[n] + behind = Len(text)
            BY <1>2
          <6>2. Len(x \o encoded) = end - ends[n]
            BY <1>12
          <6>3. ends[n] \in Nat /\ end = Len(text) + Len(encoded) /\ Len(encoded) \in Nat
            BY <1>5, <1>7
          <6>4. PICK e \in Nat, t \in Nat, l \in Nat, j \in Nat :
                  e = ends[n] /\ t = Len(text) /\ l = Len(encoded) /\ j = end
            BY <1>1, <1>7, <6>3
          <6>5. e + behind = t /\ j = t + l
            BY <6>1, <6>3, <6>4
          <6>6. j - e = behind + l
            BY <6>5
          <6>7. QED
            BY <6>2, <6>3, <6>4, <6>6, Zenon
        <5>2. MaxFrame \in Nat
          BY TextAssumption DEF TextAssumption
        <5>3. IF m.long THEN Len(x \o encoded) > MaxFrame + 1
                        ELSE Len(x \o encoded) <= MaxFrame + 1
          <6>1. m.long <=> Len(x \o encoded) > MaxFrame + 1
            BY <5>1 DEF encoded
          <6>2. Len(x \o encoded) \in Nat
            BY <5>1
          <6>3. QED
            BY <5>2, <6>1, <6>2
        <5>4. TakenAs(x \o encoded, m)
          BY <1>10, <5>3 DEF TakenAs
        <5>5. QED
          BY <1>8, <5>4 DEF joined, end
      <4>4. QED
        BY <1>14, <4>2, <4>3
    <3>2. CASE i # n + 1
      <4>1. i \in 1 .. n /\ i \in 0 .. n /\ i - 1 \in 0 .. n
        BY <1>1, <3>2
      <4>2. longer[i] = ends[i] /\ longer[i - 1] = ends[i - 1]
        BY <1>15, <4>1
      <4>3. QED
        BY <2>1, <4>1, <4>2
    <3>3. QED
      BY <3>1, <3>2
  <2>7. QED
    BY <2>2, <2>4, <2>5, <2>6 DEF FramesEnd
<1>17. NoBracket(joined, longer[n + 1] + 1)
  <2>1. \A j \in end + 1 .. Len(joined) : FALSE
    BY <1>7 DEF end
  <2>2. QED
    BY <1>15, <2>1 DEF NoBracket
<1>18. k \in 0 .. Len(more) /\ n + 1 = Len(more) - k
  BY <1>1, <1>3
<1>19. joined \in Text
  BY <1>7
<1>20. Frames(joined, more, k, 0)
  <2>1. longer[n + 1] + 0 = Len(joined) /\ 0 \in Nat
    BY <1>7, <1>15 DEF end
  <2>2. QED
    BY <1>3, <1>15, <1>16, <1>17, <1>18, <1>19, <2>1, AreFrames
<1>21. QED
  BY <1>20 DEF joined, more, encoded

\* The first delimiter ends the first frame, which is that of the first message
\* that is awaited, and the others follow.
LEMMA FramesDecode ==
  ASSUME NEW text \in Text, NEW messages \in Seq(Sent), NEW k \in 0 .. Len(messages), NEW behind \in Nat,
         Frames(text, messages, k, behind),
         NEW end, end = IndexOf(text, "]"), end # 0
  PROVE  /\ k < Len(messages)
         /\ TakenAs(SubSeq(text, 1, end), messages[k + 1])
         /\ Frames(SubSeq(text, end + 1, Len(text)), messages, k + 1, behind)
<1> DEFINE n == Len(messages) - k
           rest == SubSeq(text, end + 1, Len(text))
<1>1. Len(text) \in Nat /\ n \in Nat /\ k \in Nat /\ Len(messages) \in Nat
  BY DEF Text
<1>2. PICK ends \in [0 .. n -> Nat] :
        /\ FramesEnd(text, messages, k, n, ends)
        /\ NoBracket(text, ends[n] + 1)
        /\ ends[n] + behind = Len(text)
  BY FramesAre
<1>3. end \in 1 .. Len(text) /\ text[end] = "]" /\ \A i \in 1 .. end - 1 : text[i] # "]"
  <2>1. end \in 0 .. Len(text) /\ text[end] = "]" /\ \A i \in 1 .. end - 1 : text[i] # "]"
    BY IndexOfFact
  <2>2. QED
    BY <1>1, <2>1
<1> HIDE DEF n
<1>4. /\ ends[0] = 0
      /\ \A i \in 0 .. n : ends[i] \in 0 .. Len(text)
      /\ \A i \in 0 .. n : \A j \in 0 .. n : i < j => ends[i] < ends[j]
      /\ \A i \in 1 .. n :
           /\ text[ends[i]] = "]"
           /\ \A j \in ends[i - 1] + 1 .. ends[i] - 1 : text[j] # "]"
           /\ TakenAs(SubSeq(text, ends[i - 1] + 1, ends[i]), messages[k + i])
  BY <1>2 DEF FramesEnd
<1>5. n # 0
  <2>1. CASE n = 0
    <3>1. end \in ends[n] + 1 .. Len(text)
      BY <1>3, <1>4, <2>1
    <3>2. QED
      BY <1>2, <1>3, <3>1 DEF NoBracket
  <2>2. QED
    BY <2>1
<1>6. 1 \in 1 .. n /\ 1 \in 0 .. n /\ 0 \in 0 .. n /\ 1 - 1 = 0 /\ 0 + 1 = 1 /\ k < Len(messages)
  BY <1>1, <1>5 DEF n
<1>7. ends[1] = end
  <2>1. ends[1] \in 1 .. Len(text) /\ text[ends[1]] = "]"
    <3>1. ends[0] < ends[1] /\ ends[1] \in 0 .. Len(text) /\ text[ends[1]] = "]"
      BY <1>4, <1>6
    <3>2. QED
      BY <1>1, <1>4, <3>1
  <2>2. \A j \in 1 .. ends[1] - 1 : text[j] # "]"
    <3>1. \A j \in ends[1 - 1] + 1 .. ends[1] - 1 : text[j] # "]"
      BY <1>4, <1>6
    <3>2. QED
      BY <1>4, <1>6, <3>1
  <2>3. ~(ends[1] < end)
    <3>1. ends[1] < end => ends[1] \in 1 .. end - 1
      BY <1>3, <2>1
    <3>2. QED
      BY <1>3, <2>1, <3>1
  <2>4. ~(end < ends[1])
    <3>1. end < ends[1] => end \in 1 .. ends[1] - 1
      BY <1>3, <2>1
    <3>2. QED
      BY <1>3, <2>2, <3>1
  <2>5. QED
    BY <1>3, <2>1, <2>3, <2>4
<1>8. TakenAs(SubSeq(text, 1, end), messages[k + 1])
  <2>1. TakenAs(SubSeq(text, ends[1 - 1] + 1, ends[1]), messages[k + 1])
    BY <1>4, <1>6
  <2>2. QED
    BY <1>4, <1>6, <1>7, <2>1
<1>9. /\ rest \in Text /\ Len(rest) = Len(text) - end
      /\ \A i \in 1 .. Len(text) - end : rest[i] = text[end + i]
      /\ \A a \in Nat : \A b \in 0 .. Len(text) - end : SubSeq(rest, a + 1, b) = SubSeq(text, end + a + 1, end + b)
  <2>1. end \in 0 .. Len(text)
    BY <1>3
  <2>2. QED
    BY <2>1, PartOfEnd
<1> HIDE DEF rest
<1> DEFINE less == [i \in 0 .. n - 1 |-> ends[i + 1] - end]
<1>10. ASSUME NEW i \in 0 .. n - 1
       PROVE  /\ i + 1 \in 0 .. n /\ i + 1 \in 1 .. n
              /\ less[i] = ends[i + 1] - end /\ less[i] \in 0 .. Len(rest)
              /\ ends[i + 1] \in Nat /\ ends[i + 1] = end + less[i]
  <2>1. i + 1 \in 0 .. n /\ i + 1 \in 1 .. n /\ (i + 1 = 1 \/ 1 < i + 1)
    BY <1>1 DEF n
  <2>2. ends[i + 1] \in 0 .. Len(text) /\ (i + 1 = 1 \/ ends[1] < ends[i + 1])
    BY <1>4, <1>6, <2>1
  <2>3. ends[i + 1] - end \in 0 .. Len(rest) /\ ends[i + 1] \in Nat /\ ends[i + 1] = end + (ends[i + 1] - end)
    <3>1. PICK e \in 0 .. Len(text) : e = ends[i + 1] /\ (e = end \/ end < e)
      BY <1>7, <2>2
    <3>2. end \in Nat /\ Len(text) \in Nat /\ end <= Len(text) /\ e \in Nat /\ e <= Len(text) /\ end <= e
      BY <1>1, <1>3, <3>1
    <3>3. e - end \in 0 .. Len(text) - end /\ e \in Nat /\ e = end + (e - end)
      BY <3>2
    <3>4. QED
      BY <1>9, <3>1, <3>3
  <2>4. QED
    BY <2>1, <2>3
<1>11. less \in [0 .. n - 1 -> Nat]
  <2>1. \A i \in 0 .. n - 1 : ends[i + 1] - end \in Nat
    <3> TAKE i \in 0 .. n - 1
    <3>1. less[i] = ends[i + 1] - end /\ less[i] \in 0 .. Len(rest)
      BY <1>10
    <3>2. Len(rest) \in Nat
      BY <1>9 DEF Text
    <3>3. QED
      BY <3>1, <3>2
  <2>2. QED
    BY <2>1
<1> HIDE DEF less
<1>12. FramesEnd(rest, messages, k + 1, n - 1, less)
  <2>1. less[0] = 0
    <3>1. 0 \in 0 .. n - 1
      BY <1>1, <1>5 DEF n
    <3>2. less[0] = ends[1] - end
      BY <1>6, <1>10, <3>1
    <3>3. QED
      BY <1>3, <1>7, <3>2
  <2>2. \A i \in 0 .. n - 1 : less[i] \in 0 .. Len(rest)
    BY <1>10
  <2>3. ASSUME NEW i \in 0 .. n - 1, NEW j \in 0 .. n - 1, i < j PROVE less[i] < less[j]
    <3>1. ends[i + 1] < ends[j + 1]
      <4>1. i + 1 \in 0 .. n /\ j + 1 \in 0 .. n /\ i + 1 < j + 1
        BY <1>10, <2>3
      <4>2. QED
        BY <1>4, <4>1
    <3>2. QED
      BY <1>3, <1>10, <3>1
  <2>4. ASSUME NEW i \in 1 .. n - 1
        PROVE  /\ rest[less[i]] = "]"
               /\ \A j \in less[i - 1] + 1 .. less[i] - 1 : rest[j] # "]"
               /\ TakenAs(SubSeq(rest, less[i - 1] + 1, less[i]), messages[(k + 1) + i])
    <3>1. i \in 0 .. n - 1 /\ i - 1 \in 0 .. n - 1 /\ (i - 1) + 1 = i /\ (i + 1) - 1 = i
          /\ i + 1 \in 1 .. n /\ k + (i + 1) = (k + 1) + i /\ i - 1 < i
      BY <1>1 DEF n
    <3>2. less[i] \in 0 .. Len(rest) /\ ends[i + 1] = end + less[i] /\ ends[i + 1] \in Nat
      BY <1>10, <3>1
    <3>3. less[i - 1] \in 0 .. Len(rest) /\ ends[i] = end + less[i - 1] /\ ends[i] \in Nat
      BY <1>10, <3>1
    <3>4. less[i - 1] < less[i]
      BY <2>3, <3>1
    <3>5. /\ text[ends[i + 1]] = "]"
          /\ \A j \in ends[i] + 1 .. ends[i + 1] - 1 : text[j] # "]"
          /\ TakenAs(SubSeq(text, ends[i] + 1, ends[i + 1]), messages[(k + 1) + i])
      BY <1>4, <3>1
    <3>6. Len(rest) \in Nat /\ Len(text) - end = Len(rest)
      BY <1>9 DEF Text
    <3>7. rest[less[i]] = "]"
      <4>1. less[i] \in 1 .. Len(rest)
        BY <3>2, <3>3, <3>4, <3>6
      <4>2. QED
        BY <1>9, <3>2, <3>5, <3>6, <4>1
    <3>8. ASSUME NEW j \in less[i - 1] + 1 .. less[i] - 1 PROVE rest[j] # "]"
      <4>1. PICK a \in 0 .. Len(rest), b \in 0 .. Len(rest) :
              a = less[i - 1] /\ b = less[i] /\ ends[i] = end + a /\ ends[i + 1] = end + b
        BY <3>2, <3>3
      <4>2. j \in a + 1 .. b - 1 /\ end \in Nat
        BY <1>3, <4>1
      <4>3. j \in 1 .. Len(rest) /\ end + j \in (end + a) + 1 .. (end + b) - 1
        BY <3>6, <4>2
      <4>4. end + j \in ends[i] + 1 .. ends[i + 1] - 1
        BY <4>1, <4>3
      <4>5. rest[j] = text[end + j]
        BY <1>9, <3>6, <4>3
      <4>6. QED
        BY <3>5, <4>4, <4>5
    <3>9. SubSeq(rest, less[i - 1] + 1, less[i]) = SubSeq(text, ends[i] + 1, ends[i + 1])
      <4>1. less[i - 1] \in Nat /\ less[i] \in 0 .. Len(text) - end /\ end + less[i - 1] + 1 = ends[i] + 1
        BY <3>2, <3>3, <3>6
      <4>2. QED
        BY <1>9, <3>2, <4>1
    <3>10. QED
      BY <3>5, <3>7, <3>8, <3>9
  <2>5. QED
    BY <2>1, <2>2, <2>3, <2>4 DEF FramesEnd
<1>13. NoBracket(rest, less[n - 1] + 1)
  <2>1. n - 1 \in 0 .. n - 1 /\ (n - 1) + 1 = n
    BY <1>1, <1>5 DEF n
  <2>2. ends[n] = end + less[n - 1] /\ less[n - 1] \in 0 .. Len(rest) /\ Len(rest) = Len(text) - end
    BY <1>9, <1>10, <2>1
  <2>3. ASSUME NEW j \in less[n - 1] + 1 .. Len(rest) PROVE rest[j] # "[" /\ rest[j] # "]"
    <3>1. PICK l \in Nat : l = less[n - 1] /\ ends[n] = end + l /\ l + 1 = less[n - 1] + 1
      BY <1>1, <1>3, <2>2
    <3>2. j \in l + 1 .. Len(text) - end /\ l \in Nat /\ end \in Nat
      BY <1>3, <2>2, <3>1
    <3>3. j \in 1 .. Len(text) - end /\ end + j \in (end + l) + 1 .. Len(text)
      BY <1>1, <3>2
    <3>4. end + j \in ends[n] + 1 .. Len(text)
      BY <3>1, <3>3
    <3>5. text[end + j] # "[" /\ text[end + j] # "]"
      BY <1>2, <3>4 DEF NoBracket
    <3>6. QED
      BY <1>9, <3>3, <3>5
  <2>4. QED
    BY <2>3 DEF NoBracket
<1>14. k + 1 \in 0 .. Len(messages) /\ n - 1 = Len(messages) - (k + 1)
  BY <1>1, <1>6 DEF n
<1>15. Frames(rest, messages, k + 1, behind)
  <2>1. n - 1 \in 0 .. n - 1 /\ (n - 1) + 1 = n
    BY <1>1, <1>5 DEF n
  <2>2. ends[n] = end + less[n - 1] /\ less[n - 1] \in Nat
    BY <1>10, <1>11, <2>1
  <2>3. PICK l \in Nat : l = less[n - 1] /\ ends[n] = end + l
    BY <2>2
  <2>4. ends[n] + behind = Len(text) /\ Len(rest) = Len(text) - end
    BY <1>2, <1>9, Zenon
  <2>5. end \in Nat
    BY <1>3
  <2>6. l + behind = Len(rest)
    <3>1. (end + l) + behind = Len(text)
      BY <2>3, <2>4
    <3>2. PICK e \in Nat, t \in Nat, r \in Int : e = end /\ t = Len(text) /\ r = Len(rest)
      BY <1>1, <2>4, <2>5
    <3>3. (e + l) + behind = t /\ r = t - e
      BY <2>4, <3>1, <3>2
    <3>4. l + behind = r
      BY <3>3
    <3>5. QED
      BY <3>2, <3>4, Zenon
  <2>7. less[n - 1] + behind = Len(rest)
    BY <2>3, <2>6
  <2>8. QED
    BY <1>9, <1>11, <1>12, <1>13, <1>14, <2>7, AreFrames
<1>16. QED
  BY <1>6, <1>8, <1>15 DEF rest

LEMMA NoFrame ==
  ASSUME NEW text \in Text, NEW messages \in Seq(Sent), NEW k \in 0 .. Len(messages), NEW behind \in Nat,
         Frames(text, messages, k, behind),
         IndexOf(text, "]") = 0
  PROVE  k = Len(messages)
<1> DEFINE n == Len(messages) - k
<1>1. n \in Nat /\ Len(text) \in Nat /\ Len(messages) \in Nat /\ k \in Nat
  BY DEF Text
<1>2. PICK ends \in [0 .. n -> Nat] : FramesEnd(text, messages, k, n, ends)
  BY FramesAre
<1> HIDE DEF n
<1>3. CASE n # 0
  <2>1. 0 \in 0 .. n /\ 1 \in 0 .. n /\ 1 \in 1 .. n /\ 0 < 1
    BY <1>1, <1>3
  <2>2. ends[0] = 0 /\ ends[0] < ends[1] /\ ends[1] \in 0 .. Len(text) /\ text[ends[1]] = "]"
    BY <1>2, <2>1 DEF FramesEnd
  <2>3. ends[1] \in 1 .. Len(text)
    BY <1>1, <2>2
  <2>4. QED
    BY <2>2, <2>3, IndexOfFact
<1>4. CASE n = 0
  BY <1>1, <1>4 DEF n
<1>5. QED
  BY <1>3, <1>4

-----------------------------------------------------------------------------
(* The messages come out as they were meant.                               *)

LEMMA ConcatTexts ==
  ASSUME NEW a \in Text, NEW b \in Text, NEW c \in Text
  PROVE  (a \o b) \o c = a \o (b \o c)
BY ConcatAssociative DEF Text

LEMMA ConcatThree ==
  ASSUME NEW a \in Text, NEW b \in Text, NEW c \in Text, NEW x \in Text, NEW t, t = a \o (b \o c)
  PROVE  t \o x = a \o (b \o (c \o x))
<1>1. PICK d \in Text : d = b \o c
  BY ConcatText
<1>2. (a \o d) \o x = a \o (d \o x)
  BY ConcatTexts, SMTT(30)
<1>3. (b \o c) \o x = b \o (c \o x)
  BY ConcatTexts, SMTT(30)
<1>4. QED
  BY <1>1, <1>2, <1>3

LEMMA NoDelimiter ==
  ASSUME NEW a \in Text, NEW t \in Text, IndexOf(a, "]") = 0, IndexOf(t, "]") = 0
  PROVE  IndexOf(a \o t, "]") = 0
<1>1. Len(a) \in Nat /\ Len(t) \in Nat
  BY DEF Text
<1>2. /\ a \o t \in Text /\ Len(a \o t) = Len(a) + Len(t)
      /\ \A i \in 1 .. Len(a) + Len(t) : (a \o t)[i] = IF i <= Len(a) THEN a[i] ELSE t[i - Len(a)]
  BY ConcatProperties DEF Text
<1>3. (\A i \in 1 .. Len(a) : a[i] # "]") /\ (\A i \in 1 .. Len(t) : t[i] # "]")
  BY IndexOfFact
<1>4. ASSUME NEW i \in 1 .. Len(a \o t) PROVE (a \o t)[i] # "]"
  <2>1. i \in 1 .. Len(a) + Len(t)
    BY <1>2
  <2>2. CASE i <= Len(a)
    <3>1. i \in 1 .. Len(a)
      BY <1>1, <2>1, <2>2
    <3>2. QED
      BY <1>2, <1>3, <2>1, <2>2, <3>1
  <2>3. CASE ~(i <= Len(a))
    <3>1. i - Len(a) \in 1 .. Len(t)
      BY <1>1, <2>1, <2>3
    <3>2. QED
      BY <1>2, <1>3, <2>1, <2>3, <3>1
  <2>4. QED
    BY <2>2, <2>3
<1>5. QED
  BY <1>2, <1>4, NoIndexOf

\* What was discarded begins a frame that is too long.
Beginning(str) == str # <<>> => Len(str) > MaxFrame /\ IndexOf(str, "]") = 0

LEMMA KeepFact ==
  ASSUME NEW text \in Text, NEW before \in Text, NEW rest \in Text, Keep(text, before), Beginning(before)
  PROVE  discarded' \o (part' \o rest) = before \o (text \o rest) /\ Beginning(discarded')
<1>1. /\ text \in Seq(Characters) /\ before \in Seq(Characters) /\ rest \in Seq(Characters)
      /\ before \o text \in Seq(Characters) /\ Len(before) \in Nat /\ Len(text) \in Nat /\ MaxFrame \in Nat
  BY ConcatText, TextAssumption DEF Text, TextAssumption
<1> DEFINE discard == IndexOf(text, "]") = 0 /\ (before # <<>> \/ Len(text) > MaxFrame)
<1>2. CASE ~discard
  <2>1. part' = text /\ discarded' = before
    BY <1>2 DEF Keep
  <2>2. QED
    BY <2>1
<1>3. CASE discard
  <2>1. part' = <<>> /\ discarded' = before \o text
    BY <1>3 DEF Keep
  <2>2. <<>> \o rest = rest
    BY <1>1, ConcatEmptySeq
  <2>3. (before \o text) \o rest = before \o (text \o rest)
    BY <1>1, ConcatAssociative
  <2>4. Beginning(before \o text)
    <3>1. Len(before \o text) = Len(before) + Len(text)
      BY <1>1, ConcatProperties
    <3>2. CASE before = <<>>
      <4>1. before \o text = text
        BY <1>1, <3>2, ConcatEmptySeq
      <4>2. QED
        BY <1>3, <3>2, <4>1 DEF Beginning
    <3>3. CASE before # <<>>
      <4>1. Len(before) > MaxFrame /\ IndexOf(before, "]") = 0
        BY <3>3 DEF Beginning
      <4>2. Len(before) + Len(text) > MaxFrame
        BY <1>1, <4>1
      <4>3. IndexOf(before \o text, "]") = 0
        BY <1>3, <4>1, NoDelimiter
      <4>4. QED
        BY <3>1, <4>2, <4>3 DEF Beginning
    <3>4. QED
      BY <3>2, <3>3
  <2>5. QED
    BY <2>1, <2>2, <2>3, <2>4
<1>4. QED
  BY <1>2, <1>3

\* The first frame of a text ends in its part.
LEMMA FrameInPart ==
  ASSUME NEW s \in Text, NEW t \in Text, NEW end \in 1 .. Len(s), end = IndexOf(s, "]")
  PROVE  /\ IndexOf(s \o t, "]") = end
         /\ SubSeq(s \o t, 1, end) = SubSeq(s, 1, end)
         /\ SubSeq(s \o t, end + 1, Len(s \o t)) = SubSeq(s, end + 1, Len(s)) \o t
<1>1. Len(s) \in Nat /\ Len(t) \in Nat /\ end \in 0 .. Len(s) /\ 0 + 1 = 1
  BY DEF Text
<1>2. /\ s \o t \in Text /\ Len(s \o t) = Len(s) + Len(t)
      /\ \A i \in 1 .. Len(s) + Len(t) : (s \o t)[i] = IF i <= Len(s) THEN s[i] ELSE t[i - Len(s)]
  BY ConcatProperties DEF Text
<1>3. s[end] = "]" /\ \A i \in 1 .. end - 1 : s[i] # "]"
  BY <1>1, IndexOfFact
<1>4. end \in 1 .. Len(s \o t) /\ (s \o t)[end] = "]"
  <2>1. end \in 1 .. Len(s) + Len(t) /\ end <= Len(s)
    BY <1>1
  <2>2. QED
    BY <1>2, <1>3, <2>1
<1>5. ASSUME NEW i \in 1 .. end - 1 PROVE (s \o t)[i] # "]"
  <2>1. i \in 1 .. Len(s) + Len(t) /\ i <= Len(s)
    BY <1>1
  <2>2. QED
    BY <1>2, <1>3, <2>1
<1>6. IndexOf(s \o t, "]") = end
  BY <1>2, <1>4, <1>5, IndexOfIs
<1>7. SubSeq(s \o t, 0 + 1, end) = SubSeq(s, 0 + 1, end)
  BY <1>1, BeginningFact
<1>8. SubSeq(s \o t, end + 1, Len(s \o t)) = SubSeq(s, end + 1, Len(s)) \o t
  BY <1>1, EndFact
<1>9. QED
  BY <1>1, <1>6, <1>7, <1>8

\* A beginning without delimiter in front of a text makes its first frame longer.
LEMMA FrameBehind ==
  ASSUME NEW a \in Text, NEW t \in Text, IndexOf(a, "]") = 0,
         NEW end \in 1 .. Len(t), end = IndexOf(t, "]")
  PROVE  /\ a \o t \in Text /\ IndexOf(a \o t, "]") = Len(a) + end
         /\ Len(SubSeq(a \o t, 1, Len(a) + end)) = Len(a) + end
         /\ SubSeq(a \o t, Len(a) + end + 1, Len(a \o t)) = SubSeq(t, end + 1, Len(t))
<1> DEFINE s == a \o t
<1>1. Len(a) \in Nat /\ Len(t) \in Nat /\ Len(a) \in 0 .. Len(a)
  BY DEF Text
<1>2. /\ s \in Text /\ Len(s) = Len(a) + Len(t)
      /\ \A i \in 1 .. Len(a) + Len(t) : s[i] = IF i <= Len(a) THEN a[i] ELSE t[i - Len(a)]
  BY ConcatProperties DEF Text
<1>3. SubSeq(s, Len(a) + 1, Len(s)) = t
  <2>1. SubSeq(s, Len(a) + 1, Len(s)) = SubSeq(a, Len(a) + 1, Len(a)) \o t
    BY <1>1, EndFact
  <2>2. SubSeq(a, Len(a) + 1, Len(a)) = <<>>
    <3> DEFINE u == SubSeq(a, Len(a) + 1, Len(a))
    <3>1. u \in Text /\ Len(u) = Len(a) - Len(a)
      BY <1>1, PartOfEnd
    <3> HIDE DEF u
    <3>2. Len(u) = 0
      BY <1>1, <3>1
    <3>3. u = <<>>
      BY <3>1, <3>2, EmptySeq DEF Text
    <3>4. QED
      BY <3>3 DEF u
  <2>3. QED
    BY <2>1, <2>2, ConcatEmptySeq DEF Text
<1> HIDE DEF s
<1>4. t[end] = "]" /\ (\A i \in 1 .. end - 1 : t[i] # "]") /\ \A i \in 1 .. Len(a) : a[i] # "]"
  BY <1>1, IndexOfFact
<1>5. Len(a) + end \in 1 .. Len(s) /\ s[Len(a) + end] = "]"
  <2>1. /\ Len(a) + end \in 1 .. Len(a) + Len(t) /\ ~(Len(a) + end <= Len(a))
        /\ (Len(a) + end) - Len(a) = end
    BY <1>1
  <2>2. QED
    BY <1>2, <1>4, <2>1
<1>6. ASSUME NEW i \in 1 .. (Len(a) + end) - 1 PROVE s[i] # "]"
  <2>1. i \in 1 .. Len(a) + Len(t)
    BY <1>1
  <2>2. CASE i <= Len(a)
    <3>1. i \in 1 .. Len(a)
      BY <1>1, <2>2
    <3>2. QED
      BY <1>2, <1>4, <2>1, <2>2, <3>1
  <2>3. CASE ~(i <= Len(a))
    <3>1. i - Len(a) \in 1 .. end - 1
      BY <1>1, <2>3
    <3>2. QED
      BY <1>2, <1>4, <2>1, <2>3, <3>1
  <2>4. QED
    BY <2>2, <2>3
<1>7. IndexOf(s, "]") = Len(a) + end
  BY <1>2, <1>5, <1>6, IndexOfIs
<1>8. Len(SubSeq(s, 1, Len(a) + end)) = Len(a) + end
  <2>1. 1 \in Nat \ {0} /\ Len(a) + end \in Int /\ Len(a) + end <= Len(s) /\ 1 <= Len(a) + end
    BY <1>1, <1>2
  <2>2. Len(SubSeq(s, 1, Len(a) + end)) = (Len(a) + end) - 1 + 1
    BY <1>2, <2>1, SubText
  <2>3. QED
    BY <2>1, <2>2
<1>9. SubSeq(s, Len(a) + end + 1, Len(s)) = SubSeq(t, end + 1, Len(t))
  <2>1. Len(a) \in 0 .. Len(s) /\ end \in Nat /\ Len(t) \in 0 .. Len(s) - Len(a) /\ Len(a) + Len(t) = Len(s)
    BY <1>1, <1>2
  <2>2. SubSeq(t, end + 1, Len(t)) = SubSeq(s, Len(a) + end + 1, Len(a) + Len(t))
    <3> DEFINE u == SubSeq(s, Len(a) + 1, Len(s))
    <3>1. \A i \in Nat : \A j \in 0 .. Len(s) - Len(a) : SubSeq(u, i + 1, j) = SubSeq(s, Len(a) + i + 1, Len(a) + j)
      BY <1>2, <2>1, PartOfEnd
    <3> HIDE DEF u
    <3>2. SubSeq(u, end + 1, Len(t)) = SubSeq(s, Len(a) + end + 1, Len(a) + Len(t))
      BY <2>1, <3>1
    <3>3. QED
      BY <1>3, <3>2 DEF u
  <2>3. QED
    BY <2>1, <2>2
<1>10. QED
  BY <1>2, <1>7, <1>8, <1>9 DEF s

\* What is awaited, with its types.
LEMMA AwaitedFact ==
  ASSUME TypeOK, FramesAwaited
  PROVE  /\ part \in Text /\ wire \in Text /\ discarded \in Text /\ discarded \o (part \o wire) \in Text
         /\ sent \in Seq(Sent) /\ got \in Seq(Seq(Received)) /\ ahead \in Nat
         /\ Len(sent) \in Nat /\ Len(got) \in 0 .. Len(sent)
         /\ Frames(discarded \o (part \o wire), sent, Len(got), ahead)
         /\ Beginning(discarded)
<1>1. /\ part \in Text /\ wire \in Text /\ discarded \in Text
      /\ sent \in Seq(Sent) /\ got \in Seq(Seq(Received)) /\ ahead \in Nat
      /\ Len(sent) \in Nat /\ Len(got) \in Nat
  BY DEF TypeOK
<1>2. discarded \o (part \o wire) \in Text
  BY <1>1, ConcatText
<1>3. Len(got) \in 0 .. Len(sent)
  BY <1>1 DEF FramesAwaited, DecodedAsMeant
<1>4. QED
  BY <1>1, <1>2, <1>3 DEF FramesAwaited, Beginning

LEMMA SendFrames ==
  ASSUME TypeOK, FramesAwaited, NEW m \in Model, Speakable(m), Send(m)
  PROVE  FramesAwaited'
<1> DEFINE long == ahead + Len(Encoded(m)) > MaxFrame + 1
           message == [model |-> m, long |-> long]
           text == discarded \o (part \o wire)
<1>1. /\ Encoded(m) # <<>> /\ wire' = wire \o Encoded(m) /\ sent' = Append(sent, message) /\ ahead' = 0
      /\ part' = part /\ got' = got /\ discarded' = discarded /\ stalled' = stalled
  BY DEF Send
<1>2. /\ part \in Text /\ wire \in Text /\ discarded \in Text /\ text \in Text
      /\ sent \in Seq(Sent) /\ got \in Seq(Seq(Received)) /\ ahead \in Nat
      /\ Len(sent) \in Nat /\ Len(got) \in 0 .. Len(sent) /\ Frames(text, sent, Len(got), ahead)
  BY AwaitedFact
<1>3. Encoded(m) \in Text
  BY EncodedText
<1>4. message \in Sent /\ message.model = m /\ (message.long <=> long)
  <2>1. long \in BOOLEAN
    OBVIOUS
  <2> HIDE DEF long
  <2>2. QED
    BY <2>1 DEF Sent
<1> HIDE DEF message
<1>5. Len(sent') = Len(sent) + 1 /\ \A i \in 1 .. Len(sent) : sent'[i] = sent[i]
  BY <1>1, <1>2, <1>4, AppendProperties
<1>6. DecodedAsMeant'
  <2>1. Len(got) <= Len(sent')
    BY <1>2, <1>5
  <2>2. ASSUME NEW i \in DOMAIN got
        PROVE  IF sent'[i].long THEN got[i] = <<>> ELSE ReadAsMeant(got[i], sent'[i].model)
    <3>1. i \in 1 .. Len(sent)
      BY <1>2
    <3>2. QED
      BY <1>5, <3>1 DEF FramesAwaited, DecodedAsMeant
  <2>3. QED
    BY <1>1, <2>1, <2>2 DEF DecodedAsMeant
<1>7. Frames(text \o Encoded(m), Append(sent, message), Len(got), 0)
  <2>1. Speakable(message.model) /\ Encoded(message.model) # <<>>
    BY <1>1, <1>4
  <2>2. message.long <=> ahead + Len(Encoded(message.model)) > MaxFrame + 1
    BY <1>4
  <2> HIDE DEF text
  <2>3. Frames(text \o Encoded(message.model), Append(sent, message), Len(got), 0)
    BY <1>2, <1>4, <2>1, <2>2, FramesSend
  <2>4. QED
    BY <1>4, <2>3
<1>8. text \o Encoded(m) = discarded \o (part \o (wire \o Encoded(m)))
  <2>1. PICK e \in Text : e = Encoded(m)
    BY <1>3
  <2>2. discarded \in Text /\ part \in Text /\ wire \in Text
    BY <1>2
  <2>3. ASSUME NEW t, t = discarded \o (part \o wire) PROVE t \o e = discarded \o (part \o (wire \o e))
    BY <2>2, <2>3, ConcatThree, SMTT(30)
  <2>4. QED
    BY <2>1, <2>3, Zenon
<1>9. Frames(discarded' \o (part' \o wire'), sent', Len(got'), ahead')
  BY <1>1, <1>7, <1>8
<1>10. stalled' => Len(got') > 0 /\ sent'[Len(got')].long
  <2>1. stalled => Len(got) > 0 /\ sent[Len(got)].long
    BY DEF FramesAwaited
  <2>2. Len(got) > 0 => Len(got) \in 1 .. Len(sent)
    BY <1>2
  <2>3. QED
    BY <1>1, <1>5, <2>1, <2>2
<1>11. QED
  BY <1>1, <1>6, <1>9, <1>10 DEF FramesAwaited

LEMMA NoiseFrames ==
  ASSUME TypeOK, FramesAwaited, Noise
  PROVE  FramesAwaited'
<1> DEFINE text == discarded \o (part \o wire)
<1>1. PICK n \in Noises : wire' = wire \o n /\ ahead' = ahead + Len(n)
  BY DEF Noise
<1>2. part' = part /\ got' = got /\ sent' = sent /\ discarded' = discarded /\ stalled' = stalled
  BY DEF Noise
<1>3. n \in Text /\ NoBracket(n, 1)
  <2>1. n \in Text
    BY TextAssumption DEF TextAssumption
  <2>2. \A i \in DOMAIN n : n[i] \notin {"[", "]"}
    BY NoiseAssumption DEF NoiseAssumption
  <2>3. DOMAIN n = 1 .. Len(n)
    BY <2>1 DEF Text
  <2>4. QED
    BY <2>1, <2>2, <2>3 DEF NoBracket
<1>4. /\ part \in Text /\ wire \in Text /\ discarded \in Text /\ text \in Text
      /\ sent \in Seq(Sent) /\ ahead \in Nat
      /\ Len(got) \in 0 .. Len(sent) /\ Frames(text, sent, Len(got), ahead)
  BY AwaitedFact
<1>5. Frames(text \o n, sent, Len(got), ahead + Len(n))
  <2> HIDE DEF text
  <2>1. QED
    BY <1>3, <1>4, FramesNoise
<1>6. text \o n = discarded \o (part \o (wire \o n))
  <2>1. discarded \in Text /\ part \in Text /\ wire \in Text /\ n \in Text
    BY <1>3, <1>4
  <2>2. ASSUME NEW t, t = discarded \o (part \o wire) PROVE t \o n = discarded \o (part \o (wire \o n))
    BY <2>1, <2>2, ConcatThree
  <2>3. QED
    BY <2>2, Zenon
<1>7. DecodedAsMeant'
  BY <1>2 DEF FramesAwaited, DecodedAsMeant
<1>8. QED
  BY <1>1, <1>2, <1>5, <1>6, <1>7 DEF FramesAwaited

LEMMA ArriveFrames ==
  ASSUME TypeOK, FramesAwaited, Arrive
  PROVE  FramesAwaited'
<1>1. PICK k \in 1 .. Len(wire) : /\ Keep(part \o SubSeq(wire, 1, k), discarded)
                                  /\ wire' = SubSeq(wire, k + 1, Len(wire))
  BY DEF Arrive
<1>2. got' = got /\ sent' = sent /\ ahead' = ahead /\ ~stalled'
  BY DEF Arrive, history
<1>3. part \in Text /\ wire \in Text /\ discarded \in Text /\ k \in 0 .. Len(wire) /\ Beginning(discarded)
  <2>1. Len(wire) \in Nat
    BY DEF TypeOK, Text
  <2>2. QED
    BY <2>1, AwaitedFact
<1> DEFINE text == part \o SubSeq(wire, 1, k)
<1>4. text \in Text /\ wire' \in Text
  <2>1. SubSeq(wire, 1, k) \in Text /\ SubSeq(wire, k + 1, Len(wire)) \in Text
    <3>1. Len(wire) \in Nat /\ k \in Int /\ k <= Len(wire) /\ k + 1 \in Nat \ {0} /\ 1 \in Nat \ {0} /\ Len(wire) \in Int
      BY <1>3 DEF Text
    <3>2. QED
      BY <1>3, <3>1, SubText
  <2>2. QED
    BY <1>1, <1>3, <2>1, ConcatText
<1>5. text \o wire' = part \o wire
  BY <1>1, <1>3, CutInTwo
<1> HIDE DEF text
<1>6. discarded' \o (part' \o wire') = discarded \o (text \o wire') /\ Beginning(discarded')
  <2>1. PICK rest \in Text : rest = wire'
    BY <1>4
  <2>2. Keep(text, discarded)
    BY <1>1 DEF text
  <2>3. discarded' \o (part' \o rest) = discarded \o (text \o rest) /\ Beginning(discarded')
    BY <1>3, <1>4, <2>2, KeepFact
  <2>4. QED
    BY <2>1, <2>3
<1>7. Frames(discarded' \o (part' \o wire'), sent', Len(got'), ahead')
  BY <1>2, <1>5, <1>6, AwaitedFact
<1>8. DecodedAsMeant'
  BY <1>2 DEF FramesAwaited, DecodedAsMeant
<1>9. QED
  BY <1>2, <1>6, <1>7, <1>8 DEF FramesAwaited, Beginning

\* The frame that the decoder takes is that of the first message that is awaited.
LEMMA NextFrame ==
  ASSUME TypeOK, FramesAwaited, ~Resting,
         NEW frame, frame = SubSeq(discarded \o (part \o wire), 1, Len(discarded) + Len(Frame) + 1)
  PROVE  /\ Len(got) < Len(sent) /\ TakenAs(frame, sent[Len(got) + 1])
         /\ Len(frame) = Len(discarded) + Len(Frame) + 1 /\ Len(Frame) \in Nat /\ Len(discarded) \in Nat
         /\ discarded = <<>> => frame = Append(Frame, "]")
         /\ Frames(Rest \o wire, sent, Len(got) + 1, ahead)
<1> DEFINE text == part \o wire
           whole == discarded \o text
<1>1. /\ part \in Text /\ wire \in Text /\ discarded \in Text /\ text \in Text /\ whole \in Text
      /\ sent \in Seq(Sent) /\ Len(got) \in 0 .. Len(sent) /\ ahead \in Nat
      /\ Frames(whole, sent, Len(got), ahead) /\ Len(part) \in Nat /\ Len(discarded) \in Nat
  BY AwaitedFact, ConcatText DEF Text
<1>2. PICK end \in 1 .. Len(part) : end = IndexOf(part, "]")
  BY <1>1, IndexOfFact DEF Resting
<1>3. Frame \in Text /\ Len(Frame) = end - 1 /\ Len(Frame) \in Nat /\ Frame = SubSeq(part, 1, end - 1)
      /\ Rest = SubSeq(part, end + 1, Len(part))
  BY <1>1, <1>2, CutType DEF Frame, Rest
<1>4. Len(discarded) + Len(Frame) + 1 = Len(discarded) + end
  BY <1>1, <1>3
<1>5. /\ IndexOf(text, "]") = end /\ SubSeq(text, 1, end) = SubSeq(part, 1, end)
      /\ SubSeq(text, end + 1, Len(text)) = Rest \o wire
  <2>1. part \in Text /\ wire \in Text
    BY <1>1
  <2>2. /\ IndexOf(part \o wire, "]") = end
        /\ SubSeq(part \o wire, 1, end) = SubSeq(part, 1, end)
        /\ SubSeq(part \o wire, end + 1, Len(part \o wire)) = SubSeq(part, end + 1, Len(part)) \o wire
    BY <1>2, <2>1, FrameInPart
  <2>3. QED
    BY <1>3, <2>2
<1>6. IndexOf(discarded, "]") = 0
  <2>1. CASE discarded = <<>>
    <3>1. Len(discarded) = 0
      BY <2>1
    <3>2. \A i \in 1 .. Len(discarded) : discarded[i] # "]"
      BY <3>1
    <3>3. QED
      BY <1>1, <3>2, NoIndexOf
  <2>2. QED
    BY <2>1 DEF FramesAwaited
<1>7. end \in 1 .. Len(text)
  <2>1. Len(text) = Len(part) + Len(wire) /\ Len(wire) \in Nat
    BY <1>1, ConcatProperties DEF Text
  <2>2. QED
    BY <1>1, <2>1
<1> HIDE DEF text
<1>8. /\ IndexOf(whole, "]") = Len(discarded) + end
      /\ Len(SubSeq(whole, 1, Len(discarded) + end)) = Len(discarded) + end
      /\ SubSeq(whole, Len(discarded) + end + 1, Len(whole)) = SubSeq(text, end + 1, Len(text))
  BY <1>1, <1>5, <1>6, <1>7, FrameBehind
<1>9. frame = SubSeq(whole, 1, Len(discarded) + end)
  BY <1>4 DEF text
<1>10. discarded = <<>> => frame = Append(Frame, "]")
  <2> SUFFICES ASSUME discarded = <<>> PROVE frame = Append(Frame, "]")
    OBVIOUS
  <2>1. whole = text /\ Len(discarded) = 0
    BY <1>1, ConcatEmptySeq DEF Text
  <2>2. frame = SubSeq(part, 1, end)
    <3>1. Len(discarded) + end = end
      BY <2>1
    <3>2. QED
      BY <1>5, <1>9, <2>1, <3>1
  <2>3. SubSeq(part, 1, end) = SubSeq(part, 1, end - 1) \o <<part[end]>>
    <3>1. 1 \in 1 .. Len(part) /\ end \in 1 .. Len(part)
      BY <1>1
    <3>2. QED
      BY <1>1, <3>1, SubSeqRecursiveSecond DEF Text
  <2>4. part[end] = "]"
    BY <1>1, <1>2, IndexOfFact
  <2>5. PICK close \in Characters : close = "]"
    BY SymbolsText
  <2>6. Append(Frame, close) = Frame \o <<close>>
    BY <1>3, AppendIsConcat DEF Text
  <2>7. QED
    BY <1>3, <2>2, <2>3, <2>4, <2>5, <2>6
<1> HIDE DEF whole
<1>11. /\ Len(got) < Len(sent)
       /\ TakenAs(SubSeq(whole, 1, Len(discarded) + end), sent[Len(got) + 1])
       /\ Frames(SubSeq(whole, Len(discarded) + end + 1, Len(whole)), sent, Len(got) + 1, ahead)
  <2>1. PICK e \in Nat : e = Len(discarded) + end /\ e # 0
    BY <1>1
  <2>2. /\ Len(got) < Len(sent) /\ TakenAs(SubSeq(whole, 1, e), sent[Len(got) + 1])
        /\ Frames(SubSeq(whole, e + 1, Len(whole)), sent, Len(got) + 1, ahead)
    BY <1>1, <1>8, <2>1, FramesDecode
  <2>3. QED
    BY <2>1, <2>2
<1>12. QED
  BY <1>1, <1>3, <1>4, <1>5, <1>8, <1>9, <1>10, <1>11

\* What is fired of the frame is what was meant, or nothing.
LEMMA GotFact ==
  ASSUME TypeOK, DecodedAsMeant, NEW models \in Seq(Received), got' = Append(got, models), sent' = sent,
         Len(got) < Len(sent),
         IF sent[Len(got) + 1].long THEN models = <<>> ELSE ReadAsMeant(models, sent[Len(got) + 1].model)
  PROVE  DecodedAsMeant' /\ Len(got') = Len(got) + 1
<1>1. /\ got \in Seq(Seq(Received)) /\ Len(got) \in Nat /\ Len(sent) \in Nat
  BY DEF TypeOK
<1>2. /\ got' \in Seq(Seq(Received)) /\ Len(got') = Len(got) + 1 /\ got'[Len(got) + 1] = models
      /\ \A i \in 1 .. Len(got) : got'[i] = got[i]
  BY <1>1, AppendProperties
<1>3. ASSUME NEW i \in DOMAIN got'
      PROVE  IF sent[i].long THEN got'[i] = <<>> ELSE ReadAsMeant(got'[i], sent[i].model)
  <2>1. i \in 1 .. Len(got) \/ i = Len(got) + 1
    BY <1>1, <1>2
  <2>2. CASE i \in 1 .. Len(got)
    <3>1. i \in DOMAIN got /\ got'[i] = got[i]
      BY <1>1, <1>2, <2>2
    <3>2. QED
      BY <3>1 DEF DecodedAsMeant
  <2>3. CASE i = Len(got) + 1
    BY <1>2, <2>3
  <2>4. QED
    BY <2>1, <2>2, <2>3
<1>4. Len(got') <= Len(sent)
  BY <1>1, <1>2
<1>5. QED
  BY <1>2, <1>3, <1>4 DEF DecodedAsMeant

LEMMA DecodeFrames ==
  ASSUME TypeOK, FramesAwaited, Decode
  PROVE  FramesAwaited'
<1>1. /\ ~Resting /\ ~stalled /\ discarded = <<>> /\ Len(Frame) <= MaxFrame /\ got' = Append(got, Decoded(Frame))
      /\ Keep(Rest, <<>>) /\ wire' = wire /\ stalled' = stalled /\ sent' = sent /\ ahead' = ahead
  BY DEF Decode, history
<1>2. part \in Text /\ wire \in Text /\ Frame \in Text /\ Rest \in Text /\ <<>> \in Text /\ MaxFrame \in Nat
  BY <1>1, CutType, SymbolsText, TextAssumption DEF TypeOK, TextAssumption
<1>3. PICK frame : frame = SubSeq(discarded \o (part \o wire), 1, Len(discarded) + Len(Frame) + 1)
  OBVIOUS
<1>4. /\ Len(got) < Len(sent) /\ TakenAs(frame, sent[Len(got) + 1])
      /\ Len(frame) = Len(discarded) + Len(Frame) + 1 /\ Len(Frame) \in Nat
      /\ frame = Append(Frame, "]") /\ Frames(Rest \o wire, sent, Len(got) + 1, ahead)
  BY <1>1, <1>3, NextFrame
<1>5. Len(frame) <= MaxFrame + 1
  <2>1. Len(discarded) = 0
    BY <1>1
  <2>2. QED
    BY <1>1, <1>2, <1>4, <2>1
<1>6. ~(Len(frame) > MaxFrame + 1)
  <2>1. Len(frame) \in Nat
    BY <1>1, <1>4
  <2>2. QED
    BY <1>2, <1>5, <2>1
<1>7. ~sent[Len(got) + 1].long /\ ReadAsMeant(Decoded(Frame), sent[Len(got) + 1].model)
  <2>1. ~sent[Len(got) + 1].long /\ ReadAsMeant(Reads(frame), sent[Len(got) + 1].model)
    BY <1>4, <1>6 DEF TakenAs
  <2>2. Reads(frame) = Decoded(Frame)
    BY <1>4 DEF Reads, Decoded
  <2>3. QED
    BY <2>1, <2>2
<1>8. Decoded(Frame) \in Seq(Received)
  <2>1. CASE Decoded(Frame) = <<>>
    BY <2>1
  <2>2. CASE \E m \in Received : Decoded(Frame) = <<m>>
    BY <2>2
  <2>3. QED
    BY <1>2, <2>1, <2>2, DecodedType
<1>9. DecodedAsMeant' /\ Len(got') = Len(got) + 1
  <2>1. PICK models \in Seq(Received) : models = Decoded(Frame)
    BY <1>8
  <2>2. QED
    BY <1>1, <1>4, <1>7, <2>1, GotFact DEF FramesAwaited
<1>10. discarded' \o (part' \o wire) = <<>> \o (Rest \o wire) /\ Beginning(discarded')
  <2>1. Beginning(<<>>)
    BY DEF Beginning
  <2>2. QED
    BY <1>1, <1>2, <2>1, KeepFact
<1>11. <<>> \o (Rest \o wire) = Rest \o wire
  BY <1>2, ConcatText, ConcatEmptySeq DEF Text
<1>12. Frames(discarded' \o (part' \o wire'), sent', Len(got'), ahead')
  BY <1>1, <1>4, <1>9, <1>10, <1>11
<1>13. QED
  BY <1>1, <1>9, <1>10, <1>12 DEF FramesAwaited, Beginning

LEMMA DropFrames ==
  ASSUME TypeOK, FramesAwaited, Drop
  PROVE  FramesAwaited'
<1>1. /\ ~Resting /\ discarded = <<>> /\ Len(Frame) > MaxFrame /\ got' = Append(got, <<>>)
      /\ part' = Rest /\ discarded' = discarded /\ wire' = wire /\ sent' = sent /\ ahead' = ahead
  BY DEF Drop, history
<1>2. part \in Text /\ wire \in Text /\ Rest \in Text /\ MaxFrame \in Nat
  BY <1>1, CutType, TextAssumption DEF TypeOK, TextAssumption
<1>3. PICK frame : frame = SubSeq(discarded \o (part \o wire), 1, Len(discarded) + Len(Frame) + 1)
  OBVIOUS
<1>4. /\ Len(got) < Len(sent) /\ TakenAs(frame, sent[Len(got) + 1])
      /\ Len(frame) = Len(discarded) + Len(Frame) + 1 /\ Len(Frame) \in Nat
      /\ Frames(Rest \o wire, sent, Len(got) + 1, ahead)
  BY <1>1, <1>3, NextFrame
<1>5. sent[Len(got) + 1].long
  <2>1. Len(discarded) = 0
    BY <1>1
  <2>2. ~(Len(frame) <= MaxFrame + 1)
    BY <1>1, <1>2, <1>4, <2>1
  <2>3. QED
    BY <1>4, <2>2 DEF TakenAs
<1>6. DecodedAsMeant' /\ Len(got') = Len(got) + 1
  <2>1. PICK models \in Seq(Received) : models = <<>>
    BY EmptySeq
  <2>2. QED
    BY <1>1, <1>4, <1>5, <2>1, GotFact DEF FramesAwaited
<1>7. discarded' \o (part' \o wire') = Rest \o wire
  BY <1>1, <1>2, ConcatText, ConcatEmptySeq DEF Text
<1>8. Frames(discarded' \o (part' \o wire'), sent', Len(got'), ahead')
  BY <1>1, <1>4, <1>6, <1>7
<1>9. Len(got') > 0 /\ sent'[Len(got')].long
  <2>1. Len(got) \in Nat
    BY DEF TypeOK
  <2>2. Len(got') > 0
    BY <1>6, <2>1
  <2>3. QED
    BY <1>1, <1>5, <1>6, <2>2
<1>10. QED
  BY <1>1, <1>6, <1>8, <1>9 DEF FramesAwaited

LEMMA SkipFrames ==
  ASSUME TypeOK, FramesAwaited, Skip
  PROVE  FramesAwaited'
<1>1. /\ ~Resting /\ ~stalled /\ discarded # <<>> /\ got' = Append(got, <<>>)
      /\ Keep(Rest, <<>>) /\ wire' = wire /\ stalled' = stalled /\ sent' = sent /\ ahead' = ahead
  BY DEF Skip, history
<1>2. part \in Text /\ wire \in Text /\ Rest \in Text /\ <<>> \in Text /\ MaxFrame \in Nat
  BY <1>1, CutType, SymbolsText, TextAssumption DEF TypeOK, TextAssumption
<1>3. PICK frame : frame = SubSeq(discarded \o (part \o wire), 1, Len(discarded) + Len(Frame) + 1)
  OBVIOUS
<1>4. /\ Len(got) < Len(sent) /\ TakenAs(frame, sent[Len(got) + 1])
      /\ Len(frame) = Len(discarded) + Len(Frame) + 1 /\ Len(Frame) \in Nat /\ Len(discarded) \in Nat
      /\ Frames(Rest \o wire, sent, Len(got) + 1, ahead)
  BY <1>1, <1>3, NextFrame
<1>5. sent[Len(got) + 1].long
  <2>1. Len(discarded) > MaxFrame
    BY <1>1 DEF FramesAwaited
  <2>2. ~(Len(frame) <= MaxFrame + 1)
    BY <1>2, <1>4, <2>1
  <2>3. QED
    BY <1>4, <2>2 DEF TakenAs
<1>6. DecodedAsMeant' /\ Len(got') = Len(got) + 1
  <2>1. PICK models \in Seq(Received) : models = <<>>
    BY EmptySeq
  <2>2. QED
    BY <1>1, <1>4, <1>5, <2>1, GotFact DEF FramesAwaited
<1>7. discarded' \o (part' \o wire) = <<>> \o (Rest \o wire) /\ Beginning(discarded')
  <2>1. Beginning(<<>>)
    BY DEF Beginning
  <2>2. QED
    BY <1>1, <1>2, <2>1, KeepFact
<1>8. <<>> \o (Rest \o wire) = Rest \o wire
  BY <1>2, ConcatText, ConcatEmptySeq DEF Text
<1>9. Frames(discarded' \o (part' \o wire'), sent', Len(got'), ahead')
  BY <1>1, <1>4, <1>6, <1>7, <1>8
<1>10. QED
  BY <1>1, <1>6, <1>7, <1>9 DEF FramesAwaited, Beginning

LEMMA FramesInductive == TypeOK /\ FramesAwaited /\ [Next]_vars => FramesAwaited'
<1> SUFFICES ASSUME TypeOK, FramesAwaited, [Next]_vars PROVE FramesAwaited'
  OBVIOUS
<1>1. CASE Encode
  <2>1. PICK m \in Messages : Send(m)
    BY <1>1 DEF Encode
  <2>2. m \in Model /\ Speakable(m)
    BY TextAssumption, ProtocolAssumption DEF TextAssumption, ProtocolAssumption
  <2>3. QED
    BY <2>1, <2>2, SendFrames
<1>2. CASE EncodeTemplate
  <2>1. PICK t \in Templates : Send(GenerateTemplate(t.deviceId, t.type, t.body))
    BY <1>2 DEF EncodeTemplate
  <2>2. /\ GenerateTemplate(t.deviceId, t.type, t.body) \in Model
        /\ Speakable(GenerateTemplate(t.deviceId, t.type, t.body))
    BY TemplateModel, ProtocolAssumption DEF ProtocolAssumption
  <2>3. QED
    BY <2>1, <2>2, SendFrames
<1>3. CASE Noise
  BY <1>3, NoiseFrames
<1>4. CASE Arrive
  BY <1>4, ArriveFrames
<1>5. CASE Decode
  BY <1>5, DecodeFrames
<1>6. CASE Drop
  BY <1>6, DropFrames
<1>7. CASE Skip
  BY <1>7, SkipFrames
<1>8. CASE Disconnect
  <2>1. ~stalled'
    BY <1>8 DEF Disconnect
  <2>2. QED
    BY <1>8, <2>1 DEF Disconnect, FramesAwaited, DecodedAsMeant, history
<1>9. CASE Ended \/ UNCHANGED vars
  BY <1>9 DEF Ended, vars, FramesAwaited, DecodedAsMeant, history
<1>10. QED
  BY <1>1, <1>2, <1>3, <1>4, <1>5, <1>6, <1>7, <1>8, <1>9 DEF Next

LEMMA FramesFirst == Init => FramesAwaited
<1> SUFFICES ASSUME Init PROVE FramesAwaited
  OBVIOUS
<1>1. /\ wire = <<>> /\ part = <<>> /\ discarded = <<>> /\ sent = <<>> /\ got = <<>> /\ ahead = 0
      /\ stalled = FALSE
  BY DEF Init
<1>2. DecodedAsMeant
  BY <1>1 DEF DecodedAsMeant
<1> DEFINE ends == [i \in 0 .. 0 |-> 0]
           text == discarded \o (part \o wire)
<1>3. text = <<>> /\ text \in Text /\ Len(text) = 0 /\ sent \in Seq(Sent) /\ Len(sent) = 0 /\ Len(got) = 0
  BY <1>1 DEF Text
<1>4. ends \in [0 .. 0 -> Nat] /\ ends[0] = 0
  OBVIOUS
<1> HIDE DEF ends, text
<1>5. FramesEnd(text, sent, 0, 0, ends)
  BY <1>3, <1>4 DEF FramesEnd
<1>6. NoBracket(text, ends[0] + 1)
  BY <1>3, <1>4 DEF NoBracket
<1>7. 0 \in 0 .. Len(sent) /\ 0 = Len(sent) - 0 /\ ends[0] + 0 = Len(text) /\ 0 \in Nat
  BY <1>3, <1>4
<1>8. Frames(text, sent, 0, 0)
  BY <1>3, <1>4, <1>5, <1>6, <1>7, AreFrames
<1>9. QED
  BY <1>1, <1>2, <1>3, <1>8 DEF FramesAwaited, text

\* Wherever the stream was cut into pieces and whatever is too long in it: what
\* was discarded, what has arrived and what is on its way are together the
\* frames of the messages that are not decoded yet (DelimiterBasedFrameDecoder,
\* WatchDecoder.decode).
THEOREM FramesHold == Spec => []FramesAwaited
<1>1. Init => TypeOK
  BY InitType
<1>2. QED
  BY <1>1, TypeInductive, FramesFirst, FramesInductive, PTL DEF Spec

\* For any messages of the protocol, any limit, any noise and any pieces: the
\* messages whose frame is within the limit come out of WatchDecoder as they
\* were meant, in the order of WatchEncode and each once, and a frame that is
\* too long costs no message but its own.
THEOREM DecodedCorrect == Spec => []DecodedAsMeant
<1>1. FramesAwaited => DecodedAsMeant
  BY DEF FramesAwaited
<1>2. QED
  BY <1>1, FramesHold, PTL

\* When all that was sent has arrived, all of it has been decoded, or it waits
\* behind a frame that was too long: no other message waits for a later one.
THEOREM NothingHeld == Spec => []NothingHeldBack
<1>1. TypeOK /\ FramesAwaited => NothingHeldBack
  <2> SUFFICES ASSUME TypeOK, FramesAwaited, wire = <<>>, Resting \/ stalled
               PROVE  Len(got) = Len(sent) \/ (stalled /\ sent[Len(got)].long)
    BY DEF NothingHeldBack
  <2>1. CASE stalled
    BY <2>1 DEF FramesAwaited
  <2>2. CASE Resting
    <3>1. /\ part \in Text /\ discarded \in Text /\ discarded \o (part \o wire) \in Text
          /\ sent \in Seq(Sent) /\ Len(got) \in 0 .. Len(sent) /\ ahead \in Nat
          /\ Frames(discarded \o (part \o wire), sent, Len(got), ahead)
      BY AwaitedFact
    <3>2. part \o wire = part
      BY <3>1, ConcatEmptySeq DEF Text
    <3>3. IndexOf(discarded \o part, "]") = 0
      <4>1. IndexOf(part, "]") = 0
        BY <2>2 DEF Resting
      <4>2. CASE discarded = <<>>
        BY <3>1, <4>1, <4>2, ConcatEmptySeq DEF Text
      <4>3. CASE discarded # <<>>
        BY <3>1, <4>1, <4>3, NoDelimiter DEF FramesAwaited
      <4>4. QED
        BY <4>2, <4>3
    <3>4. QED
      BY <3>1, <3>2, <3>3, NoFrame
  <2>3. QED
    BY <2>1, <2>2
<1>2. QED
  BY <1>1, TypeCorrect, FramesHold, PTL

=============================================================================
