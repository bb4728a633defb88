------------------------- MODULE PageObjectsProofs -------------------------
(***************************************************************************)
(* What is proved about PageObjects: whatever is set, in whatever order,   *)
(* the reader of a frame gets what its writer had.                         *)
(***************************************************************************)
EXTENDS PageObjects, FiniteSetTheorems, SequenceTheorems, TLAPS

\* What is proved about the wire format.
JP == INSTANCE JspbProofs

-----------------------------------------------------------------------------
(* The two classes use the same library.                                   *)

LEMMA BodyFlatten == ASSUME NEW seqs PROVE Body!FlattenSeq(seqs) = JP!FlattenSeq(seqs)
  BY DEF Body!FlattenSeq, JP!FlattenSeq

LEMMA BodyEncode == ASSUME NEW text PROVE Body!EncodeString(text) = JP!EncodeString(text)
<1>1. ASSUME NEW c PROVE Body!UnitBytes(text, c) = JP!UnitBytes(text, c)
  BY DEF Body!UnitBytes, JP!UnitBytes, Body!IsHigh, JP!IsHigh, Body!IsLow, JP!IsLow,
         Body!Continuation, JP!Continuation, Body!CodePoint, JP!CodePoint
<1>2. QED
  BY <1>1, BodyFlatten DEF Body!EncodeString, JP!EncodeString

LEMMA BodyDecode == ASSUME NEW bytes PROVE Body!DecodeString(bytes) = JP!DecodeString(bytes)
<1>1. ASSUME NEW c PROVE Body!UnitsAt(bytes, c) = JP!UnitsAt(bytes, c)
  BY DEF Body!Units, JP!Units, Body!UnitsAt, JP!UnitsAt
<1>2. QED
  BY <1>1, BodyFlatten DEF Body!DecodeString, JP!DecodeString

LEMMA BodyVarint == ASSUME NEW n PROVE Body!Varint(n) = JP!Varint(n)
  BY DEF Body!Varint, JP!Varint

LEMMA BodyHeader == ASSUME NEW i, NEW w PROVE Body!FieldHeader(i, w) = JP!FieldHeader(i, w)
  BY BodyVarint DEF Body!FieldHeader, JP!FieldHeader

LEMMA BodyWrites == ASSUME NEW i, NEW text PROVE Body!WriteString(i, text) = JP!WriteString(i, text)
  BY BodyEncode, BodyHeader, BodyVarint, SMTT(30) DEF Body!WriteString, JP!WriteString, Body!DELIMITED, JP!DELIMITED

LEMMA BodyReadsNumber == ASSUME NEW bytes, NEW c PROVE Body!ReadVarint(bytes, c) = JP!ReadVarint(bytes, c)
  BY DEF Body!ReadVarint, JP!ReadVarint, Body!VarintEnd, JP!VarintEnd

LEMMA BodyFieldAt == ASSUME NEW bytes, NEW c PROVE Body!FieldAt(bytes, c) = JP!FieldAt(bytes, c)
  BY DEF Body!FieldAt, JP!FieldAt, Body!ReadVarint, JP!ReadVarint, Body!VarintEnd, JP!VarintEnd,
         Body!Payload, JP!Payload, Body!VARINT, JP!VARINT, Body!DELIMITED, JP!DELIMITED, Body!FIXED64, JP!FIXED64

LEMMA BodyReads == ASSUME NEW bytes PROVE Body!ReadFields(bytes) = JP!ReadFields(bytes)
  BY BodyFieldAt DEF Body!ReadFields, JP!ReadFields

LEMMA BodyFinds ==
  ASSUME NEW fields, NEW i
  PROVE  /\ Body!HasField(fields, i) <=> JP!HasField(fields, i)
         /\ Body!LastField(fields, i) = JP!LastField(fields, i)
<1>1. ASSUME NEW S PROVE Body!Max(S) = JP!Max(S)
  BY DEF Body!Max, JP!Max
<1>2. QED
  BY <1>1 DEF Body!HasField, JP!HasField, Body!LastField, JP!LastField

LEMMA BodyReceives == ASSUME NEW text PROVE Body!Received(text) = JP!Received(text)
<1>1. ASSUME NEW unit PROVE (Body!IsHigh(unit) <=> JP!IsHigh(unit)) /\ (Body!IsLow(unit) <=> JP!IsLow(unit))
  BY DEF Body!IsHigh, JP!IsHigh, Body!IsLow, JP!IsLow
<1>2. QED
  BY <1>1, BodyFlatten DEF Body!Received, JP!Received

LEMMA MsgFlatten == ASSUME NEW seqs PROVE Msg!FlattenSeq(seqs) = JP!FlattenSeq(seqs)
  BY DEF Msg!FlattenSeq, JP!FlattenSeq

LEMMA MsgEncode == ASSUME NEW text PROVE Msg!EncodeString(text) = JP!EncodeString(text)
<1>1. ASSUME NEW c PROVE Msg!UnitBytes(text, c) = JP!UnitBytes(text, c)
  BY DEF Msg!UnitBytes, JP!UnitBytes, Msg!IsHigh, JP!IsHigh, Msg!IsLow, JP!IsLow,
         Msg!Continuation, JP!Continuation, Msg!CodePoint, JP!CodePoint
<1>2. QED
  BY <1>1, MsgFlatten DEF Msg!EncodeString, JP!EncodeString

LEMMA MsgDecode == ASSUME NEW bytes PROVE Msg!DecodeString(bytes) = JP!DecodeString(bytes)
<1>1. ASSUME NEW c PROVE Msg!UnitsAt(bytes, c) = JP!UnitsAt(bytes, c)
  BY DEF Msg!Units, JP!Units, Msg!UnitsAt, JP!UnitsAt
<1>2. QED
  BY <1>1, MsgFlatten DEF Msg!DecodeString, JP!DecodeString

LEMMA MsgVarint == ASSUME NEW n PROVE Msg!Varint(n) = JP!Varint(n)
  BY DEF Msg!Varint, JP!Varint

LEMMA MsgHeader == ASSUME NEW i, NEW w PROVE Msg!FieldHeader(i, w) = JP!FieldHeader(i, w)
  BY MsgVarint DEF Msg!FieldHeader, JP!FieldHeader

LEMMA MsgWrites == ASSUME NEW i, NEW text PROVE Msg!WriteString(i, text) = JP!WriteString(i, text)
  BY MsgEncode, MsgHeader, MsgVarint, SMTT(30) DEF Msg!WriteString, JP!WriteString, Msg!DELIMITED, JP!DELIMITED

LEMMA MsgReadsNumber == ASSUME NEW bytes, NEW c PROVE Msg!ReadVarint(bytes, c) = JP!ReadVarint(bytes, c)
  BY DEF Msg!ReadVarint, JP!ReadVarint, Msg!VarintEnd, JP!VarintEnd

LEMMA MsgFieldAt == ASSUME NEW bytes, NEW c PROVE Msg!FieldAt(bytes, c) = JP!FieldAt(bytes, c)
  BY DEF Msg!FieldAt, JP!FieldAt, Msg!ReadVarint, JP!ReadVarint, Msg!VarintEnd, JP!VarintEnd,
         Msg!Payload, JP!Payload, Msg!VARINT, JP!VARINT, Msg!DELIMITED, JP!DELIMITED, Msg!FIXED64, JP!FIXED64

LEMMA MsgReads == ASSUME NEW bytes PROVE Msg!ReadFields(bytes) = JP!ReadFields(bytes)
  BY MsgFieldAt DEF Msg!ReadFields, JP!ReadFields

LEMMA MsgFinds ==
  ASSUME NEW fields, NEW i
  PROVE  /\ Msg!HasField(fields, i) <=> JP!HasField(fields, i)
         /\ Msg!LastField(fields, i) = JP!LastField(fields, i)
<1>1. ASSUME NEW S PROVE Msg!Max(S) = JP!Max(S)
  BY DEF Msg!Max, JP!Max
<1>2. QED
  BY <1>1 DEF Msg!HasField, JP!HasField, Msg!LastField, JP!LastField

-----------------------------------------------------------------------------
(* Base64.                                                                *)

\* The k-th bit of a base64 text, counted from 0, and the byte of eight bits.
Weights == <<32, 16, 8, 4, 2, 1>>

Bit(text, k) == (text[(k \div 6) + 1] \div Weights[(k % 6) + 1]) % 2

EightBits(text, k) ==
  128 * Bit(text, k) + 64 * Bit(text, k + 1) + 32 * Bit(text, k + 2) + 16 * Bit(text, k + 3)
    + 8 * Bit(text, k + 4) + 4 * Bit(text, k + 5) + 2 * Bit(text, k + 6) + Bit(text, k + 7)

Characters(text) == Cardinality({i \in DOMAIN text : text[i] # Msg!Padding})

LEMMA BytesAre ==
  ASSUME NEW text
  PROVE  BytesOfBase64(text) = [n \in 1 .. (6 * Characters(text)) \div 8 |-> EightBits(text, 8 * (n - 1))]
  BY DEF BytesOfBase64, Characters, EightBits, Bit, Weights

LEMMA BitsOfSix ==
  ASSUME NEW e \in 0 .. 63
  PROVE  \E u, v, w, x, y, z \in {0, 1} :
           /\ (e \div 32) % 2 = u /\ (e \div 16) % 2 = v /\ (e \div 8) % 2 = w
           /\ (e \div 4) % 2 = x /\ (e \div 2) % 2 = y /\ (e \div 1) % 2 = z
           /\ e = 32 * u + 16 * v + 8 * w + 4 * x + 2 * y + z
<1>1. PICK u, v, w, x, y, z :
        /\ (e \div 32) % 2 = u /\ (e \div 16) % 2 = v /\ (e \div 8) % 2 = w
        /\ (e \div 4) % 2 = x /\ (e \div 2) % 2 = y /\ (e \div 1) % 2 = z
  OBVIOUS
<1>2. u \in {0, 1} /\ v \in {0, 1} /\ w \in {0, 1} /\ x \in {0, 1} /\ y \in {0, 1} /\ z \in {0, 1}
  BY <1>1, SMT
<1>3. e = 32 * u + 16 * v + 8 * w + 4 * x + 2 * y + z
  <2>1. e = 2 * (e \div 2) + z
    BY <1>1, SMT
  <2>2. e \div 2 = 2 * (e \div 4) + y
    BY <1>1, SMT
  <2>3. e \div 4 = 2 * (e \div 8) + x
    BY <1>1, SMT
  <2>4. e \div 8 = 2 * (e \div 16) + w
    BY <1>1, SMT
  <2>5. e \div 16 = 2 * (e \div 32) + v
    BY <1>1, SMT
  <2>6. e \div 32 = u
    BY <1>1, SMT
  <2>7. QED
    BY <1>2, <2>1, <2>2, <2>3, <2>4, <2>5, <2>6, SMT
<1>4. QED
  BY <1>1, <1>2, <1>3

LEMMA BitOf ==
  ASSUME NEW text, NEW i \in Nat, NEW b \in 0 .. 5
  PROVE  Bit(text, 6 * i + b) = (text[i + 1] \div Weights[b + 1]) % 2
<1>1. (6 * i + b) \div 6 = i /\ (6 * i + b) % 6 = b
  BY SMT
<1>2. QED
  BY <1>1 DEF Bit

\* The bits of the i-th character, counted from 0.
LEMMA CharacterBits ==
  ASSUME NEW text, NEW i \in Nat, text[i + 1] \in 0 .. 63
  PROVE  \E u, v, w, x, y, z \in {0, 1} :
           /\ Bit(text, 6 * i) = u /\ Bit(text, 6 * i + 1) = v /\ Bit(text, 6 * i + 2) = w
           /\ Bit(text, 6 * i + 3) = x /\ Bit(text, 6 * i + 4) = y /\ Bit(text, 6 * i + 5) = z
           /\ text[i + 1] = 32 * u + 16 * v + 8 * w + 4 * x + 2 * y + z
<1>1. PICK e \in 0 .. 63 : e = text[i + 1]
  OBVIOUS
<1>2. PICK u, v, w, x, y, z \in {0, 1} :
        /\ (e \div 32) % 2 = u /\ (e \div 16) % 2 = v /\ (e \div 8) % 2 = w
        /\ (e \div 4) % 2 = x /\ (e \div 2) % 2 = y /\ (e \div 1) % 2 = z
        /\ e = 32 * u + 16 * v + 8 * w + 4 * x + 2 * y + z
  BY BitsOfSix
<1>3. \A b \in 0 .. 5 : Bit(text, 6 * i + b) = (e \div Weights[b + 1]) % 2
  BY <1>1, BitOf
<1>4. /\ 6 * i + 0 = 6 * i
      /\ Weights[0 + 1] = 32 /\ Weights[1 + 1] = 16 /\ Weights[2 + 1] = 8 /\ Weights[3 + 1] = 4 /\ Weights[4 + 1] = 2
      /\ Weights[5 + 1] = 1
  BY DEF Weights
<1>5. /\ Bit(text, 6 * i + 0) = u /\ Bit(text, 6 * i + 1) = v /\ Bit(text, 6 * i + 2) = w
      /\ Bit(text, 6 * i + 3) = x /\ Bit(text, 6 * i + 4) = y /\ Bit(text, 6 * i + 5) = z
  <2>1. 0 \in 0 .. 5 /\ 1 \in 0 .. 5 /\ 2 \in 0 .. 5 /\ 3 \in 0 .. 5 /\ 4 \in 0 .. 5 /\ 5 \in 0 .. 5
    OBVIOUS
  <2>2. QED
    BY <1>2, <1>3, <1>4, <2>1
<1>6. QED
  BY <1>1, <1>2, <1>4, <1>5

\* The three bytes of four characters.
ByteOne(e, f) == e * 4 + (f \div 16)
ByteTwo(f, g) == (f % 16) * 16 + (g \div 4)
ByteThree(g, h) == (g % 4) * 64 + h

LEMMA FirstByte ==
  ASSUME NEW text, NEW t \in Nat, text[4 * t + 1] \in 0 .. 63, text[4 * t + 2] \in 0 .. 63
  PROVE  EightBits(text, 24 * t) = ByteOne(text[4 * t + 1], text[4 * t + 2])
<1>1. PICK i \in Nat, j \in Nat : i = 4 * t /\ j = 4 * t + 1 /\ j + 1 = 4 * t + 2
  OBVIOUS
<1>2. PICK a1, a2, a3, a4, a5, a6 \in {0, 1} :
           /\ Bit(text, 6 * i) = a1 /\ Bit(text, 6 * i + 1) = a2 /\ Bit(text, 6 * i + 2) = a3
           /\ Bit(text, 6 * i + 3) = a4 /\ Bit(text, 6 * i + 4) = a5 /\ Bit(text, 6 * i + 5) = a6
           /\ text[i + 1] = 32 * a1 + 16 * a2 + 8 * a3 + 4 * a4 + 2 * a5 + a6
  BY <1>1, CharacterBits
<1>3. PICK b1, b2, b3, b4, b5, b6 \in {0, 1} :
           /\ Bit(text, 6 * j) = b1 /\ Bit(text, 6 * j + 1) = b2 /\ Bit(text, 6 * j + 2) = b3
           /\ Bit(text, 6 * j + 3) = b4 /\ Bit(text, 6 * j + 4) = b5 /\ Bit(text, 6 * j + 5) = b6
           /\ text[j + 1] = 32 * b1 + 16 * b2 + 8 * b3 + 4 * b4 + 2 * b5 + b6
  BY <1>1, CharacterBits
<1>4. /\ 24 * t = 6 * i /\ 24 * t + 1 = 6 * i + 1 /\ 24 * t + 2 = 6 * i + 2 /\ 24 * t + 3 = 6 * i + 3
      /\ 24 * t + 4 = 6 * i + 4 /\ 24 * t + 5 = 6 * i + 5 /\ 24 * t + 6 = 6 * j /\ 24 * t + 7 = 6 * j + 1
  BY <1>1
<1>5. EightBits(text, 24 * t) = 128 * a1 + 64 * a2 + 32 * a3 + 16 * a4 + 8 * a5 + 4 * a6 + 2 * b1 + b2
  BY <1>2, <1>3, <1>4, ZenonT(40) DEF EightBits
<1>6. (32 * b1 + 16 * b2 + 8 * b3 + 4 * b4 + 2 * b5 + b6) \div 16 = 2 * b1 + b2
  BY SMT
<1>7. text[4 * t + 1] = 32 * a1 + 16 * a2 + 8 * a3 + 4 * a4 + 2 * a5 + a6
  BY <1>1, <1>2
<1>8. text[4 * t + 2] = 32 * b1 + 16 * b2 + 8 * b3 + 4 * b4 + 2 * b5 + b6
  BY <1>1, <1>3
<1>9. ByteOne(32 * a1 + 16 * a2 + 8 * a3 + 4 * a4 + 2 * a5 + a6, 32 * b1 + 16 * b2 + 8 * b3 + 4 * b4 + 2 * b5 + b6)
        = (32 * a1 + 16 * a2 + 8 * a3 + 4 * a4 + 2 * a5 + a6) * 4 + (2 * b1 + b2)
  BY <1>6, Zenon DEF ByteOne
<1>10. QED
  BY <1>5, <1>7, <1>8, <1>9, SMT

LEMMA SecondByte ==
  ASSUME NEW text, NEW t \in Nat, text[4 * t + 2] \in 0 .. 63, text[4 * t + 3] \in 0 .. 63
  PROVE  EightBits(text, 24 * t + 8) = ByteTwo(text[4 * t + 2], text[4 * t + 3])
<1>1. PICK i \in Nat, j \in Nat : i = 4 * t + 1 /\ i + 1 = 4 * t + 2 /\ j = 4 * t + 2 /\ j + 1 = 4 * t + 3
  OBVIOUS
<1>2. PICK a1, a2, a3, a4, a5, a6 \in {0, 1} :
           /\ Bit(text, 6 * i) = a1 /\ Bit(text, 6 * i + 1) = a2 /\ Bit(text, 6 * i + 2) = a3
           /\ Bit(text, 6 * i + 3) = a4 /\ Bit(text, 6 * i + 4) = a5 /\ Bit(text, 6 * i + 5) = a6
           /\ text[i + 1] = 32 * a1 + 16 * a2 + 8 * a3 + 4 * a4 + 2 * a5 + a6
  BY <1>1, CharacterBits
<1>3. PICK b1, b2, b3, b4, b5, b6 \in {0, 1} :
           /\ Bit(text, 6 * j) = b1 /\ Bit(text, 6 * j + 1) = b2 /\ Bit(text, 6 * j + 2) = b3
           /\ Bit(text, 6 * j + 3) = b4 /\ Bit(text, 6 * j + 4) = b5 /\ Bit(text, 6 * j + 5) = b6
           /\ text[j + 1] = 32 * b1 + 16 * b2 + 8 * b3 + 4 * b4 + 2 * b5 + b6
  BY <1>1, CharacterBits
<1>4. /\ 24 * t + 8 = 6 * i + 2 /\ (24 * t + 8) + 1 = 6 * i + 3 /\ (24 * t + 8) + 2 = 6 * i + 4
      /\ (24 * t + 8) + 3 = 6 * i + 5 /\ (24 * t + 8) + 4 = 6 * j /\ (24 * t + 8) + 5 = 6 * j + 1
      /\ (24 * t + 8) + 6 = 6 * j + 2 /\ (24 * t + 8) + 7 = 6 * j + 3
  BY <1>1
<1>5. EightBits(text, 24 * t + 8) = 128 * a3 + 64 * a4 + 32 * a5 + 16 * a6 + 8 * b1 + 4 * b2 + 2 * b3 + b4
  BY <1>2, <1>3, <1>4, ZenonT(40) DEF EightBits
<1>6. (32 * b1 + 16 * b2 + 8 * b3 + 4 * b4 + 2 * b5 + b6) \div 4 = 8 * b1 + 4 * b2 + 2 * b3 + b4
  BY SMT
<1>7. (32 * a1 + 16 * a2 + 8 * a3 + 4 * a4 + 2 * a5 + a6) % 16 = 8 * a3 + 4 * a4 + 2 * a5 + a6
  BY SMT
<1>8. text[4 * t + 2] = 32 * a1 + 16 * a2 + 8 * a3 + 4 * a4 + 2 * a5 + a6
  BY <1>1, <1>2
<1>9. text[4 * t + 3] = 32 * b1 + 16 * b2 + 8 * b3 + 4 * b4 + 2 * b5 + b6
  BY <1>1, <1>3
<1>10. ByteTwo(32 * a1 + 16 * a2 + 8 * a3 + 4 * a4 + 2 * a5 + a6, 32 * b1 + 16 * b2 + 8 * b3 + 4 * b4 + 2 * b5 + b6)
        = (8 * a3 + 4 * a4 + 2 * a5 + a6) * 16 + (8 * b1 + 4 * b2 + 2 * b3 + b4)
  BY <1>6, <1>7, Zenon DEF ByteTwo
<1>11. QED
  BY <1>5, <1>8, <1>9, <1>10, SMT

LEMMA ThirdByte ==
  ASSUME NEW text, NEW t \in Nat, text[4 * t + 3] \in 0 .. 63, text[4 * t + 4] \in 0 .. 63
  PROVE  EightBits(text, 24 * t + 16) = ByteThree(text[4 * t + 3], text[4 * t + 4])
<1>1. PICK i \in Nat, j \in Nat : i = 4 * t + 2 /\ i + 1 = 4 * t + 3 /\ j = 4 * t + 3 /\ j + 1 = 4 * t + 4
  OBVIOUS
<1>2. PICK a1, a2, a3, a4, a5, a6 \in {0, 1} :
           /\ Bit(text, 6 * i) = a1 /\ Bit(text, 6 * i + 1) = a2 /\ Bit(text, 6 * i + 2) = a3
           /\ Bit(text, 6 * i + 3) = a4 /\ Bit(text, 6 * i + 4) = a5 /\ Bit(text, 6 * i + 5) = a6
           /\ text[i + 1] = 32 * a1 + 16 * a2 + 8 * a3 + 4 * a4 + 2 * a5 + a6
  BY <1>1, CharacterBits
<1>3. PICK b1, b2, b3, b4, b5, b6 \in {0, 1} :
           /\ Bit(text, 6 * j) = b1 /\ Bit(text, 6 * j + 1) = b2 /\ Bit(text, 6 * j + 2) = b3
           /\ Bit(text, 6 * j + 3) = b4 /\ Bit(text, 6 * j + 4) = b5 /\ Bit(text, 6 * j + 5) = b6
           /\ text[j + 1] = 32 * b1 + 16 * b2 + 8 * b3 + 4 * b4 + 2 * b5 + b6
  BY <1>1, CharacterBits
<1>4. /\ 24 * t + 16 = 6 * i + 4 /\ (24 * t + 16) + 1 = 6 * i + 5 /\ (24 * t + 16) + 2 = 6 * j
      /\ (24 * t + 16) + 3 = 6 * j + 1 /\ (24 * t + 16) + 4 = 6 * j + 2 /\ (24 * t + 16) + 5 = 6 * j + 3
      /\ (24 * t + 16) + 6 = 6 * j + 4 /\ (24 * t + 16) + 7 = 6 * j + 5
  BY <1>1
<1>5. EightBits(text, 24 * t + 16) = 128 * a5 + 64 * a6 + 32 * b1 + 16 * b2 + 8 * b3 + 4 * b4 + 2 * b5 + b6
  BY <1>2, <1>3, <1>4, ZenonT(40) DEF EightBits
<1>6. (32 * a1 + 16 * a2 + 8 * a3 + 4 * a4 + 2 * a5 + a6) % 4 = 2 * a5 + a6
  BY SMT
<1>7. text[4 * t + 3] = 32 * a1 + 16 * a2 + 8 * a3 + 4 * a4 + 2 * a5 + a6
  BY <1>1, <1>2
<1>8. text[4 * t + 4] = 32 * b1 + 16 * b2 + 8 * b3 + 4 * b4 + 2 * b5 + b6
  BY <1>1, <1>3
<1>9. ByteThree(32 * a1 + 16 * a2 + 8 * a3 + 4 * a4 + 2 * a5 + a6, 32 * b1 + 16 * b2 + 8 * b3 + 4 * b4 + 2 * b5 + b6)
        = (2 * a5 + a6) * 64 + (32 * b1 + 16 * b2 + 8 * b3 + 4 * b4 + 2 * b5 + b6)
  BY <1>6, Zenon DEF ByteThree
<1>10. QED
  BY <1>5, <1>7, <1>8, <1>9, SMT

\* The first `size` characters stand for bits.
Base64Of(text, size) ==
  /\ size \in 0 .. Len(text)
  /\ \A i \in 1 .. size : text[i] \in 0 .. 63
  /\ \A i \in size + 1 .. Len(text) : text[i] = Msg!Padding
  /\ size % 4 # 1
  /\ Len(text) \in {size, 4 * ((size + 3) \div 4)}

LEMMA CharactersOf ==
  ASSUME NEW S, NEW text \in Seq(S), NEW size, Base64Of(text, size)
  PROVE  Characters(text) = size
<1>0. size \in Nat /\ size <= Len(text) /\ DOMAIN text = 1 .. Len(text) /\ Len(text) \in Nat
  BY DEF Base64Of
<1>1. \A i \in 1 .. size : text[i] # Msg!Padding
  <2>1. Msg!Padding \notin 0 .. 63
    BY DEF Msg!Padding
  <2>2. QED
    BY <2>1 DEF Base64Of
<1>2. \A i \in DOMAIN text : i \in 1 .. size \/ i \in size + 1 .. Len(text)
  BY <1>0
<1>3. \A i \in 1 .. size : i \in DOMAIN text
  BY <1>0
<1>4. {i \in DOMAIN text : text[i] # Msg!Padding} = 1 .. size
  BY <1>1, <1>2, <1>3 DEF Base64Of
<1>5. Cardinality(1 .. size) = size
  BY <1>0, FS_Interval
<1>6. QED
  BY <1>4, <1>5 DEF Characters

\* The group of the characters from d on, by the characters.
Char(text, i, missing) == IF i <= Len(text) THEN text[i] ELSE missing

BytesOfGroup(e, f, g, h) ==
  << ByteOne(e, f) >>
    \o (IF g = Msg!Padding THEN <<>> ELSE << ByteTwo(f, g) >>)
    \o (IF g = Msg!Padding \/ h = Msg!Padding THEN <<>> ELSE << ByteThree(g, h) >>)

GroupAt(text, d) ==
  BytesOfGroup(Char(text, d, 0), Char(text, d + 1, 0), Char(text, d + 2, Msg!Padding), Char(text, d + 3, Msg!Padding))

GroupsOf(text) == [j \in 1 .. (Len(text) + 3) \div 4 |-> GroupAt(text, 4 * j - 3)]

LEMMA DecodedGroups ==
  ASSUME NEW text
  PROVE  Msg!DecodeBase64(text) = JP!FlattenSeq(GroupsOf(text))
<1>1. Msg!DecodeBase64(text) = Msg!FlattenSeq(GroupsOf(text))
  BY DEF Msg!DecodeBase64, GroupsOf, GroupAt, BytesOfGroup, Char, ByteOne, ByteTwo, ByteThree
<1>2. QED
  BY <1>1, MsgFlatten

LEMMA BytesRange ==
  ASSUME NEW e \in 0 .. 63, NEW f \in 0 .. 63
  PROVE  ByteOne(e, f) \in 0 .. 255 /\ ByteTwo(e, f) \in 0 .. 255 /\ ByteThree(e, f) \in 0 .. 255
  BY SMT DEF ByteOne, ByteTwo, ByteThree

LEMMA TwoJoined ==
  ASSUME NEW S, NEW x \in S, NEW y \in S
  PROVE  <<x>> \o <<y>> = <<x, y>>
<1> DEFINE s == <<x>> \o <<y>>
           t == <<x, y>>
<1>1. s \in Seq(S) /\ Len(s) = 2 /\ s[1] = x /\ s[2] = y
  OBVIOUS
<1>2. t \in Seq(S) /\ Len(t) = 2 /\ t[1] = x /\ t[2] = y
  OBVIOUS
<1> HIDE DEF s, t
<1>3. \A i \in 1 .. 2 : i = 1 \/ i = 2
  OBVIOUS
<1>4. \A i \in 1 .. Len(s) : s[i] = t[i]
  BY <1>1, <1>2, <1>3
<1>5. s = t
  BY <1>1, <1>2, <1>4, SeqEqual
<1>6. QED
  BY <1>5 DEF s, t

LEMMA ThreeJoined ==
  ASSUME NEW S, NEW x \in S, NEW y \in S, NEW z \in S
  PROVE  (<<x>> \o <<y>>) \o <<z>> = <<x, y, z>>
<1> DEFINE s == <<x, y>> \o <<z>>
           t == <<x, y, z>>
<1>1. s \in Seq(S) /\ Len(s) = 3 /\ s[1] = x /\ s[2] = y /\ s[3] = z
  OBVIOUS
<1>2. t \in Seq(S) /\ Len(t) = 3 /\ t[1] = x /\ t[2] = y /\ t[3] = z
  OBVIOUS
<1>3. <<x>> \o <<y>> = <<x, y>>
  BY TwoJoined, ZenonT(40)
<1> HIDE DEF s, t
<1>4. \A i \in 1 .. 3 : i = 1 \/ i = 2 \/ i = 3
  OBVIOUS
<1>5. \A i \in 1 .. Len(s) : s[i] = t[i]
  BY <1>1, <1>2, <1>4
<1>6. s = t
  BY <1>1, <1>2, <1>5, SeqEqual
<1>7. QED
  BY <1>3, <1>6 DEF s, t

\* How many bytes a group has.
HasThree(e, f, g, h) == BytesOfGroup(e, f, g, h) = << ByteOne(e, f), ByteTwo(f, g), ByteThree(g, h) >>

LEMMA GroupOfFour ==
  ASSUME NEW e \in 0 .. 63, NEW f \in 0 .. 63, NEW g \in 0 .. 63, NEW h \in 0 .. 63
  PROVE  HasThree(e, f, g, h)
<1>1. g # Msg!Padding /\ h # Msg!Padding
  BY DEF Msg!Padding
<1>2. PICK x \in 0 .. 255, y \in 0 .. 255, z \in 0 .. 255 :
        x = ByteOne(e, f) /\ y = ByteTwo(f, g) /\ z = ByteThree(g, h)
  BY BytesRange, ZenonT(40)
<1>3. BytesOfGroup(e, f, g, h) = (<<x>> \o <<y>>) \o <<z>>
  BY <1>1, <1>2 DEF BytesOfGroup
<1>4. QED
  <2>1. (<<x>> \o <<y>>) \o <<z>> = <<x, y, z>>
    BY ThreeJoined, ZenonT(40)
  <2>2. QED
    BY <1>2, <1>3, <2>1, Zenon DEF HasThree

LEMMA GroupOfThree ==
  ASSUME NEW e \in 0 .. 63, NEW f \in 0 .. 63, NEW g \in 0 .. 63
  PROVE  BytesOfGroup(e, f, g, Msg!Padding) = << ByteOne(e, f), ByteTwo(f, g) >>
<1>1. g # Msg!Padding
  BY DEF Msg!Padding
<1>2. PICK x \in 0 .. 255, y \in 0 .. 255 : x = ByteOne(e, f) /\ y = ByteTwo(f, g)
  BY BytesRange, ZenonT(40)
<1>3. BytesOfGroup(e, f, g, Msg!Padding) = (<<x>> \o <<y>>) \o <<>>
  BY <1>1, <1>2 DEF BytesOfGroup
<1>4. <<x>> \o <<y>> = <<x, y>> /\ <<x, y>> \in Seq(0 .. 255)
  <2>1. <<x>> \o <<y>> = <<x, y>>
    BY TwoJoined, ZenonT(40)
  <2>2. QED
    BY <2>1
<1>5. <<x, y>> \o <<>> = <<x, y>>
  BY <1>4, ConcatEmptySeq
<1>6. QED
  BY <1>2, <1>3, <1>4, <1>5

LEMMA GroupOfTwo ==
  ASSUME NEW e \in 0 .. 63, NEW f \in 0 .. 63
  PROVE  BytesOfGroup(e, f, Msg!Padding, Msg!Padding) = << ByteOne(e, f) >>
<1>1. \A x : (<<x>> \o <<>>) \o <<>> = <<x>>
  OBVIOUS
<1>2. QED
  BY <1>1 DEF BytesOfGroup

\* A group of m bytes after t full ones.
IsGroup(group, text, t, m) ==
  /\ group \in Seq(0 .. 255) /\ Len(group) = m
  /\ \A k \in 1 .. m : group[k] = EightBits(text, 8 * ((3 * t + k) - 1))

LEMMA FullGroup ==
  ASSUME NEW text, Len(text) \in Nat, NEW t \in Nat, 4 * t + 4 <= Len(text),
         text[4 * t + 1] \in 0 .. 63, text[4 * t + 2] \in 0 .. 63,
         text[4 * t + 3] \in 0 .. 63, text[4 * t + 4] \in 0 .. 63
  PROVE  IsGroup(GroupAt(text, 4 * t + 1), text, t, 3)
<1>1. PICK e \in 0 .. 63, f \in 0 .. 63, g \in 0 .. 63, h \in 0 .. 63 :
        e = text[4 * t + 1] /\ f = text[4 * t + 2] /\ g = text[4 * t + 3] /\ h = text[4 * t + 4]
  BY Zenon
<1>2. /\ (4 * t + 1) + 1 = 4 * t + 2 /\ (4 * t + 1) + 2 = 4 * t + 3 /\ (4 * t + 1) + 3 = 4 * t + 4
      /\ 4 * t + 1 <= Len(text) /\ 4 * t + 2 <= Len(text) /\ 4 * t + 3 <= Len(text)
  OBVIOUS
<1>3. GroupAt(text, 4 * t + 1) = BytesOfGroup(e, f, g, h)
  BY <1>1, <1>2 DEF GroupAt, Char
<1>4. PICK x \in 0 .. 255, y \in 0 .. 255, z \in 0 .. 255 :
        x = ByteOne(e, f) /\ y = ByteTwo(f, g) /\ z = ByteThree(g, h)
  BY BytesRange, ZenonT(40)
<1>5. BytesOfGroup(e, f, g, h) = <<x, y, z>>
  <2>1. HasThree(e, f, g, h)
    BY GroupOfFour, ZenonT(40)
  <2>2. QED
    BY <1>4, <2>1, Zenon DEF HasThree
<1>6. EightBits(text, 24 * t) = x /\ EightBits(text, 24 * t + 8) = y /\ EightBits(text, 24 * t + 16) = z
  BY <1>1, <1>4, FirstByte, SecondByte, ThirdByte
<1>7. 8 * ((3 * t + 1) - 1) = 24 * t /\ 8 * ((3 * t + 2) - 1) = 24 * t + 8 /\ 8 * ((3 * t + 3) - 1) = 24 * t + 16
  OBVIOUS
<1>8. ASSUME NEW k \in 1 .. 3 PROVE <<x, y, z>>[k] = EightBits(text, 8 * ((3 * t + k) - 1))
  <2>1. k = 1 \/ k = 2 \/ k = 3
    OBVIOUS
  <2>2. <<x, y, z>>[1] = x /\ <<x, y, z>>[2] = y /\ <<x, y, z>>[3] = z
    OBVIOUS
  <2>3. CASE k = 1
    BY <1>6, <1>7, <2>2, <2>3
  <2>4. CASE k = 2
    BY <1>6, <1>7, <2>2, <2>4
  <2>5. CASE k = 3
    BY <1>6, <1>7, <2>2, <2>5
  <2>6. QED
    BY <2>1, <2>3, <2>4, <2>5
<1>9. <<x, y, z>> \in Seq(0 .. 255) /\ Len(<<x, y, z>>) = 3
  OBVIOUS
<1>10. QED
  BY <1>3, <1>5, <1>8, <1>9, Zenon DEF IsGroup

LEMMA GroupWithoutOne ==
  ASSUME NEW text, Len(text) \in Nat, NEW t \in Nat, 4 * t + 3 <= Len(text),
         text[4 * t + 1] \in 0 .. 63, text[4 * t + 2] \in 0 .. 63, text[4 * t + 3] \in 0 .. 63,
         4 * t + 4 <= Len(text) => text[4 * t + 4] = Msg!Padding
  PROVE  IsGroup(GroupAt(text, 4 * t + 1), text, t, 2)
<1>1. PICK e \in 0 .. 63, f \in 0 .. 63, g \in 0 .. 63 :
        e = text[4 * t + 1] /\ f = text[4 * t + 2] /\ g = text[4 * t + 3]
  BY Zenon
<1>2. /\ (4 * t + 1) + 1 = 4 * t + 2 /\ (4 * t + 1) + 2 = 4 * t + 3 /\ (4 * t + 1) + 3 = 4 * t + 4
      /\ 4 * t + 1 <= Len(text) /\ 4 * t + 2 <= Len(text)
  OBVIOUS
<1>3. GroupAt(text, 4 * t + 1) = BytesOfGroup(e, f, g, Msg!Padding)
  BY <1>1, <1>2 DEF GroupAt, Char
<1>4. PICK x \in 0 .. 255, y \in 0 .. 255 : x = ByteOne(e, f) /\ y = ByteTwo(f, g)
  BY BytesRange, ZenonT(40)
<1>5. BytesOfGroup(e, f, g, Msg!Padding) = <<x, y>>
  BY <1>4, GroupOfThree, ZenonT(40)
<1>6. EightBits(text, 24 * t) = x /\ EightBits(text, 24 * t + 8) = y
  BY <1>1, <1>4, FirstByte, SecondByte
<1>7. 8 * ((3 * t + 1) - 1) = 24 * t /\ 8 * ((3 * t + 2) - 1) = 24 * t + 8
  OBVIOUS
<1>8. ASSUME NEW k \in 1 .. 2 PROVE <<x, y>>[k] = EightBits(text, 8 * ((3 * t + k) - 1))
  <2>1. k = 1 \/ k = 2
    OBVIOUS
  <2>2. <<x, y>>[1] = x /\ <<x, y>>[2] = y
    OBVIOUS
  <2>3. CASE k = 1
    BY <1>6, <1>7, <2>2, <2>3
  <2>4. CASE k = 2
    BY <1>6, <1>7, <2>2, <2>4
  <2>5. QED
    BY <2>1, <2>3, <2>4
<1>9. <<x, y>> \in Seq(0 .. 255) /\ Len(<<x, y>>) = 2
  OBVIOUS
<1>10. QED
  BY <1>3, <1>5, <1>8, <1>9 DEF IsGroup

LEMMA GroupWithoutTwo ==
  ASSUME NEW text, Len(text) \in Nat, NEW t \in Nat, 4 * t + 2 <= Len(text),
         text[4 * t + 1] \in 0 .. 63, text[4 * t + 2] \in 0 .. 63,
         4 * t + 3 <= Len(text) => text[4 * t + 3] = Msg!Padding,
         4 * t + 4 <= Len(text) => text[4 * t + 4] = Msg!Padding
  PROVE  IsGroup(GroupAt(text, 4 * t + 1), text, t, 1)
<1>1. PICK e \in 0 .. 63, f \in 0 .. 63 : e = text[4 * t + 1] /\ f = text[4 * t + 2]
  BY Zenon
<1>2. /\ (4 * t + 1) + 1 = 4 * t + 2 /\ (4 * t + 1) + 2 = 4 * t + 3 /\ (4 * t + 1) + 3 = 4 * t + 4
      /\ 4 * t + 1 <= Len(text)
  OBVIOUS
<1>3. GroupAt(text, 4 * t + 1) = BytesOfGroup(e, f, Msg!Padding, Msg!Padding)
  BY <1>1, <1>2 DEF GroupAt, Char
<1>4. PICK x \in 0 .. 255 : x = ByteOne(e, f)
  BY BytesRange, ZenonT(40)
<1>5. BytesOfGroup(e, f, Msg!Padding, Msg!Padding) = <<x>>
  BY <1>4, GroupOfTwo, Zenon
<1>6. EightBits(text, 24 * t) = x
  BY <1>1, <1>4, FirstByte
<1>7. 8 * ((3 * t + 1) - 1) = 24 * t
  OBVIOUS
<1>8. \A k \in 1 .. 1 : <<x>>[k] = EightBits(text, 8 * ((3 * t + k) - 1))
  BY <1>6, <1>7
<1>9. <<x>> \in Seq(0 .. 255) /\ Len(<<x>>) = 1
  OBVIOUS
<1>10. QED
  BY <1>3, <1>5, <1>8, <1>9 DEF IsGroup

\* Decoding gives the bytes that the text stands for.
LEMMA Decoded ==
  ASSUME NEW S, NEW text \in Seq(S), NEW size, Base64Of(text, size)
  PROVE  /\ Msg!DecodeBase64(text) = BytesOfBase64(text) /\ BytesOfBase64(text) \in Seq(0 .. 255)
         /\ Len(BytesOfBase64(text)) <= size
<1> DEFINE L == Len(text)
           N == (L + 3) \div 4
           B == BytesOfBase64(text)
           seqs == GroupsOf(text)
<1>1. /\ size \in Nat /\ size <= L /\ L \in Nat /\ size % 4 # 1
      /\ \A i \in 1 .. size : text[i] \in 0 .. 63
      /\ \A i \in size + 1 .. L : text[i] = Msg!Padding
      /\ L = size \/ L = 4 * ((size + 3) \div 4)
  BY DEF Base64Of
<1>2. B = [n \in 1 .. (6 * size) \div 8 |-> EightBits(text, 8 * (n - 1))]
  BY BytesAre, CharactersOf
<1>3. Msg!DecodeBase64(text) = JP!FlattenSeq(seqs)
  BY DecodedGroups
<1>4. CASE size = 0
  <2>1. L = 0 /\ N = 0 /\ (6 * size) \div 8 = 0
    <3>1. 4 * ((0 + 3) \div 4) = 0 /\ (0 + 3) \div 4 = 0 /\ (6 * 0) \div 8 = 0
      BY SMT
    <3>2. L = 0
      BY <1>1, <1>4, <3>1
    <3>3. QED
      BY <1>4, <3>1, <3>2
  <2>2. seqs = <<>>
    BY <2>1 DEF GroupsOf
  <2>3. B = <<>>
    BY <1>2, <2>1
  <2>4. JP!FlattenSeq(<<>>) = <<>>
    BY JP!FlattenEmpty
  <2>5. Len(<<>>) <= size /\ <<>> \in Seq(0 .. 255)
    BY <1>4
  <2>6. QED
    BY <1>3, <2>2, <2>3, <2>4, <2>5
<1>5. CASE size # 0
  <2>1. PICK T \in Nat, r \in {2, 3, 4} :
          /\ size = 4 * T + r /\ N = T + 1 /\ (6 * size) \div 8 = 3 * T + (r - 1)
          /\ L = size \/ L = 4 * T + 4
    <3>1. PICK T \in Nat, r \in {2, 3, 4} : size = 4 * T + r
      <4>1. CASE size % 4 = 0
        <5>1. (size \div 4) - 1 \in Nat /\ size = 4 * ((size \div 4) - 1) + 4
          BY <1>1, <1>5, <4>1, SMT
        <5>2. QED
          BY <5>1
      <4>2. CASE size % 4 # 0
        <5>1. PICK q, m : q = size \div 4 /\ m = size % 4
          OBVIOUS
        <5>2. q \in Nat /\ m \in 0 .. 3 /\ size = 4 * q + m
          BY <1>1, <5>1, SMT
        <5>3. m \in {2, 3, 4}
          BY <1>1, <4>2, <5>1, <5>2
        <5>4. QED
          BY <5>2, <5>3
      <4>3. QED
        BY <4>1, <4>2
    <3>2. (size + 3) \div 4 = T + 1 /\ 4 * (T + 1) = 4 * T + 4
      BY <3>1, SMT
    <3>3. (6 * size) \div 8 = 3 * T + (r - 1)
      BY <3>1, SMT
    <3>4. L = size \/ L = 4 * T + 4
      BY <1>1, <3>2
    <3>5. N = T + 1
      BY <3>1, <3>4, SMT
    <3>6. QED
      BY <3>1, <3>3, <3>4, <3>5
  <2>2. seqs = [j \in 1 .. T + 1 |-> GroupAt(text, 4 * j - 3)]
    BY <2>1 DEF GroupsOf
  <2> HIDE DEF B, seqs, N
  <2>3. ASSUME NEW t \in 0 .. T - 1
        PROVE  IsGroup(GroupAt(text, 4 * t + 1), text, t, 3)
    <3>1. /\ 4 * t + 1 \in 1 .. size /\ 4 * t + 2 \in 1 .. size /\ 4 * t + 3 \in 1 .. size /\ 4 * t + 4 \in 1 .. size
          /\ 4 * t + 4 <= L /\ t \in Nat
      BY <1>1, <2>1, SMT
    <3>2. /\ text[4 * t + 1] \in 0 .. 63 /\ text[4 * t + 2] \in 0 .. 63
          /\ text[4 * t + 3] \in 0 .. 63 /\ text[4 * t + 4] \in 0 .. 63
      BY <1>1, <3>1
    <3>3. QED
      BY <1>1, <3>1, <3>2, FullGroup
  <2>4. text[4 * T + 1] \in 0 .. 63 /\ text[4 * T + 2] \in 0 .. 63 /\ 4 * T + 2 <= L
    <3>1. 4 * T + 1 \in 1 .. size /\ 4 * T + 2 \in 1 .. size /\ 4 * T + 2 <= L
      BY <1>1, <2>1, SMT
    <3>2. QED
      BY <1>1, <3>1
  <2>5. IsGroup(GroupAt(text, 4 * T + 1), text, T, r - 1)
    <3>1. CASE r = 4
      <4>1. 4 * T + 3 \in 1 .. size /\ 4 * T + 4 \in 1 .. size /\ 4 * T + 4 <= L
        BY <2>1, <3>1, SMT
      <4>2. text[4 * T + 3] \in 0 .. 63 /\ text[4 * T + 4] \in 0 .. 63
        BY <1>1, <4>1
      <4>3. IsGroup(GroupAt(text, 4 * T + 1), text, T, 3)
        BY <1>1, <2>4, <4>1, <4>2, FullGroup
      <4>4. QED
        BY <3>1, <4>3
    <3>2. CASE r = 3
      <4>1. 4 * T + 3 \in 1 .. size /\ 4 * T + 3 <= L /\ (4 * T + 4 <= L => 4 * T + 4 \in size + 1 .. L)
        BY <1>1, <2>1, <3>2, SMT
      <4>2. text[4 * T + 3] \in 0 .. 63 /\ (4 * T + 4 <= L => text[4 * T + 4] = Msg!Padding)
        BY <1>1, <4>1
      <4>3. IsGroup(GroupAt(text, 4 * T + 1), text, T, 2)
        BY <1>1, <2>4, <4>1, <4>2, GroupWithoutOne
      <4>4. QED
        BY <3>2, <4>3
    <3>3. CASE r = 2
      <4>1. /\ 4 * T + 3 <= L => 4 * T + 3 \in size + 1 .. L
            /\ 4 * T + 4 <= L => 4 * T + 4 \in size + 1 .. L
        BY <1>1, <2>1, <3>3, SMT
      <4>2. /\ 4 * T + 3 <= L => text[4 * T + 3] = Msg!Padding
            /\ 4 * T + 4 <= L => text[4 * T + 4] = Msg!Padding
        BY <1>1, <4>1
      <4>3. IsGroup(GroupAt(text, 4 * T + 1), text, T, 1)
        BY <1>1, <2>4, <4>2, GroupWithoutTwo
      <4>4. QED
        BY <3>3, <4>3
    <3>4. QED
      BY <3>1, <3>2, <3>3
  <2>6. ASSUME NEW j \in 1 .. T + 1
        PROVE  IsGroup(seqs[j], text, j - 1, IF j = T + 1 THEN r - 1 ELSE 3)
    <3>1. PICK t \in 0 .. T : t = j - 1 /\ 4 * j - 3 = 4 * t + 1
      <4>1. j - 1 \in 0 .. T /\ 4 * j - 3 = 4 * (j - 1) + 1
        BY <2>1
      <4>2. QED
        BY <4>1
    <3>2. seqs[j] = GroupAt(text, 4 * t + 1)
      BY <2>2, <3>1
    <3>3. CASE j = T + 1
      <4>1. t = T
        BY <2>1, <3>1, <3>3
      <4>2. QED
        BY <2>5, <3>1, <3>2, <3>3, <4>1
    <3>4. CASE j # T + 1
      <4>1. t \in 0 .. T - 1
        BY <2>1, <3>1, <3>4
      <4>2. QED
        BY <2>3, <3>1, <3>2, <3>4, <4>1
    <3>5. QED
      BY <3>3, <3>4
  <2>7. JP!Groups(seqs, 0 .. 255, 3) /\ Len(seqs) = T + 1 /\ Len(seqs[T + 1]) = r - 1
    <3>1. \A j \in 1 .. T + 1 : GroupAt(text, 4 * j - 3) \in Seq(0 .. 255)
      BY <2>2, <2>6 DEF IsGroup
    <3>2. seqs \in Seq(Seq(0 .. 255)) /\ Len(seqs) = T + 1
      BY <2>1, <2>2, <3>1
    <3>3. \A j \in 1 .. Len(seqs) - 1 : j \in 1 .. T + 1 /\ j # T + 1
      BY <2>1, <3>2
    <3>4. \A j \in 1 .. Len(seqs) - 1 : Len(seqs[j]) = 3
      BY <2>6, <3>3 DEF IsGroup
    <3>5. T + 1 \in 1 .. T + 1 /\ T + 1 >= 1
      BY <2>1
    <3>6. Len(seqs[T + 1]) = r - 1
      BY <2>6, <3>5 DEF IsGroup
    <3>7. QED
      BY <3>2, <3>4, <3>5, <3>6 DEF JP!Groups
  <2>8. /\ JP!FlattenSeq(seqs) \in Seq(0 .. 255)
        /\ Len(JP!FlattenSeq(seqs)) = JP!Place(3, Len(seqs), Len(seqs[Len(seqs)]))
        /\ \A j \in 1 .. Len(seqs) : \A k \in 1 .. Len(seqs[j]) : JP!FlattenSeq(seqs)[JP!Place(3, j, k)] = seqs[j][k]
    <3>1. 3 \in {3, 4}
      OBVIOUS
    <3>2. JP!Flattened(seqs, 0 .. 255, 3)
      BY <2>7, <3>1, JP!FlattenGroups
    <3>3. QED
      BY <3>2 DEF JP!Flattened
  <2>9. PICK F \in Seq(0 .. 255) : F = JP!FlattenSeq(seqs)
    BY <2>8
  <2>10. Len(F) = 3 * T + (r - 1)
    <3>1. Len(F) = 3 * ((T + 1) - 1) + (r - 1)
      BY <2>7, <2>8, <2>9, Zenon DEF JP!Place
    <3>2. QED
      BY <2>1, <3>1
  <2>11. ASSUME NEW n \in 1 .. 3 * T + (r - 1) PROVE F[n] = EightBits(text, 8 * (n - 1))
    <3>1. PICK j \in 1 .. T + 1, k \in 1 .. 3 : n = 3 * (j - 1) + k /\ (j = T + 1 => k <= r - 1)
      <4>1. PICK q, m : q = (n - 1) \div 3 /\ m = (n - 1) % 3
        OBVIOUS
      <4>2. q \in 0 .. T /\ m \in 0 .. 2 /\ n - 1 = 3 * q + m
        <5>1. PICK d \in Nat : d = n - 1 /\ d <= 3 * T + 2
          <6>1. n - 1 \in Nat /\ n - 1 <= 3 * T + 2
            BY <2>1
          <6>2. QED
            BY <6>1
        <5>2. q = d \div 3 /\ m = d % 3
          BY <4>1, <5>1
        <5>3. q \in Nat /\ m \in 0 .. 2 /\ d = 3 * q + m
          BY <5>2, SMT
        <5>4. q <= T
          BY <5>1, <5>3, SMT
        <5>5. QED
          BY <5>1, <5>3, <5>4
      <4>3. q + 1 \in 1 .. T + 1 /\ m + 1 \in 1 .. 3 /\ n = 3 * ((q + 1) - 1) + (m + 1) /\ (q + 1 = T + 1 => m + 1 <= r - 1)
        BY <2>1, <4>2, SMT
      <4>4. QED
        BY <4>3
    <3>2. Len(seqs[j]) = IF j = T + 1 THEN r - 1 ELSE 3
      BY <2>6 DEF IsGroup
    <3>3. k \in 1 .. Len(seqs[j]) /\ j \in 1 .. Len(seqs)
      BY <2>1, <2>7, <3>1, <3>2
    <3>4. F[JP!Place(3, j, k)] = seqs[j][k]
      BY <2>8, <2>9, <3>3
    <3>5. seqs[j][k] = EightBits(text, 8 * ((3 * (j - 1) + k) - 1))
      BY <2>6, <3>2, <3>3 DEF IsGroup
    <3>6. JP!Place(3, j, k) = n
      BY <3>1 DEF JP!Place
    <3>7. QED
      BY <3>1, <3>4, <3>5, <3>6
  <2>12. F = B
    <3>1. B = [n \in 1 .. 3 * T + (r - 1) |-> EightBits(text, 8 * (n - 1))]
      BY <1>2, <2>1
    <3>2. F = [n \in 1 .. 3 * T + (r - 1) |-> F[n]]
      <4>1. F = [n \in 1 .. Len(F) |-> F[n]]
        OBVIOUS
      <4>2. QED
        BY <2>10, <4>1
    <3>3. QED
      BY <2>11, <3>1, <3>2
  <2>13. 3 * T + (r - 1) <= size
    BY <2>1, SMTT(30)
  <2>14. QED
    BY <1>3, <2>9, <2>10, <2>12, <2>13 DEF B, seqs
<1>6. QED
  BY <1>4, <1>5

\* The four characters of three bytes.
CharOne(x) == x \div 4
CharTwo(x, y) == (x % 4) * 16 + (y \div 16)
CharThree(y, z) == (y % 16) * 4 + (z \div 64)
CharFour(z) == z % 64

LEMMA SplitBy4 ==
  ASSUME NEW x \in 0 .. 255
  PROVE  \E q \in 0 .. 63, p \in 0 .. 3 : x \div 4 = q /\ x % 4 = p /\ x = 4 * q + p
<1>1. PICK q, p : q = x \div 4 /\ p = x % 4
  OBVIOUS
<1>2. q \in 0 .. 63 /\ p \in 0 .. 3 /\ x = 4 * q + p
  BY <1>1, SMTT(30)
<1>3. QED
  BY <1>1, <1>2, ZenonT(20)

LEMMA SplitBy16 ==
  ASSUME NEW x \in 0 .. 255
  PROVE  \E q \in 0 .. 15, p \in 0 .. 15 : x \div 16 = q /\ x % 16 = p /\ x = 16 * q + p
<1>1. PICK q, p : q = x \div 16 /\ p = x % 16
  OBVIOUS
<1>2. q \in 0 .. 15 /\ p \in 0 .. 15 /\ x = 16 * q + p
  BY <1>1, SMTT(30)
<1>3. QED
  BY <1>1, <1>2, ZenonT(20)

LEMMA SplitBy64 ==
  ASSUME NEW x \in 0 .. 255
  PROVE  \E q \in 0 .. 3, p \in 0 .. 63 : x \div 64 = q /\ x % 64 = p /\ x = 64 * q + p
<1>1. PICK q, p : q = x \div 64 /\ p = x % 64
  OBVIOUS
<1>2. q \in 0 .. 3 /\ p \in 0 .. 63 /\ x = 64 * q + p
  BY <1>1, SMTT(30)
<1>3. QED
  BY <1>1, <1>2, ZenonT(20)

LEMMA CharOneRange == ASSUME NEW x \in 0 .. 255 PROVE CharOne(x) \in 0 .. 63
  BY SMT DEF CharOne

LEMMA CharTwoRange == ASSUME NEW x \in 0 .. 255, NEW y \in 0 .. 255 PROVE CharTwo(x, y) \in 0 .. 63
  BY SMT DEF CharTwo

LEMMA CharThreeRange == ASSUME NEW y \in 0 .. 255, NEW z \in 0 .. 255 PROVE CharThree(y, z) \in 0 .. 63
  BY SMT DEF CharThree

LEMMA CharFourRange == ASSUME NEW z \in 0 .. 255 PROVE CharFour(z) \in 0 .. 63
  BY SMT DEF CharFour

LEMMA FirstBack ==
  ASSUME NEW x \in 0 .. 255, NEW y \in 0 .. 255
  PROVE  ByteOne(CharOne(x), CharTwo(x, y)) = x
<1>1. PICK q \in 0 .. 63, p \in 0 .. 3 : x \div 4 = q /\ x % 4 = p /\ x = 4 * q + p
  BY SplitBy4
<1>2. PICK u \in 0 .. 15, v \in 0 .. 15 : y \div 16 = u /\ y % 16 = v /\ y = 16 * u + v
  BY SplitBy16
<1>3. CharOne(x) = q /\ CharTwo(x, y) = p * 16 + u
  BY <1>1, <1>2 DEF CharOne, CharTwo
<1>4. q * 4 + ((p * 16 + u) \div 16) = x
  BY <1>1, SMT
<1>5. QED
  BY <1>3, <1>4 DEF ByteOne

LEMMA SecondBack ==
  ASSUME NEW x \in 0 .. 255, NEW y \in 0 .. 255, NEW z \in 0 .. 255
  PROVE  ByteTwo(CharTwo(x, y), CharThree(y, z)) = y
<1>1. PICK q \in 0 .. 63, p \in 0 .. 3 : x \div 4 = q /\ x % 4 = p /\ x = 4 * q + p
  BY SplitBy4
<1>2. PICK u \in 0 .. 15, v \in 0 .. 15 : y \div 16 = u /\ y % 16 = v /\ y = 16 * u + v
  BY SplitBy16
<1>3. PICK s \in 0 .. 3, t \in 0 .. 63 : z \div 64 = s /\ z % 64 = t /\ z = 64 * s + t
  BY SplitBy64
<1>4. CharTwo(x, y) = p * 16 + u /\ CharThree(y, z) = v * 4 + s
  BY <1>1, <1>2, <1>3 DEF CharTwo, CharThree
<1>5. ((p * 16 + u) % 16) * 16 + ((v * 4 + s) \div 4) = y
  <2>1. (p * 16 + u) % 16 = u /\ (v * 4 + s) \div 4 = v
    BY SMT
  <2>2. QED
    BY <1>2, <2>1
<1>6. QED
  BY <1>4, <1>5 DEF ByteTwo

LEMMA ThirdBack ==
  ASSUME NEW y \in 0 .. 255, NEW z \in 0 .. 255
  PROVE  ByteThree(CharThree(y, z), CharFour(z)) = z
<1>1. PICK u \in 0 .. 15, v \in 0 .. 15 : y \div 16 = u /\ y % 16 = v /\ y = 16 * u + v
  BY SplitBy16
<1>2. PICK s \in 0 .. 3, t \in 0 .. 63 : z \div 64 = s /\ z % 64 = t /\ z = 64 * s + t
  BY SplitBy64
<1>3. CharThree(y, z) = v * 4 + s /\ CharFour(z) = t
  BY <1>1, <1>2 DEF CharThree, CharFour
<1>4. ((v * 4 + s) % 4) * 64 + t = z
  <2>1. (v * 4 + s) % 4 = s
    BY SMT
  <2>2. QED
    BY <1>2, <2>1
<1>5. QED
  BY <1>3, <1>4 DEF ByteThree

\* The group of the bytes from e on.
ByteAt(bytes, i) == IF i <= Len(bytes) THEN bytes[i] ELSE 0

CharsAt(bytes, e) ==
  << CharOne(ByteAt(bytes, e)), CharTwo(ByteAt(bytes, e), ByteAt(bytes, e + 1)),
     IF e + 1 > Len(bytes) THEN Msg!Padding ELSE CharThree(ByteAt(bytes, e + 1), ByteAt(bytes, e + 2)),
     IF e + 2 > Len(bytes) THEN Msg!Padding ELSE CharFour(ByteAt(bytes, e + 2)) >>

IsQuad(chars) == chars \in Seq(0 .. 64) /\ Len(chars) = 4

LEMMA CharsAtType ==
  ASSUME NEW bytes, NEW e, ByteAt(bytes, e) \in 0 .. 255, ByteAt(bytes, e + 1) \in 0 .. 255,
         ByteAt(bytes, e + 2) \in 0 .. 255
  PROVE  IsQuad(CharsAt(bytes, e))
<1>1. \A i \in 0 .. 63 : i \in 0 .. 64
  OBVIOUS
<1>2. Msg!Padding \in 0 .. 64
  BY DEF Msg!Padding
<1> DEFINE a == CharOne(ByteAt(bytes, e))
           b == CharTwo(ByteAt(bytes, e), ByteAt(bytes, e + 1))
           third == CharThree(ByteAt(bytes, e + 1), ByteAt(bytes, e + 2))
           fourth == CharFour(ByteAt(bytes, e + 2))
           c == IF e + 1 > Len(bytes) THEN Msg!Padding ELSE third
           d == IF e + 2 > Len(bytes) THEN Msg!Padding ELSE fourth
<1>3. a \in 0 .. 64
  BY <1>1, CharOneRange, ZenonT(40)
<1>4. b \in 0 .. 64
  BY <1>1, CharTwoRange, ZenonT(40)
<1>5. third \in 0 .. 64
  BY <1>1, CharThreeRange, ZenonT(40)
<1>6. fourth \in 0 .. 64
  BY <1>1, CharFourRange
<1>7. CharsAt(bytes, e) = <<a, b, c, d>>
  BY DEF CharsAt
<1> HIDE DEF a, b, third, fourth
<1>8. c \in 0 .. 64 /\ d \in 0 .. 64
  BY <1>2, <1>5, <1>6
<1> HIDE DEF c, d
<1>9. IsQuad(<<a, b, c, d>>)
  BY <1>3, <1>4, <1>8 DEF IsQuad
<1>10. QED
  BY <1>7, <1>9, Zenon

CharGroups(bytes) == [j \in 1 .. (Len(bytes) + 2) \div 3 |-> CharsAt(bytes, 3 * j - 2)]

LEMMA EncodedGroups ==
  ASSUME NEW bytes
  PROVE  Msg!EncodeBase64(bytes) = JP!FlattenSeq(CharGroups(bytes))
<1>1. Msg!EncodeBase64(bytes) = Msg!FlattenSeq(CharGroups(bytes))
  BY DEF Msg!EncodeBase64, CharGroups, CharsAt, ByteAt, CharOne, CharTwo, CharThree, CharFour
<1>2. QED
  BY <1>1, MsgFlatten

\* What is encoded stands for the bytes that it was made of.
LEMMA Encoded ==
  ASSUME NEW bytes \in Seq(0 .. 255)
  PROVE  BytesOfBase64(Msg!EncodeBase64(bytes)) = bytes
<1> DEFINE L == Len(bytes)
           N == (L + 2) \div 3
           seqs == CharGroups(bytes)
           text == Msg!EncodeBase64(bytes)
<1>1. L \in Nat /\ text = JP!FlattenSeq(seqs)
  BY EncodedGroups
<1>2. \A i \in Nat : ByteAt(bytes, i + 1) \in 0 .. 255
  <2>1. ASSUME NEW i \in Nat, i + 1 <= L PROVE bytes[i + 1] \in 0 .. 255
    <3>1. i + 1 \in 1 .. L
      BY <1>1, <2>1
    <3>2. QED
      BY <3>1, ElementOfSeq
  <2>2. 0 \in 0 .. 255
    OBVIOUS
  <2>3. QED
    BY <2>1, <2>2 DEF ByteAt
<1>3. CASE L = 0
  <2>1. bytes = <<>> /\ N = 0
    <3>1. (0 + 2) \div 3 = 0
      BY SMT
    <3>2. QED
      BY <1>3, <3>1
  <2>2. seqs = <<>>
    BY <2>1 DEF CharGroups
  <2>3. text = <<>>
    BY <1>1, <2>2, JP!FlattenEmpty
  <2>4. Base64Of(<<>>, 0)
    <3>1. 0 \in 0 .. 0 /\ 0 % 4 # 1 /\ Len(<<>>) = 0
      BY SMT
    <3>2. QED
      BY <3>1 DEF Base64Of
  <2>5. Characters(<<>>) = 0
    <3>1. <<>> \in Seq(Nat)
      OBVIOUS
    <3>2. QED
      BY <2>4, <3>1, CharactersOf
  <2>6. (6 * 0) \div 8 = 0
    BY SMT
  <2>7. BytesOfBase64(<<>>) = <<>>
    BY <2>5, <2>6, BytesAre
  <2>8. QED
    BY <2>1, <2>3, <2>7
<1>4. CASE L # 0
  <2>1. PICK T \in Nat, r \in {1, 2, 3} : L = 3 * T + r /\ N = T + 1
    <3>1. PICK q, m : q = (L - 1) \div 3 /\ m = (L - 1) % 3
      OBVIOUS
    <3>2. PICK d \in Nat : d = L - 1
      BY <1>1, <1>4
    <3>3. q \in Nat /\ m \in 0 .. 2 /\ d = 3 * q + m
      BY <3>1, <3>2, SMTT(30)
    <3>4. L = 3 * q + (m + 1) /\ m + 1 \in {1, 2, 3}
      BY <1>1, <3>2, <3>3
    <3>5. N = q + 1
      BY <3>3, <3>4, SMT
    <3>6. QED
      BY <3>3, <3>4, <3>5
  <2>2. seqs = [j \in 1 .. T + 1 |-> CharsAt(bytes, 3 * j - 2)]
    BY <2>1 DEF CharGroups
  <2> HIDE DEF seqs, text, N
  <2>3. ASSUME NEW j \in 1 .. T + 1
        PROVE  seqs[j] = CharsAt(bytes, 3 * (j - 1) + 1) /\ IsQuad(seqs[j])
    <3>1. PICK e \in Nat : e = 3 * (j - 1) /\ 3 * j - 2 = e + 1 /\ e + 1 = 3 * (j - 1) + 1
      <4>1. 3 * (j - 1) \in Nat /\ 3 * j - 2 = 3 * (j - 1) + 1
        BY <2>1
      <4>2. QED
        BY <4>1
    <3>2. seqs[j] = CharsAt(bytes, e + 1)
      BY <2>2, <3>1
    <3>3. e + 1 \in Nat /\ e + 2 \in Nat /\ (e + 1) + 1 = (e + 1) + 1 /\ (e + 2) + 1 = (e + 1) + 2
      OBVIOUS
    <3>4. /\ ByteAt(bytes, e + 1) \in 0 .. 255 /\ ByteAt(bytes, (e + 1) + 1) \in 0 .. 255
          /\ ByteAt(bytes, (e + 1) + 2) \in 0 .. 255
      BY <1>2, <3>3
    <3>5. IsQuad(CharsAt(bytes, e + 1))
      BY <3>4, CharsAtType
    <3>6. QED
      BY <3>1, <3>2, <3>5
  <2>4. JP!Groups(seqs, 0 .. 64, 4) /\ Len(seqs) = T + 1 /\ Len(seqs[T + 1]) = 4
    <3>1. \A j \in 1 .. T + 1 : CharsAt(bytes, 3 * j - 2) \in Seq(0 .. 64)
      BY <2>2, <2>3 DEF IsQuad
    <3>2. seqs \in Seq(Seq(0 .. 64)) /\ Len(seqs) = T + 1
      BY <2>1, <2>2, <3>1
    <3>3. \A j \in 1 .. Len(seqs) - 1 : j \in 1 .. T + 1
      BY <2>1, <3>2
    <3>4. T + 1 \in 1 .. T + 1 /\ T + 1 >= 1
      BY <2>1
    <3>5. \A j \in 1 .. T + 1 : Len(seqs[j]) = 4
      BY <2>3 DEF IsQuad
    <3>6. QED
      BY <3>2, <3>3, <3>4, <3>5 DEF JP!Groups
  <2>5. JP!Flattened(seqs, 0 .. 64, 4)
    <3>1. 4 \in {3, 4}
      OBVIOUS
    <3>2. QED
      BY <2>4, <3>1, JP!FlattenGroups
  <2>6. /\ text \in Seq(0 .. 64) /\ Len(text) = JP!Place(4, Len(seqs), Len(seqs[Len(seqs)]))
        /\ \A j \in 1 .. Len(seqs) : \A k \in 1 .. Len(seqs[j]) : text[JP!Place(4, j, k)] = seqs[j][k]
    BY <1>1, <2>5 DEF JP!Flattened, text, seqs
  <2>7. Len(text) = 4 * T + 4
    <3>1. Len(text) = 4 * ((T + 1) - 1) + 4
      BY <2>4, <2>6, Zenon DEF JP!Place
    <3>2. QED
      BY <2>1, <3>1
  <2>8. ASSUME NEW t \in 0 .. T
        PROVE  /\ text[4 * t + 1] = CharOne(ByteAt(bytes, 3 * t + 1))
               /\ text[4 * t + 2] = CharTwo(ByteAt(bytes, 3 * t + 1), ByteAt(bytes, 3 * t + 2))
               /\ text[4 * t + 3] = IF 3 * t + 2 > L THEN Msg!Padding
                                     ELSE CharThree(ByteAt(bytes, 3 * t + 2), ByteAt(bytes, 3 * t + 3))
               /\ text[4 * t + 4] = IF 3 * t + 3 > L THEN Msg!Padding ELSE CharFour(ByteAt(bytes, 3 * t + 3))
    <3>1. PICK j \in 1 .. T + 1 : j - 1 = t
      <4>1. t + 1 \in 1 .. T + 1 /\ (t + 1) - 1 = t
        BY <2>1
      <4>2. QED
        BY <4>1
    <3>2. (3 * t + 1) + 1 = 3 * t + 2 /\ (3 * t + 1) + 2 = 3 * t + 3
      BY <2>1
    <3>3. seqs[j] = CharsAt(bytes, 3 * t + 1) /\ Len(seqs[j]) = 4 /\ j \in 1 .. Len(seqs)
      BY <2>3, <2>4, <3>1 DEF IsQuad
    <3>4. \A k \in 1 .. 4 : text[4 * t + k] = seqs[j][k]
      BY <2>6, <3>1, <3>3 DEF JP!Place
    <3>5. 1 \in 1 .. 4 /\ 2 \in 1 .. 4 /\ 3 \in 1 .. 4 /\ 4 \in 1 .. 4
      OBVIOUS
    <3>6. PICK a, b, c, d :
            /\ a = CharOne(ByteAt(bytes, 3 * t + 1))
            /\ b = CharTwo(ByteAt(bytes, 3 * t + 1), ByteAt(bytes, 3 * t + 2))
            /\ c = IF 3 * t + 2 > L THEN Msg!Padding ELSE CharThree(ByteAt(bytes, 3 * t + 2), ByteAt(bytes, 3 * t + 3))
            /\ d = IF 3 * t + 3 > L THEN Msg!Padding ELSE CharFour(ByteAt(bytes, 3 * t + 3))
      OBVIOUS
    <3>7. seqs[j] = <<a, b, c, d>>
      BY <3>2, <3>3, <3>6, Zenon DEF CharsAt
    <3>8. text[4 * t + 1] = a /\ text[4 * t + 2] = b /\ text[4 * t + 3] = c /\ text[4 * t + 4] = d
      BY <3>4, <3>5, <3>7
    <3>9. QED
      BY <3>6, <3>8
  <2>9. PICK size \in Nat : size = 4 * T + (r + 1)
    BY <2>1
  <2>10. /\ \A t \in 0 .. T : 3 * t \in Nat /\ 3 * t + 1 \in Nat /\ 3 * t + 2 \in Nat
         /\ \A t \in 0 .. T : (3 * t + 1) + 1 = 3 * t + 2 /\ (3 * t + 2) + 1 = 3 * t + 3
    BY <2>1
  <2>11. ASSUME NEW t \in 0 .. T
         PROVE  /\ ByteAt(bytes, 3 * t + 1) \in 0 .. 255 /\ ByteAt(bytes, 3 * t + 2) \in 0 .. 255
                /\ ByteAt(bytes, 3 * t + 3) \in 0 .. 255
    BY <1>2, <2>10, ZenonT(40)
  <2>12. ASSUME NEW t \in 0 .. T
         PROVE  /\ text[4 * t + 1] \in 0 .. 63 /\ text[4 * t + 2] \in 0 .. 63
                /\ 3 * t + 2 <= L => text[4 * t + 3] \in 0 .. 63
                /\ 3 * t + 3 <= L => text[4 * t + 4] \in 0 .. 63
    <3>1. PICK x \in 0 .. 255, y \in 0 .. 255, z \in 0 .. 255 :
            x = ByteAt(bytes, 3 * t + 1) /\ y = ByteAt(bytes, 3 * t + 2) /\ z = ByteAt(bytes, 3 * t + 3)
      BY <2>11, ZenonT(40)
    <3>2. CharOne(x) \in 0 .. 63 /\ CharTwo(x, y) \in 0 .. 63
      BY CharOneRange, CharTwoRange, ZenonT(40)
    <3>3. CharThree(y, z) \in 0 .. 63
      BY CharThreeRange, ZenonT(40)
    <3>4. CharFour(z) \in 0 .. 63
      BY CharFourRange
    <3>5. (3 * t + 2 <= L => ~(3 * t + 2 > L)) /\ (3 * t + 3 <= L => ~(3 * t + 3 > L))
      BY <1>1, <2>1
    <3>6. text[4 * t + 1] = CharOne(x) /\ text[4 * t + 2] = CharTwo(x, y)
      BY <2>8, <3>1, Zenon
    <3>7. 3 * t + 2 <= L => text[4 * t + 3] = CharThree(y, z)
      BY <2>8, <3>1, <3>5, Zenon
    <3>8. 3 * t + 3 <= L => text[4 * t + 4] = CharFour(z)
      BY <2>8, <3>1, <3>5, Zenon
    <3>9. text[4 * t + 1] \in 0 .. 63 /\ text[4 * t + 2] \in 0 .. 63
      BY <3>2, <3>6
    <3>10. 3 * t + 2 <= L => text[4 * t + 3] \in 0 .. 63
      BY <3>3, <3>7
    <3>11. 3 * t + 3 <= L => text[4 * t + 4] \in 0 .. 63
      BY <3>4, <3>8
    <3>12. QED
      BY <3>9, <3>10, <3>11
  <2>13. Base64Of(text, size)
    <3>1. size \in 0 .. Len(text) /\ size % 4 # 1 /\ Len(text) = 4 * ((size + 3) \div 4)
      <4>1. CASE r = 1
        BY <2>1, <2>7, <2>9, <4>1, SMT
      <4>2. CASE r = 2
        BY <2>1, <2>7, <2>9, <4>2, SMT
      <4>3. CASE r = 3
        BY <2>1, <2>7, <2>9, <4>3, SMT
      <4>4. QED
        BY <4>1, <4>2, <4>3
    <3>2. ASSUME NEW i \in 1 .. size PROVE text[i] \in 0 .. 63
      <4>1. PICK t \in 0 .. T, k \in 1 .. 4 : i = 4 * t + k /\ (t = T => k <= r + 1)
        <5>1. PICK d \in Nat : d = i - 1 /\ d < 4 * T + (r + 1)
          <6>1. i - 1 \in Nat /\ i - 1 < 4 * T + (r + 1)
            BY <2>1, <2>9
          <6>2. QED
            BY <6>1
        <5>2. PICK q, m : q = d \div 4 /\ m = d % 4
          OBVIOUS
        <5>3. q \in Nat /\ m \in 0 .. 3 /\ d = 4 * q + m
          BY <5>2, SMT
        <5>4. q <= T /\ (q = T => m + 1 <= r + 1)
          BY <2>1, <5>1, <5>3, SMT
        <5>5. i = 4 * q + (m + 1) /\ m + 1 \in 1 .. 4 /\ q \in 0 .. T
          BY <5>1, <5>3, <5>4
        <5>6. QED
          BY <5>4, <5>5
      <4>2. /\ k = 3 => 3 * t + 2 <= L
            /\ k = 4 => 3 * t + 3 <= L
        BY <2>1, <4>1
      <4>3. k = 1 \/ k = 2 \/ k = 3 \/ k = 4
        OBVIOUS
      <4>4. QED
        BY <2>12, <4>1, <4>2, <4>3
    <3>3. ASSUME NEW i \in size + 1 .. Len(text) PROVE text[i] = Msg!Padding
      <4>1. T \in 0 .. T
        BY <2>1
      <4>2. \/ i = 4 * T + 3 /\ 3 * T + 2 > L
            \/ i = 4 * T + 4 /\ 3 * T + 3 > L
        BY <2>1, <2>7, <2>9
      <4>3. QED
        BY <2>8, <4>1, <4>2
    <3>4. QED
      BY <3>1, <3>2, <3>3 DEF Base64Of
  <2>14. (6 * size) \div 8 = L
    BY <2>1, <2>9, SMT
  <2>15. BytesOfBase64(text) = [n \in 1 .. L |-> EightBits(text, 8 * (n - 1))]
    BY <2>6, <2>13, <2>14, BytesAre, CharactersOf
  <2>16. ASSUME NEW n \in 1 .. L PROVE EightBits(text, 8 * (n - 1)) = bytes[n]
    <3>1. PICK t \in 0 .. T, k \in 1 .. 3 : n = 3 * t + k
      <4>1. PICK d \in Nat : d = n - 1 /\ d < 3 * T + r
        <5>1. n - 1 \in Nat /\ n - 1 < 3 * T + r
          BY <2>1
        <5>2. QED
          BY <5>1
      <4>2. PICK q, m : q = d \div 3 /\ m = d % 3
        OBVIOUS
      <4>3. q \in Nat /\ m \in 0 .. 2 /\ d = 3 * q + m
        BY <4>2, SMT
      <4>4. q <= T
        BY <2>1, <4>1, <4>3, SMT
      <4>5. n = 3 * q + (m + 1) /\ m + 1 \in 1 .. 3 /\ q \in 0 .. T
        BY <4>1, <4>3, <4>4, SMTT(30)
      <4>6. QED
        BY <4>5
    <3>2. PICK x \in 0 .. 255, y \in 0 .. 255, z \in 0 .. 255 :
            x = ByteAt(bytes, 3 * t + 1) /\ y = ByteAt(bytes, 3 * t + 2) /\ z = ByteAt(bytes, 3 * t + 3)
      BY <2>11, ZenonT(40)
    <3>3. t \in Nat /\ ByteAt(bytes, n) = bytes[n]
      BY <2>1 DEF ByteAt
    <3>4. CASE k = 1
      <4>1. text[4 * t + 1] = CharOne(x) /\ text[4 * t + 2] = CharTwo(x, y)
        BY <2>8, <3>2
      <4>2. EightBits(text, 24 * t) = ByteOne(CharOne(x), CharTwo(x, y))
        BY <2>12, <3>3, <4>1, FirstByte
      <4>3. ByteOne(CharOne(x), CharTwo(x, y)) = x
        BY FirstBack, ZenonT(40)
      <4>4. 8 * (n - 1) = 24 * t
        BY <3>1, <3>3, <3>4
      <4>5. QED
        BY <3>1, <3>2, <3>3, <3>4, <4>2, <4>3, <4>4
    <3>5. CASE k = 2
      <4>1. 3 * t + 2 <= L /\ ~(3 * t + 2 > L)
        BY <1>1, <3>1, <3>3, <3>5
      <4>2. text[4 * t + 2] = CharTwo(x, y) /\ text[4 * t + 3] = CharThree(y, z)
        BY <2>8, <3>2, <4>1
      <4>3. EightBits(text, 24 * t + 8) = ByteTwo(CharTwo(x, y), CharThree(y, z))
        <5>1. text[4 * t + 2] \in 0 .. 63 /\ text[4 * t + 3] \in 0 .. 63
          BY <2>12, <4>1
        <5>2. EightBits(text, 24 * t + 8) = ByteTwo(text[4 * t + 2], text[4 * t + 3])
          BY <3>3, <5>1, SecondByte
        <5>3. QED
          BY <4>2, <5>2
      <4>4. ByteTwo(CharTwo(x, y), CharThree(y, z)) = y
        BY SecondBack, ZenonT(40)
      <4>5. 8 * (n - 1) = 24 * t + 8
        BY <3>1, <3>3, <3>5
      <4>6. QED
        BY <3>1, <3>2, <3>3, <3>5, <4>3, <4>4, <4>5
    <3>6. CASE k = 3
      <4>1. 3 * t + 3 <= L /\ 3 * t + 2 <= L /\ ~(3 * t + 3 > L) /\ ~(3 * t + 2 > L)
        BY <1>1, <3>1, <3>3, <3>6
      <4>2. text[4 * t + 3] = CharThree(y, z) /\ text[4 * t + 4] = CharFour(z)
        BY <2>8, <3>2, <4>1
      <4>3. EightBits(text, 24 * t + 16) = ByteThree(CharThree(y, z), CharFour(z))
        BY <2>12, <3>3, <4>1, <4>2, ThirdByte
      <4>4. ByteThree(CharThree(y, z), CharFour(z)) = z
        BY ThirdBack, ZenonT(40)
      <4>5. 8 * (n - 1) = 24 * t + 16
        BY <3>1, <3>3, <3>6
      <4>6. QED
        BY <3>1, <3>2, <3>3, <3>6, <4>3, <4>4, <4>5
    <3>7. QED
      BY <3>4, <3>5, <3>6
  <2>17. bytes = [n \in 1 .. L |-> bytes[n]]
    BY <1>1
  <2>18. QED
    BY <2>15, <2>16, <2>17 DEF text
<1>5. QED
  BY <1>3, <1>4

-----------------------------------------------------------------------------
(* The two classes, of which each field has a kind.                        *)

Kinds == {"text", "number", "content"}

Count(c) == IF c = "messagebody" THEN 9 ELSE 11

Kind(c, i) ==
  IF c = "messagebody" THEN "text" ELSE IF i = 2 \/ i = 6 THEN "number" ELSE IF i = 11 THEN "content" ELSE "text"

\* What setters set.
GoodNumbers == {n \in Nat : n <= 2147483647}

GoodContents ==
  {content \in Contents : Len(content.data) <= 2147483647 /\ (content.is = "base64" => IsBase64(content.data))}

Good(kind) == IF kind = "text" THEN JP!Short ELSE IF kind = "number" THEN GoodNumbers ELSE GoodContents

IsObject(c, o) ==
  /\ o \in [1 .. Count(c) -> Values \cup {None}]
  /\ \A i \in 1 .. Count(c) : o[i] = None \/ o[i] \in Good(Kind(c, i))

\* What an object says: of a content, its bytes.
Nothing(kind) == IF kind = "number" THEN 0 ELSE <<>>

BytesOf(content) == IF content.is = "bytes" THEN content.data ELSE BytesOfBase64(content.data)

Meaning(kind, value) ==
  IF value = None THEN Nothing(kind) ELSE IF kind = "content" THEN BytesOf(value) ELSE value

Says(c, o) == [i \in 1 .. Count(c) |-> Meaning(Kind(c, i), o[i])]

GoodBytes == {bytes \in Seq(0 .. 255) : Len(bytes) <= 2147483647}

Sayable(kind) == IF kind = "text" THEN JP!Short ELSE IF kind = "number" THEN GoodNumbers ELSE GoodBytes

Said(c, s) == \A i \in 1 .. Count(c) : s[i] \in Sayable(Kind(c, i))

LEMMA KindOf == ASSUME NEW c, NEW i PROVE Kind(c, i) \in Kinds
  BY DEF Kind, Kinds

LEMMA CountOf == ASSUME NEW c PROVE Count(c) \in {9, 11}
  BY DEF Count

LEMMA BytesOfType ==
  ASSUME NEW content \in GoodContents
  PROVE  /\ BytesOf(content) \in GoodBytes
         /\ content.is \in {"bytes", "base64"} /\ content.data \in Seq(0 .. 255)
         /\ content.is = "base64" => Msg!DecodeBase64(content.data) = BytesOfBase64(content.data)
<1>1. PICK is \in {"bytes", "base64"}, data \in Seq(0 .. 255) :
        content.is = is /\ content.data = data /\ Len(data) <= 2147483647 /\ (is = "base64" => IsBase64(data))
  BY DEF GoodContents, Contents, Bytes
<1>2. CASE is = "bytes"
  BY <1>1, <1>2 DEF GoodBytes, BytesOf
<1>3. CASE is = "base64"
  <2>0. IsBase64(data)
    BY <1>1, <1>3
  <2>1. PICK size : Base64Of(data, size)
    BY <2>0 DEF IsBase64, Base64Of
  <2>2. /\ Msg!DecodeBase64(data) = BytesOfBase64(data) /\ BytesOfBase64(data) \in Seq(0 .. 255)
        /\ Len(BytesOfBase64(data)) <= size
    BY <2>1, Decoded
  <2>3. size \in 0 .. Len(data)
    BY <2>1 DEF Base64Of
  <2>4. Len(BytesOfBase64(data)) <= 2147483647
    <3>1. PICK l \in Nat, m \in Nat : l = Len(data) /\ m = Len(BytesOfBase64(data))
      BY <2>2
    <3>2. m <= size /\ size <= l /\ l <= 2147483647 /\ size \in Nat
      BY <1>1, <2>2, <2>3, <3>1
    <3>3. m <= 2147483647
      BY <3>2, SMT
    <3>4. QED
      BY <3>1, <3>3
  <2>5. BytesOf(content) = BytesOfBase64(data)
    BY <1>1, <1>3 DEF BytesOf
  <2>6. BytesOf(content) \in GoodBytes
    BY <2>2, <2>4, <2>5 DEF GoodBytes
  <2>7. QED
    BY <1>1, <2>2, <2>6
<1>4. QED
  BY <1>2, <1>3

LEMMA NothingSaid ==
  ASSUME NEW kind \in Kinds
  PROVE  Nothing(kind) \in Sayable(kind)
<1>1. <<>> \in JP!Short
  <2>1. <<>> \in Seq(JP!Unit) /\ Len(<<>>) = 0 /\ 0 <= JP!MostUnits
    BY SMT DEF JP!MostUnits
  <2>2. QED
    BY <2>1 DEF JP!Short
<1>2. 0 \in GoodNumbers
  BY SMT DEF GoodNumbers
<1>3. <<>> \in GoodBytes
  BY SMT DEF GoodBytes
<1>4. QED
  BY <1>1, <1>2, <1>3 DEF Nothing, Sayable, Kinds

LEMMA MeaningSaid ==
  ASSUME NEW kind \in Kinds, NEW value, value = None \/ value \in Good(kind)
  PROVE  Meaning(kind, value) \in Sayable(kind)
<1>1. CASE value = None
  BY <1>1, NothingSaid DEF Meaning
<1>2. CASE value # None
  <2>1. CASE kind = "content"
    <3>1. value \in GoodContents
      BY <1>2, <2>1 DEF Good
    <3>2. BytesOf(value) \in GoodBytes
      BY <3>1, BytesOfType
    <3>3. QED
      BY <1>2, <2>1, <3>2 DEF Meaning, Sayable
  <2>2. CASE kind # "content"
    BY <1>2, <2>2 DEF Meaning, Sayable, Good, Kinds
  <2>3. QED
    BY <2>1, <2>2
<1>3. QED
  BY <1>1, <1>2

LEMMA ObjectSaid ==
  ASSUME NEW c, NEW o, IsObject(c, o)
  PROVE  Said(c, Says(c, o))
  BY KindOf, MeaningSaid DEF Said, Says, IsObject

\* How what a field says is written.
TypeOf(kind) == IF kind = "number" THEN JP!VARINT ELSE JP!DELIMITED

PayloadOf(kind, said) ==
  IF kind = "text" THEN JP!EncodeString(said) ELSE IF kind = "number" THEN JP!Varint(said) ELSE said

PieceOf(kind, i, said) ==
  IF said = Nothing(kind) THEN <<>>
  ELSE IF kind = "text" THEN JP!WriteString(i, said)
  ELSE IF kind = "number" THEN JP!WriteUint32(i, said)
  ELSE JP!WriteBytes(i, said)

LEMMA ShortEncoded ==
  ASSUME NEW text \in JP!Short
  PROVE  /\ JP!EncodeString(text) \in Seq(JP!Byte) /\ JP!Countable(Len(JP!EncodeString(text)))
         /\ JP!DecodeString(JP!EncodeString(text)) = JP!Received(text)
<1> DEFINE t == [i \in 1 .. 9 |-> text]
<1>1. JP!Written(t)
  BY DEF JP!Written
<1>2. 1 \in 1 .. 9 /\ t[1] = text
  OBVIOUS
<1> HIDE DEF t
<1>3. /\ JP!EncodeString(t[1]) \in Seq(JP!Byte) /\ JP!Countable(Len(JP!EncodeString(t[1])))
      /\ JP!DecodeString(JP!EncodeString(t[1])) = JP!Received(t[1])
  BY <1>1, <1>2, JP!TextWritten
<1>4. QED
  BY <1>2, <1>3, Zenon

LEMMA CountableNumber == ASSUME NEW n \in Nat, n <= 2147483647 PROVE JP!Countable(n)
  BY SMT DEF JP!Countable

LEMMA PieceImage ==
  ASSUME NEW kind \in Kinds, NEW i \in 1 .. 11, NEW said \in Sayable(kind), said # Nothing(kind)
  PROVE  JP!IsImage(PieceOf(kind, i, said), JP!Carried(i, TypeOf(kind), PayloadOf(kind, said)))
<1>1. JP!IsNumber(i)
  BY SMT DEF JP!IsNumber
<1>2. CASE kind = "text"
  <2>1. said \in JP!Short
    BY <1>2 DEF Sayable
  <2>2. JP!EncodeString(said) \in Seq(JP!Byte) /\ JP!Countable(Len(JP!EncodeString(said)))
    BY <2>1, ShortEncoded
  <2>3. JP!IsImage(JP!WriteString(i, said), JP!Carried(i, JP!DELIMITED, JP!EncodeString(said)))
    BY <1>1, <2>2, JP!StringImage
  <2>4. QED
    BY <1>2, <2>3 DEF PieceOf, TypeOf, PayloadOf
<1>3. CASE kind = "number"
  <2>1. said \in Nat /\ said <= 2147483647
    BY <1>3 DEF Sayable, GoodNumbers
  <2>2. JP!Countable(said)
    BY <2>1, CountableNumber
  <2>3. JP!IsImage(JP!WriteUint32(i, said), JP!Carried(i, JP!VARINT, JP!Varint(said)))
    BY <1>1, <2>2, JP!NumberImage
  <2>4. QED
    BY <1>3, <2>3 DEF PieceOf, TypeOf, PayloadOf
<1>4. CASE kind = "content"
  <2>1. said \in Seq(0 .. 255) /\ Len(said) <= 2147483647
    BY <1>4 DEF Sayable, GoodBytes
  <2>2. said \in Seq(JP!Byte)
    BY <2>1 DEF JP!Byte
  <2>3. JP!Countable(Len(said))
    BY <2>1, CountableNumber
  <2>4. JP!IsImage(JP!WriteBytes(i, said), JP!Carried(i, JP!DELIMITED, said))
    BY <1>1, <2>2, <2>3, JP!BytesImage
  <2>5. QED
    BY <1>4, <2>4 DEF PieceOf, TypeOf, PayloadOf
<1>5. QED
  BY <1>2, <1>3, <1>4 DEF Kinds

LEMMA PieceType ==
  ASSUME NEW kind \in Kinds, NEW i \in 1 .. 11, NEW said \in Sayable(kind)
  PROVE  /\ PieceOf(kind, i, said) \in Seq(JP!Byte)
         /\ PieceOf(kind, i, said) # <<>> <=> said # Nothing(kind)
<1>1. CASE said = Nothing(kind)
  BY <1>1 DEF PieceOf
<1>2. CASE said # Nothing(kind)
  <2>1. JP!IsImage(PieceOf(kind, i, said), JP!Carried(i, TypeOf(kind), PayloadOf(kind, said)))
    BY <1>2, PieceImage
  <2>2. PieceOf(kind, i, said) \in Seq(JP!Byte) /\ Len(PieceOf(kind, i, said)) >= 1
    BY <2>1 DEF JP!IsImage
  <2>3. Len(<<>>) = 0
    OBVIOUS
  <2>4. QED
    BY <1>2, <2>2, <2>3
<1>3. QED
  BY <1>1, <1>2

\* A frame of the class, and what a newer writer may have added to it.
PiecesOf(c, s) == [i \in 1 .. Count(c) |-> PieceOf(Kind(c, i), i, s[i])]

FrameOf(c, s) == JP!FlattenSeq(PiecesOf(c, s))

Unknown(x) == x.number \notin 1 .. 11

IsAdded(tail) ==
  tail \in Seq(JP!Byte) /\ \E x : tail # <<>> => JP!IsImage(tail, x) /\ Unknown(x)

LEMMA PiecesType ==
  ASSUME NEW c, NEW s, Said(c, s)
  PROVE  PiecesOf(c, s) \in Seq(Seq(JP!Byte)) /\ Len(PiecesOf(c, s)) = Count(c)
<1>1. PICK n \in {9, 11} : n = Count(c)
  BY CountOf
<1>2. ASSUME NEW i \in 1 .. n PROVE PieceOf(Kind(c, i), i, s[i]) \in Seq(JP!Byte)
  <2>1. i \in 1 .. 11 /\ Kind(c, i) \in Kinds /\ s[i] \in Sayable(Kind(c, i))
    BY <1>1, KindOf DEF Said
  <2>2. QED
    BY <2>1, PieceType
<1>3. PiecesOf(c, s) = [i \in 1 .. n |-> PieceOf(Kind(c, i), i, s[i])]
  BY <1>1 DEF PiecesOf
<1>4. n \in Nat
  OBVIOUS
<1>5. QED
  BY <1>1, <1>2, <1>3, <1>4

LEMMA FrameOfType ==
  ASSUME NEW c, NEW s, Said(c, s)
  PROVE  FrameOf(c, s) \in Seq(JP!Byte)
  BY PiecesType, JP!FlattenType DEF FrameOf

\* What a class finds of what was said.
FindsSaid(fields, c, s) ==
  /\ \A k \in DOMAIN fields : fields[k].number \in 1 .. Count(c) => fields[k].wireType = TypeOf(Kind(c, fields[k].number))
  /\ \A i \in 1 .. Count(c) : JP!HasField(fields, i) <=> s[i] # Nothing(Kind(c, i))
  /\ \A i \in 1 .. Count(c) : s[i] # Nothing(Kind(c, i)) =>
       JP!LastField(fields, i).number = i /\ JP!LastField(fields, i).value = PayloadOf(Kind(c, i), s[i])

LEMMA SaidFound ==
  ASSUME NEW c, NEW s, Said(c, s), NEW tail, IsAdded(tail)
  PROVE  FindsSaid(JP!ReadFields(FrameOf(c, s) \o tail), c, s)
<1>1. PICK x : tail \in Seq(JP!Byte) /\ (tail # <<>> => JP!IsImage(tail, x) /\ Unknown(x))
  BY DEF IsAdded
<1>2. PICK n \in {9, 11} : n = Count(c)
  BY CountOf
<1> DEFINE P == PiecesOf(c, s)
           pieces == Append(P, tail)
           w == [i \in 1 .. 12 |-> IF i = n + 1 THEN x ELSE JP!Carried(i, TypeOf(Kind(c, i)), PayloadOf(Kind(c, i), s[i]))]
<1>3. P \in Seq(Seq(JP!Byte)) /\ Len(P) = n
  BY <1>2, PiecesType
<1>4. \A i \in 1 .. n : P[i] = PieceOf(Kind(c, i), i, s[i])
  BY <1>2 DEF PiecesOf
<1>5. JP!FlattenSeq(pieces) = FrameOf(c, s) \o tail
  BY <1>1, <1>3, JP!FlattenAppend DEF FrameOf
<1>6. \A i \in 1 .. n : w[i] = JP!Carried(i, TypeOf(Kind(c, i)), PayloadOf(Kind(c, i), s[i]))
  <2>1. \A i \in 1 .. n : i \in 1 .. 12 /\ i # n + 1
    OBVIOUS
  <2>2. QED
    BY <2>1
<1>7. w[n + 1] = x
  <2>1. n + 1 \in 1 .. 12
    OBVIOUS
  <2>2. QED
    BY <2>1
<1> HIDE DEF P, w
<1>8. /\ pieces \in Seq(Seq(JP!Byte)) /\ Len(pieces) = n + 1 /\ pieces[n + 1] = tail
      /\ \A i \in 1 .. n : pieces[i] = P[i]
  <2>1. /\ Append(P, tail) \in Seq(Seq(JP!Byte)) /\ Len(Append(P, tail)) = Len(P) + 1
        /\ \A i \in 1 .. Len(P) : Append(P, tail)[i] = P[i]
        /\ Append(P, tail)[Len(P) + 1] = tail
    BY <1>1, <1>3, AppendProperties
  <2>2. QED
    BY <1>3, <2>1
<1> HIDE DEF pieces
<1>9. ASSUME NEW i \in 1 .. n
      PROVE  /\ pieces[i] # <<>> <=> s[i] # Nothing(Kind(c, i))
             /\ pieces[i] # <<>> => JP!IsImage(pieces[i], w[i])
  <2>1. i \in 1 .. 11 /\ Kind(c, i) \in Kinds /\ s[i] \in Sayable(Kind(c, i))
    BY <1>2, KindOf DEF Said
  <2>2. pieces[i] = PieceOf(Kind(c, i), i, s[i])
    BY <1>4, <1>8
  <2>3. pieces[i] # <<>> <=> s[i] # Nothing(Kind(c, i))
    BY <2>1, <2>2, PieceType
  <2>4. ASSUME s[i] # Nothing(Kind(c, i))
        PROVE  JP!IsImage(pieces[i], w[i])
    <3>1. JP!IsImage(PieceOf(Kind(c, i), i, s[i]), JP!Carried(i, TypeOf(Kind(c, i)), PayloadOf(Kind(c, i), s[i])))
      BY <2>1, <2>4, PieceImage
    <3>2. QED
      BY <1>6, <2>2, <3>1
  <2>5. QED
    BY <2>3, <2>4
<1>10. ASSUME NEW i \in 1 .. n + 1, pieces[i] # <<>> PROVE JP!IsImage(pieces[i], w[i])
  <2>1. i \in 1 .. n \/ i = n + 1
    OBVIOUS
  <2>2. QED
    BY <1>1, <1>7, <1>8, <1>9, <1>10, <2>1
<1>11. JP!Carries(pieces, w)
  BY <1>8, <1>10 DEF JP!Carries
<1>12. ASSUME NEW i \in 1 .. n
       PROVE  /\ w[i].number = i /\ w[i].wireType = TypeOf(Kind(c, i))
              /\ w[i].value = PayloadOf(Kind(c, i), s[i])
  <2>1. w[i] = [number |-> i, wireType |-> TypeOf(Kind(c, i)), value |-> PayloadOf(Kind(c, i), s[i])]
    BY <1>6 DEF JP!Carried
  <2>2. QED
    BY <2>1
<1>13. JP!IsFrame(pieces, w, n)
  <2>1. n \in Nat /\ n <= Len(pieces)
    BY <1>8
  <2>2. \A i \in n + 1 .. Len(pieces) : i = n + 1
    BY <1>8
  <2>3. \A j \in 1 .. n : j \in 1 .. 11
    OBVIOUS
  <2>4. \A i \in n + 1 .. Len(pieces) : pieces[i] # <<>> => w[i].number \notin 1 .. n
    BY <1>1, <1>7, <1>8, <2>2, <2>3 DEF Unknown
  <2>5. QED
    BY <1>11, <1>12, <2>1, <2>4 DEF JP!IsFrame
<1>14. PICK fields : fields = JP!ReadFields(JP!FlattenSeq(pieces))
  OBVIOUS
<1>15. JP!Finds(fields, pieces, w, n)
  BY <1>13, <1>14, JP!FrameFields
<1>16. /\ \A k \in DOMAIN fields : fields[k].number \in 1 .. n => fields[k].wireType = w[fields[k].number].wireType
       /\ \A i \in 1 .. n : JP!HasField(fields, i) <=> pieces[i] # <<>>
       /\ \A i \in 1 .. n : pieces[i] # <<>> => /\ JP!LastField(fields, i).number = i
                                                /\ JP!LastField(fields, i).value = w[i].value
  BY <1>15 DEF JP!Finds
<1>17. \A k \in DOMAIN fields : fields[k].number \in 1 .. n => fields[k].wireType = TypeOf(Kind(c, fields[k].number))
  BY <1>12, <1>16
<1>18. \A i \in 1 .. n : JP!HasField(fields, i) <=> s[i] # Nothing(Kind(c, i))
  BY <1>9, <1>16
<1>19. ASSUME NEW i \in 1 .. n, s[i] # Nothing(Kind(c, i))
       PROVE  JP!LastField(fields, i).number = i /\ JP!LastField(fields, i).value = PayloadOf(Kind(c, i), s[i])
  <2>1. JP!LastField(fields, i).number = i /\ JP!LastField(fields, i).value = w[i].value
    BY <1>9, <1>16, <1>19
  <2>2. QED
    BY <1>12, <2>1
<1>20. FindsSaid(fields, c, s)
  BY <1>2, <1>17, <1>18, <1>19 DEF FindsSaid
<1>21. QED
  BY <1>5, <1>14, <1>20

\* What is read of it.
BackOf(kind, said) ==
  IF kind = "text" THEN JP!Received(said) ELSE IF kind = "number" THEN said ELSE Msg!Bytes(said)

Merge(c, o, s) == [i \in 1 .. Count(c) |-> IF s[i] # Nothing(Kind(c, i)) THEN BackOf(Kind(c, i), s[i]) ELSE o[i]]

LEMMA NumberBack ==
  ASSUME NEW n \in GoodNumbers
  PROVE  JP!ReadVarint(JP!Varint(n), 1) = n
<1>1. JP!Countable(n)
  BY CountableNumber DEF GoodNumbers
<1>2. JP!Varint(n) \in Seq(JP!Byte) /\ Len(JP!Varint(n)) \in 1 .. 5
  BY <1>1, JP!VarintType
<1>3. JP!Stands(JP!Varint(n), JP!Varint(n), 1)
  <2>1. PICK v \in Seq(JP!Byte) : v = JP!Varint(n)
    BY <1>2
  <2>2. 1 + Len(v) - 1 <= Len(v) /\ \A k \in 1 .. Len(v) : v[1 + k - 1] = v[k]
    OBVIOUS
  <2>3. QED
    BY <2>1, <2>2 DEF JP!Stands
<1>4. QED
  BY <1>1, <1>2, <1>3, JP!VarintRead


-----------------------------------------------------------------------------
(* What the classes write and read.                                        *)

LEMMA BodyNames == DOMAIN Body!Names = 1 .. 9
  BY DEF Body!Names

LEMMA BodyNumber ==
  ASSUME NEW i \in 1 .. 9
  PROVE  Body!NumberOf(Body!Names[i]) = i
<1>1. \A j \in 1 .. 9 : Body!Names[j] = Body!Names[i] => j = i
  BY DEF Body!Names
<1>2. QED
  BY <1>1, BodyNames DEF Body!NumberOf

LEMMA MsgNames == DOMAIN Msg!Names = 1 .. 11
  BY DEF Msg!Names

LEMMA MsgNumber ==
  ASSUME NEW i \in 1 .. 11
  PROVE  Msg!NumberOf(Msg!Names[i]) = i
<1>1. \A j \in 1 .. 11 : Msg!Names[j] = Msg!Names[i] => j = i
  BY DEF Msg!Names
<1>2. QED
  BY <1>1, MsgNames DEF Msg!NumberOf

LEMMA MsgKinds ==
  ASSUME NEW i \in 1 .. 11
  PROVE  /\ Msg!Names[i] \in Msg!Numbers <=> Kind("message", i) = "number"
         /\ Msg!Names[i] = "content" <=> Kind("message", i) = "content"
<1>1. /\ Msg!Names[1] = "version" /\ Msg!Names[2] = "cmd" /\ Msg!Names[3] = "sender" /\ Msg!Names[4] = "receiver"
      /\ Msg!Names[5] = "groupid" /\ Msg!Names[6] = "msgtype" /\ Msg!Names[7] = "platform"
      /\ Msg!Names[8] = "platformversion" /\ Msg!Names[9] = "token" /\ Msg!Names[10] = "timestamp"
      /\ Msg!Names[11] = "content"
  BY DEF Msg!Names
<1>2. \/ i = 1 \/ i = 2 \/ i = 3 \/ i = 4 \/ i = 5 \/ i = 6 \/ i = 7 \/ i = 8 \/ i = 9 \/ i = 10 \/ i = 11
  OBVIOUS
<1>3. QED
  BY <1>1, <1>2 DEF Msg!Numbers, Kind

LEMMA BodyGets ==
  ASSUME NEW o, NEW i \in 1 .. 9
  PROVE  Body!Get(o, Body!Names[i]) = Meaning("text", o[i])
  BY BodyNumber DEF Body!Get, Body!GetFieldWithDefault, Meaning, Nothing

LEMMA BodySerialized ==
  ASSUME NEW o, IsObject("messagebody", o)
  PROVE  Body!SerializeBinary(o) = FrameOf("messagebody", Says("messagebody", o))
<1> DEFINE s == Says("messagebody", o)
<1>1. /\ Count("messagebody") = 9 /\ \A i \in 1 .. 9 : Kind("messagebody", i) = "text"
  BY DEF Count, Kind
<1>2. ASSUME NEW i \in 1 .. 9
      PROVE  /\ Body!Get(o, Body!Names[i]) = s[i] /\ s[i] \in JP!Short
             /\ Len(s[i]) > 0 <=> s[i] # <<>>
  <2>1. s[i] = Meaning("text", o[i])
    BY <1>1 DEF Says
  <2>2. s[i] \in JP!Short
    BY <1>1, ObjectSaid DEF Said, Sayable
  <2>3. PICK text \in Seq(JP!Unit) : text = s[i]
    BY <2>2 DEF JP!Short
  <2>4. Len(text) > 0 <=> text # <<>>
    OBVIOUS
  <2>5. QED
    BY <2>1, <2>2, <2>3, <2>4, BodyGets
<1> HIDE DEF s
<1>3. ASSUME NEW i \in 1 .. 9
      PROVE  (LET f == Body!Get(o, Body!Names[i]) IN IF Len(f) > 0 THEN Body!WriteString(i, f) ELSE <<>>)
               = PieceOf(Kind("messagebody", i), i, s[i])
  BY <1>1, <1>2, BodyWrites DEF PieceOf, Nothing
<1>4. Body!SerializeBinary(o) = Body!FlattenSeq(PiecesOf("messagebody", s))
  BY <1>1, <1>3, BodyNames DEF Body!SerializeBinary, Body!SerializeBinaryToWriter, PiecesOf
<1>5. QED
  BY <1>4, BodyFlatten DEF FrameOf, s

LEMMA BodyRead ==
  ASSUME NEW o, NEW s, Said("messagebody", s), NEW tail, IsAdded(tail)
  PROVE  Body!DeserializeBinaryFromReader(o, FrameOf("messagebody", s) \o tail) = Merge("messagebody", o, s)
<1>1. PICK bytes : bytes = FrameOf("messagebody", s) \o tail
  OBVIOUS
<1>2. PICK fields : fields = JP!ReadFields(bytes) /\ fields = Body!ReadFields(bytes)
  BY BodyReads
<1>3. FindsSaid(fields, "messagebody", s)
  BY <1>1, <1>2, SaidFound
<1>4. /\ Count("messagebody") = 9 /\ \A i \in 1 .. 9 : Kind("messagebody", i) = "text"
  BY DEF Count, Kind
<1>5. /\ \A k \in DOMAIN fields : fields[k].number \in 1 .. 9 => fields[k].wireType = Body!DELIMITED
      /\ \A i \in 1 .. 9 : Body!HasField(fields, i) <=> s[i] # <<>>
      /\ \A i \in 1 .. 9 : s[i] # <<>> => Body!LastField(fields, i).value = JP!EncodeString(s[i])
  BY <1>3, <1>4, BodyFinds DEF FindsSaid, TypeOf, Nothing, PayloadOf, JP!DELIMITED, Body!DELIMITED
<1>6. ASSUME NEW i \in 1 .. 9, s[i] # <<>>
      PROVE  Body!DecodeString(Body!LastField(fields, i).value) = JP!Received(s[i])
  <2>1. s[i] \in JP!Short
    BY <1>4 DEF Said, Sayable
  <2>2. JP!DecodeString(JP!EncodeString(s[i])) = JP!Received(s[i])
    BY <2>1, ShortEncoded
  <2>3. Body!DecodeString(JP!EncodeString(s[i])) = JP!DecodeString(JP!EncodeString(s[i]))
    BY BodyDecode
  <2>4. QED
    BY <1>5, <1>6, <2>2, <2>3
<1>7. Body!DeserializeBinaryFromReader(o, bytes)
        = [i \in 1 .. 9 |-> IF Body!HasField(fields, i) THEN Body!DecodeString(Body!LastField(fields, i).value) ELSE o[i]]
  BY <1>2, <1>5, BodyNames DEF Body!DeserializeBinaryFromReader
<1>8. Merge("messagebody", o, s) = [i \in 1 .. 9 |-> IF s[i] # <<>> THEN JP!Received(s[i]) ELSE o[i]]
  BY <1>4 DEF Merge, Nothing, BackOf
<1>9. QED
  BY <1>1, <1>5, <1>6, <1>7, <1>8

LEMMA MsgGets ==
  ASSUME NEW o, NEW i \in 1 .. 11
  PROVE  Msg!Get(o, Msg!Names[i])
           = IF o[i] # None THEN o[i]
             ELSE IF Kind("message", i) = "content" THEN Msg!Base64(<<>>) ELSE Nothing(Kind("message", i))
  BY MsgNumber, MsgKinds DEF Msg!Get, Msg!GetFieldWithDefault, Msg!Default, Nothing

LEMMA MsgWritesNumber == ASSUME NEW i, NEW n PROVE Msg!WriteUint32(i, n) = JP!WriteUint32(i, n)
  BY MsgHeader, MsgVarint DEF Msg!WriteUint32, JP!WriteUint32, Msg!VARINT, JP!VARINT

LEMMA MsgWritesBytes == ASSUME NEW i, NEW bytes PROVE Msg!WriteBytes(i, bytes) = JP!WriteBytes(i, bytes)
  BY MsgHeader, MsgVarint DEF Msg!WriteBytes, JP!WriteBytes, Msg!DELIMITED, JP!DELIMITED

LEMMA MessageKinds ==
  /\ Count("message") = 11 /\ Kind("message", 11) = "content"
  /\ \A i \in 1 .. 11 : Kind("message", i) = "content" <=> i = 11
  BY DEF Count, Kind

LEMMA NothingDecoded ==
  Msg!DecodeBase64(<<>>) = <<>> /\ BytesOfBase64(<<>>) = <<>>
<1>1. Base64Of(<<>>, 0)
  <2>1. Len(<<>>) = 0 /\ <<>> \in Seq(0 .. 64)
    OBVIOUS
  <2>2. 0 \in 0 .. 0 /\ 0 % 4 # 1 /\ 4 * ((0 + 3) \div 4) = 0
    BY SMT
  <2>3. QED
    BY <2>1, <2>2 DEF Base64Of
<1>2. /\ Msg!DecodeBase64(<<>>) = BytesOfBase64(<<>>) /\ BytesOfBase64(<<>>) \in Seq(0 .. 255)
      /\ Len(BytesOfBase64(<<>>)) <= 0
  <2>0. <<>> \in Seq(0 .. 64)
    OBVIOUS
  <2>1. PICK text \in Seq(0 .. 64) : text = <<>>
    BY <2>0, Zenon
  <2>2. /\ Msg!DecodeBase64(text) = BytesOfBase64(text) /\ BytesOfBase64(text) \in Seq(0 .. 255)
        /\ Len(BytesOfBase64(text)) <= 0
    BY <1>1, <2>1, Decoded
  <2>3. QED
    BY <2>1, <2>2
<1>3. PICK bytes \in Seq(0 .. 255) : bytes = BytesOfBase64(<<>>)
  BY <1>2
<1>4. bytes = <<>>
  BY <1>2, <1>3
<1>5. QED
  BY <1>2, <1>3, <1>4

\* getContent_asU8() of a message.
LEMMA ContentSaid ==
  ASSUME NEW o, IsObject("message", o)
  PROVE  Msg!ContentAsU8(o) = Says("message", o)[11]
<1>1. Says("message", o)[11] = Meaning("content", o[11])
  BY MessageKinds DEF Says
<1>2. Msg!Get(o, "content") = IF o[11] # None THEN o[11] ELSE Msg!Base64(<<>>)
  <2>1. Msg!Names[11] = "content"
    BY MsgKinds, MessageKinds
  <2>2. QED
    BY <2>1, MsgGets, MessageKinds
<1>3. CASE o[11] = None
  <2>1. Msg!Get(o, "content") = [is |-> "base64", data |-> <<>>]
    BY <1>2, <1>3 DEF Msg!Base64
  <2>2. Msg!ContentAsU8(o) = Msg!DecodeBase64(<<>>)
    BY <2>1 DEF Msg!ContentAsU8
  <2>3. QED
    BY <1>1, <1>3, <2>2, NothingDecoded DEF Meaning, Nothing
<1>4. CASE o[11] # None
  <2>1. o[11] \in GoodContents
    BY <1>4, MessageKinds DEF IsObject, Good
  <2>2. Msg!ContentAsU8(o) = BytesOf(o[11])
    BY <1>2, <1>4, <2>1, BytesOfType DEF Msg!ContentAsU8, BytesOf
  <2>3. QED
    BY <1>1, <1>4, <2>2 DEF Meaning
<1>5. QED
  BY <1>3, <1>4

LEMMA MsgSerialized ==
  ASSUME NEW o, IsObject("message", o)
  PROVE  Msg!SerializeBinary(o) = FrameOf("message", Says("message", o))
<1> DEFINE s == Says("message", o)
           Piece(i) == LET f == Msg!Get(o, Msg!Names[i])
                           content == Msg!ContentAsU8(o)
                       IN  IF Msg!Names[i] \in Msg!Numbers THEN (IF f # 0 THEN Msg!WriteUint32(i, f) ELSE <<>>)
                           ELSE IF Msg!Names[i] = "content"
                           THEN (IF Len(content) > 0 THEN Msg!WriteBytes(i, content) ELSE <<>>)
                           ELSE IF Len(f) > 0 THEN Msg!WriteString(i, f) ELSE <<>>
<1>1. ASSUME NEW i \in 1 .. 11
      PROVE  s[i] = Meaning(Kind("message", i), o[i]) /\ s[i] \in Sayable(Kind("message", i))
  BY MessageKinds, ObjectSaid DEF Says, Said
<1>2. Msg!ContentAsU8(o) = s[11]
  BY ContentSaid
<1> HIDE DEF s
<1>3. ASSUME NEW i \in 1 .. 11
      PROVE  Piece(i) = PieceOf(Kind("message", i), i, s[i])
  <2>1. CASE Kind("message", i) = "number"
    <3>1. Msg!Get(o, Msg!Names[i]) = s[i]
      BY <1>1, <2>1, MsgGets DEF Meaning
    <3>2. Piece(i) = IF s[i] # 0 THEN Msg!WriteUint32(i, s[i]) ELSE <<>>
      BY <2>1, <3>1, MsgKinds
    <3>3. PieceOf(Kind("message", i), i, s[i]) = IF s[i] # 0 THEN JP!WriteUint32(i, s[i]) ELSE <<>>
      BY <2>1 DEF PieceOf, Nothing
    <3>4. QED
      BY <3>2, <3>3, MsgWritesNumber
  <2>2. CASE Kind("message", i) = "content"
    <3>1. i = 11
      BY <2>2, MessageKinds
    <3>2. PICK bytes \in Seq(0 .. 255) : bytes = s[i]
      BY <1>1, <2>2 DEF Sayable, GoodBytes
    <3>3. Len(bytes) > 0 <=> bytes # <<>>
      OBVIOUS
    <3>4. Msg!ContentAsU8(o) = bytes
      BY <1>2, <3>1, <3>2
    <3>5. Msg!Names[i] \notin Msg!Numbers /\ Msg!Names[i] = "content"
      BY <2>2, MsgKinds
    <3>6. Piece(i) = IF bytes # <<>> THEN Msg!WriteBytes(i, bytes) ELSE <<>>
      BY <3>3, <3>4, <3>5
    <3>7. PieceOf(Kind("message", i), i, s[i]) = IF bytes # <<>> THEN JP!WriteBytes(i, bytes) ELSE <<>>
      BY <2>2, <3>2 DEF PieceOf, Nothing
    <3>8. QED
      BY <3>6, <3>7, MsgWritesBytes
  <2>3. CASE Kind("message", i) = "text"
    <3>1. Msg!Get(o, Msg!Names[i]) = s[i]
      BY <1>1, <2>3, MsgGets DEF Meaning
    <3>2. PICK text \in Seq(JP!Unit) : text = s[i]
      BY <1>1, <2>3 DEF Sayable, JP!Short
    <3>3. Len(text) > 0 <=> text # <<>>
      OBVIOUS
    <3>4. Msg!Names[i] \notin Msg!Numbers /\ Msg!Names[i] # "content"
      BY <2>3, MsgKinds
    <3>5. Piece(i) = IF text # <<>> THEN Msg!WriteString(i, text) ELSE <<>>
      BY <3>1, <3>2, <3>3, <3>4
    <3>6. PieceOf(Kind("message", i), i, s[i]) = IF text # <<>> THEN JP!WriteString(i, text) ELSE <<>>
      BY <2>3, <3>2 DEF PieceOf, Nothing
    <3>7. QED
      BY <3>5, <3>6, MsgWrites
  <2>4. QED
    BY <2>1, <2>2, <2>3, KindOf DEF Kinds
<1>4. Msg!SerializeBinary(o) = Msg!FlattenSeq([i \in 1 .. 11 |-> Piece(i)])
  BY MsgNames DEF Msg!SerializeBinary, Msg!SerializeBinaryToWriter
<1> HIDE DEF Piece
<1>5. [i \in 1 .. 11 |-> Piece(i)] = PiecesOf("message", s)
  BY <1>3, MessageKinds DEF PiecesOf
<1>6. QED
  BY <1>4, <1>5, MsgFlatten DEF FrameOf, s

LEMMA MsgRead ==
  ASSUME NEW o, NEW s, Said("message", s), NEW tail, IsAdded(tail)
  PROVE  Msg!DeserializeBinaryFromReader(o, FrameOf("message", s) \o tail) = Merge("message", o, s)
<1>1. PICK bytes : bytes = FrameOf("message", s) \o tail
  OBVIOUS
<1>2. PICK fields : fields = JP!ReadFields(bytes) /\ fields = Msg!ReadFields(bytes)
  BY MsgReads
<1>3. FindsSaid(fields, "message", s)
  BY <1>1, <1>2, SaidFound
<1>4. ASSUME NEW i \in 1 .. 11
      PROVE  Msg!WireTypeOf(i) = TypeOf(Kind("message", i))
  BY MsgKinds DEF Msg!WireTypeOf, TypeOf, Msg!VARINT, JP!VARINT, Msg!DELIMITED, JP!DELIMITED
<1>5. /\ \A k \in DOMAIN fields : fields[k].number \in 1 .. 11 => fields[k].wireType = Msg!WireTypeOf(fields[k].number)
      /\ \A i \in 1 .. 11 : Msg!HasField(fields, i) <=> s[i] # Nothing(Kind("message", i))
  BY <1>3, <1>4, MessageKinds, MsgFinds DEF FindsSaid
<1>6. ASSUME NEW i \in 1 .. 11, s[i] # Nothing(Kind("message", i))
      PROVE  Msg!ReadValue(Msg!LastField(fields, i)) = BackOf(Kind("message", i), s[i])
  <2>1. PICK field : field = Msg!LastField(fields, i)
    OBVIOUS
  <2>2. field.number = i /\ field.value = PayloadOf(Kind("message", i), s[i])
    BY <1>3, <1>6, <2>1, MessageKinds, MsgFinds DEF FindsSaid
  <2>3. s[i] \in Sayable(Kind("message", i))
    BY MessageKinds DEF Said
  <2>4. CASE Kind("message", i) = "number"
    <3>1. s[i] \in GoodNumbers
      BY <2>3, <2>4 DEF Sayable
    <3>2. Msg!ReadVarint(field.value, 1) = s[i]
      BY <2>2, <2>4, <3>1, NumberBack, MsgReadsNumber DEF PayloadOf
    <3>3. QED
      BY <2>1, <2>2, <2>4, <3>2, MsgKinds DEF Msg!ReadValue, BackOf
  <2>5. CASE Kind("message", i) = "content"
    <3>1. field.value = s[i]
      BY <2>2, <2>5 DEF PayloadOf
    <3>2. QED
      BY <2>1, <2>2, <2>5, <3>1, MsgKinds DEF Msg!ReadValue, BackOf
  <2>6. CASE Kind("message", i) = "text"
    <3>1. s[i] \in JP!Short
      BY <2>3, <2>6 DEF Sayable
    <3>2. Msg!DecodeString(field.value) = JP!Received(s[i])
      BY <2>2, <2>6, <3>1, ShortEncoded, MsgDecode DEF PayloadOf
    <3>3. QED
      BY <2>1, <2>2, <2>6, <3>2, MsgKinds DEF Msg!ReadValue, BackOf
  <2>7. QED
    BY <2>4, <2>5, <2>6, KindOf DEF Kinds
<1>7. Msg!DeserializeBinaryFromReader(o, bytes)
        = [i \in 1 .. 11 |-> IF Msg!HasField(fields, i) THEN Msg!ReadValue(Msg!LastField(fields, i)) ELSE o[i]]
  BY <1>2, <1>5, MsgNames DEF Msg!DeserializeBinaryFromReader
<1>8. Merge("message", o, s)
        = [i \in 1 .. 11 |-> IF s[i] # Nothing(Kind("message", i)) THEN BackOf(Kind("message", i), s[i]) ELSE o[i]]
  BY MessageKinds DEF Merge
<1>9. QED
  BY <1>1, <1>5, <1>6, <1>7, <1>8

-----------------------------------------------------------------------------
(* What an object says after a frame was read into it.                     *)

LEMMA NoValue ==
  ASSUME NEW value \in Values
  PROVE  value # None
  BY NoneAssumption

LEMMA GoodValues ==
  ASSUME NEW kind \in Kinds, NEW value \in Good(kind)
  PROVE  value \in Values /\ value # None
<1>1. CASE kind = "text"
  <2>1. value \in Texts
    <3>1. value \in Seq(JP!Unit)
      BY <1>1 DEF Good, JP!Short
    <3>2. Texts = Seq(JP!Unit)
      BY DEF JP!Unit, Texts
    <3>3. QED
      BY <3>1, <3>2
  <2>2. QED
    BY <2>1, NoValue DEF Values
<1>2. CASE kind = "number"
  <2>1. value \in Nat
    BY <1>2 DEF Good, GoodNumbers
  <2>2. QED
    BY <2>1, NoValue DEF Values
<1>3. CASE kind = "content"
  <2>1. value \in Contents
    BY <1>3 DEF Good, GoodContents
  <2>2. QED
    BY <2>1, NoValue DEF Values
<1>4. QED
  BY <1>1, <1>2, <1>3 DEF Kinds

LEMMA BackGood ==
  ASSUME NEW kind \in Kinds, NEW said \in Sayable(kind)
  PROVE  BackOf(kind, said) \in Good(kind)
<1>1. CASE kind = "text"
  BY <1>1, JP!ReceivedShort DEF BackOf, Good, Sayable
<1>2. CASE kind = "number"
  BY <1>2 DEF BackOf, Good, Sayable
<1>3. CASE kind = "content"
  <2>1. said \in Seq(0 .. 255) /\ Len(said) <= 2147483647
    BY <1>3 DEF Sayable, GoodBytes
  <2>2. PICK x : x = [is |-> "bytes", data |-> said]
    OBVIOUS
  <2>3. x \in Contents /\ x.data = said /\ x.is = "bytes"
    BY <2>1, <2>2 DEF Contents, Bytes
  <2>4. x \in GoodContents
    BY <2>1, <2>3 DEF GoodContents
  <2>5. QED
    BY <1>3, <2>2, <2>4 DEF BackOf, Good, Msg!Bytes
<1>4. QED
  BY <1>1, <1>2, <1>3 DEF Kinds

\* What the reader of a field has of it.
Heard(kind, said) == IF kind = "text" THEN JP!Received(said) ELSE said

LEMMA BackMeans ==
  ASSUME NEW kind \in Kinds, NEW said \in Sayable(kind)
  PROVE  Meaning(kind, BackOf(kind, said)) = Heard(kind, said)
<1>1. BackOf(kind, said) # None
  BY BackGood, GoodValues
<1>2. CASE kind = "content"
  <2>1. BackOf(kind, said) = [is |-> "bytes", data |-> said]
    BY <1>2 DEF BackOf, Msg!Bytes
  <2>2. BytesOf(BackOf(kind, said)) = said
    BY <2>1 DEF BytesOf
  <2>3. QED
    BY <1>1, <1>2, <2>2 DEF Meaning, Heard
<1>3. CASE kind # "content"
  BY <1>1, <1>3 DEF Meaning, Heard, BackOf, Kinds
<1>4. QED
  BY <1>2, <1>3

LEMMA MergeObject ==
  ASSUME NEW c, NEW o, IsObject(c, o), NEW s, Said(c, s)
  PROVE  IsObject(c, Merge(c, o, s))
<1>1. ASSUME NEW i \in 1 .. Count(c)
      PROVE  /\ Merge(c, o, s)[i] \in Values \cup {None}
             /\ Merge(c, o, s)[i] = None \/ Merge(c, o, s)[i] \in Good(Kind(c, i))
  <2>1. Kind(c, i) \in Kinds /\ s[i] \in Sayable(Kind(c, i))
    BY KindOf DEF Said
  <2>2. o[i] \in Values \cup {None} /\ (o[i] = None \/ o[i] \in Good(Kind(c, i)))
    BY DEF IsObject
  <2>3. BackOf(Kind(c, i), s[i]) \in Good(Kind(c, i)) /\ BackOf(Kind(c, i), s[i]) \in Values
    BY <2>1, BackGood, GoodValues
  <2>4. QED
    BY <2>2, <2>3 DEF Merge
<1>2. Merge(c, o, s) \in [1 .. Count(c) -> Values \cup {None}]
  BY <1>1 DEF Merge
<1>3. QED
  BY <1>1, <1>2 DEF IsObject

LEMMA MergeSays ==
  ASSUME NEW c, NEW o, NEW s, Said(c, s), NEW i \in 1 .. Count(c)
  PROVE  Says(c, Merge(c, o, s))[i]
           = IF s[i] = Nothing(Kind(c, i)) THEN Says(c, o)[i] ELSE Heard(Kind(c, i), s[i])
<1>1. Kind(c, i) \in Kinds /\ s[i] \in Sayable(Kind(c, i))
  BY KindOf DEF Said
<1>2. Meaning(Kind(c, i), BackOf(Kind(c, i), s[i])) = Heard(Kind(c, i), s[i])
  BY <1>1, BackMeans
<1>3. Says(c, Merge(c, o, s))[i] = Meaning(Kind(c, i), Merge(c, o, s)[i]) /\ Says(c, o)[i] = Meaning(Kind(c, i), o[i])
  BY DEF Says
<1>4. Merge(c, o, s)[i] = IF s[i] # Nothing(Kind(c, i)) THEN BackOf(Kind(c, i), s[i]) ELSE o[i]
  BY DEF Merge
<1>5. QED
  BY <1>2, <1>3, <1>4

\* A new object.
Fresh(c) == [i \in 1 .. Count(c) |-> None]

LEMMA FreshObject ==
  ASSUME NEW c
  PROVE  IsObject(c, Fresh(c)) /\ \A i \in 1 .. Count(c) : Says(c, Fresh(c))[i] = Nothing(Kind(c, i))
  BY DEF IsObject, Fresh, Says, Meaning

LEMMA ObjectThere ==
  ASSUME NEW c, NEW o, IsObject(c, o)
  PROVE  o # None
<1>1. PICK n \in {9, 11} : n = Count(c)
  BY CountOf
<1>2. o \in [1 .. n -> Values \cup {None}]
  BY <1>1 DEF IsObject
<1>3. QED
  BY <1>2, NoneAssumption

\* Written again it is the same.
LEMMA PassedOn ==
  ASSUME NEW c, NEW s, Said(c, s)
  PROVE  FrameOf(c, Says(c, Merge(c, Fresh(c), s))) = FrameOf(c, s)
<1>1. ASSUME NEW i \in 1 .. Count(c)
      PROVE  PieceOf(Kind(c, i), i, Says(c, Merge(c, Fresh(c), s))[i]) = PieceOf(Kind(c, i), i, s[i])
  <2>1. Says(c, Merge(c, Fresh(c), s))[i]
          = IF s[i] = Nothing(Kind(c, i)) THEN Says(c, Fresh(c))[i] ELSE Heard(Kind(c, i), s[i])
    BY MergeSays
  <2>2. CASE s[i] = Nothing(Kind(c, i))
    BY <2>1, <2>2, FreshObject
  <2>3. CASE s[i] # Nothing(Kind(c, i)) /\ Kind(c, i) # "text"
    BY <2>1, <2>3 DEF Heard
  <2>4. CASE s[i] # Nothing(Kind(c, i)) /\ Kind(c, i) = "text"
    <3>1. s[i] \in Seq(JP!Unit)
      BY <2>4 DEF Said, Sayable, JP!Short
    <3>2. JP!EncodeString(JP!Received(s[i])) = JP!EncodeString(s[i]) /\ JP!Received(s[i]) # <<>>
      BY <2>4, <3>1, JP!ReceivedEncoded DEF Nothing
    <3>3. JP!WriteString(i, JP!Received(s[i])) = JP!WriteString(i, s[i])
      BY <3>2 DEF JP!WriteString
    <3>4. Says(c, Merge(c, Fresh(c), s))[i] = JP!Received(s[i])
      BY <2>1, <2>4 DEF Heard
    <3>5. QED
      BY <2>4, <3>2, <3>3, <3>4 DEF PieceOf, Nothing
  <2>5. QED
    BY <2>2, <2>3, <2>4
<1>2. PiecesOf(c, Says(c, Merge(c, Fresh(c), s))) = PiecesOf(c, s)
  BY <1>1 DEF PiecesOf
<1>3. QED
  BY <1>2 DEF FrameOf

\* A field of a newer writer.
LEMMA NewerAdded ==
  ASSUME NEW field \in NewerFields
  PROVE  IsAdded(Written(field))
<1>1. PICK i \in Nat, value \in Seq(0 .. 255) :
        i = field.number /\ value = field.value /\ i > 11 /\ i < 268435456 /\ Len(value) <= 2147483647
  BY NewerAssumption DEF Bytes
<1>2. PICK w : w = field.wireType
  OBVIOUS
<1>3. value \in Seq(JP!Byte) /\ JP!IsNumber(i) /\ JP!Countable(Len(value))
  <2>1. value \in Seq(JP!Byte)
    BY <1>1 DEF JP!Byte
  <2>2. JP!IsNumber(i)
    <3>1. i > 11 /\ i < 268435456
      BY <1>1
    <3>2. QED
      BY <3>1, SMT DEF JP!IsNumber
  <2>3. JP!Countable(Len(value))
    <3>1. Len(value) \in Nat /\ Len(value) <= 2147483647
      BY <1>1
    <3>2. QED
      BY <3>1, CountableNumber
  <2>4. QED
    BY <2>1, <2>2, <2>3
<1> DEFINE rest == IF w = JP!DELIMITED THEN JP!Varint(Len(value)) \o value ELSE value
<1>4. w \in JP!WireTypes /\ rest \in Seq(JP!Byte) /\ JP!IsPayload(rest, w, value)
  <2>1. \/ w = JP!DELIMITED
        \/ w = JP!FIXED64 /\ Len(value) = 8
        \/ w = JP!FIXED32 /\ Len(value) = 4
        \/ w = JP!VARINT /\ \E number : number \in Nat /\ number <= 2147483647 /\ value = Msg!Varint(number)
    BY <1>1, <1>2, NewerAssumption
    DEF JP!DELIMITED, JP!FIXED64, JP!FIXED32, JP!VARINT, Msg!DELIMITED, Msg!FIXED64, Msg!FIXED32, Msg!VARINT
  <2>2. CASE w = JP!DELIMITED
    BY <1>3, <2>2, JP!DelimitedPayload DEF JP!WireTypes
  <2>3. CASE w = JP!FIXED64 /\ Len(value) = 8
    <3>1. w \in {JP!FIXED32, JP!FIXED64} /\ Len(value) = (IF w = JP!FIXED64 THEN 8 ELSE 4) /\ w # JP!DELIMITED
      BY <2>3 DEF JP!DELIMITED, JP!FIXED64
    <3>2. QED
      BY <1>3, <3>1, JP!FixedPayload DEF JP!WireTypes
  <2>4. CASE w = JP!FIXED32 /\ Len(value) = 4
    <3>1. w \in {JP!FIXED32, JP!FIXED64} /\ Len(value) = (IF w = JP!FIXED64 THEN 8 ELSE 4) /\ w # JP!DELIMITED
      BY <2>4 DEF JP!DELIMITED, JP!FIXED64, JP!FIXED32
    <3>2. QED
      BY <1>3, <3>1, JP!FixedPayload DEF JP!WireTypes
  <2>5. CASE w = JP!VARINT /\ \E number : number \in Nat /\ number <= 2147483647 /\ value = Msg!Varint(number)
    <3>1. PICK number : number \in Nat /\ number <= 2147483647 /\ value = JP!Varint(number)
      BY <2>5, MsgVarint
    <3>2. JP!IsPayload(value, w, value)
      BY <2>5, <3>1, CountableNumber, JP!VarintPayload
    <3>3. w # JP!DELIMITED
      BY <2>5 DEF JP!DELIMITED, JP!VARINT
    <3>4. QED
      BY <1>3, <2>5, <3>2, <3>3 DEF JP!WireTypes
  <2>6. QED
    BY <2>1, <2>2, <2>3, <2>4, <2>5
<1>5. JP!IsImage(JP!FieldHeader(i, w) \o rest, JP!Carried(i, w, value))
  BY <1>3, <1>4, JP!FieldImage
<1>6. Written(field) = JP!FieldHeader(i, w) \o rest
  <2>1. CASE w = JP!DELIMITED
    <3>1. Written(field) = JP!WriteBytes(i, value)
      <4>1. field.wireType = Msg!DELIMITED
        BY <1>2, <2>1 DEF Msg!DELIMITED, JP!DELIMITED
      <4>2. Written(field) = Msg!WriteBytes(field.number, field.value)
        BY <4>1 DEF Written
      <4>3. field.number = i /\ field.value = value
        BY <1>1
      <4>4. QED
        BY <4>2, <4>3, MsgWritesBytes
    <3>2. JP!WriteBytes(i, value) = (JP!FieldHeader(i, w) \o JP!Varint(Len(value))) \o value
      BY <2>1 DEF JP!WriteBytes
    <3>3. JP!FieldHeader(i, w) \in Seq(JP!Byte) /\ JP!Varint(Len(value)) \in Seq(JP!Byte)
      BY <1>3, <1>4, JP!HeaderType, JP!VarintType
    <3>4. PICK h \in Seq(JP!Byte), v \in Seq(JP!Byte) : h = JP!FieldHeader(i, w) /\ v = JP!Varint(Len(value))
      BY <3>3
    <3>5. (h \o v) \o value = h \o (v \o value)
      BY <1>3
    <3>6. QED
      BY <2>1, <3>1, <3>2, <3>4, <3>5
  <2>2. CASE w # JP!DELIMITED
    <3>1. field.wireType # Msg!DELIMITED
      BY <1>2, <2>2 DEF Msg!DELIMITED, JP!DELIMITED
    <3>2. Written(field) = Msg!FieldHeader(field.number, field.wireType) \o field.value
      BY <3>1 DEF Written
    <3>3. field.number = i /\ field.value = value
      BY <1>1
    <3>4. Written(field) = Msg!FieldHeader(i, w) \o value
      BY <1>2, <3>2, <3>3
    <3>5. QED
      BY <2>2, <3>4, MsgHeader
  <2>3. QED
    BY <2>1, <2>2
<1>7. Unknown(JP!Carried(i, w, value))
  <2>1. PICK x : x = [number |-> i, wireType |-> w, value |-> value]
    OBVIOUS
  <2>2. x.number = i
    BY <2>1
  <2>3. i \notin 1 .. 11
    BY <1>1
  <2>4. QED
    BY <2>1, <2>2, <2>3 DEF Unknown, JP!Carried
<1>8. Written(field) \in Seq(JP!Byte)
  BY <1>5, <1>6 DEF JP!IsImage
<1>9. QED
  BY <1>5, <1>6, <1>7, <1>8 DEF IsAdded

LEMMA NothingAdded == IsAdded(<<>>)
  BY DEF IsAdded

-----------------------------------------------------------------------------
(* The objects of the specification.                                       *)

Classes == {"messagebody", "message"}

LEMMA ClassNames ==
  ASSUME class \in Classes
  PROVE  /\ DOMAIN Names = 1 .. Count(class) /\ New = Fresh(class)
         /\ IsBody => class = "messagebody" /\ Count(class) = 9
         /\ ~IsBody => class = "message" /\ Count(class) = 11
<1>1. CASE class = "messagebody"
  BY <1>1, BodyNames DEF IsBody, Names, New, Body!New, Fresh, Count
<1>2. CASE class = "message"
  BY <1>2, MsgNames DEF IsBody, Names, New, Msg!New, Fresh, Count
<1>3. QED
  BY <1>1, <1>2 DEF Classes

LEMMA Serialized ==
  ASSUME class \in Classes, NEW o, IsObject(class, o)
  PROVE  SerializeBinary(o) = FrameOf(class, Says(class, o))
  BY ClassNames, BodySerialized, MsgSerialized DEF SerializeBinary

LEMMA ReadBack ==
  ASSUME class \in Classes, NEW o, NEW s, Said(class, s), NEW tail, IsAdded(tail)
  PROVE  ReadInto(o, FrameOf(class, s) \o tail) = Merge(class, o, s)
  BY ClassNames, BodyRead, MsgRead DEF ReadInto

LEMMA ValueSaid ==
  ASSUME class \in Classes, NEW o, IsObject(class, o), NEW i \in 1 .. Count(class)
  PROVE  Value(o, Names[i]) = Says(class, o)[i]
<1>1. Says(class, o)[i] = Meaning(Kind(class, i), o[i])
  BY DEF Says
<1>2. CASE IsBody
  <2>1. i \in 1 .. 9 /\ Kind(class, i) = "text" /\ Names[i] = Body!Names[i]
    BY <1>2, ClassNames DEF Kind, Names
  <2>2. Value(o, Names[i]) = Body!Get(o, Body!Names[i])
    BY <1>2, <2>1 DEF Value
  <2>3. QED
    BY <1>1, <2>1, <2>2, BodyGets
<1>3. CASE ~IsBody
  <2>1. i \in 1 .. 11 /\ class = "message" /\ Names[i] = Msg!Names[i]
    BY <1>3, ClassNames DEF Names
  <2>2. CASE Kind("message", i) # "content"
    <3>1. Names[i] # "content"
      BY <2>1, <2>2, MsgKinds
    <3>2. Value(o, Names[i]) = Msg!Get(o, Msg!Names[i])
      BY <1>3, <2>1, <3>1 DEF Value
    <3>3. Msg!Get(o, Msg!Names[i]) = IF o[i] # None THEN o[i] ELSE Nothing(Kind("message", i))
      BY <2>1, <2>2, MsgGets
    <3>4. QED
      BY <1>1, <2>1, <2>2, <3>2, <3>3 DEF Meaning
  <2>3. CASE Kind("message", i) = "content"
    <3>1. Names[i] = "content"
      BY <2>1, <2>3, MsgKinds
    <3>2. PICK field : field = Msg!Get(o, Msg!Names[i])
      OBVIOUS
    <3>3. Value(o, Names[i]) = BytesOf(field)
      BY <1>3, <2>1, <3>1, <3>2 DEF Value, BytesOf
    <3>4. CASE o[i] = None
      <4>1. field = [is |-> "base64", data |-> <<>>]
        BY <2>1, <2>3, <3>2, <3>4, MsgGets DEF Msg!Base64
      <4>2. BytesOf(field) = <<>>
        BY <4>1, NothingDecoded DEF BytesOf
      <4>3. QED
        BY <1>1, <2>1, <2>3, <3>3, <3>4, <4>2 DEF Meaning, Nothing
    <3>5. CASE o[i] # None
      <4>1. field = o[i]
        BY <2>1, <2>3, <3>2, <3>5, MsgGets
      <4>2. QED
        BY <1>1, <2>1, <2>3, <3>3, <3>5, <4>1 DEF Meaning
    <3>6. QED
      BY <3>4, <3>5
  <2>4. QED
    BY <2>2, <2>3
<1>4. QED
  BY <1>2, <1>3

\* A setter leaves an object one.
SetTo(o, name, value) == IF IsBody THEN Body!Set(o, name, value) ELSE Msg!Set(o, name, value)

LEMMA TextsGood ==
  ASSUME NEW value \in SomeTexts
  PROVE  value = None \/ value \in Good("text")
<1>1. CASE value # None
  <2>1. value \in Texts /\ Len(value) <= JP!MostUnits
    BY <1>1, TextAssumption DEF JP!MostUnits
  <2>2. Texts = Seq(JP!Unit)
    BY DEF JP!Unit, Texts
  <2>3. QED
    BY <2>1, <2>2 DEF Good, JP!Short
<1>2. QED
  BY <1>1

LEMMA NumbersGood ==
  ASSUME NEW value \in SomeNumbers
  PROVE  value = None \/ value \in Good("number")
  BY NumberAssumption DEF Good, GoodNumbers

LEMMA ContentsGood ==
  ASSUME NEW value \in SomeContents
  PROVE  value = None \/ value \in Good("content")
  BY ContentAssumption DEF Good, GoodContents

LEMMA CandidatesGood ==
  ASSUME class \in Classes, NEW i \in 1 .. Count(class), NEW value \in Candidates(Names[i])
  PROVE  value = None \/ value \in Good(Kind(class, i))
<1>1. CASE IsBody
  <2>1. Kind(class, i) = "text" /\ value \in SomeTexts
    BY <1>1, ClassNames DEF Kind, Candidates
  <2>2. QED
    BY <2>1, TextsGood
<1>2. CASE ~IsBody
  <2>1. i \in 1 .. 11 /\ class = "message" /\ Names[i] = Msg!Names[i]
    BY <1>2, ClassNames DEF Names
  <2>2. CASE Kind("message", i) = "number"
    <3>1. value \in SomeNumbers
      BY <1>2, <2>1, <2>2, MsgKinds DEF Candidates
    <3>2. QED
      BY <2>1, <2>2, <3>1, NumbersGood
  <2>3. CASE Kind("message", i) = "content"
    <3>1. value \in SomeContents
      BY <1>2, <2>1, <2>3, MsgKinds DEF Candidates
    <3>2. QED
      BY <2>1, <2>3, <3>1, ContentsGood
  <2>4. CASE Kind("message", i) = "text"
    <3>1. value \in SomeTexts
      BY <1>2, <2>1, <2>4, MsgKinds DEF Candidates
    <3>2. QED
      BY <2>1, <2>4, <3>1, TextsGood
  <2>5. QED
    BY <2>2, <2>3, <2>4, KindOf DEF Kinds
<1>3. QED
  BY <1>1, <1>2

LEMMA SetObject ==
  ASSUME class \in Classes, NEW o, IsObject(class, o), NEW i \in 1 .. Count(class),
         NEW value \in Candidates(Names[i])
  PROVE  IsObject(class, SetTo(o, Names[i], value))
<1>1. SetTo(o, Names[i], value) = [o EXCEPT ![i] = value]
  <2>1. CASE IsBody
    <3>1. i \in 1 .. 9 /\ Names[i] = Body!Names[i]
      BY <2>1, ClassNames DEF Names
    <3>2. QED
      BY <2>1, <3>1, BodyNumber DEF SetTo, Body!Set, Body!SetField
  <2>2. CASE ~IsBody
    <3>1. i \in 1 .. 11 /\ Names[i] = Msg!Names[i]
      BY <2>2, ClassNames DEF Names
    <3>2. QED
      BY <2>2, <3>1, MsgNumber DEF SetTo, Msg!Set, Msg!SetField
  <2>3. QED
    BY <2>1, <2>2
<1>2. value = None \/ (value \in Good(Kind(class, i)) /\ value \in Values)
  <2>1. value = None \/ value \in Good(Kind(class, i))
    BY CandidatesGood
  <2>2. Kind(class, i) \in Kinds
    BY KindOf
  <2>3. QED
    BY <2>1, <2>2, GoodValues
<1>3. o \in [1 .. Count(class) -> Values \cup {None}]
  BY DEF IsObject
<1>4. [o EXCEPT ![i] = value] \in [1 .. Count(class) -> Values \cup {None}]
  BY <1>2, <1>3
<1>5. ASSUME NEW j \in 1 .. Count(class)
      PROVE  [o EXCEPT ![i] = value][j] = None \/ [o EXCEPT ![i] = value][j] \in Good(Kind(class, j))
  BY <1>2, <1>3 DEF IsObject
<1>6. QED
  BY <1>1, <1>4, <1>5 DEF IsObject

-----------------------------------------------------------------------------
(* The inductive invariant: a frame is what its object says, and what a    *)
(* newer writer adds; what was read is the one read into, with that.       *)

FrameSays == \E tail : IsAdded(tail) /\ frame = FrameOf(class, Says(class, written)) \o tail

ObjectsInv ==
  /\ class \in Classes /\ sets \in 0 .. MaxSets
  /\ IsObject(class, obj) /\ IsObject(class, copy)
  /\ frame # None => /\ IsObject(class, written) /\ FrameSays
                     /\ ~newer => frame = FrameOf(class, Says(class, written))
  /\ before # None => /\ frame # None /\ IsObject(class, before)
                      /\ copy = Merge(class, before, Says(class, written))

LEMMA FrameThere ==
  ASSUME NEW f \in Seq(JP!Byte)
  PROVE  f # None
  BY NoneAssumption DEF JP!Byte, Bytes

\* Each action keeps the invariant.
LEMMA InitInv == Init => ObjectsInv
<1> SUFFICES ASSUME Init PROVE ObjectsInv
  OBVIOUS
<1>1. class \in Classes
  BY DEF Init, Classes
<1>2. New = Fresh(class) /\ IsObject(class, Fresh(class))
  BY <1>1, ClassNames, FreshObject
<1>3. sets \in 0 .. MaxSets
  BY BoundAssumption DEF Init
<1>4. QED
  BY <1>1, <1>2, <1>3 DEF Init, ObjectsInv

LEMMA SetFieldInv ==
  ASSUME ObjectsInv, NEW i \in DOMAIN Names, SetField(Names[i])
  PROVE  ObjectsInv'
<1>1. class \in Classes /\ i \in 1 .. Count(class)
  BY ClassNames DEF ObjectsInv
<1>2. PICK value \in Candidates(Names[i]) : obj' = SetTo(obj, Names[i], value)
  BY DEF SetField, SetTo
<1>3. IsObject(class, obj')
  BY <1>1, <1>2, SetObject DEF ObjectsInv
<1>4. sets' \in 0 .. MaxSets
  BY BoundAssumption DEF SetField, ObjectsInv
<1>5. UNCHANGED <<class, written, frame, newer, copy, before>>
  BY DEF SetField
<1>6. QED
  BY <1>3, <1>4, <1>5 DEF ObjectsInv, FrameSays

LEMMA SerializeInv ==
  ASSUME ObjectsInv, Serialize
  PROVE  ObjectsInv'
<1>1. class \in Classes /\ IsObject(class, obj)
  BY DEF ObjectsInv
<1>2. frame' = FrameOf(class, Says(class, obj))
  BY <1>1, Serialized DEF Serialize
<1>3. FrameOf(class, Says(class, obj)) \in Seq(JP!Byte)
  BY <1>1, ObjectSaid, FrameOfType
<1>4. FrameOf(class, Says(class, obj)) \o <<>> = FrameOf(class, Says(class, obj))
  BY <1>3
<1>5. UNCHANGED <<class, obj, sets, copy>> /\ written' = obj /\ newer' = FALSE /\ before' = None
  BY DEF Serialize
<1>6. FrameSays'
  BY <1>2, <1>4, <1>5, NothingAdded DEF FrameSays
<1>7. QED
  BY <1>1, <1>2, <1>5, <1>6 DEF ObjectsInv

LEMMA SerializeNewerInv ==
  ASSUME ObjectsInv, SerializeNewer
  PROVE  ObjectsInv'
<1>1. PICK field \in NewerFields : frame' = frame \o Written(field)
  BY DEF SerializeNewer
<1>2. /\ UNCHANGED <<class, obj, sets, written, copy, before>> /\ newer' = TRUE
      /\ frame # None /\ ~newer /\ before = None
  BY DEF SerializeNewer
<1>3. IsObject(class, written) /\ frame = FrameOf(class, Says(class, written))
  BY <1>2 DEF ObjectsInv
<1>4. FrameSays'
  BY <1>1, <1>2, <1>3, NewerAdded DEF FrameSays
<1>5. QED
  BY <1>2, <1>3, <1>4 DEF ObjectsInv

\* What a read of the frame makes.
LEMMA FrameRead ==
  ASSUME ObjectsInv, frame # None, NEW o, IsObject(class, o)
  PROVE  /\ ReadInto(o, frame) = Merge(class, o, Says(class, written))
         /\ IsObject(class, Merge(class, o, Says(class, written)))
<1>1. class \in Classes /\ IsObject(class, written) /\ Said(class, Says(class, written))
  BY ObjectSaid DEF ObjectsInv
<1>2. PICK tail : IsAdded(tail) /\ frame = FrameOf(class, Says(class, written)) \o tail
  BY DEF ObjectsInv, FrameSays
<1>3. QED
  BY <1>1, <1>2, ReadBack, MergeObject

LEMMA DeserializeInv ==
  ASSUME ObjectsInv, Deserialize
  PROVE  ObjectsInv'
<1>1. class \in Classes /\ New = Fresh(class) /\ IsObject(class, New)
  BY ClassNames, FreshObject DEF ObjectsInv
<1>2. copy' = ReadInto(New, frame)
  BY DEF Deserialize, ReadInto, New, Body!DeserializeBinary, Msg!DeserializeBinary
<1>3. UNCHANGED <<class, obj, sets, written, frame, newer>> /\ before' = New /\ frame # None
  BY DEF Deserialize
<1>4. copy' = Merge(class, New, Says(class, written)) /\ IsObject(class, copy')
  BY <1>1, <1>2, <1>3, FrameRead
<1>5. QED
  BY <1>1, <1>3, <1>4 DEF ObjectsInv, FrameSays

LEMMA DeserializeIntoInv ==
  ASSUME ObjectsInv, DeserializeInto
  PROVE  ObjectsInv'
<1>1. UNCHANGED <<class, obj, sets, written, frame, newer>> /\ before' = copy /\ frame # None
  BY DEF DeserializeInto
<1>2. copy' = Merge(class, copy, Says(class, written)) /\ IsObject(class, copy')
  BY <1>1, FrameRead DEF DeserializeInto, ObjectsInv
<1>3. QED
  BY <1>1, <1>2 DEF ObjectsInv, FrameSays

LEMMA NextInv == ObjectsInv /\ [Next]_vars => ObjectsInv'
<1> SUFFICES ASSUME ObjectsInv, [Next]_vars PROVE ObjectsInv'
  OBVIOUS
<1>1. CASE UNCHANGED vars
  BY <1>1 DEF vars, ObjectsInv, FrameSays
<1>2. ASSUME NEW i \in DOMAIN Names, SetField(Names[i]) PROVE ObjectsInv'
  BY <1>2, SetFieldInv
<1>3. CASE Serialize
  BY <1>3, SerializeInv
<1>4. CASE SerializeNewer
  BY <1>4, SerializeNewerInv
<1>5. CASE Deserialize
  BY <1>5, DeserializeInv
<1>6. CASE DeserializeInto
  BY <1>6, DeserializeIntoInv
<1>7. QED
  BY <1>1, <1>2, <1>3, <1>4, <1>5, <1>6 DEF Next

\* The frame stays what its object said, and what was read what the reader had
\* and the frame said, through every setter, write and read.
THEOREM ObjectsCorrect == Spec => []ObjectsInv
  BY InitInv, NextInv, PTL DEF Spec

-----------------------------------------------------------------------------
(* The properties of the specification.                                    *)

LEMMA TypeHolds == ObjectsInv => TypeOK
<1> SUFFICES ASSUME ObjectsInv PROVE TypeOK
  OBVIOUS
<1>1. frame # None => \A i \in DOMAIN frame : frame[i] \in 0 .. 255
  <2>1. ASSUME frame # None PROVE frame \in Seq(JP!Byte)
    <3>1. Said(class, Says(class, written))
      BY <2>1, ObjectSaid DEF ObjectsInv
    <3>2. PICK tail : IsAdded(tail) /\ frame = FrameOf(class, Says(class, written)) \o tail
      BY <2>1 DEF ObjectsInv, FrameSays
    <3>3. FrameOf(class, Says(class, written)) \in Seq(JP!Byte) /\ tail \in Seq(JP!Byte)
      BY <3>1, <3>2, FrameOfType DEF IsAdded
    <3>4. QED
      BY <3>2, <3>3
  <2>2. JP!Byte = 0 .. 255
    BY DEF JP!Byte
  <2>3. ASSUME NEW f \in Seq(JP!Byte) PROVE \A i \in DOMAIN f : f[i] \in JP!Byte
    OBVIOUS
  <2>4. QED
    BY <2>1, <2>2, <2>3
<1>2. ASSUME NEW o, IsObject(class, o) PROVE o # None /\ DOMAIN o = DOMAIN Names
  BY <1>2, ClassNames, ObjectThere DEF IsObject, ObjectsInv
<1>3. QED
  BY <1>1, <1>2 DEF TypeOK, ObjectsInv

LEMMA ReadHolds == ObjectsInv => ReadAsWritten
<1> SUFFICES ASSUME ObjectsInv, before # None, NEW i \in DOMAIN Names
             PROVE  LET name  == Names[i]
                        value == Value(written, name)
                        isNumber == ~IsBody /\ name \in Msg!Numbers
                        isText == IsBody \/ name \notin Msg!Numbers \cup {"content"}
                    IN  Value(copy, name) = IF value = (IF isNumber THEN 0 ELSE <<>>) THEN Value(before, name)
                                            ELSE IF isText THEN Body!Received(value) ELSE value
  BY DEF ReadAsWritten
<1> DEFINE s == Says(class, written)
           kind == Kind(class, i)
<1>1. class \in Classes /\ i \in 1 .. Count(class)
  BY ClassNames DEF ObjectsInv
<1>2. /\ IsObject(class, written) /\ IsObject(class, before) /\ IsObject(class, copy)
      /\ copy = Merge(class, before, s)
  BY DEF ObjectsInv
<1>3. /\ Value(written, Names[i]) = s[i]
      /\ Value(before, Names[i]) = Says(class, before)[i]
      /\ Value(copy, Names[i]) = Says(class, copy)[i]
  BY <1>1, <1>2, ValueSaid
<1>4. Said(class, s)
  BY <1>2, ObjectSaid
<1> HIDE DEF s
<1>5. Says(class, copy)[i] = IF s[i] = Nothing(kind) THEN Says(class, before)[i] ELSE Heard(kind, s[i])
  BY <1>1, <1>2, <1>4, MergeSays
<1>6. /\ ~IsBody /\ Names[i] \in Msg!Numbers <=> kind = "number"
      /\ IsBody \/ Names[i] \notin Msg!Numbers \cup {"content"} <=> kind = "text"
  <2>1. CASE IsBody
    BY <1>1, <2>1, ClassNames DEF Kind
  <2>2. CASE ~IsBody
    <3>1. class = "message" /\ i \in 1 .. 11 /\ Names[i] = Msg!Names[i]
      BY <1>1, <2>2, ClassNames DEF Names
    <3>2. kind \in Kinds
      BY KindOf
    <3>3. QED
      BY <2>2, <3>1, <3>2, MsgKinds DEF Kinds
  <2>3. QED
    BY <2>1, <2>2
<1> HIDE DEF kind
<1>7. Nothing(kind) = IF ~IsBody /\ Names[i] \in Msg!Numbers THEN 0 ELSE <<>>
  BY <1>6 DEF Nothing
<1>8. Heard(kind, s[i])
        = IF IsBody \/ Names[i] \notin Msg!Numbers \cup {"content"} THEN Body!Received(s[i]) ELSE s[i]
  BY <1>6, BodyReceives DEF Heard
<1>9. QED
  BY <1>3, <1>5, <1>7, <1>8

LEMMA PassedHolds == ObjectsInv => PassedOnUnchanged
<1> SUFFICES ASSUME ObjectsInv, before = New PROVE SerializeBinary(copy) = SerializeBinary(written)
  BY DEF PassedOnUnchanged
<1>1. class \in Classes /\ New = Fresh(class) /\ New # None
  BY ClassNames, FreshObject, ObjectThere DEF ObjectsInv
<1>2. /\ IsObject(class, written) /\ IsObject(class, copy)
      /\ copy = Merge(class, Fresh(class), Says(class, written))
  BY <1>1 DEF ObjectsInv
<1>3. FrameOf(class, Says(class, copy)) = FrameOf(class, Says(class, written))
  BY <1>2, ObjectSaid, PassedOn
<1>4. QED
  BY <1>1, <1>2, <1>3, Serialized

LEMMA ShownHolds == ObjectsInv => ObjectShowsBytes
<1> SUFFICES ASSUME ObjectsInv, ~IsBody
             PROVE  BytesOfBase64(Msg!ToObject(copy).content) = Value(copy, "content")
  BY DEF ObjectShowsBytes
<1>1. class = "message" /\ IsObject("message", copy)
  BY ClassNames DEF ObjectsInv
<1>2. Msg!Names[11] = "content" /\ 11 \in DOMAIN Msg!Names
  BY MsgKinds, MsgNames, MessageKinds
<1>3. Msg!ToObject(copy).content = Msg!ContentAsB64(copy)
  BY <1>2 DEF Msg!ToObject, Msg!Range
<1>4. PICK content : content = Msg!Get(copy, "content")
  OBVIOUS
<1>5. content.is \in {"bytes", "base64"} /\ content.data \in Seq(0 .. 255)
  <2>1. content = IF copy[11] # None THEN copy[11] ELSE [is |-> "base64", data |-> <<>>]
    BY <1>2, <1>4, MsgGets, MessageKinds DEF Msg!Base64
  <2>2. copy[11] = None \/ copy[11] \in GoodContents
    BY <1>1, MessageKinds DEF IsObject, Good
  <2>3. CASE copy[11] = None
    BY <2>1, <2>3
  <2>4. CASE copy[11] # None
    BY <2>1, <2>2, <2>4, BytesOfType
  <2>5. QED
    BY <2>3, <2>4
<1>6. Value(copy, "content") = IF content.is = "bytes" THEN content.data ELSE BytesOfBase64(content.data)
  BY <1>4 DEF Value
<1>7. CASE content.is = "base64"
  BY <1>3, <1>4, <1>6, <1>7 DEF Msg!ContentAsB64
<1>8. CASE content.is = "bytes"
  <2>1. Msg!ContentAsB64(copy) = Msg!EncodeBase64(content.data)
    BY <1>4, <1>8 DEF Msg!ContentAsB64
  <2>2. QED
    BY <1>3, <1>5, <1>6, <1>8, <2>1, Encoded
<1>9. QED
  BY <1>5, <1>7, <1>8

\* Writers only write bytes, and no read of a frame ends with the failed
\* assertion of a reader, whatever texts, numbers and contents are set.
THEOREM TypeCorrect == Spec => []TypeOK
  BY ObjectsCorrect, TypeHolds, PTL

\* Of any object, with any fields of a newer writer behind it, a reader gets
\* every field (serializeBinaryToWriter, deserializeBinaryFromReader).
THEOREM ReadCorrect == Spec => []ReadAsWritten
  BY ObjectsCorrect, ReadHolds, PTL

\* What was read into a new object is written as it came, but for what the
\* class does not know.
THEOREM PassedOnCorrect == Spec => []PassedOnUnchanged
  BY ObjectsCorrect, PassedHolds, PTL

\* The base64 text that a page displays of a content stands for its bytes
\* (toObject, getContent_asB64).
THEOREM ShownCorrect == Spec => []ObjectShowsBytes
  BY ObjectsCorrect, ShownHolds, PTL

=============================================================================
