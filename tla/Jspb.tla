-------------------------------- MODULE Jspb --------------------------------
(***************************************************************************)
(* The part of the protobuf library that the generated classes of the web  *)
(* page use: jspb.BinaryWriter, jspb.BinaryReader, the fields of           *)
(* jspb.Message and goog.crypt.base64.                                     *)
(*                                                                         *)
(* A byte is a number below 256.  A text is a sequence of UTF-16 code      *)
(* units, as a JavaScript string is, and a base64 text one of the values   *)
(* of its characters, Padding for "=".  Numbers are below 2^31; TLC has no *)
(* larger ones.                                                            *)
(***************************************************************************)
EXTENDS Naturals, SequencesExt

CONSTANT None  \* undefined and null

\* jspb.BinaryConstants.WireType; proto3 has no groups.
VARINT == 0
FIXED64 == 1
DELIMITED == 2
FIXED32 == 5

-----------------------------------------------------------------------------
(* jspb.Message: the fields of a message.                                  *)

GetFieldWithDefault(msg, i, default) == IF msg[i] = None THEN default ELSE msg[i]

SetField(msg, i, value) == [msg EXCEPT ![i] = value]

-----------------------------------------------------------------------------
(* jspb.BinaryWriter.                                                      *)

\* Seven bits a byte, the low ones first.
Varint(n) ==
  LET size == IF n < 128 THEN 1 ELSE IF n < 16384 THEN 2 ELSE IF n < 2097152 THEN 3
              ELSE IF n < 268435456 THEN 4 ELSE 5
      bits == << n % 128, (n \div 128) % 128, (n \div 16384) % 128, (n \div 2097152) % 128,
                 n \div 268435456 >>
  IN  [k \in 1 .. size |-> IF k < size THEN bits[k] + 128 ELSE bits[k]]

IsHigh(unit) == unit \in 55296 .. 56319
IsLow(unit) == unit \in 56320 .. 57343

\* The six bits of n that start at the k-th continuation byte from the end.
Continuation(n, k) == ((n \div k) % 64) + 128

\* The code point of a surrogate pair.
CodePoint(high, low) == 1024 * (high - 55296) + (low - 56320) + 65536

\* Faulty: each half of a pair for itself.
FaultyUnitBytes(text, c) ==
  LET d == text[c]
  IN  IF d < 128 THEN <<d>>
      ELSE IF d < 2048 THEN <<(d \div 64) + 192, Continuation(d, 1)>>
      ELSE <<(d \div 4096) + 224, Continuation(d, 64), Continuation(d, 1)>>

\* What writeString() writes for the c-th unit: a pair is written with its high
\* half.  A high half before anything else is dropped; one at the end and a low
\* half alone are written like characters.
UnitBytes(text, c) ==
  LET d == text[c]
      paired == c > 1 /\ IsLow(d) /\ IsHigh(text[c - 1])
  IN  IF d < 128 THEN <<d>>
      ELSE IF d < 2048 THEN <<(d \div 64) + 192, Continuation(d, 1)>>
      ELSE IF IsHigh(d) /\ c < Len(text) THEN
        IF IsLow(text[c + 1])
        THEN LET p == CodePoint(d, text[c + 1])
             IN  <<(p \div 262144) + 240, Continuation(p, 4096), Continuation(p, 64), Continuation(p, 1)>>
        ELSE <<>>
      ELSE IF paired THEN <<>>
      ELSE <<(d \div 4096) + 224, Continuation(d, 64), Continuation(d, 1)>>

\* BinaryEncoder.writeString().
EncodeString(text) == FlattenSeq([c \in 1 .. Len(text) |-> UnitBytes(text, c)])

\* For the properties, a text as a reader is to get it: without the first halves
\* of surrogate pairs that stand before anything but a second half.
Received(text) ==
  FlattenSeq([c \in 1 .. Len(text) |->
                IF IsHigh(text[c]) /\ c < Len(text) /\ ~IsLow(text[c + 1]) THEN <<>> ELSE <<text[c]>>])

FieldHeader(field, wireType) == Varint(8 * field + wireType)

\* beginDelimited_, the text, and endDelimited_, which puts its length before it.
WriteString(field, text) ==
  FieldHeader(field, DELIMITED) \o Varint(Len(EncodeString(text))) \o EncodeString(text)

WriteUint32(field, n) == FieldHeader(field, VARINT) \o Varint(n)

WriteBytes(field, bytes) == FieldHeader(field, DELIMITED) \o Varint(Len(bytes)) \o bytes

-----------------------------------------------------------------------------
(* jspb.BinaryReader, on what the writers write: no field is cut off.      *)

\* The last byte of the number at c.
VarintEnd(bytes, c) ==
  CHOOSE e \in c .. Len(bytes) : bytes[e] < 128 /\ \A i \in c .. e - 1 : bytes[i] >= 128

\* readUnsignedVarint32().
ReadVarint(bytes, c) ==
  LET end     == VarintEnd(bytes, c)
      bits(k) == IF c + k > end THEN 0 ELSE bytes[c + k] % 128
  IN  bits(0) + 128 * bits(1) + 16384 * bits(2) + 2097152 * bits(3) + 268435456 * bits(4)

\* The units that readString() reads from a character of the bytes f to k, none
\* if f is within a character.
Units(f, g, h, k) ==
  IF f < 128 THEN <<f>>
  ELSE IF f < 192 THEN <<>>
  ELSE IF f < 224 THEN <<(f % 32) * 64 + (g % 64)>>
  ELSE IF f < 240 THEN <<(f % 16) * 4096 + (g % 64) * 64 + (h % 64)>>
  ELSE IF f < 248 THEN
    LET p == (f % 8) * 262144 + (g % 64) * 4096 + (h % 64) * 64 + (k % 64) - 65536
    IN  <<(p \div 1024) + 55296, (p % 1024) + 56320>>
  ELSE <<>>

UnitsAt(bytes, c) == Units(bytes[c], bytes[c + 1], bytes[c + 2], bytes[c + 3])

DecodeString(bytes) == FlattenSeq([c \in 1 .. Len(bytes) |-> UnitsAt(bytes, c)])

\* The bytes of the value at c, by the wire type in its header: what the
\* functions that read it and the ones that skip it advance over.
Payload(bytes, c, wireType) ==
  IF wireType = DELIMITED
  THEN [first |-> VarintEnd(bytes, c) + 1, last |-> VarintEnd(bytes, c) + ReadVarint(bytes, c)]
  ELSE [first |-> c,
        last |-> IF wireType = VARINT THEN VarintEnd(bytes, c)
                 ELSE IF wireType = FIXED64 THEN c + 7 ELSE c + 3]

\* The field whose header is at c, and its last byte: nextField() and the read
\* of the value.
FieldAt(bytes, c) ==
  LET header == ReadVarint(bytes, c)
      value  == Payload(bytes, VarintEnd(bytes, c) + 1, header % 8)
  IN  [number |-> header \div 8, wireType |-> header % 8,
       value |-> SubSeq(bytes, value.first, value.last), last |-> value.last]

\* The fields of a frame: nextField() until the end, or until a field is cut off.
ReadFields(bytes) ==
  LET from[c \in 1 .. Len(bytes) + 1] ==
        LET field == FieldAt(bytes, c)
        IN  IF c <= Len(bytes) /\ field.last \in c .. Len(bytes)
            THEN <<field>> \o from[field.last + 1]
            ELSE <<>>
  IN  from[1]

\* For the classes: one of the fields has number i, and the last one that has it,
\* whose value stays when they are set one after the other.
HasField(fields, i) == \E k \in DOMAIN fields : fields[k].number = i

LastField(fields, i) == fields[Max({k \in DOMAIN fields : fields[k].number = i})]

-----------------------------------------------------------------------------
(* goog.crypt.base64.                                                      *)

Padding == 64

\* Faulty: pads a last group of two bytes like one of one byte.
FaultyEncodeBase64(bytes) ==
  LET byte(i) == IF i <= Len(bytes) THEN bytes[i] ELSE 0
      group(e) == << byte(e) \div 4,
                     (byte(e) % 4) * 16 + (byte(e + 1) \div 16),
                     IF e + 2 > Len(bytes) THEN Padding ELSE (byte(e + 1) % 16) * 4 + (byte(e + 2) \div 64),
                     IF e + 2 > Len(bytes) THEN Padding ELSE byte(e + 2) % 64 >>
  IN  FlattenSeq([j \in 1 .. (Len(bytes) + 2) \div 3 |-> group(3 * j - 2)])

\* encodeByteArray(): three bytes become four characters.
EncodeBase64(bytes) ==
  LET byte(i) == IF i <= Len(bytes) THEN bytes[i] ELSE 0
      group(e) == << byte(e) \div 4,
                     (byte(e) % 4) * 16 + (byte(e + 1) \div 16),
                     IF e + 1 > Len(bytes) THEN Padding ELSE (byte(e + 1) % 16) * 4 + (byte(e + 2) \div 64),
                     IF e + 2 > Len(bytes) THEN Padding ELSE byte(e + 2) % 64 >>
  IN  FlattenSeq([j \in 1 .. (Len(bytes) + 2) \div 3 |-> group(3 * j - 2)])

\* decodeStringInternal_(): the padding may be missing.
DecodeBase64(text) ==
  LET char(i, missing) == IF i <= Len(text) THEN text[i] ELSE missing
      group(d) ==
        LET e == char(d, 0)
            f == char(d + 1, 0)
            g == char(d + 2, Padding)
            h == char(d + 3, Padding)
        IN  << e * 4 + (f \div 16) >>
            \o (IF g = Padding THEN <<>> ELSE << (f % 16) * 16 + (g \div 4) >>)
            \o (IF g = Padding \/ h = Padding THEN <<>> ELSE << (g % 4) * 64 + h >>)
  IN  FlattenSeq([j \in 1 .. (Len(text) + 3) \div 4 |-> group(4 * j - 3)])

=============================================================================
