----------------------------- MODULE PageObjects -----------------------------
(***************************************************************************)
(* The life of the objects of a generated class, proto.messagebody or      *)
(* proto.message: one object is filled by its setters and written to a     *)
(* frame, from which another one is read, or which is read into one that   *)
(* has values already.  The writer may be newer than the reader and have   *)
(* further fields: a page stays open when the server is replaced.          *)
(***************************************************************************)
EXTENDS Naturals, SequencesExt

CONSTANTS
  None,         \* undefined and null
  SomeTexts,    \* what text fields are set to
  SomeNumbers,  \* what number fields are set to
  SomeContents, \* what the content is set to
  NewerFields,  \* fields that only a newer writer writes
  MaxSets       \* bound on the calls of setters

Body == INSTANCE MessageBodyJs
Msg == INSTANCE MessageJs

Texts == Seq(0 .. 65535)
Bytes == Seq(0 .. 255)
Contents == [is : {"bytes", "base64"}, data : Bytes]

\* Base64, with or without its padding: the characters of whole bytes.
IsBase64(text) ==
  \E size \in 0 .. Len(text) :
    /\ \A i \in 1 .. size : text[i] \in 0 .. 63
    /\ \A i \in size + 1 .. Len(text) : text[i] = Msg!Padding
    /\ size % 4 # 1
    /\ Len(text) \in {size, 4 * ((size + 3) \div 4)}

\* Lengths are numbers that TLC has; a text has at most four bytes a unit.
ASSUME TextAssumption == \A text \in SomeTexts \ {None} : text \in Texts /\ Len(text) <= 536870911

ASSUME NumberAssumption == \A number \in SomeNumbers \ {None} : number \in Nat /\ number <= 2147483647

ASSUME ContentAssumption ==
  \A content \in SomeContents \ {None} :
    /\ content \in Contents /\ Len(content.data) <= 2147483647
    /\ content.is = "base64" => IsBase64(content.data)

\* Fields of each wire type, with numbers that neither class has.
ASSUME NewerAssumption ==
  \A field \in NewerFields :
    /\ field.number \in Nat /\ field.number > 11 /\ field.number < 268435456
    /\ field.value \in Bytes /\ Len(field.value) <= 2147483647
    /\ \/ field.wireType = Msg!DELIMITED
       \/ field.wireType = Msg!FIXED64 /\ Len(field.value) = 8
       \/ field.wireType = Msg!FIXED32 /\ Len(field.value) = 4
       \/ field.wireType = Msg!VARINT /\ \E number \in {Msg!ReadVarint(field.value, 1)} :
            number \in Nat /\ number <= 2147483647 /\ field.value = Msg!Varint(number)

ASSUME BoundAssumption == MaxSets \in Nat

\* undefined is no value of a field, and null neither a frame nor an object.
Values == Texts \cup Nat \cup Contents

ASSUME NoneAssumption ==
  /\ None \notin Values /\ None \notin Bytes
  /\ \A n \in {9, 11} : None \notin [1 .. n -> Values \cup {None}]

VARIABLES
  class,    \* the class of the objects
  obj,      \* the object that is written
  sets,     \* calls of setters so far
  written,  \* the object as it was when the frame was written, or None
  frame,    \* the frame, or None
  newer,    \* the writer of the frame has further fields
  copy,     \* the object that is read, None after a failed assertion
  before    \* the object into which the frame was read, None if it was not read

vars == <<class, obj, sets, written, frame, newer, copy, before>>

IsBody == class = "messagebody"

Names == IF IsBody THEN Body!Names ELSE Msg!Names
New == IF IsBody THEN Body!New ELSE Msg!New
SerializeBinary(o) == IF IsBody THEN Body!SerializeBinary(o) ELSE Msg!SerializeBinary(o)

\* deserializeBinaryFromReader() into o.
ReadInto(o, bytes) ==
  IF IsBody THEN Body!DeserializeBinaryFromReader(o, bytes) ELSE Msg!DeserializeBinaryFromReader(o, bytes)

\* The bytes of a field of a newer writer.
Written(field) ==
  IF field.wireType = Msg!DELIMITED THEN Msg!WriteBytes(field.number, field.value)
  ELSE Msg!FieldHeader(field.number, field.wireType) \o field.value

\* What setters are called with.
Candidates(name) ==
  IF IsBody THEN SomeTexts
  ELSE IF name \in Msg!Numbers THEN SomeNumbers
  ELSE IF name = "content" THEN SomeContents
  ELSE SomeTexts

Init ==
  /\ class \in {"messagebody", "message"}
  /\ obj = New
  /\ sets = 0
  /\ written = None /\ frame = None /\ newer = FALSE
  /\ copy = New /\ before = None

SetField(name) ==
  /\ sets < MaxSets
  /\ sets' = sets + 1
  /\ \E value \in Candidates(name) :
       obj' = IF IsBody THEN Body!Set(obj, name, value) ELSE Msg!Set(obj, name, value)
  /\ UNCHANGED <<class, written, frame, newer, copy, before>>

Serialize ==
  /\ frame' = SerializeBinary(obj)
  /\ written' = obj
  /\ newer' = FALSE /\ before' = None
  /\ UNCHANGED <<class, obj, sets, copy>>

\* The frame comes from a newer writer: its further fields have higher numbers.
SerializeNewer ==
  /\ frame # None /\ ~newer /\ before = None
  /\ \E field \in NewerFields : frame' = frame \o Written(field)
  /\ newer' = TRUE
  /\ UNCHANGED <<class, obj, sets, written, copy, before>>

\* deserializeBinary() makes a new object.
Deserialize ==
  /\ frame # None /\ before = None
  /\ copy' = IF IsBody THEN Body!DeserializeBinary(frame) ELSE Msg!DeserializeBinary(frame)
  /\ before' = New
  /\ UNCHANGED <<class, obj, sets, written, frame, newer>>

\* deserializeBinaryFromReader() reads into one that is there.
DeserializeInto ==
  /\ frame # None /\ before = None
  /\ copy' = ReadInto(copy, frame)
  /\ before' = copy
  /\ UNCHANGED <<class, obj, sets, written, frame, newer>>

Next ==
  \/ \E i \in DOMAIN Names : SetField(Names[i])
  \/ Serialize \/ SerializeNewer \/ Deserialize \/ DeserializeInto

Spec == Init /\ [][Next]_vars

-----------------------------------------------------------------------------
(* Properties.                                                             *)

\* A frame is made of bytes, and no read ends with the failed assertion of a
\* reader that finds another wire type than the field has.
TypeOK ==
  /\ sets \in 0 .. MaxSets
  /\ frame # None => \A i \in DOMAIN frame : frame[i] \in 0 .. 255
  /\ \A o \in {obj, copy} : o # None /\ DOMAIN o = DOMAIN Names

\* What a base64 text stands for: the bits of its characters, eight a byte.
BytesOfBase64(text) ==
  LET chars   == Cardinality({i \in DOMAIN text : text[i] # Msg!Padding})
      bit(k)  == (text[(k \div 6) + 1] \div <<32, 16, 8, 4, 2, 1>>[(k % 6) + 1]) % 2
      byte(k) == 128 * bit(k) + 64 * bit(k + 1) + 32 * bit(k + 2) + 16 * bit(k + 3)
                   + 8 * bit(k + 4) + 4 * bit(k + 5) + 2 * bit(k + 6) + bit(k + 7)
  IN  [n \in 1 .. (6 * chars) \div 8 |-> byte(8 * (n - 1))]

\* What field `name` of o says: a content is its bytes, however it was set.
Value(o, name) ==
  LET field == IF IsBody THEN Body!Get(o, name) ELSE Msg!Get(o, name)
  IN  IF IsBody \/ name # "content" THEN field
      ELSE IF field.is = "bytes" THEN field.data ELSE BytesOfBase64(field.data)

\* Whatever was set, in whatever order, and whatever a newer writer adds: the
\* reader gets every field that the writer had, and keeps what it had itself in
\* the ones that the writer had empty (serializeBinaryToWriter and
\* deserializeBinaryFromReader of both classes).
ReadAsWritten ==
  before # None =>
    \A i \in DOMAIN Names :
      LET name  == Names[i]
          value == Value(written, name)
          isNumber == ~IsBody /\ name \in Msg!Numbers
          isText == IsBody \/ name \notin Msg!Numbers \cup {"content"}
      IN  Value(copy, name) = IF value = (IF isNumber THEN 0 ELSE <<>>) THEN Value(before, name)
                              ELSE IF isText THEN Body!Received(value) ELSE value

\* A message that is passed on is the same on the wire as the one that came: a
\* new object that was read from a frame writes that frame without the fields
\* it does not know (serializeBinary after deserializeBinary).
PassedOnUnchanged ==
  before = New => SerializeBinary(copy) = SerializeBinary(written)

\* The object that a page displays shows the content in base64; it stands for
\* the bytes that were read (toObject, getContent_asB64, getContent_asU8).
ObjectShowsBytes ==
  before # None /\ ~IsBody =>
    BytesOfBase64(Msg!ToObject(copy).content) = Value(copy, "content")

=============================================================================
