------------------------------ MODULE MessageJs ------------------------------
(***************************************************************************)
(* proto.message, the generated class of Message.js: eight texts, two      *)
(* numbers, and a content of bytes.  The content is set as bytes or as a   *)
(* base64 text, and read as either.                                        *)
(***************************************************************************)
EXTENDS Jspb

\* A field has the number of its place.
Names == <<"version", "cmd", "sender", "receiver", "groupid", "msgtype", "platform",
           "platformversion", "token", "timestamp", "content">>

Numbers == {"cmd", "msgtype"}

NumberOf(name) == CHOOSE i \in DOMAIN Names : Names[i] = name

\* The constructor without data.
New == [i \in DOMAIN Names |-> None]

Bytes(data) == [is |-> "bytes", data |-> data]
Base64(data) == [is |-> "base64", data |-> data]

Default(name) ==
  IF name \in Numbers THEN 0 ELSE IF name = "content" THEN Base64(<<>>) ELSE <<>>

\* getVersion() to getContent().
Get(msg, name) == GetFieldWithDefault(msg, NumberOf(name), Default(name))

\* setVersion() to setContent().
Set(msg, name, value) == SetField(msg, NumberOf(name), value)

\* getContent_asB64().
ContentAsB64(msg) ==
  LET content == Get(msg, "content")
  IN  IF content.is = "base64" THEN content.data ELSE EncodeBase64(content.data)

\* getContent_asU8().
ContentAsU8(msg) ==
  LET content == Get(msg, "content")
  IN  IF content.is = "bytes" THEN content.data ELSE DecodeBase64(content.data)

ToObject(msg) ==
  [name \in Range(Names) |-> IF name = "content" THEN ContentAsB64(msg) ELSE Get(msg, name)]

\* Every field that is not empty or zero, in their order.
SerializeBinaryToWriter(msg) ==
  LET written(i) ==
        LET f == Get(msg, Names[i])
            content == ContentAsU8(msg)
        IN  IF Names[i] \in Numbers THEN (IF f # 0 THEN WriteUint32(i, f) ELSE <<>>)
            ELSE IF Names[i] = "content" THEN (IF Len(content) > 0 THEN WriteBytes(i, content) ELSE <<>>)
            ELSE IF Len(f) > 0 THEN WriteString(i, f) ELSE <<>>
  IN  FlattenSeq([i \in DOMAIN Names |-> written(i)])

SerializeBinary(msg) == SerializeBinaryToWriter(msg)

\* The wire type of field i.
WireTypeOf(i) == IF Names[i] \in Numbers THEN VARINT ELSE DELIMITED

\* The value of a field that was read.
ReadValue(field) ==
  IF Names[field.number] \in Numbers THEN ReadVarint(field.value, 1)
  ELSE IF Names[field.number] = "content" THEN Bytes(field.value)
  ELSE DecodeString(field.value)

\* Faulty: stops at a field it does not know.
FaultyDeserialize(msg, frame) ==
  LET fields == ReadFields(frame)
  IN  IF \E k \in DOMAIN fields : fields[k].number \notin DOMAIN Names THEN None
      ELSE [i \in DOMAIN Names |-> IF HasField(fields, i) THEN ReadValue(LastField(fields, i)) ELSE msg[i]]

\* Reads the fields of a frame into msg, skips the ones it does not know, and
\* ends with a failed assertion (None) on one with another wire type.
DeserializeBinaryFromReader(msg, frame) ==
  LET fields == ReadFields(frame)
  IN  IF \E k \in DOMAIN fields : /\ fields[k].number \in DOMAIN Names
                                  /\ fields[k].wireType # WireTypeOf(fields[k].number)
      THEN None
      ELSE [i \in DOMAIN Names |-> IF HasField(fields, i) THEN ReadValue(LastField(fields, i)) ELSE msg[i]]

DeserializeBinary(frame) == DeserializeBinaryFromReader(New, frame)

=============================================================================
