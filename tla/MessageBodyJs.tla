---------------------------- MODULE MessageBodyJs ----------------------------
(***************************************************************************)
(* proto.messagebody, the generated class of MessageBody.js: the messages  *)
(* between a web page and the server.  Its nine fields are texts; a        *)
(* message is the array of their values.                                   *)
(***************************************************************************)
EXTENDS Jspb

\* A field has the number of its place.
Names == <<"factory", "deviceid", "length", "type", "body", "timestamp", "sender", "receiver", "groupid">>

NumberOf(name) == CHOOSE i \in DOMAIN Names : Names[i] = name

\* The constructor without data.
New == [i \in DOMAIN Names |-> None]

\* getFactory() and the others.
Get(msg, name) == GetFieldWithDefault(msg, NumberOf(name), <<>>)

\* setFactory() and the others.
Set(msg, name, value) == SetField(msg, NumberOf(name), value)

ToObject(msg) == [name \in Range(Names) |-> Get(msg, name)]

\* Every field that is not empty, in their order.
SerializeBinaryToWriter(msg) ==
  FlattenSeq([i \in DOMAIN Names |->
                LET f == Get(msg, Names[i])
                IN  IF Len(f) > 0 THEN WriteString(i, f) ELSE <<>>])

SerializeBinary(msg) == SerializeBinaryToWriter(msg)

\* Faulty: does not know the last field.
FaultyDeserialize(msg, frame) ==
  LET fields == ReadFields(frame)
  IN  [i \in DOMAIN Names |-> IF i < Len(Names) /\ HasField(fields, i)
                              THEN DecodeString(LastField(fields, i).value) ELSE msg[i]]

\* Reads the fields of a frame into msg, skips the ones it does not know, and
\* ends with a failed assertion (None) on one with another wire type.
DeserializeBinaryFromReader(msg, frame) ==
  LET fields == ReadFields(frame)
  IN  IF \E k \in DOMAIN fields : fields[k].number \in DOMAIN Names /\ fields[k].wireType # DELIMITED
      THEN None
      ELSE [i \in DOMAIN Names |-> IF HasField(fields, i) THEN DecodeString(LastField(fields, i).value)
                                  ELSE msg[i]]

DeserializeBinary(frame) == DeserializeBinaryFromReader(New, frame)

=============================================================================
