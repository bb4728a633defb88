--------------------------- MODULE WebPagesProofs ---------------------------
(***************************************************************************)
(* What is proved about WebPages: whatever is typed, the pages it is for   *)
(* display it, and nothing else.                                           *)
(***************************************************************************)
EXTENDS WebPages, JspbProofs

-----------------------------------------------------------------------------
(* Objects and their fields.                                               *)

LEMMA NamesListed ==
  /\ Range(Names) = {"factory", "deviceid", "length", "type", "body", "timestamp", "sender", "receiver", "groupid"}
  /\ Range(Names) = {Names[i] : i \in 1 .. 9}
<1>1. /\ Names[1] = "factory" /\ Names[2] = "deviceid" /\ Names[3] = "length" /\ Names[4] = "type"
      /\ Names[5] = "body" /\ Names[6] = "timestamp" /\ Names[7] = "sender" /\ Names[8] = "receiver"
      /\ Names[9] = "groupid"
  BY DEF Names
<1> HIDE DEF Names
<1>2. \A i \in 1 .. 9 : i = 1 \/ i = 2 \/ i = 3 \/ i = 4 \/ i = 5 \/ i = 6 \/ i = 7 \/ i = 8 \/ i = 9
  OBVIOUS
<1>3. /\ 1 \in 1 .. 9 /\ 2 \in 1 .. 9 /\ 3 \in 1 .. 9 /\ 4 \in 1 .. 9 /\ 5 \in 1 .. 9
      /\ 6 \in 1 .. 9 /\ 7 \in 1 .. 9 /\ 8 \in 1 .. 9 /\ 9 \in 1 .. 9
  OBVIOUS
<1>4. Range(Names) = {Names[i] : i \in 1 .. 9}
  BY NamesOf DEF Range
<1>5. QED
  BY <1>1, <1>2, <1>3, <1>4

LEMMA Numbers ==
  /\ NumberOf("factory") = 1 /\ NumberOf("deviceid") = 2 /\ NumberOf("length") = 3
  /\ NumberOf("type") = 4 /\ NumberOf("body") = 5 /\ NumberOf("timestamp") = 6
  /\ NumberOf("sender") = 7 /\ NumberOf("receiver") = 8 /\ NumberOf("groupid") = 9
<1>1. \A i \in 1 .. 9 : NumberOf(Names[i]) = i
  BY NumberOfName
<1>2. /\ Names[1] = "factory" /\ Names[2] = "deviceid" /\ Names[3] = "length" /\ Names[4] = "type"
      /\ Names[5] = "body" /\ Names[6] = "timestamp" /\ Names[7] = "sender" /\ Names[8] = "receiver"
      /\ Names[9] = "groupid"
  BY DEF Names
<1>3. QED
  BY <1>1, <1>2

Object(a, b, c, d, e, f, g, h, i) ==
  [factory |-> a, deviceid |-> b, length |-> c, type |-> d, body |-> e, timestamp |-> f, sender |-> g,
   receiver |-> h, groupid |-> i]

LEMMA ObjectOfNine ==
  ASSUME NEW a, NEW b, NEW c, NEW d, NEW e, NEW f, NEW g, NEW h, NEW i, NEW m,
         m[1] = a, m[2] = b, m[3] = c, m[4] = d, m[5] = e, m[6] = f, m[7] = g, m[8] = h, m[9] = i
  PROVE  ObjectOf(m) = Object(a, b, c, d, e, f, g, h, i)
  BY NamesListed, Numbers, SMTT(30) DEF ObjectOf, Field, Object

LEMMA ObjectAsBeat ==
  ASSUME NEW a, NEW b, NEW c, NEW d, NEW e, NEW f, NEW g, NEW h, NEW i
  PROVE  AsBeat(Object(a, b, c, d, e, f, g, h, i)) = Object(a, b, c, LK, <<>>, <<>>, g, h, i)
<1> DEFINE r == Object(a, b, c, d, e, f, g, h, i)
<1>1. [r EXCEPT !.type = LK, !.body = <<>>, !.timestamp = <<>>]
        = [[[r EXCEPT !.type = LK] EXCEPT !.body = <<>>] EXCEPT !.timestamp = <<>>]
  OBVIOUS
<1>2. [r EXCEPT !.type = LK] = Object(a, b, c, LK, e, f, g, h, i)
  BY DEF Object
<1>3. [Object(a, b, c, LK, e, f, g, h, i) EXCEPT !.body = <<>>] = Object(a, b, c, LK, <<>>, f, g, h, i)
  BY DEF Object
<1>4. [Object(a, b, c, LK, <<>>, f, g, h, i) EXCEPT !.timestamp = <<>>] = Object(a, b, c, LK, <<>>, <<>>, g, h, i)
  BY DEF Object
<1>5. QED
  BY <1>1, <1>2, <1>3, <1>4, Zenon DEF AsBeat

LEMMA ObjectFields ==
  ASSUME NEW m
  PROVE  /\ ObjectOf(m).type = m[4] /\ ObjectOf(m).receiver = m[8] /\ ObjectOf(m).deviceid = m[2]
  BY NamesListed, Numbers DEF ObjectOf, Field

-----------------------------------------------------------------------------
(* Texts.                                                                  *)

LEMMA TextsAreShort ==
  /\ Texts = Short
  /\ \A text \in Lossless : text \in Short /\ Received(text) = text
<1>1. Texts = Short
  BY SMT DEF Texts, Short, MostUnits, Unit
<1>2. QED
  BY <1>1 DEF Lossless

LEMMA ReceivedLossless ==
  ASSUME NEW text \in Texts
  PROVE  Received(text) \in Lossless
<1>1. text \in Short /\ text \in Seq(Unit)
  BY TextsAreShort DEF Short
<1>2. Received(text) \in Short
  BY <1>1, ReceivedShort
<1>3. Received(Received(text)) = Received(text)
  BY <1>1, ReceivedTwice
<1>4. QED
  BY <1>2, <1>3, TextsAreShort DEF Lossless

LEMMA EmptyLossless == <<>> \in Lossless /\ <<>> \in Texts /\ Received(<<>>) = <<>>
<1>1. <<>> \in Texts
  BY SMT DEF Texts
<1>2. QED
  BY <1>1, ReceivedNothing DEF Lossless

LEMMA FormTexts ==
  ASSUME NEW p \in Pages, NEW form \in Forms
  PROVE  /\ {form.message, form.receiver, form.body, Factory, Length, DeviceId[p]} \subseteq Texts
         /\ {Factory, Length, DeviceId[p], LK, UD, OFFLINE, Length7, Now} \subseteq Lossless
         /\ DeviceId[p] # None /\ DeviceId[p] # <<>>
<1>1. /\ {form.message, form.receiver, form.body} \subseteq Texts
      /\ {LK, UD, OFFLINE, Factory, Length, Length7, Now} \subseteq Lossless
  BY TextAssumption
<1>2. DeviceId[p] \in Lossless /\ Len(DeviceId[p]) > 0
  BY DeviceIdAssumption
<1>3. Lossless \subseteq Texts
  BY DEF Lossless
<1>4. DeviceId[p] # None
  BY <1>2, <1>3, NoneAssumption
<1>5. QED
  BY <1>1, <1>2, <1>3, <1>4

-----------------------------------------------------------------------------
(* A model that is written and read is the same object.                    *)

Models == [1 .. 9 -> Lossless]

LEMMA ModelFrame ==
  ASSUME NEW m \in Models
  PROVE  Written(m) /\ ToByteArray(m) = Frame(m)
<1>1. Written(m)
  BY TextsAreShort DEF Models, Written
<1>2. DOMAIN m = 1 .. 9
  BY DEF Models
<1>3. QED
  BY <1>1, <1>2 DEF ToByteArray, Frame, Pieces

LEMMA ModelShown ==
  ASSUME NEW m \in Models
  PROVE  ToObject(DeserializeBinary(ToByteArray(m))) = ObjectOf(m)
<1> DEFINE msg == DeserializeBinary(ToByteArray(m))
<1>1. msg = [i \in 1 .. 9 |-> IF m[i] # <<>> THEN Received(m[i]) ELSE None]
  BY ModelFrame, Deserialized
<1> HIDE DEF msg
<1>2. ASSUME NEW name \in Range(Names) PROVE Get(msg, name) = Field(m, name)
  <2>1. PICK i \in 1 .. 9 : name = Names[i]
    BY NamesListed
  <2>2. NumberOf(name) = i
    BY <2>1, NumberOfName
  <2>3. m[i] \in Lossless
    BY DEF Models
  <2>4. Received(m[i]) = m[i] /\ m[i] # None
    BY <2>3, NoneAssumption DEF Lossless
  <2>5. QED
    BY <1>1, <2>2, <2>4 DEF Get, GetFieldWithDefault, Field
<1>3. QED
  BY <1>2 DEF ToObject, ObjectOf, msg

-----------------------------------------------------------------------------
(* What a form becomes.                                                    *)

\* The texts of a form, and those that the server reads.
Written9(p, form) ==
  <<Factory, DeviceId[p], Length, form.message, form.body, <<>>, DeviceId[p], form.receiver, <<>>>>

Read9(p, form) ==
  <<Factory, DeviceId[p], Length, Received(form.message), Received(form.body), <<>>, DeviceId[p],
    Received(form.receiver), <<>>>>

LEMMA NineTexts ==
  ASSUME NEW p \in Pages, NEW form \in Forms
  PROVE  /\ Written9(p, form) \in [1 .. 9 -> Short]
         /\ Read9(p, form) \in Models
         /\ \A i \in 1 .. 9 : Read9(p, form)[i] = Received(Written9(p, form)[i])
<1>1. /\ {form.message, form.receiver, form.body, Factory, Length, DeviceId[p], <<>>} \subseteq Texts
      /\ {Factory, Length, DeviceId[p], <<>>} \subseteq Lossless
  BY FormTexts, EmptyLossless
<1>2. {Received(form.message), Received(form.receiver), Received(form.body)} \subseteq Lossless
  BY <1>1, ReceivedLossless
<1>3. /\ Received(Factory) = Factory /\ Received(Length) = Length /\ Received(DeviceId[p]) = DeviceId[p]
      /\ Received(<<>>) = <<>>
  BY <1>1 DEF Lossless
<1>4. Written9(p, form) \in [1 .. 9 -> Short]
  <2>1. Short = Texts
    BY TextsAreShort
  <2>2. QED
    BY <1>1, <2>1 DEF Written9
<1>5. Read9(p, form) \in [1 .. 9 -> Lossless]
  BY <1>1, <1>2 DEF Read9
<1>6. \A i \in 1 .. 9 : Read9(p, form)[i] = Received(Written9(p, form)[i])
  BY <1>3 DEF Read9, Written9
<1>7. QED
  BY <1>4, <1>5, <1>6 DEF Models

LEMMA ContentFrame ==
  ASSUME NEW p \in Pages, NEW form \in Forms
  PROVE  SerializeBinary(Content(p, form)) = Frame(Written9(p, form))
<1> DEFINE msg == Content(p, form)
           t == Written9(p, form)
<1>1. /\ DOMAIN New = 1 .. 9 /\ \A i \in 1 .. 9 : New[i] = None
  BY NamesOf DEF New
<1>2. /\ msg[1] = Factory /\ msg[2] = DeviceId[p] /\ msg[3] = Length /\ msg[4] = form.message
      /\ msg[5] = form.body /\ msg[6] = None /\ msg[7] = DeviceId[p] /\ msg[8] = form.receiver /\ msg[9] = None
  BY <1>1, Numbers DEF Content
<1>3. /\ t[1] = Factory /\ t[2] = DeviceId[p] /\ t[3] = Length /\ t[4] = form.message
      /\ t[5] = form.body /\ t[6] = <<>> /\ t[7] = DeviceId[p] /\ t[8] = form.receiver /\ t[9] = <<>>
  BY DEF Written9
<1>4. t \in [1 .. 9 -> Short]
  BY NineTexts
<1> HIDE DEF msg, t
<1>5. \A i \in 1 .. 9 : t[i] # None
  <2>1. None \notin Short
    BY NoneAssumption, TextsAreShort
  <2>2. QED
    BY <1>4, <2>1
<1>6. ASSUME NEW i \in 1 .. 9 PROVE t[i] = IF msg[i] = None THEN <<>> ELSE msg[i]
  <2>1. i = 1 \/ i = 2 \/ i = 3 \/ i = 4 \/ i = 5 \/ i = 6 \/ i = 7 \/ i = 8 \/ i = 9
    OBVIOUS
  <2>2. QED
    BY <1>2, <1>3, <1>5, <2>1
<1>7. t = TextsOf(msg)
  BY <1>4, <1>6 DEF TextsOf
<1>8. SerializeBinary(msg) = Frame(TextsOf(msg))
  BY <1>4, <1>7, SerializedFrame DEF Written
<1>9. QED
  BY <1>7, <1>8 DEF msg, t

\* The server refuses a frame or has all that could be written of what was typed.
LEMMA FrameParsed ==
  ASSUME NEW p \in Pages, NEW form \in Forms
  PROVE  ParseModel(SerializeBinary(Content(p, form))) \in {None, Read9(p, form)}
<1> DEFINE t == Written9(p, form)
           model == ParseModel(SerializeBinary(Content(p, form)))
<1>1. PICK fields : fields = ReadFields(Frame(t))
  OBVIOUS
<1>2. Written(t)
  BY NineTexts DEF Written
<1>3. \A i \in 1 .. 9 : Read9(p, form)[i] = Received(t[i])
  BY NineTexts
<1>4. DOMAIN Read9(p, form) = 1 .. 9 /\ Read9(p, form) = [i \in 1 .. 9 |-> Read9(p, form)[i]]
  BY NineTexts DEF Models
<1> HIDE DEF t
<1>5. /\ \A i \in 1 .. 9 : HasField(fields, i) <=> t[i] # <<>>
      /\ \A i \in 1 .. 9 : t[i] # <<>> => DecodeString(LastField(fields, i).value) = Received(t[i])
  BY <1>1, <1>2, FrameTexts DEF FindsTexts
<1>6. \/ model = None
      \/ model = [i \in 1 .. 9 |-> IF HasField(fields, i) THEN DecodeString(LastField(fields, i).value) ELSE <<>>]
  BY <1>1, ContentFrame, NamesOf DEF ParseModel, t
<1>7. ASSUME NEW i \in 1 .. 9
      PROVE  Received(t[i]) = IF HasField(fields, i) THEN DecodeString(LastField(fields, i).value) ELSE <<>>
  BY <1>5, EmptyLossless
<1> HIDE DEF model
<1>8. QED
  BY <1>3, <1>4, <1>6, <1>7 DEF model

LEMMA ReadFieldsOf ==
  ASSUME NEW p \in Pages, NEW form \in Forms, NEW m, m = Read9(p, form)
  PROVE  /\ m[1] = Factory /\ m[2] = DeviceId[p] /\ m[3] = Length /\ m[4] = Received(form.message)
         /\ m[5] = Received(form.body) /\ m[6] = <<>> /\ m[7] = DeviceId[p]
         /\ m[8] = Received(form.receiver) /\ m[9] = <<>>
  BY DEF Read9

LEMMA FieldsOf ==
  ASSUME NEW m
  PROVE  /\ Field(m, "type") = m[4] /\ Field(m, "deviceid") = m[2] /\ Field(m, "receiver") = m[8]
  BY Numbers DEF Field

LEMMA Changed ==
  ASSUME NEW m \in Models, NEW text \in Lossless
  PROVE  /\ With(m, "type", text) = [m EXCEPT ![4] = text] /\ With(m, "body", text) = [m EXCEPT ![5] = text]
         /\ With(m, "timestamp", text) = [m EXCEPT ![6] = text] /\ With(m, "sender", text) = [m EXCEPT ![7] = text]
         /\ {[m EXCEPT ![4] = text], [m EXCEPT ![5] = text], [m EXCEPT ![6] = text], [m EXCEPT ![7] = text]}
              \subseteq Models
<1>1. {[m EXCEPT ![4] = text], [m EXCEPT ![5] = text], [m EXCEPT ![6] = text], [m EXCEPT ![7] = text]}
        \subseteq Models
  BY DEF Models
<1>2. QED
  BY <1>1, Numbers DEF With

LEMMA TypeSet ==
  ASSUME NEW m \in Models, NEW text \in Lossless
  PROVE  With(m, "type", text) = [m EXCEPT ![4] = text]
  BY Changed, Zenon

LEMMA BodySet ==
  ASSUME NEW m \in Models, NEW text \in Lossless
  PROVE  With(m, "body", text) = [m EXCEPT ![5] = text]
  BY Changed, Zenon

LEMMA TimestampSet ==
  ASSUME NEW m \in Models, NEW text \in Lossless
  PROVE  With(m, "timestamp", text) = [m EXCEPT ![6] = text]
  BY Changed, Zenon

LEMMA SenderSet ==
  ASSUME NEW m \in Models, NEW text \in Lossless
  PROVE  With(m, "sender", text) = [m EXCEPT ![7] = text]
  BY Changed, Zenon

\* What the server writes of a message is what is due, once its page has logged in.
LEMMA ConvertedIsDue ==
  ASSUME NEW message, message.page \in Pages, message.form \in Forms,
         NEW p, p = message.page, NEW m, m = Read9(p, message.form),
         m[4] \in {LK, UD} \/ account[p] = DeviceId[p]
  PROVE  Converted(p, m) \in Models /\ ObjectOf(Converted(p, m)) = Due(message)
<1> DEFINE form == message.form
<1>1. /\ m[1] = Factory /\ m[2] = DeviceId[p] /\ m[3] = Length /\ m[4] = Received(form.message)
      /\ m[5] = Received(form.body) /\ m[6] = <<>> /\ m[7] = DeviceId[p]
      /\ m[8] = Received(form.receiver) /\ m[9] = <<>>
  BY ReadFieldsOf
<1>2. m \in Models /\ {LK, UD, Now, DeviceId[p]} \subseteq Lossless /\ <<>> \in Lossless
  BY NineTexts, FormTexts, EmptyLossless
<1>3. CASE m[4] \in {LK, UD}
  <2>1. Converted(p, m) = [m EXCEPT ![5] = <<>>]
    BY <1>2, <1>3, Changed, FieldsOf DEF Converted
  <2>2. [m EXCEPT ![5] = <<>>] \in Models
    BY <1>2, Changed
  <2>3. ObjectOf([m EXCEPT ![5] = <<>>])
          = Object(Factory, DeviceId[p], Length, Received(form.message), <<>>, <<>>, DeviceId[p],
                   Received(form.receiver), <<>>)
    <3>1. PICK c \in Models : c = [m EXCEPT ![5] = <<>>]
      BY <2>2
    <3>2. /\ c[1] = Factory /\ c[2] = DeviceId[p] /\ c[3] = Length /\ c[4] = Received(form.message)
          /\ c[5] = <<>> /\ c[6] = <<>> /\ c[7] = DeviceId[p] /\ c[8] = Received(form.receiver) /\ c[9] = <<>>
      BY <1>1, <1>2, <3>1 DEF Models
    <3>3. ObjectOf(c)
            = Object(Factory, DeviceId[p], Length, Received(form.message), <<>>, <<>>, DeviceId[p],
                     Received(form.receiver), <<>>)
      BY <3>2, ObjectOfNine
    <3>4. QED
      BY <3>1, <3>3
  <2>4. QED
    BY <1>1, <1>3, <2>1, <2>2, <2>3 DEF Due, Object
<1>4. CASE m[4] \notin {LK, UD}
  <2>1. account[p] = DeviceId[p]
    BY <1>4
  <2>2. PICK c \in Models : c = [m EXCEPT ![6] = Now]
    BY <1>2, Changed
  <2>3. PICK d \in Models : d = [c EXCEPT ![7] = DeviceId[p]]
    BY <1>2, Changed
  <2>4. Converted(p, m) = d
    <3>1. With(m, "timestamp", Now) = c
      BY <1>2, <2>2, TimestampSet, Zenon
    <3>2. With(c, "sender", DeviceId[p]) = d
      <4>1. DeviceId[p] \in Lossless
        BY <1>2
      <4>2. With(c, "sender", DeviceId[p]) = [c EXCEPT ![7] = DeviceId[p]]
        BY <4>1, SenderSet, Zenon
      <4>3. QED
        BY <2>3, <4>2
    <3>3. QED
      BY <1>4, <2>1, <3>1, <3>2, FieldsOf DEF Converted
  <2>5. /\ d[1] = Factory /\ d[2] = DeviceId[p] /\ d[3] = Length /\ d[4] = Received(form.message)
        /\ d[5] = Received(form.body) /\ d[6] = Now /\ d[7] = DeviceId[p]
        /\ d[8] = Received(form.receiver) /\ d[9] = <<>>
    BY <1>1, <1>2, <2>2, <2>3 DEF Models
  <2>6. ObjectOf(d)
          = Object(Factory, DeviceId[p], Length, Received(form.message), Received(form.body), Now, DeviceId[p],
                   Received(form.receiver), <<>>)
    BY <2>5, ObjectOfNine
  <2>7. QED
    BY <1>1, <1>4, <2>4, <2>6 DEF Due, Object
<1>5. QED
  BY <1>3, <1>4

LEMMA DueAsBeat ==
  ASSUME NEW message, NEW p, p = message.page
  PROVE  AsBeat(Due(message)) = Object(Factory, DeviceId[p], Length, LK, <<>>, <<>>, DeviceId[p],
                                       Received(message.form.receiver), <<>>)
<1> DEFINE receiver == Received(message.form.receiver)
<1>1. PICK type, body, time :
        Due(message) = Object(Factory, DeviceId[p], Length, type, body, time, DeviceId[p], receiver, <<>>)
  BY Zenon DEF Due, Object
<1>2. AsBeat(Object(Factory, DeviceId[p], Length, type, body, time, DeviceId[p], receiver, <<>>))
        = Object(Factory, DeviceId[p], Length, LK, <<>>, <<>>, DeviceId[p], receiver, <<>>)
  BY ObjectAsBeat
<1>3. QED
  BY <1>1, <1>2

\* The heartbeat request that a message makes is the one that is due.
LEMMA BeatIsDue ==
  ASSUME NEW message, message.page \in Pages, message.form \in Forms,
         NEW p, p = message.page, NEW m, m = Read9(p, message.form)
  PROVE  ObjectOf(Beat(m)) = AsBeat(Due(message))
<1> DEFINE form == message.form
<1>1. /\ m[1] = Factory /\ m[2] = DeviceId[p] /\ m[3] = Length /\ m[4] = Received(form.message)
      /\ m[5] = Received(form.body) /\ m[6] = <<>> /\ m[7] = DeviceId[p]
      /\ m[8] = Received(form.receiver) /\ m[9] = <<>>
  BY ReadFieldsOf
<1>2. m \in Models /\ LK \in Lossless /\ <<>> \in Lossless
  BY NineTexts, FormTexts, EmptyLossless
<1>3. PICK c \in Models : c = [m EXCEPT ![5] = <<>>]
  BY <1>2, Changed
<1>4. PICK d \in Models : d = [c EXCEPT ![4] = LK]
  BY <1>2, Changed
<1>5. Beat(m) = d
  <2>1. With(m, "body", <<>>) = c
    BY <1>2, <1>3, BodySet, Zenon
  <2>2. With(c, "type", LK) = d
    BY <1>2, <1>4, TypeSet, Zenon
  <2>3. QED
    BY <2>1, <2>2 DEF Beat
<1>6. /\ d[1] = Factory /\ d[2] = DeviceId[p] /\ d[3] = Length /\ d[4] = LK /\ d[5] = <<>> /\ d[6] = <<>>
      /\ d[7] = DeviceId[p] /\ d[8] = Received(form.receiver) /\ d[9] = <<>>
  BY <1>1, <1>2, <1>3, <1>4 DEF Models
<1>7. ObjectOf(d)
        = Object(Factory, DeviceId[p], Length, LK, <<>>, <<>>, DeviceId[p], Received(form.receiver), <<>>)
  BY <1>6, ObjectOfNine
<1>8. AsBeat(Due(message))
        = Object(Factory, DeviceId[p], Length, LK, <<>>, <<>>, DeviceId[p], Received(form.receiver), <<>>)
  BY DueAsBeat
<1>9. QED
  BY <1>5, <1>7, <1>8

LEMMA BeatModel ==
  ASSUME NEW m \in Models
  PROVE  Beat(m) \in Models /\ Beat(Beat(m)) = Beat(m)
<1>1. LK \in Lossless /\ <<>> \in Lossless
  BY TextAssumption, EmptyLossless
<1>2. PICK c \in Models : c = [m EXCEPT ![5] = <<>>]
  BY <1>1, Changed
<1>3. PICK d \in Models : d = [c EXCEPT ![4] = LK]
  BY <1>1, <1>2, Changed
<1>4. Beat(m) = d
  <2>1. With(m, "body", <<>>) = c
    BY <1>1, <1>2, Changed
  <2>2. With(c, "type", LK) = d
    BY <1>1, <1>3, Changed
  <2>3. QED
    BY <2>1, <2>2 DEF Beat
<1>5. PICK e \in Models : e = [d EXCEPT ![5] = <<>>]
  BY <1>1, Changed
<1>6. PICK f \in Models : f = [e EXCEPT ![4] = LK]
  BY <1>1, Changed
<1>7. Beat(d) = f
  <2>1. With(d, "body", <<>>) = e
    BY <1>1, <1>5, Changed
  <2>2. With(e, "type", LK) = f
    BY <1>1, <1>6, Changed
  <2>3. QED
    BY <2>1, <2>2 DEF Beat
<1>8. f = d
  BY <1>2, <1>3, <1>5, <1>6 DEF Models
<1>9. QED
  BY <1>4, <1>7, <1>8

\* Who is written to.
LEMMA DueFields ==
  ASSUME NEW message
  PROVE  /\ Due(message).type = Received(message.form.message)
         /\ Due(message).receiver = Received(message.form.receiver)
         /\ Due(message).deviceid = DeviceId[message.page]
  BY DEF Due

\* The values of the registry; who is in a session is bound to its id.
Sessions == [first : Pages, others : SUBSET Pages]

RegistryTyped ==
  /\ link = [p \in Pages |-> link[p]] /\ \A p \in Pages : link[p] \in {"open", "closing", "closed"}
  /\ sessions = [id \in Ids |-> sessions[id]]
  /\ \A id \in Ids : sessions[id] = None \/ sessions[id] \in Sessions
  /\ \A id \in Ids : \A p \in Members(sessions[id]) : p \in Pages /\ account[p] = id

LEMMA IdsKnown ==
  /\ \A p \in Pages : DeviceId[p] \in Ids
  /\ \A id \in Ids : id # None /\ id \in Lossless
<1>1. \A p \in Pages : DeviceId[p] \in Lossless
  BY DeviceIdAssumption
<1>2. None \notin Lossless
  BY NoneAssumption DEF Lossless
<1>3. QED
  BY <1>1, <1>2 DEF Ids

\* Who logs in is in the session, or already bound.
LEMMA WithPageTyped ==
  ASSUME RegistryTyped, NEW p \in Pages, NEW id \in Ids
  PROVE  /\ WithPage(p, id) = None \/ WithPage(p, id) \in Sessions
         /\ Members(WithPage(p, id)) \subseteq Members(sessions[id]) \cup {p}
<1> DEFINE session == sessions[id]
<1>1. session = None \/ session \in Sessions
  BY DEF RegistryTyped
<1> HIDE DEF session
<1>2. CASE account[p] = id
  BY <1>1, <1>2 DEF WithPage, session
<1>3. CASE account[p] # id /\ session = None
  <2>1. WithPage(p, id) = [first |-> p, others |-> {}]
    BY <1>3 DEF WithPage, session
  <2>2. QED
    BY <2>1 DEF Members, Sessions
<1>4. CASE account[p] # id /\ session # None
  <2>1. WithPage(p, id) = [session EXCEPT !.others = @ \cup {p}]
    BY <1>4 DEF WithPage, session
  <2>2. session.first \in Pages /\ session.others \in SUBSET Pages /\ session \in Sessions
    BY <1>1, <1>4 DEF Sessions
  <2>3. WithPage(p, id) \in Sessions
    BY <2>1, <2>2 DEF Sessions
  <2>4. WithPage(p, id).first = session.first /\ WithPage(p, id).others = session.others \cup {p}
    BY <2>1, <2>2 DEF Sessions
  <2>5. Members(WithPage(p, id)) \subseteq Members(session) \cup {p}
    BY <1>4, <2>4 DEF Members
  <2>6. QED
    BY <2>3, <2>5 DEF session
<1>5. QED
  BY <1>2, <1>3, <1>4

LEMMA AddresseesRight ==
  ASSUME NEW message, message.page \in Pages, message.form \in Forms,
         NEW p, p = message.page, NEW m, m = Read9(p, message.form),
         \A q \in Pages : account[q] \in {None, DeviceId[q]}, RegistryTyped,
         NEW q \in Addressees(p, m)
  PROVE  /\ q \in Pages /\ IsFor(q, Due(message))
         /\ m[4] \in {LK, UD} \/ account[p] = DeviceId[p]
<1>1. /\ m[4] = Received(message.form.message) /\ m[8] = Received(message.form.receiver)
      /\ m[2] = DeviceId[p]
  BY ReadFieldsOf
<1>2. \A id \in Ids : \A r \in Members(sessions[id]) : r \in Pages /\ DeviceId[r] = id
  BY IdsKnown DEF RegistryTyped
<1>3. m[2] \in Ids
  BY <1>1, IdsKnown
<1>4. /\ Field(m, "type") = m[4] /\ Field(m, "deviceid") = m[2] /\ Field(m, "receiver") = m[8]
  BY FieldsOf
<1>5. CASE m[4] = LK
  <2>1. q \in Members(WithPage(p, m[2]))
    BY <1>4, <1>5 DEF Addressees
  <2>2. q = p \/ q \in Members(sessions[m[2]])
    BY <1>3, <2>1, WithPageTyped
  <2>3. q \in Pages /\ DeviceId[q] = m[2]
    BY <1>1, <1>2, <1>3, <2>2
  <2>4. QED
    BY <1>1, <1>5, <2>3, DueFields DEF IsFor
<1>6. CASE m[4] # LK
  <2>1. m[4] # UD /\ account[p] # None
    BY <1>4, <1>6 DEF Addressees
  <2>2. q \in Reached(IF m[8] = <<>> THEN m[2] ELSE m[8])
    BY <1>4, <1>6, <2>1 DEF Addressees
  <2>3. PICK id : id = (IF m[8] = <<>> THEN m[2] ELSE m[8])
    OBVIOUS
  <2>4. id \in Ids /\ q \in Members(sessions[id])
    BY <2>2, <2>3 DEF Reached
  <2>5. q \in Pages /\ DeviceId[q] = IF m[8] = <<>> THEN m[2] ELSE m[8]
    BY <1>2, <2>3, <2>4
  <2>6. QED
    BY <1>1, <1>6, <2>1, <2>5, DueFields DEF IsFor
<1>7. QED
  BY <1>5, <1>6

\* That an account is gone is read as such, and is for everybody.
LEMMA AbsenceShown ==
  ASSUME NEW id \in Ids
  PROVE  /\ ToObject(DeserializeBinary(ToByteArray(OffLine(id)))) = Absence(id)
         /\ \A p : IsFor(p, Absence(id))
<1>1. {Factory, id, Length7, OFFLINE, Now, <<>>} \subseteq Lossless
  BY IdsKnown, TextAssumption, EmptyLossless
<1>2. PICK m : m = OffLine(id)
  OBVIOUS
<1>3. m \in Models
  BY <1>1, <1>2 DEF OffLine, Models
<1>4. /\ m[1] = Factory /\ m[2] = id /\ m[3] = Length7 /\ m[4] = OFFLINE /\ m[5] = <<>> /\ m[6] = Now
      /\ m[7] = <<>> /\ m[8] = <<>> /\ m[9] = <<>>
  BY <1>2 DEF OffLine
<1>5. ObjectOf(m) = Object(Factory, id, Length7, OFFLINE, <<>>, Now, <<>>, <<>>, <<>>)
  BY <1>4, ObjectOfNine
<1>6. ObjectOf(m) = Absence(id)
  BY <1>5, Zenon DEF Object, Absence
<1>7. \A p : IsFor(p, Absence(id))
  BY DEF IsFor
<1>8. QED
  BY <1>2, <1>3, <1>6, <1>7, ModelShown

-----------------------------------------------------------------------------
(* Sequences whose elements may be anything.                               *)

IsSeq(s) == \E S : s \in Seq(S)

LEMMA AppendAny ==
  ASSUME NEW s, IsSeq(s), NEW e
  PROVE  /\ IsSeq(Append(s, e)) /\ Len(s) \in Nat /\ Len(Append(s, e)) = Len(s) + 1
         /\ \A i \in DOMAIN s : i \in DOMAIN Append(s, e) /\ Append(s, e)[i] = s[i]
         /\ \A i \in DOMAIN Append(s, e) : Append(s, e)[i] = e \/ (i \in DOMAIN s /\ Append(s, e)[i] = s[i])
         /\ Len(s) + 1 \in DOMAIN Append(s, e) /\ Append(s, e)[Len(s) + 1] = e
<1>1. PICK S : s \in Seq(S)
  BY DEF IsSeq
<1>2. PICK T : T = S \cup {e}
  OBVIOUS
<1>3. s \in Seq(T) /\ e \in T
  <2>1. Len(s) \in Nat /\ s \in [1 .. Len(s) -> S]
    BY <1>1
  <2>2. s \in [1 .. Len(s) -> T]
    BY <1>2, <2>1
  <2>3. QED
    BY <1>2, <2>1, <2>2
<1>4. Append(s, e) \in Seq(T)
  BY <1>3
<1>5. QED
  BY <1>3, <1>4 DEF IsSeq

LEMMA TailAny ==
  ASSUME NEW s, IsSeq(s), s # <<>>
  PROVE  /\ IsSeq(Tail(s)) /\ 1 \in DOMAIN s /\ Head(s) = s[1]
         /\ \A i \in DOMAIN Tail(s) : i + 1 \in DOMAIN s /\ Tail(s)[i] = s[i + 1]
<1>1. PICK S : s \in Seq(S)
  BY DEF IsSeq
<1>2. Tail(s) \in Seq(S) /\ Len(s) > 0
  BY <1>1
<1>3. QED
  BY <1>1, <1>2 DEF IsSeq

-----------------------------------------------------------------------------
(* The invariants.                                                         *)

\* The values of the variables.
MessagesTyped ==
  /\ IsSeq(sent) /\ Len(sent) <= MaxSent
  /\ \A nr \in DOMAIN sent : nr # 0 /\ sent[nr].page \in Pages /\ sent[nr].form \in Forms

QueuesTyped ==
  /\ toServer = [p \in Pages |-> toServer[p]] /\ \A p \in Pages : IsSeq(toServer[p])
  /\ toPage = [p \in Pages |-> toPage[p]] /\ \A p \in Pages : IsSeq(toPage[p])
  /\ shown = [p \in Pages |-> shown[p]] /\ \A p \in Pages : IsSeq(shown[p])
  /\ \A p \in Pages : \A i \in DOMAIN toPage[p] :
       LET next == toPage[p][i]
       IN  next = [frame |-> next.frame, due |-> next.due, nr |-> next.nr]

HandlersTyped ==
  /\ account = [p \in Pages |-> account[p]] /\ \A p \in Pages : account[p] \in {None, DeviceId[p]}
  /\ accepted = [p \in Pages |-> accepted[p]]
  /\ kept = [p \in Pages |-> kept[p]] /\ \A p \in Pages : accepted[p] # 0 => kept[p] \in Models
  /\ beats \in 0 .. MaxBeats

Typed == MessagesTyped /\ QueuesTyped /\ HandlersTyped /\ RegistryTyped

ShownInv == ShownAsTyped /\ ShownToReceiver

IInv == Typed /\ PagesInv /\ ShownInv

LEMMA Initially == Init => IInv
<1> SUFFICES ASSUME Init PROVE IInv
  OBVIOUS
<1>1. IsSeq(<<>>) /\ DOMAIN <<>> = {}
  <2>1. <<>> \in Seq({})
    OBVIOUS
  <2>2. QED
    BY <2>1 DEF IsSeq
<1>2. MessagesTyped
  <2>1. Len(sent) <= MaxSent
    BY BoundAssumption DEF Init
  <2>2. QED
    BY <1>1, <2>1 DEF Init, MessagesTyped
<1>3. QueuesTyped
  BY <1>1 DEF Init, QueuesTyped
<1>4. HandlersTyped
  BY BoundAssumption DEF Init, HandlersTyped
<1>5. PagesInv /\ ShownInv
  BY <1>1 DEF Init, PagesInv, ToServerInv, ToPageInv, KeptInv, ShownInv, ShownAsTyped, ShownToReceiver
<1>6. RegistryTyped
  BY DEF Init, registry, RegistryTyped, Members
<1>7. QED
  BY <1>2, <1>3, <1>4, <1>5, <1>6 DEF IInv, Typed

-----------------------------------------------------------------------------
(* Every step keeps them.                                                  *)

LEMMA RegistryKept ==
  ASSUME RegistryTyped, UNCHANGED <<link, sessions, account>>
  PROVE  RegistryTyped'
<1>1. link' = link /\ sessions' = sessions /\ account' = account
  OBVIOUS
<1>2. QED
  BY <1>1 DEF RegistryTyped, Members

LEMMA SendKeeps ==
  ASSUME IInv, NEW p \in Pages, Send(p)
  PROVE  IInv'
<1> USE DEF IInv, Typed, PagesInv, ShownInv
<1>1. /\ Len(sent) < MaxSent
      /\ UNCHANGED <<link, sessions, toPage, account, kept, shown, beats, accepted>>
  BY DEF Send, registry
<1>2. PICK form \in Forms, saved \in Savings :
        LET size == Len(SerializeBinary(Content(p, form))) - saved
        IN  /\ sent' = Append(sent, [page |-> p, form |-> form, size |-> size])
            /\ toServer' = [toServer EXCEPT ![p] =
                              Append(@, [frame |-> SerializeBinary(Content(p, form)), size |-> size,
                                         nr |-> Len(sent) + 1])]
  BY DEF Send
<1> DEFINE size == Len(SerializeBinary(Content(p, form))) - saved
           message == [page |-> p, form |-> form, size |-> size]
           packet == [frame |-> SerializeBinary(Content(p, form)), size |-> size, nr |-> Len(sent) + 1]
<1>3. IsSeq(sent) /\ \A q \in Pages : IsSeq(toServer[q])
  BY DEF MessagesTyped, QueuesTyped
<1>4. message.page = p /\ message.form = form /\ packet.nr = Len(sent) + 1
      /\ packet.frame = SerializeBinary(Content(p, form))
  OBVIOUS
<1>5. sent' = Append(sent, message) /\ toServer' = [toServer EXCEPT ![p] = Append(@, packet)]
  BY <1>2
<1> HIDE DEF message, packet
<1>6. /\ \A nr \in DOMAIN sent : nr \in DOMAIN sent' /\ sent'[nr] = sent[nr]
      /\ \A nr \in DOMAIN sent' : sent'[nr] = message \/ (nr \in DOMAIN sent /\ sent'[nr] = sent[nr])
      /\ Len(sent) + 1 \in DOMAIN sent' /\ sent'[Len(sent) + 1] = message
      /\ IsSeq(sent') /\ Len(sent') = Len(sent) + 1 /\ Len(sent) \in Nat
  BY <1>3, <1>5, AppendAny
<1>7. MessagesTyped'
  <2>1. Len(sent') <= MaxSent
    BY <1>1, <1>6, BoundAssumption
  <2>2. ASSUME NEW nr \in DOMAIN sent' PROVE nr # 0 /\ sent'[nr].page \in Pages /\ sent'[nr].form \in Forms
    <3>1. sent'[nr].page \in Pages /\ sent'[nr].form \in Forms
      BY <1>4, <1>6 DEF MessagesTyped
    <3>2. nr # 0
      <4>1. PICK S : sent' \in Seq(S)
        BY <1>6 DEF IsSeq
      <4>2. QED
        BY <4>1
    <3>3. QED
      BY <3>1, <3>2
  <2>3. QED
    BY <1>6, <2>1, <2>2 DEF MessagesTyped
<1>8. ASSUME NEW q \in Pages
      PROVE  /\ IsSeq(toServer'[q])
             /\ \A i \in DOMAIN toServer'[q] :
                  (q = p /\ toServer'[q][i] = packet) \/ (i \in DOMAIN toServer[q] /\ toServer'[q][i] = toServer[q][i])
  <2>1. toServer'[q] = IF q = p THEN Append(toServer[p], packet) ELSE toServer[q]
    BY <1>5 DEF QueuesTyped
  <2>2. QED
    BY <1>3, <2>1, AppendAny
<1>9. QueuesTyped'
  <2>1. toServer' = [q \in Pages |-> toServer'[q]]
    BY <1>5 DEF QueuesTyped
  <2>2. QED
    BY <1>1, <1>8, <2>1 DEF QueuesTyped
<1>10. HandlersTyped'
  BY <1>1 DEF HandlersTyped
<1>11. ToServerInv'
  <2>1. ASSUME NEW q \in Pages, NEW i \in DOMAIN toServer'[q]
        PROVE  LET next == toServer'[q][i]
               IN  /\ next.nr \in DOMAIN sent' /\ sent'[next.nr].page = q
                   /\ next.frame = SerializeBinary(Content(q, sent'[next.nr].form))
    <3>1. CASE q = p /\ toServer'[q][i] = packet
      BY <1>4, <1>6, <3>1
    <3>2. CASE i \in DOMAIN toServer[q] /\ toServer'[q][i] = toServer[q][i]
      BY <1>6, <3>2 DEF ToServerInv
    <3>3. QED
      BY <1>8, <3>1, <3>2
  <2>2. QED
    BY <2>1 DEF ToServerInv
<1>12. ToPageInv' /\ ShownAsTyped' /\ ShownToReceiver'
  BY <1>1 DEF ToPageInv, ShownAsTyped, ShownToReceiver, IsFor
<1>13. KeptInv'
  <2>1. account' = account /\ accepted' = accepted /\ kept' = kept
    BY <1>1
  <2>2. ASSUME NEW q \in Pages, accepted[q] # 0
        PROVE  /\ accepted[q] \in DOMAIN sent' /\ sent'[accepted[q]].page = q
               /\ ObjectOf(Beat(kept[q])) = AsBeat(Due(sent'[accepted[q]]))
    BY <1>6, <2>2 DEF KeptInv
  <2>3. QED
    BY <2>1, <2>2 DEF KeptInv
<1>14. RegistryTyped'
  BY <1>1, RegistryKept
<1>15. QED
  BY <1>7, <1>9, <1>10, <1>11, <1>12, <1>13, <1>14

\* What is left when the server takes a frame.
LEMMA FrameTaken ==
  ASSUME IInv, NEW p \in Pages, ServerTakes(p), sent' = sent
  PROVE  /\ ToServerInv' /\ 1 \in DOMAIN toServer[p] /\ Head(toServer[p]) = toServer[p][1]
         /\ toServer' = [q \in Pages |-> toServer'[q]] /\ \A q \in Pages : IsSeq(toServer'[q])
<1>1. toServer[p] # <<>> /\ toServer' = [toServer EXCEPT ![p] = Tail(@)]
  BY DEF ServerTakes
<1>2. QueuesTyped /\ ToServerInv
  BY DEF IInv, Typed, PagesInv
<1>3. IsSeq(toServer[p])
  BY <1>2 DEF QueuesTyped
<1>4. /\ IsSeq(Tail(toServer[p])) /\ 1 \in DOMAIN toServer[p] /\ Head(toServer[p]) = toServer[p][1]
      /\ \A i \in DOMAIN Tail(toServer[p]) : i + 1 \in DOMAIN toServer[p] /\ Tail(toServer[p])[i] = toServer[p][i + 1]
  BY <1>1, <1>3, TailAny
<1>5. \A q \in Pages : toServer'[q] = IF q = p THEN Tail(toServer[p]) ELSE toServer[q]
  BY <1>1, <1>2 DEF QueuesTyped
<1>6. toServer' = [q \in Pages |-> toServer'[q]]
  BY <1>1, <1>2 DEF QueuesTyped
<1>7. \A q \in Pages : IsSeq(toServer'[q])
  BY <1>2, <1>4, <1>5 DEF QueuesTyped
<1>8. ToServerInv'
  <2>1. ASSUME NEW q \in Pages, NEW i \in DOMAIN toServer'[q]
        PROVE  \E j \in DOMAIN toServer[q] : toServer'[q][i] = toServer[q][j]
    <3>1. CASE q = p
      <4>1. toServer'[q] = Tail(toServer[p])
        BY <1>5, <3>1
      <4>2. i \in DOMAIN Tail(toServer[p])
        BY <4>1
      <4>3. i + 1 \in DOMAIN toServer[q] /\ toServer'[q][i] = toServer[q][i + 1]
        BY <1>4, <3>1, <4>1, <4>2
      <4>4. QED
        BY <4>3
    <3>2. CASE q # p
      BY <1>5, <3>2
    <3>3. QED
      BY <3>1, <3>2
  <2>2. ASSUME NEW q \in Pages, NEW i \in DOMAIN toServer'[q]
        PROVE  LET next == toServer'[q][i]
               IN  /\ next.nr \in DOMAIN sent /\ sent[next.nr].page = q
                   /\ next.frame = SerializeBinary(Content(q, sent[next.nr].form))
    <3>1. PICK j \in DOMAIN toServer[q] : toServer'[q][i] = toServer[q][j]
      BY <2>1
    <3>2. QED
      BY <1>2, <3>1 DEF ToServerInv
  <2>3. QED
    BY <2>2 DEF ToServerInv
<1>9. QED
  BY <1>4, <1>6, <1>7, <1>8

\* A frame that nobody gets.
LEMMA FrameLost ==
  ASSUME IInv, NEW p \in Pages, ServerTakes(p),
         UNCHANGED <<sessions, toPage, account, kept, shown, beats, sent, accepted>>, RegistryTyped'
  PROVE  IInv'
<1> USE DEF IInv, Typed, PagesInv, ShownInv
<1>1. /\ ToServerInv' /\ toServer' = [q \in Pages |-> toServer'[q]] /\ \A q \in Pages : IsSeq(toServer'[q])
  BY FrameTaken
<1>2. MessagesTyped' /\ HandlersTyped'
  BY DEF MessagesTyped, HandlersTyped
<1>3. QueuesTyped'
  BY <1>1 DEF QueuesTyped
<1>4. ToPageInv' /\ KeptInv' /\ ShownAsTyped' /\ ShownToReceiver'
  BY DEF ToPageInv, KeptInv, ShownAsTyped, ShownToReceiver, IsFor
<1>5. QED
  BY <1>1, <1>2, <1>3, <1>4

LEMMA OverflowKeeps ==
  ASSUME IInv, NEW p \in Pages, Overflow(p)
  PROVE  IInv'
<1>1. /\ ServerTakes(p) /\ link' = [link EXCEPT ![p] = "closing"]
      /\ UNCHANGED <<sessions, toPage, account, kept, shown, beats, sent, accepted>>
  BY DEF Overflow
<1>2. RegistryTyped'
  <2>1. RegistryTyped
    BY DEF IInv, Typed
  <2>2. link' = [q \in Pages |-> link'[q]] /\ \A q \in Pages : link'[q] \in {"open", "closing", "closed"}
    BY <1>1, <2>1 DEF RegistryTyped
  <2>3. sessions' = sessions /\ account' = account
    BY <1>1
  <2>4. QED
    BY <2>1, <2>2, <2>3 DEF RegistryTyped, Members
<1>3. QED
  BY <1>1, <1>2, FrameLost

LEMMA NobodyReads ==
  ASSUME IInv, NEW p \in Pages, Ignore(p) \/ Refuse(p)
  PROVE  IInv'
<1>1. ServerTakes(p) /\ UNCHANGED <<link, sessions, toPage, account, kept, shown, beats, sent, accepted>>
  BY DEF Ignore, Refuse, registry
<1>2. RegistryTyped'
  BY <1>1, RegistryKept DEF IInv, Typed
<1>3. QED
  BY <1>1, <1>2, FrameLost

\* The session of a page that has left.
LEMMA LeftTyped ==
  ASSUME NEW session \in Sessions, NEW p
  PROVE  /\ [session EXCEPT !.others = session.others \ {p}] \in Sessions
         /\ Members([session EXCEPT !.others = session.others \ {p}]) \subseteq {session.first} \cup session.others
<1> DEFINE left == [session EXCEPT !.others = session.others \ {p}]
<1>1. session.first \in Pages /\ session.others \in SUBSET Pages
  BY DEF Sessions
<1>2. left.first = session.first /\ left.others = session.others \ {p}
  BY DEF Sessions
<1>3. left \in Sessions
  BY <1>1 DEF Sessions
<1> HIDE DEF left
<1>4. Members(left) \subseteq {session.first} \cup session.others
  BY <1>2 DEF Members
<1>5. QED
  BY <1>3, <1>4 DEF left

LEMMA ChannelInactiveKeeps ==
  ASSUME IInv, NEW p \in Pages, ChannelInactive(p)
  PROVE  IInv'
<1> USE DEF IInv, Typed, PagesInv, ShownInv
<1> DEFINE id == account[p]
           session == sessions[id]
           others == session.others \ {p}
           packet == [frame |-> ToByteArray(OffLine(id)), due |-> Absence(id), nr |-> 0]
           Told(q) == others = {} /\ q \in OpenPages /\ account[q] # None
           Leaves == id # None /\ p \in Members(session)
<1>1. /\ link' = [link EXCEPT ![p] = "closed"]
      /\ UNCHANGED <<toServer, account, kept, shown, beats, sent, accepted>>
  BY DEF ChannelInactive
<1>2. CASE ~Leaves
  <2>1. sessions' = sessions /\ toPage' = toPage
    BY <1>2 DEF ChannelInactive
  <2>2. RegistryTyped'
    <3>1. link' = [q \in Pages |-> link'[q]] /\ \A q \in Pages : link'[q] \in {"open", "closing", "closed"}
      BY <1>1 DEF RegistryTyped
    <3>2. QED
      BY <1>1, <2>1, <3>1 DEF RegistryTyped, Members
  <2>3. MessagesTyped' /\ QueuesTyped' /\ HandlersTyped'
    BY <1>1, <2>1 DEF MessagesTyped, QueuesTyped, HandlersTyped
  <2>4. ToServerInv' /\ ToPageInv' /\ KeptInv' /\ ShownAsTyped' /\ ShownToReceiver'
    BY <1>1, <2>1 DEF ToServerInv, ToPageInv, KeptInv, ShownAsTyped, ShownToReceiver, IsFor
  <2>5. QED
    BY <2>2, <2>3, <2>4
<1>3. CASE Leaves
  <2>1. /\ sessions' = [sessions EXCEPT ![id] = IF others = {} THEN None ELSE [@ EXCEPT !.others = others]]
        /\ toPage' = [q \in Pages |-> IF Told(q) THEN Append(toPage[q], packet) ELSE toPage[q]]
    BY <1>3 DEF ChannelInactive
  <2>2. id \in Ids /\ session \in Sessions
    <3>1. id \in Ids
      BY <1>3, IdsKnown DEF HandlersTyped
    <3>2. session # None
      BY <1>3 DEF Members
    <3>3. QED
      BY <3>1, <3>2 DEF RegistryTyped
  <2>3. /\ ToObject(DeserializeBinary(packet.frame)) = packet.due /\ \A q : IsFor(q, packet.due)
        /\ packet = [frame |-> packet.frame, due |-> packet.due, nr |-> packet.nr]
    BY <2>2, AbsenceShown
  <2>4. RegistryTyped'
    <3>1. link' = [q \in Pages |-> link'[q]] /\ \A q \in Pages : link'[q] \in {"open", "closing", "closed"}
      BY <1>1 DEF RegistryTyped
    <3>2. /\ \A i \in Ids : sessions'[i] = IF i # id THEN sessions[i]
                                          ELSE IF others = {} THEN None ELSE [session EXCEPT !.others = others]
          /\ sessions' = [i \in Ids |-> sessions'[i]]
      BY <2>1, <2>2 DEF RegistryTyped
    <3>3. /\ sessions'[id] = None \/ sessions'[id] \in Sessions
          /\ Members(sessions'[id]) \subseteq Members(session)
      <4>1. CASE others = {}
        BY <2>2, <3>2, <4>1 DEF Members
      <4>2. CASE others # {}
        <5>1. sessions'[id] = [session EXCEPT !.others = session.others \ {p}]
          BY <2>2, <3>2, <4>2
        <5>2. session # None
          BY <1>3 DEF Members
        <5>3. Members(session) = {session.first} \cup session.others
          BY <5>2 DEF Members
        <5>4. QED
          BY <2>2, <5>1, <5>3, LeftTyped
      <4>3. QED
        BY <4>1, <4>2
    <3> HIDE DEF id, session, others
    <3>4. \A i \in Ids : sessions'[i] = None \/ sessions'[i] \in Sessions
      BY <3>2, <3>3 DEF RegistryTyped
    <3>5. \A i \in Ids : Members(sessions'[i]) \subseteq Members(sessions[i])
      BY <3>2, <3>3 DEF session
    <3>6. \A i \in Ids : \A q \in Members(sessions'[i]) : q \in Pages /\ account'[q] = i
      BY <1>1, <3>5 DEF RegistryTyped
    <3>7. QED
      BY <3>1, <3>2, <3>4, <3>6 DEF RegistryTyped, Members
  <2> HIDE DEF packet, id, session, others, Told
  <2>5. ASSUME NEW q \in Pages
        PROVE  /\ IsSeq(toPage'[q])
               /\ \A i \in DOMAIN toPage'[q] :
                    \/ toPage'[q][i] = packet
                    \/ i \in DOMAIN toPage[q] /\ toPage'[q][i] = toPage[q][i]
    <3>1. toPage'[q] = IF Told(q) THEN Append(toPage[q], packet) ELSE toPage[q]
      BY <2>1
    <3>2. IsSeq(toPage[q])
      BY DEF QueuesTyped
    <3>3. QED
      BY <3>1, <3>2, AppendAny
  <2>6. QueuesTyped'
    <3>1. ASSUME NEW q \in Pages, NEW i \in DOMAIN toPage'[q]
          PROVE  LET next == toPage'[q][i]
                 IN  next = [frame |-> next.frame, due |-> next.due, nr |-> next.nr]
      <4>1. CASE toPage'[q][i] = packet
        BY <2>3, <4>1
      <4>2. CASE i \in DOMAIN toPage[q] /\ toPage'[q][i] = toPage[q][i]
        BY <4>2 DEF QueuesTyped
      <4>3. QED
        BY <2>5, <4>1, <4>2
    <3>2. toPage' = [q \in Pages |-> toPage'[q]]
      BY <2>1
    <3>3. QED
      BY <1>1, <2>5, <3>1, <3>2 DEF QueuesTyped
  <2>7. ToPageInv'
    <3>1. ASSUME NEW q \in Pages, NEW i \in DOMAIN toPage'[q]
          PROVE  LET next == toPage'[q][i]
                 IN  ToObject(DeserializeBinary(next.frame)) = next.due /\ IsFor(q, next.due)
      <4>1. CASE toPage'[q][i] = packet
        BY <2>3, <4>1
      <4>2. CASE i \in DOMAIN toPage[q] /\ toPage'[q][i] = toPage[q][i]
        BY <4>2 DEF ToPageInv, IsFor
      <4>3. QED
        BY <2>5, <4>1, <4>2
    <3>2. QED
      BY <3>1 DEF ToPageInv, IsFor
  <2>8. MessagesTyped' /\ HandlersTyped'
    BY <1>1 DEF MessagesTyped, HandlersTyped
  <2>9. ToServerInv' /\ KeptInv' /\ ShownAsTyped' /\ ShownToReceiver'
    BY <1>1 DEF ToServerInv, KeptInv, ShownAsTyped, ShownToReceiver, IsFor
  <2>10. QED
    BY <2>4, <2>6, <2>7, <2>8, <2>9
<1>4. QED
  BY <1>2, <1>3

LEMMA OnMessageKeeps ==
  ASSUME IInv, NEW p \in Pages, OnMessage(p)
  PROVE  IInv'
<1> USE DEF IInv, Typed, PagesInv, ShownInv
<1> DEFINE next == Head(toPage[p])
           display == [next EXCEPT !.frame = ToObject(DeserializeBinary(@))]
<1>1. /\ toPage[p] # <<>> /\ toPage' = [toPage EXCEPT ![p] = Tail(@)]
      /\ shown' = [shown EXCEPT ![p] = Append(@, display)]
      /\ UNCHANGED <<link, sessions, toServer, account, kept, beats, sent, accepted>>
  BY DEF OnMessage, PageTakes, registry
<1>2. /\ IsSeq(Tail(toPage[p])) /\ 1 \in DOMAIN toPage[p] /\ next = toPage[p][1]
      /\ \A i \in DOMAIN Tail(toPage[p]) : i + 1 \in DOMAIN toPage[p] /\ Tail(toPage[p])[i] = toPage[p][i + 1]
  BY <1>1, TailAny DEF QueuesTyped
<1>3. next = [frame |-> next.frame, due |-> next.due, nr |-> next.nr]
  BY <1>2 DEF QueuesTyped
<1>4. display.frame = ToObject(DeserializeBinary(next.frame)) /\ display.due = next.due
  BY <1>3
<1>5. display.frame = display.due /\ IsFor(p, display.frame)
  BY <1>2, <1>4 DEF ToPageInv, IsFor
<1> HIDE DEF display
<1>6. /\ IsSeq(Append(shown[p], display))
      /\ \A i \in DOMAIN Append(shown[p], display) :
           \/ Append(shown[p], display)[i] = display
           \/ i \in DOMAIN shown[p] /\ Append(shown[p], display)[i] = shown[p][i]
  BY AppendAny DEF QueuesTyped
<1>7. \A q \in Pages : shown'[q] = IF q = p THEN Append(shown[p], display) ELSE shown[q]
  BY <1>1 DEF QueuesTyped
<1>8. \A q \in Pages : toPage'[q] = IF q = p THEN Tail(toPage[p]) ELSE toPage[q]
  BY <1>1 DEF QueuesTyped
<1>9. ASSUME NEW q \in Pages, NEW i \in DOMAIN toPage'[q]
      PROVE  \E j \in DOMAIN toPage[q] : toPage'[q][i] = toPage[q][j]
  <2>1. CASE q = p
    <3>1. toPage'[q] = Tail(toPage[p])
      BY <1>8, <2>1
    <3>2. i \in DOMAIN Tail(toPage[p])
      BY <3>1
    <3>3. i + 1 \in DOMAIN toPage[q] /\ toPage'[q][i] = toPage[q][i + 1]
      BY <1>2, <2>1, <3>1, <3>2
    <3>4. QED
      BY <3>3
  <2>2. CASE q # p
    BY <1>8, <2>2
  <2>3. QED
    BY <2>1, <2>2
<1>10. ASSUME NEW q \in Pages, NEW i \in DOMAIN shown'[q]
       PROVE  shown'[q][i].frame = shown'[q][i].due /\ IsFor(q, shown'[q][i].frame)
  <2>1. \/ q = p /\ shown'[q][i] = display
        \/ i \in DOMAIN shown[q] /\ shown'[q][i] = shown[q][i]
    BY <1>6, <1>7
  <2>2. QED
    BY <1>5, <2>1 DEF ShownAsTyped, ShownToReceiver, IsFor
<1>11. MessagesTyped' /\ HandlersTyped'
  BY <1>1 DEF MessagesTyped, HandlersTyped
<1>12. QueuesTyped'
  <2>1. toPage' = [q \in Pages |-> toPage'[q]] /\ shown' = [q \in Pages |-> shown'[q]]
    BY <1>1 DEF QueuesTyped
  <2>2. \A q \in Pages : IsSeq(toPage'[q]) /\ IsSeq(shown'[q])
    BY <1>2, <1>6, <1>7, <1>8 DEF QueuesTyped
  <2>3. ASSUME NEW q \in Pages, NEW i \in DOMAIN toPage'[q]
        PROVE  LET first == toPage'[q][i]
               IN  first = [frame |-> first.frame, due |-> first.due, nr |-> first.nr]
    BY <1>9 DEF QueuesTyped
  <2>4. toServer' = toServer
    BY <1>1
  <2>5. QED
    BY <2>1, <2>2, <2>3, <2>4 DEF QueuesTyped
<1>13. ToServerInv' /\ KeptInv'
  BY <1>1 DEF ToServerInv, KeptInv
<1>14. ToPageInv'
  <2>1. ASSUME NEW q \in Pages, NEW i \in DOMAIN toPage'[q]
        PROVE  LET first == toPage'[q][i]
               IN  ToObject(DeserializeBinary(first.frame)) = first.due /\ IsFor(q, first.due)
    BY <1>9 DEF ToPageInv, IsFor
  <2>2. QED
    BY <2>1 DEF ToPageInv, IsFor
<1>15. ShownAsTyped' /\ ShownToReceiver'
  BY <1>10 DEF ShownAsTyped, ShownToReceiver, IsFor
<1>16. RegistryTyped'
  BY <1>1, RegistryKept
<1>17. QED
  BY <1>11, <1>12, <1>13, <1>14, <1>15, <1>16

LEMMA ChannelReadKeeps ==
  ASSUME IInv, NEW p \in Pages, ChannelRead(p)
  PROVE  IInv'
<1> USE DEF IInv, Typed, PagesInv, ShownInv
<1> DEFINE first == Head(toServer[p])
           nr == first.nr
           m == ParseModel(first.frame)
           message == sent[nr]
           packet == [frame |-> ToByteArray(Converted(p, m)), due |-> Due(message), nr |-> nr]
<1>1. /\ ServerTakes(p) /\ m # None /\ Keep(p, m)
      /\ account' = IF Field(m, "type") = LK THEN [account EXCEPT ![p] = Field(m, "deviceid")] ELSE account
      /\ toPage' = [q \in Pages |-> IF q \in Addressees(p, m) THEN Append(toPage[q], packet) ELSE toPage[q]]
      /\ sessions' = IF Field(m, "type") = LK
                     THEN [sessions EXCEPT ![Field(m, "deviceid")] = WithPage(p, Field(m, "deviceid"))] ELSE sessions
      /\ accepted' = [accepted EXCEPT ![p] = nr]
      /\ UNCHANGED <<link, shown, beats, sent>>
  BY DEF ChannelRead
<1>2. /\ ToServerInv' /\ 1 \in DOMAIN toServer[p] /\ first = toServer[p][1]
      /\ toServer' = [q \in Pages |-> toServer'[q]] /\ \A q \in Pages : IsSeq(toServer'[q])
  BY <1>1, FrameTaken
<1>3. nr \in DOMAIN sent /\ message.page = p /\ first.frame = SerializeBinary(Content(p, message.form))
  BY <1>2 DEF ToServerInv
<1>4. message.form \in Forms /\ nr # 0
  BY <1>3 DEF MessagesTyped
<1>5. m = Read9(p, message.form)
  BY <1>1, <1>3, <1>4, FrameParsed
<1>6. m \in Models /\ m[2] = DeviceId[p]
  BY <1>4, <1>5, NineTexts, ReadFieldsOf
<1>7. packet.frame = ToByteArray(Converted(p, m)) /\ packet.due = Due(message)
      /\ packet = [frame |-> packet.frame, due |-> packet.due, nr |-> packet.nr]
  OBVIOUS
<1> HIDE DEF m, packet, message, nr, first
<1>8. ASSUME NEW q \in Addressees(p, m)
      PROVE  ToObject(DeserializeBinary(packet.frame)) = packet.due /\ IsFor(q, packet.due)
  <2>1. \A r \in Pages : account[r] \in {None, DeviceId[r]}
    BY DEF HandlersTyped
  <2>2. IsFor(q, Due(message)) /\ (m[4] \in {LK, UD} \/ account[p] = DeviceId[p])
    BY <1>3, <1>4, <1>5, <2>1, AddresseesRight
  <2>3. Converted(p, m) \in Models /\ ObjectOf(Converted(p, m)) = Due(message)
    BY <1>3, <1>4, <1>5, <2>2, ConvertedIsDue
  <2>4. ToObject(DeserializeBinary(ToByteArray(Converted(p, m)))) = ObjectOf(Converted(p, m))
    BY <2>3, ModelShown
  <2>5. QED
    BY <1>7, <2>2, <2>3, <2>4
<1>9. ASSUME NEW q \in Pages
      PROVE  /\ IsSeq(toPage'[q])
             /\ \A i \in DOMAIN toPage'[q] :
                  \/ q \in Addressees(p, m) /\ toPage'[q][i] = packet
                  \/ i \in DOMAIN toPage[q] /\ toPage'[q][i] = toPage[q][i]
  <2>1. toPage'[q] = IF q \in Addressees(p, m) THEN Append(toPage[q], packet) ELSE toPage[q]
    BY <1>1
  <2>2. IsSeq(toPage[q])
    BY DEF QueuesTyped
  <2>3. QED
    BY <2>1, <2>2, AppendAny
<1>10. /\ \A q \in Pages : account'[q] = IF q = p /\ m[4] = LK THEN DeviceId[p] ELSE account[q]
       /\ account' = [q \in Pages |-> account'[q]]
  BY <1>1, <1>6, FieldsOf DEF HandlersTyped
<1>11. /\ \A q \in Pages : kept'[q] = IF q = p THEN m ELSE kept[q]
       /\ \A q \in Pages : accepted'[q] = IF q = p THEN nr ELSE accepted[q]
       /\ kept' = [q \in Pages |-> kept'[q]] /\ accepted' = [q \in Pages |-> accepted'[q]]
  BY <1>1 DEF Keep, HandlersTyped
<1>12. MessagesTyped'
  BY <1>1 DEF MessagesTyped
<1>13. QueuesTyped'
  <2>1. ASSUME NEW q \in Pages, NEW i \in DOMAIN toPage'[q]
        PROVE  LET next == toPage'[q][i]
               IN  next = [frame |-> next.frame, due |-> next.due, nr |-> next.nr]
    <3>1. CASE toPage'[q][i] = packet
      BY <1>7, <3>1
    <3>2. CASE i \in DOMAIN toPage[q] /\ toPage'[q][i] = toPage[q][i]
      BY <3>2 DEF QueuesTyped
    <3>3. QED
      BY <1>9, <3>1, <3>2
  <2>2. toPage' = [q \in Pages |-> toPage'[q]]
    BY <1>1
  <2>3. shown' = shown
    BY <1>1
  <2>4. QED
    BY <1>2, <1>9, <2>1, <2>2, <2>3 DEF QueuesTyped
<1>14. HandlersTyped'
  <2>1. \A q \in Pages : account'[q] \in {None, DeviceId[q]}
    BY <1>10 DEF HandlersTyped
  <2>2. \A q \in Pages : accepted'[q] # 0 => kept'[q] \in Models
    BY <1>6, <1>11 DEF HandlersTyped
  <2>3. beats' \in 0 .. MaxBeats
    BY <1>1 DEF HandlersTyped
  <2>4. QED
    BY <1>10, <1>11, <2>1, <2>2, <2>3 DEF HandlersTyped
<1>15. ToPageInv'
  <2>1. ASSUME NEW q \in Pages, NEW i \in DOMAIN toPage'[q]
        PROVE  LET next == toPage'[q][i]
               IN  ToObject(DeserializeBinary(next.frame)) = next.due /\ IsFor(q, next.due)
    <3>1. CASE q \in Addressees(p, m) /\ toPage'[q][i] = packet
      BY <1>8, <3>1
    <3>2. CASE i \in DOMAIN toPage[q] /\ toPage'[q][i] = toPage[q][i]
      BY <3>2 DEF ToPageInv, IsFor
    <3>3. QED
      BY <1>9, <3>1, <3>2
  <2>2. QED
    BY <2>1 DEF ToPageInv, IsFor
<1>16. KeptInv'
  <2>1. ObjectOf(Beat(m)) = AsBeat(Due(message))
    BY <1>3, <1>4, <1>5, BeatIsDue
  <2>2. message = sent'[nr] /\ nr \in DOMAIN sent' /\ sent' = sent
    BY <1>1, <1>3 DEF message
  <2>3. ASSUME NEW q \in Pages
        PROVE  /\ account'[q] # None => accepted'[q] # 0
               /\ accepted'[q] # 0 =>
                    /\ accepted'[q] \in DOMAIN sent' /\ sent'[accepted'[q]].page = q
                    /\ ObjectOf(Beat(kept'[q])) = AsBeat(Due(sent'[accepted'[q]]))
    <3>1. CASE q = p
      BY <1>3, <1>4, <1>11, <2>1, <2>2, <3>1
    <3>2. CASE q # p
      BY <1>10, <1>11, <2>2, <3>2 DEF KeptInv
    <3>3. QED
      BY <3>1, <3>2
  <2>4. QED
    BY <2>3 DEF KeptInv
<1>17. ShownAsTyped' /\ ShownToReceiver'
  BY <1>1 DEF ShownAsTyped, ShownToReceiver, IsFor
<1>18. RegistryTyped'
  <2>1. link' = link /\ DeviceId[p] \in Ids
    BY <1>1, IdsKnown
  <2>2. CASE m[4] = LK
    <3>1. sessions' = [sessions EXCEPT ![DeviceId[p]] = WithPage(p, DeviceId[p])]
      BY <1>1, <1>6, <2>2, FieldsOf
    <3>2. /\ \A id \in Ids : sessions'[id] = IF id = DeviceId[p] THEN WithPage(p, id) ELSE sessions[id]
          /\ sessions' = [id \in Ids |-> sessions'[id]]
      BY <2>1, <3>1 DEF RegistryTyped
    <3>3. \A id \in Ids : sessions'[id] = None \/ sessions'[id] \in Sessions
      BY <3>2, WithPageTyped DEF RegistryTyped
    <3>4. ASSUME NEW id \in Ids, NEW q \in Members(sessions'[id])
          PROVE  q \in Pages /\ account'[q] = id
      <4>1. q \in Members(sessions[id]) \/ (q = p /\ id = DeviceId[p])
        BY <3>2, WithPageTyped
      <4>2. CASE q = p /\ id = DeviceId[p]
        BY <1>10, <2>2, <4>2
      <4>3. CASE q \in Members(sessions[id])
        <5>1. q \in Pages /\ account[q] = id
          BY <4>3 DEF RegistryTyped
        <5>2. id # None /\ account[q] \in {None, DeviceId[q]}
          BY <5>1, IdsKnown DEF HandlersTyped
        <5>3. QED
          BY <1>10, <5>1, <5>2
      <4>4. QED
        BY <4>1, <4>2, <4>3
    <3>5. QED
      BY <2>1, <3>2, <3>3, <3>4 DEF RegistryTyped, Members
  <2>3. CASE m[4] # LK
    <3>1. sessions' = sessions /\ account' = account
      BY <1>1, <2>3, FieldsOf
    <3>2. QED
      BY <2>1, <3>1, RegistryKept
  <2>4. QED
    BY <2>2, <2>3
<1>19. QED
  BY <1>2, <1>12, <1>13, <1>14, <1>15, <1>16, <1>17, <1>18

LEMMA WriterIdleKeeps ==
  ASSUME IInv, NEW p \in Pages, WriterIdle(p)
  PROVE  IInv'
<1> USE DEF IInv, Typed, PagesInv, ShownInv
<1> DEFINE message == sent[accepted[p]]
           beat == Beat(kept[p])
           packet == [frame |-> ToByteArray(beat), due |-> AsBeat(Due(message)), nr |-> 0]
<1>1. /\ beats < MaxBeats /\ account[p] # None /\ kept' = [kept EXCEPT ![p] = Beat(@)]
      /\ beats' = beats + 1 /\ UNCHANGED <<link, sessions, toServer, account, shown, sent, accepted>>
      /\ toPage' = [toPage EXCEPT ![p] = Append(@, [frame |-> ToByteArray(kept'[p]), due |-> AsBeat(Due(message)),
                                                    nr |-> 0])]
  BY DEF WriterIdle, registry
<1>2. accepted[p] # 0 /\ kept[p] \in Models /\ message.page = p /\ ObjectOf(beat) = AsBeat(Due(message))
  BY <1>1 DEF KeptInv, HandlersTyped
<1>3. beat \in Models /\ Beat(beat) = beat
  BY <1>2, BeatModel
<1>4. /\ \A q \in Pages : kept'[q] = IF q = p THEN beat ELSE kept[q]
      /\ kept' = [q \in Pages |-> kept'[q]]
  BY <1>1 DEF HandlersTyped
<1>5. /\ \A q \in Pages : toPage'[q] = IF q = p THEN Append(toPage[p], packet) ELSE toPage[q]
      /\ toPage' = [q \in Pages |-> toPage'[q]]
  BY <1>1, <1>4 DEF QueuesTyped
<1>6. packet.frame = ToByteArray(beat) /\ packet.due = AsBeat(Due(message))
      /\ packet = [frame |-> packet.frame, due |-> packet.due, nr |-> packet.nr]
  OBVIOUS
<1>7. IsFor(p, AsBeat(Due(message)))
  <2>1. AsBeat(Due(message)) = Object(Factory, DeviceId[p], Length, LK, <<>>, <<>>, DeviceId[p],
                                      Received(message.form.receiver), <<>>)
    BY <1>2, DueAsBeat
  <2>2. AsBeat(Due(message)).type = LK /\ AsBeat(Due(message)).deviceid = DeviceId[p]
    BY <2>1 DEF Object
  <2>3. QED
    BY <2>2 DEF IsFor
<1>8. ToObject(DeserializeBinary(packet.frame)) = packet.due /\ IsFor(p, packet.due)
  BY <1>2, <1>3, <1>6, <1>7, ModelShown
<1> HIDE DEF message, beat, packet
<1>9. ASSUME NEW q \in Pages
      PROVE  /\ IsSeq(toPage'[q])
             /\ \A i \in DOMAIN toPage'[q] :
                  \/ q = p /\ toPage'[q][i] = packet
                  \/ i \in DOMAIN toPage[q] /\ toPage'[q][i] = toPage[q][i]
  <2>1. IsSeq(toPage[q])
    BY DEF QueuesTyped
  <2>2. toPage'[q] = IF q = p THEN Append(toPage[q], packet) ELSE toPage[q]
    BY <1>5
  <2>3. QED
    BY <2>1, <2>2, AppendAny
<1>10. MessagesTyped'
  BY <1>1 DEF MessagesTyped
<1>11. QueuesTyped'
  <2>1. ASSUME NEW q \in Pages, NEW i \in DOMAIN toPage'[q]
        PROVE  LET next == toPage'[q][i]
               IN  next = [frame |-> next.frame, due |-> next.due, nr |-> next.nr]
    <3>1. CASE toPage'[q][i] = packet
      BY <1>6, <3>1
    <3>2. CASE i \in DOMAIN toPage[q] /\ toPage'[q][i] = toPage[q][i]
      BY <3>2 DEF QueuesTyped
    <3>3. QED
      BY <1>9, <3>1, <3>2
  <2>2. shown' = shown /\ toServer' = toServer
    BY <1>1
  <2>3. QED
    BY <1>5, <1>9, <2>1, <2>2 DEF QueuesTyped
<1>12. HandlersTyped'
  <2>1. beats' \in 0 .. MaxBeats
    BY <1>1, BoundAssumption DEF HandlersTyped
  <2>2. \A q \in Pages : accepted'[q] # 0 => kept'[q] \in Models
    BY <1>1, <1>3, <1>4 DEF HandlersTyped
  <2>3. QED
    BY <1>1, <1>4, <2>1, <2>2 DEF HandlersTyped
<1>13. ToServerInv'
  BY <1>1 DEF ToServerInv
<1>14. ToPageInv'
  <2>1. ASSUME NEW q \in Pages, NEW i \in DOMAIN toPage'[q]
        PROVE  LET next == toPage'[q][i]
               IN  ToObject(DeserializeBinary(next.frame)) = next.due /\ IsFor(q, next.due)
    <3>1. CASE q = p /\ toPage'[q][i] = packet
      BY <1>8, <3>1
    <3>2. CASE i \in DOMAIN toPage[q] /\ toPage'[q][i] = toPage[q][i]
      BY <3>2 DEF ToPageInv, IsFor
    <3>3. QED
      BY <1>9, <3>1, <3>2
  <2>2. QED
    BY <2>1 DEF ToPageInv, IsFor
<1>15. KeptInv'
  <2>1. ASSUME NEW q \in Pages PROVE Beat(kept'[q]) = Beat(kept[q])
    BY <1>3, <1>4 DEF beat
  <2>2. account' = account /\ accepted' = accepted /\ sent' = sent
    BY <1>1
  <2>3. QED
    BY <2>1, <2>2 DEF KeptInv
<1>16. ShownAsTyped' /\ ShownToReceiver'
  BY <1>1 DEF ShownAsTyped, ShownToReceiver, IsFor
<1>17. RegistryTyped'
  BY <1>1, RegistryKept
<1>18. QED
  BY <1>10, <1>11, <1>12, <1>13, <1>14, <1>15, <1>16, <1>17

LEMMA NothingKeeps ==
  ASSUME IInv, UNCHANGED vars
  PROVE  IInv'
<1> USE DEF IInv, Typed, PagesInv, ShownInv
<1>1. UNCHANGED <<link, sessions, toServer, toPage, account, kept, shown, beats, sent, accepted>>
  BY DEF vars, registry
<1>2. MessagesTyped' /\ QueuesTyped' /\ HandlersTyped'
  BY <1>1 DEF MessagesTyped, QueuesTyped, HandlersTyped
<1>3. ToServerInv' /\ ToPageInv' /\ KeptInv' /\ ShownAsTyped' /\ ShownToReceiver'
  BY <1>1 DEF ToServerInv, ToPageInv, KeptInv, ShownAsTyped, ShownToReceiver, IsFor
<1>4. RegistryTyped'
  BY <1>1, RegistryKept
<1>5. QED
  BY <1>2, <1>3, <1>4

LEMMA StepKeeps == IInv /\ [Next]_vars => IInv'
<1> SUFFICES ASSUME IInv, [Next]_vars PROVE IInv'
  OBVIOUS
<1>1. ASSUME NEW p \in Pages, Send(p) PROVE IInv'
  BY <1>1, SendKeeps
<1>2. ASSUME NEW p \in Pages, OnMessage(p) PROVE IInv'
  BY <1>2, OnMessageKeeps
<1>3. ASSUME NEW p \in Pages, Overflow(p) PROVE IInv'
  BY <1>3, OverflowKeeps
<1>4. ASSUME NEW p \in Pages, Ignore(p) \/ Refuse(p) PROVE IInv'
  BY <1>4, NobodyReads
<1>5. ASSUME NEW p \in Pages, ChannelRead(p) PROVE IInv'
  BY <1>5, ChannelReadKeeps
<1>6. ASSUME NEW p \in Pages, ChannelInactive(p) PROVE IInv'
  BY <1>6, ChannelInactiveKeeps
<1>7. ASSUME NEW p \in Pages, WriterIdle(p) PROVE IInv'
  BY <1>7, WriterIdleKeeps
<1>8. ASSUME Quiet \/ UNCHANGED vars PROVE IInv'
  BY <1>8, NothingKeeps DEF Quiet
<1>9. QED
  BY <1>1, <1>2, <1>3, <1>4, <1>5, <1>6, <1>7, <1>8 DEF Next

LEMMA Invariant == Spec => []IInv
  BY Initially, StepKeeps, PTL DEF Spec

LEMMA IInvTypeOK == IInv => TypeOK
<1> SUFFICES ASSUME IInv PROVE TypeOK
  OBVIOUS
<1>1. MessagesTyped /\ HandlersTyped /\ RegistryTyped /\ ToServerInv /\ KeptInv
  BY DEF IInv, Typed, PagesInv
<1>2. ASSUME NEW p \in Pages, account[p] # None PROVE kept[p] # None
  <2>1. kept[p] \in Models
    BY <1>1, <1>2 DEF KeptInv, HandlersTyped
  <2>2. Lossless \subseteq Texts
    BY DEF Lossless
  <2>3. kept[p] \in [DOMAIN Names -> Texts]
    BY <2>1, <2>2, NamesOf DEF Models
  <2>4. QED
    BY <2>3, NoneAssumption
<1>3. QED
  BY <1>1, <1>2 DEF TypeOK, MessagesTyped, HandlersTyped, RegistryTyped, ToServerInv

-----------------------------------------------------------------------------
(* The theorems.                                                           *)

\* The values of the variables; a page that has logged in has a message to be
\* sent back as heartbeat request (userEventTriggered uses the kept builder), and
\* those in a session are bound to its id.
THEOREM TypeCorrect == Spec => []TypeOK
  BY Invariant, IInvTypeOK, PTL

\* Whatever is on its way is read as what it is to be and by whom it is for, and
\* the kept message is a page's own (channelRead0, userEventTriggered).
THEOREM TrafficRight == Spec => []PagesInv
<1>1. IInv => PagesInv
  BY DEF IInv
<1>2. QED
  BY <1>1, Invariant, PTL

\* Whatever texts are typed, a page displays them as they were typed, as far as
\* they can be written (send and onmessage of index.html, channelRead0).
THEOREM DisplayedAsTyped == Spec => []ShownAsTyped
<1>1. IInv => ShownAsTyped
  BY DEF IInv, ShownInv
<1>2. QED
  BY <1>1, Invariant, PTL

\* Only the pages that a message is for display it (receiveMessages).
THEOREM DisplayedToReceiver == Spec => []ShownToReceiver
<1>1. IInv => ShownToReceiver
  BY DEF IInv, ShownInv
<1>2. QED
  BY <1>1, Invariant, PTL

=============================================================================
