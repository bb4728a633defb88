----------------------------- MODULE WatchCodec -----------------------------
(***************************************************************************)
(* The text protocol of the watches: WatchEncode, WatchDecoder and         *)
(* WatchMessageParsingUtils, with the frame decoder in front of them.      *)
(*                                                                         *)
(* Text is a sequence of bytes, written as characters, some of which belong *)
(* to the protocol.  One end of a TCP connection encodes messages, the     *)
(* stream arrives in pieces of any size, and the other end decodes it.     *)
(* The watch is taken to write what sendWatchData writes.                  *)
(***************************************************************************)
EXTENDS Naturals, SequencesExt

CONSTANTS
  Characters, \* what texts are made of
  Messages,   \* Models that are encoded
  Templates,  \* arguments of generateTemplate: deviceId, type, body
  Noises,     \* text between the messages, which filterData removes
  MaxFrame,   \* limit of the frame decoder: the bytes before a delimiter
  MaxSent,    \* bound on the messages of a connection
  MaxNoise    \* bound on the noise

Comma == ","
Space == " "

Text == Seq(Characters)

Model == [factory : Text, deviceId : Text, receiver : Text, type : Text, body : Text]

\* What a decoder reads.
Received == [factory : Text, deviceId : Text, length : Text, type : Text, body : Text]

\* A Model that was sent, and whether its frame is longer than MaxFrame.
Sent == [model : Model, long : BOOLEAN]

HexDigits == <<"0", "1", "2", "3", "4", "5", "6", "7", "8", "9", "A", "B", "C", "D", "E", "F">>

ASSUME CharacterAssumption ==
  /\ \A i \in 1 .. 16 : HexDigits[i] \in Characters
  /\ {"[", "]", "*", Comma, Space, "G"} \subseteq Characters

\* The length of a type has four digits.
ASSUME TextAssumption ==
  /\ Messages \subseteq Model
  /\ Templates \subseteq [deviceId : Text, type : Text, body : Text]
  /\ \A m \in Messages \cup Templates : Len(m.type) < 65536
  /\ Noises \subseteq Text
  /\ MaxFrame \in Nat /\ MaxSent \in Nat /\ MaxNoise \in Nat

\* A noise without brackets, so that every frame holds one message: a frame of
\* less than four bytes would be kept and joined with the next one.
ASSUME NoiseAssumption == \A n \in Noises : \A i \in DOMAIN n : n[i] \notin {"[", "]"}

VARIABLES
  connected,  \* the connection is up
  wire,       \* text on its way
  part,       \* what has arrived and the frame decoder has not handed on
  discarded,  \* what it has discarded of a frame whose delimiter is not there:
              \* the code keeps the length, and that there is any
  stalled,    \* a frame was too long: what is behind it in part has to wait
  got         \* what the decoder fired of each frame, at most one Model

\* What was sent, for the bounds and for the properties.
VARIABLES
  sent,       \* Models whose text was sent
  noise,      \* noises so far
  ahead       \* bytes of noise since the last message

history == <<sent, noise, ahead>>
vars == <<connected, wire, part, discarded, stalled, got, history>>

Blank(str) == \A i \in DOMAIN str : str[i] = Space

-----------------------------------------------------------------------------
(* WatchMessageParsingUtils.                                               *)

\* String.indexOf, counted from 1, and 0 if there is none.
IndexOf(str, symbol) == SelectInSeq(str, LAMBDA t : t = symbol)

\* What is between the symbols.
Pieces(str, symbol) ==
  LET cuts == {i \in DOMAIN str : str[i] = symbol}
      cut(k) == CHOOSE i \in cuts : Cardinality({j \in cuts : j <= i}) = k
      first(k) == IF k = 1 THEN 1 ELSE cut(k - 1) + 1
      last(k)  == IF k > Cardinality(cuts) THEN Len(str) ELSE cut(k) - 1
  IN  [k \in 1 .. Cardinality(cuts) + 1 |-> SubSeq(str, first(k), last(k))]

\* String.split: without the empty pieces at the end.
Split(str, symbol) ==
  IF str = <<>> THEN <<str>>
  ELSE LET pieces == Pieces(str, symbol)
       IN  SubSeq(pieces, 1, SelectLastInSeq(pieces, LAMBDA p : p # <<>>))

\* What follows the first symbol.
FirstSplit(str, symbol) ==
  LET len == IndexOf(str, symbol)
  IN  IF len = 0 THEN <<>> ELSE SubSeq(str, len + 1, Len(str))

\* Faulty: drops the opening bracket only.
FaultyIntercept(str) == SubSeq(str, 2, Len(str))

\* Drops the brackets.
Intercept(str) == SubSeq(str, 2, Len(str) - 1)

\* Four hexadecimal digits.
IntToHex(n) ==
  LET digit(unit) == HexDigits[1 + ((n \div unit) % 16)]
  IN  <<digit(4096), digit(256), digit(16), digit(1)>>

\* The text from the first opening to the first closing bracket.
FilterData(data) ==
  LET first == IndexOf(data, "[")
      last  == IndexOf(data, "]")
  IN  IF first = 0 \/ last = 0 THEN <<>> ELSE SubSeq(data, first, last)

\* receiveAnalyticData as a sequence of at most one Model: a text without the
\* four parts of a header ends in an exception, which is only logged.
ReceiveAnalyticData(data) ==
  LET str  == Intercept(data)
      len  == Split(str, Comma)
      info == Split(len[1], "*")
  IN  IF data = <<>> \/ len = <<>> THEN <<>>
      ELSE IF Len(info) < 4 THEN <<>>
      ELSE << [factory |-> info[1], deviceId |-> info[2], length |-> info[3],
               type |-> info[4], body |-> FirstSplit(str, Comma)] >>

\* sendWatchData: nothing for a Model without a device id.
SendWatchData(m) ==
  LET factory == IF Blank(m.factory) THEN <<"3", "G">> ELSE m.factory
      header  == factory \o <<"*">> \o m.deviceId \o <<"*">> \o IntToHex(Len(m.type)) \o <<"*">> \o m.type
      content == IF Blank(m.body) THEN header ELSE header \o <<Comma>> \o m.body
  IN  IF Blank(m.deviceId) THEN <<>> ELSE <<"[">> \o content \o <<"]">>

\* generateTemplate keeps what follows the first comma of the body.
GenerateTemplate(deviceId, type, body) ==
  [factory |-> <<"3", "G">>, deviceId |-> deviceId, receiver |-> <<>>, type |-> type,
   body |-> FirstSplit(body, Comma)]

Clean(str) == \A i \in DOMAIN str : str[i] \notin {"]", "*", Comma}

Speakable(m) ==
  /\ Clean(m.factory) /\ Clean(m.deviceId) /\ Clean(m.receiver) /\ Clean(m.type)
  /\ m.type # <<>>
  /\ IndexOf(m.body, "]") = 0

\* The protocol has no escape: its characters are not to be in the parts of a
\* header, and the delimiter is not to be in a body.  Without a type
\* String.split would drop the last part.
ASSUME ProtocolAssumption ==
  /\ \A m \in Messages : Speakable(m)
  /\ \A t \in Templates : Speakable(GenerateTemplate(t.deviceId, t.type, t.body))

-----------------------------------------------------------------------------
(* The coders.                                                             *)

\* Faulty: a reply keeps the device id of its sender.
FaultyEncoded(m) == SendWatchData(m)

\* WatchEncode: a reply goes out under the device id of its receiver.
Encoded(m) == SendWatchData(IF m.receiver = <<>> THEN m ELSE [m EXCEPT !.deviceId = m.receiver])

\* WatchDecoder: the frame has lost its delimiter.
Decoded(frame) == ReceiveAnalyticData(FilterData(Append(frame, "]")))

Init ==
  /\ connected = TRUE
  /\ wire = <<>> /\ part = <<>> /\ discarded = <<>>
  /\ stalled = FALSE
  /\ sent = <<>> /\ got = <<>>
  /\ noise = 0 /\ ahead = 0

\* The frame of a message is the noise in front of it and its text without the
\* delimiter.
Send(m) ==
  /\ connected
  /\ Len(sent) < MaxSent
  /\ Encoded(m) # <<>>
  /\ wire' = wire \o Encoded(m)
  /\ sent' = Append(sent, [model |-> m, long |-> ahead + Len(Encoded(m)) > MaxFrame + 1])
  /\ ahead' = 0
  /\ UNCHANGED <<connected, part, discarded, stalled, got, noise>>

Encode == \E m \in Messages : Send(m)

\* heartbeatToClient and the state messages.
EncodeTemplate == \E t \in Templates : Send(GenerateTemplate(t.deviceId, t.type, t.body))

Noise ==
  /\ connected
  /\ noise < MaxNoise
  /\ noise' = noise + 1
  /\ \E n \in Noises : wire' = wire \o n /\ ahead' = ahead + Len(n)
  /\ UNCHANGED <<connected, part, discarded, stalled, sent, got>>

-----------------------------------------------------------------------------
(* The frame decoder.  It takes frames as long as there is a delimiter, but   *)
(* for the exception of a frame that is too long, which ends the round: the   *)
(* next one begins when more arrives, and the last one with channelInactive.  *)

Resting == IndexOf(part, "]") = 0

Frame == SubSeq(part, 1, IndexOf(part, "]") - 1)
Rest == SubSeq(part, IndexOf(part, "]") + 1, Len(part))

\* Faulty: discards a text that is too long although frames in it are not.
FaultyKeep(text, before) ==
  LET discard == Len(text) > MaxFrame \/ (IndexOf(text, "]") = 0 /\ before # <<>>)
  IN  /\ part' = IF discard THEN <<>> ELSE text
      /\ discarded' = IF discard THEN before \o text ELSE before

\* What is kept of a text: one without a delimiter is discarded when it is too
\* long, or goes on with a frame of which something was.
Keep(text, before) ==
  LET discard == IndexOf(text, "]") = 0 /\ (before # <<>> \/ Len(text) > MaxFrame)
  IN  /\ part' = IF discard THEN <<>> ELSE text
      /\ discarded' = IF discard THEN before \o text ELSE before

\* A piece of the stream arrives at the frame decoder.
Arrive ==
  /\ connected
  /\ Resting \/ stalled
  /\ \E k \in 1 .. Len(wire) :
       /\ Keep(part \o SubSeq(wire, 1, k), discarded)
       /\ wire' = SubSeq(wire, k + 1, Len(wire))
  /\ stalled' = FALSE
  /\ UNCHANGED <<connected, got, history>>

\* Faulty: what has arrived behind a frame is lost.
FaultyDecode ==
  /\ ~Resting /\ ~stalled /\ discarded = <<>>
  /\ Len(Frame) <= MaxFrame
  /\ got' = Append(got, Decoded(Frame))
  /\ part' = <<>>
  /\ UNCHANGED <<connected, wire, discarded, stalled, history>>

\* A frame is handed on, and the decoder fires what it reads in it.
Decode ==
  /\ ~Resting /\ ~stalled /\ discarded = <<>>
  /\ Len(Frame) <= MaxFrame
  /\ got' = Append(got, Decoded(Frame))
  /\ Keep(Rest, <<>>)
  /\ UNCHANGED <<connected, wire, stalled, history>>

\* A frame that is too long is dropped with an exception.
Drop ==
  /\ ~Resting /\ ~stalled /\ discarded = <<>>
  /\ Len(Frame) > MaxFrame
  /\ got' = Append(got, <<>>)
  /\ part' = Rest
  /\ stalled' = TRUE
  /\ UNCHANGED <<connected, wire, discarded, history>>

\* The end of a frame of which something was discarded: the exception came then.
Skip ==
  /\ ~Resting /\ ~stalled /\ discarded # <<>>
  /\ got' = Append(got, <<>>)
  /\ Keep(Rest, <<>>)
  /\ UNCHANGED <<connected, wire, stalled, history>>

\* The connection ends: whole frames that wait are decoded, the rest and what
\* is on its way is lost, that is, no action takes it any more.
Disconnect ==
  /\ connected
  /\ Resting \/ stalled
  /\ connected' = FALSE
  /\ stalled' = FALSE
  /\ UNCHANGED <<wire, part, discarded, got, history>>

Ended == ~connected /\ (Resting \/ stalled) /\ UNCHANGED vars

Next ==
  \/ Encode \/ EncodeTemplate \/ Noise
  \/ Arrive \/ Decode \/ Drop \/ Skip
  \/ Disconnect \/ Ended

Spec == Init /\ [][Next]_vars

-----------------------------------------------------------------------------
(* Properties.                                                             *)

\* The variables have their types; in particular the delimiter is in no body
\* that the decoder fires.
TypeOK ==
  /\ connected \in BOOLEAN /\ stalled \in BOOLEAN
  /\ wire \in Text /\ part \in Text /\ discarded \in Text
  /\ sent \in Seq(Sent) /\ Len(sent) <= MaxSent
  /\ noise \in 0 .. MaxNoise /\ ahead \in Nat
  /\ got \in Seq(Seq(Received))
  /\ \A i \in DOMAIN got : \A j \in DOMAIN got[i] : IndexOf(got[i][j].body, "]") = 0

\* What a receiver is to read of a Model: the device id of the receiver of a
\* reply, the default factory, and no body of spaces.
Meant(m) ==
  [factory  |-> IF Blank(m.factory) THEN <<"3", "G">> ELSE m.factory,
   deviceId |-> IF m.receiver = <<>> THEN m.deviceId ELSE m.receiver,
   type     |-> m.type,
   body     |-> IF Blank(m.body) THEN <<>> ELSE m.body]

\* Without the length: it is that of the type, and WatchMessageBody.proto says that
\* it is that of type and body.
Content(r) == [factory |-> r.factory, deviceId |-> r.deviceId, type |-> r.type, body |-> r.body]

ReadAsMeant(models, m) == Len(models) = 1 /\ Content(models[1]) = Meant(m)

\* Whatever pieces the stream arrives in and whatever noise is between the
\* messages: the messages come out as they were meant, in order, each once, but
\* for those whose frame is too long, and no message is lost because of another.
DecodedAsMeant ==
  /\ Len(got) <= Len(sent)
  /\ \A i \in DOMAIN got :
       IF sent[i].long THEN got[i] = <<>> ELSE ReadAsMeant(got[i], sent[i].model)

\* No message waits for a later one to push it out of the decoders: all that
\* has arrived has been decoded, or it waits behind a frame that was too long.
NothingHeldBack ==
  connected /\ wire = <<>> /\ (Resting \/ stalled) =>
    \/ Len(got) = Len(sent)
    \/ stalled /\ sent[Len(got)].long

\* What a decoder reads of a text.
Reads(text) == ReceiveAnalyticData(FilterData(text))

\* A frame with its delimiter is that of a message: too long, or read as meant.
TakenAs(frame, m) ==
  IF m.long THEN Len(frame) > MaxFrame + 1
            ELSE Len(frame) <= MaxFrame + 1 /\ ReadAsMeant(Reads(frame), m.model)

\* A text of whole frames, one for each message after the first k, and of noise
\* behind them: frame i ends at ends[i].
Frames(text, messages, k, behind) ==
  LET n == Len(messages) - k
  IN  \E ends \in [0 .. n -> {0} \cup {i \in 1 .. Len(text) : text[i] = "]"}] :
        /\ ends[0] = 0
        /\ \A i \in 0 .. n : \A j \in 0 .. n : i < j => ends[i] < ends[j]
        /\ \A i \in 1 .. n :
             /\ \A j \in ends[i - 1] + 1 .. ends[i] - 1 : text[j] # "]"
             /\ TakenAs(SubSeq(text, ends[i - 1] + 1, ends[i]), messages[k + i])
        /\ \A j \in ends[n] + 1 .. Len(text) : text[j] # "[" /\ text[j] # "]"
        /\ ends[n] + behind = Len(text)

\* Why it is so: wherever the pieces were cut, what was discarded of a frame,
\* what has arrived and what is on its way are together the frames of the
\* messages that are not decoded yet; and what is discarded is the beginning of
\* a frame that is too long.
FramesAwaited ==
  /\ DecodedAsMeant
  /\ Frames(discarded \o (part \o wire), sent, Len(got), ahead)
  /\ discarded # <<>> => Len(discarded) > MaxFrame /\ IndexOf(discarded, "]") = 0
  /\ stalled => Len(got) > 0 /\ sent[Len(got)].long

=============================================================================
