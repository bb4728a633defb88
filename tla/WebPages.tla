------------------------------ MODULE WebPages ------------------------------
(***************************************************************************)
(* Web pages and the WebSocket server: what somebody types into index.html *)
(* is written to a frame (MessageBody.js), read by the server              *)
(* (WatchMessageBodyProto), classified by the handler and MessageProxyImpl,*)
(* written again, and read and displayed by the pages that it is for.  The *)
(* handler keeps the last message of its page and sends it back as         *)
(* heartbeat request when nothing was written for a while.  A frame over    *)
(* the limit of the WebSocket decoder closes the connection, and its page  *)
(* leaves the session of its account.                                      *)
(*                                                                         *)
(* Frames are bytes here; how Session.write gets a message to several      *)
(* channels is Delivery's, and every other end of a connection, with its   *)
(* races, SessionManager's.                                                *)
(***************************************************************************)
EXTENDS MessageBodyJs, Integers

CONSTANTS
  Pages,     \* pages with an open socket
  DeviceId,  \* the device id in the form of each page
  Forms,     \* what is typed besides: message, receiver and body
  MaxSent,   \* bound on the messages that pages send
  MaxBeats,  \* bound on the heartbeat requests
  MaxFrame,  \* MAX_FRAME_LENGTH
  Savings,   \* bytes that the compression of WebSockets may save on a frame
  LK, UD, OFFLINE,  \* the texts of these message types
  Factory, Length,  \* the constant texts of a form
  Length7,   \* IntToHex(7), the length of OFFLINE
  Now        \* the text of the time

\* The texts of messages: sequences of UTF-16 code units whose bytes, at most
\* four a unit, can be counted in 31 bits.
Texts == {text \in Seq(0 .. 65535) : Len(text) <= 536870911}

\* The texts that have no half of a surrogate pair that is lost in writing.
Lossless == {text \in Texts : Received(text) = text}

ASSUME TextAssumption ==
  /\ {LK, UD, OFFLINE, Factory, Length, Length7, Now} \subseteq Lossless
  /\ \A form \in Forms : {form.message, form.receiver, form.body} \subseteq Texts

ASSUME BoundAssumption == MaxSent \in Nat /\ MaxBeats \in Nat /\ MaxFrame \in Nat /\ Savings \subseteq Int

\* A page keeps to one device id, which is not empty.
ASSUME DeviceIdAssumption == \A p \in Pages : DeviceId[p] \in Lossless /\ Len(DeviceId[p]) > 0

\* undefined is neither a text nor an object.
ASSUME NoneAssumption == None \notin Texts /\ None \notin [DOMAIN Names -> Texts]

Ids == {DeviceId[p] : p \in Pages}

VARIABLES
  link,      \* per page: its channel is open, closing (channelInactive is to come) or closed
  sessions,  \* per device id: the page that made its session and the others in it, or None
  toServer,  \* per page: frames on their way to the server, with their sizes and the numbers of the messages
  toPage,    \* per page: frames on their way to it, with the objects they are to be
  account,   \* the device id that the channel of a page is bound to, or None
  kept,      \* the builder that the handler of a page keeps, or None
  shown,     \* per page: what it displayed, with what it was to display
  beats,     \* heartbeat requests so far
  sent,      \* for the properties: what was sent, [page, form, size]
  accepted   \* for the properties: the last message of a page that its handler got, 0 for none

registry == <<link, sessions>>
vars == <<registry, toServer, toPage, account, kept, shown, beats, sent, accepted>>

Init ==
  /\ link = [p \in Pages |-> "open"]
  /\ sessions = [id \in Ids |-> None]
  /\ toServer = [p \in Pages |-> <<>>]
  /\ toPage = [p \in Pages |-> <<>>]
  /\ account = [p \in Pages |-> None]
  /\ kept = [p \in Pages |-> None]
  /\ shown = [p \in Pages |-> <<>>]
  /\ beats = 0
  /\ sent = <<>>
  /\ accepted = [p \in Pages |-> 0]

-----------------------------------------------------------------------------
(* index.html.                                                             *)

\* The object that send() makes of a form.
Content(p, form) ==
  [New EXCEPT ![NumberOf("factory")] = Factory, ![NumberOf("deviceid")] = DeviceId[p],
              ![NumberOf("length")] = Length, ![NumberOf("type")] = form.message,
              ![NumberOf("body")] = form.body, ![NumberOf("sender")] = DeviceId[p],
              ![NumberOf("receiver")] = form.receiver]

\* send(), on a socket that is open as far as the page knows.  The size is that
\* of the payload, which the browser may compress (WebSocketServerCompressionHandler).
Send(p) ==
  /\ Len(sent) < MaxSent
  /\ \E form \in Forms, saved \in Savings :
       LET frame == SerializeBinary(Content(p, form))
           size == Len(frame) - saved
       IN  /\ sent' = Append(sent, [page |-> p, form |-> form, size |-> size])
           /\ toServer' = [toServer EXCEPT ![p] =
                             Append(@, [frame |-> frame, size |-> size, nr |-> Len(sent) + 1])]
  /\ UNCHANGED <<registry, toPage, account, kept, shown, beats, accepted>>

\* The browser takes a frame.
PageTakes(p) == toPage[p] # <<>> /\ toPage' = [toPage EXCEPT ![p] = Tail(@)]

\* socket.onmessage.
OnMessage(p) ==
  /\ PageTakes(p)
  /\ LET next == Head(toPage[p])
     IN  shown' = [shown EXCEPT ![p] =
                     Append(@, [next EXCEPT !.frame = ToObject(DeserializeBinary(@))])]
  /\ UNCHANGED <<registry, toServer, account, kept, beats, sent, accepted>>

-----------------------------------------------------------------------------
(* The server's messages.  A model is the sequence of its nine texts.      *)

\* readStringRequireUtf8() refuses the three bytes of half a surrogate pair.
IsUtf8(bytes) == \A i \in 1 .. Len(bytes) - 1 : bytes[i] = 237 => bytes[i + 1] < 160

\* The model of a frame, None if it is refused.
ParseModel(frame) ==
  LET fields == ReadFields(frame)
  IN  IF \A k \in DOMAIN fields : IsUtf8(fields[k].value)
      THEN [i \in DOMAIN Names |-> IF HasField(fields, i) THEN DecodeString(LastField(fields, i).value)
                                  ELSE <<>>]
      ELSE None

\* The wire format of CodedOutputStream is that of jspb.BinaryWriter.
ToByteArray(model) ==
  FlattenSeq([i \in DOMAIN model |-> IF model[i] # <<>> THEN WriteString(i, model[i]) ELSE <<>>])

Field(model, name) == model[NumberOf(name)]

With(model, name, text) == [model EXCEPT ![NumberOf(name)] = text]

-----------------------------------------------------------------------------
(* The handler of a page, WatchWebSocketServerHandler.                     *)

OpenPages == {p \in Pages : link[p] = "open"}

Members(session) == IF session = None THEN {} ELSE {session.first} \cup session.others

\* The pages that are written to for id: Session.write on the open channels.
Reached(id) == IF id \in Ids THEN Members(sessions[id]) \cap OpenPages ELSE {}

\* The session of id after a login of p: createSession() for a page that is not
\* bound to id; another login is only answered.
WithPage(p, id) ==
  LET session == sessions[id]
  IN  IF account[p] = id THEN session
      ELSE IF session = None THEN [first |-> p, others |-> {}]
      ELSE [session EXCEPT !.others = @ \cup {p}]

\* convertToMessageWrapper() up to the type of the message: what is written.
\* The sender is stored in a message of another type than LK and UD.
Converted(p, model) ==
  IF Field(model, "type") \in {LK, UD} THEN With(model, "body", <<>>)
  ELSE With(With(model, "timestamp", Now), "sender", account[p])

\* Faulty: always the session of the device id, as it is before a login.
FaultyAddressees(p, model) ==
  IF Field(model, "type") # LK /\ account[p] = None THEN {} ELSE Reached(Field(model, "deviceid"))

\* Who it is written to, after a login.  Nothing is done with positions; a null
\* sender and a reply without a session of its own are exceptions; a page sets
\* no group.
Addressees(p, model) ==
  LET type == Field(model, "type")
      own == Field(model, "deviceid")
  IN  IF type = LK THEN Members(WithPage(p, own)) \cap OpenPages
      ELSE IF type = UD \/ account[p] = None THEN {}
      ELSE IF Field(model, "receiver") = <<>> THEN Reached(own)
      ELSE IF sessions[own] = None THEN {}
      ELSE Reached(Field(model, "receiver"))

\* The object that a page is to be shown for a message [page, form]: what was
\* typed, as far as it can be written, with what the server adds.
Due(message) ==
  LET p == message.page
      form == message.form
      type == Received(form.message)
      isState == type \in {LK, UD}
  IN  [factory |-> Factory, deviceid |-> DeviceId[p], length |-> Length, type |-> type,
       body |-> IF isState THEN <<>> ELSE Received(form.body),
       timestamp |-> IF isState THEN <<>> ELSE Now,
       sender |-> DeviceId[p], receiver |-> Received(form.receiver), groupid |-> <<>>]

\* The object of a heartbeat request: the one of a message, as a login without a body.
AsBeat(object) == [object EXCEPT !.type = LK, !.body = <<>>, !.timestamp = <<>>]

\* Faulty: keeps a message only after the login.
FaultyKeep(p, model) ==
  kept' = IF account[p] = None THEN kept ELSE [kept EXCEPT ![p] = model]

\* builder = message.toBuilder()
Keep(p, model) == kept' = [kept EXCEPT ![p] = model]

\* The loop of the channel takes a frame.
ServerTakes(p) == toServer[p] # <<>> /\ toServer' = [toServer EXCEPT ![p] = Tail(@)]

\* One within the limit gets through the decoder of WebSocket frames.
ServerReads(p) == link[p] = "open" /\ Head(toServer[p]).size <= MaxFrame

\* The decoder closes the connection over a frame that is too long.
Overflow(p) ==
  /\ ServerTakes(p)
  /\ link[p] = "open" /\ ~ServerReads(p)
  /\ link' = [link EXCEPT ![p] = "closing"]
  /\ UNCHANGED <<sessions, toPage, account, kept, shown, beats, sent, accepted>>

\* Nobody reads what comes after it.
Ignore(p) ==
  /\ ServerTakes(p)
  /\ link[p] # "open"
  /\ UNCHANGED <<registry, toPage, account, kept, shown, beats, sent, accepted>>

\* The frame is refused in the pipeline; the connection stays.
Refuse(p) ==
  /\ ServerTakes(p) /\ ServerReads(p)
  /\ ParseModel(Head(toServer[p]).frame) = None
  /\ UNCHANGED <<registry, toPage, account, kept, shown, beats, sent, accepted>>

\* channelRead0().
ChannelRead(p) ==
  /\ ServerTakes(p) /\ ServerReads(p)
  /\ LET nr == Head(toServer[p]).nr
         model == ParseModel(Head(toServer[p]).frame)
         own == Field(model, "deviceid")
         login == Field(model, "type") = LK
     IN  /\ model # None
         /\ Keep(p, model)
         /\ account' = IF login THEN [account EXCEPT ![p] = own] ELSE account
         /\ sessions' = IF login THEN [sessions EXCEPT ![own] = WithPage(p, own)] ELSE sessions
         /\ toPage' = [q \in Pages |->
                         IF q \in Addressees(p, model)
                         THEN Append(toPage[q], [frame |-> ToByteArray(Converted(p, model)),
                                                 due |-> Due(sent[nr]), nr |-> nr])
                         ELSE toPage[q]]
         /\ accepted' = [accepted EXCEPT ![p] = nr]
  /\ UNCHANGED <<link, shown, beats, sent>>

\* Faulty: the id and the type the other way round.
FaultyOffLine(id) == <<Factory, OFFLINE, Length7, id, <<>>, Now, <<>>, <<>>, <<>> >>

\* getOffLineStateMsg(), by generateTemplate().
OffLine(id) == <<Factory, id, Length7, OFFLINE, <<>>, Now, <<>>, <<>>, <<>> >>

\* The object that all are to be shown when the session of id is dropped.
Absence(id) ==
  [factory |-> Factory, deviceid |-> id, length |-> Length7, type |-> OFFLINE, body |-> <<>>,
   timestamp |-> Now, sender |-> <<>>, receiver |-> <<>>, groupid |-> <<>>]

\* channelInactive(): the page leaves its session, which is dropped when nobody
\* is in its table any more, and WatchChannelGroup.broadcast tells the pages
\* that are bound.  For a page that is not in the session of its account
\* nothing is done (close(nid) ends in an exception that removeSession drops).
ChannelInactive(p) ==
  /\ link[p] = "closing"
  /\ link' = [link EXCEPT ![p] = "closed"]
  /\ IF account[p] # None /\ p \in Members(sessions[account[p]])
     THEN LET id == account[p]
              others == sessions[id].others \ {p}
          IN  /\ sessions' = [sessions EXCEPT ![id] = IF others = {} THEN None ELSE [@ EXCEPT !.others = others]]
              /\ toPage' = [q \in Pages |->
                              IF others = {} /\ q \in OpenPages /\ account[q] # None
                              THEN Append(toPage[q], [frame |-> ToByteArray(OffLine(id)),
                                                      due |-> Absence(id), nr |-> 0])
                              ELSE toPage[q]]
     ELSE UNCHANGED <<sessions, toPage>>
  /\ UNCHANGED <<toServer, account, kept, shown, beats, sent, accepted>>

\* Faulty: the heartbeat request still has the body.
FaultyBeat(model) == With(model, "type", LK)

Beat(model) == With(With(model, "body", <<>>), "type", LK)

\* userEventTriggered(), WRITER_IDLE: the kept message without its body, as LK.
WriterIdle(p) ==
  /\ beats < MaxBeats
  /\ link[p] = "open" /\ account[p] # None
  /\ kept' = [kept EXCEPT ![p] = Beat(@)]
  /\ toPage' = [toPage EXCEPT ![p] =
                  Append(@, [frame |-> ToByteArray(kept'[p]), due |-> AsBeat(Due(sent[accepted[p]])), nr |-> 0])]
  /\ beats' = beats + 1
  /\ UNCHANGED <<registry, toServer, account, shown, sent, accepted>>

\* No page sends any more, and all is read.
Quiet ==
  /\ Len(sent) = MaxSent
  /\ \A p \in Pages : toServer[p] = <<>> /\ toPage[p] = <<>> /\ link[p] # "closing"
  /\ UNCHANGED vars

Next ==
  \/ \E p \in Pages :
       \/ Send(p) \/ OnMessage(p)
       \/ Overflow(p) \/ Ignore(p) \/ Refuse(p) \/ ChannelRead(p)
       \/ ChannelInactive(p) \/ WriterIdle(p)
  \/ Quiet

Spec == Init /\ [][Next]_vars

\* What has been sent is read, by the server's loops and by the browsers.
Fairness == \A p \in Pages : WF_toServer(ServerTakes(p)) /\ WF_toPage(PageTakes(p))

FairSpec == Spec /\ Fairness

-----------------------------------------------------------------------------
(* Properties.                                                             *)

\* The values of the variables; a page that has logged in has a message to be
\* sent back as heartbeat request, and those in a session are bound to its id.
TypeOK ==
  /\ \A p \in Pages :
       /\ link[p] \in {"open", "closing", "closed"}
       /\ account[p] \in {None, DeviceId[p]}
       /\ account[p] # None => kept[p] # None
       /\ \A i \in DOMAIN toServer[p] : toServer[p][i].nr \in DOMAIN sent
  /\ \A id \in Ids : \A p \in Members(sessions[id]) : p \in Pages /\ account[p] = id
  /\ beats \in 0 .. MaxBeats
  /\ Len(sent) <= MaxSent

\* Whatever was typed, a page displays it as it was typed, through two writers
\* and two readers: a reply to its receiver with the sender's id and the time,
\* a login without a body, and a heartbeat request that is the page's own last
\* message and nobody else's (index.html, channelRead0, userEventTriggered).
ShownAsTyped ==
  \A p \in Pages : \A i \in DOMAIN shown[p] : shown[p][i].frame = shown[p][i].due

\* An object is for the pages of its receiver, or those of its device id if it
\* has no receiver or is a login; that an account is gone is for everybody.
IsFor(p, object) ==
  \/ DeviceId[p] = IF object.type = LK \/ object.receiver = <<>> THEN object.deviceid ELSE object.receiver
  \/ \E id \in Ids : object = Absence(id)

\* Only the pages that a message is for are shown it (receiveMessages).
ShownToReceiver ==
  \A p \in Pages : \A i \in DOMAIN shown[p] : IsFor(p, shown[p][i].frame)

\* The object of a model.
ObjectOf(model) == [name \in Range(Names) |-> Field(model, name)]

\* What is on its way to the server is what its page has sent.
ToServerInv ==
  \A p \in Pages : \A i \in DOMAIN toServer[p] :
    LET next == toServer[p][i]
    IN  /\ next.nr \in DOMAIN sent /\ sent[next.nr].page = p
        /\ next.frame = SerializeBinary(Content(p, sent[next.nr].form))

\* What is on its way to a page will be read as what it is to be, and is for it.
ToPageInv ==
  \A p \in Pages : \A i \in DOMAIN toPage[p] :
    LET next == toPage[p][i]
    IN  ToObject(DeserializeBinary(next.frame)) = next.due /\ IsFor(p, next.due)

\* Who has logged in has sent something, and what its handler keeps of it makes a
\* heartbeat request of its own.
KeptInv ==
  \A p \in Pages :
    /\ account[p] # None => accepted[p] # 0
    /\ accepted[p] # 0 =>
         /\ accepted[p] \in DOMAIN sent /\ sent[accepted[p]].page = p
         /\ ObjectOf(Beat(kept[p])) = AsBeat(Due(sent[accepted[p]]))

\* Why pages display what was typed, and only those it is for: whatever is on its
\* way is right, and so is the message that a handler keeps (channelRead0).
PagesInv == ToServerInv /\ ToPageInv /\ KeptInv

\* What the writer leaves of a text has no half of a surrogate pair alone.
WellFormed(text) ==
  LET left == Received(text)
  IN  \A i \in DOMAIN left :
        /\ IsLow(left[i]) => i > 1 /\ IsHigh(left[i - 1])
        /\ IsHigh(left[i]) => i < Len(left)

\* A page of the account of p was closed, and with it perhaps its session.
AccountLeft(p) == \E q \in Pages : DeviceId[q] = DeviceId[p] /\ link[q] = "closed"

\* The page of message nr logged in before.
LoggedInBefore(nr) == \E k \in 1 .. nr - 1 : sent[k].page = sent[nr].page /\ sent[k].form.message = LK

\* A login is answered if its texts are well formed and neither it nor what its
\* page sent before is over the limit: no frame is lost between the writers and
\* readers, which nobody would see.  But for a page that logs in again when a
\* page of its account was closed: its session may have gone with that page.
LoginsAnswered ==
  \A nr \in 1 .. MaxSent :
    ( /\ nr \in DOMAIN sent /\ sent[nr].form.message = LK /\ WellFormed(sent[nr].form.body)
      /\ \A k \in 1 .. nr : sent[k].page = sent[nr].page => sent[k].size <= MaxFrame )
      ~> ( /\ nr \in DOMAIN sent
           /\ \/ \E i \in DOMAIN shown[sent[nr].page] : shown[sent[nr].page][i].nr = nr
              \/ LoggedInBefore(nr) /\ AccountLeft(sent[nr].page) )

=============================================================================
