---------------------------- MODULE MCWatchCodec ----------------------------
(* An instance of WatchCodec for TLC.                                      *)
EXTENDS WatchCodec

Alphabet ==
  {HexDigits[i] : i \in DOMAIN HexDigits} \cup {"[", "]", "*", ",", " ", "G"}
    \cup {"a", "b", "c", "f", "x", "z", "L", "K", "U", "T", "O"}

Message(factory, deviceId, receiver, type, body) ==
  [factory |-> factory, deviceId |-> deviceId, receiver |-> receiver, type |-> type, body |-> body]

\* A login with a body that holds the characters of the protocol except the
\* closing bracket, a position without a body, a reply, and a message without
\* a device id, which is not sent.
SomeMessages ==
  { Message(<<"3", "G">>, <<"a">>, <<>>, <<"L", "K">>, <<"0", ",", "[", "*">>),
    Message(<<" ">>, <<"b">>, <<>>, <<"U">>, <<" ">>),
    Message(<<"f">>, <<"b">>, <<"c">>, <<"T">>, <<"z">>),
    Message(<<>>, <<>>, <<>>, <<"T">>, <<"z">>) }

\* The heartbeat and the offline message.
SomeTemplates ==
  { [deviceId |-> <<"a">>, type |-> <<"L", "K">>, body |-> <<>>],
    [deviceId |-> <<"a">>, type |-> <<"O">>, body |-> <<"1">>] }

SomeNoises == { <<"x">>, <<" ", ",", "*">> }

=============================================================================
