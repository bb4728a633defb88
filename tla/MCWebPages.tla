----------------------------- MODULE MCWebPages -----------------------------
(* An instance of WebPages for TLC: two pages of one account, one of another. *)
EXTENDS WebPages

Windows == {1, 2, 3}
IdOf == [p \in Windows |-> IF p = 3 THEN <<98>> ELSE <<97>>]

TextLK == <<76, 75>>
TextUD == <<85, 68>>
TextTK == <<84, 75>>
TextOFFLINE == <<79, 70, 70, 76, 73, 78, 69>>
Text3G == <<51, 71>>
Text0009 == <<48, 48, 48, 57>>
Text0007 == <<48, 48, 48, 55>>
TextNow == <<50, 48>>

Typed(message, receiver, body) == [message |-> message, receiver |-> receiver, body |-> body]

\* A login with a body, one with half a pair, which the server refuses, and one
\* with a body that makes a frame of 160 bytes; a position; a reply with a pair in
\* a text whose length takes two bytes, a frame of 159; a message without a
\* receiver, with half a pair that the writer drops.
Sampled ==
  { Typed(TextLK, <<98>>, <<108>>), Typed(TextLK, <<>>, <<56832>>),
    Typed(TextLK, <<>>, [i \in 1 .. 137 |-> 108]), Typed(TextUD, <<>>, <<117>>),
    Typed(TextTK, <<98>>, <<55357, 56832>> \o [i \in 1 .. 43 |-> 8364]),
    Typed(TextTK, <<>>, <<55357, 233>>) }

\* Without compression.
Uncompressed == {0}

=============================================================================
