--------------------------- MODULE MCPageObjects ---------------------------
(* An instance of PageObjects for TLC.                                     *)
EXTENDS PageObjects

Letters(n) == [i \in 1 .. n |-> 97]

\* Nothing; the last and the first characters of one, two and three bytes; a
\* pair, and halves of pairs in each place; a text whose length takes two bytes.
Sampled ==
  { None, <<>>, <<127>>, <<128, 2047>>, <<2048, 65535>>, <<55357, 56832, 97>>,
    <<55357, 55357, 56832>>, <<56832, 55357>>, Letters(128) }

\* 2^31 - 1 is the greatest number TLC has.
SampledNumbers == {None, 0, 127, 128, 2147483647}

\* Bytes and base64 texts of each padding, one of them without it.
SampledContents ==
  { Msg!Bytes(<<>>), Msg!Bytes(<<0, 200>>), Msg!Bytes(<<1, 2, 255>>),
    Msg!Base64(<<63, 48, 64, 64>>), Msg!Base64(<<0, 12, 32>>), Msg!Base64(<<1, 2, 3, 4>>) }

\* A field of each wire type, among them a number of two bytes and a field whose
\* number takes two.
Newer ==
  { [number |-> 12, wireType |-> Msg!VARINT, value |-> <<172, 2>>],
    [number |-> 12, wireType |-> Msg!FIXED64, value |-> <<1, 2, 3, 4, 10, 2, 120, 120>>],
    [number |-> 16, wireType |-> Msg!DELIMITED, value |-> <<10, 1, 97>>],
    [number |-> 12, wireType |-> Msg!FIXED32, value |-> <<10, 2, 120, 120>>] }

=============================================================================
