------------------------------- MODULE Base64 --------------------------------
(***************************************************************************)
(* tuple/base64.h.  A byte and a character are a number below 256.  Both   *)
(* overloads of Encode and Decode are modelled by one operator: the one    *)
(* for std::string makes the room it needs, the other is given some.       *)
(***************************************************************************)
EXTENDS Integers, Sequences

Byte == 0..255

Pad == 61   \* '='

kBase64Alphabet == [v \in 0..63 |->
  CASE v \in 0..25  -> v + 65    \* A to Z
    [] v \in 26..51 -> v + 71    \* a to z
    [] v \in 52..61 -> v - 4     \* 0 to 9
    [] v = 62       -> 43        \* +
    [] v = 63       -> 47]       \* /

b64_lookup(c) ==
  CASE c \in 65..90  -> c - 65
    [] c \in 97..122 -> c - 71
    [] c \in 48..57  -> c + 4
    [] c = 43        -> 62
    [] c = 47        -> 63
    [] OTHER         -> 255

LowBitsLost(a3) ==   \* mutant of a3_to_a4: the low bits of the second byte are masked out
  <<a3[1] \div 4,
    (a3[1] % 4) * 16 + a3[2] \div 16,
    ((a3[2] % 8) * 4) + a3[3] \div 64,
    a3[3] % 64>>
a3_to_a4(a3) ==
  <<a3[1] \div 4,
    (a3[1] % 4) * 16 + a3[2] \div 16,
    (a3[2] % 16) * 4 + a3[3] \div 64,
    a3[3] % 64>>

a4_to_a3(a4) ==
  <<(a4[1] * 4 + ((a4[2] \div 16) % 4)) % 256,
    ((a4[2] % 16) * 16 + ((a4[3] \div 4) % 16)) % 256,
    ((a4[3] % 4) * 64 + a4[4]) % 256>>

EncodedLength(length) == ((length + 2 - ((length + 2) % 3)) \div 3) * 4

(* The group-th block of size elements, filled up with zeros. *)
Block(s, size, group) ==
  [j \in 1..size |-> LET p == group * size + j IN IF p <= Len(s) THEN s[p] ELSE 0]

Refused == [ok |-> FALSE, text |-> <<>>]

(* Each block of three makes four characters; of a last block of i < 3     *)
(* the first i + 1 are written and padding after them.                     *)
Encode(in, out_length) ==
  LET i       == Len(in) % 3
      written == 4 * (Len(in) \div 3) + (IF i = 0 THEN 0 ELSE 4)
      padding == IF i = 0 THEN 0 ELSE 3 - i
      Char(p) == kBase64Alphabet[a3_to_a4(Block(in, 3, (p - 1) \div 4))[((p - 1) % 4) + 1]]
  IN  IF out_length < EncodedLength(Len(in)) THEN Refused
      ELSE [ok   |-> written = EncodedLength(Len(in)),
            text |-> [p \in 1..written |-> IF p <= written - padding THEN Char(p) ELSE Pad]]

(* How many characters the loop of Decode takes: it stops at a '='.        *)
Symbols(in) == CHOOSE k \in 0..Len(in) : /\ \A j \in 1..k : in[j] # Pad
                                         /\ k < Len(in) => in[k + 1] = Pad

(* The '=' at the end.  If there is nothing else the loop runs on before   *)
(* the text, where it finds any number of them.                            *)
Trailing(in, before) ==
  LET k == CHOOSE k \in 0..Len(in) : /\ \A j \in (Len(in) - k + 1)..Len(in) : in[j] = Pad
                                     /\ k < Len(in) => in[Len(in) - k] # Pad
  IN  IF k = Len(in) THEN k + before ELSE k

PaddingIncluded(in, before) == (6 * Len(in)) \div 8   \* mutant of DecodedLength: the padding is not subtracted
DecodedLength(in, before) == (6 * Len(in)) \div 8 - Trailing(in, before)

(* Each block of four characters makes three bytes, a last block of i < 4  *)
(* makes i - 1.  The absent characters of that are looked up too.  A       *)
(* negative length is a huge one when it is unsigned, which is refused or  *)
(* throws.                                                                 *)
Decode(in, out_length, before) ==
  LET n       == Symbols(in)
      i       == n % 4
      written == 3 * (n \div 4) + (IF i = 0 THEN 0 ELSE i - 1)
      Group(g) == [j \in 1..4 |-> b64_lookup(Block(SubSeq(in, 1, n), 4, g)[j])]
  IN  IF DecodedLength(in, before) < 0 \/ out_length < DecodedLength(in, before) THEN Refused
      ELSE [ok   |-> written = DecodedLength(in, before),
            text |-> [p \in 1..written |-> a4_to_a3(Group((p - 1) \div 3))[((p - 1) % 3) + 1]]]

StripPadding(in) == SubSeq(in, 1, Len(in) - Trailing(in, 0))

------------------------------------------------------------------------------

(* Text that is not empty comes back from its encoding, padded or          *)
(* stripped, given just the room that EncodedLength and DecodedLength ask  *)
(* for, whatever stands in memory before it.                               *)
RoundTrip(in, before) ==
  LET encoded == Encode(in, EncodedLength(Len(in)))
      Decoded(text) == Decode(text, DecodedLength(text, before), before)
  IN  /\ encoded.ok
      /\ \A text \in {encoded.text, StripPadding(encoded.text)} :
           Decoded(text) = [ok |-> TRUE, text |-> in]

(* Decode writes as many bytes as DecodedLength made room for, in any      *)
(* characters but '=', followed by nothing or by the '=' that complete the *)
(* last group, and says so.                                                *)
FillsTheRoom(symbols, before) ==
  \A pads \in {0, 3 - ((Len(symbols) - 1) % 4)} :
    LET text == symbols \o [j \in 1..pads |-> Pad]
    IN  Decode(text, DecodedLength(text, before), before).ok
==============================================================================
