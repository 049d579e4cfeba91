----------------------------- MODULE Conversions -----------------------------
(***************************************************************************)
(* The conversions of tuple/base64.h, util/number.cc, util/substitute.cc   *)
(* and prometheus/check_names.cc keep nothing between calls: a behaviour   *)
(* is one call with an input out of a set, and each property is about one  *)
(* kind of call.                                                           *)
(***************************************************************************)
EXTENDS Base64, Numbers, CheckNames, Substitution

CONSTANTS Texts,       \* byte strings to encode
          Symbols64,   \* characters to decode, without '='
          Befores,     \* how many '=' stand in memory before the characters
          Numbers32,   \* uint32_t and the magnitudes of int32_t
          NameInputs,  \* names to check
          Formats, ArgumentLists,   \* formats of any kind, and the ten arguments
          TokenLists, ValueLists    \* formats as they are meant, and the values they are for

UINT32_MAX == [hi |-> 42, lo |-> 94967295]

UInt32(u) == /\ u.hi \in Nat /\ u.lo \in Nat /\ u.lo < Split
             /\ u.hi < UINT32_MAX.hi \/ (u.hi = UINT32_MAX.hi /\ u.lo <= UINT32_MAX.lo)

ASSUME InputsAssumption ==
  /\ Texts \subseteq Seq(Byte) \ {<<>>}
  /\ Symbols64 \subseteq Seq(Byte \ {Pad}) \ {<<>>}
  /\ Befores \subseteq Nat
  /\ \A u \in Numbers32 : UInt32(u)
  /\ NameInputs \subseteq Seq(STRING)

(* What an argument is made from: an address has up to eight digits.       *)
ArgumentValue(v) ==
  \/ v \in [type : {"text"}, text : Seq(STRING)]
  \/ v \in [type : {"null"}]
  \/ v \in [type : {"char"}, char : STRING]
  \/ /\ v \in [type : {"int", "uint"}, negative : BOOLEAN, magnitude : [hi : Nat, lo : Nat]]
     /\ UInt32(v.magnitude)
     /\ v.type = "uint" => ~v.negative
  \/ v \in [type : {"pointer"}, address : Nat] /\ v.address \div Unit16[8] < 16

Token == ({"literal"} \X STRING) \cup ({"argument"} \X (0..9))

ASSUME FormatsAssumption ==
  /\ Formats \subseteq Seq(STRING)
  /\ ArgumentLists \subseteq [0..9 -> Seq(STRING) \cup {NoArg}]
  /\ TokenLists \subseteq Seq(Token)
  /\ \A values \in ValueLists : DOMAIN values \subseteq 0..9 /\ \A k \in DOMAIN values : ArgumentValue(values[k])

(* The digits are neither letters nor the other characters of a name. *)
ASSUME CharactersAssumption == NumberSigns \cap (Letters \cup {"_", ":"}) = {}

VARIABLE call   \* what is called, and with what

Is(what) == call[1] = what

------------------------------------------------------------------------------

(* What base64.h encodes it decodes again, padded or not, and of any       *)
(* characters it decodes as many bytes as it asked room for.               *)
RoundTrips == /\ Is("encode") => RoundTrip(call[2], call[3])
              /\ Is("decode") => FillsTheRoom(call[2], call[3])

(* FastUInt32ToBufferLeft and FastInt32ToBufferLeft write a number in      *)
(* decimal notation, over the whole range of 32 bits.                      *)
WrittenInDecimal == Is("number") => IsDecimal(call[2])

(* The checks accept what the patterns in their comments do, but for names *)
(* that begin with two underscores.                                        *)
NamesChecked == Is("name") => PatternsButReserved(call[2])

(* The second pass of Substitute fills exactly the room that the first one *)
(* computed, whatever the format; and a format that is written by its      *)
(* rules stands for what it is meant to, an error for an argument that is  *)
(* not passed on.                                                          *)
SubstituteMeansIt == /\ Is("format") => PassesAgree(call[2], call[3])
                     /\ Is("tokens") => MeansWhatItSays(call[2], call[3])

------------------------------------------------------------------------------

ConvInit == call = <<"nothing">>

Encoding == \E in \in Texts, before \in Befores : call' = <<"encode", in, before>>
Decoding == \E in \in Symbols64, before \in Befores : call' = <<"decode", in, before>>
Numbering == \E u \in Numbers32 : call' = <<"number", u>>
Checking == \E name \in NameInputs : call' = <<"name", name>>
Scanning == \E format \in Formats, args \in ArgumentLists : call' = <<"format", format, args>>
Substituting == \E tokens \in TokenLists, values \in ValueLists : call' = <<"tokens", tokens, values>>

(* One call, and then nothing. *)
ConvNext == Is("nothing") /\ (Encoding \/ Decoding \/ Numbering \/ Checking \/ Scanning \/ Substituting)

ConvSpec == ConvInit /\ [][ConvNext]_call
==============================================================================
