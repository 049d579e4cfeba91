----------------------------- MODULE Substitution ----------------------------
(***************************************************************************)
(* util/substitute.cc and .h.  A text is a sequence of characters.  The    *)
(* arguments are a function of 0..9 to texts or NoArg: a text stands for a *)
(* SubstituteArg with its data and size, NoArg for kNoArg, of size -1.     *)
(* The messages about wrong formats are left out.                          *)
(***************************************************************************)
EXTENDS Numbers, SequencesExt

CONSTANTS NoArg,
          Dollar, Digits,   \* characters; Digits is the sequence of "0" to "9"
          LengthError,      \* resize throws std::length_error
          Corrupted         \* the output lost its last character and the rest is written behind its end

OwnCharacters == {"-", "0", "x", "N", "U", "L", "a", "b", "c", "d", "e", "f"}

(* Characters are strings; the prover does not know it of literals.       *)
ASSUME SubstitutionAssumption ==
  /\ Digits \in Seq(STRING) /\ Len(Digits) = 10
  /\ \A i, j \in 1..10 : Digits[i] = Digits[j] => i = j
  /\ Dollar \in STRING /\ \A i \in 1..10 : Digits[i] # Dollar
  /\ NoArg \notin Seq(STRING)
  /\ OwnCharacters \subseteq STRING

kHexDigits == Digits \o <<"a", "b", "c", "d", "e", "f">>

Characters(digits) == [p \in 1..Len(digits) |-> IF digits[p] = Minus THEN "-" ELSE Digits[digits[p] + 1]]

(* The digits from the last to the first, until nothing is left.           *)
HexText(num) ==
  LET Hex[n \in 0..num] == (IF n \div 16 = 0 THEN <<>> ELSE Hex[n \div 16]) \o <<kHexDigits[(n % 16) + 1]>>
  IN  Hex[num]

(* The text that each constructor of SubstituteArg makes of its value.     *)
SubstituteArg(value) ==
  CASE value.type = "text"    -> value.text
    [] value.type = "null"    -> <<>>
    [] value.type = "char"    -> <<value.char>>
    [] value.type = "int"     -> Characters(FastInt32ToBufferLeft(value.negative, value.magnitude))
    [] value.type = "uint"    -> Characters(FastUInt32ToBufferLeft(value.magnitude))
    [] value.type = "pointer" -> IF value.address = 0 THEN <<"N", "U", "L", "L">>
                                 ELSE <<"0", "x">> \o HexText(value.address)

Number(c) == CHOOSE k \in 0..9 : Digits[k + 1] = c

(* What stands at position i of a format: another character than the sign, *)
(* the sign at the end, or the sign and what follows it.                   *)
Literal(format, i) == format[i] # Dollar

Followed(format, i) == format[i] = Dollar /\ i < Len(format)

Reference(format, i) == Followed(format, i) /\ \E k \in 1..10 : format[i + 1] = Digits[k]

Escape(format, i) == Followed(format, i) /\ format[i + 1] = Dollar

Stray(format, i) == Followed(format, i) /\ ~Reference(format, i) /\ ~Escape(format, i)

Plus(n, size) == IF size = -1 THEN -1 ELSE n + size

(* The first pass, which adds up what the second will write.               *)
SubstitutedSize(format, args) ==
  LET Arg(i) == args[Number(format[i + 1])]
      Size[i \in 1..(Len(format) + 1)] ==
        CASE i > Len(format) -> 0
          [] i <= Len(format) /\ Reference(format, i) ->
               IF Arg(i) = NoArg THEN -1 ELSE Plus(Len(Arg(i)), Size[i + 2])
          [] i <= Len(format) /\ Escape(format, i) -> Plus(1, Size[i + 2])
          [] i <= Len(format) /\ Stray(format, i) -> Size[i + 1]
          [] i = Len(format) /\ ~Literal(format, i) -> -1
          [] OTHER -> Plus(1, Size[i + 1])
  IN  Size[1]

SignKept(format, i) == <<format[i]>>   \* mutant of OfStray: it is copied
OfStray(format, i) == <<>>

OneStep(format, i) == i + 1   \* mutant of AfterEscape: the second sign is read again
AfterEscape(format, i) == i + 2

(* The second pass.  At the end it reads the '\0' there and skips the sign. *)
SubstituteToBuffer(format, args) ==
  LET Rest[i \in 1..(Len(format) + 1)] ==
        CASE i > Len(format) -> <<>>
          [] i <= Len(format) /\ Reference(format, i) -> args[Number(format[i + 1])] \o Rest[i + 2]
          [] i <= Len(format) /\ Escape(format, i) -> <<Dollar>> \o Rest[AfterEscape(format, i)]
          [] i <= Len(format) /\ Stray(format, i) -> OfStray(format, i) \o Rest[i + 1]
          [] i = Len(format) /\ ~Literal(format, i) -> <<>>
          [] OTHER -> <<format[i]>> \o Rest[i + 1]
  IN  Rest[1]

(* Only a size of 0 makes it return at once; -1 goes to resize.            *)
SubstituteAndAppend(output, format, args) ==
  LET size == SubstitutedSize(format, args)
  IN  CASE size = -1 /\ output = <<>> -> LengthError
        [] size = -1 /\ output # <<>> -> Corrupted
        [] size >= 0 -> output \o SubstituteToBuffer(format, args)

AllPassed(args) == args   \* mutant of Passed: all ten arguments go on
Passed(args) == [k \in 0..9 |-> IF k < 4 THEN args[k] ELSE NoArg]

Substitute(format, args) == SubstituteAndAppend(<<>>, format, Passed(args))

------------------------------------------------------------------------------

(* The two passes agree: what the second writes fills exactly the room     *)
(* that the first asked for, in any format the first does not reject.      *)
PassesAgree(format, args) ==
  LET size == SubstitutedSize(format, args)
  IN  size # -1 => Len(SubstituteToBuffer(format, args)) = size

(* A format as its author means it: literal characters and arguments.      *)
AsWritten(token) == CASE token[1] = "argument" -> <<Dollar, Digits[token[2] + 1]>>
                  [] token[1] = "literal" /\ token[2] = Dollar -> <<Dollar, Dollar>>
                  [] token[1] = "literal" /\ token[2] # Dollar -> <<token[2]>>

Format(tokens) == FlattenSeq([i \in 1..Len(tokens) |-> AsWritten(tokens[i])])

(* What a value looks like in the text, digit by digit.                    *)
Unit16 == <<1, 16, 256, 4096, 65536, 1048576, 16777216, 268435456>>   \* bound: addresses of eight digits

HexNotation(num) ==
  LET digit == [place \in 1..8 |-> (num \div Unit16[place]) % 16]
      n == CHOOSE n \in 1..8 : digit[n] # 0 /\ \A place \in (n + 1)..8 : digit[place] = 0
  IN  [p \in 1..n |-> kHexDigits[digit[n + 1 - p] + 1]]

Notation(value) ==
  CASE value.type \in {"text", "null", "char"} -> SubstituteArg(value)
    [] value.type \in {"int", "uint"} ->
         (IF value.negative THEN <<"-">> ELSE <<>>) \o Characters(Decimal(value.magnitude))
    [] value.type = "pointer" -> IF value.address = 0 THEN <<"N", "U", "L", "L">>
                                 ELSE <<"0", "x">> \o HexNotation(value.address)

Meaning(tokens, values) ==
  FlattenSeq([i \in 1..Len(tokens) |->
    IF tokens[i][1] = "argument" THEN Notation(values[tokens[i][2]]) ELSE <<tokens[i][2]>>])

Uses(tokens) == {tokens[i][2] : i \in {j \in 1..Len(tokens) : tokens[j][1] = "argument"}}

(* SubstituteAndAppend appends what the format means when every argument   *)
(* in it is given.  Substitute returns that only for the first four        *)
(* arguments: it accepts ten, does not pass on the others, and throws when *)
(* the format uses one of them.                                            *)
MeansWhatItSays(tokens, values) ==
  LET args == [k \in 0..9 |-> IF k \in DOMAIN values THEN SubstituteArg(values[k]) ELSE NoArg]
  IN  /\ Uses(tokens) \subseteq DOMAIN values =>
           \A output \in {<<>>, <<Dollar>>} :
             SubstituteAndAppend(output, Format(tokens), args) = output \o Meaning(tokens, values)
      /\ Substitute(Format(tokens), args) =
           IF Uses(tokens) \subseteq (0..3) \cap DOMAIN values THEN Meaning(tokens, values) ELSE LengthError
==============================================================================
