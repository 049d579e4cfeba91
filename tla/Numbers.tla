------------------------------- MODULE Numbers -------------------------------
(***************************************************************************)
(* util/number.cc.  A uint32_t u is the record of u \div 10^8 and          *)
(* u % 10^8; an int32_t is one with a sign.  A text is the sequence of its *)
(* digits; the sign is a digit that no number has.  What the function      *)
(* prints on the way is left out.                                          *)
(***************************************************************************)
EXTENDS Integers, Sequences

Split == 100000000   \* 10^8

Minus == 10

two_ASCII_digits(n) == <<n \div 10, n % 10>>

(* What is written from each label of the function on.  At those that      *)
(* begin with sub, digits are written already and are taken off.           *)
lt100(u) == two_ASCII_digits(u)

sublt100(u, digits) == lt100(u - digits * 100)

lt10_000(u) == two_ASCII_digits(u \div 100) \o sublt100(u, u \div 100)

sublt10_000(u, digits) == lt10_000(u - digits * 10000)

lt1_000_000(u) == two_ASCII_digits(u \div 10000) \o sublt10_000(u, u \div 10000)

sublt1_000_000(u, digits) == lt1_000_000(u - digits * 1000000)

lt100_000_000(u) == two_ASCII_digits(u \div 1000000) \o sublt1_000_000(u, u \div 1000000)

(* The branches of numbers up to 100, 10,000 and so on: a single digit     *)
(* first if their number is odd.                                           *)
Below100(u) == IF u >= 10 THEN lt100(u) ELSE <<u>>

OnlyAbove(u) ==   \* mutant of Below10_000: 1,000 is taken for a number of three digits
  IF u > 1000 THEN lt10_000(u) ELSE <<u \div 100>> \o sublt100(u, u \div 100)
Below10_000(u) ==
  IF u >= 1000 THEN lt10_000(u) ELSE <<u \div 100>> \o sublt100(u, u \div 100)

Below1_000_000(u) ==
  IF u >= 100000 THEN lt1_000_000(u) ELSE <<u \div 10000>> \o sublt10_000(u, u \div 10000)

Below100_000_000(u) ==
  IF u >= 10000000 THEN lt100_000_000(u) ELSE <<u \div 1000000>> \o sublt1_000_000(u, u \div 1000000)

FastUInt32ToBufferLeft(u) ==
  CASE u.hi >= 10 -> two_ASCII_digits(u.hi) \o lt100_000_000(u.lo)
    [] u.hi \in 1..9 -> <<u.hi>> \o lt100_000_000(u.lo)
    [] u.hi = 0 /\ u.lo < 100 -> Below100(u.lo)
    [] u.hi = 0 /\ u.lo >= 100 /\ u.lo < 10000 -> Below10_000(u.lo)
    [] u.hi = 0 /\ u.lo >= 10000 /\ u.lo < 1000000 -> Below1_000_000(u.lo)
    [] u.hi = 0 /\ u.lo >= 1000000 -> Below100_000_000(u.lo)

(* The negation of the least int32_t overflows and wraps around, to the    *)
(* same bits: as a uint32_t that is its magnitude.                         *)
FastInt32ToBufferLeft(negative, magnitude) ==
  (IF negative THEN <<Minus>> ELSE <<>>) \o FastUInt32ToBufferLeft(magnitude)

------------------------------------------------------------------------------

Unit == <<1, 10, 100, 1000, 10000, 100000, 1000000, 10000000>>

Digit(u, place) == IF place > 8 THEN (u.hi \div Unit[place - 8]) % 10
                   ELSE (u.lo \div Unit[place]) % 10

Places(u) == {place \in 1..10 : Digit(u, place) # 0} \cup {1}

Decimal(u) ==
  LET n == CHOOSE n \in Places(u) : \A place \in Places(u) : place <= n
  IN  [p \in 1..n |-> Digit(u, n + 1 - p)]

INT32_MIN == [hi |-> 21, lo |-> 47483648]   \* its magnitude

(* The text is the decimal notation of the number, without leading zeros,  *)
(* for either sign and up to the ends of the 32-bit ranges.                *)
IsDecimal(u) ==
  /\ FastUInt32ToBufferLeft(u) = Decimal(u)
  /\ u.hi < INT32_MIN.hi \/ (u.hi = INT32_MIN.hi /\ u.lo < INT32_MIN.lo) =>
       FastInt32ToBufferLeft(FALSE, u) = Decimal(u)
  /\ u.hi < INT32_MIN.hi \/ (u.hi = INT32_MIN.hi /\ u.lo <= INT32_MIN.lo) =>
       FastInt32ToBufferLeft(TRUE, u) = <<Minus>> \o Decimal(u)
==============================================================================
