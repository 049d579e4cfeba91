----------------------------- MODULE CheckNames ------------------------------
(***************************************************************************)
(* prometheus/check_names.cc.  A name is a sequence of characters, of      *)
(* which Letters, NumberSigns, "_" and ":" tell the checks apart.          *)
(***************************************************************************)
EXTENDS Integers, Sequences

CONSTANTS Letters, NumberSigns

isLocaleIndependentDigit(c) == c \in NumberSigns

isLocaleIndependentAlphaNumeric(c) == c \in Letters \cup NumberSigns

DigitAllowed(name) ==   \* mutant of nameStartsValid: a name may start with a digit
  name # <<>> /\ (Len(name) >= 2 => SubSeq(name, 1, 2) # <<"_", "_">>)
nameStartsValid(name) == /\ name # <<>>
                         /\ ~isLocaleIndependentDigit(name[1])
                         /\ Len(name) >= 2 => SubSeq(name, 1, 2) # <<"_", "_">>

CheckMetricName(name) ==
  /\ nameStartsValid(name)
  /\ \A i \in 1..Len(name) : isLocaleIndependentAlphaNumeric(name[i]) \/ name[i] \in {"_", ":"}

CheckLabelName(name) ==
  /\ nameStartsValid(name)
  /\ \A i \in 1..Len(name) : isLocaleIndependentAlphaNumeric(name[i]) \/ name[i] = "_"

------------------------------------------------------------------------------

(* The words of the regular expression [first][rest]*. *)
Matches(name, first, rest) == /\ Len(name) >= 1
                              /\ name[1] \in first
                              /\ \A i \in 2..Len(name) : name[i] \in rest

(* The names that pass are those of the regular expressions in the         *)
(* comments, except the ones that begin with two underscores.              *)
PatternsButReserved(name) ==
  LET Reserved == Len(name) >= 2 /\ name[1] = "_" /\ name[2] = "_"
      metric   == Letters \cup {"_", ":"}
      label    == Letters \cup {"_"}
  IN  /\ CheckMetricName(name) <=> Matches(name, metric, metric \cup NumberSigns) /\ ~Reserved
      /\ CheckLabelName(name) <=> Matches(name, label, label \cup NumberSigns) /\ ~Reserved
==============================================================================
