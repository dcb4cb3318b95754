----------------------------- MODULE MCNumbers ------------------------------
(* Instances of Numbers.                                                   *)
EXTENDS Numbers

(* Texts of up to four characters with signs, blanks and prefixes, and     *)
(* numbers of five digits, which no long long of ten bits holds.           *)
MCText ==
  UNION {[1 .. k -> {0, 3, 9, 15, LetterX, BlankChar, Minus, Plus}] : k \in 0 .. 4}
    \cup [1 .. 5 -> {1, 9, Minus}]
MCPrecision == {-1, 0, 1, 3}
=============================================================================
