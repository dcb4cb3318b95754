------------------------------ MODULE Numbers ------------------------------
(***************************************************************************)
(* Text and numbers in the two C libraries of the system: the conversions  *)
(* of user_libc.c and klib.c, and how vsnprintf and k_vsprintf lay one     *)
(* conversion out.  A call is chosen in the initial state and answered by  *)
(* one step, whatever function it names.                                   *)
(*                                                                         *)
(* A character is a number: 0..35 are the digits and letters by the value  *)
(* strtoul gives them ('x' is 33), the others are named below.  An int has *)
(* Bits bits, a long long twice as many.                                   *)
(***************************************************************************)
EXTENDS Integers, Sequences, SequencesExt

CONSTANTS Bits,         \* 32 in the code
          NumberText,   \* the texts that are parsed
          Width,        \* the minimum widths of a conversion
          Precision     \* the precisions, -1 for none

VARIABLES call,         \* the function that is called, with its arguments
          reply        \* what it returns; <<>> before it does

numberVars == <<call, reply>>

NumberAssumption == Bits \in Nat /\ Bits > 1
ASSUME NumberAssumption

BlankChar == 40
Minus == 41
Plus  == 42
Percent == 43
LetterX == 33

Range32 == 2^Bits                           \* values of an unsigned int
Lowest  == -(2^(Bits - 1))                  \* INT_MIN
Highest == 2^(Bits - 1) - 1                 \* INT_MAX
Unsigned(v) == v % Range32

-----------------------------------------------------------------------------
(* From numbers to text. *)

\* the digits of an unsigned number, first to last; a zero has one digit
DigitsOf(u, base) ==
  LET from[n \in 0..u] == IF n < base THEN <<n>>
                          ELSE Append(from[n \div base], n % base)
  IN  from[u]

\* itoa, k_itoa: a sign only in base 10; elsewhere the bits as unsigned
itoa(v, base) ==
  IF v < 0 /\ base = 10 THEN <<Minus>> \o DigitsOf(Unsigned(0 - Unsigned(v)), base)
  ELSE DigitsOf(Unsigned(v), base)

uitoa(u, base) == DigitsOf(u, base)         \* uitoa, k_uitoa

-----------------------------------------------------------------------------
(* From text to numbers. *)

\* the longest prefix of text with characters of S, and what follows it
Leading(text, S) ==
  CHOOSE n \in 0..Len(text) : /\ \A i \in 1..n : text[i] \in S
                              /\ n < Len(text) => text[n + 1] \notin S
Begin(text, S) == SubSeq(text, 1, Leading(text, S))
After(text, S) == SubSeq(text, Leading(text, S) + 1, Len(text))

Starts(text, S) == Len(text) > 0 /\ text[1] \in S
Unsign(text) == IF Starts(text, {Minus, Plus}) THEN Tail(text) ELSE text

\* fault: the test of the multiplication forgets the digit
DigitForgotten(top, base) ==
  [r \in 0..top |-> [d \in 0..(base - 1) |->
     IF r > top \div base THEN top ELSE (r * base + d) % (top + 1)]]

\* one digit more, held at the top once it is reached
Saturating(top, base) ==
  [r \in 0..top |-> [d \in 0..(base - 1) |->
     IF r > (top - d) \div base THEN top ELSE r * base + d]]
Accumulated(digits, top, base) ==
  FoldLeft(LAMBDA r, d : Saturating(top, base)[r][d], 0, digits)

\* the magnitude as a signed number, clamped to what the type holds
Clamped(negative, u, half) ==
  IF negative THEN (IF u <= half THEN -u ELSE -half)
              ELSE (IF u < half THEN u ELSE half - 1)

\* atoi, k_atoi
atoi(text) ==
  LET t == After(text, {BlankChar})
      u == Accumulated(Begin(Unsign(t), 0..9), Range32 - 1, 10)
  IN  Clamped(Starts(t, {Minus}), u, -Lowest)

\* base 0 and the prefixes "0x" and "0": strtoul and strtoull alike
Hexadecimal(text, base) ==
  base \in {0, 16} /\ Len(text) > 1 /\ text[1] = 0 /\ text[2] = LetterX
BaseOf(text, base) ==
  IF Hexadecimal(text, base) THEN 16
  ELSE IF base # 0 THEN base
  ELSE IF Starts(text, {0}) THEN 8 ELSE 10
DigitsIn(text, base) ==
  Begin(IF Hexadecimal(text, base) THEN SubSeq(text, 3, Len(text)) ELSE text,
        0..(BaseOf(text, base) - 1))

\* strtoul: no check for overflow, the sum wraps
strtoul(text, base) ==
  LET t == After(text, {BlankChar})
  IN  FoldLeft(LAMBDA r, d : Unsigned(r * BaseOf(t, base) + d), 0, DigitsIn(t, base))

strtol(text, base) ==
  LET t == After(text, {BlankChar})
  IN  Clamped(Starts(t, {Minus}), strtoul(Unsign(t), base), -Lowest)

\* strtoull saturates at ULLONG_MAX and strtoll at its two ends; ERANGE says so
Wide == Range32 * Range32
strtoull(text, base) ==
  LET t == After(text, {BlankChar})
      s == IF Starts(t, {Plus}) THEN Tail(t) ELSE t
      b == BaseOf(s, base)
      step(r, d) == IF r.value > (Wide - 1 - d) \div b
                    THEN [value |-> Wide - 1, range |-> TRUE]
                    ELSE [r EXCEPT !.value = @ * b + d]
  IN  FoldLeft(step, [value |-> 0, range |-> FALSE], DigitsIn(s, base))

strtoll(text, base) ==
  LET t == After(text, {BlankChar})
      u == strtoull(Unsign(t), base)
      v == Clamped(Starts(t, {Minus}), u.value, Wide \div 2)
  IN  [value |-> v,
       range |-> u.range \/ (IF Starts(t, {Minus}) THEN -v ELSE v) # u.value]

\* k_atoh shifts before it looks at the character, so whatever ends the digits
\* but the end of the text has already multiplied them by 16
k_atoh(text) ==
  LET t == IF Hexadecimal(text, 16) THEN SubSeq(text, 3, Len(text)) ELSE text
      u == FoldLeft(LAMBDA r, d : Unsigned(r * 16 + d), 0, Begin(t, 0..15))
  IN  IF After(t, 0..15) = <<>> THEN u ELSE Unsigned(u * 16)

-----------------------------------------------------------------------------
(* One conversion of a format. *)

Copies(c, n) == [i \in 1..(IF n > 0 THEN n ELSE 0) |-> c]

\* f: the format of the conversion; v: a number, an int for "d"
BaseFor == [d |-> 10, u |-> 10, x |-> 16, o |-> 8]
Magnitude(f, v) == DigitsOf(IF f.type = "d" /\ v < 0 THEN -v ELSE Unsigned(v), BaseFor[f.type])

\* the sign of a conversion, or what flags + and blank put in its place
KernelSign(f, v) ==
  IF f.type # "d" THEN <<>>
  ELSE IF v < 0 THEN <<Minus>>
  ELSE IF "+" \in f.flags THEN <<Plus>>
  ELSE IF " " \in f.flags THEN <<BlankChar>> ELSE <<>>
\* fault: the sign does not count towards the width
SignNotCounted(f, v) ==
  LET digits == Magnitude(f, v)
      zeros  == Copies(0, f.precision - Len(digits))
      body   == KernelSign(f, v) \o zeros \o digits
      fill   == f.width - Len(zeros \o digits)
      pad    == IF "0" \in f.flags /\ f.precision < 0 THEN 0 ELSE BlankChar
  IN  IF "-" \in f.flags THEN body \o Copies(BlankChar, fill)
      ELSE Copies(pad, fill) \o body

\* k_put_int, k_put_uint: the sign counts towards the width, the padding comes
\* before it; the prefix of '#' is never printed, for the value it depends on
\* is zero once the digits are taken
k_put(f, v) ==
  LET digits == Magnitude(f, v)
      zeros  == Copies(0, f.precision - Len(digits))
      body   == KernelSign(f, v) \o zeros \o digits
      fill   == f.width - Len(body)
      pad    == IF "0" \in f.flags /\ f.precision < 0 THEN 0 ELSE BlankChar
  IN  IF "-" \in f.flags THEN body \o Copies(BlankChar, fill)
      ELSE Copies(pad, fill) \o body

\* put_int, put_uint: the sign comes first and does not count, there is no
\* precision, and numbers are never aligned to the left.  A flag or a type
\* that vsnprintf does not know leaves the conversion in the text, '%' first.
Known(f) == f.type # "o" /\ f.flags \subseteq {"0", "-"}
put(f, v) ==
  LET digits == Magnitude(f, v)
      pad    == IF "0" \in f.flags THEN 0 ELSE BlankChar
  IN  IF ~Known(f) THEN <<Percent>>
      ELSE (IF f.type = "d" /\ v < 0 THEN <<Minus>> ELSE <<>>)
           \o Copies(pad, f.width - Len(digits)) \o digits

-----------------------------------------------------------------------------
Flag == {"-", "+", " ", "0", "#"}
Format == [type : DOMAIN BaseFor, flags : SUBSET Flag, width : Width, precision : Precision]
Int32 == Lowest..Highest

NumbersInit ==
  /\ \/ \E v \in Int32, base \in {2, 10, 16} :
          call = [name |-> "itoa", value |-> v, base |-> base]
     \/ \E text \in NumberText, base \in {0, 10, 16} :
          call = [name |-> "parse", text |-> text, base |-> base]
     \/ \E f \in Format, v \in Int32 : call = [name |-> "printf", format |-> f, value |-> v]
  /\ reply = <<>>

Convert ==
  /\ call.name = "itoa"
  /\ reply' = [signed |-> itoa(call.value, call.base),
                unsigned |-> uitoa(Unsigned(call.value), call.base)]

Parse ==
  /\ call.name = "parse"
  /\ reply' = [atoi  |-> atoi(call.text), atoh |-> k_atoh(call.text),
                ul    |-> strtoul(call.text, call.base), l |-> strtol(call.text, call.base),
                ull   |-> strtoull(call.text, call.base), ll |-> strtoll(call.text, call.base)]

Printf ==
  /\ call.name = "printf"
  /\ reply' = [kernel |-> k_put(call.format, call.value), user |-> put(call.format, call.value)]

NumbersNext == reply = <<>> /\ (Convert \/ Parse \/ Printf) /\ UNCHANGED call

NumbersSpec == NumbersInit /\ [][NumbersNext]_numberVars

Replied(name) == call.name = name /\ reply # <<>>

-----------------------------------------------------------------------------
(* What a text is worth, read exactly. *)
Worth(digits, base) == FoldLeft(LAMBDA r, d : r * base + d, 0, digits)
Between(lo, v, hi) == IF v < lo THEN lo ELSE IF v > hi THEN hi ELSE v
Exact(text) ==
  LET t == After(text, {BlankChar})
      w == Worth(Begin(Unsign(t), 0..9), 10)
  IN  IF Starts(t, {Minus}) THEN -w ELSE w

\* What itoa and uitoa of user_libc.c and klib.c write, atoi, strtol and
\* strtoul read back as the number it was: INT_MIN included, whose negation
\* no int holds.  And of a number too large for its type, atoi and strtoll
\* return the end of the range it lies beyond, strtoll with ERANGE.
NumbersReadBack ==
  /\ Replied("itoa") =>
       /\ strtoul(reply.unsigned, call.base) = Unsigned(call.value)
       /\ call.base = 10 => /\ atoi(reply.signed) = call.value
                            /\ strtol(reply.signed, 10) = call.value
                            /\ strtoll(reply.signed, 0) =
                                 [value |-> call.value, range |-> FALSE]
       /\ call.base = 16 => k_atoh(reply.unsigned) = Unsigned(call.value)
  /\ Replied("parse") =>
       /\ reply.atoi = Between(Lowest, Exact(call.text), Highest)
       /\ call.base = 10 /\ Begin(Unsign(After(call.text, {BlankChar})), {BlankChar, Plus}) = <<>> =>
            /\ reply.ll.value = Between(-(Wide \div 2), Exact(call.text), (Wide \div 2) - 1)
            /\ reply.ll.range = (reply.ll.value # Exact(call.text))

\* C99 7.19.6.1: sign, prefix, digits to the precision (none for a zero with
\* precision 0), and zeros of flag 0 after the sign and the prefix
C99(f, v) ==
  LET m      == Magnitude(f, v)
      digits == IF f.precision = 0 /\ Unsigned(v) = 0 THEN <<>>
                ELSE Copies(0, f.precision - Len(m)) \o m
      prefix == IF f.type # "x" \/ "#" \notin f.flags \/ Unsigned(v) = 0 THEN <<>>
                ELSE <<0, LetterX>>
      octal  == IF f.type = "o" /\ "#" \in f.flags /\ ~Starts(digits, {0}) THEN <<0>> ELSE <<>>
      front  == KernelSign(f, v) \o prefix \o octal
      fill   == f.width - Len(front) - Len(digits)
  IN  IF "-" \in f.flags THEN front \o digits \o Copies(BlankChar, fill)
      ELSE IF "0" \in f.flags /\ f.precision < 0 THEN front \o Copies(0, fill) \o digits
      ELSE Copies(BlankChar, fill) \o front \o digits

\* What the repository says of the program and the code does not do:
\* k_vsprintf is C99 compliant (klib.c:233, klib.c:115, os-os.txt:1403), so
\* that it lays out every conversion of an integer as C99 says.
FormatsAreC99 == Replied("printf") => reply.kernel = C99(call.format, call.value)

\* Where the kernel's layout is not that of C99: zeros that fill the width
\* come before the sign, flag '#' prints nothing, and a zero is printed
\* although the precision asks for no digit of it.
ZerosFill(f, v)       == "0" \in f.flags /\ "-" \notin f.flags /\ f.precision < 0
                         /\ f.width > Len(KernelSign(f, v) \o Magnitude(f, v))
ZerosBeforeSign(f, v) == KernelSign(f, v) # <<>> /\ ZerosFill(f, v)
PrefixLost(f, v)      == "#" \in f.flags /\ v # 0
                         /\ \/ f.type = "x"
                            \/ /\ f.type = "o" /\ ~ZerosFill(f, v)
                               /\ f.precision <= Len(Magnitude(f, v))
ZeroPrinted(f, v)     == f.precision = 0 /\ v = 0 /\ ~(f.type = "o" /\ "#" \in f.flags)

\* k_put_int and k_put_uint lay out as C99 does all but just these; and put_int
\* and put_uint what has no flag but 0 and no precision, unless a negative
\* number leaves some of its width to be filled (klib.c:119, user_libc.c:822).
OtherFormatsAreC99 ==
  Replied("printf") =>
    LET f == call.format
        v == call.value
    IN  /\ reply.kernel = C99(f, v) <=>
             ~ZerosBeforeSign(f, v) /\ ~PrefixLost(f, v) /\ ~ZeroPrinted(f, v)
        /\ Known(f) /\ "-" \notin f.flags /\ f.precision < 0
             /\ (f.type = "d" /\ v < 0 => f.width <= Len(Magnitude(f, v))) =>
           reply.user = C99(f, v)
=============================================================================
