------------------------------- MODULE Format --------------------------------
(***************************************************************************)
(* kvsprintf of arch/ia32/printf.c: the parsing of a format and the text   *)
(* of numbers, characters and strings.  Texts are sequences of characters. *)
(* Numbers have fewer bits than on the machine; the limits of the padding  *)
(* and of the array it is written to are the code's.                       *)
(***************************************************************************)
EXTENDS Integers, Sequences

CONSTANTS WordBits, ShortBits, ByteBits,   \* 32, 16 and 8
          Tenths                           \* decimal places of a kfloat

ASSUME BitsAssumption ==
  /\ ByteBits \in Nat \ {0} /\ ShortBits \in Nat /\ WordBits \in Nat /\ Tenths \in Nat
  /\ ByteBits < ShortBits /\ ShortBits < WordBits

NUL == "NUL"
ARRAY == 68   \* kuint8 array[68]

lower_digits == <<"0", "1", "2", "3", "4", "5", "6", "7", "8", "9", "a", "b", "c", "d", "e", "f">>
upper_digits == <<"0", "1", "2", "3", "4", "5", "6", "7", "8", "9", "A", "B", "C", "D", "E", "F">>
Digit == {lower_digits[i] : i \in 1..10}
DigitValue(c) == CHOOSE v \in 0..15 : c \in {lower_digits[v + 1], upper_digits[v + 1]}

Times(n, c) == [i \in 1..n |-> c]
Max2(a, b) == IF a >= b THEN a ELSE b

RECURSIVE NumberIn(_, _)
NumberIn(s, base) ==
  IF s = <<>> THEN 0
  ELSE NumberIn(SubSeq(s, 1, Len(s) - 1), base) * base + DigitValue(s[Len(s)])

RECURSIVE Digits(_, _, _)
Digits(n, base, digits) ==
  (IF n < base THEN <<>> ELSE Digits(n \div base, base, digits)) \o <<digits[(n % base) + 1]>>

-----------------------------------------------------------------------------
(* write_number_kuint32: the text, without its padding to the width.       *)
(* d has the flags, the precision and the length of a directive.           *)
Hex(d) == d.spec \in {"x", "X", "p"}
Base(d) == IF Hex(d) THEN 16 ELSE IF d.spec = "o" THEN 8 ELSE 10
Minus(number, d) == d.spec \in {"d", "i"} /\ number >= 2^(WordBits - 1)

(* Faulty variants of a definition stand before it, for mutation testing.  *)
Magnitude_CutFirst(number, d) ==
  LET n == number % 2^(IF d.length = "hh" THEN ByteBits
                       ELSE IF d.length = "h" THEN ShortBits ELSE WordBits)
  IN  IF Minus(number, d) THEN 2^WordBits - n ELSE n

(* The sign is taken before the number is cut to the length.               *)
Magnitude(number, d) ==
  (IF Minus(number, d) THEN 2^WordBits - number ELSE number)
    % 2^(IF d.length = "hh" THEN ByteBits ELSE IF d.length = "h" THEN ShortBits ELSE WordBits)

(* The pad size is cut to six bits, for the sake of the array.             *)
Pad(d) == d.precision % 64

(* The 0x of the alternate form is not counted as padding, and octal       *)
(* numbers get no 0: the flag is combined with & where && was meant.       *)
write_number_kuint32(number, d) ==
  LET digits == Digits(Magnitude(number, d), Base(d),
                       IF d.spec = "X" THEN upper_digits ELSE lower_digits)
      missing == Max2(Pad(d) - Len(digits), 0)
  IN  (IF "0" \in d.flags THEN <<>> ELSE Times(missing, " "))
        \o (IF Minus(number, d) THEN <<"-">> ELSE <<>>)
        \o (IF Hex(d) /\ ("#" \in d.flags \/ d.spec = "p")
            THEN <<"0", IF d.spec = "X" THEN "X" ELSE "x">> ELSE <<>>)
        \o (IF "0" \in d.flags THEN Times(missing, "0") ELSE <<>>)
        \o digits

(* write_number_kfloat, in exact arithmetic: number / unit is below 10.    *)
RECURSIVE FloatDigits(_, _, _, _, _)
FloatDigits(number, unit, count, places, written) ==
  IF count <= 0 /\ places <= 0 THEN <<>>
  ELSE (IF count = 0 THEN (IF written THEN <<".">> ELSE <<"0", ".">>) ELSE <<>>)
         \o <<lower_digits[((number * 10) \div unit) + 1]>>
         \o FloatDigits((number * 10) % unit, unit, IF count >= 0 THEN count - 1 ELSE count,
                        IF count <= 0 THEN places - 1 ELSE places, TRUE)

write_number_kfloat_NoZero(number, d) ==
  LET n == IF number < 0 THEN -number ELSE number
      count == CHOOSE k \in 0..9 : n < 10^(Tenths + k) /\ (k > 0 => n >= 10^(Tenths + k - 1))
  IN  (IF number < 0 THEN <<"-">> ELSE <<>>)
        \o FloatDigits(n, 10^(Tenths + count), count,
                       IF d.precision = 0 THEN 6 ELSE d.precision, TRUE)

(* number is in units of 10^-Tenths.                                       *)
write_number_kfloat(number, d) ==
  LET n == IF number < 0 THEN -number ELSE number
      count == CHOOSE k \in 0..9 : n < 10^(Tenths + k) /\ (k > 0 => n >= 10^(Tenths + k - 1))
  IN  (IF number < 0 THEN <<"-">> ELSE <<>>)
        \o FloatDigits(n, 10^(Tenths + count), count,
                       IF d.precision = 0 THEN 6 ELSE d.precision, FALSE)

-----------------------------------------------------------------------------
(* The character at i; the format ends with a NUL, and nothing is known of *)
(* what follows it.                                                        *)
At(f, i) == IF i <= Len(f) THEN f[i] ELSE IF i = Len(f) + 1 THEN NUL ELSE "?"

(* The first position from i on with a character that is not in S.         *)
After(f, i, S) == CHOOSE j \in i..Len(f) + 2 : At(f, j) \notin S /\ \A k \in i..j - 1 : At(f, k) \in S

(* The digits from i to j - 1, when the first is not 0.                    *)
AfterNumber(f, i) == IF At(f, i) \in Digit \ {"0"} THEN After(f, i, Digit) ELSE i

(* The size of a length modifier, and the modifier at i, which is told by  *)
(* looking one character ahead.                                            *)
Size == [none |-> 0, h |-> 1, hh |-> 2, l |-> 1, ll |-> 2]

LengthAt_Skips(f, i) ==
  CASE At(f, i) = "h" -> "hh"
    [] At(f, i) = "l" -> "ll"
    [] OTHER -> "none"

LengthAt(f, i) ==
  CASE At(f, i) = "h" -> IF At(f, i + 1) = "h" THEN "hh" ELSE "h"
    [] At(f, i) = "l" -> IF At(f, i + 1) = "l" THEN "ll" ELSE "l"
    [] OTHER -> "none"

(* The directive whose % is at i, and the position of its last character.  *)
(* The width is read but kept apart from the precision, which is what      *)
(* numbers are padded to.                                                  *)
DirectiveFrom(f, i, w, p, l) ==
  LET s == l + Size[LengthAt(f, l)]
  IN  [flags |-> {f[k] : k \in i + 1..w - 1},
       precision |-> IF At(f, p) = "." THEN NumberIn(SubSeq(f, p + 1, l - 1), 10) ELSE 0,
       length |-> LengthAt(f, l), spec |-> At(f, s), last |-> s]

Directive(f, i) ==
  LET w == After(f, i + 1, {"#", "0", " "})
      p == AfterNumber(f, w)
  IN  DirectiveFrom(f, i, w, p, IF At(f, p) = "." THEN AfterNumber(f, p + 1) ELSE p)

-----------------------------------------------------------------------------
NullText == <<"(", "n", "u", "l", "l", ")">>
NilText == <<"(", "n", "i", "l", ")">>
ErrorText == <<"<", "f", "o", "r", "m", "a", "t", " ", "e", "r", "r", "o", "r", ",">>

Integral == {"d", "i", "u", "o", "x", "X"}
Specifiers == Integral \cup {"%", "c", "s", "p", "f", "F"}

(* Reading a string through a pointer to nowhere: a page fault.            *)
FAULT == "FAULT"

(* What a directive writes; write_number_kuint64 is empty.                 *)
Convert(d, arg) ==
  CASE d.spec = "c" -> <<arg>>
    [] d.spec = "s" -> IF arg.pointer = "null" THEN NullText
                       ELSE IF arg.pointer = "bad" THEN <<FAULT>> ELSE arg.text
    [] d.spec = "p" -> IF arg = 0 THEN NilText ELSE write_number_kuint32(arg, d)
    [] d.spec \in {"f", "F"} -> write_number_kfloat(arg, d)
    [] OTHER -> IF d.length = "ll" THEN <<>> ELSE write_number_kuint32(arg, d)

(* The rest of the text, with the directive d at i, if there is one.       *)
RECURSIVE TextFrom(_, _, _)
TextFrom(f, i, args) ==
  LET TextOf(d) ==
        IF d.spec \notin Specifiers THEN ErrorText \o <<d.spec, ">">>
        ELSE IF d.spec = "%" THEN <<"%">> \o TextFrom(f, d.last + 1, args)
        ELSE Convert(d, Head(args)) \o TextFrom(f, d.last + 1, Tail(args))
  IN  CASE At(f, i) = NUL -> <<>>
        [] At(f, i) = "%" -> TextOf(Directive(f, i))
        [] OTHER -> <<At(f, i)>> \o TextFrom(f, i + 1, args)

kvsprintf(f, args) == TextFrom(f, 1, args)
=============================================================================
