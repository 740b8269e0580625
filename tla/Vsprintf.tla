------------------------------ MODULE Vsprintf ------------------------------
(***************************************************************************)
(* vsprintf() and number() (kernel/vsprintf.c).  A string is a sequence of *)
(* characters; an argument is an int of WordBits bits or a string.  The    *)
(* case of the letters among the digits is left out.                       *)
(***************************************************************************)
EXTENDS Integers, Sequences

CONSTANTS WordBits   (* of an int; 32 in the code                          *)

ASSUME WordAssumption == WordBits \in Nat /\ WordBits > 1

Digits == <<"0", "1", "2", "3", "4", "5", "6", "7", "8", "9",
            "a", "b", "c", "d", "e", "f">>

is_digit(c) == \E i \in 1 .. 10 : Digits[i] = c
ValueOf(c) == CHOOSE v \in 0 .. 15 : Digits[v + 1] = c

Times(n, c) == [i \in 1 .. n |-> c]
Larger(a, b) == IF a > b THEN a ELSE b

(* Wrong variant: the division is signed, and stops at a negative number.  *)
SignedWord(num) ==
  LET word == num % 2 ^ WordBits
  IN  IF word >= 2 ^ (WordBits - 1) THEN 0 ELSE word

(* The word as do_div() sees it: divl is unsigned, so the negation of the  *)
(* smallest int, which is itself, comes out right.                         *)
Unsigned(num) == num % 2 ^ WordBits

(* The loop of do_div(), with the digits already turned round.             *)
RECURSIVE DigitsOf(_, _)
DigitsOf(n, base) ==
  IF n < base THEN <<Digits[n + 1]>>
  ELSE Append(DigitsOf(n \div base, base), Digits[(n % base) + 1])

number(num, base, size, precision, type) ==
  LET negative == "SIGN" \in type /\ num < 0
      sign     == IF negative THEN <<"-">>
                  ELSE IF "PLUS" \in type THEN <<"+">>
                  ELSE IF "SPACE" \in type THEN <<" ">> ELSE <<>>
      prefix   == IF "SPECIAL" \notin type THEN <<>>
                  ELSE IF base = 16 THEN <<"0", "x">>
                  ELSE IF base = 8 THEN <<"0">> ELSE <<>>
      digits   == DigitsOf(Unsigned(IF negative THEN -num ELSE num), base)
      zeros    == Times(Larger(precision - Len(digits), 0), "0")
      room     == size - Len(sign \o prefix \o zeros \o digits)
      pad(c)   == Times(Larger(room, 0), c)
  IN  IF "LEFT" \in type THEN sign \o prefix \o zeros \o digits \o pad(" ")
      ELSE IF "ZEROPAD" \in type THEN sign \o prefix \o pad("0") \o zeros \o digits
      ELSE pad(" ") \o sign \o prefix \o zeros \o digits

-----------------------------------------------------------------------------
At(fmt, p) == IF p <= Len(fmt) THEN fmt[p] ELSE "NUL"

RECURSIVE skip_atoi(_, _, _)
skip_atoi(fmt, p, i) ==
  IF is_digit(At(fmt, p)) THEN skip_atoi(fmt, p + 1, i * 10 + ValueOf(fmt[p]))
  ELSE [p |-> p, n |-> i]

FlagOf == [c \in {"-", "+", " ", "#", "0"} |->
             CASE c = "-" -> "LEFT" [] c = "+" -> "PLUS" [] c = " " -> "SPACE"
               [] c = "#" -> "SPECIAL" [] c = "0" -> "ZEROPAD"]

RECURSIVE ReadFlags(_, _, _)
ReadFlags(fmt, p, flags) ==
  IF At(fmt, p) \in DOMAIN FlagOf THEN ReadFlags(fmt, p + 1, flags \cup {FlagOf[fmt[p]]})
  ELSE [p |-> p, flags |-> flags]

(* Only for a negative width of * does the code step over the *.           *)
ReadWidth(fmt, r, args) ==
  IF is_digit(At(fmt, r.p))
    THEN LET w == skip_atoi(fmt, r.p, 0)
         IN  [p |-> w.p, flags |-> r.flags, width |-> w.n, args |-> args]
  ELSE IF At(fmt, r.p) # "*"
    THEN [p |-> r.p, flags |-> r.flags, width |-> -1, args |-> args]
  ELSE IF Head(args) < 0
    THEN [p |-> r.p + 1, flags |-> r.flags \cup {"LEFT"}, width |-> -Head(args), args |-> Tail(args)]
  ELSE [p |-> r.p, flags |-> r.flags, width |-> Head(args), args |-> Tail(args)]

ReadPrecision(fmt, p, args) ==
  IF At(fmt, p) # "." THEN [p |-> p, precision |-> -1, args |-> args]
  ELSE IF is_digit(At(fmt, p + 1))
    THEN LET n == skip_atoi(fmt, p + 1, 0)
         IN  [p |-> n.p, precision |-> n.n, args |-> args]
  ELSE IF At(fmt, p + 1) = "*"
    THEN [p |-> p + 2, precision |-> Larger(Head(args), 0), args |-> Tail(args)]
  ELSE [p |-> p + 1, precision |-> 0, args |-> args]

(* What %c and %s write.                                                   *)
Justified(text, width, flags) ==
  LET pad == Times(Larger(width - Len(text), 0), " ")
  IN  IF "LEFT" \in flags THEN text \o pad ELSE pad \o text

Cut(s, precision) ==
  IF 0 <= precision /\ precision < Len(s) THEN SubSeq(s, 1, precision) ELSE s

Base(c) == IF c \in {"d", "i", "u"} THEN 10 ELSE IF c = "o" THEN 8 ELSE 16

Numeric == {"o", "p", "x", "X", "d", "i", "u"}

FormatNumber(c, num, width, precision, flags) ==
  IF c = "p" /\ width = -1 THEN number(num, 16, 8, precision, flags \cup {"ZEROPAD"})
  ELSE number(num, Base(c), width, precision, flags \cup IF c \in {"d", "i"} THEN {"SIGN"} ELSE {})

(* stores is what %n has written, left the arguments nothing has consumed. *)
RECURSIVE Format(_, _, _, _, _)
Format(str, fmt, p, args, stores) ==
  IF At(fmt, p) = "NUL" THEN [str |-> str, stores |-> stores, left |-> args]
  ELSE IF fmt[p] # "%" THEN Format(Append(str, fmt[p]), fmt, p + 1, args, stores)
  ELSE
    LET w == ReadWidth(fmt, ReadFlags(fmt, p + 1, {}), args)
        r == ReadPrecision(fmt, w.p, w.args)
        q == IF At(fmt, r.p) \in {"h", "l", "L"} THEN r.p + 1 ELSE r.p
        c == At(fmt, q)
        goOn(text) == Format(str \o text, fmt, q + 1, Tail(r.args), stores)
    IN  IF c = "c" THEN goOn(Justified(<<Head(r.args)>>, w.width, w.flags))
        ELSE IF c = "s" THEN goOn(Justified(Cut(Head(r.args), r.precision), w.width, w.flags))
        ELSE IF c \in Numeric
          THEN goOn(FormatNumber(c, Head(r.args), w.width, r.precision, w.flags))
        ELSE IF c = "n"
          THEN Format(str, fmt, q + 1, Tail(r.args), Append(stores, Len(str)))
        ELSE Format(str \o (IF c = "%" THEN <<>> ELSE <<"%">>) \o (IF c = "NUL" THEN <<>> ELSE <<c>>),
                    fmt, q + 1, r.args, stores)

vsprintf(fmt, args) == Format(<<>>, fmt, 1, args, <<>>)

=============================================================================
