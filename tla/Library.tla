------------------------------ MODULE Library ------------------------------
(***************************************************************************)
(* One call of a function of Strings, Vsprintf or Descriptors, and what    *)
(* it must come to, said without the algorithm.                            *)
(***************************************************************************)
EXTENDS Strings, Vsprintf, Descriptors, FiniteSets

CONSTANTS
  MaxLen,      (* bound: the length of the strings                         *)
  Chars,       (* the characters in them: signed bytes other than 0        *)
  Numbers,     (* the numbers to print                                     *)
  Widths,      (* field widths, as they are written or passed for a *;     *)
               (* -1, when it is not passed, is none                       *)
  Precisions,  (* -1 is none                                               *)
  Conversions, (* the conversions with a number as argument                *)
  Addresses,   (* of descriptor tables and of handlers                     *)
  Tasks        (* slots to fork into                                       *)

VARIABLES call, result, done
libVars == <<call, result, done>>

UpTo(n, S) == UNION {[1 .. k -> S] : k \in 0 .. n}
Smallest(S) == CHOOSE i \in S : \A j \in S : i <= j

-----------------------------------------------------------------------------
(* Strings.  The first string lies at A and the second at B, each with     *)
(* room behind it; what lies around them must stay as it is.               *)
Dirty == 7
A == 2
B == A + 2 * MaxLen + 3
Top == B + 2 * MaxLen + 3

Laid(s, t) ==
  [p \in 1 .. Top |->
     IF p \in A .. A + Len(s) THEN Append(s, 0)[p - A + 1]
     ELSE IF p \in B .. B + Len(t) THEN Append(t, 0)[p - B + 1]
     ELSE Dirty]

Written(m, p, text) ==
  [q \in 1 .. Top |-> IF q \in p .. p + Len(text) - 1 THEN text[q - p + 1] ELSE m[q]]

(* Bytes n from p on, and the same bytes moved.                            *)
Bytes(m, p, n) == [i \in 1 .. n |-> m[p + i - 1]]

Copies == {"strcpy", "strncpy", "strcat", "strncat", "memcpy", "memmove", "memset"}
Compares == {"strcmp", "strncmp", "memcmp"}
Searches == {"strlen", "strchr", "strrchr", "memchr", "strspn", "strcspn", "strpbrk", "strstr"}

StringCall ==
  [lib : {"string"}, fn : Copies \cup Compares \cup Searches,
   s : UpTo(MaxLen, Chars), t : UpTo(MaxLen, Chars), n : 0 .. MaxLen + 1,
   c : Chars \cup {0}]

(* The arguments a function does not look at are not varied.               *)
Sensible(k) ==
  /\ k.fn \notin {"memset", "strchr", "strrchr", "memchr"} => k.c = 0
  /\ k.fn \notin {"strncpy", "strncat", "memcpy", "memmove", "memset", "strncmp", "memcmp", "memchr"}
       => k.n = 1
  /\ k.fn \in {"memset", "strlen", "strchr", "strrchr", "memchr"} => k.t = <<>>

(* leftover is what flags from before the call would make memcmp() return. *)
Run(k, leftover) ==
  LET m == Laid(k.s, k.t)
  IN  CASE k.fn = "strcpy"  -> strcpy(m, A, B)
        [] k.fn = "strncpy" -> strncpy(m, A, B, k.n)
        [] k.fn = "strcat"  -> strcat(m, A, B)
        [] k.fn = "strncat" -> strncat(m, A, B, k.n)
        [] k.fn = "memcpy"  -> memcpy(m, A, B, k.n)
        [] k.fn = "memmove" -> <<memmove(m, A + 1, A, k.n), memmove(m, A - 1, A, k.n)>>
        [] k.fn = "memset"  -> memset(m, A, k.c, k.n)
        [] k.fn = "strcmp"  -> strcmp(m, A, B)
        [] k.fn = "strncmp" -> strncmp(m, A, B, k.n)
        [] k.fn = "memcmp"  -> memcmp(m, A, B, k.n, leftover)
        [] k.fn = "strlen"  -> strlen(m, A)
        [] k.fn = "strchr"  -> strchr(m, A, k.c)
        [] k.fn = "strrchr" -> strrchr(m, A, k.c)
        [] k.fn = "memchr"  -> memchr(m, A, k.c, k.n)
        [] k.fn = "strspn"  -> strspn(m, A, B)
        [] k.fn = "strcspn" -> strcspn(m, A, B)
        [] k.fn = "strpbrk" -> strpbrk(m, A, B)
        [] k.fn = "strstr"  -> strstr(m, A, B)

(* -1, 0 or 1 as the bytes x compare with the bytes y.                     *)
Order(x, y) ==
  LET differ == {i \in 1 .. Len(x) : i > Len(y) \/ x[i] # y[i]}
  IN  IF differ = {} THEN 0
      ELSE IF x[Smallest(differ)] > y[Smallest(differ)] THEN 1 ELSE -1

FirstOf(S) == IF S = {} THEN NULL ELSE A + Smallest(S) - 1
In(t) == {t[i] : i \in DOMAIN t}
Least(x, y) == IF x < y THEN x ELSE y

(* What the function returns, or leaves in memory.  Two of them are not    *)
(* what the names promise: strncat() writes a second NUL, behind the end,  *)
(* when its source ends before the count does, and memcmp() of no bytes    *)
(* may call them equal, less or greater.                                   *)
Right(k, r) ==
  LET m    == Laid(k.s, k.t)
      s0   == Append(k.s, 0)
      t0   == Append(k.t, 0)
      head == SubSeq(k.t, 1, Least(k.n, Len(k.t)))
      outs == {i \in 1 .. Len(s0) : s0[i] \notin In(k.t)}
      hits == {i \in 1 .. Len(k.s) : k.s[i] \in In(k.t)}
      seen == {i \in 1 .. Len(s0) : s0[i] = k.c}
  IN  CASE k.fn = "strcpy"  -> r = Written(m, A, t0)
        [] k.fn = "strncpy" -> r = Written(m, A, head \o Times(k.n - Len(head), 0))
        [] k.fn = "strcat"  -> r = Written(m, A, k.s \o t0)
        [] k.fn = "strncat" ->
             r = Written(m, A + Len(k.s),
                         head \o Times(IF Len(k.t) < k.n THEN 2 ELSE 1, 0))
        [] k.fn = "memcpy"  -> r = Written(m, A, Bytes(m, B, k.n))
        [] k.fn = "memmove" -> r = <<Written(m, A + 1, Bytes(m, A, k.n)),
                                     Written(m, A - 1, Bytes(m, A, k.n))>>
        [] k.fn = "memset"  -> r = Written(m, A, Times(k.n, k.c))
        [] k.fn = "strcmp"  -> r = Order(s0, t0)
        [] k.fn = "strncmp" -> r = Order(SubSeq(s0, 1, Least(k.n, Len(s0))),
                                         SubSeq(t0, 1, Least(k.n, Len(t0))))
        [] k.fn = "memcmp"  ->
             IF k.n = 0 THEN r \in {-1, 0, 1} ELSE r = Order(Bytes(m, A, k.n), Bytes(m, B, k.n))
        [] k.fn = "strlen"  -> r = Len(k.s)
        [] k.fn = "strchr"  -> r = FirstOf(seen)
        [] k.fn = "strrchr" ->
             r = IF seen = {} THEN NULL ELSE A - 1 + CHOOSE i \in seen : \A j \in seen : j <= i
        [] k.fn = "memchr"  -> r = FirstOf({i \in 1 .. k.n : m[A + i - 1] = k.c})
        [] k.fn = "strspn"  -> r = Smallest(outs) - 1
        [] k.fn = "strcspn" -> r = Smallest(hits \cup {Len(s0)}) - 1
        [] k.fn = "strpbrk" -> r = FirstOf(hits)
        [] k.fn = "strstr"  ->
             r = FirstOf({i \in 1 .. Len(s0) :
                            /\ i + Len(k.t) <= Len(s0)
                            /\ SubSeq(s0, i, i + Len(k.t) - 1) = k.t})

-----------------------------------------------------------------------------
(* Formats: one conversion, then a character and a string.  passed says    *)
(* that the width is an argument, star that the precision is.              *)
PrintCall ==
  [lib : {"print"}, flags : SUBSET {"-", "+", " ", "#", "0"}, passed : BOOLEAN,
   width : Widths, precision : Precisions, star : BOOLEAN, long : BOOLEAN,
   conv : Conversions, arg : Numbers]
  \cup
  [lib : {"print"}, flags : {{}, {"-"}}, passed : BOOLEAN,
   width : Widths, precision : Precisions, star : BOOLEAN, long : {FALSE},
   conv : {"s"}, arg : UpTo(MaxLen, {"y", "z"})]
  \cup
  [lib : {"print"}, flags : {{}, {"-"}}, passed : BOOLEAN,
   width : Widths, precision : {-1}, star : {FALSE}, long : {FALSE},
   conv : {"c"}, arg : {"y"}]

(* A width that is written is none, or positive: a zero would be a flag.   *)
WidthGiven(k) == k.passed \/ k.width = -1 \/ k.width > 0

Decimal(n) == IF n < 10 THEN <<Digits[n + 1]>> ELSE <<Digits[(n \div 10) + 1], Digits[(n % 10) + 1]>>

FlagOrder == <<"0", "-", "+", " ", "#">>

(* The conversion from behind the width on.                                *)
FromPrecision(k) ==
  (IF k.precision < 0 THEN <<>> ELSE IF k.star THEN <<".", "*">> ELSE <<".">> \o Decimal(k.precision))
  \o (IF k.long THEN <<"l">> ELSE <<>>)
  \o <<k.conv>>

(* The code stays on the * of a width that is passed and not negative: the *)
(* conversion ends there, and what follows it is plain text.  %s and %n    *)
(* would then find arguments that are not theirs: such a format has none.  *)
EndsAtStar(k) == k.passed /\ k.width >= 0

Fmt(k) ==
  <<"%">>
  \o SelectSeq(FlagOrder, LAMBDA f : f \in k.flags)
  \o (IF k.passed THEN <<"*">> ELSE IF k.width > 0 THEN Decimal(k.width) ELSE <<>>)
  \o FromPrecision(k)
  \o <<"a", "%", "%">>
  \o (IF EndsAtStar(k) THEN <<>> ELSE <<"%", "s", "%", "n">>)

Args(k) ==
  (IF k.passed THEN <<k.width>> ELSE <<>>)
  \o (IF k.star /\ k.precision >= 0 THEN <<k.precision>> ELSE <<>>)
  \o <<k.arg, <<"y", "z">>, "ip">>

Rest == <<"a", "%", "y", "z">>

Blank(x) == x = " "
Solid(text) == SelectSeq(text, LAMBDA x : ~Blank(x))

(* The place where a field that is not full must be blank.                 *)
LeftOf(k) == "-" \in k.flags \/ (k.passed /\ k.width < 0)
FieldWidth(k) == IF k.passed /\ k.width < 0 THEN -k.width ELSE k.width

(* The number that the digits of a text spell.                             *)
Spelt(digits, base) ==
  LET value[i \in 0 .. Len(digits)] ==
        IF i = 0 THEN 0 ELSE value[i - 1] * base + ValueOf(digits[i])
  IN  value[Len(digits)]

NumberRight(k, text) ==
  LET negative == k.conv \in {"d", "i"} /\ k.arg < 0
      amount   == IF negative THEN -k.arg ELSE Unsigned(k.arg)
      sign     == IF negative THEN <<"-">> ELSE IF "+" \in k.flags THEN <<"+">> ELSE <<>>
      blank    == IF sign = <<>> /\ " " \in k.flags THEN 1 ELSE 0
      prefix   == IF "#" \notin k.flags THEN <<>>
                  ELSE IF Base(k.conv) = 16 THEN <<"0", "x">>
                  ELSE IF Base(k.conv) = 8 THEN <<"0">> ELSE <<>>
      before   == sign \o prefix
      solid    == Solid(text)
      digits   == SubSeq(solid, Len(before) + 1, Len(solid))
      count    == Smallest({j \in 1 .. WordBits \div 2 : amount < Base(k.conv) ^ j})
      needed   == blank + Len(before) + Larger(k.precision, count)
      pointer  == k.conv = "p" /\ k.width = -1 /\ ~k.passed
      width    == IF pointer THEN 8 ELSE FieldWidth(k)
      zeros    == "0" \in k.flags \/ pointer
  IN  /\ SubSeq(solid, 1, Len(before)) = before
      /\ \A i \in DOMAIN digits : ValueOf(digits[i]) < Base(k.conv)
      /\ Spelt(digits, Base(k.conv)) = amount
      /\ Len(text) = Larger(width, needed)
      /\ IF LeftOf(k) THEN SubSeq(text, blank + 1, blank + Len(solid)) = solid
         ELSE IF zeros THEN Len(solid) + blank = Len(text) /\ ~Blank(text[Len(text)])
         ELSE ~Blank(text[Len(text)]) /\ Len(digits) = Larger(k.precision, count)

TextRight(k, text) ==
  LET shown == IF k.conv = "c" THEN <<k.arg>>
               ELSE IF k.precision < 0 THEN k.arg
               ELSE SubSeq(k.arg, 1, Least(k.precision, Len(k.arg)))
      start == IF LeftOf(k) THEN 1 ELSE Len(text) - Len(shown) + 1
  IN  /\ Len(text) = Larger(FieldWidth(k), Len(shown))
      /\ SubSeq(text, start, start + Len(shown) - 1) = shown
      /\ Len(Solid(text)) = Len(shown)

-----------------------------------------------------------------------------
(* Descriptors.  The parent of a task other than task1 is a descendant of  *)
(* task1, or task1.                                                        *)
LdtOf(task_nr) ==
  IF task_nr = 0 THEN Task0Ldt
  ELSE IF task_nr = 1 THEN CopyMem(Task0Ldt, 1)
  ELSE CopyMem(CopyMem(Task0Ldt, 1), task_nr)

ForkCall == [lib : {"fork"}, parent : Tasks, child : Tasks \ {0}, tss : Addresses, ldt : Addresses]

LikelyFork(k) == k.parent # k.child /\ (k.parent = 0 <=> k.child = 1)

GateCall == [lib : {"gate"}, type : {14, 15}, addr : Addresses, dpl : {0, 3}]

(* head.s reserves room for this many entries of the GDT, and sets the     *)
(* limit of the GDTR.                                                      *)
GdtEntries == 3 + 64 * 2
GdtLimit == 64 * 8 + 1
NoEntries == [i \in 0 .. GdtEntries |-> <<0, 0, 0, 0, 0, 0, 0, 0>>]

(* What the CPU reads in a descriptor: base, gate offset and access byte.  *)
BaseRead(d) == <<d[3], d[4], d[5], d[8]>>
OffsetRead(d) == <<d[1], d[2], d[7], d[8]>>

ForkRight(k, r) ==
  LET parent == LdtOf(k.parent)
      tssAt  == TSS(k.child) \div 8
      ldtAt  == LDT(k.child) \div 8
  IN  /\ ~CopyMemPanics(parent)
      /\ \A seg \in {"code", "data"} :
           /\ BaseRead(r.ldt[seg]) = <<0, 0, 0, 4 * k.child>>
           /\ SegmentLimit(r.ldt[seg]) = <<255, 0, 0>>
           /\ r.ldt[seg][6] = Task0Ldt[seg][6] /\ r.ldt[seg][7] = 192
      /\ BaseRead(r.gdt[tssAt]) = k.tss /\ r.gdt[tssAt][6] % 16 = 9
      /\ BaseRead(r.gdt[ldtAt]) = k.ldt /\ r.gdt[ldtAt][6] % 16 = 2
      /\ \A d \in {tssAt, ldtAt} : r.gdt[d][6] >= 128 /\ r.gdt[d][7] = 0
      /\ \A d \in DOMAIN r.gdt \ {tssAt, ldtAt} : r.gdt[d] = NoEntries[d]

GateRight(k, d) ==
  /\ OffsetRead(d) = k.addr
  /\ d[3] = 8 /\ d[4] = 0 /\ d[5] = 0
  /\ d[6] >= 128 /\ (d[6] \div 32) % 4 = k.dpl /\ d[6] % 32 = k.type

-----------------------------------------------------------------------------
Init ==
  /\ \/ call \in StringCall /\ Sensible(call)
     \/ call \in PrintCall /\ WidthGiven(call)
     \/ call \in ForkCall /\ LikelyFork(call)
     \/ call \in GateCall
  /\ result = <<>> /\ done = FALSE

Returns(lib, value) ==
  /\ ~done /\ call.lib = lib
  /\ result' = value
  /\ done' = TRUE
  /\ UNCHANGED call

Next ==
  \/ \E leftover \in {-1, 0, 1} : Returns("string", Run(call, leftover))
  \/ Returns("print", vsprintf(Fmt(call), Args(call)))
  \/ Returns("fork", [ldt |-> CopyMem(LdtOf(call.parent), call.child),
                      gdt |-> TaskEntries(NoEntries, call.child, call.tss, call.ldt)])
  \/ Returns("gate", set_gate(call.type, 8, call.addr, call.dpl))

Spec == Init /\ [][Next]_libVars

Returned(lib) == done /\ call.lib = lib

-----------------------------------------------------------------------------
(* What every string function returns, compares as signed bytes and leaves *)
(* in memory, to the byte: what its name says, also for empty strings,     *)
(* counts of zero or beyond the end, and blocks that overlap.  The         *)
(* exceptions are part of it: strncat() ends a source that is shorter than *)
(* the count with two NULs, the second beyond the string, and memcmp() of  *)
(* no bytes answers anything.                                              *)
StringsExact == Returned("string") => Right(call, result)

(* vsprintf() writes a field of the right width, blank or padded with      *)
(* zeros on the right side, that spells its argument in the base of the    *)
(* conversion, the smallest int included; it consumes the arguments that   *)
(* belong to it and goes on behind the conversion.  With a width passed    *)
(* for a * this is so of negative widths only.  Any other takes its        *)
(* argument, and the conversion then comes out as text, the * and all,     *)
(* with the arguments of the precision and of the number left behind for   *)
(* what follows; so much for the comment that the missing step over the *  *)
(* has been put in (vsprintf.c:129).                                       *)
FieldsExact ==
  Returned("print") =>
    LET str   == result.str
        field == SubSeq(str, 1, Len(str) - Len(Rest))
    IN  IF EndsAtStar(call)
          THEN /\ str = <<"%", "*">> \o FromPrecision(call) \o <<"a", "%">>
               /\ result.left = Tail(Args(call)) /\ result.stores = <<>>
          ELSE /\ SubSeq(str, Len(field) + 1, Len(str)) = Rest
               /\ result.left = <<>> /\ result.stores = <<Len(str)>>
               /\ IF call.conv \in {"c", "s"} THEN TextRight(call, field)
                  ELSE NumberRight(call, field)

(* A child gets segments of its own 64 MB, with the 1 MB limit of task1    *)
(* and the rights of task0, whoever its father is, and descriptors in the  *)
(* GDT where its selectors point, and no entry but its two is written.  A  *)
(* gate leads to its handler with its type and privilege.                  *)
DescriptorsExact ==
  /\ Returned("fork") => ForkRight(call, result)
  /\ Returned("gate") => GateRight(call, result)

(* "support maxmium 64 tasks" (head.s:109): the limit of the GDTR takes in *)
(* both descriptors of whichever of the 64 tasks is forked, so that the    *)
(* CPU can switch to it.                                                   *)
TasksWithinLimit ==
  Returned("fork") =>
    TSS(call.child) + 7 <= GdtLimit /\ LDT(call.child) + 7 <= GdtLimit

=============================================================================
