------------------------------ MODULE Strings ------------------------------
(***************************************************************************)
(* The string functions (lib/string.c): loops of x86 string instructions   *)
(* over a memory m, a function from addresses to signed bytes.  A loop     *)
(* that the code counts down from 0xffffffff never reaches zero in a       *)
(* string that ends.                                                       *)
(*                                                                         *)
(* memmove() leaves the direction flag set when it copies downwards; every *)
(* function here clears it before use, and nothing in the kernel calls     *)
(* memmove().                                                              *)
(***************************************************************************)
EXTENDS Integers

NULL == 0
Unlimited == 10000      (* 0xffffffff in ecx                               *)

(* rep stosb, rep movsb (dir is the direction flag), repne scasb and repe  *)
(* cmpsb: what they leave in memory, in esi, edi and ecx, and in ZF.       *)
RECURSIVE Stosb(_, _, _, _)
Stosb(m, di, al, cx) ==
  IF cx = 0 THEN m ELSE Stosb([m EXCEPT ![di] = al], di + 1, al, cx - 1)

RECURSIVE Movsb(_, _, _, _, _)
Movsb(m, si, di, cx, dir) ==
  IF cx = 0 THEN m ELSE Movsb([m EXCEPT ![di] = m[si]], si + dir, di + dir, cx - 1, dir)

RECURSIVE Scasb(_, _, _, _)
Scasb(m, di, al, cx) ==
  IF cx = 0 THEN [di |-> di, cx |-> 0, zf |-> FALSE]
  ELSE IF m[di] = al THEN [di |-> di + 1, cx |-> cx - 1, zf |-> TRUE]
  ELSE Scasb(m, di + 1, al, cx - 1)

(* zf is what ZF was before, which a count of zero leaves as it is.        *)
RECURSIVE Cmpsb(_, _, _, _, _)
Cmpsb(m, si, di, cx, zf) ==
  IF cx = 0 THEN [si |-> si, di |-> di, zf |-> zf]
  ELSE IF m[si] # m[di] THEN [si |-> si + 1, di |-> di + 1, zf |-> FALSE]
  ELSE Cmpsb(m, si + 1, di + 1, cx - 1, TRUE)

-----------------------------------------------------------------------------
strlen(m, s) == Unlimited - Scasb(m, s, 0, Unlimited).cx - 1

(* lodsb; stosb until a NUL has been copied or cx characters have.         *)
RECURSIVE CopyAtMost(_, _, _, _)
CopyAtMost(m, si, di, cx) ==
  IF cx <= 0 THEN [m |-> m, di |-> di, cx |-> cx, nul |-> FALSE]
  ELSE LET copied == [m EXCEPT ![di] = m[si]]
       IN  IF m[si] = 0 THEN [m |-> copied, di |-> di + 1, cx |-> cx - 1, nul |-> TRUE]
           ELSE CopyAtMost(copied, si + 1, di + 1, cx - 1)

End(m, s) == Scasb(m, s, 0, Unlimited).di - 1

strcpy(m, dest, src) == CopyAtMost(m, src, dest, Unlimited).m

strncpy(m, dest, src, count) ==
  LET r == CopyAtMost(m, src, dest, count)
  IN  IF r.nul THEN Stosb(r.m, r.di, 0, r.cx) ELSE r.m

strcat(m, dest, src) == CopyAtMost(m, src, End(m, dest), Unlimited).m

(* A NUL goes behind what was copied, also when that ended with one.       *)
strncat(m, dest, src, count) ==
  LET r == CopyAtMost(m, src, End(m, dest), count)
  IN  [r.m EXCEPT ![r.di] = 0]

memcpy(m, dest, src, n) == Movsb(m, src, dest, n, 1)

(* Wrong variant: always upwards.                                          *)
MoveUpwards(m, dest, src, n) == Movsb(m, src, dest, n, 1)

memmove(m, dest, src, n) ==
  IF dest < src THEN Movsb(m, src, dest, n, 1)
  ELSE Movsb(m, src + n - 1, dest + n - 1, n, -1)

memset(m, s, c, count) == Stosb(m, s, c, count)

-----------------------------------------------------------------------------
(* scasb compares the character of ct with that of cs, as signed bytes.    *)
RECURSIVE strncmp(_, _, _, _)
strncmp(m, cs, ct, count) ==
  IF count <= 0 THEN 0
  ELSE IF m[ct] < m[cs] THEN 1
  ELSE IF m[ct] > m[cs] THEN -1
  ELSE IF m[ct] = 0 THEN 0
  ELSE strncmp(m, cs + 1, ct + 1, count - 1)

strcmp(m, cs, ct) == strncmp(m, cs, ct, Unlimited)

(* With a count of zero cmpsb sets no flag: je and jl then go by the flags *)
(* that were left over, and leftover is what these come to.                *)
memcmp(m, cs, ct, count, leftover) ==
  LET r == Cmpsb(m, ct, cs, count, FALSE)
  IN  IF count = 0 THEN leftover
      ELSE IF r.zf THEN 0
      ELSE IF m[r.si - 1] < m[r.di - 1] THEN 1 ELSE -1

-----------------------------------------------------------------------------
RECURSIVE strchr(_, _, _)
strchr(m, s, c) ==
  IF m[s] = c THEN s ELSE IF m[s] = 0 THEN NULL ELSE strchr(m, s + 1, c)

RECURSIVE LastSeen(_, _, _, _)
LastSeen(m, s, c, res) ==
  LET seen == IF m[s] = c THEN s ELSE res
  IN  IF m[s] = 0 THEN seen ELSE LastSeen(m, s + 1, c, seen)

strrchr(m, s, c) == LastSeen(m, s, c, NULL)

memchr(m, cs, c, count) ==
  LET r == Scasb(m, cs, c, count)
  IN  IF count # 0 /\ r.zf THEN r.di - 1 ELSE NULL

(* Where the characters of cs stop being in ct (member), or being outside. *)
RECURSIVE SpanEnd(_, _, _, _)
SpanEnd(m, cs, ct, member) ==
  IF m[cs] = 0 \/ Scasb(m, ct, m[cs], strlen(m, ct)).zf # member THEN cs
  ELSE SpanEnd(m, cs + 1, ct, member)

strspn(m, cs, ct) == SpanEnd(m, cs, ct, TRUE) - cs
strcspn(m, cs, ct) == SpanEnd(m, cs, ct, FALSE) - cs

strpbrk(m, cs, ct) ==
  LET found == SpanEnd(m, cs, ct, FALSE)
  IN  IF m[found] = 0 THEN NULL ELSE found

(* It gives up when the character that did not match is the end of cs.     *)
RECURSIVE strstr(_, _, _)
strstr(m, cs, ct) ==
  LET len == strlen(m, ct)
      r == Cmpsb(m, cs, ct, len, len = 0)
  IN  IF r.zf THEN cs
      ELSE IF m[r.si - 1] = 0 THEN NULL
      ELSE strstr(m, cs + 1, ct)

=============================================================================
