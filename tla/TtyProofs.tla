----------------------------- MODULE TtyProofs -----------------------------
(* Theorems of Tty, for every size of the queues, every set of characters  *)
(* and every termios: what is in secondary are the lines of an editor, and *)
(* the erasures that are sent match the echo.                              *)
EXTENDS Tty, FiniteSetTheorems, SequenceTheorems, WellFoundedInduction, TLAPS

Item == {"NL", "CR", "echo", "ASC_DEL"}
Call == [killing : BOOLEAN, open : BOOLEAN]

TtyType ==
  /\ termios \in SUBSET Flags
  /\ read_q \in Seq(Char) /\ secondary \in Seq(Char)
  /\ data \in Nat /\ stopped \in BOOLEAN /\ overrun \in BOOLEAN /\ astray \in BOOLEAN
  /\ calls \in Seq(Call)

-----------------------------------------------------------------------------
(* Induction over the natural numbers, for sets.                           *)
LEMMA LeastNumber ==
  ASSUME NEW S \in SUBSET Nat, S # {}
  PROVE  \E n \in S : \A m \in S : n <= m
<1> DEFINE R == {ss \in Nat \X Nat : ss[1] < ss[2]}
<1>1. IsWellFoundedOn(R, Nat)
  BY NatLessThanWellFounded DEF OpToRel
<1>2. \A m, n \in Nat : <<m, n>> \in R <=> m < n
  OBVIOUS
<1> HIDE DEF R
<1>3. PICK n \in S : \A m \in S : ~ (<<m, n>> \in R)
  BY <1>1, WFMin, Zenon
<1>4. \A m \in S : n <= m
  <2> TAKE m \in S
  <2>1. m \in Nat /\ n \in Nat /\ ~ (<<m, n>> \in R)
    BY <1>3
  <2> QED BY <2>1, <1>2
<1> QED BY <1>4

LEMMA SetInduction ==
  ASSUME NEW S, 0 \in S, \A n \in Nat : n \in S => n + 1 \in S
  PROVE  \A n \in Nat : n \in S
<1> SUFFICES ASSUME NEW m \in Nat, m \notin S PROVE FALSE
  OBVIOUS
<1> DEFINE T == {n \in Nat : n \notin S}
<1>1. PICK n \in T : \A k \in T : n <= k
  BY LeastNumber
<1>2. n - 1 \in Nat /\ n - 1 \notin T
  BY <1>1
<1> QED BY <1>1, <1>2

-----------------------------------------------------------------------------
(* The last character that ends a line.                                    *)
IsEnd(s, e) ==
  /\ e \in 0 .. Len(s) /\ (e # 0 => EndsLine(s[e]))
  /\ \A i \in e + 1 .. Len(s) : ~EndsLine(s[i])

LEMMA EndUnique ==
  ASSUME NEW s \in Seq(Char), NEW e, NEW f, IsEnd(s, e), IsEnd(s, f)
  PROVE  e = f
<1>1. Len(s) \in Nat /\ e \in Nat /\ f \in Nat /\ e <= Len(s) /\ f <= Len(s)
  BY DEF IsEnd
<1>2. ~ e < f
  <2> SUFFICES ASSUME e < f PROVE FALSE
    OBVIOUS
  <2>1. f # 0 /\ f \in e + 1 .. Len(s)
    BY <1>1
  <2> QED BY <2>1 DEF IsEnd
<1>3. ~ f < e
  <2> SUFFICES ASSUME f < e PROVE FALSE
    OBVIOUS
  <2>1. e # 0 /\ e \in f + 1 .. Len(s)
    BY <1>1
  <2> QED BY <2>1 DEF IsEnd
<1> QED BY <1>1, <1>2, <1>3

LEMMA GreatestIn ==
  ASSUME NEW n \in Nat, NEW S \in SUBSET (1 .. n), S # {}
  PROVE  \E i \in S : \A j \in S : j <= i
<1> DEFINE T == {n - i : i \in S}
<1>1. T \in SUBSET Nat /\ T # {}
  <2>1. ASSUME NEW i \in S PROVE n - i \in Nat
    OBVIOUS
  <2> QED BY <2>1
<1>2. PICK d \in T : \A m \in T : d <= m
  BY <1>1, LeastNumber
<1>3. PICK i \in S : d = n - i
  OBVIOUS
<1>4. ASSUME NEW j \in S PROVE j <= i
  <2>1. n - j \in T
    OBVIOUS
  <2>2. d <= n - j /\ j \in Nat /\ i \in Nat
    BY <1>2, <2>1
  <2> QED BY <1>3, <2>2
<1> QED BY <1>4

LEMMA EndedIsEnd == secondary \in Seq(Char) => IsEnd(secondary, Ended)
<1> SUFFICES ASSUME secondary \in Seq(Char) PROVE IsEnd(secondary, Ended)
  OBVIOUS
<1> DEFINE ends == {i \in DOMAIN secondary : EndsLine(secondary[i])}
           last == CHOOSE i \in ends : \A j \in ends : j <= i
<1>1. Ended = IF ends = {} THEN 0 ELSE last
  BY Zenon DEF Ended
<1>2. DOMAIN secondary = 1 .. Len(secondary) /\ Len(secondary) \in Nat
  BY LenProperties
<1>3. CASE ends = {}
  <2>1. \A i \in 1 .. Len(secondary) : ~EndsLine(secondary[i])
    BY <1>2, <1>3
  <2> QED BY <1>1, <1>2, <1>3, <2>1 DEF IsEnd
<1>4. CASE ends # {}
  <2>1. ends \in SUBSET (1 .. Len(secondary))
    BY <1>2
  <2> HIDE DEF ends
  <2>2. \E i \in ends : \A j \in ends : j <= i
    BY <1>2, <1>4, <2>1, GreatestIn
  <2>3. last \in ends /\ \A j \in ends : j <= last
    BY <2>2, Zenon
  <2> HIDE DEF last
  <2>4. last \in 1 .. Len(secondary) /\ EndsLine(secondary[last])
    BY <2>3, <1>2 DEF ends
  <2>5. ASSUME NEW i \in last + 1 .. Len(secondary) PROVE ~EndsLine(secondary[i])
    <3>1. i \in 1 .. Len(secondary) /\ ~ i <= last
      BY <2>4, <1>2
    <3> QED BY <3>1, <2>3, <1>2 DEF ends
  <2> QED BY <1>1, <1>4, <2>4, <2>5, <1>2 DEF IsEnd
<1> QED BY <1>3, <1>4

-----------------------------------------------------------------------------
(* Characters taken from the end of the line, and a character added.       *)
LEMMA Shortened ==
  ASSUME NEW s \in Seq(Char), NEW e, IsEnd(s, e), NEW n \in e .. Len(s)
  PROVE  /\ SubSeq(s, 1, n) \in Seq(Char) /\ Len(SubSeq(s, 1, n)) = n
         /\ IsEnd(SubSeq(s, 1, n), e)
         /\ SubSeq(SubSeq(s, 1, n), 1, e) = SubSeq(s, 1, e)
         /\ SubSeq(SubSeq(s, 1, n), e + 1, n) = SubSeq(s, e + 1, n)
<1> DEFINE r == SubSeq(s, 1, n)
<1>1. Len(s) \in Nat /\ e \in Nat /\ n \in Nat /\ e <= n /\ n <= Len(s)
  BY DEF IsEnd
<1>2. \A i \in 1 .. Len(s) : s[i] \in Char
  BY ElementOfSeq
<1>3. r \in Seq(Char) /\ Len(r) = n /\ \A i \in 1 .. n : r[i] = s[i]
  <2>1. \A i \in 1 .. n : s[i] \in Char
    BY <1>1, <1>2
  <2>2. /\ r \in Seq(Char) /\ Len(r) = IF 1 <= n THEN n - 1 + 1 ELSE 0
        /\ \A i \in 1 .. n - 1 + 1 : r[i] = s[1 + i - 1]
    BY <1>1, <2>1, SubSeqProperties
  <2> HIDE DEF r
  <2>3. Len(r) = n
    BY <1>1, <2>2
  <2>4. ASSUME NEW i \in 1 .. n PROVE r[i] = s[i]
    <3>1. i \in 1 .. n - 1 + 1 /\ 1 + i - 1 = i
      BY <1>1
    <3> QED BY <2>2, <3>1
  <2> QED BY <2>2, <2>3, <2>4
<1> HIDE DEF r
<1>4. IsEnd(r, e)
  <2>1. e # 0 => EndsLine(r[e])
    BY <1>1, <1>3 DEF IsEnd
  <2>2. ASSUME NEW i \in e + 1 .. n PROVE ~EndsLine(r[i])
    <3>1. i \in e + 1 .. Len(s) /\ i \in 1 .. n
      BY <1>1
    <3> QED BY <3>1, <1>3 DEF IsEnd
  <2> QED BY <1>1, <1>3, <2>1, <2>2 DEF IsEnd
<1>5. ASSUME NEW a \in Int, NEW b \in Int, a >= 1, b <= n
      PROVE  SubSeq(r, a, b) = SubSeq(s, a, b)
  <2>1. \A i \in a .. b : r[i] = s[i] /\ s[i] \in Char /\ r[i] \in Char
    BY <1>1, <1>2, <1>3, <1>5
  <2>2. /\ SubSeq(r, a, b) \in Seq(Char) /\ Len(SubSeq(r, a, b)) = (IF a <= b THEN b - a + 1 ELSE 0)
        /\ \A i \in 1 .. b - a + 1 : SubSeq(r, a, b)[i] = r[a + i - 1]
    BY <2>1, SubSeqProperties
  <2>3. /\ SubSeq(s, a, b) \in Seq(Char) /\ Len(SubSeq(s, a, b)) = (IF a <= b THEN b - a + 1 ELSE 0)
        /\ \A i \in 1 .. b - a + 1 : SubSeq(s, a, b)[i] = s[a + i - 1]
    BY <2>1, SubSeqProperties
  <2>4. ASSUME NEW i \in 1 .. Len(SubSeq(r, a, b)) PROVE SubSeq(r, a, b)[i] = SubSeq(s, a, b)[i]
    <3>1. i \in 1 .. b - a + 1 /\ a + i - 1 \in a .. b
      BY <2>2
    <3> QED BY <3>1, <2>1, <2>2, <2>3
  <2> QED BY <2>2, <2>3, <2>4, SeqEqual
<1>6. SubSeq(r, 1, e) = SubSeq(s, 1, e) /\ SubSeq(r, e + 1, n) = SubSeq(s, e + 1, n)
  BY <1>1, <1>5
<1> QED BY <1>3, <1>4, <1>6 DEF r

LEMMA Grown ==
  ASSUME NEW s \in Seq(Char), NEW e, IsEnd(s, e), NEW c \in Char
  PROVE  /\ Append(s, c) \in Seq(Char) /\ Len(Append(s, c)) = Len(s) + 1
         /\ EndsLine(c) => IsEnd(Append(s, c), Len(s) + 1)
         /\ ~EndsLine(c) => IsEnd(Append(s, c), e)
<1> DEFINE r == Append(s, c)
<1>1. Len(s) \in Nat /\ e \in Nat /\ e <= Len(s)
  BY DEF IsEnd
<1>2. /\ r \in Seq(Char) /\ Len(r) = Len(s) + 1 /\ r[Len(s) + 1] = c
      /\ \A i \in 1 .. Len(s) : r[i] = s[i]
  BY AppendProperties
<1> HIDE DEF r
<1>3. ASSUME EndsLine(c) PROVE IsEnd(r, Len(s) + 1)
  BY <1>1, <1>2, <1>3 DEF IsEnd
<1>4. ASSUME ~EndsLine(c) PROVE IsEnd(r, e)
  <2>1. e # 0 => EndsLine(r[e])
    BY <1>1, <1>2 DEF IsEnd
  <2>2. ASSUME NEW i \in e + 1 .. Len(s) + 1 PROVE ~EndsLine(r[i])
    <3>1. CASE i = Len(s) + 1
      BY <3>1, <1>2, <1>4
    <3>2. CASE i # Len(s) + 1
      <4>1. i \in e + 1 .. Len(s) /\ i \in 1 .. Len(s)
        BY <1>1, <3>2
      <4> QED BY <4>1, <1>2 DEF IsEnd
    <3> QED BY <3>1, <3>2
  <2> QED BY <1>1, <1>2, <2>1, <2>2 DEF IsEnd
<1> QED BY <1>2, <1>3, <1>4 DEF r

(* The part up to m is that of s, and the rest has one character more.     *)
LEMMA GrownParts ==
  ASSUME NEW s \in Seq(Char), NEW c \in Char, NEW m \in 0 .. Len(s)
  PROVE  /\ SubSeq(Append(s, c), 1, m) = SubSeq(s, 1, m)
         /\ SubSeq(Append(s, c), m + 1, Len(s) + 1) = Append(SubSeq(s, m + 1, Len(s)), c)
         /\ SubSeq(s, 1, m) \o SubSeq(s, m + 1, Len(s)) = s
<1> DEFINE r == Append(s, c)
           n == Len(s)
<1>1. n \in Nat /\ m \in Nat /\ m <= n /\ \A i \in 1 .. n : s[i] \in Char
  BY ElementOfSeq
<1>2. /\ r \in Seq(Char) /\ Len(r) = n + 1 /\ r[n + 1] = c
      /\ \A i \in 1 .. n : r[i] = s[i]
  BY AppendProperties
<1>3. SubSeq(s, 1, m) \o SubSeq(s, m + 1, n) = s
  <2>1. SubSeq(s, 1, m) \o SubSeq(s, m + 1, n) = SubSeq(s, 1, n)
    <3>1. 1 \in 1 .. Len(s) + 1 /\ m \in 1 - 1 .. Len(s) /\ n \in m .. Len(s)
      BY <1>1
    <3> QED BY <3>1, ConcatAdjacentSubSeq
  <2> QED BY <2>1, SubSeqFull
<1> HIDE DEF r, n
<1>4. SubSeq(r, 1, m) = SubSeq(s, 1, m)
  <2>1. \A i \in 1 .. m : r[i] = s[i] /\ s[i] \in Char /\ r[i] \in Char
    BY <1>1, <1>2
  <2>2. /\ SubSeq(r, 1, m) \in Seq(Char) /\ Len(SubSeq(r, 1, m)) = (IF 1 <= m THEN m - 1 + 1 ELSE 0)
        /\ \A i \in 1 .. m - 1 + 1 : SubSeq(r, 1, m)[i] = r[1 + i - 1]
    BY <1>1, <2>1, SubSeqProperties
  <2>3. /\ SubSeq(s, 1, m) \in Seq(Char) /\ Len(SubSeq(s, 1, m)) = (IF 1 <= m THEN m - 1 + 1 ELSE 0)
        /\ \A i \in 1 .. m - 1 + 1 : SubSeq(s, 1, m)[i] = s[1 + i - 1]
    BY <1>1, <2>1, SubSeqProperties
  <2>4. ASSUME NEW i \in 1 .. Len(SubSeq(r, 1, m)) PROVE SubSeq(r, 1, m)[i] = SubSeq(s, 1, m)[i]
    <3>1. i \in 1 .. m /\ i \in 1 .. m - 1 + 1 /\ 1 + i - 1 = i
      BY <1>1, <2>2
    <3> QED BY <3>1, <2>1, <2>2, <2>3
  <2> QED BY <2>2, <2>3, <2>4, SeqEqual
<1>5. SubSeq(r, m + 1, n + 1) = Append(SubSeq(s, m + 1, n), c)
  <2> DEFINE a == SubSeq(r, m + 1, n + 1)
             b == SubSeq(s, m + 1, n)
  <2>1. \A i \in m + 1 .. n + 1 : r[i] \in Char
    BY <1>1, <1>2
  <2>2. /\ a \in Seq(Char) /\ Len(a) = (IF m + 1 <= n + 1 THEN (n + 1) - (m + 1) + 1 ELSE 0)
        /\ \A i \in 1 .. (n + 1) - (m + 1) + 1 : a[i] = r[(m + 1) + i - 1]
    BY <1>1, <2>1, SubSeqProperties
  <2>3. \A i \in m + 1 .. n : s[i] \in Char
    BY <1>1
  <2>4. /\ b \in Seq(Char) /\ Len(b) = (IF m + 1 <= n THEN n - (m + 1) + 1 ELSE 0)
        /\ \A i \in 1 .. n - (m + 1) + 1 : b[i] = s[(m + 1) + i - 1]
    BY <1>1, <2>3, SubSeqProperties
  <2> HIDE DEF a, b
  <2>5. Len(a) = n - m + 1 /\ Len(b) = n - m
    BY <1>1, <2>2, <2>4
  <2>6. /\ Append(b, c) \in Seq(Char) /\ Len(Append(b, c)) = n - m + 1
        /\ Append(b, c)[n - m + 1] = c
        /\ \A i \in 1 .. n - m : Append(b, c)[i] = b[i]
    BY <2>4, <2>5, AppendProperties
  <2>7. ASSUME NEW i \in 1 .. Len(a) PROVE a[i] = Append(b, c)[i]
    <3>1. i \in 1 .. (n + 1) - (m + 1) + 1 /\ (m + 1) + i - 1 = m + i /\ i \in 1 .. n - m + 1
      BY <1>1, <2>5
    <3>2. a[i] = r[m + i]
      BY <2>2, <3>1
    <3>3. CASE i = n - m + 1
      <4>1. m + i = n + 1
        BY <1>1, <3>3
      <4> QED BY <3>2, <3>3, <4>1, <1>2, <2>6
    <3>4. CASE i # n - m + 1
      <4>1. i \in 1 .. n - m /\ i \in 1 .. n - (m + 1) + 1 /\ m + i \in 1 .. n
        BY <1>1, <3>1, <3>4
      <4>2. b[i] = s[m + i]
        BY <2>4, <3>1, <4>1
      <4>3. Append(b, c)[i] = b[i] /\ r[m + i] = s[m + i]
        BY <4>1, <2>6, <1>2
      <4> QED BY <3>2, <4>2, <4>3
    <3> QED BY <3>3, <3>4
  <2> QED BY <2>2, <2>5, <2>6, <2>7, SeqEqual DEF a, b
<1> QED BY <1>3, <1>4, <1>5 DEF r, n

-----------------------------------------------------------------------------
(* TtyType is inductive.                                                   *)
Done == SubSeq(secondary, 1, Ended)
Line == SubSeq(secondary, Ended + 1, Len(secondary))

LEMMA ConvertedIsChar ==
  ASSUME NEW c \in Char PROVE Converted(c) \in Char
BY DEF Converted, Char, Control

(* A correction takes its characters off the line.                         *)
LEMMA TakenBack ==
  ASSUME TtyType, NEW n \in Ended .. Len(secondary), secondary' = SubSeq(secondary, 1, n)
  PROVE  /\ secondary' \in Seq(Char) /\ Len(secondary') = n
         /\ Ended' = Ended /\ Done' = Done /\ Line' = SubSeq(secondary, Ended + 1, n)
<1>1. secondary \in Seq(Char)
  BY DEF TtyType
<1>2. IsEnd(secondary, Ended)
  BY <1>1, EndedIsEnd
<1> DEFINE e == Ended
           s == secondary
           t == SubSeq(secondary, 1, n)
<1>3. /\ t \in Seq(Char) /\ Len(t) = n /\ IsEnd(t, e)
      /\ SubSeq(t, 1, e) = SubSeq(s, 1, e)
      /\ SubSeq(t, e + 1, n) = SubSeq(s, e + 1, n)
  <2> HIDE DEF e
  <2>1. n \in e .. Len(s) /\ IsEnd(s, e)
    BY <1>2 DEF e
  <2> QED BY <1>1, <2>1, Shortened, ZenonT(40)
<1> HIDE DEF t, e
<1>4. secondary' = t
  BY DEF t
<1>5. (secondary \in Seq(Char) => IsEnd(secondary, Ended))'
  BY EndedIsEnd, PTL
<1>6. IsEnd(t, Ended')
  BY <1>3, <1>4, <1>5 DEF IsEnd
<1>7. Ended' = e
  BY <1>3, <1>6, EndUnique
<1>8. Done' = SubSeq(t, 1, e) /\ Line' = SubSeq(t, e + 1, n)
  BY <1>3, <1>4, <1>7 DEF Done, Line
<1> QED BY <1>3, <1>4, <1>7, <1>8 DEF Done, e

LEMMA Stored ==
  ASSUME TtyType, NEW c \in Char, secondary' = Append(secondary, c)
  PROVE  /\ secondary' \in Seq(Char)
         /\ EndsLine(c) => Done' = Append(Done \o Line, c) /\ Line' = <<>>
         /\ ~EndsLine(c) => Done' = Done /\ Line' = Append(Line, c)
<1>1. secondary \in Seq(Char)
  BY DEF TtyType
<1>2. IsEnd(secondary, Ended)
  BY <1>1, EndedIsEnd
<1> DEFINE e == Ended
           s == secondary
           n == Len(secondary)
           t == Append(secondary, c)
<1>3. /\ t \in Seq(Char) /\ Len(t) = n + 1
      /\ EndsLine(c) => IsEnd(t, n + 1)
      /\ ~EndsLine(c) => IsEnd(t, e)
  <2> HIDE DEF e
  <2>1. IsEnd(s, e)
    BY <1>2 DEF e
  <2> QED BY <1>1, <2>1, Grown
<1>4. n \in Nat /\ e \in 0 .. n
  BY <1>1, <1>2 DEF IsEnd
<1>5. /\ SubSeq(t, 1, e) = SubSeq(s, 1, e)
      /\ SubSeq(t, e + 1, n + 1) = Append(SubSeq(s, e + 1, n), c)
      /\ SubSeq(s, 1, e) \o SubSeq(s, e + 1, n) = s
  <2> HIDE DEF e
  <2>1. e \in 0 .. Len(s)
    BY <1>4
  <2> QED BY <1>1, <2>1, GrownParts
<1> HIDE DEF t, e
<1>6. secondary' = t
  BY DEF t
<1>7. (secondary \in Seq(Char) => IsEnd(secondary, Ended))'
  BY EndedIsEnd, PTL
<1>8. IsEnd(t, Ended')
  BY <1>3, <1>6, <1>7 DEF IsEnd
<1>9. ASSUME EndsLine(c) PROVE Done' = Append(Done \o Line, c) /\ Line' = <<>>
  <2>1. Ended' = n + 1
    BY <1>3, <1>8, <1>9, EndUnique
  <2>2. Done' = SubSeq(t, 1, n + 1) /\ Line' = SubSeq(t, (n + 1) + 1, n + 1)
    BY <1>3, <1>6, <2>1 DEF Done, Line
  <2>3. SubSeq(t, 1, n + 1) = t
    BY <1>3, SubSeqFull
  <2>4. SubSeq(t, (n + 1) + 1, n + 1) = <<>>
    <3>1. (n + 1) + 1 \in Int /\ n + 1 \in Int /\ n + 1 < (n + 1) + 1
      BY <1>4
    <3> QED BY <3>1, SubSeqEmpty
  <2>5. Done \o Line = s
    BY <1>5 DEF Done, Line, e
  <2> QED BY <2>2, <2>3, <2>4, <2>5 DEF t
<1>10. ASSUME ~EndsLine(c) PROVE Done' = Done /\ Line' = Append(Line, c)
  <2>1. Ended' = e
    BY <1>3, <1>8, <1>10, EndUnique
  <2>2. Done' = SubSeq(t, 1, e) /\ Line' = SubSeq(t, e + 1, n + 1)
    BY <1>3, <1>6, <2>1 DEF Done, Line
  <2> QED BY <2>2, <1>5 DEF Done, Line, e
<1> QED BY <1>3, <1>6, <1>9, <1>10

LEMMA LineType ==
  ASSUME TtyType
  PROVE  Line \in Seq(Char) /\ Len(Line) = Len(secondary) - Ended
<1>1. /\ Ended \in 0 .. Len(secondary) /\ Len(secondary) \in Nat
      /\ secondary \in Seq(Char)
  BY EndedIsEnd, LenProperties DEF TtyType, IsEnd
<1>2. \A i \in Ended + 1 .. Len(secondary) : secondary[i] \in Char
  <2>1. \A i \in 1 .. Len(secondary) : secondary[i] \in Char
    BY <1>1, ElementOfSeq
  <2> QED BY <1>1, <2>1
<1> DEFINE e == Ended
<1> HIDE DEF e
<1>3. /\ SubSeq(secondary, e + 1, Len(secondary)) \in Seq(Char)
      /\ Len(SubSeq(secondary, e + 1, Len(secondary))) =
           IF e + 1 <= Len(secondary) THEN Len(secondary) - (e + 1) + 1 ELSE 0
  <2>1. /\ e + 1 \in Int /\ Len(secondary) \in Int
        /\ \A i \in e + 1 .. Len(secondary) : secondary[i] \in Char
    BY <1>1, <1>2 DEF e
  <2> QED BY <2>1, SubSeqProperties
<1>4. e \in 0 .. Len(secondary)
  BY <1>1 DEF e
<1> QED BY <1>1, <1>3, <1>4 DEF Line, e

(* There is a character to erase when the line has one.                    *)
LEMMA ErasableIs ==
  ASSUME TtyType
  PROVE  Erasable <=> Ended < Len(secondary)
<1>1. secondary \in Seq(Char) /\ Len(secondary) \in Nat /\ IsEnd(secondary, Ended)
  BY EndedIsEnd, LenProperties DEF TtyType
<1>2. Ended \in 0 .. Len(secondary) /\ Last(secondary) = secondary[Len(secondary)]
  BY <1>1 DEF IsEnd, Last
<1>3. CASE Ended = Len(secondary)
  <2>1. Len(secondary) # 0 => EndsLine(Last(secondary))
    BY <1>1, <1>2, <1>3 DEF IsEnd
  <2>2. Len(secondary) = 0 => secondary = <<>>
    BY <1>1, EmptySeq
  <2> QED BY <1>2, <1>3, <2>1, <2>2 DEF Erasable, Protected
<1>4. CASE Ended < Len(secondary)
  <2>1. Len(secondary) \in Ended + 1 .. Len(secondary) /\ Len(secondary) # 0
    BY <1>1, <1>2, <1>4
  <2>2. ~EndsLine(Last(secondary)) /\ secondary # <<>>
    BY <1>1, <1>2, <2>1 DEF IsEnd
  <2> QED BY <1>4, <2>2 DEF Erasable, Protected
<1> QED BY <1>1, <1>2, <1>3, <1>4

(* V_ERASE, and a turn of V_KILL, take the last character off the line.    *)
LEMMA TakeBackEdits ==
  ASSUME TtyType, Erasable, NEW k, TakeBack(k)
  PROVE  /\ secondary' \in Seq(Char) /\ Done' = Done
         /\ Line # <<>> /\ Line' = SubSeq(Line, 1, Len(Line) - 1)
         /\ UNCHANGED <<data, stopped>>
<1>1. secondary' = Front(secondary) /\ UNCHANGED <<data, stopped>>
  BY DEF TakeBack
<1>2. /\ Line \in Seq(Char) /\ Len(Line) = Len(secondary) - Ended
      /\ secondary \in Seq(Char) /\ Len(secondary) \in Nat
      /\ Ended \in 0 .. Len(secondary) /\ Ended < Len(secondary)
  BY LineType, ErasableIs, EndedIsEnd, LenProperties DEF TtyType, IsEnd
<1>3. Line # <<>>
  <2>1. Len(Line) # 0
    BY <1>2
  <2> QED BY <1>2, <2>1
<1> DEFINE n == Len(secondary) - 1
           e == Ended
<1>4. /\ secondary' = SubSeq(secondary, 1, n) /\ n \in Ended .. Len(secondary)
      /\ e \in Nat /\ n \in Nat
  BY <1>1, <1>2 DEF Front
<1>5. n + 1 = Len(secondary) /\ Len(Line) = (n + 1) - e /\ e <= n
  BY <1>2
<1>6. secondary' \in Seq(Char) /\ Done' = Done /\ Line' = SubSeq(secondary, e + 1, n)
  <2> HIDE DEF n
  <2> QED BY <1>4, TakenBack
<1>7. Line = SubSeq(secondary, e + 1, n + 1)
  BY <1>5 DEF Line
<1>8. SubSeq(secondary, e + 1, n) = SubSeq(Line, 1, Len(Line) - 1)
  <2> HIDE DEF n, e
  <2>1. CASE n = e
    <3>1. SubSeq(secondary, e + 1, n) = <<>>
      BY <2>1, <1>4, SubSeqEmpty
    <3>2. SubSeq(Line, 1, Len(Line) - 1) = <<>>
      BY <2>1, <1>4, <1>5, SubSeqEmpty
    <3> QED BY <3>1, <3>2
  <2>2. CASE n # e
    <3>1. /\ e + 1 \in 1 .. Len(secondary) /\ n + 1 \in 1 .. Len(secondary)
          /\ 1 \in 1 .. (n + 1) - (e + 1) + 1 /\ n - e \in 1 .. (n + 1) - (e + 1) + 1
      BY <2>2, <1>4, <1>5
    <3>2. SubSeq(SubSeq(secondary, e + 1, n + 1), 1, n - e) =
            SubSeq(secondary, (e + 1) + 1 - 1, (e + 1) + (n - e) - 1)
      <4> DEFINE i == e + 1
                 j == n + 1
                 m == n - e
      <4>1. i \in 1 .. Len(secondary) /\ j \in 1 .. Len(secondary)
            /\ 1 \in 1 .. j - i + 1 /\ m \in 1 .. j - i + 1
        BY <3>1
      <4> HIDE DEF i, j, m
      <4>2. SubSeq(SubSeq(secondary, i, j), 1, m) = SubSeq(secondary, i + 1 - 1, i + m - 1)
        BY <4>1, <1>2, SubSeqOfSubSeq
      <4> QED BY <4>2 DEF i, j, m
    <3>3. (e + 1) + 1 - 1 = e + 1 /\ (e + 1) + (n - e) - 1 = n /\ Len(Line) - 1 = n - e
      BY <1>4, <1>5
    <3> QED BY <3>2, <3>3, <1>7
  <2> QED BY <2>1, <2>2
<1> QED BY <1>1, <1>3, <1>6, <1>8

-----------------------------------------------------------------------------
(* The calls that are killing a line, when a call begins, ends, and when   *)
(* the running call changes.                                               *)
Killing(s) == {i \in DOMAIN s : s[i].killing}

LEMMA CallBegins ==
  ASSUME NEW s \in Seq(Call), NEW c \in Call, ~c.killing
  PROVE  Append(s, c) \in Seq(Call) /\ Killing(Append(s, c)) = Killing(s)
<1> DEFINE r == Append(s, c)
<1>1. /\ r \in Seq(Call) /\ Len(r) = Len(s) + 1 /\ r[Len(s) + 1] = c
      /\ \A i \in 1 .. Len(s) : r[i] = s[i]
  BY AppendProperties
<1> HIDE DEF r
<1>2. DOMAIN r = 1 .. Len(s) + 1 /\ DOMAIN s = 1 .. Len(s) /\ Len(s) \in Nat
  BY <1>1, LenProperties
<1>3. Killing(r) = Killing(s)
  BY <1>1, <1>2 DEF Killing
<1> QED BY <1>1, <1>3 DEF r

LEMMA CallFront ==
  ASSUME NEW s \in Seq(Call), s # <<>>
  PROVE  /\ Front(s) \in Seq(Call) /\ Len(s) \in Nat \ {0}
         /\ Last(s) = s[Len(s)] /\ Last(s) \in Call
         /\ Killing(Front(s)) = Killing(s) \ {Len(s)}
         /\ Killing(s) \subseteq 1 .. Len(s)
         /\ Len(s) \in Killing(s) <=> Last(s).killing
         /\ Len(Front(s)) = Len(s) - 1
         /\ \A i \in 1 .. Len(s) - 1 : Front(s)[i] = s[i]
<1> DEFINE n == Len(s)
           f == Front(s)
<1>1. n \in Nat /\ DOMAIN s = 1 .. n /\ n > 0 /\ \A i \in 1 .. n : s[i] \in Call
  BY LenProperties, EmptySeq, ElementOfSeq
<1>2. f = SubSeq(s, 1, n - 1) /\ Last(s) = s[n]
  BY DEF Front, Last
<1> HIDE DEF f
<1>3. /\ f \in Seq(Call) /\ Len(f) = n - 1
      /\ \A i \in 1 .. n - 1 : f[i] = s[i]
  <2> DEFINE m == n - 1
  <2>1. m \in Nat /\ \A i \in 1 .. m : s[i] \in Call
    BY <1>1
  <2> HIDE DEF m
  <2>2. /\ SubSeq(s, 1, m) \in Seq(Call)
        /\ Len(SubSeq(s, 1, m)) = IF 1 <= m THEN m - 1 + 1 ELSE 0
        /\ \A i \in 1 .. m - 1 + 1 : SubSeq(s, 1, m)[i] = s[1 + i - 1]
    BY <2>1, SubSeqProperties
  <2>3. Len(SubSeq(s, 1, m)) = m /\ m - 1 + 1 = m /\ \A i \in 1 .. m : 1 + i - 1 = i
    BY <2>1, <2>2
  <2> QED BY <1>2, <2>2, <2>3 DEF m
<1>4. DOMAIN f = 1 .. n - 1
  BY <1>3, LenProperties
<1>5. Killing(f) = Killing(s) \ {n}
  BY <1>1, <1>3, <1>4 DEF Killing
<1>6. Killing(s) \subseteq 1 .. n /\ (n \in Killing(s) <=> s[n].killing)
  BY <1>1 DEF Killing
<1> QED BY <1>1, <1>2, <1>3, <1>5, <1>6 DEF f

LEMMA CallBecomes ==
  ASSUME TtyType, calls # <<>>, NEW k \in BOOLEAN, NEW o \in BOOLEAN, Becomes(k, o)
  PROVE  /\ calls' \in Seq(Call) /\ calls' # <<>> /\ Last(calls').open = o
         /\ Killing(calls') = IF k THEN Killing(calls) \cup {Len(calls)}
                              ELSE Killing(calls) \ {Len(calls)}
<1> DEFINE n == Len(calls)
           f == Front(calls)
           c == [killing |-> k, open |-> o]
<1>1. /\ f \in Seq(Call) /\ n \in Nat \ {0} /\ Len(f) = n - 1
      /\ Killing(f) = Killing(calls) \ {n}
  BY CallFront DEF TtyType
<1>2. c \in Call /\ c.killing = k /\ c.open = o /\ calls' = Append(f, c)
  BY DEF Call, Becomes
<1> HIDE DEF c, f, n
<1>3. /\ calls' \in Seq(Call) /\ Len(calls') = n /\ calls'[n] = c
      /\ \A i \in 1 .. n - 1 : calls'[i] = f[i]
  <2>1. /\ Append(f, c) \in Seq(Call) /\ Len(Append(f, c)) = Len(f) + 1
        /\ Append(f, c)[Len(f) + 1] = c
        /\ \A i \in 1 .. Len(f) : Append(f, c)[i] = f[i]
    BY <1>1, <1>2, AppendProperties
  <2>2. Len(f) + 1 = n
    BY <1>1
  <2> QED BY <1>1, <1>2, <2>1, <2>2
<1>4. DOMAIN calls' = 1 .. n /\ DOMAIN f = 1 .. n - 1
  BY <1>1, <1>3, LenProperties
<1>5. Killing(calls') = IF k THEN Killing(f) \cup {n} ELSE Killing(f)
  BY <1>1, <1>2, <1>3, <1>4 DEF Killing
<1>6. calls' # <<>> /\ Last(calls') = c
  BY <1>1, <1>3 DEF Last
<1> QED BY <1>1, <1>2, <1>3, <1>5, <1>6 DEF n

LEMMA KillingFinite ==
  ASSUME TtyType
  PROVE  IsFiniteSet(Killing(calls)) /\ Cardinality(Killing(calls)) \in Nat
<1>1. DOMAIN calls = 1 .. Len(calls) /\ Len(calls) \in Nat
  BY LenProperties DEF TtyType
<1>2. IsFiniteSet(1 .. Len(calls)) /\ Killing(calls) \subseteq 1 .. Len(calls)
  BY <1>1, FS_Interval DEF Killing
<1>3. IsFiniteSet(Killing(calls))
  BY <1>2, FS_Subset
<1> QED BY <1>3, FS_CardinalityType

(* A turn of a loop that takes a character back leaves the call as it was  *)
(* but for the interrupts.                                                 *)
LEMMA TakeBackCalls ==
  ASSUME TtyType, NEW k \in BOOLEAN, Running(k), TakeBack(k)
  PROVE  /\ calls' \in Seq(Call) /\ Killing(calls') = Killing(calls)
         /\ overrun' \in BOOLEAN
         /\ calls' = calls \/ "L_ECHO" \in termios
<1>1. calls # <<>> /\ Last(calls).killing = k
  BY DEF Running
<1>2. CASE "L_ECHO" \in termios
  <2>1. Becomes(k, TRUE) /\ overrun' = (overrun \/ Overruns(Erasures(Last(secondary))))
    BY <1>2 DEF TakeBack
  <2>2. /\ calls' \in Seq(Call)
        /\ Killing(calls') = IF k THEN Killing(calls) \cup {Len(calls)}
                             ELSE Killing(calls) \ {Len(calls)}
    BY <1>1, <2>1, CallBecomes
  <2>3. Len(calls) \in Killing(calls) <=> k
    BY <1>1, CallFront DEF TtyType
  <2> QED BY <1>2, <2>1, <2>2, <2>3 DEF TtyType
<1>3. CASE "L_ECHO" \notin termios
  <2>1. calls' = calls /\ overrun' = overrun
    BY <1>3 DEF TakeBack
  <2> QED BY <2>1 DEF TtyType
<1> QED BY <1>2, <1>3

(* A turn of the loop, whatever becomes of the character.                  *)
LEMMA CookStep ==
  ASSUME TtyType, Cook
  PROVE  /\ read_q' \in Seq(Char) /\ UNCHANGED <<termios, astray>> /\ Running(FALSE)
         /\ \/ Nothing
            \/ Canonical /\ Kill
            \/ Canonical /\ Erasable /\ TakeBack(FALSE)
            \/ \E b \in BOOLEAN : Stop(b)
            \/ \E c \in Char : Store(c)
<1> DEFINE typed == Head(read_q)
           c == Converted(typed)
<1>1. read_q \in Seq(Char) /\ read_q # <<>> /\ read_q' = Tail(read_q)
  BY DEF Cook, TtyType
<1>2. typed \in Char /\ read_q' \in Seq(Char)
  BY <1>1, HeadTailProperties
<1>3. c \in Char
  BY <1>2, ConvertedIsChar
<1>4. \/ Nothing
      \/ Canonical /\ Kill
      \/ Canonical /\ Erase
      \/ Stop(c = "STOP")
      \/ Store(c)
  BY DEF Cook
<1>5. (c = "STOP") \in BOOLEAN
  OBVIOUS
<1>6. UNCHANGED <<termios, astray>> /\ Running(FALSE)
  BY DEF Cook
<1>7. Canonical /\ Erase => Nothing \/ (Canonical /\ Erasable /\ TakeBack(FALSE))
  BY DEF Erase
<1> HIDE DEF c
<1> QED BY <1>2, <1>3, <1>4, <1>5, <1>6, <1>7

LEMMA TtyTypeStep == TtyType /\ [TtyNext]_ttyVars => TtyType'
<1> SUFFICES ASSUME TtyType, [TtyNext]_ttyVars PROVE TtyType'
  OBVIOUS
<1>1. CASE Cook
  <2>1. read_q' \in Seq(Char) /\ UNCHANGED <<termios, astray>> /\ Running(FALSE)
    BY <1>1, CookStep
  <2>2. CASE Nothing
    BY <2>1, <2>2 DEF TtyType, Nothing
  <2>3. CASE Kill
    <3>1. calls # <<>> /\ Last(calls).open \in BOOLEAN
      <4>1. calls # <<>>
        BY <2>1 DEF Running
      <4>2. Last(calls) \in Call
        BY <4>1, CallFront DEF TtyType
      <4> QED BY <4>1, <4>2 DEF Call
    <3>2. calls' \in Seq(Call)
      BY <2>3, <3>1, CallBecomes DEF Kill
    <3> QED BY <2>1, <2>3, <3>2 DEF TtyType, Kill
  <2>4. CASE Erasable /\ TakeBack(FALSE)
    <3>1. secondary' \in Seq(Char) /\ UNCHANGED <<data, stopped>>
      BY <2>4, TakeBackEdits
    <3>2. calls' \in Seq(Call) /\ overrun' \in BOOLEAN
      BY <2>1, <2>4, TakeBackCalls
    <3> QED BY <2>1, <3>1, <3>2 DEF TtyType
  <2>5. ASSUME NEW b \in BOOLEAN, Stop(b) PROVE TtyType'
    BY <2>1, <2>5 DEF TtyType, Stop
  <2>6. ASSUME NEW c \in Char, Store(c) PROVE TtyType'
    <3>1. secondary' \in Seq(Char)
      BY <2>6, Stored DEF Store
    <3>2. /\ data' = (IF EndsLine(c) THEN data + 1 ELSE data)
          /\ stopped' = stopped /\ calls' = calls
      BY <2>6 DEF Store
    <3>3. overrun' \in BOOLEAN
      BY <2>6 DEF Store, TtyType
    <3>4. data' \in Nat
      BY <3>2 DEF TtyType
    <3> QED BY <2>1, <3>1, <3>2, <3>3, <3>4 DEF TtyType
  <2> QED BY <1>1, CookStep, <2>2, <2>3, <2>4, <2>5, <2>6
<1>2. CASE KillTurn
  <2>1. Running(TRUE) /\ Erasable /\ TakeBack(TRUE) /\ UNCHANGED <<termios, read_q, astray>>
    BY <1>2 DEF KillTurn
  <2>2. secondary' \in Seq(Char) /\ UNCHANGED <<data, stopped>>
    BY <2>1, TakeBackEdits
  <2>3. calls' \in Seq(Call) /\ overrun' \in BOOLEAN
    BY <2>1, TakeBackCalls
  <2> QED BY <2>1, <2>2, <2>3 DEF TtyType
<1>3. CASE EndKill
  <2>1. calls # <<>> /\ Becomes(FALSE, Last(calls).open)
    BY <1>3 DEF EndKill, Running
  <2>2. Last(calls).open \in BOOLEAN
    BY <2>1, CallFront DEF TtyType, Call
  <2>3. calls' \in Seq(Call)
    BY <2>1, <2>2, CallBecomes
  <2> QED BY <1>3, <2>3 DEF EndKill, TtyType
<1>4. CASE EndCooking
  <2>1. calls # <<>> /\ calls' = Front(calls)
    BY <1>4 DEF EndCooking, Running
  <2>2. calls' \in Seq(Call)
    BY <2>1, CallFront DEF TtyType
  <2> QED BY <1>4, <2>2 DEF EndCooking, TtyType
<1>5. ASSUME NEW keys \in Typed, KeyboardInterrupt(keys) PROVE TtyType'
  <2>1. keys \in Seq(Char) /\ read_q \in Seq(Char)
    BY TtyAssumption DEF TtyType
  <2>2. read_q \o keys \in Seq(Char)
    BY <2>1, ConcatProperties
  <2>3. Append(calls, [killing |-> FALSE, open |-> FALSE]) \in Seq(Call)
    BY AppendProperties DEF TtyType, Call
  <2> QED BY <1>5, <2>2, <2>3 DEF KeyboardInterrupt, TtyType
<1>6. CASE GoAstray
  BY <1>6 DEF GoAstray, TtyType
<1>7. CASE UNCHANGED ttyVars
  BY <1>7 DEF ttyVars, TtyType
<1> QED BY <1>1, <1>2, <1>3, <1>4, <1>5, <1>6, <1>7 DEF TtyNext

LEMMA TtyTypeInit == TtyInit => TtyType
<1> SUFFICES ASSUME TtyInit PROVE TtyType
  OBVIOUS
<1>1. read_q \in Seq(Char) /\ secondary \in Seq(Char) /\ calls \in Seq(Call)
  BY DEF TtyInit
<1>2. termios \in SUBSET Flags
  BY TtyAssumption DEF TtyInit
<1> QED BY <1>1, <1>2 DEF TtyInit, TtyType

(* Every character in the queues is one of the terminal, and data a count. *)
THEOREM TtyInvariant == TtySpec => []TtyType
<1> QED BY TtyTypeInit, TtyTypeStep, PTL DEF TtySpec

-----------------------------------------------------------------------------
(* secondary holds what an editor of lines would.                          *)
LEMMA EditorInit == TtyInit => Editor!EInit
<1> SUFFICES ASSUME TtyInit PROVE Editor!EInit
  OBVIOUS
<1>1. secondary = <<>> /\ data = 0
  BY DEF TtyInit
<1>2. \A m, n \in Int : SubSeq(<<>>, m, 0) = <<>> \/ m <= 0
  BY SubSeqEmpty
<1>3. Ended = 0
  <2>1. secondary \in Seq(Char) /\ Len(secondary) = 0
    BY <1>1
  <2>2. IsEnd(secondary, Ended)
    BY <2>1, EndedIsEnd
  <2> QED BY <2>1, <2>2 DEF IsEnd
<1>4. Done = <<>> /\ Line = <<>>
  <2>1. SubSeq(<<>>, 1, 0) = <<>>
    BY SubSeqEmpty
  <2> QED BY <1>1, <1>3, <2>1 DEF Done, Line
<1>5. Cardinality({i \in DOMAIN calls : calls[i].killing}) = 0
  <2>1. {i \in DOMAIN calls : calls[i].killing} = {}
    BY DEF TtyInit
  <2> QED BY <2>1, FS_EmptySet
<1> QED BY <1>1, <1>4, <1>5 DEF Editor!EInit, Done, Line

LEMMA EditorStep == TtyType /\ [TtyNext]_ttyVars => [Editor!ENext]_(Editor!editorVars)
<1> SUFFICES ASSUME TtyType, [TtyNext]_ttyVars
             PROVE  Editor!ENext \/ UNCHANGED Editor!editorVars
  BY DEF Editor!editorVars
<1> DEFINE kills == Cardinality(Killing(calls))
<1>0. kills \in Nat /\ IsFiniteSet(Killing(calls))
  BY KillingFinite
<1>1. ASSUME UNCHANGED <<secondary, data>>
      PROVE  UNCHANGED <<Done, Line, data>>
  <2>1. Ended' = Ended
    BY <1>1 DEF Ended
  <2> QED BY <1>1, <2>1 DEF Done, Line
<1>2. ASSUME UNCHANGED <<Done, Line, data, kills>> PROVE UNCHANGED Editor!editorVars
  BY <1>2 DEF Editor!editorVars, Done, Line, Killing
<1>3. ASSUME UNCHANGED <<secondary, data>>, Killing(calls') = Killing(calls)
      PROVE  UNCHANGED Editor!editorVars
  <2>1. kills' = kills
    BY <1>3
  <2> HIDE DEF kills
  <2> QED BY <1>1, <1>2, <1>3, <2>1
<1>4. ASSUME NEW k \in BOOLEAN, Running(k), Erasable, TakeBack(k)
      PROVE  Editor!ENext
  <2>1. /\ Done' = Done /\ Line # <<>> /\ Line' = SubSeq(Line, 1, Len(Line) - 1)
        /\ data' = data
    BY <1>4, TakeBackEdits
  <2>2. Killing(calls') = Killing(calls)
    BY <1>4, TakeBackCalls
  <2>3. Cardinality(Killing(calls')) = Cardinality(Killing(calls))
    BY <2>2
  <2>4. Editor!EraseChar
    BY <2>1, <2>3, Zenon DEF Editor!EraseChar, Done, Line, Killing
  <2> QED BY <2>4 DEF Editor!ENext
<1>5. ASSUME Kill, Running(FALSE) PROVE Editor!ENext
  <2>1. calls # <<>> /\ ~Last(calls).killing /\ calls \in Seq(Call)
    BY <1>5 DEF Running, TtyType
  <2>2. Last(calls) \in Call /\ Len(calls) \notin Killing(calls)
    BY <2>1, CallFront
  <2>3. Killing(calls') = Killing(calls) \cup {Len(calls)}
    <3>1. Last(calls).open \in BOOLEAN /\ Becomes(TRUE, Last(calls).open)
      BY <1>5, <2>2 DEF Call, Kill
    <3> QED BY <2>1, <3>1, CallBecomes
  <2>4. Cardinality(Killing(calls')) = Cardinality(Killing(calls)) + 1
    BY <1>0, <2>2, <2>3, FS_AddElement
  <2>5. UNCHANGED <<Done, Line, data>>
    BY <1>1, <1>5 DEF Kill
  <2>6. Editor!BeginKill
    BY <2>4, <2>5, Zenon DEF Editor!BeginKill, Done, Line, Killing
  <2> QED BY <2>6 DEF Editor!ENext
<1>6. CASE EndKill
  <2>1. /\ calls # <<>> /\ Last(calls).killing /\ calls \in Seq(Call) /\ ~Erasable
        /\ Becomes(FALSE, Last(calls).open) /\ UNCHANGED <<secondary, data>>
    BY <1>6 DEF EndKill, Running, TtyType
  <2>2. Last(calls) \in Call /\ Len(calls) \in Killing(calls)
    BY <2>1, CallFront
  <2>3. Killing(calls') = Killing(calls) \ {Len(calls)}
    <3>1. Last(calls).open \in BOOLEAN
      BY <2>2 DEF Call
    <3> QED BY <2>1, <3>1, CallBecomes
  <2>4. /\ Cardinality(Killing(calls')) = Cardinality(Killing(calls)) - 1
        /\ Cardinality(Killing(calls)) > 0
    <3>1. Cardinality(Killing(calls)) # 0
      BY <1>0, <2>2, FS_EmptySet
    <3>2. Cardinality(Killing(calls')) = Cardinality(Killing(calls)) - 1
      BY <1>0, <2>2, <2>3, FS_RemoveElement
    <3> QED BY <1>0, <3>1, <3>2
  <2>5. UNCHANGED <<Done, Line, data>>
    BY <1>1, <2>1
  <2>6. Line = <<>>
    <3>1. Line \in Seq(Char) /\ Len(Line) = Len(secondary) - Ended
      BY LineType
    <3>2. Ended \in 0 .. Len(secondary) /\ Len(secondary) \in Nat /\ ~ Ended < Len(secondary)
      BY <2>1, ErasableIs, EndedIsEnd, LenProperties DEF TtyType, IsEnd
    <3>3. Len(Line) = 0
      BY <3>1, <3>2
    <3> QED BY <3>1, <3>3, EmptySeq
  <2>7. Editor!EndKill
    BY <2>4, <2>5, <2>6, Zenon DEF Editor!EndKill, Done, Line, Killing
  <2> QED BY <2>7 DEF Editor!ENext
<1>7. ASSUME NEW c \in Char, Store(c) PROVE Editor!ENext
  <2>1. /\ secondary' = Append(secondary, c) /\ calls' = calls
        /\ data' = IF EndsLine(c) THEN data + 1 ELSE data
    BY <1>7 DEF Store
  <2>2. Cardinality(Killing(calls')) = Cardinality(Killing(calls))
    BY <2>1
  <2>3. CASE EndsLine(c)
    <3>1. Done' = Append(Done \o Line, c) /\ Line' = <<>> /\ data' = data + 1
      BY <2>1, <2>3, Stored
    <3>2. Editor!EndLine(c)
      BY <2>2, <3>1, Zenon DEF Editor!EndLine, Done, Line, Killing
    <3>3. c \in {"NL", "EOF"}
      BY <2>3 DEF EndsLine
    <3> QED BY <3>2, <3>3 DEF Editor!ENext
  <2>4. CASE ~EndsLine(c)
    <3>1. Done' = Done /\ Line' = Append(Line, c) /\ data' = data
      BY <2>1, <2>4, Stored
    <3>2. Editor!Add(c)
      BY <2>2, <3>1, Zenon DEF Editor!Add, Done, Line, Killing
    <3>3. c \in Char \ {"NL", "EOF"}
      BY <2>4 DEF EndsLine
    <3> QED BY <3>2, <3>3 DEF Editor!ENext
  <2> QED BY <2>3, <2>4
<1>8. CASE Cook
  <2>1. ASSUME Nothing PROVE UNCHANGED Editor!editorVars
    BY <1>3, <2>1 DEF Nothing
  <2>2. ASSUME NEW b \in BOOLEAN, Stop(b) PROVE UNCHANGED Editor!editorVars
    BY <1>3, <2>2 DEF Stop
  <2> HIDE DEF kills
  <2> QED BY <1>8, CookStep, <2>1, <2>2, <1>4, <1>5, <1>7
<1>9. CASE KillTurn
  BY <1>4, <1>9 DEF KillTurn
<1>10. CASE EndCooking
  <2>1. calls # <<>> /\ ~Last(calls).killing /\ calls' = Front(calls) /\ calls \in Seq(Call)
        /\ UNCHANGED <<secondary, data>>
    BY <1>10 DEF EndCooking, Running, TtyType
  <2>2. Killing(Front(calls)) = Killing(calls) \ {Len(calls)} /\ Len(calls) \notin Killing(calls)
    BY <2>1, CallFront
  <2>3. Killing(calls') = Killing(calls)
    BY <2>1, <2>2
  <2> QED BY <1>3, <2>1, <2>3
<1>11. ASSUME NEW keys \in Typed, KeyboardInterrupt(keys) PROVE UNCHANGED Editor!editorVars
  <2> DEFINE c == [killing |-> FALSE, open |-> FALSE]
  <2>1. /\ c \in Call /\ ~c.killing /\ calls \in Seq(Call) /\ calls' = Append(calls, c)
        /\ UNCHANGED <<secondary, data>>
    BY <1>11 DEF KeyboardInterrupt, Call, TtyType
  <2> HIDE DEF c
  <2>2. Killing(calls') = Killing(calls)
    BY <2>1, CallBegins
  <2> QED BY <1>3, <2>1, <2>2
<1>12. CASE GoAstray \/ UNCHANGED ttyVars
  <2>1. UNCHANGED <<secondary, data, calls>>
    BY <1>12 DEF GoAstray, ttyVars
  <2> QED BY <1>3, <2>1
<1> QED BY <1>6, <1>8, <1>9, <1>10, <1>11, <1>12 DEF TtyNext

(* What is typed, corrected and ended is read as an editor would have it,  *)
(* whatever calls of the keyboard come between the turns of a correction:  *)
(* V_ERASE and V_KILL stay within the line, a kill ends with the line      *)
(* empty, and data counts the lines.  Of calls gone astray nothing is said.*)
THEOREM EditorImplemented == TtySpec => ImplementsEditor
<1>1. TtySpec => Editor!EInit /\ [][Editor!ENext]_(Editor!editorVars)
  BY EditorInit, EditorStep, TtyInvariant, PTL DEF TtySpec
<1> QED BY <1>1, Zenon DEF ImplementsEditor, Editor!ESpec

-----------------------------------------------------------------------------
(* Interrupts are enabled in a call only of a terminal that has both bits, *)
(* and only there can a call be interrupted or go astray.                  *)
Corrects == Canonical /\ "L_ECHO" \in termios

Calm(c) == (c.open => Corrects) /\ (c.killing => Canonical)

CallsCalm ==
  /\ \A i \in DOMAIN calls : Calm(calls[i])
  /\ Len(calls) > 1 \/ astray => Corrects

LEMMA CalmFront ==
  ASSUME NEW s \in Seq(Call), s # <<>>, \A i \in DOMAIN s : Calm(s[i])
  PROVE  /\ Front(s) \in Seq(Call) /\ Len(Front(s)) = Len(s) - 1 /\ Len(s) \in Nat
         /\ Calm(Last(s)) /\ \A i \in DOMAIN Front(s) : Calm(Front(s)[i])
<1>1. /\ Front(s) \in Seq(Call) /\ Len(s) \in Nat \ {0} /\ Last(s) = s[Len(s)]
      /\ Len(Front(s)) = Len(s) - 1
  BY CallFront
<1>2. DOMAIN s = 1 .. Len(s) /\ DOMAIN Front(s) = 1 .. Len(s) - 1
  BY <1>1, LenProperties
<1>3. ASSUME NEW i \in 1 .. Len(s) - 1 PROVE Front(s)[i] = s[i] /\ i \in 1 .. Len(s)
  BY <1>1, CallFront
<1>4. Len(s) \in 1 .. Len(s)
  BY <1>1
<1> QED BY <1>1, <1>2, <1>3, <1>4

LEMMA CalmAppend ==
  ASSUME NEW s \in Seq(Call), \A i \in DOMAIN s : Calm(s[i]), NEW c \in Call, Calm(c)
  PROVE  /\ \A i \in DOMAIN Append(s, c) : Calm(Append(s, c)[i])
         /\ Len(Append(s, c)) = Len(s) + 1
<1> DEFINE r == Append(s, c)
<1>1. /\ r \in Seq(Call) /\ Len(r) = Len(s) + 1 /\ r[Len(s) + 1] = c
      /\ \A i \in 1 .. Len(s) : r[i] = s[i]
  BY AppendProperties
<1> HIDE DEF r
<1>2. DOMAIN r = 1 .. Len(s) + 1 /\ DOMAIN s = 1 .. Len(s) /\ Len(s) \in Nat
  BY <1>1, LenProperties
<1>3. ASSUME NEW i \in 1 .. Len(s) + 1 PROVE Calm(r[i])
  <2>1. CASE i = Len(s) + 1
    BY <1>1, <2>1
  <2>2. CASE i # Len(s) + 1
    <3>1. i \in 1 .. Len(s)
      BY <1>2, <2>2
    <3> QED BY <1>1, <1>2, <3>1
  <2> QED BY <2>1, <2>2
<1> QED BY <1>1, <1>2, <1>3 DEF r

LEMMA CalmBecomes ==
  ASSUME TtyType, CallsCalm, calls # <<>>, NEW k \in BOOLEAN, NEW o \in BOOLEAN,
         Becomes(k, o), k => Canonical, o => Corrects, UNCHANGED <<termios, astray>>
  PROVE  CallsCalm'
<1> DEFINE c == [killing |-> k, open |-> o]
           f == Front(calls)
<1>1. /\ f \in Seq(Call) /\ Len(f) = Len(calls) - 1 /\ Len(calls) \in Nat
      /\ \A i \in DOMAIN f : Calm(f[i])
  BY CalmFront DEF TtyType, CallsCalm
<1>2. c \in Call /\ Calm(c) /\ calls' = Append(f, c)
  BY DEF Call, Calm, Becomes
<1> HIDE DEF f, c
<1>3. (\A i \in DOMAIN calls' : Calm(calls'[i])) /\ Len(calls') = Len(calls)
  BY <1>1, <1>2, CalmAppend
<1>4. \A i \in DOMAIN calls' : Calm(calls[i])'
  BY <1>3 DEF Calm, Corrects, Canonical
<1> QED BY <1>3, <1>4 DEF CallsCalm, Corrects, Canonical

LEMMA CallsCalmStep == TtyType /\ CallsCalm /\ [TtyNext]_ttyVars => CallsCalm'
<1> SUFFICES ASSUME TtyType, CallsCalm, [TtyNext]_ttyVars PROVE CallsCalm'
  OBVIOUS
<1>1. ASSUME UNCHANGED <<termios, calls, astray>> PROVE CallsCalm'
  BY <1>1 DEF CallsCalm, Calm, Corrects, Canonical
<1>2. ASSUME calls # <<>>
      PROVE  Calm(Last(calls)) /\ Last(calls) \in Call /\ Last(calls).open \in BOOLEAN
  <2>1. Calm(Last(calls))
    BY <1>2, CalmFront DEF TtyType, CallsCalm
  <2>2. Last(calls) \in Call
    BY <1>2, CallFront DEF TtyType
  <2> QED BY <2>1, <2>2 DEF Call
<1>3. ASSUME NEW k \in BOOLEAN, Running(k), Canonical, TakeBack(k), UNCHANGED <<termios, astray>>
      PROVE  CallsCalm'
  <2>1. CASE "L_ECHO" \in termios
    <3>1. calls # <<>> /\ Becomes(k, TRUE) /\ Corrects
      BY <1>3, <2>1 DEF TakeBack, Running, Corrects
    <3> QED BY <1>3, <3>1, CalmBecomes
  <2>2. CASE "L_ECHO" \notin termios
    BY <1>1, <1>3, <2>2 DEF TakeBack
  <2> QED BY <2>1, <2>2
<1>4. CASE Cook
  <2>1. UNCHANGED <<termios, astray>> /\ Running(FALSE) /\ calls # <<>>
    BY <1>4, CookStep DEF Running
  <2>2. CASE Nothing \/ (\E b \in BOOLEAN : Stop(b)) \/ (\E c \in Char : Store(c))
    BY <1>1, <2>1, <2>2 DEF Nothing, Stop, Store
  <2>3. CASE Canonical /\ Kill
    <3>1. Becomes(TRUE, Last(calls).open) /\ (Last(calls).open => Corrects)
      BY <1>2, <2>1, <2>3 DEF Kill, Calm
    <3> QED BY <1>2, <2>1, <2>3, <3>1, CalmBecomes
  <2>4. CASE Canonical /\ Erasable /\ TakeBack(FALSE)
    BY <1>3, <2>1, <2>4
  <2> QED BY <1>4, CookStep, <2>2, <2>3, <2>4
<1>5. CASE KillTurn
  <2>1. Running(TRUE) /\ TakeBack(TRUE) /\ UNCHANGED <<termios, astray>> /\ Canonical
    BY <1>2, <1>5 DEF KillTurn, Running, Calm
  <2> QED BY <1>3, <2>1
<1>6. CASE EndKill
  <2>1. /\ calls # <<>> /\ Becomes(FALSE, Last(calls).open) /\ UNCHANGED <<termios, astray>>
        /\ (Last(calls).open => Corrects)
    BY <1>2, <1>6 DEF EndKill, Running, Calm
  <2> QED BY <1>2, <2>1, CalmBecomes
<1>7. CASE EndCooking
  <2>1. calls # <<>> /\ calls' = Front(calls) /\ UNCHANGED <<termios, astray>>
    BY <1>7 DEF EndCooking, Running
  <2>2. /\ Len(calls') = Len(calls) - 1 /\ Len(calls) \in Nat
        /\ \A i \in DOMAIN calls' : Calm(calls'[i])
    BY <2>1, CalmFront DEF TtyType, CallsCalm
  <2>3. \A i \in DOMAIN calls' : Calm(calls[i])'
    BY <2>1, <2>2 DEF Calm, Corrects, Canonical
  <2> QED BY <2>1, <2>2, <2>3 DEF CallsCalm, Corrects, Canonical
<1>8. ASSUME NEW keys \in Typed, KeyboardInterrupt(keys) PROVE CallsCalm'
  <2> DEFINE c == [killing |-> FALSE, open |-> FALSE]
  <2>1. /\ c \in Call /\ Calm(c) /\ calls' = Append(calls, c) /\ UNCHANGED <<termios, astray>>
        /\ (calls # <<>> => Last(calls).open) /\ calls \in Seq(Call) /\ Len(calls) \in Nat
    BY <1>8, LenProperties DEF KeyboardInterrupt, Interruptible, Call, Calm, TtyType
  <2> HIDE DEF c
  <2>2. (\A i \in DOMAIN calls' : Calm(calls'[i])) /\ Len(calls') = Len(calls) + 1
    BY <2>1, CalmAppend DEF CallsCalm
  <2>3. \A i \in DOMAIN calls' : Calm(calls[i])'
    BY <2>1, <2>2 DEF Calm, Corrects, Canonical
  <2>4. calls # <<>> => Corrects
    BY <1>2, <2>1 DEF Calm
  <2>5. calls = <<>> => Len(calls') = 1
    BY <2>2
  <2> QED BY <2>1, <2>3, <2>4, <2>5 DEF CallsCalm, Corrects, Canonical
<1>9. CASE GoAstray
  <2>1. calls # <<>> /\ Last(calls).open /\ UNCHANGED <<termios, calls>>
    BY <1>9 DEF GoAstray, Interruptible
  <2>2. Corrects
    BY <1>2, <2>1 DEF Calm
  <2> QED BY <2>1, <2>2 DEF CallsCalm, Calm, Corrects, Canonical
<1>10. CASE UNCHANGED ttyVars
  BY <1>1, <1>10 DEF ttyVars
<1> QED BY <1>4, <1>5, <1>6, <1>7, <1>8, <1>9, <1>10 DEF TtyNext

(* A call is interrupted by another, or goes astray, only of a terminal    *)
(* with both L_ICANON (where it is looked for) and L_ECHO.  tty_table[0]   *)
(* as it is initialized is none: what is said of calls that have not gone  *)
(* astray holds of it without reserve.                                     *)
THEOREM OnlyCorrectionsInterrupted ==
  TtySpec => [](Len(calls) > 1 \/ astray => Canonical /\ "L_ECHO" \in termios)
<1>1. TtyInit => CallsCalm
  BY DEF TtyInit, CallsCalm
<1>2. CallsCalm => (Len(calls) > 1 \/ astray => Canonical /\ "L_ECHO" \in termios)
  BY DEF CallsCalm, Corrects
<1> QED BY <1>1, <1>2, CallsCalmStep, TtyInvariant, PTL DEF TtySpec

-----------------------------------------------------------------------------
(* Folds over a sequence, one item after the other.                        *)
AfterItem(m, item) ==
  CASE item = "echo" -> m + 1 [] item = "ASC_DEL" -> m - 1 [] OTHER -> 0

(* What is folded: "put" items into a queue, or else the account of the row. *)
Turn(f, v, item) == IF f = "put" THEN Put(v, item) ELSE AfterItem(v, item)

IsFold(f, base, items, n, it) ==
  it = [s \in SUBSET (1 .. n) |->
          IF s = {} THEN base ELSE Turn(f, it[s \ {Max(s)}], items[Max(s)])]

LEMMA MaxIs ==
  ASSUME NEW n \in Nat, NEW s \in SUBSET (1 .. n), s # {}
  PROVE  Max(s) \in s /\ \A j \in s : j <= Max(s)
<1>1. \E i \in s : \A j \in s : j <= i
  BY GreatestIn
<1>2. \E i \in s : \A j \in s : i >= j
  BY <1>1
<1>3. Max(s) \in s /\ \A j \in s : Max(s) >= j
  BY <1>2, Zenon DEF Max
<1> QED BY <1>3

LEMMA FoldExists ==
  ASSUME NEW f, NEW base, NEW items, NEW n \in Nat
  PROVE  \E it : IsFold(f, base, items, n, it)
<1> DEFINE S == {k \in Nat : \E it : IsFold(f, base, items, k, it)}
<1>1. 0 \in S
  <2> DEFINE it == [s \in SUBSET (1 .. 0) |-> base]
  <2>1. \A s \in SUBSET (1 .. 0) : s = {}
    OBVIOUS
  <2>2. IsFold(f, base, items, 0, it)
    BY <2>1 DEF IsFold
  <2> QED BY <2>2
<1>2. ASSUME NEW k \in Nat, k \in S PROVE k + 1 \in S
  <2>1. PICK it : IsFold(f, base, items, k, it)
    BY <1>2
  <2>2. /\ it[{}] = base
        /\ \A s \in SUBSET (1 .. k) : s # {} => it[s] = Turn(f, it[s \ {Max(s)}], items[Max(s)])
    BY <2>1 DEF IsFold
  <2> DEFINE v == [s \in SUBSET (1 .. k + 1) |->
                     IF k + 1 \in s THEN Turn(f, it[s \ {k + 1}], items[k + 1]) ELSE it[s]]
  <2>3. \A s \in SUBSET (1 .. k) : v[s] = it[s]
    <3> TAKE s \in SUBSET (1 .. k)
    <3>1. s \in SUBSET (1 .. k + 1) /\ k + 1 \notin s
      OBVIOUS
    <3> QED BY <3>1
  <2>4. ASSUME NEW s \in SUBSET (1 .. k + 1)
        PROVE  v[s] = IF s = {} THEN base ELSE Turn(f, v[s \ {Max(s)}], items[Max(s)])
    <3>1. CASE k + 1 \in s
      <4>1. s # {} /\ v[s] = Turn(f, it[s \ {k + 1}], items[k + 1])
        BY <3>1
      <4>2. Max(s) = k + 1
        <5>1. Max(s) \in s /\ \A j \in s : j <= Max(s)
          BY <4>1, MaxIs
        <5>2. Max(s) \in 1 .. k + 1 /\ k + 1 <= Max(s)
          BY <5>1, <3>1
        <5> QED BY <5>2
      <4>3. s \ {k + 1} \in SUBSET (1 .. k)
        OBVIOUS
      <4> HIDE DEF v
      <4> QED BY <4>1, <4>2, <4>3, <2>3
    <3>2. CASE k + 1 \notin s
      <4>1. s \in SUBSET (1 .. k)
        BY <3>2
      <4>2. s \ {Max(s)} \in SUBSET (1 .. k)
        BY <4>1
      <4> HIDE DEF v
      <4>3. v[s] = it[s] /\ v[s \ {Max(s)}] = it[s \ {Max(s)}]
        BY <4>1, <4>2, <2>3
      <4> QED BY <4>1, <4>3, <2>2
    <3> QED BY <3>1, <3>2
  <2>5. IsFold(f, base, items, k + 1, v)
    BY <2>4, Zenon DEF IsFold
  <2> HIDE DEF v
  <2> QED BY <2>5
<1>3. n \in S
  <2> HIDE DEF S
  <2> QED BY <1>1, <1>2, SetInduction
<1> QED BY <1>3

(* Along the sequence.                                                     *)
LEMMA FoldSteps ==
  ASSUME NEW f, NEW base, NEW items, NEW n \in Nat, NEW it, IsFold(f, base, items, n, it)
  PROVE  \E e : /\ e[0] = base /\ it[1 .. n] = e[n]
                /\ \A k \in 1 .. n : e[k] = Turn(f, e[k - 1], items[k])
<1> DEFINE e == [k \in 0 .. n |-> it[1 .. k]]
<1>1. \A s \in SUBSET (1 .. n) :
        it[s] = IF s = {} THEN base ELSE Turn(f, it[s \ {Max(s)}], items[Max(s)])
  BY DEF IsFold
<1>2. e[0] = base
  <2>1. 1 .. 0 = {} /\ e[0] = it[1 .. 0]
    OBVIOUS
  <2> QED BY <1>1, <2>1
<1>3. e[n] = it[1 .. n]
  OBVIOUS
<1>4. ASSUME NEW k \in 1 .. n PROVE e[k] = Turn(f, e[k - 1], items[k])
  <2> DEFINE s == 1 .. k
  <2>1. s \in SUBSET (1 .. n) /\ s # {} /\ k \in s
    OBVIOUS
  <2>2. Max(s) = k
    <3>1. Max(s) \in s /\ \A j \in s : j <= Max(s)
      BY <2>1, MaxIs
    <3>2. Max(s) \in 1 .. k /\ k <= Max(s)
      BY <3>1, <2>1
    <3> QED BY <3>2
  <2>3. s \ {k} = 1 .. k - 1
    OBVIOUS
  <2>4. e[k] = it[s] /\ e[k - 1] = it[1 .. k - 1]
    OBVIOUS
  <2> HIDE DEF s, e
  <2> QED BY <1>1, <2>1, <2>2, <2>3, <2>4
<1> HIDE DEF e
<1> QED BY <1>2, <1>3, <1>4

LEMMA BalanceSteps ==
  ASSUME NEW m, NEW items, DOMAIN items = 1 .. Len(items), Len(items) \in Nat
  PROVE  \E e : /\ e[0] = m /\ Balance(m, items) = e[Len(items)]
                /\ \A k \in 1 .. Len(items) : e[k] = AfterItem(e[k - 1], items[k])
<1> DEFINE D == DOMAIN items
           Is(it) == it = [s \in SUBSET D |->
                             IF s = {} THEN m ELSE AfterItem(it[s \ {Max(s)}], items[Max(s)])]
           fold == CHOOSE it : Is(it)
<1>1. Balance(m, items) = fold[D]
  BY Zenon DEF Balance, FoldLeft, MapThenFoldSet, AfterItem
<1>2. D = 1 .. Len(items)
  OBVIOUS
<1> HIDE DEF D
<1>3. ASSUME NEW it PROVE Is(it) <=> IsFold("show", m, items, Len(items), it)
  BY <1>2 DEF IsFold, Turn
<1>4. Is(fold)
  <2>1. \E it : IsFold("show", m, items, Len(items), it)
    BY FoldExists
  <2>2. \E it : Is(it)
    BY <2>1, <1>3
  <2> HIDE DEF Is
  <2> QED BY <2>2, Zenon
<1> HIDE DEF fold
<1>5. IsFold("show", m, items, Len(items), fold)
  BY <1>3, <1>4
<1>6. PICK e : /\ e[0] = m /\ fold[1 .. Len(items)] = e[Len(items)]
               /\ \A k \in 1 .. Len(items) : e[k] = Turn("show", e[k - 1], items[k])
  BY <1>5, FoldSteps
<1>7. \A k \in 1 .. Len(items) : e[k] = AfterItem(e[k - 1], items[k])
  BY <1>6 DEF Turn
<1> QED BY <1>1, <1>2, <1>6, <1>7

LEMMA PutSteps ==
  ASSUME NEW queue, NEW items, DOMAIN items = 1 .. Len(items), Len(items) \in Nat
  PROVE  \E e : /\ e[0] = queue /\ PutAll(queue, items) = e[Len(items)]
                /\ \A k \in 1 .. Len(items) : e[k] = Put(e[k - 1], items[k])
<1> DEFINE D == DOMAIN items
           Is(it) == it = [s \in SUBSET D |->
                             IF s = {} THEN queue ELSE Put(it[s \ {Max(s)}], items[Max(s)])]
           fold == CHOOSE it : Is(it)
<1>1. PutAll(queue, items) = fold[D]
  BY Zenon DEF PutAll, FoldLeft, MapThenFoldSet
<1>2. D = 1 .. Len(items)
  OBVIOUS
<1> HIDE DEF D
<1>3. ASSUME NEW it PROVE Is(it) <=> IsFold("put", queue, items, Len(items), it)
  BY <1>2 DEF IsFold, Turn
<1>4. Is(fold)
  <2>1. \E it : IsFold("put", queue, items, Len(items), it)
    BY FoldExists
  <2>2. \E it : Is(it)
    BY <2>1, <1>3
  <2> HIDE DEF Is
  <2> QED BY <2>2, Zenon
<1> HIDE DEF fold
<1>5. IsFold("put", queue, items, Len(items), fold)
  BY <1>3, <1>4
<1>6. PICK e : /\ e[0] = queue /\ fold[1 .. Len(items)] = e[Len(items)]
               /\ \A k \in 1 .. Len(items) : e[k] = Turn("put", e[k - 1], items[k])
  BY <1>5, FoldSteps
<1>7. \A k \in 1 .. Len(items) : e[k] = Put(e[k - 1], items[k])
  BY <1>6 DEF Turn
<1> QED BY <1>1, <1>2, <1>6, <1>7

-----------------------------------------------------------------------------
(* The account of the row after one sequence of items and another.           *)
LEMMA SeqDomain ==
  ASSUME NEW s \in Seq(Item)
  PROVE  DOMAIN s = 1 .. Len(s) /\ Len(s) \in Nat /\ \A i \in 1 .. Len(s) : s[i] \in Item
BY LenProperties, ElementOfSeq

LEMMA BalanceConcat ==
  ASSUME NEW m, NEW s \in Seq(Item), NEW t \in Seq(Item)
  PROVE  Balance(m, s \o t) = Balance(Balance(m, s), t)
<1> DEFINE u == s \o t
           a == Len(s)
           b == Len(t)
<1>1. a \in Nat /\ DOMAIN s = 1 .. a /\ b \in Nat /\ DOMAIN t = 1 .. b
  BY SeqDomain
<1>2. /\ u \in Seq(Item) /\ Len(u) = a + b
      /\ \A i \in 1 .. a + b : u[i] = IF i <= a THEN s[i] ELSE t[i - a]
  BY ConcatProperties
<1> HIDE DEF u
<1>3. DOMAIN u = 1 .. Len(u) /\ Len(u) \in Nat
  BY <1>2, SeqDomain
<1>4. PICK e : /\ e[0] = m /\ Balance(m, u) = e[a + b]
               /\ \A k \in 1 .. a + b : e[k] = AfterItem(e[k - 1], u[k])
  <2>1. \E e : /\ e[0] = m /\ Balance(m, u) = e[Len(u)]
               /\ \A k \in 1 .. Len(u) : e[k] = AfterItem(e[k - 1], u[k])
    BY <1>3, BalanceSteps
  <2> QED BY <2>1, <1>2
<1>5. PICK d : /\ d[0] = m /\ Balance(m, s) = d[a]
               /\ \A k \in 1 .. a : d[k] = AfterItem(d[k - 1], s[k])
  BY <1>1, BalanceSteps
<1>6. PICK g : /\ g[0] = d[a] /\ Balance(Balance(m, s), t) = g[b]
               /\ \A k \in 1 .. b : g[k] = AfterItem(g[k - 1], t[k])
  <2> DEFINE middle == Balance(m, s)
  <2>1. middle = d[a]
    BY <1>5
  <2> HIDE DEF middle
  <2>2. \E g : /\ g[0] = middle /\ Balance(middle, t) = g[Len(t)]
               /\ \A k \in 1 .. Len(t) : g[k] = AfterItem(g[k - 1], t[k])
    BY <1>1, BalanceSteps
  <2> QED BY <2>1, <2>2 DEF middle
<1> HIDE DEF a, b
<1> DEFINE S == {k \in Nat : k <= a => e[k] = d[k]}
           T == {k \in Nat : k <= b => e[a + k] = g[k]}
<1>7. \A k \in Nat : k \in S
  <2>1. 0 \in S
    BY <1>4, <1>5
  <2>2. ASSUME NEW k \in Nat, k \in S PROVE k + 1 \in S
    <3> SUFFICES ASSUME k + 1 <= a PROVE e[k + 1] = d[k + 1]
      OBVIOUS
    <3>1. e[k] = d[k] /\ k + 1 \in 1 .. a /\ k + 1 \in 1 .. a + b /\ (k + 1) - 1 = k
      BY <1>1, <2>2
    <3>2. u[k + 1] = s[k + 1]
      BY <1>1, <1>2, <3>1
    <3>3. e[k + 1] = AfterItem(e[k], u[k + 1]) /\ d[k + 1] = AfterItem(d[k], s[k + 1])
      BY <1>4, <1>5, <3>1
    <3> QED BY <3>1, <3>2, <3>3
  <2> HIDE DEF S
  <2> QED BY <2>1, <2>2, SetInduction
<1>8. e[a] = d[a]
  BY <1>1, <1>7
<1>9. \A k \in Nat : k \in T
  <2>1. 0 \in T
    BY <1>1, <1>6, <1>8
  <2>2. ASSUME NEW k \in Nat, k \in T PROVE k + 1 \in T
    <3> SUFFICES ASSUME k + 1 <= b PROVE e[a + (k + 1)] = g[k + 1]
      OBVIOUS
    <3>1. /\ e[a + k] = g[k] /\ k + 1 \in 1 .. b /\ a + (k + 1) \in 1 .. a + b
          /\ (k + 1) - 1 = k /\ (a + (k + 1)) - 1 = a + k /\ (a + (k + 1)) - a = k + 1
          /\ ~ a + (k + 1) <= a
      BY <1>1, <2>2
    <3>2. u[a + (k + 1)] = t[k + 1]
      BY <1>2, <3>1
    <3>3. /\ e[a + (k + 1)] = AfterItem(e[a + k], u[a + (k + 1)])
          /\ g[k + 1] = AfterItem(g[k], t[k + 1])
      BY <1>4, <1>6, <3>1
    <3> QED BY <3>1, <3>2, <3>3
  <2> HIDE DEF T
  <2> QED BY <2>1, <2>2, SetInduction
<1>10. e[a + b] = g[b]
  BY <1>1, <1>9
<1> QED BY <1>4, <1>6, <1>10 DEF u

LEMMA BalanceNone ==
  ASSUME NEW m
  PROVE  Balance(m, <<>>) = m
<1> DEFINE s == <<>>
<1>1. DOMAIN s = 1 .. Len(s) /\ Len(s) = 0
  OBVIOUS
<1> HIDE DEF s
<1>2. Len(s) \in Nat /\ DOMAIN s = 1 .. Len(s)
  BY <1>1
<1>3. PICK e : /\ e[0] = m /\ Balance(m, s) = e[Len(s)]
               /\ \A k \in 1 .. Len(s) : e[k] = AfterItem(e[k - 1], s[k])
  BY <1>2, BalanceSteps
<1> QED BY <1>1, <1>3 DEF s

LEMMA BalanceOne ==
  ASSUME NEW m, NEW x
  PROVE  Balance(m, <<x>>) = AfterItem(m, x)
<1> DEFINE s == <<x>>
<1>1. DOMAIN s = 1 .. Len(s) /\ Len(s) = 1 /\ s[1] = x
  OBVIOUS
<1> HIDE DEF s
<1>2. Len(s) \in Nat /\ DOMAIN s = 1 .. Len(s)
  BY <1>1
<1>3. PICK e : /\ e[0] = m /\ Balance(m, s) = e[Len(s)]
               /\ \A k \in 1 .. Len(s) : e[k] = AfterItem(e[k - 1], s[k])
  BY <1>2, BalanceSteps
<1>4. 1 \in 1 .. Len(s) /\ 1 - 1 = 0
  BY <1>1
<1>5. e[1] = AfterItem(e[0], s[1])
  BY <1>3, <1>4
<1> QED BY <1>1, <1>3, <1>5 DEF s

LEMMA BalanceTwo ==
  ASSUME NEW m, NEW x, NEW y
  PROVE  Balance(m, <<x, y>>) = AfterItem(AfterItem(m, x), y)
<1> DEFINE s == <<x, y>>
<1>1. DOMAIN s = 1 .. Len(s) /\ Len(s) = 2 /\ s[1] = x /\ s[2] = y
  OBVIOUS
<1> HIDE DEF s
<1>2. Len(s) \in Nat /\ DOMAIN s = 1 .. Len(s)
  BY <1>1
<1>3. PICK e : /\ e[0] = m /\ Balance(m, s) = e[Len(s)]
               /\ \A k \in 1 .. Len(s) : e[k] = AfterItem(e[k - 1], s[k])
  BY <1>2, BalanceSteps
<1>4. 1 \in 1 .. Len(s) /\ 1 - 1 = 0 /\ 2 \in 1 .. Len(s) /\ 2 - 1 = 1
  BY <1>1
<1>5. e[1] = AfterItem(e[0], s[1]) /\ e[2] = AfterItem(e[1], s[2])
  BY <1>3, <1>4
<1> QED BY <1>1, <1>3, <1>5 DEF s

(* With room for them, items are appended.                                 *)
LEMMA PutShort ==
  ASSUME NEW queue \in Seq(Item), NEW x \in Item, NEW y \in Item
  PROVE  /\ Len(queue) + 1 < TTY_BUF_SIZE => PutAll(queue, <<x>>) = queue \o <<x>>
         /\ Len(queue) + 2 < TTY_BUF_SIZE => PutAll(queue, <<x, y>>) = queue \o <<x, y>>
<1>1. Len(queue) \in Nat /\ TTY_BUF_SIZE \in Nat
  BY SeqDomain, TtyAssumption
<1>2. /\ Append(queue, x) \in Seq(Item) /\ Len(Append(queue, x)) = Len(queue) + 1
      /\ Append(queue, x) = queue \o <<x>>
  BY AppendProperties, AppendIsConcat
<1>3. Append(Append(queue, x), y) = queue \o <<x, y>>
  <2>1. Append(Append(queue, x), y) = (queue \o <<x>>) \o <<y>>
    BY <1>2, AppendIsConcat
  <2>2. <<x>> \in Seq(Item) /\ <<y>> \in Seq(Item)
    OBVIOUS
  <2>4. <<x>> \o <<y>> = <<x, y>>
    <3> DEFINE a == <<x>> \o <<y>>
               b == <<x, y>>
    <3>1. b \in Seq(Item) /\ Len(b) = 2 /\ b[1] = x /\ b[2] = y
      OBVIOUS
    <3>2. Len(<<x>>) = 1 /\ Len(<<y>>) = 1 /\ <<x>>[1] = x /\ <<y>>[1] = y
      OBVIOUS
    <3>3. /\ a \in Seq(Item) /\ Len(a) = 1 + 1
          /\ \A i \in 1 .. 1 + 1 : a[i] = IF i <= 1 THEN <<x>>[i] ELSE <<y>>[i - 1]
      BY <2>2, <3>2, ConcatProperties
    <3> HIDE DEF a, b
    <3>4. a[1] = x /\ a[2] = y
      BY <3>2, <3>3
    <3>5. \A i \in 1 .. Len(a) : a[i] = b[i]
      BY <3>1, <3>3, <3>4
    <3>6. a = b
      BY <3>1, <3>3, <3>5, SeqEqual
    <3> QED BY <3>6 DEF a, b
  <2>3. (queue \o <<x>>) \o <<y>> = queue \o (<<x>> \o <<y>>)
    BY <2>2, ConcatAssociative
  <2> QED BY <2>1, <2>3, <2>4
<1>4. ASSUME Len(queue) + 1 < TTY_BUF_SIZE PROVE PutAll(queue, <<x>>) = queue \o <<x>>
  <2> DEFINE s == <<x>>
  <2>1. DOMAIN s = 1 .. Len(s) /\ Len(s) = 1 /\ s[1] = x
    OBVIOUS
  <2> HIDE DEF s
  <2>2. PICK e : /\ e[0] = queue /\ PutAll(queue, s) = e[Len(s)]
                 /\ \A k \in 1 .. Len(s) : e[k] = Put(e[k - 1], s[k])
    BY <2>1, PutSteps
  <2>3. 1 \in 1 .. Len(s) /\ 1 - 1 = 0
    BY <2>1
  <2>4. PutAll(queue, s) = Put(queue, x)
    BY <2>1, <2>2, <2>3
  <2>5. Put(queue, x) = Append(queue, x)
    BY <1>1, <1>4 DEF Put
  <2> QED BY <1>2, <2>4, <2>5 DEF s
<1>5. ASSUME Len(queue) + 2 < TTY_BUF_SIZE PROVE PutAll(queue, <<x, y>>) = queue \o <<x, y>>
  <2> DEFINE s == <<x, y>>
  <2>1. DOMAIN s = 1 .. Len(s) /\ Len(s) = 2 /\ s[1] = x /\ s[2] = y
    OBVIOUS
  <2> HIDE DEF s
  <2>2. PICK e : /\ e[0] = queue /\ PutAll(queue, s) = e[Len(s)]
                 /\ \A k \in 1 .. Len(s) : e[k] = Put(e[k - 1], s[k])
    BY <2>1, PutSteps
  <2>3. 1 \in 1 .. Len(s) /\ 1 - 1 = 0 /\ 2 \in 1 .. Len(s) /\ 2 - 1 = 1
    BY <2>1
  <2>4. PutAll(queue, s) = Put(Put(queue, x), y)
    BY <2>1, <2>2, <2>3
  <2>5. Put(queue, x) = Append(queue, x)
    BY <1>1, <1>5 DEF Put
  <2>6. Put(Append(queue, x), y) = Append(Append(queue, x), y)
    BY <1>1, <1>2, <1>5 DEF Put
  <2> QED BY <1>3, <2>4, <2>5, <2>6 DEF s
<1> QED BY <1>4, <1>5

-----------------------------------------------------------------------------
(* The width of a character on the console, and of the row of a sequence.  *)
W(c) == IF c \in Control THEN 2 ELSE 1

Row(s) == {i \in DOMAIN s : \A j \in {k \in DOMAIN s : s[k] = "NL"} : j < i}
Width(s) == Cardinality(Row(s)) + Cardinality({i \in Row(s) : s[i] \in Control})

LEMMA EchoIs ==
  ASSUME NEW c \in Char, NEW m \in Int
  PROVE  /\ Echo(c) \in Seq(Item) /\ Len(Echo(c)) \in Nat
         /\ Balance(m, Echo(c)) = IF c = "NL" THEN 0 ELSE m + W(c)
<1>1. CASE c = "NL" /\ "O_NLCR" \in termios
  <2>1. Echo(c) = <<"NL", "CR">>
    BY <1>1 DEF Echo
  <2>2. AfterItem(AfterItem(m, "NL"), "CR") = 0
    BY DEF AfterItem
  <2>3. Balance(m, <<"NL", "CR">>) = 0
    <3>1. Balance(m, <<"NL", "CR">>) = AfterItem(AfterItem(m, "NL"), "CR")
      BY BalanceTwo
    <3> QED BY <3>1, <2>2
  <2>4. <<"NL", "CR">> \in Seq(Item) /\ Len(<<"NL", "CR">>) = 2
    BY DEF Item
  <2> QED BY <1>1, <2>1, <2>3, <2>4
<1>2. CASE c = "NL" /\ "O_NLCR" \notin termios
  <2>1. Echo(c) = <<"NL">>
    BY <1>2 DEF Echo
  <2>2. AfterItem(m, "NL") = 0
    BY DEF AfterItem
  <2>3. Balance(m, <<"NL">>) = 0
    <3>1. Balance(m, <<"NL">>) = AfterItem(m, "NL")
      BY BalanceOne
    <3> QED BY <3>1, <2>2
  <2>4. <<"NL">> \in Seq(Item) /\ Len(<<"NL">>) = 1
    BY DEF Item
  <2> QED BY <1>2, <2>1, <2>3, <2>4
<1>3. CASE c # "NL" /\ c \in Control
  <2>1. Echo(c) = <<"echo", "echo">>
    BY <1>3 DEF Echo
  <2>2. AfterItem(AfterItem(m, "echo"), "echo") = m + 2
    BY DEF AfterItem
  <2>3. Balance(m, <<"echo", "echo">>) = m + 2
    <3>1. Balance(m, <<"echo", "echo">>) = AfterItem(AfterItem(m, "echo"), "echo")
      BY BalanceTwo
    <3> QED BY <3>1, <2>2
  <2>4. <<"echo", "echo">> \in Seq(Item) /\ Len(<<"echo", "echo">>) = 2
    BY DEF Item
  <2> QED BY <1>3, <2>1, <2>3, <2>4 DEF W
<1>4. CASE c # "NL" /\ c \notin Control
  <2>1. Echo(c) = <<"echo">>
    BY <1>4 DEF Echo
  <2>2. AfterItem(m, "echo") = m + 1
    BY DEF AfterItem
  <2>3. Balance(m, <<"echo">>) = m + 1
    <3>1. Balance(m, <<"echo">>) = AfterItem(m, "echo")
      BY BalanceOne
    <3> QED BY <3>1, <2>2
  <2>4. <<"echo">> \in Seq(Item) /\ Len(<<"echo">>) = 1
    BY DEF Item
  <2> QED BY <1>4, <2>1, <2>3, <2>4 DEF W
<1> QED BY <1>1, <1>2, <1>3, <1>4

LEMMA EchoPut ==
  ASSUME NEW c \in Char, NEW queue \in Seq(Item), Len(queue) + Len(Echo(c)) < TTY_BUF_SIZE
  PROVE  PutAll(queue, Echo(c)) = queue \o Echo(c)
<1>1. "NL" \in Item /\ "CR" \in Item /\ "echo" \in Item
  BY DEF Item
<1>2. CASE Echo(c) = <<"NL", "CR">>
  <2>1. Len(<<"NL", "CR">>) = 2
    OBVIOUS
  <2> QED BY <1>1, <1>2, <2>1, PutShort
<1>3. CASE Echo(c) = <<"NL">>
  <2>1. Len(<<"NL">>) = 1
    OBVIOUS
  <2> QED BY <1>1, <1>3, <2>1, PutShort
<1>4. CASE Echo(c) = <<"echo", "echo">>
  <2>1. Len(<<"echo", "echo">>) = 2
    OBVIOUS
  <2> QED BY <1>1, <1>4, <2>1, PutShort
<1>5. CASE Echo(c) = <<"echo">>
  <2>1. Len(<<"echo">>) = 1
    OBVIOUS
  <2> QED BY <1>1, <1>5, <2>1, PutShort
<1> QED BY <1>2, <1>3, <1>4, <1>5 DEF Echo

LEMMA WidthType ==
  ASSUME NEW s \in Seq(Char)
  PROVE  /\ IsFiniteSet(Row(s)) /\ Row(s) \subseteq 1 .. Len(s)
         /\ IsFiniteSet({i \in Row(s) : s[i] \in Control})
         /\ Cardinality(Row(s)) \in Nat
         /\ Cardinality({i \in Row(s) : s[i] \in Control}) \in Nat
         /\ Width(s) \in Nat
<1>1. DOMAIN s = 1 .. Len(s) /\ Len(s) \in Nat
  BY LenProperties
<1>2. IsFiniteSet(1 .. Len(s))
  BY <1>1, FS_Interval
<1>3. Row(s) \subseteq 1 .. Len(s)
  BY <1>1 DEF Row
<1>4. IsFiniteSet(Row(s)) /\ IsFiniteSet({i \in Row(s) : s[i] \in Control})
  <2>1. {i \in Row(s) : s[i] \in Control} \subseteq Row(s)
    OBVIOUS
  <2>2. IsFiniteSet(Row(s))
    BY <1>2, <1>3, FS_Subset
  <2> QED BY <2>1, <2>2, FS_Subset
<1>5. Cardinality(Row(s)) \in Nat /\ Cardinality({i \in Row(s) : s[i] \in Control}) \in Nat
  BY <1>4, FS_CardinalityType
<1> QED BY <1>3, <1>4, <1>5 DEF Width

LEMMA WidthOfAppend ==
  ASSUME NEW s \in Seq(Char), NEW c \in Char
  PROVE  Width(Append(s, c)) = IF c = "NL" THEN 0 ELSE Width(s) + W(c)
<1> DEFINE r == Append(s, c)
           n == Len(s)
<1>1. n \in Nat /\ DOMAIN s = 1 .. n
  BY LenProperties
<1>2. /\ r \in Seq(Char) /\ Len(r) = n + 1 /\ r[n + 1] = c /\ \A i \in 1 .. n : r[i] = s[i]
  BY AppendProperties
<1>3. DOMAIN r = 1 .. n + 1
  BY <1>2, LenProperties
<1> HIDE DEF r, n
<1>4. CASE c = "NL"
  <2>1. n + 1 \in {k \in DOMAIN r : r[k] = "NL"}
    BY <1>1, <1>2, <1>3, <1>4
  <2>2. Row(r) = {}
    <3> SUFFICES ASSUME NEW i \in Row(r) PROVE FALSE
      OBVIOUS
    <3>1. i \in 1 .. n + 1 /\ n + 1 < i
      BY <1>3, <2>1 DEF Row
    <3> QED BY <3>1, <1>1
  <2>3. {i \in Row(r) : r[i] \in Control} = {}
    BY <2>2
  <2>4. Width(r) = 0
    BY <2>2, <2>3, FS_EmptySet DEF Width
  <2> QED BY <1>4, <2>4 DEF r
<1>5. CASE c # "NL"
  <2>1. {k \in DOMAIN r : r[k] = "NL"} = {k \in DOMAIN s : s[k] = "NL"}
    <3>1. ASSUME NEW k PROVE k \in DOMAIN r /\ r[k] = "NL" <=> k \in DOMAIN s /\ s[k] = "NL"
      <4>1. CASE k = n + 1
        BY <4>1, <1>1, <1>2, <1>3, <1>5
      <4>2. CASE k # n + 1
        <5>1. k \in 1 .. n + 1 <=> k \in 1 .. n
          BY <1>1, <4>2
        <5> QED BY <5>1, <1>1, <1>2, <1>3
      <4> QED BY <4>1, <4>2
    <3> QED BY <3>1
  <2>2. Row(r) = Row(s) \cup {n + 1}
    <3> DEFINE F == {k \in DOMAIN s : s[k] = "NL"}
    <3>1. F \subseteq 1 .. n
      BY <1>1
    <3>2. Row(r) = {i \in 1 .. n + 1 : \A j \in F : j < i}
      BY <2>1, <1>3, Zenon DEF Row
    <3>3. Row(s) = {i \in 1 .. n : \A j \in F : j < i}
      BY <1>1, Zenon DEF Row
    <3> HIDE DEF F
    <3>4. \A j \in F : j < n + 1
      BY <3>1, <1>1
    <3>5. 1 .. n + 1 = (1 .. n) \cup {n + 1}
      BY <1>1
    <3> QED BY <3>2, <3>3, <3>4, <3>5
  <2>3. n + 1 \notin Row(s)
    BY <1>1 DEF Row
  <2> DEFINE A == {i \in Row(s) : s[i] \in Control}
             B == {i \in Row(r) : r[i] \in Control}
  <2>4. B = IF c \in Control THEN A \cup {n + 1} ELSE A
    <3>1. \A i \in Row(s) : r[i] = s[i]
      BY <1>1, <1>2 DEF Row
    <3> QED BY <3>1, <2>2, <1>2
  <2>5. /\ IsFiniteSet(Row(s)) /\ IsFiniteSet(A)
        /\ Cardinality(Row(s)) \in Nat /\ Cardinality(A) \in Nat
    BY WidthType
  <2>6. n + 1 \notin A
    BY <2>3
  <2>7. Width(s) = Cardinality(Row(s)) + Cardinality(A) /\ Width(r) = Cardinality(Row(r)) + Cardinality(B)
    BY DEF Width
  <2> HIDE DEF A, B
  <2>8. Cardinality(Row(r)) = Cardinality(Row(s)) + 1
    BY <2>2, <2>3, <2>5, FS_AddElement
  <2>9. Cardinality(A \cup {n + 1}) = Cardinality(A) + 1
    BY <2>5, <2>6, FS_AddElement
  <2>10. Width(r) = Width(s) + W(c)
    BY <2>4, <2>5, <2>7, <2>8, <2>9 DEF W
  <2> QED BY <1>5, <2>10 DEF r
<1> QED BY <1>4, <1>5

LEMMA WidthOfPrefix ==
  ASSUME NEW s \in Seq(Char), NEW n \in 1 .. Len(s), s[n] # "NL"
  PROVE  Width(SubSeq(s, 1, n)) = Width(SubSeq(s, 1, n - 1)) + W(s[n])
<1> DEFINE t == SubSeq(s, 1, n - 1)
<1>1. Len(s) \in Nat /\ \A i \in 1 .. Len(s) : s[i] \in Char
  BY ElementOfSeq
<1>2. 1 \in 1 .. Len(s) /\ n \in 1 .. Len(s) /\ s[n] \in Char
  BY <1>1
<1>3. SubSeq(s, 1, n) = t \o <<s[n]>>
  BY <1>2, SubSeqRecursiveSecond
<1>4. t \in Seq(Char)
  <2>1. \A i \in 1 .. n - 1 : s[i] \in Char
    BY <1>1
  <2> QED BY <2>1, SubSeqProperties
<1> HIDE DEF t
<1>5. Append(t, s[n]) = t \o <<s[n]>>
  BY <1>2, <1>4, AppendIsConcat
<1>6. Width(Append(t, s[n])) = Width(t) + W(s[n])
  BY <1>2, <1>4, WidthOfAppend
<1> QED BY <1>3, <1>5, <1>6 DEF t

(* What is put for a character balances what its echo came to.             *)
LEMMA ErasuresFit ==
  ASSUME TtyType, Erasable
  PROVE  LET c == Last(secondary)
             rest == Front(secondary)
         IN  /\ rest \in Seq(Char) /\ W(c) \in Nat
             /\ Width(secondary) = Width(rest) + W(c)
             /\ Erasures(c) \in Seq(Item)
             /\ \A m \in Int : Balance(m, Erasures(c)) = m - W(c)
<1> DEFINE n == Len(secondary)
           c == Last(secondary)
           rest == Front(secondary)
<1>1. secondary \in Seq(Char) /\ n \in Nat
  BY LenProperties DEF TtyType
<1>2. n > 0 /\ ~EndsLine(c)
  BY <1>1, EmptySeq DEF Erasable, Protected
<1>3. c = secondary[n] /\ rest = SubSeq(secondary, 1, n - 1) /\ c # "NL"
  BY <1>2 DEF Last, Front, EndsLine
<1> HIDE DEF c, rest
<1>4. rest \in Seq(Char)
  <2>1. \A i \in 1 .. n - 1 : secondary[i] \in Char
    BY <1>1, ElementOfSeq
  <2> QED BY <1>1, <1>3, <2>1, SubSeqProperties
<1>5. Width(secondary) = Width(rest) + W(c)
  <2> HIDE DEF n
  <2>1. n \in 1 .. Len(secondary) /\ secondary[n] # "NL"
    BY <1>1, <1>2, <1>3 DEF n
  <2>2. Width(SubSeq(secondary, 1, n)) = Width(SubSeq(secondary, 1, n - 1)) + W(secondary[n])
    BY <1>1, <2>1, WidthOfPrefix
  <2>3. SubSeq(secondary, 1, n) = secondary
    BY <1>1, SubSeqFull DEF n
  <2> QED BY <1>3, <2>2, <2>3
<1>6. Erasures(c) \in Seq(Item)
  <2>1. "ASC_DEL" \in Item
    BY DEF Item
  <2>2. <<"ASC_DEL">> \in Seq(Item) /\ <<"ASC_DEL", "ASC_DEL">> \in Seq(Item)
    BY <2>1
  <2> QED BY <2>2 DEF Erasures
<1>7. ASSUME NEW m \in Int PROVE Balance(m, Erasures(c)) = m - W(c)
  <2>1. AfterItem(m, "ASC_DEL") = m - 1 /\ AfterItem(m - 1, "ASC_DEL") = m - 2
    BY DEF AfterItem
  <2>2. CASE c \in Control
    <3>1. Balance(m, <<"ASC_DEL", "ASC_DEL">>) = AfterItem(AfterItem(m, "ASC_DEL"), "ASC_DEL")
      BY BalanceTwo
    <3> QED BY <2>1, <2>2, <3>1 DEF Erasures, W
  <2>3. CASE c \notin Control
    <3>1. Balance(m, <<"ASC_DEL">>) = AfterItem(m, "ASC_DEL")
      BY BalanceOne
    <3> QED BY <2>1, <2>3, <3>1 DEF Erasures, W
  <2> QED BY <2>2, <2>3
<1>8. W(c) \in Nat
  BY DEF W
<1> QED BY <1>4, <1>5, <1>6, <1>7, <1>8 DEF c, rest

-----------------------------------------------------------------------------
(* What was sent and what waits is what the row came to.                   *)
EchoInv ==
  "L_ECHO" \in termios /\ overrun = FALSE =>
    /\ write_q \in Seq(Item) /\ sent \in Int
    /\ Balance(sent, write_q) = Width(secondary)

LEMMA EchoInvInit == TtyInit => EchoInv
<1> SUFFICES ASSUME TtyInit PROVE EchoInv
  OBVIOUS
<1>1. write_q = <<>> /\ secondary = <<>> /\ sent = 0
  BY DEF TtyInit
<1>2. write_q \in Seq(Item) /\ secondary \in Seq(Char) /\ Len(secondary) = 0
  BY <1>1
<1>3. Balance(sent, write_q) = 0
  BY <1>1, BalanceNone
<1>4. Row(secondary) = {}
  <2>1. Row(secondary) \subseteq 1 .. 0
    BY <1>2, WidthType
  <2> QED BY <2>1
<1>5. {i \in Row(secondary) : secondary[i] \in Control} = {}
  BY <1>4
<1>6. Width(secondary) = 0
  BY <1>4, <1>5, FS_EmptySet DEF Width
<1> QED BY <1>1, <1>2, <1>3, <1>6 DEF EchoInv

LEMMA TakeBackEcho ==
  ASSUME TtyType, EchoInv, Erasable, NEW k, TakeBack(k), termios' = termios
  PROVE  EchoInv'
<1> SUFFICES ASSUME "L_ECHO" \in termios, overrun' = FALSE
             PROVE  (/\ write_q \in Seq(Item) /\ sent \in Int
                     /\ Balance(sent, write_q) = Width(secondary))'
  BY DEF EchoInv
<1> DEFINE c == Last(secondary)
           rest == Front(secondary)
           items == Erasures(c)
<1>1. /\ secondary' = rest /\ write_q' = <<>>
      /\ overrun' = (overrun \/ Overruns(items))
      /\ sent' = Balance(sent, write_q \o items)
  BY DEF TakeBack
<1>2. overrun = FALSE
  BY <1>1 DEF TtyType
<1>3. /\ write_q \in Seq(Item) /\ sent \in Int
      /\ Balance(sent, write_q) = Width(secondary)
  BY <1>2 DEF EchoInv
<1>4. /\ rest \in Seq(Char) /\ W(c) \in Nat
      /\ Width(secondary) = Width(rest) + W(c)
      /\ items \in Seq(Item)
      /\ \A m \in Int : Balance(m, items) = m - W(c)
  BY ErasuresFit, Zenon
<1> HIDE DEF c, rest, items
<1>5. sent' = Balance(Width(secondary), items)
  BY <1>1, <1>3, <1>4, BalanceConcat
<1>6. Width(secondary) \in Nat /\ Width(rest) \in Nat
  BY <1>4, WidthType DEF TtyType
<1>7. sent' = Width(rest)
  BY <1>4, <1>5, <1>6
<1>8. Balance(sent', write_q') = sent'
  BY <1>1, BalanceNone
<1>9. Width(secondary') = Width(rest)
  BY <1>1
<1>10. Balance(sent, write_q)' = Balance(sent', write_q') /\ Width(secondary)' = Width(secondary')
  OBVIOUS
<1> QED BY <1>1, <1>6, <1>7, <1>8, <1>9, <1>10

LEMMA StoreEcho ==
  ASSUME TtyType, EchoInv, NEW c \in Char, Store(c), termios' = termios
  PROVE  EchoInv'
<1> SUFFICES ASSUME "L_ECHO" \in termios, overrun' = FALSE
             PROVE  (/\ write_q \in Seq(Item) /\ sent \in Int
                     /\ Balance(sent, write_q) = Width(secondary))'
  BY DEF EchoInv
<1>1. /\ secondary' = Append(secondary, c)
      /\ write_q' = PutAll(write_q, Echo(c))
      /\ overrun' = (overrun \/ Overruns(Echo(c)))
      /\ sent' = sent
  BY DEF Store
<1>2. secondary \in Seq(Char) /\ overrun = FALSE /\ ~Overruns(Echo(c))
  BY <1>1 DEF TtyType
<1>3. /\ write_q \in Seq(Item) /\ sent \in Int
      /\ Balance(sent, write_q) = Width(secondary)
  BY <1>2 DEF EchoInv
<1>4. Width(secondary) \in Nat
  BY <1>2, WidthType
<1>5. /\ Echo(c) \in Seq(Item) /\ Len(Echo(c)) \in Nat
      /\ Balance(Width(secondary), Echo(c)) = IF c = "NL" THEN 0 ELSE Width(secondary) + W(c)
  BY <1>4, EchoIs
<1>6. Len(write_q) + Len(Echo(c)) < TTY_BUF_SIZE
  <2>1. Len(write_q) \in Nat /\ TTY_BUF_SIZE \in Nat
    BY <1>3, LenProperties, TtyAssumption
  <2> QED BY <1>2, <1>5, <2>1 DEF Overruns
<1>7. write_q' = write_q \o Echo(c)
  BY <1>1, <1>3, <1>6, EchoPut
<1>8. write_q' \in Seq(Item)
  BY <1>3, <1>5, <1>7, ConcatProperties
<1>9. Balance(sent', write_q') = Balance(Width(secondary), Echo(c))
  BY <1>1, <1>3, <1>5, <1>7, BalanceConcat
<1>10. Width(secondary') = IF c = "NL" THEN 0 ELSE Width(secondary) + W(c)
  BY <1>1, <1>2, WidthOfAppend
<1>11. Balance(sent, write_q)' = Balance(sent', write_q') /\ Width(secondary)' = Width(secondary')
  OBVIOUS
<1> QED BY <1>1, <1>3, <1>5, <1>8, <1>9, <1>10, <1>11

LEMMA EchoInvStep == TtyType /\ EchoInv /\ [TtyNext]_ttyVars => EchoInv'
<1> SUFFICES ASSUME TtyType, EchoInv, [TtyNext]_ttyVars PROVE EchoInv'
  OBVIOUS
<1>1. ASSUME UNCHANGED <<termios, secondary, write_q, sent, overrun>> PROVE EchoInv'
  <2>1. Balance(sent, write_q)' = Balance(sent, write_q) /\ Width(secondary)' = Width(secondary)
    BY <1>1
  <2> QED BY <1>1, <2>1 DEF EchoInv
<1>2. CASE Cook
  <2>1. termios' = termios
    BY <1>2, CookStep
  <2>2. CASE Nothing \/ Kill
    BY <1>1, <2>1, <2>2 DEF Nothing, Kill
  <2>3. CASE Erasable /\ TakeBack(FALSE)
    BY <2>1, <2>3, TakeBackEcho
  <2>4. ASSUME NEW b \in BOOLEAN, Stop(b) PROVE EchoInv'
    BY <1>1, <2>1, <2>4 DEF Stop
  <2>5. ASSUME NEW c \in Char, Store(c) PROVE EchoInv'
    BY <2>1, <2>5, StoreEcho
  <2> QED BY <1>2, CookStep, <2>2, <2>3, <2>4, <2>5
<1>3. CASE KillTurn
  <2>1. Erasable /\ TakeBack(TRUE) /\ termios' = termios
    BY <1>3 DEF KillTurn
  <2> QED BY <2>1, TakeBackEcho
<1>4. CASE EndKill \/ EndCooking \/ (\E keys \in Typed : KeyboardInterrupt(keys)) \/ GoAstray
           \/ UNCHANGED ttyVars
  <2>1. UNCHANGED <<termios, secondary, write_q, sent, overrun>>
    BY <1>4 DEF EndKill, EndCooking, KeyboardInterrupt, GoAstray, ttyVars
  <2> QED BY <1>1, <2>1
<1> QED BY <1>2, <1>3, <1>4 DEF TtyNext

(* tty_io.c sends for what is erased and killed as many ASC_DEL as it had  *)
(* sent characters of echo, for as long as write_q has not overrun and no  *)
(* call has gone astray.                                                   *)
THEOREM ErasuresAreSent == TtySpec => []ErasuresMatch
<1>1. TtySpec => []EchoInv
  BY EchoInvInit, EchoInvStep, TtyInvariant, PTL DEF TtySpec
<1>2. TtyType /\ EchoInv => ErasuresMatch
  <2> SUFFICES ASSUME TtyType, EchoInv PROVE ErasuresMatch
    OBVIOUS
  <2>1. "L_ECHO" \in termios /\ ~overrun => Balance(sent, write_q) = Width(secondary)
    BY DEF EchoInv, TtyType
  <2> QED BY <2>1, Zenon DEF ErasuresMatch, Width, Row
<1> QED BY <1>1, <1>2, TtyInvariant, PTL

=============================================================================
