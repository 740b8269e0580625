-------------------------- MODULE BufferCacheProofs --------------------------
(* Theorems of BufferCache, for any number of tasks, buffers and blocks,   *)
(* as long as the references fit into the byte of b_count: b_count is      *)
(* exact, a buffer in use keeps its block, and what a buffer has is the    *)
(* data of its block, whatever free buffer a search comes to.  Then the    *)
(* lists: the links keep them in order, so that the searches find what     *)
(* there is, and every sleeper is reached.  And that all of it is a cache  *)
(* of blocks.                                                              *)
EXTENDS BufferCache, FiniteSetTheorems, WellFoundedInduction, TLAPS

Busy == {"hash", "got", "lock", "io", "brelse"}

TypeInv ==
  /\ b_block \in [Buffer -> Nat]
  /\ b_count \in [Buffer -> Nat]
  /\ b_lock \in [Buffer -> BOOLEAN]
  /\ b_uptodate \in [Buffer -> BOOLEAN]
  /\ b_data \in [Buffer -> Nat]
  /\ sector \in [Buffer -> Nat]
  /\ at \in [Task -> Place]
  /\ block \in [Task -> Nat]
  /\ bh \in [Task -> Buffer]
  /\ held \in [Task -> [Buffer -> Nat]]

(* The references to a buffer can be counted, and b_count counts them.     *)
CountInv == \A b \in Buffer : IsFiniteSet(Using(b)) /\ b_count[b] = Cardinality(Using(b))

UseInv == \A t \in Task : at[t] \in {"hash", "got", "lock", "io"} => b_block[bh[t]] = block[t]
LockInv == \A b \in Buffer : b_lock[b] => \E t \in Task : at[t] = "io" /\ bh[t] = b

(* The disk is reading the block of the buffer.                            *)
SectorInv == \A b \in Buffer : b_lock[b] => sector[b] = b_block[b]

CacheInv == TypeInv /\ CountInv /\ UseInv /\ LockInv /\ SectorInv /\ DataIsOfBlock

(* The bound on the references that a task keeps, with the one it asks for.*)
Calling == Place \ {"user", "brelse"}

LimitInv ==
  \A t \in Task :
    /\ IsFiniteSet(References(t)) /\ Cardinality(References(t)) <= MaxHeld
    /\ at[t] \in Calling => Cardinality(References(t)) < MaxHeld

-----------------------------------------------------------------------------
(* Using(b) as a function of the state it reads: a call that is about b is *)
(* the pair of its task with 0, the i-th reference held the pair with i.   *)
Refs(a, h, n, b) ==
  {t \in Task : a[t] \in Busy /\ h[t] = b} \X {0}
    \cup UNION {{t} \X (1 .. n[t][b]) : t \in Task}

About(a, h, t, b) == a[t] \in Busy /\ h[t] = b

LEMMA UsingIsRefs ==
  ASSUME NEW b
  PROVE  Using(b) = Refs(at, bh, held, b) /\ Using(b)' = Refs(at', bh', held', b')
BY DEF Using, Refs, Busy

LEMMA RefsMembers ==
  ASSUME NEW a, NEW h, NEW n \in [Task -> [Buffer -> Nat]], NEW b \in Buffer, NEW r
  PROVE  r \in Refs(a, h, n, b) <=>
           \/ \E t \in Task : About(a, h, t, b) /\ r = <<t, 0>>
           \/ \E t \in Task, i \in Nat : 1 <= i /\ i <= n[t][b] /\ r = <<t, i>>
<1>1. ASSUME NEW t \in Task PROVE n[t][b] \in Nat
  OBVIOUS
<1>2. ASSUME NEW t \in Task
      PROVE  r \in {t} \X (1 .. n[t][b]) <=> \E i \in Nat : 1 <= i /\ i <= n[t][b] /\ r = <<t, i>>
  BY <1>1
<1>3. r \in UNION {{t} \X (1 .. n[t][b]) : t \in Task} <=>
        \E t \in Task : r \in {t} \X (1 .. n[t][b])
  OBVIOUS
<1>4. r \in {t \in Task : a[t] \in Busy /\ h[t] = b} \X {0} <=>
        \E t \in Task : About(a, h, t, b) /\ r = <<t, 0>>
  BY DEF About
<1> QED BY <1>2, <1>3, <1>4 DEF Refs

LEMMA RefsSame ==
  ASSUME NEW a, NEW h, NEW n \in [Task -> [Buffer -> Nat]], NEW b \in Buffer,
         NEW a2, NEW h2, NEW n2 \in [Task -> [Buffer -> Nat]],
         \A t \in Task : About(a2, h2, t, b) <=> About(a, h, t, b),
         \A t \in Task : n2[t][b] = n[t][b]
  PROVE  Refs(a2, h2, n2, b) = Refs(a, h, n, b)
<1>1. ASSUME NEW r PROVE r \in Refs(a2, h2, n2, b) <=> r \in Refs(a, h, n, b)
  BY RefsMembers
<1> QED BY <1>1

SameCalls(a2, h2, a, h, b) == \A t \in Task : About(a2, h2, t, b) <=> About(a, h, t, b)

LEMMA RefsKept ==
  ASSUME NEW a, NEW h, NEW n \in [Task -> [Buffer -> Nat]], NEW b \in Buffer, NEW a2, NEW h2,
         SameCalls(a2, h2, a, h, b)
  PROVE  Refs(a2, h2, n, b) = Refs(a, h, n, b)
<1>1. \A t \in Task : n[t][b] = n[t][b]
  OBVIOUS
<1> QED BY <1>1, RefsSame DEF SameCalls

(* A call begins to be about b.                                            *)
LEMMA RefsEnter ==
  ASSUME NEW a, NEW h, NEW n \in [Task -> [Buffer -> Nat]], NEW b \in Buffer,
         NEW a2, NEW h2, NEW t0 \in Task,
         About(a2, h2, t0, b), ~About(a, h, t0, b),
         \A t \in Task \ {t0} : About(a2, h2, t, b) <=> About(a, h, t, b)
  PROVE  /\ Refs(a2, h2, n, b) = Refs(a, h, n, b) \cup {<<t0, 0>>}
         /\ <<t0, 0>> \notin Refs(a, h, n, b)
<1>1. <<t0, 0>> \notin Refs(a, h, n, b)
  BY RefsMembers
<1>2. ASSUME NEW r PROVE r \in Refs(a2, h2, n, b) <=> r \in Refs(a, h, n, b) \cup {<<t0, 0>>}
  BY RefsMembers
<1> QED BY <1>1, <1>2

(* A call is over, or no longer about b.                                   *)
LEMMA RefsLeave ==
  ASSUME NEW a, NEW h, NEW n \in [Task -> [Buffer -> Nat]], NEW b \in Buffer,
         NEW a2, NEW h2, NEW t0 \in Task,
         ~About(a2, h2, t0, b), About(a, h, t0, b),
         \A t \in Task \ {t0} : About(a2, h2, t, b) <=> About(a, h, t, b)
  PROVE  /\ Refs(a2, h2, n, b) = Refs(a, h, n, b) \ {<<t0, 0>>}
         /\ <<t0, 0>> \in Refs(a, h, n, b)
<1>1. <<t0, 0>> \in Refs(a, h, n, b)
  BY RefsMembers
<1>2. ASSUME NEW r PROVE r \in Refs(a2, h2, n, b) <=> r \in Refs(a, h, n, b) \ {<<t0, 0>>}
  BY RefsMembers
<1> QED BY <1>1, <1>2

(* A reference more, or one less.                                          *)
LEMMA RefsHold ==
  ASSUME NEW a, NEW h, NEW n \in [Task -> [Buffer -> Nat]], NEW b \in Buffer,
         NEW n2 \in [Task -> [Buffer -> Nat]], NEW t0 \in Task,
         n2[t0][b] = n[t0][b] + 1,
         \A t \in Task \ {t0} : n2[t][b] = n[t][b]
  PROVE  /\ Refs(a, h, n2, b) = Refs(a, h, n, b) \cup {<<t0, n2[t0][b]>>}
         /\ <<t0, n2[t0][b]>> \notin Refs(a, h, n, b)
<1>0. n[t0][b] \in Nat /\ n2[t0][b] \in Nat
  OBVIOUS
<1>1. <<t0, n2[t0][b]>> \notin Refs(a, h, n, b)
  BY <1>0, RefsMembers
<1>2. ASSUME NEW r PROVE r \in Refs(a, h, n2, b) <=> r \in Refs(a, h, n, b) \cup {<<t0, n2[t0][b]>>}
  <2>1. ASSUME NEW t \in Task, NEW i \in Nat, r = <<t, i>>
        PROVE  1 <= i /\ i <= n2[t][b] <=> (1 <= i /\ i <= n[t][b]) \/ (t = t0 /\ i = n2[t0][b])
    <3>1. CASE t = t0
      <4> DEFINE k == n[t0][b]
      <4>1. k \in Nat /\ n[t][b] = k /\ n2[t][b] = k + 1 /\ n2[t0][b] = k + 1
        BY <1>0, <3>1
      <4> HIDE DEF k
      <4>2. i <= k + 1 <=> i <= k \/ i = k + 1
        BY <4>1
      <4> QED BY <3>1, <4>1, <4>2
    <3>2. CASE t # t0
      BY <2>1, <3>2
    <3> QED BY <3>1, <3>2
  <2> QED BY <1>0, <2>1, RefsMembers
<1> QED BY <1>1, <1>2

(* Sets of references that are counted.                                    *)
Counted(S, k) == IsFiniteSet(S) /\ k = Cardinality(S)

LEMMA OneMore ==
  ASSUME NEW S, NEW T, NEW x, NEW k, Counted(S, k), T = S \cup {x}, x \notin S
  PROVE  Counted(T, k + 1)
BY FS_AddElement DEF Counted

LEMMA OneLess ==
  ASSUME NEW S, NEW T, NEW x, NEW k, Counted(S, k), T = S \ {x}, x \in S
  PROVE  Counted(T, k - 1) /\ k \in Nat /\ k > 0
<1>1. IsFiniteSet(T) /\ Cardinality(T) = Cardinality(S) - 1
  BY FS_RemoveElement DEF Counted
<1>2. Cardinality(S) \in Nat /\ Cardinality(T) \in Nat
  BY <1>1, FS_CardinalityType DEF Counted
<1> QED BY <1>1, <1>2 DEF Counted

LEMMA CountEnter ==
  ASSUME NEW a, NEW h, NEW n \in [Task -> [Buffer -> Nat]], NEW b \in Buffer,
         NEW a2, NEW h2, NEW t0 \in Task,
         About(a2, h2, t0, b), ~About(a, h, t0, b),
         \A t \in Task \ {t0} : About(a2, h2, t, b) <=> About(a, h, t, b),
         NEW k \in Nat, Counted(Refs(a, h, n, b), k)
  PROVE  Counted(Refs(a2, h2, n, b), k + 1)
<1>1. /\ Refs(a2, h2, n, b) = Refs(a, h, n, b) \cup {<<t0, 0>>}
      /\ <<t0, 0>> \notin Refs(a, h, n, b)
  BY RefsEnter
<1> QED BY <1>1, OneMore

LEMMA CountLeave ==
  ASSUME NEW a, NEW h, NEW n \in [Task -> [Buffer -> Nat]], NEW b \in Buffer,
         NEW a2, NEW h2, NEW t0 \in Task,
         ~About(a2, h2, t0, b), About(a, h, t0, b),
         \A t \in Task \ {t0} : About(a2, h2, t, b) <=> About(a, h, t, b),
         NEW k \in Nat, Counted(Refs(a, h, n, b), k)
  PROVE  Counted(Refs(a2, h2, n, b), k - 1) /\ k > 0
<1>1. /\ Refs(a2, h2, n, b) = Refs(a, h, n, b) \ {<<t0, 0>>}
      /\ <<t0, 0>> \in Refs(a, h, n, b)
  BY RefsLeave
<1> QED BY <1>1, OneLess

LEMMA CountHold ==
  ASSUME NEW a, NEW h, NEW n \in [Task -> [Buffer -> Nat]], NEW b \in Buffer,
         NEW n2 \in [Task -> [Buffer -> Nat]], NEW t0 \in Task,
         n2[t0][b] = n[t0][b] + 1,
         \A t \in Task \ {t0} : n2[t][b] = n[t][b],
         NEW k \in Nat, Counted(Refs(a, h, n, b), k)
  PROVE  Counted(Refs(a, h, n2, b), k + 1)
<1>1. /\ Refs(a, h, n2, b) = Refs(a, h, n, b) \cup {<<t0, n2[t0][b]>>}
      /\ <<t0, n2[t0][b]>> \notin Refs(a, h, n, b)
  BY RefsHold
<1> QED BY <1>1, OneMore

LEMMA CountUnhold ==
  ASSUME NEW a, NEW h, NEW n \in [Task -> [Buffer -> Nat]], NEW b \in Buffer,
         NEW n2 \in [Task -> [Buffer -> Nat]], NEW t0 \in Task,
         n[t0][b] = n2[t0][b] + 1,
         \A t \in Task \ {t0} : n2[t][b] = n[t][b],
         NEW k \in Nat, Counted(Refs(a, h, n, b), k)
  PROVE  Counted(Refs(a, h, n2, b), k - 1) /\ k > 0
<1> DEFINE x == <<t0, n[t0][b]>>
<1>1. Refs(a, h, n, b) = Refs(a, h, n2, b) \cup {x} /\ x \notin Refs(a, h, n2, b)
  BY RefsHold
<1>2. Refs(a, h, n2, b) = Refs(a, h, n, b) \ {x} /\ x \in Refs(a, h, n, b)
  BY <1>1
<1> HIDE DEF x
<1> QED BY <1>2, OneLess

(* A buffer that is not in use is in nobody's hands.                       *)
LEMMA FreeIsUnused ==
  ASSUME TypeInv, CountInv, NEW b \in Buffer, b_count[b] = 0
  PROVE  \A t \in Task : ~About(at, bh, t, b)
<1>1. Using(b) = {}
  BY FS_EmptySet DEF CountInv
<1>2. held \in [Task -> [Buffer -> Nat]]
  BY DEF TypeInv
<1>3. ASSUME NEW t \in Task, About(at, bh, t, b) PROVE FALSE
  <2>1. <<t, 0>> \in Refs(at, bh, held, b)
    BY <1>2, <1>3, RefsMembers
  <2> QED BY <1>1, <2>1, UsingIsRefs
<1> QED BY <1>3

LEMMA CountOf ==
  CountInv <=> \A b \in Buffer : Counted(Refs(at, bh, held, b), b_count[b])
BY UsingIsRefs DEF CountInv, Counted

LEMMA CountOfPrimed ==
  CountInv' <=> \A b \in Buffer : Counted(Refs(at', bh', held', b), b_count'[b])
<1>1. \A b \in Buffer : Using(b)' = Refs(at', bh', held', b)
  BY UsingIsRefs
<1> QED BY <1>1 DEF CountInv, Counted, Buffer

-----------------------------------------------------------------------------
(* The references of one task, as a function of how often it has got each  *)
(* buffer.                                                                 *)
Own(n) == UNION {{b} \X (1 .. n[b]) : b \in Buffer}

LEMMA OwnIsReferences ==
  ASSUME NEW t PROVE References(t) = Own(held[t]) /\ References(t)' = Own(held'[t'])
BY DEF References, Own, Buffer

LEMMA OwnMembers ==
  ASSUME NEW n \in [Buffer -> Nat], NEW r
  PROVE  r \in Own(n) <=> \E b \in Buffer, i \in Nat : 1 <= i /\ i <= n[b] /\ r = <<b, i>>
<1>1. ASSUME NEW b \in Buffer
      PROVE  r \in {b} \X (1 .. n[b]) <=> \E i \in Nat : 1 <= i /\ i <= n[b] /\ r = <<b, i>>
  <2>1. n[b] \in Nat
    OBVIOUS
  <2> QED BY <2>1
<1> QED BY <1>1 DEF Own

(* One reference more; read backwards, one less.                           *)
LEMMA OwnMore ==
  ASSUME NEW n \in [Buffer -> Nat], NEW n2 \in [Buffer -> Nat], NEW b \in Buffer,
         n2[b] = n[b] + 1, \A c \in Buffer \ {b} : n2[c] = n[c]
  PROVE  Own(n2) = Own(n) \cup {<<b, n2[b]>>} /\ <<b, n2[b]>> \notin Own(n)
<1>0. n[b] \in Nat /\ n2[b] \in Nat
  OBVIOUS
<1>1. <<b, n2[b]>> \notin Own(n)
  BY <1>0, OwnMembers
<1>2. ASSUME NEW r PROVE r \in Own(n2) <=> r \in Own(n) \cup {<<b, n2[b]>>}
  <2>1. ASSUME NEW c \in Buffer, NEW i \in Nat, r = <<c, i>>
        PROVE  1 <= i /\ i <= n2[c] <=> (1 <= i /\ i <= n[c]) \/ (c = b /\ i = n2[b])
    <3>1. CASE c = b
      <4> DEFINE k == n[b]
      <4>1. k \in Nat /\ n[c] = k /\ n2[c] = k + 1 /\ n2[b] = k + 1
        BY <1>0, <3>1
      <4> HIDE DEF k
      <4>2. i <= k + 1 <=> i <= k \/ i = k + 1
        BY <4>1
      <4> QED BY <3>1, <4>1, <4>2
    <3>2. CASE c # b
      BY <2>1, <3>2
    <3> QED BY <3>1, <3>2
  <2> QED BY <1>0, <2>1, OwnMembers
<1> QED BY <1>1, <1>2

-----------------------------------------------------------------------------
(* The counts fit into a byte.                                             *)
LEMMA HeldIsBounded ==
  ASSUME TypeInv, LimitInv, NEW t \in Task, NEW b \in Buffer
  PROVE  held[t][b] \in 0 .. MaxHeld
<1> DEFINE n == held[t][b]
           S == {b} \X (1 .. n)
<1>1. n \in Nat /\ MaxHeld \in Nat
  BY CacheAssumption DEF TypeInv, CacheAssumption
<1>2. IsFiniteSet(References(t)) /\ Cardinality(References(t)) <= MaxHeld /\ S \subseteq References(t)
  BY DEF LimitInv, References
<1> HIDE DEF n
<1>3. IsFiniteSet({b}) /\ Cardinality({b}) = 1
  BY FS_Singleton
<1>4. IsFiniteSet(1 .. n) /\ Cardinality(1 .. n) = n
  BY <1>1, FS_Interval
<1>5. Cardinality(S) = n
  <2> DEFINE A == {b}
             B == 1 .. n
  <2>1. IsFiniteSet(A) /\ IsFiniteSet(B) /\ Cardinality(A) = 1 /\ Cardinality(B) = n
    BY <1>3, <1>4
  <2> HIDE DEF A, B
  <2>2. Cardinality(A \X B) = Cardinality(A) * Cardinality(B)
    BY <2>1, FS_Product, Zenon
  <2>3. Cardinality(A \X B) = n
    BY <1>1, <2>1, <2>2
  <2> QED BY <2>3 DEF A, B
<1>6. Cardinality(S) <= Cardinality(References(t)) /\ Cardinality(References(t)) \in Nat
  <2> DEFINE R == References(t)
  <2>1. IsFiniteSet(R) /\ S \in SUBSET R
    BY <1>2
  <2> HIDE DEF R, S
  <2>2. Cardinality(S) <= Cardinality(R) /\ Cardinality(R) \in Nat
    BY <2>1, FS_Subset, FS_CardinalityType
  <2> QED BY <2>2 DEF R
<1> QED BY <1>1, <1>2, <1>5, <1>6 DEF n

(* All references there may be: one to hold and one per call for each task.*)
Room == Task \X (0 .. MaxHeld)

LEMMA RoomFits == IsFiniteSet(Room) /\ Cardinality(Room) \in Nat /\ Cardinality(Room) < 256
<1>1. MaxHeld \in Nat /\ IsFiniteSet(Task) /\ Cardinality(Task) * (MaxHeld + 1) < 256
  BY CacheAssumption, ReferencesFit DEF CacheAssumption, ReferencesFit
<1>2. IsFiniteSet(0 .. MaxHeld) /\ Cardinality(0 .. MaxHeld) = MaxHeld + 1
  <2>1. 0 \in Int /\ MaxHeld \in Int /\ ~(0 > MaxHeld) /\ MaxHeld - 0 + 1 = MaxHeld + 1
    BY <1>1
  <2>2. /\ IsFiniteSet(0 .. MaxHeld)
        /\ Cardinality(0 .. MaxHeld) = IF 0 > MaxHeld THEN 0 ELSE MaxHeld - 0 + 1
    BY <2>1, FS_Interval, Zenon
  <2> QED BY <2>1, <2>2
<1>3. IsFiniteSet(Room) /\ Cardinality(Room) = Cardinality(Task) * (MaxHeld + 1)
  BY <1>1, <1>2, FS_Product DEF Room
<1> QED BY <1>1, <1>3, FS_CardinalityType

LEMMA UsingFits ==
  ASSUME TypeInv, LimitInv, NEW b \in Buffer PROVE Refs(at, bh, held, b) \subseteq Room
<1>1. held \in [Task -> [Buffer -> Nat]] /\ MaxHeld \in Nat
  BY CacheAssumption DEF TypeInv, CacheAssumption
<1>2. ASSUME NEW r \in Refs(at, bh, held, b) PROVE r \in Room
  <2>1. CASE \E t \in Task : About(at, bh, t, b) /\ r = <<t, 0>>
    BY <1>1, <2>1 DEF Room
  <2>2. CASE \E t \in Task, i \in Nat : 1 <= i /\ i <= held[t][b] /\ r = <<t, i>>
    <3>1. PICK t \in Task, i \in Nat : i <= held[t][b] /\ r = <<t, i>>
      BY <2>2
    <3>2. held[t][b] \in 0 .. MaxHeld
      BY HeldIsBounded
    <3>3. i \in 0 .. MaxHeld
      BY <1>1, <3>1, <3>2
    <3> QED BY <3>1, <3>3 DEF Room
  <2> QED BY <1>1, <2>1, <2>2, RefsMembers
<1> QED BY <1>2

(* A count is a byte, and is less than that when some task may still ask.  *)
LEMMA CountFits ==
  ASSUME TypeInv, CountInv, LimitInv, NEW b \in Buffer
  PROVE  /\ b_count[b] \in 0 .. 255
         /\ (\E t \in Task : ~About(at, bh, t, b)) => b_count[b] + 1 \in 0 .. 255
<1> DEFINE S == Refs(at, bh, held, b)
           k == b_count[b]
<1>1. Counted(S, k) /\ k \in Nat /\ S \subseteq Room
  BY CountOf, UsingFits DEF TypeInv
<1>2. held \in [Task -> [Buffer -> Nat]]
  BY DEF TypeInv
<1>3. ASSUME NEW t \in Task, ~About(at, bh, t, b) PROVE k + 1 <= 255
  <2>1. <<t, 0>> \notin S
    BY <1>2, <1>3, RefsMembers
  <2>2. <<t, 0>> \in Room
    BY CacheAssumption DEF Room, CacheAssumption
  <2> HIDE DEF S, k
  <2> DEFINE T == S \cup {<<t, 0>>}
  <2>3. Counted(T, k + 1)
    BY <1>1, <2>1, OneMore
  <2>4. T \in SUBSET Room
    BY <1>1, <2>2
  <2> HIDE DEF T
  <2>5. Cardinality(T) <= Cardinality(Room)
    BY <2>4, RoomFits, FS_Subset
  <2> QED BY <1>1, <2>3, <2>5, RoomFits DEF Counted
<1>4. k <= 255
  <2> HIDE DEF S, k
  <2>1. S \in SUBSET Room
    BY <1>1
  <2>2. Cardinality(S) <= Cardinality(Room)
    BY <2>1, RoomFits, FS_Subset
  <2> QED BY <1>1, <2>2, RoomFits DEF Counted
<1> QED BY <1>1, <1>3, <1>4

LEMMA UInt8Is == \A n \in 0 .. 255 : UInt8(n) = n
BY DEF UInt8

(* So it does not wrap when a call begins or ends.                         *)
LEMMA CountsUp ==
  ASSUME TypeInv, CountInv, LimitInv, NEW t \in Task, NEW b \in Buffer, at[t] \notin Busy,
         b_count' = [b_count EXCEPT ![b] = UInt8(@ + 1)]
  PROVE  b_count' = [b_count EXCEPT ![b] = @ + 1]
<1>1. ~About(at, bh, t, b)
  BY DEF About
<1>2. UInt8(b_count[b] + 1) = b_count[b] + 1
  BY <1>1, CountFits, UInt8Is
<1> QED BY <1>2

LEMMA CountsDown ==
  ASSUME TypeInv, CountInv, LimitInv, NEW b \in Buffer, b_count[b] > 0,
         b_count' = [b_count EXCEPT ![b] = UInt8(@ - 1)]
  PROVE  b_count' = [b_count EXCEPT ![b] = @ - 1]
<1>1. b_count[b] - 1 \in 0 .. 255
  BY CountFits
<1>2. UInt8(b_count[b] - 1) = b_count[b] - 1
  BY <1>1, UInt8Is
<1> QED BY <1>2

-----------------------------------------------------------------------------
(* The three ways through getblk(), for a task that asks for block k.      *)
Asks(t, k) ==
  /\ at[t] \in {"user", "repeat"} /\ k \in Nat
  /\ block' \in [Task -> Nat] /\ block'[t] = k
  /\ \A u \in Task \ {t} : block'[u] = block[u]

(* A call of t that is about b now, and was about no buffer.               *)
LEMMA CallBegins ==
  ASSUME TypeInv, CountInv, NEW t \in Task, NEW b \in Buffer, NEW place \in Busy \cap Place,
         at[t] \in {"user", "repeat"},
         at' = [at EXCEPT ![t] = place], bh' = [bh EXCEPT ![t] = b],
         b_count' = [b_count EXCEPT ![b] = @ + 1], held' = held
  PROVE  CountInv' /\ at' \in [Task -> Place] /\ bh' \in [Task -> Buffer] /\ b_count' \in [Buffer -> Nat]
<1>1. at' \in [Task -> Place] /\ bh' \in [Task -> Buffer] /\ b_count' \in [Buffer -> Nat]
  BY DEF TypeInv
<1>2. at'[t] = place /\ bh'[t] = b /\ \A u \in Task \ {t} : at'[u] = at[u] /\ bh'[u] = bh[u]
  BY DEF TypeInv
<1>3. held \in [Task -> [Buffer -> Nat]]
  BY DEF TypeInv
<1>4. ASSUME NEW c \in Buffer PROVE Counted(Refs(at', bh', held, c), b_count'[c])
  <2>1. Counted(Refs(at, bh, held, c), b_count[c]) /\ b_count[c] \in Nat
    BY CountOf DEF TypeInv
  <2>2. ~About(at, bh, t, c) /\ \A u \in Task \ {t} : About(at', bh', u, c) <=> About(at, bh, u, c)
    BY <1>2 DEF About, Busy
  <2>3. CASE c = b
    <3>1. About(at', bh', t, c)
      BY <1>2, <2>3 DEF About
    <3>2. Counted(Refs(at', bh', held, c), b_count[c] + 1)
      BY <1>3, <2>1, <2>2, <3>1, CountEnter
    <3> QED BY <2>3, <3>2 DEF TypeInv
  <2>4. CASE c # b
    <3>1. SameCalls(at', bh', at, bh, c)
      BY <1>2, <2>2, <2>4 DEF About, SameCalls
    <3>2. Refs(at', bh', held, c) = Refs(at, bh, held, c)
      BY <1>3, <3>1, RefsKept
    <3> QED BY <2>1, <2>4, <3>2 DEF TypeInv
  <2> QED BY <2>3, <2>4
<1> QED BY <1>1, <1>4, CountOfPrimed

LEMMA InHashKeeps ==
  ASSUME CacheInv, LimitInv, NEW t \in Task, NEW k, Asks(t, k), InHash(t, k)
  PROVE  CacheInv'
<1>0. PICK b \in Buffer :
        /\ b_block[b] = k
        /\ b_count' = [b_count EXCEPT ![b] = UInt8(@ + 1)]
        /\ bh' = [bh EXCEPT ![t] = b]
        /\ Run(t, IF b_lock[b] THEN "hash" ELSE "got")
        /\ UNCHANGED <<b_block, b_lock, b_uptodate, b_data, sector, queues, held>>
  BY DEF InHash, Found
<1>1. /\ b_block[b] = k
      /\ b_count' = [b_count EXCEPT ![b] = @ + 1]
      /\ bh' = [bh EXCEPT ![t] = b]
      /\ Run(t, IF b_lock[b] THEN "hash" ELSE "got")
      /\ UNCHANGED <<b_block, b_lock, b_uptodate, b_data, sector, queues, held>>
  BY <1>0, CountsUp DEF CacheInv, Asks, Busy
<1>2. PICK place \in {"hash", "got"} : at' = [at EXCEPT ![t] = place]
  BY <1>1 DEF Run
<1>3. CountInv' /\ at' \in [Task -> Place] /\ bh' \in [Task -> Buffer] /\ b_count' \in [Buffer -> Nat]
  BY <1>1, <1>2, CallBegins DEF CacheInv, Asks, Busy, Place
<1>4. TypeInv'
  BY <1>1, <1>3 DEF CacheInv, TypeInv, Asks
<1>5. at'[t] = place /\ bh'[t] = b /\ \A u \in Task \ {t} : at'[u] = at[u] /\ bh'[u] = bh[u]
  BY <1>1, <1>2 DEF CacheInv, TypeInv
<1>6. UseInv'
  BY <1>1, <1>5 DEF CacheInv, UseInv, Asks
<1>7. LockInv'
  BY <1>1, <1>5 DEF CacheInv, LockInv, Asks
<1>8. SectorInv' /\ DataIsOfBlock'
  BY <1>1 DEF CacheInv, SectorInv, DataIsOfBlock
<1> QED BY <1>3, <1>4, <1>6, <1>7, <1>8 DEF CacheInv

(* The buffer is in nobody's hands, so that it can change its block, and   *)
(* not locked, so that no read is under way.                               *)
LEMMA TakeFreeKeeps ==
  ASSUME CacheInv, NEW t \in Task, NEW k, Asks(t, k), TakeFree(t, k)
  PROVE  CacheInv'
<1>1. PICK b \in Buffer :
        /\ b_count[b] = 0
        /\ b_count' = [b_count EXCEPT ![b] = 1]
        /\ b_uptodate' = [b_uptodate EXCEPT ![b] = FALSE]
        /\ b_block' = [b_block EXCEPT ![b] = k]
        /\ bh' = [bh EXCEPT ![t] = b]
  BY DEF TakeFree, FirstFree
<1>2. at' = [at EXCEPT ![t] = "got"] /\ UNCHANGED <<b_lock, b_data, sector, held>>
  BY DEF TakeFree, Run
<1>3. b_count' = [b_count EXCEPT ![b] = @ + 1]
  BY <1>1
<1>4. CountInv' /\ at' \in [Task -> Place] /\ bh' \in [Task -> Buffer] /\ b_count' \in [Buffer -> Nat]
  BY <1>1, <1>2, <1>3, CallBegins DEF CacheInv, Asks, Busy, Place
<1>5. TypeInv'
  BY <1>1, <1>2, <1>4 DEF CacheInv, TypeInv, Asks
<1>6. at'[t] = "got" /\ bh'[t] = b /\ \A u \in Task \ {t} : at'[u] = at[u] /\ bh'[u] = bh[u]
  BY <1>1, <1>2 DEF CacheInv, TypeInv
<1>7. \A u \in Task : at[u] \in Busy => bh[u] # b
  BY <1>1, FreeIsUnused DEF CacheInv, About
<1>8. ~b_lock[b]
  BY <1>7 DEF CacheInv, LockInv, Busy
<1>9. b_block'[b] = k /\ ~b_uptodate'[b]
      /\ \A c \in Buffer \ {b} : b_block'[c] = b_block[c] /\ b_uptodate'[c] = b_uptodate[c]
  BY <1>1 DEF CacheInv, TypeInv
<1>10. UseInv'
  <2>1. \A u \in Task : bh[u] \in Buffer
    BY DEF CacheInv, TypeInv
  <2> QED BY <1>6, <1>7, <1>9, <2>1 DEF CacheInv, UseInv, Asks, Busy
<1>11. LockInv'
  BY <1>2, <1>6 DEF CacheInv, LockInv, Asks
<1>12. SectorInv' /\ DataIsOfBlock'
  BY <1>2, <1>8, <1>9 DEF CacheInv, SectorInv, DataIsOfBlock
<1> QED BY <1>4, <1>5, <1>10, <1>11, <1>12 DEF CacheInv

(* Tasks sleep or wake, and no call begins or ends.                        *)
LEMMA WaitKeeps ==
  ASSUME CacheInv, UNCHANGED <<headVars, bh, held>>,
         at' \in [Task -> Place], block' \in [Task -> Nat],
         \A u \in Task :
           \/ at'[u] = at[u] /\ block'[u] = block[u]
           \/ at[u] \notin Busy /\ at'[u] \notin Busy
  PROVE  CacheInv'
<1>1. TypeInv'
  BY DEF CacheInv, TypeInv, headVars
<1>2. CountInv'
  <2>1. \A c \in Buffer : SameCalls(at', bh, at, bh, c)
    BY DEF About, SameCalls
  <2>2. ASSUME NEW c \in Buffer PROVE Refs(at', bh, held, c) = Refs(at, bh, held, c)
    <3>1. held \in [Task -> [Buffer -> Nat]] /\ SameCalls(at', bh, at, bh, c)
      BY <2>1 DEF CacheInv, TypeInv
    <3> QED BY <3>1, RefsKept
  <2> QED BY <2>2, CountOf, CountOfPrimed DEF CacheInv, headVars
<1>3. UseInv'
  BY DEF CacheInv, UseInv, headVars, Busy
<1>4. LockInv'
  BY DEF CacheInv, LockInv, headVars, Busy
<1>5. SectorInv' /\ DataIsOfBlock'
  BY DEF CacheInv, SectorInv, DataIsOfBlock, headVars
<1> QED BY <1>1, <1>2, <1>3, <1>4, <1>5 DEF CacheInv

(* Whom wake_up() makes runnable was asleep.                               *)
LEMMA Roused ==
  ASSUME at \in [Task -> Place], NEW t \in Task, NEW place \in Place, NEW u, Rouse(u, t, place)
  PROVE  /\ at' \in [Task -> Place] /\ at'[t] = place
         /\ \A v \in Task \ {t} : at'[v] = at[v] \/ (at[v] = "none free" /\ at'[v] = "woken")
BY DEF Rouse, Place

LEMMA NoneFreeMoves ==
  ASSUME at \in [Task -> Place], NEW t \in Task, NEW k, NoneFree(t, k)
  PROVE  /\ UNCHANGED <<headVars, bh, held>>
         /\ at' \in [Task -> Place] /\ at'[t] = "none free"
         /\ \A v \in Task \ {t} : at'[v] = at[v] \/ (at[v] = "none free" /\ at'[v] = "woken")
<1>1. CASE Run(t, "none free")
  BY <1>1 DEF NoneFree, Run, Place
<1>2. CASE Rouse(buffer_wait, t, "none free")
  BY <1>2, Roused DEF NoneFree, Place
<1> QED BY <1>1, <1>2 DEF NoneFree

LEMMA NoneFreeKeeps ==
  ASSUME CacheInv, NEW t \in Task, NEW k, Asks(t, k), NoneFree(t, k)
  PROVE  CacheInv'
<1>1. /\ UNCHANGED <<headVars, bh, held>>
      /\ at' \in [Task -> Place] /\ at'[t] = "none free"
      /\ \A v \in Task \ {t} : at'[v] = at[v] \/ (at[v] = "none free" /\ at'[v] = "woken")
  BY NoneFreeMoves DEF CacheInv, TypeInv
<1> QED BY <1>1, WaitKeeps DEF Asks, Busy

LEMMA GetblkAsks ==
  ASSUME TypeInv, NEW t \in Task, Getblk(t)
  PROVE  \E k \in Block : Asks(t, k) /\ (InHash(t, k) \/ TakeFree(t, k) \/ NoneFree(t, k))
BY CacheAssumption DEF Asks, TypeInv, Getblk, CacheAssumption

LEMMA RepeatAsks ==
  ASSUME TypeInv, NEW t \in Task, Repeat(t)
  PROVE  /\ Asks(t, block[t])
         /\ InHash(t, block[t]) \/ TakeFree(t, block[t]) \/ NoneFree(t, block[t])
BY DEF Asks, TypeInv, Repeat

LEMMA GetblkKeeps ==
  ASSUME CacheInv, LimitInv, NEW t \in Task, Getblk(t) \/ Repeat(t)
  PROVE  CacheInv'
BY GetblkAsks, RepeatAsks, InHashKeeps, TakeFreeKeeps, NoneFreeKeeps DEF CacheInv

LEMMA WakeNextMoves ==
  ASSUME at \in [Task -> Place], NEW t \in Task, WakeNext(t)
  PROVE  /\ UNCHANGED <<headVars, block, bh, held>>
         /\ at' \in [Task -> Place] /\ at[t] = "woken" /\ at'[t] = "repeat"
         /\ \A v \in Task \ {t} : at'[v] = at[v] \/ (at[v] = "none free" /\ at'[v] = "woken")
BY Roused DEF WakeNext, Place

LEMMA WakeNextKeeps ==
  ASSUME CacheInv, NEW t \in Task, WakeNext(t)
  PROVE  CacheInv'
<1>1. /\ UNCHANGED <<headVars, block, bh, held>>
      /\ at' \in [Task -> Place] /\ at[t] = "woken" /\ at'[t] = "repeat"
      /\ \A v \in Task \ {t} : at'[v] = at[v] \/ (at[v] = "none free" /\ at'[v] = "woken")
  BY WakeNextMoves DEF CacheInv, TypeInv
<1>2. block' \in [Task -> Nat]
  BY <1>1 DEF CacheInv, TypeInv
<1> QED BY <1>1, <1>2, WaitKeeps DEF Busy

-----------------------------------------------------------------------------
(* A step from one place of a call to another, about the same buffer.      *)
LEMMA PlaceChanges ==
  ASSUME TypeInv, CountInv, NEW t \in Task, NEW place \in Busy \cap Place, at[t] \in Busy,
         at' = [at EXCEPT ![t] = place], bh' = bh, b_count' = b_count, held' = held
  PROVE  CountInv' /\ at' \in [Task -> Place]
<1>1. at'[t] = place /\ \A u \in Task \ {t} : at'[u] = at[u]
  BY DEF TypeInv
<1>2. \A c \in Buffer : SameCalls(at', bh, at, bh, c)
  BY <1>1 DEF About, SameCalls
<1>3. held \in [Task -> [Buffer -> Nat]]
  BY DEF TypeInv
<1>4. ASSUME NEW c \in Buffer PROVE Refs(at', bh, held, c) = Refs(at, bh, held, c)
  <2>1. SameCalls(at', bh, at, bh, c)
    BY <1>2
  <2> QED BY <1>3, <2>1, RefsKept
<1> QED BY <1>4, CountOf, CountOfPrimed DEF TypeInv

LEMMA HashWaitedKeeps ==
  ASSUME CacheInv, NEW t \in Task, HashWaited(t)
  PROVE  CacheInv'
<1>1. at[t] = "hash" /\ b_block[bh[t]] = block[t]
  BY DEF HashWaited, CacheInv, UseInv
<1>2. /\ at' = [at EXCEPT ![t] = "got"] /\ b_count' = b_count
      /\ UNCHANGED <<b_block, b_lock, b_uptodate, b_data, sector, queues, block, bh, held>>
  BY <1>1 DEF HashWaited, Run
<1>3. CountInv' /\ at' \in [Task -> Place]
  BY <1>1, <1>2, PlaceChanges DEF CacheInv, Busy, Place
<1>4. TypeInv'
  BY <1>2, <1>3 DEF CacheInv, TypeInv
<1>5. at'[t] = "got" /\ \A u \in Task \ {t} : at'[u] = at[u]
  BY <1>2 DEF CacheInv, TypeInv
<1>6. UseInv' /\ LockInv'
  BY <1>1, <1>2, <1>5 DEF CacheInv, UseInv, LockInv
<1>7. SectorInv' /\ DataIsOfBlock'
  BY <1>2 DEF CacheInv, SectorInv, DataIsOfBlock
<1> QED BY <1>3, <1>4, <1>6, <1>7 DEF CacheInv

LEMMA LockBufferKeeps ==
  ASSUME CacheInv, NEW t \in Task, LockBuffer(t)
  PROVE  CacheInv'
<1> DEFINE b == bh[t]
<1>1. b \in Buffer /\ at[t] \in {"got", "lock"} /\ b_block[b] = block[t]
  BY DEF LockBuffer, CacheInv, TypeInv, UseInv
<1>2. UNCHANGED <<b_block, b_count, b_uptodate, b_data, queues, block, bh, held>>
  BY DEF LockBuffer
<1>3. CASE b_lock[b] /\ at' = [at EXCEPT ![t] = "lock"] /\ UNCHANGED <<b_lock, sector>>
  <2>1. CountInv' /\ at' \in [Task -> Place]
    BY <1>1, <1>2, <1>3, PlaceChanges DEF CacheInv, Busy, Place
  <2>2. TypeInv'
    BY <1>2, <1>3, <2>1 DEF CacheInv, TypeInv
  <2>3. at'[t] = "lock" /\ \A u \in Task \ {t} : at'[u] = at[u]
    BY <1>3 DEF CacheInv, TypeInv
  <2>4. UseInv' /\ LockInv'
    BY <1>1, <1>2, <1>3, <2>3 DEF CacheInv, UseInv, LockInv
  <2>5. SectorInv' /\ DataIsOfBlock'
    BY <1>2, <1>3 DEF CacheInv, SectorInv, DataIsOfBlock
  <2> QED BY <2>1, <2>2, <2>4, <2>5 DEF CacheInv
<1>4. CASE /\ ~b_lock[b] /\ at' = [at EXCEPT ![t] = "io"]
           /\ b_lock' = [b_lock EXCEPT ![b] = TRUE]
           /\ sector' = [sector EXCEPT ![b] = b_block[b]]
  <2>1. CountInv' /\ at' \in [Task -> Place]
    BY <1>1, <1>2, <1>4, PlaceChanges DEF CacheInv, Busy, Place
  <2>2. b_lock' \in [Buffer -> BOOLEAN] /\ sector' \in [Buffer -> Nat]
    BY <1>1, <1>4 DEF CacheInv, TypeInv
  <2>3. TypeInv'
    BY <1>2, <2>1, <2>2 DEF CacheInv, TypeInv
  <2>4. at'[t] = "io" /\ \A u \in Task \ {t} : at'[u] = at[u]
    BY <1>4 DEF CacheInv, TypeInv
  <2>5. sector'[b] = b_block[b]
        /\ \A c \in Buffer \ {b} : b_lock'[c] = b_lock[c] /\ sector'[c] = sector[c]
    BY <1>1, <1>4 DEF CacheInv, TypeInv
  <2>6. UseInv' /\ LockInv'
    BY <1>1, <1>2, <2>4, <2>5 DEF CacheInv, UseInv, LockInv
  <2>7. SectorInv' /\ DataIsOfBlock'
    BY <1>2, <2>5 DEF CacheInv, SectorInv, DataIsOfBlock
  <2> QED BY <2>1, <2>3, <2>6, <2>7 DEF CacheInv
<1> QED BY <1>3, <1>4 DEF LockBuffer, Run

-----------------------------------------------------------------------------
(* The ends of calls.  A call about b that is over takes one from b_count, *)
(* which is not 0: brelse() does not panic.                                *)
LEMMA CallEnds ==
  ASSUME TypeInv, CountInv, LimitInv, NEW t \in Task, at[t] \in Busy, LetGo(t, bh[t]),
         bh' = bh, held' = held
  PROVE  CountInv' /\ at' \in [Task -> Place] /\ b_count' \in [Buffer -> Nat]
<1> DEFINE b == bh[t]
<1>1. b \in Buffer /\ held \in [Task -> [Buffer -> Nat]] /\ b_count \in [Buffer -> Nat]
  BY DEF TypeInv
<1>2. /\ at' \in [Task -> Place] /\ at'[t] = "user"
      /\ \A u \in Task \ {t} : at'[u] = at[u] \/ (at[u] = "none free" /\ at'[u] = "woken")
  BY Roused DEF LetGo, TypeInv, Place
<1>4. \A c \in Buffer : Counted(Refs(at, bh, held, c), b_count[c])
  BY CountOf
<1>5. ASSUME NEW c \in Buffer, c # b PROVE Counted(Refs(at', bh, held, c), b_count[c])
  <2>1. SameCalls(at', bh, at, bh, c)
    BY <1>2, <1>5 DEF About, SameCalls, Busy
  <2>2. Refs(at', bh, held, c) = Refs(at, bh, held, c)
    BY <1>1, <2>1, RefsKept
  <2> QED BY <1>4, <2>2
<1>6. Counted(Refs(at', bh, held, b), b_count[b] - 1) /\ b_count[b] > 0
  <2>1. About(at, bh, t, b) /\ ~About(at', bh, t, b)
    BY <1>2 DEF About, Busy
  <2>2. \A u \in Task \ {t} : About(at', bh, u, b) <=> About(at, bh, u, b)
    BY <1>2 DEF About, Busy
  <2>3. Counted(Refs(at, bh, held, b), b_count[b]) /\ b_count[b] \in Nat
    BY <1>1, <1>4
  <2> HIDE DEF b
  <2> QED BY <1>1, <2>1, <2>2, <2>3, CountLeave
<1>3. b_count' = [b_count EXCEPT ![b] = @ - 1]
  <2>1. b_count' = [b_count EXCEPT ![b] = UInt8(@ - 1)]
    BY DEF LetGo
  <2> HIDE DEF b
  <2> QED BY <1>1, <1>6, <2>1, CountsDown
<1> HIDE DEF b
<1>7. \A c \in Buffer : Counted(Refs(at', bh, held, c), b_count'[c])
  BY <1>1, <1>3, <1>5, <1>6
<1>8. b_count' \in [Buffer -> Nat]
  BY <1>1, <1>3, <1>6
<1> QED BY <1>2, <1>7, <1>8, CountOfPrimed

LEMMA LetGoKeeps ==
  ASSUME CacheInv, LimitInv, NEW t \in Task, at[t] \in {"io", "brelse"}, ~b_lock[bh[t]],
         LetGo(t, bh[t]),
         UNCHANGED <<b_block, b_lock, b_uptodate, b_data, sector, queues, block, bh, held>>
  PROVE  CacheInv'
<1>1. CountInv' /\ at' \in [Task -> Place] /\ b_count' \in [Buffer -> Nat]
  BY CallEnds DEF CacheInv, Busy
<1>2. TypeInv'
  BY <1>1 DEF CacheInv, TypeInv
<1>3. /\ at'[t] = "user"
      /\ \A u \in Task \ {t} : at'[u] = at[u] \/ (at[u] = "none free" /\ at'[u] = "woken")
  BY Roused DEF LetGo, CacheInv, TypeInv, Place
<1>4. UseInv'
  BY <1>3 DEF CacheInv, UseInv
<1>5. LockInv'
  <2>1. ASSUME NEW c \in Buffer, b_lock[c] PROVE \E u \in Task : at'[u] = "io" /\ bh[u] = c
    <3>1. PICK u \in Task : at[u] = "io" /\ bh[u] = c
      BY <2>1 DEF CacheInv, LockInv
    <3>2. u # t
      BY <2>1, <3>1
    <3>3. at'[u] = "io"
      BY <1>3, <3>1, <3>2
    <3> QED BY <3>1, <3>3
  <2> QED BY <2>1 DEF LockInv
<1>6. SectorInv' /\ DataIsOfBlock'
  BY DEF CacheInv, SectorInv, DataIsOfBlock
<1> QED BY <1>1, <1>2, <1>4, <1>5, <1>6 DEF CacheInv

(* A call that ends with the buffer in the hands of its task.              *)
LEMMA ValidKeeps ==
  ASSUME CacheInv, NEW t \in Task, Valid(t)
  PROVE  CacheInv'
<1> DEFINE b == bh[t]
<1>1. /\ b \in Buffer /\ at[t] \in {"got", "lock", "io"} /\ (at[t] = "io" => ~b_lock[b])
      /\ at' = [at EXCEPT ![t] = "user"] /\ held' = [held EXCEPT ![t][b] = @ + 1]
      /\ UNCHANGED <<headVars, block, bh>>
  BY DEF Valid, Return, Run, CacheInv, TypeInv
<1>2. /\ at' \in [Task -> Place] /\ at'[t] = "user"
      /\ \A u \in Task \ {t} : at'[u] = at[u]
  BY <1>1 DEF CacheInv, TypeInv, Place
<1>3. /\ held \in [Task -> [Buffer -> Nat]] /\ held' \in [Task -> [Buffer -> Nat]]
      /\ held'[t][b] = held[t][b] + 1
      /\ \A u \in Task \ {t} : held'[u][b] = held[u][b]
      /\ \A u \in Task, c \in Buffer \ {b} : held'[u][c] = held[u][c]
  BY <1>1 DEF CacheInv, TypeInv
<1>4. \A c \in Buffer : Counted(Refs(at, bh, held, c), b_count[c]) /\ b_count[c] \in Nat
  BY CountOf DEF CacheInv, TypeInv
<1> HIDE DEF b
<1>5. ASSUME NEW c \in Buffer, c # b PROVE Counted(Refs(at', bh, held', c), b_count[c])
  <2>1. \A u \in Task : About(at', bh, u, c) <=> About(at, bh, u, c)
    BY <1>2, <1>5 DEF About, Busy, b
  <2>2. \A u \in Task : held'[u][c] = held[u][c]
    BY <1>3, <1>5
  <2>3. Refs(at', bh, held', c) = Refs(at, bh, held, c)
    BY <1>3, <2>1, <2>2, RefsSame
  <2> QED BY <1>4, <2>3
<1>6. Counted(Refs(at', bh, held', b), b_count[b])
  <2>1. About(at, bh, t, b) /\ ~About(at', bh, t, b)
    BY <1>1, <1>2 DEF About, Busy, b
  <2>2. \A u \in Task \ {t} : About(at', bh, u, b) <=> About(at, bh, u, b)
    BY <1>2 DEF About, Busy
  <2>3. Counted(Refs(at', bh, held, b), b_count[b] - 1) /\ b_count[b] > 0
    BY <1>1, <1>3, <1>4, <2>1, <2>2, CountLeave
  <2>4. b_count[b] - 1 \in Nat /\ b_count[b] - 1 + 1 = b_count[b]
    BY <1>1, <1>4, <2>3
  <2> DEFINE k == b_count[b] - 1
  <2>5. k \in Nat /\ Counted(Refs(at', bh, held, b), k)
    BY <2>3, <2>4
  <2>6. k + 1 = b_count[b]
    BY <2>4
  <2> HIDE DEF k
  <2>7. Counted(Refs(at', bh, held', b), k + 1)
    BY <1>1, <1>3, <2>5, CountHold
  <2> QED BY <2>6, <2>7
<1>7. CountInv'
  BY <1>1, <1>5, <1>6, CountOfPrimed DEF headVars
<1>8. TypeInv'
  BY <1>1, <1>2, <1>3 DEF CacheInv, TypeInv, headVars
<1>9. UseInv'
  BY <1>1, <1>2 DEF CacheInv, UseInv, headVars
<1>10. LockInv'
  BY <1>1, <1>2 DEF CacheInv, LockInv, headVars, b
<1>11. SectorInv' /\ DataIsOfBlock'
  BY <1>1 DEF CacheInv, SectorInv, DataIsOfBlock, headVars
<1> QED BY <1>7, <1>8, <1>9, <1>10, <1>11 DEF CacheInv

LEMMA ReadFailedKeeps ==
  ASSUME CacheInv, LimitInv, NEW t \in Task, ReadFailed(t)
  PROVE  CacheInv'
BY LetGoKeeps DEF ReadFailed

LEMMA BrelseWaitedKeeps ==
  ASSUME CacheInv, LimitInv, NEW t \in Task, BrelseWaited(t)
  PROVE  CacheInv'
BY LetGoKeeps DEF BrelseWaited

(* The count of the buffers that brelse() is about, and of the others.     *)
Releases(t, b) ==
  /\ at[t] = "user" /\ held[t][b] > 0
  /\ held' = [held EXCEPT ![t][b] = @ - 1]
  /\ bh' = [bh EXCEPT ![t] = b]
  /\ \/ Run(t, "brelse") /\ UNCHANGED b_count
     \/ LetGo(t, b)

LEMMA BrelseCounts ==
  ASSUME TypeInv, CountInv, LimitInv, NEW t \in Task, NEW b \in Buffer, Releases(t, b)
  PROVE  /\ CountInv' /\ at' \in [Task -> Place] /\ bh' \in [Task -> Buffer]
         /\ held' \in [Task -> [Buffer -> Nat]] /\ b_count' \in [Buffer -> Nat]
         /\ at'[t] \in {"user", "brelse"} /\ bh'[t] = b
         /\ \A u \in Task \ {t} : /\ bh'[u] = bh[u]
                                  /\ at'[u] = at[u] \/ (at[u] = "none free" /\ at'[u] = "woken")
<1>1. /\ held \in [Task -> [Buffer -> Nat]] /\ held' \in [Task -> [Buffer -> Nat]]
      /\ held[t][b] = held'[t][b] + 1
      /\ \A u \in Task \ {t} : held'[u][b] = held[u][b]
      /\ \A u \in Task, c \in Buffer \ {b} : held'[u][c] = held[u][c]
  <2>1. held \in [Task -> [Buffer -> Nat]] /\ held[t][b] \in Nat /\ held[t][b] - 1 \in Nat
    BY DEF TypeInv, Releases
  <2> QED BY <2>1 DEF Releases
<1>2. bh' \in [Task -> Buffer] /\ bh'[t] = b /\ \A u \in Task \ {t} : bh'[u] = bh[u]
  BY DEF TypeInv, Releases
<1>3. /\ at' \in [Task -> Place] /\ at'[t] \in {"user", "brelse"}
      /\ \A u \in Task \ {t} : at'[u] = at[u] \/ (at[u] = "none free" /\ at'[u] = "woken")
  <2>1. CASE Run(t, "brelse")
    BY <2>1 DEF Run, TypeInv, Place
  <2>2. CASE LetGo(t, b)
    BY <2>2, Roused DEF LetGo, TypeInv, Place
  <2> QED BY <2>1, <2>2 DEF Releases
<1>4. \A c \in Buffer : Counted(Refs(at, bh, held, c), b_count[c]) /\ b_count[c] \in Nat
  BY CountOf DEF TypeInv
<1>5. at[t] = "user" /\ ~About(at, bh, t, b)
  BY DEF Releases, About, Busy
<1>6. \A u \in Task \ {t}, c \in Buffer : About(at', bh', u, c) <=> About(at, bh, u, c)
  BY <1>2, <1>3 DEF About, Busy
<1>7. ASSUME NEW c \in Buffer, c # b PROVE Counted(Refs(at', bh', held', c), b_count[c])
  <2>1. \A u \in Task : About(at', bh', u, c) <=> About(at, bh, u, c)
    BY <1>2, <1>5, <1>6, <1>7 DEF About, Busy
  <2>2. \A u \in Task : held'[u][c] = held[u][c]
    BY <1>1, <1>7
  <2>3. Refs(at', bh', held', c) = Refs(at, bh, held, c)
    BY <1>1, <2>1, <2>2, RefsSame
  <2> QED BY <1>4, <2>3
<1>8. CASE Run(t, "brelse") /\ UNCHANGED b_count
  <2>1. About(at', bh', t, b)
    BY <1>2, <1>8 DEF Run, About, Busy, TypeInv
  <2> DEFINE k == b_count[b]
  <2>2. k \in Nat /\ Counted(Refs(at, bh, held, b), k)
    BY <1>4
  <2> HIDE DEF k
  <2>3. Counted(Refs(at', bh', held, b), k + 1)
    BY <1>1, <1>5, <1>6, <2>1, <2>2, CountEnter
  <2> DEFINE m == k + 1
  <2>4. m \in Nat /\ Counted(Refs(at', bh', held, b), m) /\ m - 1 = k
    BY <2>2, <2>3
  <2> HIDE DEF m
  <2>5. Counted(Refs(at', bh', held', b), m - 1)
    BY <1>1, <2>4, CountUnhold
  <2>6. Counted(Refs(at', bh', held', b), b_count[b])
    BY <2>4, <2>5 DEF k
  <2>7. CountInv'
    BY <1>7, <1>8, <2>6, CountOfPrimed
  <2> QED BY <1>1, <1>2, <1>3, <1>8, <2>7 DEF TypeInv
<1>9. CASE LetGo(t, b)
  <2> DEFINE k == b_count[b]
  <2>1. k \in Nat /\ Counted(Refs(at, bh, held, b), k)
    BY <1>4
  <2> HIDE DEF k
  <2>2. Counted(Refs(at, bh, held', b), k - 1) /\ k > 0
    BY <1>1, <2>1, CountUnhold
  <2>3. at'[t] = "user"
    BY <1>9 DEF LetGo, Rouse
  <2>4. SameCalls(at', bh', at, bh, b)
    BY <1>5, <1>6, <2>3 DEF SameCalls, About, Busy
  <2>5. Refs(at', bh', held', b) = Refs(at, bh, held', b)
    BY <1>1, <2>4, RefsKept
  <2>6. Counted(Refs(at', bh', held', b), b_count[b] - 1) /\ b_count[b] - 1 \in Nat
    BY <2>1, <2>2, <2>5 DEF k
  <2>7. b_count' = [b_count EXCEPT ![b] = b_count[b] - 1] /\ b_count \in [Buffer -> Nat]
    BY <1>9, <2>2, CountsDown DEF LetGo, TypeInv, k
  <2>8. \A c \in Buffer : Counted(Refs(at', bh', held', c), b_count'[c])
    BY <1>7, <2>6, <2>7
  <2>9. b_count' \in [Buffer -> Nat]
    BY <2>6, <2>7
  <2> QED BY <1>1, <1>2, <1>3, <2>8, <2>9, CountOfPrimed
<1> QED BY <1>8, <1>9 DEF Releases

LEMMA BrelseKeeps ==
  ASSUME CacheInv, LimitInv, NEW t \in Task, Brelse(t)
  PROVE  CacheInv'
<1>1. PICK b \in Buffer :
        /\ held[t][b] > 0
        /\ held' = [held EXCEPT ![t][b] = @ - 1]
        /\ bh' = [bh EXCEPT ![t] = b]
        /\ IF b_lock[b] THEN Run(t, "brelse") /\ UNCHANGED <<b_count, waitVars>> ELSE LetGo(t, b)
  BY DEF Brelse
<1>2. at[t] = "user" /\ UNCHANGED <<b_block, b_lock, b_uptodate, b_data, sector, queues, block>>
  BY DEF Brelse
<1>3. Releases(t, b)
  BY <1>1, <1>2 DEF Releases
<1>4. /\ CountInv' /\ at' \in [Task -> Place] /\ bh' \in [Task -> Buffer]
      /\ held' \in [Task -> [Buffer -> Nat]] /\ b_count' \in [Buffer -> Nat]
      /\ at'[t] \in {"user", "brelse"} /\ bh'[t] = b
      /\ \A u \in Task \ {t} : /\ bh'[u] = bh[u]
                               /\ at'[u] = at[u] \/ (at[u] = "none free" /\ at'[u] = "woken")
  BY <1>3, BrelseCounts DEF CacheInv
<1>5. TypeInv'
  BY <1>2, <1>4 DEF CacheInv, TypeInv
<1>6. UseInv'
  BY <1>2, <1>4 DEF CacheInv, UseInv
<1>7. LockInv'
  <2>1. ASSUME NEW c \in Buffer, b_lock[c] PROVE \E u \in Task : at'[u] = "io" /\ bh'[u] = c
    <3>1. PICK u \in Task : at[u] = "io" /\ bh[u] = c
      BY <2>1 DEF CacheInv, LockInv
    <3>2. u # t
      BY <1>2, <3>1
    <3>3. at'[u] = "io" /\ bh'[u] = c
      BY <1>4, <3>1, <3>2
    <3> QED BY <3>3
  <2> QED BY <1>2, <2>1 DEF LockInv
<1>8. SectorInv' /\ DataIsOfBlock'
  BY <1>2 DEF CacheInv, SectorInv, DataIsOfBlock
<1> QED BY <1>4, <1>5, <1>6, <1>7, <1>8 DEF CacheInv

-----------------------------------------------------------------------------
(* The disk is done: the block it has read is still that of the buffer.    *)
LEMMA EndRequestKeeps ==
  ASSUME CacheInv, NEW b \in Buffer, NEW uptodate \in BOOLEAN, EndRequest(b, uptodate)
  PROVE  CacheInv'
<1>1. /\ b_lock[b]
      /\ b_lock' = [b_lock EXCEPT ![b] = FALSE]
      /\ b_uptodate' = [b_uptodate EXCEPT ![b] = uptodate]
      /\ b_data' = [b_data EXCEPT ![b] = IF uptodate THEN sector[b] ELSE NoBlock]
      /\ UNCHANGED <<b_block, b_count, sector, queues, taskVars>>
  BY DEF EndRequest
<1>2. sector[b] = b_block[b] /\ sector[b] \in Nat /\ NoBlock \in Nat
  BY <1>1 DEF CacheInv, SectorInv, TypeInv, NoBlock
<1>3. TypeInv'
  BY <1>1, <1>2 DEF CacheInv, TypeInv, taskVars
<1>4. CountInv'
  BY <1>1, CountOf, CountOfPrimed DEF CacheInv, taskVars
<1>5. UseInv'
  BY <1>1 DEF CacheInv, UseInv, taskVars
<1>6. /\ ~b_lock'[b] /\ b_uptodate'[b] = uptodate
      /\ b_data'[b] = IF uptodate THEN sector[b] ELSE NoBlock
      /\ \A c \in Buffer \ {b} : /\ b_lock'[c] = b_lock[c] /\ b_uptodate'[c] = b_uptodate[c]
                                 /\ b_data'[c] = b_data[c]
  BY <1>1 DEF CacheInv, TypeInv
<1>7. LockInv'
  BY <1>1, <1>6 DEF CacheInv, LockInv, taskVars
<1>8. SectorInv'
  BY <1>1, <1>6 DEF CacheInv, SectorInv
<1>9. DataIsOfBlock'
  BY <1>1, <1>2, <1>6 DEF CacheInv, DataIsOfBlock
<1> QED BY <1>3, <1>4, <1>5, <1>7, <1>8, <1>9 DEF CacheInv

LEMMA CacheStarts ==
  ASSUME BInit
  PROVE  CacheInv
<1>1. TypeInv
  <2>1. NUMBER_OF_BUFFERS \in Nat \ {0} /\ Block \subseteq Nat /\ Block # {}
    BY CacheAssumption DEF CacheAssumption
  <2>2. 0 \in Buffer
    BY <2>1 DEF Buffer
  <2>3. PICK k \in Nat : k = CHOOSE j \in Block : TRUE
    BY <2>1
  <2> QED BY <2>2, <2>3 DEF BInit, TypeInv, Place, NoBlock
<1>2. CountInv
  <2>1. ASSUME NEW b \in Buffer PROVE Refs(at, bh, held, b) = {}
    <3>1. \A t \in Task : at[t] = "user" /\ held[t][b] = 0
      BY <2>1 DEF BInit
    <3>2. held \in [Task -> [Buffer -> Nat]]
      BY <1>1 DEF TypeInv
    <3>3. ASSUME NEW r PROVE r \notin Refs(at, bh, held, b)
      <4>1. \A t \in Task : ~About(at, bh, t, b)
        BY <3>1 DEF About, Busy
      <4>2. \A t \in Task, i \in Nat : ~(1 <= i /\ i <= held[t][b])
        BY <3>1
      <4> QED BY <3>2, <4>1, <4>2, RefsMembers
    <3> QED BY <3>3
  <2>2. \A b \in Buffer : b_count[b] = 0
    BY DEF BInit
  <2>3. Counted({}, 0)
    BY FS_EmptySet DEF Counted
  <2> QED BY <2>1, <2>2, <2>3, CountOf
<1>3. UseInv /\ LockInv /\ SectorInv /\ DataIsOfBlock
  BY DEF BInit, UseInv, LockInv, SectorInv, DataIsOfBlock
<1> QED BY <1>1, <1>2, <1>3 DEF CacheInv

LEMMA CacheSteps ==
  ASSUME CacheInv, LimitInv, [BNext]_cacheVars
  PROVE  CacheInv'
<1>1. ASSUME NEW t \in Task, Getblk(t) \/ Repeat(t) PROVE CacheInv'
  BY <1>1, GetblkKeeps
<1>2. ASSUME NEW t \in Task, WakeNext(t) PROVE CacheInv'
  BY <1>2, WakeNextKeeps
<1>3. ASSUME NEW t \in Task, HashWaited(t) PROVE CacheInv'
  BY <1>3, HashWaitedKeeps
<1>4. ASSUME NEW t \in Task, Brelse(t) PROVE CacheInv'
  BY <1>4, BrelseKeeps
<1>5. ASSUME NEW t \in Task, BrelseWaited(t) \/ ReadFailed(t) PROVE CacheInv'
  BY <1>5, BrelseWaitedKeeps, ReadFailedKeeps
<1>6. ASSUME NEW t \in Task, Valid(t) PROVE CacheInv'
  BY <1>6, ValidKeeps
<1>7. ASSUME NEW t \in Task, LockBuffer(t) PROVE CacheInv'
  BY <1>7, LockBufferKeeps
<1>8. ASSUME NEW b \in Buffer, NEW uptodate \in BOOLEAN, EndRequest(b, uptodate) PROVE CacheInv'
  BY <1>8, EndRequestKeeps
<1>9. CASE UNCHANGED cacheVars
  <2>1. UNCHANGED headVars /\ UNCHANGED taskVars
    BY <1>9 DEF cacheVars
  <2>2. CountInv'
    BY <2>1, CountOf, CountOfPrimed DEF CacheInv, headVars, taskVars
  <2> QED BY <2>1, <2>2
       DEF CacheInv, TypeInv, UseInv, LockInv, SectorInv, DataIsOfBlock, headVars, taskVars
<1> QED BY <1>1, <1>2, <1>3, <1>4, <1>5, <1>6, <1>7, <1>8, <1>9 DEF BNext

-----------------------------------------------------------------------------
(* The references of a task stay within the bound: it asks for one only    *)
(* when it has fewer, and until it gets it, it does nothing else.          *)
LEMMA OwnKept ==
  ASSUME LimitInv, held' = held,
         \A t \in Task : at'[t] \in Calling => at[t] \in Calling \/ Cardinality(References(t)) < MaxHeld
  PROVE  LimitInv'
<1>1. \A t \in Task : References(t)' = References(t)
  BY OwnIsReferences
<1> QED BY <1>1 DEF LimitInv, Calling, Place

LEMMA OwnGrows ==
  ASSUME TypeInv, LimitInv, NEW t \in Task, Valid(t)
  PROVE  LimitInv'
<1> DEFINE b == bh[t]
<1>1. /\ b \in Buffer /\ at[t] \in Calling
      /\ at' = [at EXCEPT ![t] = "user"] /\ held' = [held EXCEPT ![t][b] = @ + 1]
  BY DEF Valid, Return, Run, TypeInv, Calling, Place
<1>2. at'[t] = "user" /\ \A u \in Task \ {t} : at'[u] = at[u] /\ held'[u] = held[u]
  BY <1>1 DEF TypeInv
<1>3. /\ held[t] \in [Buffer -> Nat] /\ held'[t] \in [Buffer -> Nat]
      /\ held'[t][b] = held[t][b] + 1 /\ \A c \in Buffer \ {b} : held'[t][c] = held[t][c]
  BY <1>1 DEF TypeInv
<1>4. MaxHeld \in Nat
  BY CacheAssumption DEF CacheAssumption
<1> DEFINE old == held[t]
           new == held'[t]
<1>5. IsFiniteSet(Own(new)) /\ Cardinality(Own(new)) <= MaxHeld
  <2>1. IsFiniteSet(Own(old)) /\ Cardinality(Own(old)) < MaxHeld
    BY <1>1, OwnIsReferences DEF LimitInv
  <2>2. old \in [Buffer -> Nat] /\ new \in [Buffer -> Nat]
        /\ new[b] = old[b] + 1 /\ \A c \in Buffer \ {b} : new[c] = old[c]
    BY <1>3
  <2> HIDE DEF old, new, b
  <2>3. Own(new) = Own(old) \cup {<<b, new[b]>>} /\ <<b, new[b]>> \notin Own(old)
    BY <1>1, <2>2, OwnMore
  <2> DEFINE S == Own(old)
             x == <<b, new[b]>>
             n == Cardinality(S)
  <2>4. Counted(S, n) /\ n \in Nat
    BY <2>1, FS_CardinalityType DEF Counted
  <2>5. Own(new) = S \cup {x} /\ x \notin S
    BY <2>3
  <2>6. n < MaxHeld
    BY <2>1
  <2> HIDE DEF S, x, n
  <2>7. Counted(Own(new), n + 1)
    BY <2>4, <2>5, OneMore
  <2> QED BY <1>4, <2>4, <2>6, <2>7 DEF Counted
<1>6. References(t)' = Own(new) /\ \A u \in Task \ {t} : References(u)' = References(u)
  BY <1>2, OwnIsReferences
<1>7. \A u \in Task : at'[u] \in Calling => u # t
  BY <1>2 DEF Calling
<1> HIDE DEF new, old, b
<1>8. ASSUME NEW u \in Task
      PROVE  /\ IsFiniteSet(References(u)') /\ Cardinality(References(u)') <= MaxHeld
             /\ at'[u] \in Calling => Cardinality(References(u)') < MaxHeld
  <2>1. CASE u = t
    BY <1>5, <1>6, <1>7, <2>1
  <2>2. CASE u # t
    BY <1>2, <1>6, <2>2 DEF LimitInv
  <2> QED BY <2>1, <2>2
<1> QED BY <1>8 DEF LimitInv, Calling, Place

LEMMA OwnShrinks ==
  ASSUME TypeInv, LimitInv, NEW t \in Task, Brelse(t)
  PROVE  LimitInv'
<1>1. PICK b \in Buffer :
        /\ held[t][b] > 0 /\ held' = [held EXCEPT ![t][b] = @ - 1]
        /\ IF b_lock[b] THEN Run(t, "brelse") /\ UNCHANGED <<b_count, waitVars>> ELSE LetGo(t, b)
  BY DEF Brelse
<1>2. /\ at'[t] \in {"user", "brelse"}
      /\ \A u \in Task \ {t} : at'[u] = at[u] \/ (at[u] = "none free" /\ at'[u] = "woken")
  <2>1. CASE Run(t, "brelse")
    BY <2>1 DEF Run, TypeInv
  <2>2. CASE LetGo(t, b)
    BY <2>2, Roused DEF LetGo, TypeInv, Place
  <2> QED BY <1>1, <2>1, <2>2
<1>3. /\ held[t] \in [Buffer -> Nat] /\ held'[t] \in [Buffer -> Nat]
      /\ held[t][b] = held'[t][b] + 1 /\ \A c \in Buffer \ {b} : held[t][c] = held'[t][c]
      /\ \A u \in Task \ {t} : held'[u] = held[u]
  <2>1. held \in [Task -> [Buffer -> Nat]] /\ held[t][b] \in Nat /\ held[t][b] - 1 \in Nat
    BY <1>1 DEF TypeInv
  <2> QED BY <1>1, <2>1
<1> DEFINE old == held[t]
           new == held'[t]
<1>4. IsFiniteSet(Own(new)) /\ Cardinality(Own(new)) <= MaxHeld
  <2>1. IsFiniteSet(Own(old)) /\ Cardinality(Own(old)) <= MaxHeld /\ MaxHeld \in Nat
    BY OwnIsReferences, CacheAssumption DEF LimitInv, CacheAssumption
  <2>2. b \in Buffer /\ old \in [Buffer -> Nat] /\ new \in [Buffer -> Nat]
        /\ old[b] = new[b] + 1 /\ \A c \in Buffer \ {b} : old[c] = new[c]
    BY <1>1, <1>3
  <2> HIDE DEF old, new
  <2>3. Own(new) \in SUBSET Own(old)
    <3>1. Own(old) = Own(new) \cup {<<b, old[b]>>} /\ <<b, old[b]>> \notin Own(new)
      BY <2>2, OwnMore
    <3> QED BY <3>1
  <2> DEFINE S == Own(old)
             T == Own(new)
  <2>4. IsFiniteSet(S) /\ T \in SUBSET S /\ Cardinality(S) <= MaxHeld
    BY <2>1, <2>3
  <2> HIDE DEF S, T
  <2>5. IsFiniteSet(T) /\ Cardinality(T) <= Cardinality(S)
    BY <2>4, FS_Subset
  <2>6. Cardinality(S) \in Nat /\ Cardinality(T) \in Nat
    BY <2>4, <2>5, FS_CardinalityType
  <2>7. IsFiniteSet(T) /\ Cardinality(T) <= MaxHeld
    BY <2>1, <2>4, <2>5, <2>6
  <2> QED BY <2>7 DEF T
<1>5. References(t)' = Own(new) /\ \A u \in Task \ {t} : References(u)' = References(u)
  BY <1>3, OwnIsReferences
<1>6. \A u \in Task : at'[u] \in Calling => u # t /\ at[u] \in Calling
  BY <1>2 DEF Calling, Place
<1> HIDE DEF new, old
<1>7. ASSUME NEW u \in Task
      PROVE  /\ IsFiniteSet(References(u)') /\ Cardinality(References(u)') <= MaxHeld
             /\ at'[u] \in Calling => Cardinality(References(u)') < MaxHeld
  <2>1. CASE u = t
    BY <1>4, <1>5, <1>6, <2>1
  <2>2. CASE u # t
    BY <1>5, <1>6, <2>2 DEF LimitInv
  <2> QED BY <2>1, <2>2
<1> QED BY <1>7 DEF LimitInv, Calling, Place

LEMMA LimitSteps ==
  ASSUME TypeInv, LimitInv, [BNext]_cacheVars
  PROVE  LimitInv'
<1>1. ASSUME NEW t \in Task, Getblk(t) PROVE LimitInv'
  <2>1. Cardinality(References(t)) < MaxHeld /\ held' = held
    BY <1>1 DEF Getblk, InHash, TakeFree, NoneFree
  <2>2. \A u \in Task \ {t} : at'[u] \in Calling => at[u] \in Calling
    <3>1. PICK k \in Block : InHash(t, k) \/ TakeFree(t, k) \/ NoneFree(t, k)
      BY <1>1 DEF Getblk
    <3>2. CASE InHash(t, k) \/ TakeFree(t, k)
      BY <3>2 DEF InHash, TakeFree, Run, TypeInv
    <3>3. CASE NoneFree(t, k)
      BY <3>3, NoneFreeMoves DEF TypeInv, Calling, Place
    <3> QED BY <3>1, <3>2, <3>3
  <2> QED BY <2>1, <2>2, OwnKept
<1>2. ASSUME NEW t \in Task, Repeat(t) PROVE LimitInv'
  <2>1. at[t] \in Calling /\ held' = held
    BY <1>2 DEF Repeat, InHash, TakeFree, NoneFree, Calling, Place
  <2>2. \A u \in Task \ {t} : at'[u] \in Calling => at[u] \in Calling
    <3>1. PICK k : InHash(t, k) \/ TakeFree(t, k) \/ NoneFree(t, k)
      BY <1>2 DEF Repeat
    <3>2. CASE InHash(t, k) \/ TakeFree(t, k)
      BY <3>2 DEF InHash, TakeFree, Run, TypeInv
    <3>3. CASE NoneFree(t, k)
      BY <3>3, NoneFreeMoves DEF TypeInv, Calling, Place
    <3> QED BY <3>1, <3>2, <3>3
  <2> QED BY <2>1, <2>2, OwnKept
<1>3. ASSUME NEW t \in Task, WakeNext(t) PROVE LimitInv'
  BY <1>3, WakeNextMoves, OwnKept DEF TypeInv, Calling, Place
<1>4. ASSUME NEW t \in Task, HashWaited(t) \/ LockBuffer(t) PROVE LimitInv'
  <2>1. held' = held /\ at[t] \in Calling /\ \A u \in Task \ {t} : at'[u] = at[u]
    BY <1>4 DEF HashWaited, LockBuffer, Run, TypeInv, Calling, Place
  <2> QED BY <2>1, OwnKept
<1>5. ASSUME NEW t \in Task, ReadFailed(t) \/ BrelseWaited(t) PROVE LimitInv'
  <2>1. LetGo(t, bh[t]) /\ held' = held
    BY <1>5 DEF ReadFailed, BrelseWaited
  <2>2. at'[t] = "user"
        /\ \A u \in Task \ {t} : at'[u] = at[u] \/ (at[u] = "none free" /\ at'[u] = "woken")
    BY <2>1, Roused DEF LetGo, TypeInv, Place
  <2> QED BY <2>1, <2>2, OwnKept DEF Calling, Place
<1>6. ASSUME NEW t \in Task, Valid(t) PROVE LimitInv'
  BY <1>6, OwnGrows
<1>7. ASSUME NEW t \in Task, Brelse(t) PROVE LimitInv'
  BY <1>7, OwnShrinks
<1>8. ASSUME NEW b \in Buffer, NEW uptodate \in BOOLEAN, EndRequest(b, uptodate) PROVE LimitInv'
  BY <1>8, OwnKept DEF EndRequest, taskVars
<1>9. CASE UNCHANGED cacheVars
  BY <1>9, OwnKept DEF cacheVars, taskVars
<1> QED BY <1>1, <1>2, <1>3, <1>4, <1>5, <1>6, <1>7, <1>8, <1>9 DEF BNext

LEMMA LimitStarts ==
  ASSUME BInit, TypeInv
  PROVE  LimitInv
<1>1. ASSUME NEW t \in Task PROVE References(t) = {} /\ at[t] = "user"
  <2>1. held[t] \in [Buffer -> Nat] /\ at[t] = "user" /\ \A b \in Buffer : held[t][b] = 0
    BY DEF BInit, TypeInv
  <2>2. ASSUME NEW r PROVE r \notin Own(held[t])
    BY <2>1, OwnMembers
  <2> QED BY <2>1, <2>2, OwnIsReferences
<1>2. IsFiniteSet({}) /\ Cardinality({}) = 0 /\ MaxHeld \in Nat
  BY FS_EmptySet, CacheAssumption DEF CacheAssumption
<1> QED BY <1>1, <1>2 DEF LimitInv, Calling

-----------------------------------------------------------------------------
(* All of it holds in every state of the buffer cache.                     *)
THEOREM CacheInvariant == BSpec => [](CacheInv /\ LimitInv)
<1>1. BInit => CacheInv /\ LimitInv
  BY CacheStarts, LimitStarts DEF CacheInv
<1>2. CacheInv /\ LimitInv /\ [BNext]_cacheVars => (CacheInv /\ LimitInv)'
  BY CacheSteps, LimitSteps DEF CacheInv
<1> QED BY <1>1, <1>2, PTL DEF BSpec

(* b_count, a byte, is the number of the references to the buffer as long  *)
(* as the tasks and the references that each may keep are few enough       *)
(* (ReferencesFit), so that brelse() never panics and getblk() never takes *)
(* a buffer that is in use.                                                *)
THEOREM CountsCorrect == BSpec => []CountsAreExact
<1>1. CacheInv => CountsAreExact
  BY DEF CacheInv, CountInv, CountsAreExact
<1> QED BY <1>1, CacheInvariant, PTL

(* A buffer keeps its block while a call is about it, and a locked one is  *)
(* waited for.                                                             *)
THEOREM BusyBuffersAreHeld == BSpec => []BusyIsHeld
<1>1. CacheInv => BusyIsHeld
  BY DEF CacheInv, UseInv, LockInv, BusyIsHeld
<1> QED BY <1>1, CacheInvariant, PTL

-----------------------------------------------------------------------------
(* Induction over the natural numbers, for sets.                           *)
LEMMA LeastNumber ==
  ASSUME NEW S \in SUBSET Nat, S # {}
  PROVE  \E n \in S : \A m \in S : n <= m
<1> DEFINE R == {ss \in Nat \X Nat : ss[1] < ss[2]}
<1>1. IsWellFoundedOn(R, Nat)
  BY NatLessThanWellFounded DEF OpToRel
<1>2. \A m, n \in Nat : <<m, n>> \in R <=> m < n
  OBVIOUS
<1> HIDE DEF R
<1>3. PICK n \in S : \A m \in S : ~ (<<m, n>> \in R)
  BY <1>1, WFMin, Zenon
<1>4. \A m \in S : n <= m
  <2> TAKE m \in S
  <2>1. m \in Nat /\ n \in Nat /\ ~ (<<m, n>> \in R)
    BY <1>3
  <2> QED BY <2>1, <1>2
<1> QED BY <1>4

LEMMA SetInduction ==
  ASSUME NEW S, 0 \in S, \A n \in Nat : n \in S => n + 1 \in S
  PROVE  \A n \in Nat : n \in S
<1> SUFFICES ASSUME NEW m \in Nat, m \notin S PROVE FALSE
  OBVIOUS
<1> DEFINE T == {n \in Nat : n \notin S}
<1>1. PICK n \in T : \A k \in T : n <= k
  BY LeastNumber
<1>2. n - 1 \in Nat /\ n - 1 \notin T
  BY <1>1
<1> QED BY <1>1, <1>2

-----------------------------------------------------------------------------
(* Walk is defined by recursion: it does what its definition says.         *)
LEMMA BufferIsInterval == /\ Buffer \subseteq Nat /\ 0 \in Buffer
                          /\ \A i \in Buffer \ {0} : i - 1 \in Buffer
                          /\ \A i \in Nat : i + 1 \in Buffer => i \in Buffer
                          /\ NULL \notin Buffer
BY CacheAssumption DEF Buffer, NULL

Onward(links, x) == IF x = NULL THEN NULL ELSE links[x]

IsWalk(links, first, w) == w = [i \in Buffer |-> IF i = 0 THEN first ELSE Onward(links, w[i - 1])]

LEMMA WalkExists ==
  ASSUME NEW links, NEW first
  PROVE  \E w : IsWalk(links, first, w)
<1> DEFINE UpTo(w, n) == w = [i \in 0 .. n |-> IF i = 0 THEN first ELSE Onward(links, w[i - 1])]
           S == {n \in Nat : \E w : UpTo(w, n)}
<1>1. 0 \in S
  <2>1. UpTo([i \in 0 .. 0 |-> first], 0)
    OBVIOUS
  <2> QED BY <2>1
<1>2. ASSUME NEW n \in Nat, n \in S PROVE n + 1 \in S
  <2>1. PICK w : UpTo(w, n)
    BY <1>2
  <2> DEFINE v == [i \in 0 .. n + 1 |-> IF i = n + 1 THEN Onward(links, w[n]) ELSE w[i]]
  <2>2. \A i \in 0 .. n : v[i] = w[i]
    OBVIOUS
  <2>3. ASSUME NEW i \in 0 .. n + 1
        PROVE  v[i] = IF i = 0 THEN first ELSE Onward(links, v[i - 1])
    <3>1. CASE i = 0
      <4>1. v[i] = w[i] /\ w[0] = first
        BY <2>1, <3>1
      <4> QED BY <4>1, <3>1
    <3>2. CASE i = n + 1
      <4>1. v[i - 1] = w[n] /\ v[i] = Onward(links, w[n])
        BY <3>2
      <4> QED BY <4>1, <3>2
    <3>3. CASE i \in 1 .. n
      <4>1. v[i] = w[i] /\ v[i - 1] = w[i - 1] /\ w[i] = Onward(links, w[i - 1])
        BY <2>1, <3>3
      <4> QED BY <4>1, <3>3
    <3> QED BY <3>1, <3>2, <3>3
  <2>4. UpTo(v, n + 1)
    BY <2>3, Zenon
  <2> HIDE DEF v
  <2> QED BY <2>4
<1>3. NUMBER_OF_BUFFERS - 1 \in S
  <2> HIDE DEF S
  <2> QED BY <1>1, <1>2, SetInduction, CacheAssumption
<1> QED BY <1>3 DEF Buffer, IsWalk

LEMMA WalkSteps ==
  ASSUME NEW links, NEW first
  PROVE  /\ Walk(links, first)[0] = first
         /\ \A i \in Buffer \ {0} : Walk(links, first)[i] = Onward(links, Walk(links, first)[i - 1])
<1> DEFINE w == Walk(links, first)
<1>1. w = CHOOSE v : IsWalk(links, first, v)
  BY Zenon DEF Walk, Onward, IsWalk
<1> HIDE DEF w
<1>2. IsWalk(links, first, w)
  BY <1>1, WalkExists, Zenon
<1>3. w[0] = first /\ \A i \in Buffer \ {0} : w[i] = Onward(links, w[i - 1])
  BY <1>2, BufferIsInterval DEF IsWalk
<1> QED BY <1>3 DEF w

-----------------------------------------------------------------------------
Link == Buffer \cup {NULL}

(* The free list is a ring: rank numbers the buffers from free_list on.    *)
Numbering(rank) ==
  rank \in [Buffer -> Buffer] /\ \A b, c \in Buffer : rank[b] = rank[c] => b = c

Ring(nf, pf, fl, rank) ==
  /\ nf \in [Buffer -> Buffer] /\ pf \in [Buffer -> Buffer] /\ fl \in Buffer
  /\ \A b \in Buffer : nf[pf[b]] = b /\ pf[nf[b]] = b
  /\ Numbering(rank) /\ rank[fl] = 0 /\ rank[pf[fl]] = NUMBER_OF_BUFFERS - 1
  /\ \A b \in Buffer \ {fl} : rank[pf[b]] = rank[b] - 1

(* The walk along the ring comes to the buffers in the order of rank.      *)
LEMMA RingWalk ==
  ASSUME NEW nf, NEW pf, NEW fl, NEW rank, Ring(nf, pf, fl, rank)
  PROVE  \A b \in Buffer : Walk(nf, fl)[rank[b]] = b
<1> DEFINE w == Walk(nf, fl)
           S == {n \in Nat : \A b \in Buffer : rank[b] = n => w[n] = b}
<1>0. w[0] = fl /\ \A i \in Buffer \ {0} : w[i] = Onward(nf, w[i - 1])
  BY WalkSteps
<1> HIDE DEF w
<1>1. 0 \in S
  BY <1>0 DEF Ring, Numbering
<1>2. ASSUME NEW n \in Nat, n \in S PROVE n + 1 \in S
  <2> SUFFICES ASSUME NEW b \in Buffer, rank[b] = n + 1 PROVE w[n + 1] = b
    OBVIOUS
  <2>1. b # fl /\ pf[b] \in Buffer /\ rank[pf[b]] = n /\ nf[pf[b]] = b /\ n + 1 \in Buffer
    BY BufferIsInterval DEF Ring, Numbering
  <2>2. w[n] = pf[b]
    BY <1>2, <2>1
  <2>3. w[n + 1] = Onward(nf, w[n])
    BY <1>0, <2>1
  <2> QED BY <2>1, <2>2, <2>3, BufferIsInterval DEF Onward
<1>3. \A n \in Nat : n \in S
  <2> HIDE DEF S
  <2> QED BY <1>1, <1>2, SetInduction
<1> QED BY <1>3, BufferIsInterval DEF Ring, Numbering, w

LEMMA RingReached ==
  ASSUME NEW nf, NEW pf, NEW fl, NEW rank, Ring(nf, pf, fl, rank)
  PROVE  /\ Reached(nf, fl) = Buffer
         /\ \A i \in Buffer : \E b \in Buffer : rank[b] = i
<1> DEFINE w == Walk(nf, fl)
<1>1. \A b \in Buffer : w[rank[b]] = b /\ rank[b] \in Buffer
  BY RingWalk DEF Ring, Numbering
<1>2. w[0] = fl /\ \A i \in Buffer \ {0} : w[i] = Onward(nf, w[i - 1])
  BY WalkSteps
<1>3. Reached(nf, fl) = {w[i] : i \in Buffer} \ {NULL}
  BY DEF Reached
<1> HIDE DEF w
<1> DEFINE S == {n \in Nat : n \in Buffer => \E b \in Buffer : rank[b] = n}
           T == {n \in Nat : n \in Buffer => w[n] \in Buffer}
<1>4. 0 \in T
  BY <1>2 DEF Ring
<1>5. ASSUME NEW n \in Nat, n \in T PROVE n + 1 \in T
  <2> SUFFICES ASSUME n + 1 \in Buffer PROVE w[n + 1] \in Buffer
    OBVIOUS
  <2>1. w[n] \in Buffer /\ w[n] # NULL
    BY <1>5, BufferIsInterval
  <2>2. w[n + 1] = Onward(nf, w[n])
    BY <1>2
  <2> QED BY <2>1, <2>2 DEF Ring, Onward
<1>6. \A n \in Nat : n \in T
  <2> HIDE DEF T
  <2> QED BY <1>4, <1>5, SetInduction
<1>7. \A i \in Buffer : w[i] \in Buffer
  BY <1>6, BufferIsInterval
<1>8. 0 \in S
  BY BufferIsInterval DEF Ring
<1>9. ASSUME NEW n \in Nat, n \in S PROVE n + 1 \in S
  <2> SUFFICES ASSUME n + 1 \in Buffer PROVE \E b \in Buffer : rank[b] = n + 1
    OBVIOUS
  <2>1. PICK b \in Buffer : rank[b] = n
    BY <1>9, BufferIsInterval
  <2>2. nf[b] \in Buffer /\ pf[nf[b]] = b
    BY DEF Ring
  <2>3. nf[b] # fl
    BY <2>1, <2>2 DEF Ring, Buffer
  <2>4. rank[nf[b]] = n + 1
    <3>1. rank[b] = rank[nf[b]] - 1 /\ rank[nf[b]] \in Nat
      BY <2>2, <2>3, BufferIsInterval DEF Ring, Numbering
    <3> QED BY <2>1, <3>1
  <2> QED BY <2>2, <2>4
<1>10. \A n \in Nat : n \in S
  <2> HIDE DEF S
  <2> QED BY <1>8, <1>9, SetInduction
<1>11. \A i \in Buffer : \E b \in Buffer : rank[b] = i
  BY <1>10, BufferIsInterval
<1>12. \A x : x \in {w[i] : i \in Buffer} \ {NULL} <=> x \in Buffer
  BY <1>1, <1>7, BufferIsInterval
<1> QED BY <1>3, <1>11, <1>12


(* An assignment through a pointer, and one after the other.               *)
Puts(T, old, a, u, new) ==
  new \in [Buffer -> T] /\ \A c \in Buffer : new[c] = IF c = a THEN u ELSE old[c]

PutsTwice(T, old, a, u, b, v, new) ==
  /\ new \in [Buffer -> T]
  /\ \A c \in Buffer : new[c] = IF c = b THEN v ELSE IF c = a THEN u ELSE old[c]

LEMMA SetAt ==
  ASSUME NEW T, NEW links \in [Buffer -> T], NEW a \in Link, NEW u \in T
  PROVE  Puts(T, links, a, u, Set(links, a, u))
BY BufferIsInterval DEF Set, Link, Puts

LEMMA SetTwice ==
  ASSUME NEW T, NEW links \in [Buffer -> T], NEW a \in Link, NEW u \in T, NEW b \in Link, NEW v \in T
  PROVE  PutsTwice(T, links, a, u, b, v, Set(Set(links, a, u), b, v))
<1> DEFINE once == Set(links, a, u)
           twice == Set(once, b, v)
<1>1. Puts(T, links, a, u, once)
  BY SetAt
<1> HIDE DEF once
<1>2. once \in [Buffer -> T]
  BY <1>1 DEF Puts
<1>3. Puts(T, once, b, v, twice)
  BY <1>2, SetAt
<1> HIDE DEF twice
<1>4. PutsTwice(T, links, a, u, b, v, twice)
  BY <1>1, <1>3 DEF Puts, PutsTwice
<1> QED BY <1>4 DEF once, twice

(* A buffer is taken out of the ring and put in as its last one.           *)
MovedNumber(rank, b) ==
  [c \in Buffer |-> IF c = b THEN NUMBER_OF_BUFFERS - 1
                    ELSE IF rank[c] > rank[b] THEN rank[c] - 1 ELSE rank[c]]

LEMMA MovedNumbering ==
  ASSUME NEW rank, Numbering(rank), NEW b \in Buffer
  PROVE  Numbering(MovedNumber(rank, b))
<1>1. \A c \in Buffer : rank[c] \in Nat /\ rank[c] < NUMBER_OF_BUFFERS
  BY CacheAssumption DEF Numbering, Buffer
<1>2. MovedNumber(rank, b) \in [Buffer -> Buffer]
  BY <1>1, CacheAssumption DEF MovedNumber, Buffer
<1>3. ASSUME NEW c \in Buffer, NEW d \in Buffer, c # d
      PROVE  MovedNumber(rank, b)[c] # MovedNumber(rank, b)[d]
  <2>1. rank[c] # rank[d] /\ (c # b => rank[c] # rank[b]) /\ (d # b => rank[d] # rank[b])
    BY <1>3 DEF Numbering
  <2> QED BY <1>1, <1>3, <2>1, CacheAssumption DEF MovedNumber
<1> QED BY <1>2, <1>3 DEF Numbering

RingWithout(nf, pf, fl, b, nf1, pf1, fl1) ==
  /\ nf1 = [nf EXCEPT ![pf[b]] = nf[b]]
  /\ pf1 = [pf EXCEPT ![nf[b]] = pf[b]]
  /\ fl1 = IF fl = b THEN nf[b] ELSE fl

RingWith(nf, pf, fl, b, nf1, pf1) ==
  /\ nf1 = Set(Set(nf, pf[fl], b), b, fl)
  /\ pf1 = Set(Set(pf, fl, b), b, pf[fl])

LEMMA RingMoves ==
  ASSUME NEW nf, NEW pf, NEW fl, NEW rank, Ring(nf, pf, fl, rank), NEW b \in Buffer,
         NEW nf1, NEW pf1, NEW fl1, RingWithout(nf, pf, fl, b, nf1, pf1, fl1),
         NEW nf2, NEW pf2, RingWith(nf1, pf1, fl1, b, nf2, pf2)
  PROVE  Ring(nf2, pf2, fl1, MovedNumber(rank, b))
<1> DEFINE last == pf1[fl1]
           rank2 == MovedNumber(rank, b)
<1>0. /\ nf1 = [nf EXCEPT ![pf[b]] = nf[b]]
      /\ pf1 = [pf EXCEPT ![nf[b]] = pf[b]]
      /\ fl1 = IF fl = b THEN nf[b] ELSE fl
  BY DEF RingWithout
<1>1. /\ nf1 \in [Buffer -> Buffer] /\ pf1 \in [Buffer -> Buffer]
      /\ fl1 \in Buffer /\ last \in Buffer
  BY <1>0 DEF Ring
<1>2. \A c \in Buffer : /\ pf1[c] = IF c = nf[b] THEN pf[b] ELSE pf[c]
                        /\ nf1[c] = IF c = pf[b] THEN nf[b] ELSE nf[c]
  BY <1>0 DEF Ring
<1>3. /\ nf2 \in [Buffer -> Buffer] /\ pf2 \in [Buffer -> Buffer]
      /\ \A c \in Buffer : /\ nf2[c] = IF c = b THEN fl1 ELSE IF c = last THEN b ELSE nf1[c]
                           /\ pf2[c] = IF c = b THEN last ELSE IF c = fl1 THEN b ELSE pf1[c]
  <2>1. nf2 = Set(Set(nf1, last, b), b, fl1) /\ pf2 = Set(Set(pf1, fl1, b), b, last)
    BY DEF RingWith
  <2>2. last \in Link /\ fl1 \in Link /\ b \in Link
    BY <1>1 DEF Link
  <2> HIDE DEF last
  <2>3. PutsTwice(Buffer, nf1, last, b, b, fl1, nf2)
    BY <1>1, <2>1, <2>2, SetTwice
  <2>4. PutsTwice(Buffer, pf1, fl1, b, b, last, pf2)
    BY <1>1, <2>1, <2>2, SetTwice
  <2> QED BY <2>3, <2>4 DEF PutsTwice
<1>4. /\ nf \in [Buffer -> Buffer] /\ pf \in [Buffer -> Buffer] /\ fl \in Buffer
      /\ \A c \in Buffer : nf[pf[c]] = c /\ pf[nf[c]] = c
  BY DEF Ring
<1>5. \A c \in Buffer : nf2[pf2[c]] = c /\ pf2[nf2[c]] = c
  <2> HIDE DEF last
  <2>1. last = IF fl1 = nf[b] THEN pf[b] ELSE pf[fl1]
    BY <1>1, <1>2 DEF last
  <2>2. fl1 = b <=> nf[b] = b
    <3>1. fl # b => rank[pf[b]] # rank[b]
      BY <1>4 DEF Ring, Numbering, Buffer
    <3>2. nf[b] = b => pf[b] = b
      BY <1>4
    <3> QED BY <1>0, <1>4, <3>1, <3>2
  <2>3. \A c \in Buffer : nf1[c] \in Buffer /\ pf1[c] \in Buffer /\ nf2[c] \in Buffer /\ pf2[c] \in Buffer
    BY <1>1, <1>3
  <2> TAKE c \in Buffer
  <2>4. nf2[pf2[c]] = c
    BY <1>1, <1>2, <1>3, <1>4, <2>1, <2>2, <2>3
  <2>5. pf2[nf2[c]] = c
    BY <1>1, <1>2, <1>3, <1>4, <2>1, <2>2, <2>3
  <2> QED BY <2>4, <2>5
<1>6. Numbering(rank2)
  BY MovedNumbering DEF Ring
<1>7. /\ NUMBER_OF_BUFFERS \in Nat \ {0}
      /\ \A c \in Buffer : /\ rank[c] \in Nat /\ rank[c] < NUMBER_OF_BUFFERS
                           /\ (c # b => rank[c] # rank[b])
                           /\ rank2[c] = IF c = b THEN NUMBER_OF_BUFFERS - 1
                                         ELSE IF rank[c] > rank[b] THEN rank[c] - 1 ELSE rank[c]
  <2>1. NUMBER_OF_BUFFERS \in Nat \ {0}
    BY CacheAssumption
  <2>2. \A c \in Buffer : rank[c] \in Buffer /\ (c # b => rank[c] # rank[b])
    BY DEF Ring, Numbering
  <2>3. \A c \in Buffer : rank[c] \in Nat /\ rank[c] < NUMBER_OF_BUFFERS
    BY <2>1, <2>2 DEF Buffer
  <2> QED BY <2>1, <2>2, <2>3 DEF MovedNumber
<1>8. /\ rank[fl] = 0 /\ rank[pf[fl]] = NUMBER_OF_BUFFERS - 1
      /\ \A c \in Buffer \ {fl} : rank[pf[c]] = rank[c] - 1
  BY DEF Ring
<1> HIDE DEF rank2
<1>9. CASE fl = b
  <2>1. fl1 = nf[b] /\ last = pf[b] /\ pf2 = pf /\ nf2 = nf
    <3>1. fl1 = nf[b] /\ last = pf[b]
      BY <1>0, <1>2, <1>4, <1>9
    <3> HIDE DEF last
    <3>2. \A c \in Buffer : pf2[c] = pf[c] /\ nf2[c] = nf[c]
      BY <1>1, <1>2, <1>3, <1>4, <3>1
    <3> QED BY <1>3, <1>4, <3>1, <3>2
  <2>2. rank2[fl1] = 0
    <3>1. CASE nf[b] = b
      <4>1. NUMBER_OF_BUFFERS - 1 = 0
        BY <1>4, <1>8, <1>9, <3>1
      <4> QED BY <1>7, <2>1, <3>1, <4>1
    <3>2. CASE nf[b] # b
      <4>1. rank[nf[b]] = 1
        BY <1>4, <1>7, <1>8, <1>9, <3>2
      <4> QED BY <1>4, <1>7, <1>8, <1>9, <2>1, <3>2, <4>1
    <3> QED BY <3>1, <3>2
  <2>3. rank2[pf2[fl1]] = NUMBER_OF_BUFFERS - 1
    BY <1>4, <1>7, <2>1
  <2>4. ASSUME NEW c \in Buffer \ {fl1} PROVE rank2[pf2[c]] = rank2[c] - 1
    <3>1. pf[c] # b /\ pf[c] \in Buffer
      BY <1>4, <2>1
    <3>2. CASE c = b
      BY <1>4, <1>7, <1>8, <1>9, <2>1, <3>1, <3>2
    <3>3. CASE c # b
      <4>1. rank[pf[c]] = rank[c] - 1 /\ rank[b] = 0 /\ rank[pf[c]] # rank[b]
        BY <1>7, <1>8, <1>9, <3>1, <3>3
      <4> QED BY <1>7, <2>1, <3>1, <3>3, <4>1
    <3> QED BY <3>2, <3>3
  <2> QED BY <1>1, <1>3, <1>5, <1>6, <2>2, <2>3, <2>4 DEF Ring, rank2
<1>10. CASE fl # b
  <2>1. fl1 = fl /\ last = IF fl = nf[b] THEN pf[b] ELSE pf[fl]
    BY <1>0, <1>2, <1>4, <1>10
  <2>2. rank[b] > 0 /\ rank2[fl1] = 0
    BY <1>4, <1>7, <1>8, <1>10, <2>1
  <2>3. rank2[pf2[fl1]] = NUMBER_OF_BUFFERS - 1
    BY <1>1, <1>3, <1>7, <1>10, <2>1
  <2> HIDE DEF last
  <2>4. ASSUME NEW c \in Buffer \ {fl1} PROVE rank2[pf2[c]] = rank2[c] - 1
    <3>1. CASE c = b
      <4>1. pf2[c] = last /\ last # b /\ last \in Buffer
        BY <1>1, <1>3, <1>4, <1>10, <2>1, <3>1
      <4>2. CASE fl = nf[b]
        <5>1. rank[b] = NUMBER_OF_BUFFERS - 1 /\ rank[pf[b]] = rank[b] - 1 /\ last = pf[b]
          BY <1>4, <1>8, <1>10, <2>1, <4>2
        <5> QED BY <1>7, <3>1, <4>1, <5>1
      <4>3. CASE fl # nf[b]
        <5>1. rank[last] = NUMBER_OF_BUFFERS - 1 /\ rank[last] # rank[b]
          BY <1>4, <1>7, <1>8, <2>1, <4>1, <4>3
        <5> QED BY <1>7, <3>1, <4>1, <5>1
      <4> QED BY <4>2, <4>3
    <3>2. CASE c # b
      <4>1. pf2[c] = (IF c = nf[b] THEN pf[b] ELSE pf[c]) /\ c # fl
        BY <1>1, <1>2, <1>3, <2>1, <3>2
      <4>2. rank[pf[c]] = rank[c] - 1 /\ rank[pf[b]] = rank[b] - 1 /\ rank[c] # rank[b]
        BY <1>7, <1>8, <1>10, <3>2, <4>1
      <4>3. pf[b] \in Buffer /\ pf[c] \in Buffer /\ pf[b] # b
        BY <1>4, <1>7, <4>2
      <4>4. CASE c = nf[b]
        <5>1. pf[c] = b /\ pf2[c] = pf[b]
          BY <1>4, <4>1, <4>4
        <5> QED BY <1>7, <3>2, <4>2, <4>3, <5>1
      <4>5. CASE c # nf[b]
        <5>1. pf[c] # b /\ pf2[c] = pf[c]
          BY <1>4, <4>1, <4>5
        <5>2. rank[pf[c]] # rank[b]
          BY <1>7, <4>3, <5>1
        <5> QED BY <1>7, <3>2, <4>2, <4>3, <5>1, <5>2
      <4> QED BY <4>4, <4>5
    <3> QED BY <3>1, <3>2
  <2> QED BY <1>1, <1>3, <1>5, <1>6, <2>2, <2>3, <2>4 DEF Ring, rank2
<1> QED BY <1>9, <1>10


-----------------------------------------------------------------------------
(* The hash chains: F are the buffers that are filed, home[b] the chain of *)
(* b, and rank grows along every chain.                                    *)
Chains(nh, ph, ht, home, F, rank) ==
  /\ nh \in [Buffer -> Link] /\ ph \in [Buffer -> Link] /\ ht \in [Hash -> Link]
  /\ home \in [Buffer -> Hash] /\ F \subseteq Buffer /\ Numbering(rank)
  /\ \A b \in F : nh[b] # NULL =>
       nh[b] \in F /\ home[nh[b]] = home[b] /\ ph[nh[b]] = b /\ rank[b] < rank[nh[b]]
  /\ \A b \in F : ph[b] # NULL => ph[b] \in F /\ nh[ph[b]] = b
  /\ \A b \in F : ph[b] = NULL => ht[home[b]] = b
  /\ \A h \in Hash : ht[h] # NULL => ht[h] \in F /\ home[ht[h]] = h /\ ph[ht[h]] = NULL

(* A buffer is found on its chain, at the latest where its rank says.      *)
LEMMA ChainWalk ==
  ASSUME NEW nh, NEW ph, NEW ht, NEW home, NEW F, NEW rank, Chains(nh, ph, ht, home, F, rank),
         NEW h \in Hash
  PROVE  \A b \in F : home[b] = h => \E i \in Buffer : Walk(nh, ht[h])[i] = b
<1> DEFINE w == Walk(nh, ht[h])
           S == {n \in Nat : \A b \in F : home[b] = h /\ rank[b] <= n =>
                               \E i \in Buffer : i <= rank[b] /\ w[i] = b}
<1>0. w[0] = ht[h] /\ \A i \in Buffer \ {0} : w[i] = Onward(nh, w[i - 1])
  BY WalkSteps
<1> HIDE DEF w
<1>1. \A b \in F : b \in Buffer /\ rank[b] \in Nat /\ rank[b] \in Buffer /\ b # NULL
  BY BufferIsInterval, ZenonT(40) DEF Chains, Numbering
<1>2. ASSUME NEW b \in F, home[b] = h, ph[b] = NULL
      PROVE  \E i \in Buffer : i <= rank[b] /\ w[i] = b
  <2>1. w[0] = b
    BY <1>0, <1>2 DEF Chains
  <2> QED BY <1>1, <2>1, BufferIsInterval
<1>3. ASSUME NEW b \in F, home[b] = h, ph[b] # NULL
      PROVE  ph[b] \in F /\ home[ph[b]] = h /\ nh[ph[b]] = b /\ rank[ph[b]] < rank[b]
  <2>1. ph[b] \in F /\ nh[ph[b]] = b
    BY <1>3 DEF Chains
  <2>2. nh[ph[b]] # NULL
    BY <1>1, <2>1
  <2>3. home[nh[ph[b]]] = home[ph[b]] /\ rank[ph[b]] < rank[nh[ph[b]]]
    BY <2>1, <2>2 DEF Chains
  <2> QED BY <1>3, <2>1, <2>3
<1>4. 0 \in S
  <2> SUFFICES ASSUME NEW b \in F, home[b] = h, rank[b] <= 0
               PROVE  \E i \in Buffer : i <= rank[b] /\ w[i] = b
    OBVIOUS
  <2>1. ph[b] = NULL
    BY <1>1, <1>3
  <2> QED BY <1>2, <2>1
<1>5. ASSUME NEW n \in Nat, n \in S PROVE n + 1 \in S
  <2> SUFFICES ASSUME NEW b \in F, home[b] = h, rank[b] <= n + 1
               PROVE  \E i \in Buffer : i <= rank[b] /\ w[i] = b
    OBVIOUS
  <2>1. CASE ph[b] = NULL
    BY <1>2, <2>1
  <2>2. CASE ph[b] # NULL
    <3>1. ph[b] \in F /\ home[ph[b]] = h /\ nh[ph[b]] = b /\ rank[ph[b]] < rank[b]
      BY <1>3, <2>2
    <3>2. rank[ph[b]] \in Nat /\ rank[ph[b]] <= n /\ rank[b] \in Nat /\ rank[b] \in Buffer
      BY <1>1, <3>1
    <3>3. PICK i \in Buffer : i <= rank[ph[b]] /\ w[i] = ph[b]
      BY <1>5, <3>1, <3>2
    <3>4. i \in Nat /\ rank[ph[b]] \in Nat /\ rank[b] \in Nat
      BY <3>2, BufferIsInterval
    <3>5. i + 1 <= rank[b] /\ i + 1 \in Buffer
      <4>1. i + 1 <= rank[b]
        BY <3>1, <3>3, <3>4
      <4>2. rank[b] <= NUMBER_OF_BUFFERS - 1
        BY <3>2 DEF Buffer
      <4> QED BY <3>4, <4>1, <4>2, CacheAssumption DEF Buffer
    <3>6. i + 1 \in Buffer \ {0} /\ i + 1 - 1 = i
      BY <3>4, <3>5, BufferIsInterval
    <3>7. w[i + 1] = Onward(nh, w[i])
      BY <1>0, <3>4, <3>6
    <3>8. w[i + 1] = b
      BY <1>1, <3>1, <3>3, <3>7 DEF Onward
    <3> QED BY <3>5, <3>8
  <2> QED BY <2>1, <2>2
<1>6. \A n \in Nat : n \in S
  <2> HIDE DEF S
  <2> QED BY <1>4, <1>5, SetInduction
<1>7. ASSUME NEW b \in F, home[b] = h PROVE \E i \in Buffer : w[i] = b
  <2>1. rank[b] \in S /\ rank[b] <= rank[b]
    BY <1>1, <1>6
  <2> QED BY <1>7, <2>1
<1> QED BY <1>7 DEF w

LEMMA ChainReached ==
  ASSUME NEW nh, NEW ph, NEW ht, NEW home, NEW F, NEW rank, Chains(nh, ph, ht, home, F, rank),
         NEW h \in Hash
  PROVE  Reached(nh, ht[h]) = {b \in F : home[b] = h}
<1> DEFINE w == Walk(nh, ht[h])
           S == {n \in Nat : n \in Buffer /\ w[n] # NULL => w[n] \in F /\ home[w[n]] = h}
<1>0. w[0] = ht[h] /\ \A i \in Buffer \ {0} : w[i] = Onward(nh, w[i - 1])
  BY WalkSteps
<1>1. Reached(nh, ht[h]) = {w[i] : i \in Buffer} \ {NULL}
  BY DEF Reached
<1>2. \A b \in F : home[b] = h => \E i \in Buffer : w[i] = b
  BY ChainWalk
<1> HIDE DEF w
<1>3. 0 \in S
  BY <1>0 DEF Chains
<1>4. ASSUME NEW n \in Nat, n \in S PROVE n + 1 \in S
  <2> SUFFICES ASSUME n + 1 \in Buffer, w[n + 1] # NULL PROVE w[n + 1] \in F /\ home[w[n + 1]] = h
    OBVIOUS
  <2>1. n \in Buffer /\ n + 1 \in Buffer \ {0} /\ n + 1 - 1 = n
    BY BufferIsInterval
  <2>2. w[n + 1] = Onward(nh, w[n])
    BY <1>0, <2>1
  <2>3. w[n] # NULL /\ w[n + 1] = nh[w[n]]
    BY <2>2 DEF Onward
  <2>4. w[n] \in F /\ home[w[n]] = h
    BY <1>4, <2>1, <2>3
  <2> QED BY <2>3, <2>4 DEF Chains
<1>5. \A n \in Nat : n \in S
  <2> HIDE DEF S
  <2> QED BY <1>3, <1>4, SetInduction
<1>6. \A i \in Buffer : w[i] # NULL => w[i] \in F /\ home[w[i]] = h
  BY <1>5, BufferIsInterval
<1>7. \A b \in F : b # NULL
  BY BufferIsInterval DEF Chains
<1>8. \A x : x \in {w[i] : i \in Buffer} \ {NULL} <=> x \in {b \in F : home[b] = h}
  BY <1>2, <1>6, <1>7
<1> QED BY <1>1, <1>8


(* A filed buffer is taken out of its chain ...                            *)
ChainWithout(nh, ph, ht, h, b, nh1, ph1, ht1) ==
  /\ nh1 = Set(nh, ph[b], nh[b])
  /\ ph1 = Set(ph, nh[b], ph[b])
  /\ ht1 = [ht EXCEPT ![h] = IF ht[h] = b THEN nh[b] ELSE ht[h]]

LEMMA ChainUnlink ==
  ASSUME NEW nh, NEW ph, NEW ht, NEW home, NEW F, NEW rank, Chains(nh, ph, ht, home, F, rank),
         NEW b \in F,
         NEW nh1, NEW ph1, NEW ht1, ChainWithout(nh, ph, ht, home[b], b, nh1, ph1, ht1)
  PROVE  Chains(nh1, ph1, ht1, home, F \ {b}, rank)
<1>1. /\ b \in Buffer /\ nh[b] \in Link /\ ph[b] \in Link /\ home[b] \in Hash
      /\ nh1 \in [Buffer -> Link] /\ ph1 \in [Buffer -> Link] /\ ht1 \in [Hash -> Link]
  BY BufferIsInterval DEF Chains, ChainWithout, Set, Link
<1>2. \A c \in Buffer : /\ nh1[c] = IF c = ph[b] THEN nh[b] ELSE nh[c]
                        /\ ph1[c] = IF c = nh[b] THEN ph[b] ELSE ph[c]
  BY BufferIsInterval DEF Chains, ChainWithout, Set, Link
<1>3. \A h \in Hash : ht1[h] = IF h = home[b] /\ ht[h] = b THEN nh[b] ELSE ht[h]
  BY <1>1 DEF Chains, ChainWithout
<1>4. \A c \in F : /\ c \in Buffer /\ c # NULL /\ home[c] \in Hash /\ rank[c] \in Nat
                   /\ nh[c] # NULL =>
                        nh[c] \in F /\ home[nh[c]] = home[c] /\ ph[nh[c]] = c /\ rank[c] < rank[nh[c]]
                   /\ ph[c] # NULL => ph[c] \in F /\ nh[ph[c]] = c
                   /\ ph[c] = NULL => ht[home[c]] = c
  BY BufferIsInterval, ZenonT(40) DEF Chains, Numbering
<1>5. \A h \in Hash : ht[h] # NULL => ht[h] \in F /\ home[ht[h]] = h /\ ph[ht[h]] = NULL
  BY DEF Chains
<1>6. ASSUME NEW c \in F \ {b}, nh1[c] # NULL
      PROVE  /\ nh1[c] \in F \ {b} /\ home[nh1[c]] = home[c]
             /\ ph1[nh1[c]] = c /\ rank[c] < rank[nh1[c]]
  <2>1. CASE c = ph[b]
    <3>1. nh[c] = b /\ nh1[c] = nh[b] /\ nh[b] # NULL
      BY <1>2, <1>4, <1>6, <2>1
    <3>2. /\ nh[b] \in F /\ home[nh[b]] = home[b] /\ ph[nh[b]] = b /\ rank[b] < rank[nh[b]]
          /\ home[b] = home[c] /\ rank[c] < rank[b]
      BY <1>4, <3>1
    <3>3. ph1[nh[b]] = c /\ nh[b] # b
      BY <1>2, <1>4, <2>1, <3>2
    <3>4. rank[c] < rank[nh[b]]
      BY <1>4, <3>2
    <3> QED BY <3>1, <3>2, <3>3, <3>4
  <2>2. CASE c # ph[b]
    <3>1. nh1[c] = nh[c] /\ nh[c] # NULL
      BY <1>2, <1>4, <1>6, <2>2
    <3>2. nh[c] \in F /\ home[nh[c]] = home[c] /\ ph[nh[c]] = c /\ rank[c] < rank[nh[c]]
      BY <1>4, <3>1
    <3>3. nh[c] # b /\ nh[c] # nh[b]
      BY <1>4, <1>6, <2>2, <3>2
    <3> QED BY <1>2, <1>4, <3>1, <3>2, <3>3
  <2> QED BY <2>1, <2>2
<1>7. ASSUME NEW c \in F \ {b}, ph1[c] # NULL PROVE ph1[c] \in F \ {b} /\ nh1[ph1[c]] = c
  <2>1. CASE c = nh[b]
    <3>1. ph1[c] = ph[b] /\ ph[b] \in F /\ nh[ph[b]] = b
      BY <1>2, <1>4, <1>7, <2>1
    <3>2. ph[b] # b
      BY <1>4, <1>7, <2>1, <3>1
    <3> QED BY <1>2, <1>4, <2>1, <3>1, <3>2
  <2>2. CASE c # nh[b]
    <3>1. ph1[c] = ph[c] /\ ph[c] \in F /\ nh[ph[c]] = c
      BY <1>2, <1>4, <1>7, <2>2
    <3>2. ph[c] # b /\ ph[c] # ph[b]
      BY <1>4, <1>7, <2>2, <3>1
    <3> QED BY <1>2, <1>4, <3>1, <3>2
  <2> QED BY <2>1, <2>2
<1>8. ASSUME NEW c \in F \ {b}, ph1[c] = NULL PROVE ht1[home[c]] = c
  <2>1. CASE c = nh[b]
    <3>1. ph[b] = NULL /\ home[c] = home[b]
      BY <1>2, <1>4, <1>8, <2>1
    <3> QED BY <1>1, <1>3, <1>4, <2>1, <3>1
  <2>2. CASE c # nh[b]
    <3>1. ph[c] = NULL /\ ht[home[c]] = c
      BY <1>2, <1>4, <1>8, <2>2
    <3> QED BY <1>3, <1>4, <1>8, <3>1
  <2> QED BY <2>1, <2>2
<1>9. ASSUME NEW h \in Hash, ht1[h] # NULL
      PROVE  ht1[h] \in F \ {b} /\ home[ht1[h]] = h /\ ph1[ht1[h]] = NULL
  <2>1. CASE h = home[b] /\ ht[h] = b
    <3>1. ht1[h] = nh[b] /\ nh[b] # NULL /\ ph[b] = NULL
      BY <1>3, <1>4, <1>5, <1>9, <2>1
    <3>2. nh[b] \in F /\ home[nh[b]] = h /\ ph[nh[b]] = b
      BY <1>4, <2>1, <3>1
    <3>3. nh[b] # b
      BY <1>4, <3>1, <3>2
    <3> QED BY <1>2, <1>4, <3>1, <3>2, <3>3
  <2>2. CASE ~(h = home[b] /\ ht[h] = b)
    <3>1. ht1[h] = ht[h] /\ ht[h] \in F /\ home[ht[h]] = h /\ ph[ht[h]] = NULL
      BY <1>3, <1>5, <1>9, <2>2
    <3>2. ht[h] # b
      BY <2>2, <3>1
    <3>3. ht[h] # nh[b]
      BY <1>4, <3>1
    <3> QED BY <1>2, <1>4, <3>1, <3>2, <3>3
  <2> QED BY <2>1, <2>2
<1>10. home \in [Buffer -> Hash] /\ F \ {b} \subseteq Buffer /\ Numbering(rank)
  BY DEF Chains
<1> QED BY <1>1, <1>6, <1>7, <1>8, <1>9, <1>10 DEF Chains

(* ... and put first into one.                                             *)
FirstNumber(rank, b) ==
  [c \in Buffer |-> IF c = b THEN 0 ELSE IF rank[c] < rank[b] THEN rank[c] + 1 ELSE rank[c]]

LEMMA FirstNumbering ==
  ASSUME NEW rank, Numbering(rank), NEW b \in Buffer
  PROVE  /\ Numbering(FirstNumber(rank, b))
         /\ \A c \in Buffer \ {b} : FirstNumber(rank, b)[c] > 0
         /\ \A c, d \in Buffer \ {b} :
              rank[c] < rank[d] => FirstNumber(rank, b)[c] < FirstNumber(rank, b)[d]
<1>1. \A c \in Buffer : rank[c] \in Nat /\ rank[c] < NUMBER_OF_BUFFERS /\ (c # b => rank[c] # rank[b])
  BY CacheAssumption DEF Numbering, Buffer
<1>2. FirstNumber(rank, b) \in [Buffer -> Buffer]
  BY <1>1, CacheAssumption DEF FirstNumber, Buffer
<1>3. ASSUME NEW c \in Buffer, NEW d \in Buffer, c # d
      PROVE  FirstNumber(rank, b)[c] # FirstNumber(rank, b)[d]
  <2>1. rank[c] # rank[d] /\ (c # b => rank[c] # rank[b]) /\ (d # b => rank[d] # rank[b])
    BY <1>3 DEF Numbering
  <2> QED BY <1>1, <1>3, <2>1 DEF FirstNumber
<1>4. \A c \in Buffer \ {b} : FirstNumber(rank, b)[c] > 0
  BY <1>1 DEF FirstNumber
<1>5. ASSUME NEW c \in Buffer \ {b}, NEW d \in Buffer \ {b}, rank[c] < rank[d]
      PROVE  FirstNumber(rank, b)[c] < FirstNumber(rank, b)[d]
  BY <1>1, <1>5 DEF FirstNumber
<1> QED BY <1>2, <1>3, <1>4, <1>5 DEF Numbering

ChainWith(nh, ph, ht, h, b, nh1, ph1, ht1) ==
  /\ nh1 = [nh EXCEPT ![b] = ht[h]]
  /\ ph1 = Set(Set(ph, b, NULL), ht[h], b)
  /\ ht1 = [ht EXCEPT ![h] = b]

LEMMA ChainLink ==
  ASSUME NEW nh, NEW ph, NEW ht, NEW home, NEW F, NEW rank, Chains(nh, ph, ht, home, F, rank),
         NEW b \in Buffer, b \notin F, NEW h \in Hash,
         NEW home2 \in [Buffer -> Hash], home2[b] = h, \A c \in Buffer \ {b} : home2[c] = home[c],
         NEW nh2, NEW ph2, NEW ht2, ChainWith(nh, ph, ht, h, b, nh2, ph2, ht2)
  PROVE  Chains(nh2, ph2, ht2, home2, F \cup {b}, FirstNumber(rank, b))
<1> DEFINE rank2 == FirstNumber(rank, b)
           first == ht[h]
<1>1. /\ \A c \in F : c \in Buffer /\ c # NULL /\ c # b /\ home2[c] = home[c] /\ home[c] \in Hash
      /\ \A c \in F : nh[c] # NULL =>
           nh[c] \in F /\ home[nh[c]] = home[c] /\ ph[nh[c]] = c /\ rank[c] < rank[nh[c]]
      /\ \A c \in F : ph[c] # NULL => ph[c] \in F /\ nh[ph[c]] = c
      /\ \A c \in F : ph[c] = NULL => ht[home[c]] = c
      /\ \A g \in Hash : ht[g] # NULL => ht[g] \in F /\ home[ht[g]] = g /\ ph[ht[g]] = NULL
      /\ Numbering(rank) /\ b # NULL
  BY BufferIsInterval DEF Chains
<1>2. first \in Link /\ first # b /\ nh \in [Buffer -> Link] /\ ph \in [Buffer -> Link]
  BY <1>1 DEF Chains, Link
<1>3. /\ nh2 \in [Buffer -> Link] /\ ht2 \in [Hash -> Link]
      /\ \A c \in Buffer : nh2[c] = IF c = b THEN first ELSE nh[c]
  BY <1>2 DEF Chains, ChainWith, Link
<1>4. /\ ph2 \in [Buffer -> Link]
      /\ \A c \in Buffer : /\ nh2[c] = IF c = b THEN first ELSE nh[c]
                           /\ ph2[c] = IF c = first THEN b ELSE IF c = b THEN NULL ELSE ph[c]
  <2>1. NULL \in Link /\ b \in Link /\ ph2 = Set(Set(ph, b, NULL), first, b)
    BY DEF Link, ChainWith
  <2> HIDE DEF first
  <2>2. PutsTwice(Link, ph, b, NULL, first, b, ph2)
    BY <1>2, <2>1, SetTwice
  <2> QED BY <1>3, <2>2 DEF PutsTwice
<1>5. \A g \in Hash : ht2[g] = IF g = h THEN b ELSE ht[g]
  BY DEF Chains, ChainWith
<1>6. /\ Numbering(rank2)
      /\ \A c \in Buffer \ {b} : rank2[b] < rank2[c]
      /\ \A c, d \in Buffer \ {b} : rank[c] < rank[d] => rank2[c] < rank2[d]
  <2>1. rank2[b] = 0
    BY DEF FirstNumber
  <2> QED BY <1>1, <2>1, FirstNumbering
<1>7. first = ht[h]
  BY DEF first
<1> HIDE DEF rank2
<1>8. ASSUME NEW c \in F \cup {b}, nh2[c] # NULL
      PROVE  /\ nh2[c] \in F \cup {b} /\ home2[nh2[c]] = home2[c]
             /\ ph2[nh2[c]] = c /\ rank2[c] < rank2[nh2[c]]
  <2>1. CASE c = b
    <3>1. nh2[c] = first /\ first \in F /\ home[first] = h
      BY <1>1, <1>4, <1>7, <1>8, <2>1
    <3> QED BY <1>1, <1>4, <1>6, <2>1, <3>1
  <2>2. CASE c # b
    <3>1. c \in F /\ nh2[c] = nh[c] /\ nh[c] # NULL
      BY <1>1, <1>4, <1>8, <2>2
    <3>2. nh[c] \in F /\ home[nh[c]] = home[c] /\ ph[nh[c]] = c /\ rank[c] < rank[nh[c]]
      BY <1>1, <3>1
    <3>3. nh[c] # first /\ nh[c] # b
      BY <1>1, <1>7, <3>1, <3>2
    <3>4. /\ c \in Buffer \ {b} /\ nh[c] \in Buffer \ {b}
          /\ home2[nh[c]] = home[nh[c]] /\ home2[c] = home[c]
      BY <1>1, <3>1, <3>2
    <3>5. ph2[nh[c]] = c /\ rank2[c] < rank2[nh[c]]
      BY <1>4, <1>6, <3>2, <3>3, <3>4
    <3> QED BY <3>1, <3>2, <3>4, <3>5
  <2> QED BY <2>1, <2>2
<1>9. ASSUME NEW c \in F \cup {b}, ph2[c] # NULL PROVE ph2[c] \in F \cup {b} /\ nh2[ph2[c]] = c
  <2>1. CASE c = first
    <3>1. c \in Buffer /\ ph2[c] = b /\ nh2[b] = first
      BY <1>1, <1>4, <2>1
    <3> QED BY <2>1, <3>1
  <2>2. CASE c # first
    <3>1. c \in F /\ ph2[c] = ph[c] /\ ph[c] # NULL
      BY <1>1, <1>4, <1>9, <2>2
    <3> QED BY <1>1, <1>4, <3>1
  <2> QED BY <2>1, <2>2
<1>10. ASSUME NEW c \in F \cup {b}, ph2[c] = NULL PROVE ht2[home2[c]] = c
  <2>1. CASE c = b
    BY <1>5, <2>1
  <2>2. CASE c # b
    <3>1. c \in F /\ c # first /\ ph[c] = NULL
      BY <1>1, <1>4, <1>10, <2>2
    <3> QED BY <1>1, <1>5, <1>7, <3>1
  <2> QED BY <2>1, <2>2
<1>11. ASSUME NEW g \in Hash, ht2[g] # NULL
       PROVE  ht2[g] \in F \cup {b} /\ home2[ht2[g]] = g /\ ph2[ht2[g]] = NULL
  <2>1. CASE g = h
    <3>1. ht2[g] = b
      BY <1>5, <2>1
    <3>2. ph2[b] = NULL
      BY <1>2, <1>4
    <3> QED BY <2>1, <3>1, <3>2
  <2>2. CASE g # h
    <3>1. ht2[g] = ht[g] /\ ht[g] \in F /\ home[ht[g]] = g /\ ph[ht[g]] = NULL
      BY <1>1, <1>5, <1>11, <2>2
    <3>2. ht[g] # first
      BY <1>1, <1>7, <2>2, <3>1
    <3>3. ht[g] \in Buffer \ {b} /\ home2[ht[g]] = home[ht[g]]
      BY <1>1, <3>1
    <3>4. ph2[ht[g]] = NULL
      BY <1>4, <3>1, <3>2, <3>3
    <3> QED BY <3>1, <3>3, <3>4
  <2> QED BY <2>1, <2>2
<1>12. F \cup {b} \subseteq Buffer
  BY DEF Chains
<1> QED BY <1>3, <1>4, <1>6, <1>8, <1>9, <1>10, <1>11, <1>12 DEF Chains, rank2


-----------------------------------------------------------------------------
(* The links after getblk() has given buffer b to block k, list by list.   *)
Queues ==
  [next_free : [Buffer -> Buffer], prev_free : [Buffer -> Buffer], free_list : Buffer,
   next_hash : [Buffer -> Link], prev_hash : [Buffer -> Link], hash_table : [Hash -> Link],
   at_null : Link]

LEMMA HashType == \A k \in Nat : hash(k) \in Hash
BY CacheAssumption DEF hash, Hash

Fields ==
  {"next_free", "prev_free", "free_list", "next_hash", "prev_hash", "hash_table", "at_null"}

LEMMA RemovedFields ==
  ASSUME NEW q \in Queues, NEW b \in Buffer, NEW r, r = Removed(q, b)
  PROVE  /\ RingWithout(q.next_free, q.prev_free, q.free_list, b, r.next_free, r.prev_free, r.free_list)
         /\ ChainWithout(q.next_hash, q.prev_hash, q.hash_table, hash(b_block[b]), b,
                         r.next_hash, r.prev_hash, r.hash_table)
         /\ DOMAIN r = Fields /\ r.at_null \in Link
BY DEF Removed, Queues, RingWithout, ChainWithout, Fields

LEMMA InsertedFields ==
  ASSUME NEW q, DOMAIN q = Fields, q.at_null \in Link, NEW b \in Buffer, NEW k,
         NEW r, r = Inserted(q, b, k)
  PROVE  /\ RingWith(q.next_free, q.prev_free, q.free_list, b, r.next_free, r.prev_free)
         /\ r.free_list = q.free_list
         /\ ChainWith(q.next_hash, q.prev_hash, q.hash_table, hash(k), b,
                      r.next_hash, r.prev_hash, r.hash_table)
         /\ r = [next_free |-> r.next_free, prev_free |-> r.prev_free, free_list |-> r.free_list,
                 next_hash |-> r.next_hash, prev_hash |-> r.prev_hash, hash_table |-> r.hash_table,
                 at_null |-> r.at_null]
         /\ r.at_null \in Link
BY DEF Inserted, RingWith, ChainWith, Fields, Link


Home == [b \in Buffer |-> hash(b_block[b])]
Filed == {b \in Buffer : b_block[b] # NoBlock}

RingInv == \E rank : Ring(queues.next_free, queues.prev_free, queues.free_list, rank)
ChainInv ==
  \E rank : Chains(queues.next_hash, queues.prev_hash, queues.hash_table, Home, Filed, rank)
UnfiledInv == \A b \in Buffer \ Filed : queues.next_hash[b] = NULL /\ queues.prev_hash[b] = NULL

QueuesInv == queues \in Queues /\ RingInv /\ ChainInv /\ UnfiledInv

LEMMA QueuesKept == QueuesInv /\ queues' = queues /\ b_block' = b_block => QueuesInv'
BY DEF QueuesInv, RingInv, ChainInv, UnfiledInv, Home, Filed

(* The chain of an unfiled buffer does not change when it is "removed".    *)
LEMMA ChainsAfterRemoved ==
  ASSUME b_block \in [Buffer -> Nat], QueuesInv, NEW b \in Buffer, NEW r, r = Removed(queues, b)
  PROVE  \E rank : Chains(r.next_hash, r.prev_hash, r.hash_table, Home, Filed \ {b}, rank)
<1> DEFINE nh == queues.next_hash
           ph == queues.prev_hash
           ht == queues.hash_table
<1>1. PICK rank : Chains(nh, ph, ht, Home, Filed, rank)
  BY DEF QueuesInv, ChainInv
<1>2. ChainWithout(nh, ph, ht, Home[b], b, r.next_hash, r.prev_hash, r.hash_table)
  BY RemovedFields DEF QueuesInv, Home
<1>3. b \notin Filed => nh[b] = NULL /\ ph[b] = NULL
  BY DEF QueuesInv, UnfiledInv
<1> HIDE DEF nh, ph, ht
<1>4. CASE b \in Filed
  BY <1>1, <1>2, <1>4, ChainUnlink
<1>5. CASE b \notin Filed
  <2>1. ht \in [Hash -> Link] /\ Home[b] \in Hash /\ ht[Home[b]] # b
    BY <1>1, <1>5, BufferIsInterval DEF Chains
  <2>2. r.next_hash = nh /\ r.prev_hash = ph /\ r.hash_table = ht
    BY <1>2, <1>3, <1>5, <2>1 DEF ChainWithout, Set
  <2>3. Filed \ {b} = Filed
    BY <1>5
  <2> QED BY <1>1, <2>2, <2>3
<1> QED BY <1>4, <1>5

LEMMA Refiled ==
  ASSUME b_block \in [Buffer -> Nat], QueuesInv, NEW b \in Buffer, NEW k \in Block,
         b_block' = [b_block EXCEPT ![b] = k],
         queues' = Inserted(Removed(queues, b), b, k)
  PROVE  QueuesInv'
<1> DEFINE r == Removed(queues, b)
           h == hash(k)
<1>1. /\ DOMAIN r = Fields /\ r.at_null \in Link
      /\ RingWithout(queues.next_free, queues.prev_free, queues.free_list, b,
                     r.next_free, r.prev_free, r.free_list)
      /\ ChainWithout(queues.next_hash, queues.prev_hash, queues.hash_table, hash(b_block[b]), b,
                      r.next_hash, r.prev_hash, r.hash_table)
  BY RemovedFields DEF QueuesInv
<1>2. /\ RingWith(r.next_free, r.prev_free, r.free_list, b, queues'.next_free, queues'.prev_free)
      /\ queues'.free_list = r.free_list
      /\ ChainWith(r.next_hash, r.prev_hash, r.hash_table, h, b,
                   queues'.next_hash, queues'.prev_hash, queues'.hash_table)
      /\ queues' = [next_free |-> queues'.next_free, prev_free |-> queues'.prev_free,
                    free_list |-> queues'.free_list, next_hash |-> queues'.next_hash,
                    prev_hash |-> queues'.prev_hash, hash_table |-> queues'.hash_table,
                    at_null |-> queues'.at_null]
      /\ queues'.at_null \in Link
  <2> HIDE DEF r
  <2> QED BY <1>1, InsertedFields DEF r
<1>3. PICK rank : Chains(r.next_hash, r.prev_hash, r.hash_table, Home, Filed \ {b}, rank)
  BY ChainsAfterRemoved
<1>4. PICK order : Ring(queues.next_free, queues.prev_free, queues.free_list, order)
  BY DEF QueuesInv, RingInv
<1>5. k \in Nat /\ k # NoBlock /\ h \in Hash
  BY CacheAssumption, HashType DEF NoBlock
<1>6. /\ b_block' \in [Buffer -> Nat] /\ b_block'[b] = k
      /\ \A c \in Buffer \ {b} : b_block'[c] = b_block[c]
  BY <1>5
<1>7. /\ Home' \in [Buffer -> Hash] /\ Home'[b] = h /\ \A c \in Buffer \ {b} : Home'[c] = Home[c]
  BY <1>6, HashType DEF Home
<1>8. Filed' = (Filed \ {b}) \cup {b}
  BY <1>5, <1>6 DEF Filed
<1> HIDE DEF r, h
<1>12. Ring(queues'.next_free, queues'.prev_free, queues'.free_list, MovedNumber(order, b))
  BY <1>1, <1>2, <1>4, RingMoves
<1>13. Chains(queues'.next_hash, queues'.prev_hash, queues'.hash_table, Home', Filed', FirstNumber(rank, b))
  <2> DEFINE F == Filed \ {b}
             home == Home
             home2 == Home'
  <2>1. b \notin F /\ Chains(r.next_hash, r.prev_hash, r.hash_table, home, F, rank)
    BY <1>3
  <2>2. home2 \in [Buffer -> Hash] /\ home2[b] = h /\ \A c \in Buffer \ {b} : home2[c] = home[c]
    BY <1>7
  <2>3. Filed' = F \cup {b}
    BY <1>8
  <2> HIDE DEF F, home, home2
  <2>4. Chains(queues'.next_hash, queues'.prev_hash, queues'.hash_table, home2, F \cup {b}, FirstNumber(rank, b))
    BY <1>2, <1>5, <2>1, <2>2, ChainLink
  <2> QED BY <2>3, <2>4 DEF home2
<1>14. UnfiledInv'
  <2> SUFFICES ASSUME NEW c \in Buffer, c \notin Filed'
               PROVE  queues'.next_hash[c] = NULL /\ queues'.prev_hash[c] = NULL
    BY DEF UnfiledInv
  <2> DEFINE nh == queues.next_hash
             ph == queues.prev_hash
  <2>1. c # b /\ c \notin Filed
    BY <1>8
  <2>2. nh[c] = NULL /\ ph[c] = NULL
    BY <2>1 DEF QueuesInv, UnfiledInv
  <2>3. /\ r.next_hash = Set(nh, ph[b], nh[b])
        /\ r.prev_hash = Set(ph, nh[b], ph[b])
    BY <1>1 DEF ChainWithout
  <2>4. nh \in [Buffer -> Link] /\ ph \in [Buffer -> Link]
    BY DEF QueuesInv, Queues
  <2>5. nh[b] # c /\ ph[b] # c
    <3>1. CASE b \in Filed
      <4>1. PICK rk : Chains(nh, ph, queues.hash_table, Home, Filed, rk)
        BY DEF QueuesInv, ChainInv
      <4> HIDE DEF nh, ph
      <4> QED BY <2>1, <3>1, <4>1, BufferIsInterval DEF Chains
    <3>2. CASE b \notin Filed
      BY <3>2, BufferIsInterval DEF QueuesInv, UnfiledInv
    <3> QED BY <3>1, <3>2
  <2> HIDE DEF nh, ph
  <2>6. r.next_hash[c] = NULL /\ r.prev_hash[c] = NULL
    <3>1. nh[b] \in Link /\ ph[b] \in Link
      BY <2>4
    <3>2. Puts(Link, nh, ph[b], nh[b], r.next_hash)
      BY <2>3, <2>4, <3>1, SetAt
    <3>3. Puts(Link, ph, nh[b], ph[b], r.prev_hash)
      BY <2>3, <2>4, <3>1, SetAt
    <3> QED BY <2>2, <2>5, <3>2, <3>3 DEF Puts
  <2>7. r.hash_table[h] # c
    BY <1>3, <1>5, <2>1, BufferIsInterval DEF Chains
  <2>8. /\ r.next_hash \in [Buffer -> Link] /\ r.prev_hash \in [Buffer -> Link]
        /\ r.hash_table[h] \in Link /\ NULL \in Link /\ b \in Link
    BY <1>3, <1>5 DEF Chains, Link
  <2>9. queues'.next_hash[c] = NULL
    BY <1>2, <2>1, <2>6, <2>8 DEF ChainWith
  <2>10. queues'.prev_hash[c] = NULL
    <3>1. queues'.prev_hash = Set(Set(r.prev_hash, b, NULL), r.hash_table[h], b)
      BY <1>2 DEF ChainWith
    <3>2. PutsTwice(Link, r.prev_hash, b, NULL, r.hash_table[h], b, queues'.prev_hash)
      BY <2>8, <3>1, SetTwice
    <3> QED BY <2>1, <2>6, <2>7, <3>2 DEF PutsTwice
  <2> QED BY <2>9, <2>10
<1>15. queues' \in Queues
  <2>1. /\ queues'.next_free \in [Buffer -> Buffer] /\ queues'.prev_free \in [Buffer -> Buffer]
        /\ queues'.free_list \in Buffer
    BY <1>12 DEF Ring
  <2>2. /\ queues'.next_hash \in [Buffer -> Link] /\ queues'.prev_hash \in [Buffer -> Link]
        /\ queues'.hash_table \in [Hash -> Link]
    BY <1>13 DEF Chains
  <2> QED BY <1>2, <2>1, <2>2 DEF Queues
<1>16. RingInv' /\ ChainInv'
  BY <1>12, <1>13 DEF RingInv, ChainInv
<1> QED BY <1>14, <1>15, <1>16 DEF QueuesInv


-----------------------------------------------------------------------------
(* What the searches of getblk() find in queues that are in order.         *)
LEMMA FoundOnChain ==
  ASSUME b_block \in [Buffer -> Nat], QueuesInv, NEW k \in Block
  PROVE  Found(k) = {b \in Buffer : b_block[b] = k}
<1> DEFINE nh == queues.next_hash
           ph == queues.prev_hash
           ht == queues.hash_table
<1>1. PICK rank : Chains(nh, ph, ht, Home, Filed, rank)
  BY DEF QueuesInv, ChainInv
<1>2. k \in Nat /\ k # NoBlock /\ hash(k) \in Hash
  BY CacheAssumption, HashType DEF NoBlock
<1>3. Found(k) = {b \in Buffer \cap Reached(nh, ht[hash(k)]) : b_block[b] = k}
  BY DEF Found
<1> HIDE DEF nh, ph, ht
<1>4. Reached(nh, ht[hash(k)]) = {b \in Filed : Home[b] = hash(k)}
  BY <1>1, <1>2, ChainReached
<1>5. \A b \in Buffer : b_block[b] = k => b \in Filed /\ Home[b] = hash(k)
  BY <1>2 DEF Filed, Home
<1> QED BY <1>3, <1>4, <1>5

LEMMA NoneFreeOnRing ==
  ASSUME b_count \in [Buffer -> Nat], QueuesInv, FirstFree = {}
  PROVE  \A b \in Buffer : b_count[b] > 0
<1> DEFINE ring == Walk(queues.next_free, queues.free_list)
<1>1. PICK rank : Ring(queues.next_free, queues.prev_free, queues.free_list, rank)
  BY DEF QueuesInv, RingInv
<1>2. \A b \in Buffer : ring[rank[b]] = b /\ rank[b] \in Buffer
  <2> DEFINE nf == queues.next_free
             fl == queues.free_list
  <2>1. Ring(nf, queues.prev_free, fl, rank)
    BY <1>1
  <2> HIDE DEF nf, fl
  <2>2. \A b \in Buffer : Walk(nf, fl)[rank[b]] = b
    BY <2>1, RingWalk
  <2>3. \A b \in Buffer : rank[b] \in Buffer
    BY <2>1 DEF Ring, Numbering
  <2> QED BY <2>2, <2>3 DEF nf, fl
<1>3. \A i \in Buffer : \E b \in Buffer : rank[b] = i
  BY <1>1, RingReached
<1>4. FirstFree = {b \in Buffer : b_count[b] = 0 /\ \E i \in Buffer :
                     ring[i] = b /\ \A j \in 0 .. i - 1 : b_count[ring[j]] > 0}
  BY DEF FirstFree, FreeRing
<1> HIDE DEF ring
<1> SUFFICES ASSUME NEW b0 \in Buffer, b_count[b0] = 0 PROVE FALSE
  OBVIOUS
<1> DEFINE S == {n \in Nat : \E b \in Buffer : b_count[b] = 0 /\ rank[b] = n}
<1>5. rank[b0] \in S
  BY <1>2, BufferIsInterval
<1>6. PICK n \in S : \A m \in S : n <= m
  BY <1>5, LeastNumber
<1>7. PICK b \in Buffer : b_count[b] = 0 /\ rank[b] = n
  BY <1>6
<1>8. ASSUME NEW j \in 0 .. n - 1 PROVE b_count[ring[j]] > 0
  <2>1. n \in Buffer /\ n \in Nat
    BY <1>2, <1>6, <1>7
  <2>2. j \in Nat /\ j < n /\ j \in Buffer
    BY <2>1, CacheAssumption DEF Buffer
  <2>3. PICK c \in Buffer : rank[c] = j
    BY <1>3, <2>2
  <2>4. j \notin S
    BY <1>6, <2>1, <2>2
  <2>5. b_count[c] # 0 /\ b_count[c] \in Nat
    BY <2>2, <2>3, <2>4
  <2> QED BY <1>2, <2>3, <2>5
<1>9. n \in Buffer /\ ring[n] = b
  BY <1>2, <1>7
<1>10. b \in FirstFree
  BY <1>4, <1>7, <1>8, <1>9
<1> QED BY <1>10

-----------------------------------------------------------------------------
(* The lists are in order, and so is what depends on the searches.         *)
BlockInv == block \in [Task -> Block]

(* The queue of buffer_wait: nobody is in it while a buffer is free.       *)
SleepInv ==
  /\ buffer_wait \in Task \cup {NULL}
  /\ tmp \in [Task -> Task \cup {NULL}]
  /\ buffer_wait # NULL => AllInUse
  /\ SleepersAreReached

ListsInv == BlockInv /\ QueuesInv /\ OneBufferPerBlock /\ SleepInv

(* A step that leaves the lists alone.                                     *)
LEMMA ListsKept ==
  ASSUME ListsInv,
         block' \in [Task -> Block], queues' = queues, b_block' = b_block,
         SleepInv'
  PROVE  ListsInv'
<1>1. QueuesInv'
  BY QueuesKept DEF ListsInv
<1>2. OneBufferPerBlock'
  BY DEF ListsInv, OneBufferPerBlock
<1> QED BY <1>1, <1>2 DEF ListsInv, BlockInv

-----------------------------------------------------------------------------
(* A set of sleepers, and how one of them will be woken from outside.      *)
Asleep(S, a) == S \in SUBSET Task /\ S # {} /\ \A u \in S : a[u] = "none free"
Holds(u, S, a, n) == u \in Task \ S /\ a[u] \in {"none free", "woken"} /\ n[u] \in S

LEMMA ReachedIs ==
  SleepersAreReached <=>
    \A S : Asleep(S, at) => (AllInUse /\ buffer_wait \in S) \/ \E u : Holds(u, S, at, tmp)
BY DEF SleepersAreReached, Asleep, Holds

LEMMA ReachedIsNext ==
  SleepersAreReached' <=>
    \A S : Asleep(S, at') => (AllInUse' /\ buffer_wait' \in S) \/ \E u : Holds(u, S, at', tmp')
BY DEF SleepersAreReached, Asleep, Holds

(* A step that puts nobody to sleep, wakes nobody and lets no buffer go.   *)
LEMMA SleepKept ==
  ASSUME SleepInv, waitVars' = waitVars,
         \A u \in Task : /\ at'[u] = "none free" => at[u] = "none free"
                         /\ at[u] \in {"none free", "woken"} => at'[u] \in {"none free", "woken"},
         \A b \in Buffer : b_count[b] > 0 => b_count'[b] > 0
  PROVE  SleepInv'
<1>1. buffer_wait' = buffer_wait /\ tmp' = tmp
  BY DEF waitVars
<1>2. AllInUse => AllInUse'
  BY DEF AllInUse, Buffer
<1>3. ASSUME NEW S, Asleep(S, at')
      PROVE  (AllInUse' /\ buffer_wait' \in S) \/ \E u : Holds(u, S, at', tmp')
  <2>1. Asleep(S, at)
    BY <1>3 DEF Asleep
  <2>2. CASE AllInUse /\ buffer_wait \in S
    BY <1>1, <1>2, <2>2
  <2>3. CASE \E u : Holds(u, S, at, tmp)
    BY <1>1, <2>3 DEF Holds
  <2> QED BY <2>1, <2>2, <2>3, ReachedIs DEF SleepInv
<1> QED BY <1>1, <1>2, <1>3, ReachedIsNext DEF SleepInv

(* brelse() takes the task that slept last out of the queue.               *)
LEMMA SleepLetGo ==
  ASSUME TypeInv, SleepInv, NEW t \in Task, at[t] \notin {"none free", "woken"}, NEW b, LetGo(t, b)
  PROVE  SleepInv'
<1>1. /\ buffer_wait' = NULL /\ tmp' = tmp
      /\ at' = [v \in Task |-> IF v = t THEN "user"
                               ELSE IF v = buffer_wait /\ at[v] = "none free" THEN "woken" ELSE at[v]]
  BY DEF LetGo, Rouse
<1>2. ASSUME NEW S, Asleep(S, at') PROVE \E u : Holds(u, S, at', tmp')
  <2>1. Asleep(S, at) /\ buffer_wait \notin S
    BY <1>1, <1>2 DEF Asleep
  <2>2. PICK u : Holds(u, S, at, tmp)
    BY <2>1, ReachedIs DEF SleepInv
  <2>3. Holds(u, S, at', tmp')
    BY <1>1, <2>2 DEF Holds
  <2> QED BY <2>3
<1>3. SleepersAreReached'
  BY <1>2, ReachedIsNext
<1> QED BY <1>1, <1>3 DEF SleepInv

(* A task that runs again takes the one that it displaced out of the queue.*)
LEMMA SleepWakeNext ==
  ASSUME TypeInv, SleepInv, NEW t \in Task, WakeNext(t)
  PROVE  SleepInv'
<1>1. /\ buffer_wait' = buffer_wait /\ tmp' = [tmp EXCEPT ![t] = NULL] /\ b_count' = b_count
      /\ at[t] = "woken"
      /\ at' = [v \in Task |-> IF v = t THEN "repeat"
                               ELSE IF v = tmp[t] /\ at[v] = "none free" THEN "woken" ELSE at[v]]
  BY DEF WakeNext, Rouse, headVars
<1>2. tmp' \in [Task -> Task \cup {NULL}] /\ \A u \in Task \ {t} : tmp'[u] = tmp[u]
  BY <1>1 DEF SleepInv
<1>3. AllInUse' <=> AllInUse
  BY <1>1 DEF AllInUse
<1>4. ASSUME NEW S, Asleep(S, at')
      PROVE  (AllInUse' /\ buffer_wait' \in S) \/ \E u : Holds(u, S, at', tmp')
  <2>1. Asleep(S, at) /\ tmp[t] \notin S
    BY <1>1, <1>4 DEF Asleep
  <2>2. CASE AllInUse /\ buffer_wait \in S
    BY <1>1, <1>3, <2>2
  <2>3. CASE \E u : Holds(u, S, at, tmp)
    <3>1. PICK u : Holds(u, S, at, tmp)
      BY <2>3
    <3>2. u # t
      BY <2>1, <3>1 DEF Holds
    <3>3. Holds(u, S, at', tmp')
      BY <1>1, <1>2, <3>1, <3>2 DEF Holds
    <3> QED BY <3>3
  <2> QED BY <2>1, <2>2, <2>3, ReachedIs DEF SleepInv
<1>5. SleepersAreReached'
  BY <1>4, ReachedIsNext
<1> QED BY <1>1, <1>2, <1>3, <1>5 DEF SleepInv

(* A task that goes to sleep holds the one that slept last, or has woken   *)
(* it.                                                                     *)
LEMMA SleepNoneFree ==
  ASSUME TypeInv, SleepInv, NEW t \in Task, at[t] \in {"user", "repeat"}, NEW k, NoneFree(t, k),
         AllInUse
  PROVE  SleepInv'
<1>1. /\ buffer_wait' = t /\ b_count' = b_count
      /\ \/ /\ tmp' = [tmp EXCEPT ![t] = buffer_wait]
            /\ at' = [v \in Task |-> IF v = t THEN "none free" ELSE at[v]]
         \/ /\ tmp' = [tmp EXCEPT ![t] = t]
            /\ at' = [v \in Task |-> IF v = t THEN "none free"
                           ELSE IF v = buffer_wait /\ at[v] = "none free" THEN "woken" ELSE at[v]]
  <2>1. at = [v \in Task |-> at[v]]
    BY DEF TypeInv
  <2> QED BY <2>1 DEF NoneFree, Run, Rouse, headVars
<1>2. /\ tmp' \in [Task -> Task \cup {NULL}] /\ \A u \in Task \ {t} : tmp'[u] = tmp[u]
      /\ tmp'[t] = buffer_wait \/ \A S : t \notin S /\ Asleep(S, at') => buffer_wait \notin S
  BY <1>1 DEF SleepInv, Asleep
<1>3. AllInUse'
  BY <1>1 DEF AllInUse
<1>4. /\ at'[t] = "none free"
      /\ \A u \in Task \ {t} : /\ at'[u] = "none free" => at[u] = "none free"
                               /\ at[u] \in {"none free", "woken"} => at'[u] \in {"none free", "woken"}
  BY <1>1
<1>5. ASSUME NEW S, Asleep(S, at'), t \notin S PROVE \E u : Holds(u, S, at', tmp')
  <2>1. Asleep(S, at)
    BY <1>4, <1>5 DEF Asleep
  <2>2. CASE buffer_wait \in S
    <3>1. Holds(t, S, at', tmp')
      BY <1>2, <1>4, <1>5, <2>2 DEF Holds
    <3> QED BY <3>1
  <2>3. CASE \E u : Holds(u, S, at, tmp)
    <3>1. PICK u : Holds(u, S, at, tmp)
      BY <2>3
    <3>2. u # t
      BY <3>1 DEF Holds
    <3>3. Holds(u, S, at', tmp')
      BY <1>2, <1>4, <3>1, <3>2 DEF Holds
    <3> QED BY <3>3
  <2> QED BY <2>1, <2>2, <2>3, ReachedIs DEF SleepInv
<1>6. SleepersAreReached'
  BY <1>1, <1>3, <1>5, ReachedIsNext
<1> QED BY <1>1, <1>2, <1>3, <1>6 DEF SleepInv

-----------------------------------------------------------------------------
(* What each step leaves of the lists.                                     *)
LEMMA InHashLists ==
  ASSUME CacheInv, LimitInv, ListsInv, NEW t \in Task, NEW k, Asks(t, k), InHash(t, k),
         block' \in [Task -> Block]
  PROVE  ListsInv'
<1>1. PICK b \in Buffer :
        /\ b_count' = [b_count EXCEPT ![b] = UInt8(@ + 1)]
        /\ Run(t, IF b_lock[b] THEN "hash" ELSE "got")
        /\ UNCHANGED <<b_block, b_lock, b_uptodate, b_data, sector, queues, held, waitVars>>
  BY DEF InHash, Found
<1>2. \A u \in Task : /\ at'[u] = "none free" => at[u] = "none free"
                      /\ at[u] \in {"none free", "woken"} => at'[u] \in {"none free", "woken"}
  BY <1>1 DEF Run, CacheInv, TypeInv, Asks
<1>3. \A c \in Buffer : b_count[c] > 0 => b_count'[c] > 0
  <2>1. b_count' = [b_count EXCEPT ![b] = @ + 1]
    BY <1>1, CountsUp DEF CacheInv, Asks, Busy
  <2> QED BY <2>1 DEF CacheInv, TypeInv
<1>4. SleepInv'
  BY <1>1, <1>2, <1>3, SleepKept DEF ListsInv
<1> QED BY <1>1, <1>4, ListsKept

LEMMA TakeFreeLists ==
  ASSUME TypeInv, ListsInv, NEW t \in Task, NEW k \in Block, Asks(t, k), TakeFree(t, k),
         block' \in [Task -> Block]
  PROVE  ListsInv'
<1>1. PICK b \in Buffer :
        /\ b_count[b] = 0
        /\ b_count' = [b_count EXCEPT ![b] = 1]
        /\ b_block' = [b_block EXCEPT ![b] = k]
        /\ queues' = Inserted(Removed(queues, b), b, k)
  BY DEF TakeFree, FirstFree
<1>2. at' = [at EXCEPT ![t] = "got"] /\ Found(k) = {} /\ waitVars' = waitVars
  BY DEF TakeFree, Run
<1>3. QueuesInv'
  BY <1>1, Refiled DEF ListsInv, TypeInv
<1>4. OneBufferPerBlock'
  <2>1. \A c \in Buffer : b_block[c] # k
    BY <1>2, FoundOnChain DEF ListsInv, TypeInv
  <2>2. b_block'[b] = k /\ \A c \in Buffer \ {b} : b_block'[c] = b_block[c]
    BY <1>1 DEF TypeInv
  <2>3. ASSUME NEW c \in Buffer, NEW d \in Buffer, b_block'[c] # NoBlock, b_block'[c] = b_block'[d]
        PROVE  c = d
    BY <2>1, <2>2, <2>3 DEF ListsInv, OneBufferPerBlock
  <2> QED BY <2>3 DEF OneBufferPerBlock
<1>5. \A u \in Task : /\ at'[u] = "none free" => at[u] = "none free"
                      /\ at[u] \in {"none free", "woken"} => at'[u] \in {"none free", "woken"}
  BY <1>2 DEF TypeInv, Asks
<1>6. \A c \in Buffer : b_count[c] > 0 => b_count'[c] > 0
  BY <1>1 DEF TypeInv
<1>7. SleepInv'
  BY <1>2, <1>5, <1>6, SleepKept DEF ListsInv
<1> QED BY <1>3, <1>4, <1>7 DEF ListsInv, BlockInv

LEMMA NoneFreeLists ==
  ASSUME TypeInv, ListsInv, NEW t \in Task, NEW k, Asks(t, k), NoneFree(t, k),
         block' \in [Task -> Block]
  PROVE  ListsInv'
<1>1. UNCHANGED headVars /\ FirstFree = {}
  BY DEF NoneFree
<1>2. AllInUse
  BY <1>1, NoneFreeOnRing DEF ListsInv, TypeInv, AllInUse
<1>3. SleepInv'
  BY <1>2, SleepNoneFree DEF ListsInv, Asks
<1> QED BY <1>1, <1>3, ListsKept DEF headVars

LEMMA GetblkLists ==
  ASSUME CacheInv, LimitInv, ListsInv, NEW t \in Task, Getblk(t) \/ Repeat(t)
  PROVE  ListsInv'
<1>1. block \in [Task -> Block] /\ TypeInv
  BY DEF ListsInv, BlockInv, CacheInv
<1>2. CASE Getblk(t)
  <2>1. PICK k \in Block :
          /\ at[t] = "user" /\ block' = [block EXCEPT ![t] = k]
          /\ InHash(t, k) \/ TakeFree(t, k) \/ NoneFree(t, k)
    BY <1>2 DEF Getblk
  <2>2. Asks(t, k) /\ block' \in [Task -> Block]
    BY <1>1, <2>1, CacheAssumption DEF Asks, CacheAssumption
  <2> QED BY <1>1, <2>1, <2>2, InHashLists, TakeFreeLists, NoneFreeLists
<1>3. CASE Repeat(t)
  <2>1. /\ Asks(t, block[t]) /\ block[t] \in Block /\ block' \in [Task -> Block]
        /\ InHash(t, block[t]) \/ TakeFree(t, block[t]) \/ NoneFree(t, block[t])
    BY <1>1, <1>3, RepeatAsks DEF Repeat
  <2> QED BY <1>1, <2>1, InHashLists, TakeFreeLists, NoneFreeLists
<1> QED BY <1>2, <1>3

LEMMA WakeNextLists ==
  ASSUME TypeInv, ListsInv, NEW t \in Task, WakeNext(t)
  PROVE  ListsInv'
<1>1. UNCHANGED headVars /\ block' = block
  BY DEF WakeNext
<1> QED BY <1>1, SleepWakeNext, ListsKept DEF ListsInv, BlockInv, headVars

(* The buffer has not changed its block, so that none is let go.           *)
LEMMA HashWaitedLists ==
  ASSUME TypeInv, UseInv, ListsInv, NEW t \in Task, HashWaited(t)
  PROVE  ListsInv'
<1>1. /\ at[t] = "hash" /\ waitVars' = waitVars
      /\ UNCHANGED <<b_block, b_lock, b_uptodate, b_data, sector, queues, block, bh, held>>
  BY DEF HashWaited
<1>2. b_block[bh[t]] = block[t]
  BY <1>1 DEF UseInv
<1>3. at' = [at EXCEPT ![t] = "got"] /\ b_count' = b_count
  BY <1>2 DEF HashWaited, Run
<1>4. \A u \in Task : /\ at'[u] = "none free" => at[u] = "none free"
                      /\ at[u] \in {"none free", "woken"} => at'[u] \in {"none free", "woken"}
  BY <1>1, <1>3 DEF TypeInv
<1>5. SleepInv'
  BY <1>1, <1>3, <1>4, SleepKept DEF ListsInv
<1> QED BY <1>1, <1>5, ListsKept DEF ListsInv, BlockInv

LEMMA BreadLists ==
  ASSUME TypeInv, ListsInv, NEW t \in Task, Valid(t) \/ LockBuffer(t)
  PROVE  ListsInv'
<1>1. /\ UNCHANGED <<b_block, b_count, queues, block, waitVars>>
      /\ at[t] \in {"got", "lock", "io"}
      /\ \E place \in {"user", "lock", "io"} : at' = [at EXCEPT ![t] = place]
  BY DEF Valid, Return, LockBuffer, Run, headVars
<1>2. \A u \in Task : /\ at'[u] = "none free" => at[u] = "none free"
                      /\ at[u] \in {"none free", "woken"} => at'[u] \in {"none free", "woken"}
  BY <1>1 DEF TypeInv
<1>3. SleepInv'
  BY <1>1, <1>2, SleepKept DEF ListsInv
<1> QED BY <1>1, <1>3, ListsKept DEF ListsInv, BlockInv

LEMMA BrelseLists ==
  ASSUME TypeInv, ListsInv, NEW t \in Task, Brelse(t) \/ BrelseWaited(t) \/ ReadFailed(t)
  PROVE  ListsInv'
<1>1. /\ UNCHANGED <<b_block, queues, block>> /\ at[t] \in {"user", "brelse", "io"}
      /\ \/ \E b : LetGo(t, b)
         \/ /\ at' = [at EXCEPT ![t] = "brelse"] /\ b_count' = b_count /\ waitVars' = waitVars
  BY DEF Brelse, BrelseWaited, ReadFailed, Run
<1>2. SleepInv'
  <2>1. CASE \E b : LetGo(t, b)
    BY <1>1, <2>1, SleepLetGo DEF ListsInv
  <2>2. CASE at' = [at EXCEPT ![t] = "brelse"] /\ b_count' = b_count /\ waitVars' = waitVars
    <3>1. \A u \in Task : /\ at'[u] = "none free" => at[u] = "none free"
                          /\ at[u] \in {"none free", "woken"} => at'[u] \in {"none free", "woken"}
      BY <1>1, <2>2 DEF TypeInv
    <3> QED BY <2>2, <3>1, SleepKept DEF ListsInv
  <2> QED BY <1>1, <2>1, <2>2
<1> QED BY <1>1, <1>2, ListsKept DEF ListsInv, BlockInv

LEMMA ListsSteps ==
  ASSUME CacheInv, LimitInv, ListsInv, [BNext]_cacheVars
  PROVE  ListsInv'
<1>0. TypeInv /\ UseInv
  BY DEF CacheInv
<1>1. ASSUME NEW t \in Task, Getblk(t) \/ Repeat(t) PROVE ListsInv'
  BY <1>1, GetblkLists
<1>2. ASSUME NEW t \in Task,
             \/ WakeNext(t) \/ HashWaited(t) \/ Brelse(t) \/ BrelseWaited(t) \/ ReadFailed(t)
             \/ Valid(t) \/ LockBuffer(t)
      PROVE  ListsInv'
  BY <1>0, <1>2, WakeNextLists, HashWaitedLists, BrelseLists, BreadLists
<1>3. CASE \/ UNCHANGED cacheVars
           \/ \E b \in Buffer, uptodate \in BOOLEAN : EndRequest(b, uptodate)
  <2>1. UNCHANGED <<b_block, b_count, queues, at, block, waitVars>>
    BY <1>3 DEF EndRequest, cacheVars, headVars, taskVars
  <2>2. SleepInv'
    BY <2>1, SleepKept DEF ListsInv
  <2> QED BY <2>1, <2>2, ListsKept DEF ListsInv, BlockInv
<1> QED BY <1>1, <1>2, <1>3 DEF BNext

(* buffer_init() links the buffers in the order of their numbers.          *)
LEMMA ListsStart ==
  ASSUME BInit
  PROVE  ListsInv
<1> DEFINE N == NUMBER_OF_BUFFERS
           next == [b \in Buffer |-> (b + 1) % N]
           prev == [b \in Buffer |-> (b - 1) % N]
           none == [b \in Buffer |-> NULL]
           rank == [b \in Buffer |-> b]
<1>0. /\ b_block = [b \in Buffer |-> NoBlock]
      /\ queues = [next_free |-> next, prev_free |-> prev, next_hash |-> none, prev_hash |-> none,
                   hash_table |-> [h \in Hash |-> NULL], free_list |-> 0, at_null |-> NULL]
      /\ \A t \in Task : at[t] = "user"
      /\ block = [t \in Task |-> CHOOSE k \in Block : TRUE]
  BY DEF BInit
<1>1. N \in Nat \ {0} /\ 0 \in Buffer /\ N - 1 \in Buffer
  BY CacheAssumption DEF Buffer
<1>2. Numbering(rank)
  BY DEF Numbering
<1>3. ASSUME NEW b \in Buffer
      PROVE  /\ next[b] = IF b = N - 1 THEN 0 ELSE b + 1
             /\ prev[b] = IF b = 0 THEN N - 1 ELSE b - 1
  <2>1. b \in Nat /\ b < N
    BY <1>1 DEF Buffer
  <2>2. (b + 1) % N = IF b = N - 1 THEN 0 ELSE b + 1
    BY <1>1, <2>1
  <2>3. (b - 1) % N = IF b = 0 THEN N - 1 ELSE b - 1
    BY <1>1, <2>1
  <2> QED BY <2>2, <2>3
<1>4. Ring(next, prev, 0, rank)
  <2> HIDE DEF N, next, prev
  <2>1. next \in [Buffer -> Buffer] /\ prev \in [Buffer -> Buffer]
    <3>1. \A b \in Buffer : /\ (IF b = N - 1 THEN 0 ELSE b + 1) \in Buffer
                            /\ (IF b = 0 THEN N - 1 ELSE b - 1) \in Buffer
      BY <1>1 DEF Buffer, N
    <3>2. next = [b \in Buffer |-> next[b]] /\ prev = [b \in Buffer |-> prev[b]]
      BY DEF next, prev
    <3> QED BY <1>3, <3>1, <3>2
  <2>2. \A b \in Buffer : next[prev[b]] = b /\ prev[next[b]] = b
    <3> TAKE b \in Buffer
    <3>1. prev[b] \in Buffer /\ next[b] \in Buffer
      BY <2>1
    <3>2. b \in Nat /\ b < N
      BY <1>1 DEF Buffer, N
    <3> QED BY <1>1, <1>3, <3>1, <3>2
  <2>3. \A b \in Buffer \ {0} : prev[b] \in Buffer /\ rank[prev[b]] = rank[b] - 1
    BY <1>3, <2>1
  <2>4. rank[0] = 0 /\ rank[prev[0]] = N - 1
    BY <1>1, <1>3
  <2> HIDE DEF rank
  <2> QED BY <1>1, <1>2, <2>1, <2>2, <2>3, <2>4 DEF Ring, N
<1>5. Filed = {} /\ Home \in [Buffer -> Hash] /\ NULL \in Link
  BY <1>0, HashType DEF Filed, Home, Link, NoBlock
<1>6. Chains(none, none, [h \in Hash |-> NULL], Home, {}, rank)
  <2> HIDE DEF rank
  <2> QED BY <1>2, <1>5 DEF Chains
<1>7. QueuesInv
  <2>1. queues \in Queues
    BY <1>0, <1>1, <1>4, <1>5, ZenonT(40) DEF Queues, Ring
  <2> HIDE DEF next, prev, none, rank
  <2>2. RingInv
    BY <1>0, <1>4 DEF RingInv
  <2>3. ChainInv
    BY <1>0, <1>5, <1>6 DEF ChainInv
  <2>4. UnfiledInv
    BY <1>0 DEF UnfiledInv, none
  <2> QED BY <2>1, <2>2, <2>3, <2>4 DEF QueuesInv
<1>8. BlockInv
  <2>1. (CHOOSE k \in Block : TRUE) \in Block
    BY CacheAssumption
  <2> QED BY <1>0, <2>1 DEF BlockInv
<1>9. OneBufferPerBlock /\ SleepInv
  <2>1. buffer_wait = NULL /\ tmp = [t \in Task |-> NULL]
    BY DEF BInit
  <2> QED BY <1>0, <2>1 DEF OneBufferPerBlock, SleepInv, SleepersAreReached
<1> QED BY <1>7, <1>8, <1>9 DEF ListsInv

-----------------------------------------------------------------------------
(* The lists and what hangs on them, in every state of the buffer cache.   *)
THEOREM ListsInvariant == BSpec => []ListsInv
<1>1. BInit => ListsInv
  BY ListsStart
<1>2. CacheInv /\ LimitInv /\ ListsInv /\ [BNext]_cacheVars => ListsInv'
  BY ListsSteps
<1> QED BY <1>1, <1>2, CacheInvariant, PTL DEF BSpec

(* The free list stays one ring of all buffers and every chain holds the   *)
(* buffers whose block hashes to it, through any number of getblk()s.      *)
THEOREM ListsAreSound == BSpec => []QueuesAreSound
<1>1. TypeInv /\ ListsInv => QueuesAreSound
  <2> SUFFICES ASSUME TypeInv, ListsInv PROVE QueuesAreSound
    OBVIOUS
  <2> DEFINE nf == queues.next_free
             pf == queues.prev_free
             fl == queues.free_list
             nh == queues.next_hash
             ph == queues.prev_hash
             ht == queues.hash_table
  <2>1. PICK rank : Ring(nf, pf, fl, rank)
    BY DEF ListsInv, QueuesInv, RingInv
  <2>2. PICK order : Chains(nh, ph, ht, Home, Filed, order)
    BY DEF ListsInv, QueuesInv, ChainInv
  <2> HIDE DEF nf, pf, fl, nh, ph, ht
  <2>3. Reached(nf, fl) = Buffer
    BY <2>1, RingReached
  <2>4. \A b \in Buffer : pf[nf[b]] = b
    BY <2>1 DEF Ring
  <2>5. ASSUME NEW h \in Hash
        PROVE  Reached(nh, ht[h]) = {b \in Buffer : b_block[b] # NoBlock /\ hash(b_block[b]) = h}
    <3>1. Reached(nh, ht[h]) = {b \in Filed : Home[b] = h}
      BY <2>2, ChainReached
    <3> QED BY <3>1 DEF Filed, Home
  <2>6. ASSUME NEW b \in Buffer, NEW c \in Buffer, b_block[b] # NoBlock, nh[b] = c PROVE ph[c] = b
    <3>1. b \in Filed /\ nh[b] # NULL
      BY <2>6, BufferIsInterval DEF Filed
    <3> QED BY <2>2, <2>6, <3>1 DEF Chains
  <2> QED BY <2>3, <2>4, <2>5, <2>6 DEF QueuesAreSound, nf, pf, fl, nh, ph, ht
<1> QED BY <1>1, ListsInvariant, CacheInvariant, PTL DEF CacheInv

(* Every block has one copy, whoever slept while looking for it, and that  *)
(* copy has the data of the block when b_uptodate says so.                 *)
THEOREM CopiesCorrect == BSpec => []CopiesAreRight
<1>1. ListsInv /\ CacheInv => CopiesAreRight
  BY DEF ListsInv, CacheInv, CopiesAreRight
<1> QED BY <1>1, ListsInvariant, CacheInvariant, PTL

(* Every sleeper is reached: brelse() wakes the task that slept last, and  *)
(* each wakes the one it displaced, so that none is asleep beside a free   *)
(* buffer but behind a task that is awake.                                 *)
THEOREM SleepersReached == BSpec => []SleepersAreReached
<1>1. ListsInv => SleepersAreReached
  BY DEF ListsInv, SleepInv
<1> QED BY <1>1, ListsInvariant, PTL

-----------------------------------------------------------------------------
(* The cache as the tasks see it.  Beyond the two invariants above: a      *)
(* buffer in use has a block, a buffer that is read is not up to date, and *)
(* one that somebody holds is, so that brelse() never waits for its lock.  *)
FiledInv ==
  \A b \in Buffer : /\ b_block[b] \in Block \cup {NoBlock}
                    /\ b_count[b] > 0 => b_block[b] \in Block
UnreadInv == \A b \in Buffer : b_lock[b] => ~b_uptodate[b]
HeldInv == \A t \in Task, b \in Buffer : held[t][b] > 0 => b_uptodate[b]
UsersInv == FiledInv /\ UnreadInv /\ HeldInv /\ \A t \in Task : at[t] # "brelse"

LEMMA FreeIsUnheld ==
  ASSUME TypeInv, CountInv, NEW b \in Buffer, b_count[b] = 0
  PROVE  \A t \in Task : held[t][b] = 0
<1>1. Using(b) = {}
  BY FS_EmptySet DEF CountInv
<1>2. held \in [Task -> [Buffer -> Nat]]
  BY DEF TypeInv
<1>3. ASSUME NEW t \in Task, held[t][b] # 0 PROVE FALSE
  <2>1. held[t][b] \in Nat /\ 1 <= held[t][b] /\ held[t][b] <= held[t][b]
    BY <1>2, <1>3
  <2>2. <<t, held[t][b]>> \in Refs(at, bh, held, b)
    BY <1>2, <2>1, RefsMembers
  <2> QED BY <1>1, <2>2, UsingIsRefs
<1> QED BY <1>3

LEMMA UsedBySomebody ==
  ASSUME TypeInv, CountInv, NEW b \in Buffer, b_count[b] > 0
  PROVE  \E t \in Task : About(at, bh, t, b) \/ held[t][b] > 0
<1>1. Using(b) # {}
  BY FS_EmptySet DEF CountInv
<1>2. held \in [Task -> [Buffer -> Nat]]
  BY DEF TypeInv
<1>3. PICK r : r \in Refs(at, bh, held, b)
  BY <1>1, UsingIsRefs
<1>4. CASE \E t \in Task : About(at, bh, t, b)
  BY <1>4
<1>5. CASE \E t \in Task, i \in Nat : 1 <= i /\ i <= held[t][b]
  <2>1. PICK t \in Task : \E i \in Nat : 1 <= i /\ i <= held[t][b]
    BY <1>5
  <2>2. held[t][b] \in Nat
    BY <1>2
  <2> QED BY <2>1, <2>2
<1> QED BY <1>2, <1>3, <1>4, <1>5, RefsMembers

LEMMA UsersWait ==
  ASSUME UsersInv, UNCHANGED <<headVars, bh, held>>, NEW t \in Task, at'[t] # "brelse",
         \A v \in Task \ {t} : at'[v] = at[v] \/ (at[v] = "none free" /\ at'[v] = "woken")
  PROVE  UsersInv'
<1>1. \A u \in Task : at'[u] # "brelse"
  BY DEF UsersInv
<1> QED BY <1>1 DEF UsersInv, FiledInv, UnreadInv, HeldInv, headVars

LEMMA UsersGetblk ==
  ASSUME CacheInv, LimitInv, BlockInv, UsersInv, NEW t \in Task, Getblk(t) \/ Repeat(t)
  PROVE  UsersInv'
<1>1. PICK k \in Block : Asks(t, k) /\ (InHash(t, k) \/ TakeFree(t, k) \/ NoneFree(t, k))
  <2>1. block[t] \in Block
    BY DEF BlockInv
  <2> QED BY <2>1, GetblkAsks, RepeatAsks DEF CacheInv
<1>2. CASE InHash(t, k)
  <2>0. PICK b \in Buffer :
          /\ b_block[b] = k /\ b_count' = [b_count EXCEPT ![b] = UInt8(@ + 1)]
          /\ UNCHANGED <<b_block, b_lock, b_uptodate, held>>
          /\ \E place \in {"hash", "got"} : at' = [at EXCEPT ![t] = place]
    BY <1>2 DEF InHash, Found, Run
  <2>1. /\ b_block[b] = k /\ b_count' = [b_count EXCEPT ![b] = @ + 1]
        /\ UNCHANGED <<b_block, b_lock, b_uptodate, held>>
        /\ \E place \in {"hash", "got"} : at' = [at EXCEPT ![t] = place]
    BY <1>1, <2>0, CountsUp DEF CacheInv, Asks, Busy
  <2>2. \A u \in Task : at'[u] # "brelse"
    BY <2>1 DEF CacheInv, TypeInv, UsersInv
  <2>3. FiledInv'
    BY <2>1 DEF CacheInv, TypeInv, UsersInv, FiledInv
  <2> QED BY <2>1, <2>2, <2>3 DEF UsersInv, UnreadInv, HeldInv
<1>3. CASE TakeFree(t, k)
  <2>1. PICK b \in Buffer :
          /\ b_count[b] = 0 /\ b_count' = [b_count EXCEPT ![b] = 1]
          /\ b_uptodate' = [b_uptodate EXCEPT ![b] = FALSE]
          /\ b_block' = [b_block EXCEPT ![b] = k]
    BY <1>3 DEF TakeFree, FirstFree
  <2>2. at' = [at EXCEPT ![t] = "got"] /\ UNCHANGED <<b_lock, held>>
    BY <1>3 DEF TakeFree, Run
  <2>3. \A u \in Task : held[u][b] = 0
    BY <2>1, FreeIsUnheld DEF CacheInv
  <2>4. \A u \in Task : at'[u] # "brelse"
    BY <2>2 DEF CacheInv, TypeInv, UsersInv
  <2>5. /\ b_block'[b] = k /\ ~b_uptodate'[b]
        /\ \A c \in Buffer \ {b} : /\ b_block'[c] = b_block[c] /\ b_count'[c] = b_count[c]
                                   /\ b_uptodate'[c] = b_uptodate[c]
    BY <2>1 DEF CacheInv, TypeInv
  <2>6. FiledInv'
    BY <2>5 DEF UsersInv, FiledInv
  <2>7. UnreadInv' /\ HeldInv'
    BY <2>2, <2>3, <2>5 DEF UsersInv, UnreadInv, HeldInv
  <2> QED BY <2>4, <2>6, <2>7 DEF UsersInv
<1>4. CASE NoneFree(t, k)
  BY <1>4, NoneFreeMoves, UsersWait DEF CacheInv, TypeInv
<1> QED BY <1>1, <1>2, <1>3, <1>4

(* Where bread() goes after getblk(), and get_hash_table() after its wait. *)
LEMMA UsersBread ==
  ASSUME CacheInv, UsersInv, NEW t \in Task, HashWaited(t) \/ LockBuffer(t) \/ Valid(t)
  PROVE  UsersInv'
<1>1. bh[t] \in Buffer
  BY DEF CacheInv, TypeInv
<1>2. CASE HashWaited(t)
  <2>1. b_block[bh[t]] = block[t]
    BY <1>2 DEF HashWaited, CacheInv, UseInv
  <2>2. at' = [at EXCEPT ![t] = "got"] /\ UNCHANGED <<b_block, b_count, b_lock, b_uptodate, held>>
    BY <1>2, <2>1 DEF HashWaited, Run
  <2>3. \A u \in Task : at'[u] # "brelse"
    BY <2>2 DEF CacheInv, TypeInv, UsersInv
  <2> QED BY <2>2, <2>3 DEF UsersInv, FiledInv, UnreadInv, HeldInv
<1>3. CASE LockBuffer(t)
  <2>1. /\ ~b_uptodate[bh[t]] /\ UNCHANGED <<b_block, b_count, b_uptodate, held>>
        /\ b_lock' = b_lock \/ b_lock' = [b_lock EXCEPT ![bh[t]] = TRUE]
        /\ \E place \in {"lock", "io"} : at' = [at EXCEPT ![t] = place]
    BY <1>3 DEF LockBuffer, Run
  <2>2. \A u \in Task : at'[u] # "brelse"
    BY <2>1 DEF CacheInv, TypeInv, UsersInv
  <2>3. UnreadInv'
    BY <2>1 DEF CacheInv, TypeInv, UsersInv, UnreadInv
  <2> QED BY <2>1, <2>2, <2>3 DEF UsersInv, FiledInv, HeldInv
<1>4. CASE Valid(t)
  <2>1. /\ b_uptodate[bh[t]] /\ UNCHANGED <<b_block, b_count, b_lock, b_uptodate>>
        /\ at' = [at EXCEPT ![t] = "user"] /\ held' = [held EXCEPT ![t][bh[t]] = @ + 1]
    BY <1>4 DEF Valid, Return, Run, headVars
  <2>2. \A u \in Task : at'[u] # "brelse"
    BY <2>1 DEF CacheInv, TypeInv, UsersInv
  <2>3. HeldInv'
    BY <1>1, <2>1 DEF CacheInv, TypeInv, UsersInv, HeldInv
  <2> QED BY <2>1, <2>2, <2>3 DEF UsersInv, FiledInv, UnreadInv
<1> QED BY <1>2, <1>3, <1>4

(* A buffer that is held is not locked: brelse() does not wait.            *)
LEMMA UsersBrelse ==
  ASSUME CacheInv, LimitInv, UsersInv, NEW t \in Task,
         Brelse(t) \/ ReadFailed(t) \/ BrelseWaited(t)
  PROVE  UsersInv'
<1>1. PICK b \in Buffer : /\ LetGo(t, b) /\ UNCHANGED <<b_block, b_lock, b_uptodate>>
                          /\ About(at, bh, t, b) \/ held[t][b] > 0
                          /\ held' = held \/ (held[t][b] > 0 /\ held' = [held EXCEPT ![t][b] = @ - 1])
  <2>1. CASE Brelse(t)
    <3>1. PICK b \in Buffer :
            /\ held[t][b] > 0 /\ held' = [held EXCEPT ![t][b] = @ - 1]
            /\ IF b_lock[b] THEN Run(t, "brelse") /\ UNCHANGED <<b_count, waitVars>> ELSE LetGo(t, b)
      BY <2>1 DEF Brelse
    <3>2. ~b_lock[b]
      BY <3>1 DEF UsersInv, UnreadInv, HeldInv
    <3> QED BY <2>1, <3>1, <3>2 DEF Brelse
  <2>2. CASE ReadFailed(t) \/ BrelseWaited(t)
    BY <2>2 DEF ReadFailed, BrelseWaited, CacheInv, TypeInv, About, Busy
  <2> QED BY <2>1, <2>2
<1>2. \A u \in Task : at'[u] # "brelse"
  <2>1. at'[t] = "user"
        /\ \A u \in Task \ {t} : at'[u] = at[u] \/ (at[u] = "none free" /\ at'[u] = "woken")
    BY <1>1, Roused DEF LetGo, CacheInv, TypeInv, Place
  <2> QED BY <2>1 DEF UsersInv
<1>3. b_count[b] > 0
  BY <1>1, FreeIsUnused, FreeIsUnheld DEF CacheInv, TypeInv
<1>4. FiledInv'
  <2>1. b_count' = [b_count EXCEPT ![b] = @ - 1]
    BY <1>1, <1>3, CountsDown DEF LetGo, CacheInv
  <2> QED BY <1>1, <2>1 DEF CacheInv, TypeInv, UsersInv, FiledInv
<1>5. HeldInv'
  <2>1. \A u \in Task, c \in Buffer : held'[u][c] > 0 => held[u][c] > 0
    BY <1>1 DEF CacheInv, TypeInv
  <2> QED BY <1>1, <2>1 DEF UsersInv, HeldInv
<1> QED BY <1>1, <1>2, <1>4, <1>5 DEF UsersInv, UnreadInv

LEMMA UsersDisk ==
  ASSUME CacheInv, UsersInv, NEW b \in Buffer, NEW uptodate \in BOOLEAN, EndRequest(b, uptodate)
  PROVE  UsersInv'
<1>1. /\ b_lock[b] /\ UNCHANGED <<b_block, b_count, at, held>>
      /\ b_lock' = [b_lock EXCEPT ![b] = FALSE]
      /\ b_uptodate' = [b_uptodate EXCEPT ![b] = uptodate]
  BY DEF EndRequest, taskVars
<1>2. ~b_uptodate[b] /\ ~b_lock'[b] /\ \A c \in Buffer \ {b} : b_lock'[c] = b_lock[c] /\ b_uptodate'[c] = b_uptodate[c]
  BY <1>1 DEF CacheInv, TypeInv, UsersInv, UnreadInv
<1>3. UnreadInv' /\ HeldInv'
  BY <1>1, <1>2 DEF UsersInv, UnreadInv, HeldInv
<1> QED BY <1>1, <1>3 DEF UsersInv, FiledInv

LEMMA UsersSteps ==
  ASSUME CacheInv, LimitInv, BlockInv, UsersInv, [BNext]_cacheVars
  PROVE  UsersInv'
<1>1. CASE UNCHANGED cacheVars
  BY <1>1 DEF cacheVars, headVars, taskVars, UsersInv, FiledInv, UnreadInv, HeldInv
<1>2. ASSUME NEW t \in Task,
             \/ Getblk(t) \/ Repeat(t) \/ HashWaited(t) \/ Brelse(t) \/ BrelseWaited(t)
             \/ ReadFailed(t) \/ Valid(t) \/ LockBuffer(t)
      PROVE  UsersInv'
  BY <1>2, UsersGetblk, UsersBread, UsersBrelse
<1>3. ASSUME NEW t \in Task, WakeNext(t) PROVE UsersInv'
  BY <1>3, WakeNextMoves, UsersWait DEF CacheInv, TypeInv
<1> QED BY <1>1, <1>2, <1>3, UsersDisk DEF BNext

LEMMA UsersStart == BInit => UsersInv
BY DEF BInit, UsersInv, FiledInv, UnreadInv, HeldInv

AllInv == CacheInv /\ ListsInv /\ UsersInv

-----------------------------------------------------------------------------
(* What is seen of a block with a buffer, and of one without.              *)
LEMMA CopyIs ==
  ASSUME NEW f, \A b, c \in Buffer : f[b] # NoBlock /\ f[b] = f[c] => b = c,
         NEW b \in Buffer, f[b] \in Block
  PROVE  (CHOOSE c \in Buffer : f[c] = f[b]) = b
<1>1. f[b] # NoBlock
  BY CacheAssumption DEF CacheAssumption, NoBlock
<1> DEFINE c == CHOOSE c \in Buffer : f[c] = f[b]
<1>2. c \in Buffer /\ f[c] = f[b]
  OBVIOUS
<1> QED BY <1>1, <1>2

LEMMA Seen ==
  ASSUME OneBufferPerBlock, NEW b \in Buffer, NEW k \in Block, b_block[b] = k
  PROVE  /\ k \in Cached
         /\ k \in ValidBlocks <=> b_uptodate[b] /\ b_data[b] = k
         /\ k \in Reading <=> b_lock[b]
         /\ \A t \in Task : HeldBlocks[t][k] = held[t][b]
<1>1. Copy(k) = b
  BY CopyIs DEF Copy, OneBufferPerBlock
<1>2. \A c \in Buffer : b_block[c] = k <=> c = b
  BY CacheAssumption DEF CacheAssumption, NoBlock, OneBufferPerBlock
<1>3. k \in Cached
  BY DEF Cached
<1>4. /\ k \in ValidBlocks <=> b_uptodate[b] /\ b_data[b] = k
      /\ k \in Reading <=> b_lock[b]
  BY <1>2 DEF ValidBlocks, Reading
<1>5. \A t \in Task : HeldBlocks[t][k] = held[t][b]
  BY <1>1, <1>3, Zenon DEF HeldBlocks
<1> QED BY <1>3, <1>4, <1>5

LEMMA SeenNext ==
  ASSUME OneBufferPerBlock', NEW b \in Buffer, NEW k \in Block, b_block'[b] = k
  PROVE  /\ k \in Cached'
         /\ k \in ValidBlocks' <=> b_uptodate'[b] /\ b_data'[b] = k
         /\ k \in Reading' <=> b_lock'[b]
         /\ \A t \in Task : HeldBlocks'[t][k] = held'[t][b]
<1>1. Copy(k)' = b
  BY CopyIs DEF Copy, OneBufferPerBlock
<1>2. \A c \in Buffer : b_block'[c] = k <=> c = b
  BY CacheAssumption DEF CacheAssumption, NoBlock, OneBufferPerBlock
<1>3. k \in Cached'
  BY DEF Cached
<1>4. /\ k \in ValidBlocks' <=> b_uptodate'[b] /\ b_data'[b] = k
      /\ k \in Reading' <=> b_lock'[b]
  BY <1>2 DEF ValidBlocks, Reading
<1>5. \A t \in Task : HeldBlocks'[t][k] = held'[t][b]
  BY <1>1, <1>3, Zenon DEF HeldBlocks
<1> QED BY <1>3, <1>4, <1>5

LEMMA Unseen ==
  ASSUME NEW k \in Block, \A b \in Buffer : b_block[b] # k
  PROVE  k \notin Cached \cup ValidBlocks \cup Reading /\ \A t \in Task : HeldBlocks[t][k] = 0
<1>1. k \notin Cached \cup ValidBlocks \cup Reading
  BY DEF Cached, ValidBlocks, Reading
<1>2. \A t \in Task : HeldBlocks[t][k] = 0
  BY <1>1, Zenon DEF HeldBlocks
<1> QED BY <1>1, <1>2

LEMMA UnseenNext ==
  ASSUME NEW k \in Block, \A b \in Buffer : b_block'[b] # k
  PROVE  k \notin Cached' \cup ValidBlocks' \cup Reading' /\ \A t \in Task : HeldBlocks'[t][k] = 0
<1>1. k \notin Cached' \cup ValidBlocks' \cup Reading'
  BY DEF Cached, ValidBlocks, Reading
<1>2. \A t \in Task : HeldBlocks'[t][k] = 0
  BY <1>1, Zenon DEF HeldBlocks
<1> QED BY <1>1, <1>2

LEMMA SeenSets ==
  /\ Cached \subseteq Block /\ ValidBlocks \subseteq Cached /\ Reading \subseteq Cached
  /\ Cached' \subseteq Block /\ ValidBlocks' \subseteq Cached' /\ Reading' \subseteq Cached'
BY DEF Cached, ValidBlocks, Reading

(* What is seen does not depend on the lists and counts.                   *)
LEMMA SeenKept ==
  ASSUME UNCHANGED <<b_block, b_lock, b_uptodate, b_data>>
  PROVE  Cached' = Cached /\ ValidBlocks' = ValidBlocks /\ Reading' = Reading
BY DEF Cached, ValidBlocks, Reading

LEMMA HeldKept ==
  ASSUME UNCHANGED <<b_block, held>>
  PROVE  HeldBlocks' = HeldBlocks
<1>1. Cached' = Cached /\ \A k : Copy(k)' = Copy(k)
  BY DEF Cached, Copy
<1> QED BY <1>1, Zenon DEF HeldBlocks

LEMMA HeldSame ==
  ASSUME \A t \in Task, k \in Block : HeldBlocks'[t][k] = HeldBlocks[t][k]
  PROVE  HeldBlocks' = HeldBlocks
<1>1. HeldBlocks = [t \in Task |-> [k \in Block |-> HeldBlocks[t][k]]]
  BY Zenon DEF HeldBlocks
<1>2. HeldBlocks' = [t \in Task |-> [k \in Block |-> HeldBlocks'[t][k]]]
  BY Zenon DEF HeldBlocks
<1>3. ASSUME NEW t \in Task
      PROVE  [k \in Block |-> HeldBlocks'[t][k]] = [k \in Block |-> HeldBlocks[t][k]]
  BY Zenon
<1>4. [t \in Task |-> [k \in Block |-> HeldBlocks'[t][k]]] = [t \in Task |-> [k \in Block |-> HeldBlocks[t][k]]]
  BY <1>3, Zenon
<1> QED BY <1>1, <1>2, <1>4, Zenon

LEMMA HeldMoves ==
  ASSUME NEW t \in Task, NEW k \in Block, NEW v,
         HeldBlocks'[t][k] = v,
         \A u \in Task, j \in Block : (u # t \/ j # k) => HeldBlocks'[u][j] = HeldBlocks[u][j]
  PROVE  HeldBlocks' = [HeldBlocks EXCEPT ![t][k] = v]
<1>1. HeldBlocks = [u \in Task |-> [j \in Block |-> HeldBlocks[u][j]]]
  BY Zenon DEF HeldBlocks
<1>2. HeldBlocks' = [u \in Task |-> [j \in Block |-> HeldBlocks'[u][j]]]
  BY Zenon DEF HeldBlocks
<1> DEFINE h == HeldBlocks
           row(u) == IF u = t THEN [h[t] EXCEPT ![k] = v] ELSE h[u]
<1>3. ASSUME NEW u \in Task PROVE [j \in Block |-> HeldBlocks'[u][j]] = row(u)
  <2>1. h[u] = [j \in Block |-> h[u][j]]
    BY <1>1, Zenon
  <2>2. CASE u # t
    <3>1. \A j \in Block : HeldBlocks'[u][j] = h[u][j]
      BY <2>2
    <3>2. [j \in Block |-> HeldBlocks'[u][j]] = [j \in Block |-> h[u][j]]
      BY <3>1, Zenon
    <3> QED BY <2>1, <2>2, <3>2
  <2>3. CASE u = t
    <3>1. \A j \in Block : HeldBlocks'[t][j] = IF j = k THEN v ELSE h[t][j]
      BY <2>3
    <3>2. [j \in Block |-> HeldBlocks'[t][j]] = [j \in Block |-> IF j = k THEN v ELSE h[t][j]]
      BY <3>1, Zenon
    <3>3. DOMAIN h[t] = Block
      BY <2>1, <2>3
    <3>4. [h[t] EXCEPT ![k] = v] = [j \in Block |-> IF j = k THEN v ELSE h[t][j]]
      BY <3>3, Zenon
    <3> QED BY <2>3, <3>2, <3>4
  <2> QED BY <2>2, <2>3
<1>4. HeldBlocks' = [u \in Task |-> row(u)]
  BY <1>2, <1>3, Zenon
<1>5. DOMAIN h = Task
  BY <1>1
<1>6. [h EXCEPT ![t] = [h[t] EXCEPT ![k] = v]] = [u \in Task |-> row(u)]
  BY <1>5, Zenon
<1> QED BY <1>4, <1>6, Zenon

LEMMA HeldElsewhere ==
  ASSUME OneBufferPerBlock, OneBufferPerBlock', b_block' = b_block,
         NEW t \in Task, NEW b \in Buffer, NEW k \in Block, b_block[b] = k,
         \A u \in Task, c \in Buffer : (u # t \/ c # b) => held'[u][c] = held[u][c]
  PROVE  \A u \in Task, j \in Block : (u # t \/ j # k) => HeldBlocks'[u][j] = HeldBlocks[u][j]
<1> TAKE u \in Task, j \in Block
<1>1. CASE \E c \in Buffer : b_block[c] = j
  <2>1. PICK c \in Buffer : b_block[c] = j
    BY <1>1
  <2>2. b_block'[c] = j /\ (j # k => c # b)
    BY <2>1
  <2>3. HeldBlocks[u][j] = held[u][c] /\ HeldBlocks'[u][j] = held'[u][c]
    BY <2>1, <2>2, Seen, SeenNext
  <2> QED BY <2>2, <2>3
<1>2. CASE \A c \in Buffer : b_block[c] # j
  <2>1. \A c \in Buffer : b_block'[c] # j
    BY <1>2
  <2> QED BY <1>2, <2>1, Unseen, UnseenNext
<1> QED BY <1>1, <1>2

(* What the tasks are doing.                                               *)
LEMMA DoingIs ==
  ASSUME NEW k
  PROVE  /\ Doing("user", k) = <<"idle", 0>>
         /\ \A place \in {"none free", "woken", "repeat"} : Doing(place, k) = <<"wait", k>>
         /\ \A place \in {"hash", "got", "lock"} : Doing(place, k) = <<"get", k>>
         /\ Doing("io", k) = <<"read", k>>
BY DEF Doing

LEMMA DoesUse ==
  ASSUME NEW place \in Place \ {"brelse"}, NEW j \in Nat, NEW k \in Nat
  PROVE  Doing(place, j) \in {<<"get", k>>, <<"read", k>>} <=>
           place \in {"hash", "got", "lock", "io"} /\ j = k
<1>1. CASE place \in {"user", "none free", "woken", "repeat"}
  BY <1>1 DEF Doing
<1>2. CASE place \in {"hash", "got", "lock"}
  BY <1>2 DEF Doing
<1>3. CASE place = "io"
  BY <1>3 DEF Doing
<1> QED BY <1>1, <1>2, <1>3 DEF Place

LEMMA CallsMove ==
  ASSUME NEW t \in Task, NEW x, Doing(at'[t], block'[t]) = x,
         \A u \in Task \ {t} : Doing(at'[u], block'[u]) = Doing(at[u], block[u])
  PROVE  Calls' = [Calls EXCEPT ![t] = x]
<1>1. Calls' = [u \in Task |-> IF u = t THEN x ELSE Doing(at[u], block[u])]
  BY Zenon DEF Calls
<1>2. [Calls EXCEPT ![t] = x] = [u \in Task |-> IF u = t THEN x ELSE Doing(at[u], block[u])]
  BY Zenon DEF Calls
<1> QED BY <1>1, <1>2, Zenon

LEMMA CallsKept ==
  ASSUME \A u \in Task : Doing(at'[u], block'[u]) = Doing(at[u], block[u])
  PROVE  Calls' = Calls
BY Zenon DEF Calls

LEMMA CallIs == \A t \in Task : Calls[t] = Doing(at[t], block[t])
BY Zenon DEF Calls

(* The call of a task that is between getblk() and the end of bread().     *)
LEMMA CallGets ==
  ASSUME NEW t \in Task, at[t] \in {"got", "lock", "io"}
  PROVE  Calls[t] \in {<<"get", block[t]>>, <<"read", block[t]>>}
<1>1. Calls[t] = Doing(at[t], block[t])
  BY CallIs
<1>2. CASE at[t] = "io"
  <2>1. Doing(at[t], block[t]) = <<"read", block[t]>>
    BY <1>2, DoingIs
  <2> QED BY <1>1, <2>1
<1>3. CASE at[t] \in {"got", "lock"}
  <2>1. Doing(at[t], block[t]) = <<"get", block[t]>>
    BY <1>3, DoingIs
  <2> QED BY <1>1, <2>1
<1> QED BY <1>2, <1>3

(* A block is in use when the count of its buffer says so.                 *)
LEMMA InUseIs ==
  ASSUME AllInv, NEW b \in Buffer, b_block[b] \in Block
  PROVE  Cache!InUse(b_block[b]) <=> b_count[b] > 0
<1> DEFINE k == b_block[b]
<1>1. k \in Block /\ k \in Nat /\ k # NoBlock /\ b_count[b] \in Nat
  BY CacheAssumption DEF CacheAssumption, NoBlock, AllInv, CacheInv, TypeInv
<1>2. \A t \in Task : HeldBlocks[t][k] = held[t][b] /\ held[t][b] \in Nat
  BY <1>1, Seen DEF AllInv, ListsInv, CacheInv, TypeInv
<1>3. ASSUME NEW t \in Task
      PROVE  Calls[t] \in {<<"get", k>>, <<"read", k>>} <=> About(at, bh, t, b)
  <2>1. at[t] \in Place \ {"brelse"} /\ block[t] \in Nat /\ bh[t] \in Buffer
    BY DEF AllInv, CacheInv, TypeInv, UsersInv
  <2>2. Calls[t] \in {<<"get", k>>, <<"read", k>>} <=> at[t] \in {"hash", "got", "lock", "io"} /\ block[t] = k
    BY <1>1, <2>1, CallIs, DoesUse
  <2>3. at[t] \in {"hash", "got", "lock", "io"} => b_block[bh[t]] = block[t]
    BY DEF AllInv, CacheInv, UseInv
  <2>4. b_block[bh[t]] = k <=> bh[t] = b
    BY <1>1, <2>1 DEF AllInv, ListsInv, OneBufferPerBlock
  <2> QED BY <2>1, <2>2, <2>3, <2>4 DEF About, Busy
<1>4. b_count[b] = 0 => \A t \in Task : ~About(at, bh, t, b) /\ held[t][b] = 0
  BY FreeIsUnused, FreeIsUnheld DEF AllInv, CacheInv
<1>5. b_count[b] > 0 => \E t \in Task : About(at, bh, t, b) \/ held[t][b] > 0
  BY UsedBySomebody DEF AllInv, CacheInv
<1>6. Cache!InUse(k) <=> \E t \in Task : HeldBlocks[t][k] > 0 \/ Calls[t] \in {<<"get", k>>, <<"read", k>>}
  BY DEF Cache!InUse
<1> HIDE DEF k
<1>7. Cache!InUse(k) <=> b_count[b] > 0
  BY <1>1, <1>2, <1>3, <1>4, <1>5, <1>6
<1> QED BY <1>7 DEF k

LEMMA AbsentIsUnused ==
  ASSUME AllInv, NEW k \in Block, \A b \in Buffer : b_block[b] # k
  PROVE  ~Cache!InUse(k)
<1>1. \A t \in Task : HeldBlocks[t][k] = 0
  BY Unseen
<1>2. ASSUME NEW t \in Task PROVE Calls[t] \notin {<<"get", k>>, <<"read", k>>}
  <2>1. at[t] \in Place \ {"brelse"} /\ block[t] \in Nat /\ bh[t] \in Buffer /\ k \in Nat
    BY CacheAssumption DEF CacheAssumption, AllInv, CacheInv, TypeInv, UsersInv
  <2>2. at[t] \in {"hash", "got", "lock", "io"} => b_block[bh[t]] = block[t]
    BY DEF AllInv, CacheInv, UseInv
  <2> QED BY <2>1, <2>2, CallIs, DoesUse
<1> QED BY <1>1, <1>2 DEF Cache!InUse

-----------------------------------------------------------------------------
(* There are as many buffers as copies fit in.                             *)
LEMMA BuffersCounted == IsFiniteSet(Buffer) /\ Cardinality(Buffer) = NUMBER_OF_BUFFERS
<1>1. NUMBER_OF_BUFFERS \in Nat \ {0}
  BY CacheAssumption DEF CacheAssumption
<1>2. 0 \in Int /\ NUMBER_OF_BUFFERS - 1 \in Int /\ ~(0 > NUMBER_OF_BUFFERS - 1)
      /\ (NUMBER_OF_BUFFERS - 1) - 0 + 1 = NUMBER_OF_BUFFERS
  BY <1>1
<1> QED BY <1>2, FS_Interval DEF Buffer

LEMMA CopiesFit ==
  ASSUME NEW f, NEW S, \A k \in S : \E b \in Buffer : f[b] = k
  PROVE  IsFiniteSet(S) /\ Cardinality(S) <= NUMBER_OF_BUFFERS
<1> DEFINE copy == [k \in S |-> CHOOSE b \in Buffer : f[b] = k]
<1>1. \A k \in S : copy[k] \in Buffer /\ f[copy[k]] = k
  OBVIOUS
<1>2. copy \in [S -> Buffer]
  BY <1>1
<1> HIDE DEF copy
<1>3. copy \in Injection(S, Buffer)
  BY <1>1, <1>2 DEF Injection, IsInjective
<1> QED BY <1>3, BuffersCounted, FS_Injection

LEMMA CopiesFill ==
  ASSUME NEW f, NEW S, IsFiniteSet(S), \A b \in Buffer : f[b] \in S,
         \A b, c \in Buffer : f[b] = f[c] => b = c
  PROVE  NUMBER_OF_BUFFERS <= Cardinality(S)
<1> DEFINE g == [b \in Buffer |-> f[b]]
<1>1. g \in [Buffer -> S] /\ \A b \in Buffer : g[b] = f[b]
  OBVIOUS
<1> HIDE DEF g
<1>2. g \in Injection(Buffer, S)
  BY <1>1 DEF Injection, IsInjective
<1> QED BY <1>2, BuffersCounted, FS_Injection

(* BlockCache takes its Cardinality from FiniteSets on its own.            *)
LEMMA CacheCounts == \A S : Cache!Cardinality(S) = Cardinality(S)
BY Zenon DEF Cache!Cardinality, Cardinality

-----------------------------------------------------------------------------
(* getblk(), and that whoever calls it was idle or waits.                  *)
LEMMA AskerWaits ==
  ASSUME NEW t \in Task, NEW k, Asks(t, k), at[t] = "repeat" => block[t] = k
  PROVE  Calls[t] \in {Cache!Idle, <<"wait", k>>}
<1>1. Calls[t] = Doing(at[t], block[t])
  BY CallIs
<1>2. CASE at[t] = "user"
  <2>1. Doing(at[t], block[t]) = Cache!Idle
    BY <1>2, DoingIs DEF Cache!Idle
  <2> QED BY <1>1, <2>1
<1>3. CASE at[t] = "repeat"
  <2>1. Doing(at[t], block[t]) = <<"wait", k>>
    BY <1>3, DoingIs
  <2> QED BY <1>1, <2>1
<1> QED BY <1>2, <1>3 DEF Asks

LEMMA AskerGets ==
  ASSUME TypeInv, NEW t \in Task, NEW k, Asks(t, k), NEW place \in Place, NEW x,
         Run(t, place), Doing(place, k) = x
  PROVE  Calls' = [Calls EXCEPT ![t] = x]
<1>1. at'[t] = place /\ \A u \in Task \ {t} : at'[u] = at[u]
  BY DEF TypeInv, Run
<1>2. block'[t] = k /\ \A u \in Task \ {t} : block'[u] = block[u]
  BY DEF Asks
<1> QED BY <1>1, <1>2, CallsMove

LEMMA FindStep ==
  ASSUME AllInv, NEW t \in Task, NEW k \in Block, Asks(t, k), at[t] = "repeat" => block[t] = k,
         InHash(t, k)
  PROVE  Cache!Find(t, k)
<1>1. PICK b \in Buffer :
        /\ b_block[b] = k
        /\ Run(t, IF b_lock[b] THEN "hash" ELSE "got")
        /\ UNCHANGED <<b_block, b_lock, b_uptodate, b_data, held>>
  BY DEF InHash, Found
<1>2. k \in Cached
  BY <1>1, Seen DEF AllInv, ListsInv
<1>3. Calls' = [Calls EXCEPT ![t] = <<"get", k>>]
  <2>1. PICK place \in {"hash", "got"} : Run(t, place)
    BY <1>1
  <2>2. place \in Place /\ Doing(place, k) = <<"get", k>>
    BY DoingIs DEF Place
  <2>3. TypeInv
    BY DEF AllInv, CacheInv
  <2> QED BY <2>1, <2>2, <2>3, AskerGets
<1>4. UNCHANGED <<Cached, ValidBlocks, Reading, HeldBlocks>>
  BY <1>1, SeenKept, HeldKept
<1> QED BY <1>2, <1>3, <1>4, AskerWaits, Zenon DEF Cache!Find, Cache!Goes

(* The block that was in the buffer is in use no more, and goes.           *)
LEMMA EnterStep ==
  ASSUME AllInv, ListsInv', NEW t \in Task, NEW k \in Block, Asks(t, k),
         at[t] = "repeat" => block[t] = k, TakeFree(t, k)
  PROVE  Cache!Enter(t, k)
<1>1. PICK b \in Buffer :
        /\ b_count[b] = 0
        /\ b_uptodate' = [b_uptodate EXCEPT ![b] = FALSE]
        /\ b_block' = [b_block EXCEPT ![b] = k]
  BY DEF TakeFree, FirstFree
<1>2. Run(t, "got") /\ UNCHANGED <<b_lock, b_data, held>> /\ Found(k) = {}
  BY DEF TakeFree
<1>3. \A c \in Buffer : b_block[c] # k
  BY <1>2, FoundOnChain DEF AllInv, ListsInv, CacheInv, TypeInv
<1>4. b_block'[b] = k /\ ~b_uptodate'[b]
      /\ \A c \in Buffer \ {b} : b_block'[c] = b_block[c] /\ b_uptodate'[c] = b_uptodate[c]
  BY <1>1 DEF AllInv, CacheInv, TypeInv
<1>5. ~b_lock[b] /\ \A u \in Task : held[u][b] = 0
  <2>1. \A u \in Task : ~About(at, bh, u, b) /\ held[u][b] = 0
    BY <1>1, FreeIsUnused, FreeIsUnheld DEF AllInv, CacheInv
  <2> QED BY <2>1 DEF AllInv, CacheInv, LockInv, About, Busy
<1>6. k \notin Cached \cup ValidBlocks \cup Reading /\ \A u \in Task : HeldBlocks[u][k] = 0
  BY <1>3, Unseen
<1>7. /\ k \in Cached' /\ k \notin ValidBlocks' \cup Reading'
      /\ \A u \in Task : HeldBlocks'[u][k] = 0
  BY <1>2, <1>4, <1>5, SeenNext DEF ListsInv
<1>8. ASSUME NEW j \in Block, j # k, j # b_block[b]
      PROVE  /\ j \in Cached' <=> j \in Cached
             /\ j \in ValidBlocks' <=> j \in ValidBlocks
             /\ j \in Reading' <=> j \in Reading
             /\ \A u \in Task : HeldBlocks'[u][j] = HeldBlocks[u][j]
  <2>1. CASE \E c \in Buffer : b_block[c] = j
    <3>1. PICK c \in Buffer : b_block[c] = j
      BY <2>1
    <3>2. c # b /\ b_block'[c] = j /\ b_uptodate'[c] = b_uptodate[c]
      BY <1>4, <1>8, <3>1
    <3> QED BY <1>2, <3>1, <3>2, Seen, SeenNext DEF AllInv, ListsInv
  <2>2. CASE \A c \in Buffer : b_block[c] # j
    <3>1. \A c \in Buffer : b_block'[c] # j
      BY <1>4, <1>8, <2>2
    <3> QED BY <2>2, <3>1, Unseen, UnseenNext
  <2> QED BY <2>1, <2>2
<1>9. ASSUME b_block[b] \in Block
      PROVE  /\ b_block[b] \notin Cached' \cup ValidBlocks' \cup Reading' \cup Reading
             /\ \A u \in Task : HeldBlocks'[u][b_block[b]] = 0 /\ HeldBlocks[u][b_block[b]] = 0
  <2>1. b_block[b] # NoBlock /\ \A c \in Buffer \ {b} : b_block[c] # b_block[b]
    BY <1>9, CacheAssumption DEF CacheAssumption, NoBlock, AllInv, ListsInv, OneBufferPerBlock
  <2>2. \A c \in Buffer : b_block'[c] # b_block[b]
    BY <1>3, <1>4, <2>1
  <2>3. b_block[b] \notin Reading /\ \A u \in Task : HeldBlocks[u][b_block[b]] = 0
    BY <1>5, <1>9, Seen DEF AllInv, ListsInv
  <2> QED BY <1>9, <2>2, <2>3, UnseenNext
<1> DEFINE out == IF b_block[b] \in Block THEN b_block[b] ELSE k
<1>10. out \in Block /\ ~Cache!InUse(out)
  <2>1. CASE b_block[b] \in Block
    <3>1. ~(b_count[b] > 0)
      BY <1>1
    <3> QED BY <2>1, <3>1, InUseIs
  <2>2. CASE b_block[b] \notin Block
    BY <1>3, <2>2, AbsentIsUnused
  <2> QED BY <2>1, <2>2
<1>11. /\ Cached' = (Cached \ {out}) \cup {k} /\ ValidBlocks' = ValidBlocks \ {out}
       /\ Reading' = Reading
  <2> HIDE DEF out
  <2>1. out = k \/ (out = b_block[b] /\ b_block[b] \in Block)
    BY DEF out
  <2>2. \A j \in Block : /\ j \in Cached' <=> j = k \/ (j \in Cached /\ j # out)
                         /\ j \in ValidBlocks' <=> j \in ValidBlocks /\ j # out
                         /\ j \in Reading' <=> j \in Reading
    <3> TAKE j \in Block
    <3>1. CASE j = k
      BY <1>6, <1>7, <3>1
    <3>2. CASE j # k /\ j = b_block[b]
      <4>1. out = j
        BY <3>2 DEF out
      <4> QED BY <1>9, <3>2, <4>1
    <3>3. CASE j # k /\ j # b_block[b]
      BY <1>8, <2>1, <3>3
    <3> QED BY <3>1, <3>2, <3>3
  <2>3. k \in Block
    OBVIOUS
  <2> QED BY <2>2, <2>3, SeenSets
<1>12. HeldBlocks' = HeldBlocks
  BY <1>6, <1>7, <1>8, <1>9, HeldSame
<1>13. Cardinality(Cached') <= NUMBER_OF_BUFFERS
  BY CopiesFit DEF Cached
<1>14. Calls' = [Calls EXCEPT ![t] = <<"get", k>>]
  <2>1. "got" \in Place /\ Doing("got", k) = <<"get", k>>
    BY DoingIs DEF Place
  <2>2. TypeInv
    BY DEF AllInv, CacheInv
  <2> QED BY <1>2, <2>1, <2>2, AskerGets
<1> HIDE DEF out
<1>15. Cache!Cardinality(Cached') <= NUMBER_OF_BUFFERS
  BY <1>13, CacheCounts, Zenon
<1> QED BY <1>6, <1>10, <1>11, <1>12, <1>14, <1>15, AskerWaits, Zenon DEF Cache!Enter, Cache!Goes

(* No buffer is free: each has a block, one of its own, that is in use.    *)
LEMMA WaitStep ==
  ASSUME AllInv, NEW t \in Task, NEW k \in Block, Asks(t, k),
         at[t] = "repeat" => block[t] = k, NoneFree(t, k)
  PROVE  Cache!Wait(t, k) \/ UNCHANGED Cache!blockVars
<1>1. /\ Found(k) = {} /\ FirstFree = {}
      /\ UNCHANGED <<b_block, b_lock, b_uptodate, b_data, held>>
  BY DEF NoneFree, headVars
<1>2. UNCHANGED <<Cached, ValidBlocks, Reading, HeldBlocks>>
  BY <1>1, SeenKept, HeldKept
<1>3. Calls' = [Calls EXCEPT ![t] = <<"wait", k>>]
  <2>1. /\ at'[t] = "none free" /\ block'[t] = k
        /\ \A u \in Task \ {t} :
             /\ block'[u] = block[u]
             /\ at'[u] = at[u] \/ (at[u] = "none free" /\ at'[u] = "woken")
    BY NoneFreeMoves DEF AllInv, CacheInv, TypeInv, Asks
  <2>2. \A u \in Task \ {t} : Doing(at'[u], block'[u]) = Doing(at[u], block[u])
    BY <2>1, DoingIs
  <2>3. Doing(at'[t], block'[t]) = <<"wait", k>>
    BY <2>1, DoingIs
  <2> QED BY <2>2, <2>3, CallsMove
<1>4. CASE at[t] = "repeat"
  <2>1. Calls[t] = <<"wait", k>>
    BY <1>4, CallIs, DoingIs
  <2>2. Calls' = Calls
    BY <1>3, <2>1, Zenon DEF Calls
  <2> QED BY <1>2, <2>2, Zenon DEF Cache!blockVars
<1>5. CASE at[t] = "user"
  <2>1. Calls[t] = Cache!Idle
    BY <1>5, CallIs, DoingIs DEF Cache!Idle
  <2>2. \A c \in Buffer : b_block[c] # k
    BY <1>1, FoundOnChain DEF AllInv, ListsInv, CacheInv, TypeInv
  <2>3. k \notin Cached
    BY <2>2, Unseen
  <2>4. \A b \in Buffer : b_count[b] > 0
    BY <1>1, NoneFreeOnRing DEF AllInv, ListsInv, CacheInv, TypeInv
  <2>5. \A b \in Buffer : b_block[b] \in Block
    BY <2>4 DEF AllInv, UsersInv, FiledInv
  <2>6. \A j \in Cached : Cache!InUse(j)
    <3>1. ASSUME NEW b \in Buffer PROVE Cache!InUse(b_block[b])
      BY <2>4, <2>5, InUseIs
    <3> QED BY <3>1, Zenon DEF Cached
  <2>7. Cardinality(Cached) = NUMBER_OF_BUFFERS
    <3>1. IsFiniteSet(Cached) /\ Cardinality(Cached) <= NUMBER_OF_BUFFERS
      BY CopiesFit DEF Cached
    <3>2. \A b \in Buffer : b_block[b] \in Cached
      BY <2>5 DEF Cached
    <3>3. \A b, c \in Buffer : b_block[b] = b_block[c] => b = c
      BY <2>5, CacheAssumption DEF CacheAssumption, NoBlock, AllInv, ListsInv, OneBufferPerBlock
    <3>4. NUMBER_OF_BUFFERS <= Cardinality(Cached)
      BY <3>1, <3>2, <3>3, CopiesFill
    <3>5. Cardinality(Cached) \in Nat /\ NUMBER_OF_BUFFERS \in Nat
      BY <3>1, FS_CardinalityType, CacheAssumption DEF CacheAssumption
    <3> QED BY <3>1, <3>4, <3>5
  <2>8. Cache!Cardinality(Cached) = NUMBER_OF_BUFFERS
    BY <2>7, CacheCounts, Zenon
  <2> QED BY <1>2, <1>3, <2>1, <2>3, <2>6, <2>8, Zenon DEF Cache!Wait, Cache!Goes
<1> QED BY <1>4, <1>5 DEF Asks

CacheSeen == [Cache!CacheNext]_(Cache!blockVars)

LEMMA GetblkSeen ==
  ASSUME AllInv, AllInv', NEW t \in Task, Getblk(t) \/ Repeat(t)
  PROVE  CacheSeen
<1>1. PICK k \in Block :
        /\ InHash(t, k) \/ TakeFree(t, k) \/ NoneFree(t, k)
        /\ \/ at[t] = "user" /\ block' = [block EXCEPT ![t] = k]
           \/ at[t] = "repeat" /\ block' = block /\ block[t] = k
  BY DEF Getblk, Repeat, AllInv, ListsInv, BlockInv
<1>2. Asks(t, k) /\ (at[t] = "repeat" => block[t] = k)
  BY <1>1, CacheAssumption DEF CacheAssumption, AllInv, CacheInv, TypeInv, Asks
<1>3. Cache!Find(t, k) \/ Cache!Enter(t, k) \/ Cache!Wait(t, k) \/ UNCHANGED Cache!blockVars
  BY <1>1, <1>2, FindStep, EnterStep, WaitStep DEF AllInv
<1> QED BY <1>3 DEF CacheSeen, Cache!CacheNext

(* Others wake up, which is not seen.                                      *)
LEMMA WakeNextStep ==
  ASSUME AllInv, NEW t \in Task, WakeNext(t)
  PROVE  UNCHANGED Cache!blockVars
<1>1. /\ UNCHANGED <<headVars, block, bh, held>> /\ at[t] = "woken" /\ at'[t] = "repeat"
      /\ \A v \in Task \ {t} : at'[v] = at[v] \/ (at[v] = "none free" /\ at'[v] = "woken")
  BY WakeNextMoves DEF AllInv, CacheInv, TypeInv
<1>2. \A u \in Task : Doing(at'[u], block'[u]) = Doing(at[u], block[u])
  <2>1. \A u \in Task \ {t} : Doing(at'[u], block'[u]) = Doing(at[u], block[u])
    BY <1>1, DoingIs
  <2>2. Doing(at'[t], block'[t]) = Doing(at[t], block[t])
    BY <1>1, DoingIs
  <2> QED BY <2>1, <2>2
<1>3. Calls' = Calls
  BY <1>2, CallsKept
<1>4. UNCHANGED <<Cached, ValidBlocks, Reading, HeldBlocks>>
  BY <1>1, SeenKept, HeldKept DEF headVars
<1> QED BY <1>3, <1>4, Zenon DEF Cache!blockVars

-----------------------------------------------------------------------------
(* bread() after getblk(): t is about the copy of block[t].                *)
LEMMA OfCall ==
  ASSUME AllInv, NEW t \in Task, at[t] \in {"hash", "got", "lock", "io"}
  PROVE  /\ block[t] \in Block /\ bh[t] \in Buffer /\ b_block[bh[t]] = block[t]
         /\ block[t] \in ValidBlocks <=> b_uptodate[bh[t]]
         /\ block[t] \in Reading <=> b_lock[bh[t]]
<1>1. block[t] \in Block /\ bh[t] \in Buffer /\ b_block[bh[t]] = block[t]
  BY DEF AllInv, ListsInv, BlockInv, CacheInv, TypeInv, UseInv
<1>2. b_uptodate[bh[t]] => b_data[bh[t]] = block[t]
  BY <1>1 DEF AllInv, CacheInv, DataIsOfBlock
<1> QED BY <1>1, <1>2, Seen DEF AllInv, ListsInv

LEMMA CallMoves ==
  ASSUME TypeInv, NEW t \in Task, NEW place, at' = [at EXCEPT ![t] = place], block' = block
  PROVE  Calls' = [Calls EXCEPT ![t] = Doing(place, block[t])]
<1>1. at'[t] = place /\ \A u \in Task \ {t} : at'[u] = at[u]
  BY DEF TypeInv
<1> QED BY <1>1, CallsMove

LEMMA NotSeen ==
  ASSUME AllInv, NEW t \in Task, NEW place \in Place,
         at' = [at EXCEPT ![t] = place], Doing(place, block[t]) = Doing(at[t], block[t]),
         UNCHANGED <<b_block, b_lock, b_uptodate, b_data, block, held>>
  PROVE  UNCHANGED Cache!blockVars
<1>1. at'[t] = place /\ \A u \in Task \ {t} : at'[u] = at[u]
  BY DEF AllInv, CacheInv, TypeInv
<1>2. Calls' = Calls
  BY <1>1, CallsKept
<1>3. UNCHANGED <<Cached, ValidBlocks, Reading, HeldBlocks>>
  BY SeenKept, HeldKept
<1> QED BY <1>2, <1>3, Zenon DEF Cache!blockVars

LEMMA HashWaitedStep ==
  ASSUME AllInv, NEW t \in Task, HashWaited(t)
  PROVE  UNCHANGED Cache!blockVars
<1>1. at[t] = "hash" /\ b_block[bh[t]] = block[t]
  BY DEF HashWaited, AllInv, CacheInv, UseInv
<1>2. /\ at' = [at EXCEPT ![t] = "got"]
      /\ UNCHANGED <<b_block, b_lock, b_uptodate, b_data, block, held>>
  BY <1>1 DEF HashWaited, Run
<1>3. Doing("got", block[t]) = Doing(at[t], block[t]) /\ "got" \in Place
  BY <1>1, DoingIs DEF Place
<1> QED BY <1>2, <1>3, NotSeen

LEMMA LockBufferStep ==
  ASSUME AllInv, NEW t \in Task, LockBuffer(t)
  PROVE  UNCHANGED Cache!blockVars \/ \E k \in Block : Cache!Read(t, k)
<1> DEFINE b == bh[t]
           k == block[t]
<1>1. /\ at[t] \in {"got", "lock"} /\ ~b_uptodate[b]
      /\ UNCHANGED <<b_block, b_uptodate, b_data, block, held>>
  BY DEF LockBuffer
<1>2. CASE b_lock[b] /\ at[t] = "got" /\ at' = [at EXCEPT ![t] = "lock"] /\ b_lock' = b_lock
  <2>1. Doing("lock", k) = Doing(at[t], k) /\ "lock" \in Place
    BY <1>2, DoingIs DEF Place
  <2> QED BY <1>1, <1>2, <2>1, NotSeen
<1>3. CASE ~b_lock[b] /\ at' = [at EXCEPT ![t] = "io"] /\ b_lock' = [b_lock EXCEPT ![b] = TRUE]
  <2>1. k \in Block /\ b \in Buffer /\ b_block[b] = k /\ k \notin ValidBlocks \cup Reading
    BY <1>1, <1>3, OfCall
  <2>2. Calls[t] = <<"get", k>> /\ Doing("io", k) = <<"read", k>>
    BY <1>1, CallIs, DoingIs
  <2>3. Calls' = [Calls EXCEPT ![t] = <<"read", k>>]
    <3>1. Calls' = [Calls EXCEPT ![t] = Doing("io", k)]
      BY <1>1, <1>3, CallMoves DEF AllInv, CacheInv
    <3> QED BY <2>2, <3>1
  <2>4. Reading' = Reading \cup {k}
    <3>1. b_lock'[b] /\ \A c \in Buffer \ {b} : b_lock'[c] = b_lock[c]
      BY <1>3, <2>1 DEF AllInv, CacheInv, TypeInv
    <3>2. \A c \in Buffer : b_block[c] = k <=> c = b
      BY <2>1, CacheAssumption DEF CacheAssumption, NoBlock, AllInv, ListsInv, OneBufferPerBlock
    <3> QED BY <1>1, <2>1, <3>1, <3>2 DEF Reading
  <2>5. Cached' = Cached /\ ValidBlocks' = ValidBlocks
    BY <1>1 DEF Cached, ValidBlocks
  <2>6. HeldBlocks' = HeldBlocks
    BY <1>1, HeldKept
  <2> HIDE DEF k
  <2>7. Cache!Read(t, k)
    BY <2>1, <2>2, <2>3, <2>4, <2>5, <2>6, Zenon DEF Cache!Read, Cache!Goes
  <2> QED BY <2>1, <2>7
<1> QED BY <1>2, <1>3 DEF LockBuffer, Run

LEMMA ValidStep ==
  ASSUME AllInv, AllInv', NEW t \in Task, Valid(t)
  PROVE  \E k \in Block : Cache!Return(t, k)
<1> DEFINE b == bh[t]
           k == block[t]
<1>1. /\ at[t] \in {"got", "lock", "io"} /\ b_uptodate[b]
      /\ at' = [at EXCEPT ![t] = "user"] /\ held' = [held EXCEPT ![t][b] = @ + 1]
      /\ UNCHANGED <<b_block, b_lock, b_uptodate, b_data, block>>
  BY DEF Valid, Return, Run, headVars
<1>2. k \in Block /\ b \in Buffer /\ b_block[b] = k /\ k \in ValidBlocks
  BY <1>1, OfCall
<1>3. Calls[t] \in {<<"get", k>>, <<"read", k>>}
  BY <1>1, CallGets
<1>4. Calls' = [Calls EXCEPT ![t] = Cache!Idle]
  <2>1. Calls' = [Calls EXCEPT ![t] = Doing("user", k)]
    BY <1>1, CallMoves DEF AllInv, CacheInv
  <2>2. Doing("user", k) = Cache!Idle
    BY DoingIs DEF Cache!Idle
  <2> QED BY <2>1, <2>2
<1>5. UNCHANGED <<Cached, ValidBlocks, Reading>>
  BY <1>1, SeenKept
<1>6. held'[t][b] = held[t][b] + 1
      /\ \A u \in Task, c \in Buffer : (u # t \/ c # b) => held'[u][c] = held[u][c]
  BY <1>1, <1>2 DEF AllInv, CacheInv, TypeInv
<1> HIDE DEF b, k
<1>7. HeldBlocks'[t][k] = HeldBlocks[t][k] + 1
  BY <1>1, <1>2, <1>6, Seen, SeenNext DEF AllInv, ListsInv
<1>8. \A u \in Task, j \in Block : (u # t \/ j # k) => HeldBlocks'[u][j] = HeldBlocks[u][j]
  BY <1>1, <1>2, <1>6, HeldElsewhere DEF AllInv, ListsInv
<1>9. HeldBlocks' = [HeldBlocks EXCEPT ![t][k] = HeldBlocks[t][k] + 1]
  BY <1>2, <1>7, <1>8, HeldMoves
<1>10. Cache!Return(t, k)
  BY <1>2, <1>3, <1>4, <1>5, <1>9, Zenon DEF Cache!Return, Cache!Goes
<1> QED BY <1>2, <1>10

(* And when brelse() wakes one.                                            *)
LEMMA LetGoSeen ==
  ASSUME TypeInv, NEW t \in Task, NEW b, LetGo(t, b), block' = block
  PROVE  Calls' = [Calls EXCEPT ![t] = Cache!Idle]
<1>1. /\ at'[t] = "user"
      /\ \A u \in Task \ {t} : at'[u] = at[u] \/ (at[u] = "none free" /\ at'[u] = "woken")
  BY Roused DEF LetGo, TypeInv, Place
<1>2. \A u \in Task \ {t} : Doing(at'[u], block'[u]) = Doing(at[u], block[u])
  BY <1>1, DoingIs
<1>3. Doing(at'[t], block'[t]) = Cache!Idle
  BY <1>1, DoingIs DEF Cache!Idle
<1> QED BY <1>2, <1>3, CallsMove

LEMMA ReadFailedStep ==
  ASSUME AllInv, NEW t \in Task, ReadFailed(t)
  PROVE  \E k \in Block : Cache!Fail(t, k)
<1> DEFINE k == block[t]
<1>1. /\ at[t] = "io" /\ ~b_lock[bh[t]] /\ ~b_uptodate[bh[t]] /\ LetGo(t, bh[t])
      /\ UNCHANGED <<b_block, b_lock, b_uptodate, b_data, block, held>>
  BY DEF ReadFailed
<1>2. k \in Block /\ k \notin ValidBlocks \cup Reading
  BY <1>1, OfCall
<1>3. Calls[t] = <<"read", k>>
  BY <1>1, CallIs, DoingIs
<1>4. Calls' = [Calls EXCEPT ![t] = Cache!Idle]
  BY <1>1, LetGoSeen DEF AllInv, CacheInv
<1>5. UNCHANGED <<Cached, ValidBlocks, Reading, HeldBlocks>>
  BY <1>1, SeenKept, HeldKept
<1> HIDE DEF k
<1>6. Cache!Fail(t, k)
  BY <1>2, <1>3, <1>4, <1>5, Zenon DEF Cache!Fail, Cache!Goes
<1> QED BY <1>2, <1>6

LEMMA BrelseStep ==
  ASSUME AllInv, AllInv', NEW t \in Task, Brelse(t)
  PROVE  \E k \in Block : Cache!GiveBack(t, k)
<1>1. PICK b \in Buffer :
        /\ held[t][b] > 0 /\ held' = [held EXCEPT ![t][b] = @ - 1]
        /\ IF b_lock[b] THEN Run(t, "brelse") /\ UNCHANGED <<b_count, waitVars>> ELSE LetGo(t, b)
  BY DEF Brelse
<1>2. at[t] = "user" /\ UNCHANGED <<b_block, b_lock, b_uptodate, b_data, block>>
  BY DEF Brelse
<1>3. LetGo(t, b)
  BY <1>1 DEF AllInv, UsersInv, UnreadInv, HeldInv
<1> DEFINE k == b_block[b]
<1>4. k \in Block
  <2>1. b_count[b] # 0
    BY <1>1, FreeIsUnheld DEF AllInv, CacheInv
  <2>2. b_count[b] \in Nat
    BY DEF AllInv, CacheInv, TypeInv
  <2> QED BY <2>1, <2>2 DEF AllInv, UsersInv, FiledInv
<1>5. Calls[t] = Cache!Idle
  BY <1>2, CallIs, DoingIs DEF Cache!Idle
<1>6. Calls' = [Calls EXCEPT ![t] = Cache!Idle]
  BY <1>2, <1>3, LetGoSeen DEF AllInv, CacheInv
<1>7. Calls' = Calls
  BY <1>5, <1>6, Zenon DEF Calls
<1>8. UNCHANGED <<Cached, ValidBlocks, Reading>>
  BY <1>2, SeenKept
<1>9. held'[t][b] = held[t][b] - 1
      /\ \A u \in Task, c \in Buffer : (u # t \/ c # b) => held'[u][c] = held[u][c]
  BY <1>1 DEF AllInv, CacheInv, TypeInv
<1>10. b_block[b] = k /\ b_block'[b] = k
  BY <1>2
<1> HIDE DEF k
<1>11. HeldBlocks[t][k] > 0 /\ HeldBlocks'[t][k] = HeldBlocks[t][k] - 1
  BY <1>1, <1>4, <1>9, <1>10, Seen, SeenNext DEF AllInv, ListsInv
<1>12. \A u \in Task, j \in Block : (u # t \/ j # k) => HeldBlocks'[u][j] = HeldBlocks[u][j]
  BY <1>2, <1>4, <1>9, <1>10, HeldElsewhere DEF AllInv, ListsInv
<1>13. HeldBlocks' = [HeldBlocks EXCEPT ![t][k] = HeldBlocks[t][k] - 1]
  BY <1>4, <1>11, <1>12, HeldMoves
<1>14. Cache!GiveBack(t, k)
  BY <1>5, <1>7, <1>8, <1>11, <1>13, Zenon DEF Cache!GiveBack
<1> QED BY <1>4, <1>14

(* The disk has read the block that the buffer is filed under.             *)
LEMMA EndRequestStep ==
  ASSUME AllInv, AllInv', NEW b \in Buffer, NEW uptodate \in BOOLEAN, EndRequest(b, uptodate)
  PROVE  \E k \in Block : Cache!Loaded(k)
<1>1. /\ b_lock[b] /\ b_lock' = [b_lock EXCEPT ![b] = FALSE]
      /\ b_uptodate' = [b_uptodate EXCEPT ![b] = uptodate]
      /\ b_data' = [b_data EXCEPT ![b] = IF uptodate THEN sector[b] ELSE NoBlock]
      /\ UNCHANGED <<b_block, at, block, held>>
  BY DEF EndRequest, taskVars
<1> DEFINE k == b_block[b]
<1>2. k \in Block
  <2>1. PICK t \in Task : at[t] = "io" /\ bh[t] = b
    BY <1>1 DEF AllInv, CacheInv, LockInv
  <2> QED BY <2>1, OfCall
<1>3. ~b_uptodate[b] /\ sector[b] = k
  BY <1>1 DEF AllInv, UsersInv, UnreadInv, CacheInv, SectorInv
<1>4. /\ ~b_lock'[b] /\ b_uptodate'[b] = uptodate /\ (uptodate => b_data'[b] = k)
      /\ \A c \in Buffer \ {b} : /\ b_lock'[c] = b_lock[c] /\ b_uptodate'[c] = b_uptodate[c]
                                 /\ b_data'[c] = b_data[c]
  BY <1>1, <1>3 DEF AllInv, CacheInv, TypeInv
<1>5. \A c \in Buffer : b_block[c] = k <=> c = b
  BY <1>2, CacheAssumption DEF CacheAssumption, NoBlock, AllInv, ListsInv, OneBufferPerBlock
<1>6. b_block[b] = k /\ b_block' = b_block
  BY <1>1
<1> HIDE DEF k
<1>7. k \in Reading /\ k \notin ValidBlocks
  BY <1>1, <1>2, <1>3, <1>6, Seen DEF AllInv, ListsInv
<1>8. k \notin Reading' /\ (k \in ValidBlocks' <=> uptodate)
  BY <1>2, <1>4, <1>6, SeenNext DEF AllInv, ListsInv
<1>9. \A j \in Block \ {k} : /\ j \in Reading' <=> j \in Reading
                             /\ j \in ValidBlocks' <=> j \in ValidBlocks
  BY <1>4, <1>5, <1>6 DEF Reading, ValidBlocks
<1>10. Reading' = Reading \ {k} /\ ValidBlocks' \in {ValidBlocks, ValidBlocks \cup {k}}
  <2>1. Reading \subseteq Block /\ Reading' \subseteq Block /\ ValidBlocks \subseteq Block /\ ValidBlocks' \subseteq Block
    BY SeenSets
  <2>2. Reading' = Reading \ {k}
    BY <1>7, <1>8, <1>9, <2>1
  <2>3. CASE uptodate
    <3>1. ValidBlocks' = ValidBlocks \cup {k}
      BY <1>2, <1>7, <1>8, <1>9, <2>1, <2>3
    <3> QED BY <2>2, <3>1
  <2>4. CASE ~uptodate
    <3>1. ValidBlocks' = ValidBlocks
      BY <1>7, <1>8, <1>9, <2>1, <2>4
    <3> QED BY <2>2, <3>1
  <2> QED BY <2>3, <2>4
<1>11. Cached' = Cached /\ Calls' = Calls /\ HeldBlocks' = HeldBlocks
  BY <1>1, HeldKept, CallsKept DEF Cached
<1>12. Cache!Loaded(k)
  BY <1>7, <1>10, <1>11, Zenon DEF Cache!Loaded
<1> QED BY <1>2, <1>12

LEMMA CacheStep ==
  ASSUME AllInv, AllInv', [BNext]_cacheVars
  PROVE  CacheSeen
<1>1. CASE UNCHANGED cacheVars
  <2>1. UNCHANGED <<Cached, ValidBlocks, Reading, HeldBlocks>> /\ Calls' = Calls
    BY <1>1, SeenKept, HeldKept, CallsKept DEF cacheVars, headVars, taskVars
  <2>2. UNCHANGED Cache!blockVars
    BY <2>1, Zenon DEF Cache!blockVars
  <2> QED BY <2>2 DEF CacheSeen
<1>2. ASSUME NEW t \in Task, Getblk(t) \/ Repeat(t) PROVE CacheSeen
  BY <1>2, GetblkSeen
<1>10. ASSUME NEW t \in Task, WakeNext(t) PROVE CacheSeen
  BY <1>10, WakeNextStep DEF CacheSeen
<1>3. ASSUME NEW t \in Task, HashWaited(t) PROVE CacheSeen
  BY <1>3, HashWaitedStep DEF CacheSeen
<1>4. ASSUME NEW t \in Task, Brelse(t) PROVE CacheSeen
  BY <1>4, BrelseStep DEF CacheSeen, Cache!CacheNext
<1>5. ASSUME NEW t \in Task, BrelseWaited(t) PROVE CacheSeen
  BY <1>5 DEF BrelseWaited, AllInv, UsersInv
<1>6. ASSUME NEW t \in Task, ReadFailed(t) PROVE CacheSeen
  BY <1>6, ReadFailedStep DEF CacheSeen, Cache!CacheNext
<1>7. ASSUME NEW t \in Task, Valid(t) PROVE CacheSeen
  BY <1>7, ValidStep DEF CacheSeen, Cache!CacheNext
<1>8. ASSUME NEW t \in Task, LockBuffer(t) PROVE CacheSeen
  BY <1>8, LockBufferStep DEF CacheSeen, Cache!CacheNext
<1>9. ASSUME NEW b \in Buffer, NEW uptodate \in BOOLEAN, EndRequest(b, uptodate) PROVE CacheSeen
  BY <1>9, EndRequestStep DEF CacheSeen, Cache!CacheNext
<1> QED BY <1>1, <1>2, <1>3, <1>4, <1>5, <1>6, <1>7, <1>8, <1>9, <1>10 DEF BNext

LEMMA CacheSeenStart == BInit => Cache!CacheInit
<1> SUFFICES ASSUME BInit PROVE Cache!CacheInit
  OBVIOUS
<1>1. /\ \A b \in Buffer : b_block[b] = NoBlock
      /\ \A t \in Task : at[t] = "user"
  BY DEF BInit
<1>2. \A k \in Block, b \in Buffer : b_block[b] # k
  BY <1>1, CacheAssumption DEF CacheAssumption, NoBlock
<1>3. Cached = {} /\ ValidBlocks = {} /\ Reading = {}
  BY <1>2 DEF Cached, ValidBlocks, Reading
<1>4. HeldBlocks = [t \in Task |-> [k \in Block |-> 0]]
  BY <1>3, Zenon DEF HeldBlocks
<1>5. \A t \in Task : Doing(at[t], block[t]) = Cache!Idle
  BY <1>1, DoingIs DEF Cache!Idle
<1>6. Calls = [t \in Task |-> Cache!Idle]
  BY <1>5, Zenon DEF Calls
<1> QED BY <1>3, <1>4, <1>6, Zenon DEF Cache!CacheInit

(* For any number of tasks, buffers and blocks, getblk(), bread() and      *)
(* brelse() are a cache of blocks: one valid copy of what a task has got,  *)
(* which stays as long as it is used.                                      *)
THEOREM CacheImplemented == BSpec => ImplementsCache
<1>1. BInit => UsersInv /\ Cache!CacheInit
  BY UsersStart, CacheSeenStart
<1>2. CacheInv /\ LimitInv /\ ListsInv /\ UsersInv /\ [BNext]_cacheVars => UsersInv'
  BY UsersSteps DEF ListsInv
<1>3. BSpec => []UsersInv
  BY <1>1, <1>2, CacheInvariant, ListsInvariant, PTL DEF BSpec
<1>4. /\ CacheInv /\ ListsInv /\ UsersInv /\ CacheInv' /\ ListsInv' /\ UsersInv'
      /\ [BNext]_cacheVars
      => [Cache!CacheNext]_(Cache!blockVars)
  BY CacheStep DEF AllInv, CacheSeen
<1> QED
  BY <1>1, <1>3, <1>4, CacheInvariant, ListsInvariant, PTL DEF BSpec, ImplementsCache, Cache!CacheSpec

=============================================================================
