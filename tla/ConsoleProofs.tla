---------------------------- MODULE ConsoleProofs ----------------------------
(* Theorems of Console, for every size of screen and of video memory: the  *)
(* address of the cursor follows its coordinates, the window stays in the  *)
(* memory, and what it shows is what a terminal would show.  And of        *)
(* Printk, for every size of the queue and any lines: the queue is empty   *)
(* when nobody prints, and lines are shown whole.                          *)
EXTENDS Console, Printk, WellFoundedInduction, NaturalsInduction, TLAPS

(* The cursor may be one column or one line beyond the screen.             *)
Screen ==
  [x : 0 .. display_char_per_line, y : 0 .. display_line_nr, mem : Int,
   origin : Nat, end : Nat, video : [Cell -> {BLANK, INK}]]

InStep(s) == s.mem = s.origin + s.y * display_char_per_line + s.x
Fits(s) == s.end = s.origin + Screenful /\ s.end <= video_mem_end

Sound(s) == s \in Screen /\ InStep(s) /\ Fits(s)

ScreenInv ==
  /\ Sound(screen)
  /\ saved \in [x : 0 .. display_char_per_line, y : 0 .. display_line_nr]

-----------------------------------------------------------------------------
(* Arithmetic of lines.                                                    *)
LEMMA Sizes ==
  /\ display_char_per_line \in Nat /\ display_char_per_line > 0
  /\ display_line_nr \in Nat /\ display_line_nr > 0
  /\ TabStop \in Nat /\ TabStop > 0 /\ TabStop <= display_char_per_line
  /\ video_mem_end \in Nat /\ Screenful \in Nat /\ Screenful <= video_mem_end
BY ConsoleAssumption DEF Screenful

LEMMA NextLine ==
  ASSUME NEW y \in Int
  PROVE  /\ y * display_char_per_line \in Int
         /\ (y + 1) * display_char_per_line = y * display_char_per_line + display_char_per_line
         /\ (y - 1) * display_char_per_line = y * display_char_per_line - display_char_per_line
         /\ display_char_per_line * y = y * display_char_per_line
BY Sizes

LEMMA SoundFields ==
  ASSUME NEW s, Sound(s)
  PROVE  /\ s = [x |-> s.x, y |-> s.y, mem |-> s.mem,
                  origin |-> s.origin, end |-> s.end, video |-> s.video]
         /\ s.x \in 0 .. display_char_per_line /\ s.y \in 0 .. display_line_nr
         /\ s.mem \in Int /\ s.origin \in Nat /\ s.end \in Nat
         /\ s.video \in [Cell -> {BLANK, INK}]
         /\ s.mem = s.origin + s.y * display_char_per_line + s.x
         /\ s.end = s.origin + Screenful /\ s.end <= video_mem_end
BY DEF Sound, Screen, InStep, Fits

(* What the operations on the screen keep.                                 *)
(* Changes of several fields, one after the other.                         *)
LEMMA FourFields ==
  ASSUME NEW s, Sound(s), NEW m, NEW o, NEW e, NEW v
  PROVE  [s EXCEPT !.video = v, !.origin = o, !.end = e, !.mem = m]
           = [x |-> s.x, y |-> s.y, mem |-> m, origin |-> o, end |-> e, video |-> v]
<1> DEFINE one == [s EXCEPT !.video = v]
           two == [one EXCEPT !.origin = o]
           three == [two EXCEPT !.end = e]
<1>1. one = [x |-> s.x, y |-> s.y, mem |-> s.mem, origin |-> s.origin, end |-> s.end,
           video |-> v]
  BY SoundFields
<1>2. [s EXCEPT !.video = v, !.origin = o, !.end = e, !.mem = m] = [three EXCEPT !.mem = m]
  OBVIOUS
<1> HIDE DEF one
<1>3. two = [x |-> s.x, y |-> s.y, mem |-> s.mem, origin |-> o, end |-> s.end, video |-> v]
  BY <1>1
<1> HIDE DEF two
<1>4. three = [x |-> s.x, y |-> s.y, mem |-> s.mem, origin |-> o, end |-> e, video |-> v]
  BY <1>3
<1> HIDE DEF three
<1> QED BY <1>2, <1>4

(* A record with the right fields is a screen.                             *)
LEMMA SoundRecord ==
  ASSUME NEW x \in 0 .. display_char_per_line, NEW y \in 0 .. display_line_nr,
         NEW m \in Int, NEW o \in Nat, NEW e \in Nat, NEW v \in [Cell -> {BLANK, INK}],
         m = o + y * display_char_per_line + x, e = o + Screenful, e <= video_mem_end
  PROVE  Sound([x |-> x, y |-> y, mem |-> m, origin |-> o, end |-> e, video |-> v])
<1> DEFINE r == [x |-> x, y |-> y, mem |-> m, origin |-> o, end |-> e, video |-> v]
<1>1. r \in Screen
  BY DEF Screen
<1>2. /\ r.x = x /\ r.y = y /\ r.mem = m /\ r.origin = o /\ r.end = e
  OBVIOUS
<1> HIDE DEF r
<1>3. InStep(r) /\ Fits(r)
  BY <1>2 DEF InStep, Fits
<1>4. Sound(r)
  BY <1>1, <1>3 DEF Sound
<1> QED BY <1>4 DEF r

LEMMA TwoFields ==
  ASSUME NEW s, Sound(s), NEW col, NEW m
  PROVE  [s EXCEPT !.x = col, !.mem = m]
           = [x |-> col, y |-> s.y, mem |-> m, origin |-> s.origin, end |-> s.end,
                  video |-> s.video]
<1> DEFINE one == [s EXCEPT !.x = col]
<1>1. one = [x |-> col, y |-> s.y, mem |-> s.mem, origin |-> s.origin, end |-> s.end,
           video |-> s.video]
  BY SoundFields
<1>2. [s EXCEPT !.x = col, !.mem = m] = [one EXCEPT !.mem = m]
  OBVIOUS
<1> HIDE DEF one
<1> QED BY <1>1, <1>2

LEMMA ScrollUpSound ==
  ASSUME NEW s, Sound(s)
  PROVE  Sound(scroll_up(s))
<1>1. CASE s.end + display_char_per_line > video_mem_end
  <2> DEFINE moved == [i \in Cell |->
        IF i < Screenful - display_char_per_line
        THEN s.video[s.origin + display_char_per_line + i]
        ELSE IF i < Screenful THEN BLANK ELSE s.video[i]]
  <2>1. moved \in [Cell -> {BLANK, INK}]
    <3> SUFFICES ASSUME NEW i \in Cell PROVE moved[i] \in {BLANK, INK}
      OBVIOUS
    <3>1. /\ s.origin \in Nat /\ s.origin + Screenful <= video_mem_end
          /\ s.video \in [Cell -> {BLANK, INK}]
      BY SoundFields
    <3>2. i < Screenful - display_char_per_line => s.origin + display_char_per_line + i \in Cell
      BY <3>1, Sizes DEF Cell
    <3> QED BY <3>1, <3>2
  <2> DEFINE address == s.y * display_char_per_line + s.x
             start == 0
  <2>2. scroll_up(s) = [s EXCEPT !.video = moved, !.origin = start, !.end = Screenful, !.mem = address]
    BY <1>1 DEF scroll_up
  <2>3. address \in Int /\ address = s.y * display_char_per_line + s.x /\ start = 0
    BY SoundFields, Sizes, NextLine
  <2> HIDE DEF moved, address, start
  <2>4. scroll_up(s) = [x |-> s.x, y |-> s.y, mem |-> address, origin |-> start, end |-> Screenful,
                        video |-> moved]
    BY <2>2, FourFields
  <2>5. /\ s.x \in 0 .. display_char_per_line /\ s.y \in 0 .. display_line_nr
        /\ address = start + s.y * display_char_per_line + s.x
    <3> DEFINE line == s.y * display_char_per_line
    <3>1. s.x \in 0 .. display_char_per_line /\ s.y \in 0 .. display_line_nr
      BY SoundFields
    <3>2. line \in Int /\ address = line + s.x
      BY <2>3, <3>1, NextLine
    <3> HIDE DEF line
    <3>3. address = start + line + s.x
      BY <2>3, <3>1, <3>2
    <3> QED BY <3>1, <3>3 DEF line
  <2>6. start \in Nat /\ Screenful \in Nat /\ Screenful = start + Screenful /\ Screenful <= video_mem_end
    BY <2>3, Sizes
  <2>7. Sound([x |-> s.x, y |-> s.y, mem |-> address, origin |-> start, end |-> Screenful,
               video |-> moved])
    BY <2>1, <2>3, <2>5, <2>6, SoundRecord
  <2> QED BY <2>4, <2>7
<1>2. CASE ~(s.end + display_char_per_line > video_mem_end)
  <2> DEFINE cleared == [i \in Cell |->
        IF i >= s.end /\ i < s.end + display_char_per_line THEN BLANK ELSE s.video[i]]
  <2>1. cleared \in [Cell -> {BLANK, INK}]
    BY SoundFields
  <2>2. scroll_up(s) = [s EXCEPT !.video = cleared, !.origin = @ + display_char_per_line,
                                 !.end = @ + display_char_per_line,
                                 !.mem = @ + display_char_per_line]
    BY <1>2 DEF scroll_up
  <2> HIDE DEF cleared
  <2> DEFINE line == s.y * display_char_per_line
             m == s.mem + display_char_per_line
             o == s.origin + display_char_per_line
             e == s.end + display_char_per_line
  <2>3. scroll_up(s) = [x |-> s.x, y |-> s.y, mem |-> m, origin |-> o, end |-> e, video |-> cleared]
    BY <2>2, FourFields
  <2>4. line \in Int /\ s.mem = s.origin + line + s.x
    BY SoundFields, NextLine
  <2>5. /\ s.x \in 0 .. display_char_per_line /\ s.y \in 0 .. display_line_nr
        /\ s.mem \in Int /\ s.origin \in Nat /\ s.end \in Nat /\ s.end = s.origin + Screenful
    BY SoundFields
  <2> HIDE DEF line
  <2>6. /\ m \in Int /\ o \in Nat /\ e \in Nat /\ m = o + line + s.x
        /\ e = o + Screenful /\ e <= video_mem_end
    BY <1>2, <2>4, <2>5, Sizes
  <2> HIDE DEF m, o, e
  <2>7. Sound([x |-> s.x, y |-> s.y, mem |-> m, origin |-> o, end |-> e, video |-> cleared])
    BY <2>1, <2>5, <2>6, SoundRecord DEF line
  <2> QED BY <2>3, <2>7
<1> QED BY <1>1, <1>2

LEMMA ScrollDownSound ==
  ASSUME NEW s, Sound(s)
  PROVE  Sound(scroll_down(s))
<1> DEFINE moved == [i \in Cell |->
      IF i < s.origin \/ i >= s.end THEN s.video[i]
      ELSE IF i < s.origin + display_char_per_line THEN BLANK
      ELSE s.video[i - display_char_per_line]]
<1>1. moved \in [Cell -> {BLANK, INK}]
  <2> SUFFICES ASSUME NEW i \in Cell PROVE moved[i] \in {BLANK, INK}
    OBVIOUS
  <2>2. s.video \in [Cell -> {BLANK, INK}] /\ s.origin \in Nat
    BY SoundFields
  <2>1. i >= s.origin + display_char_per_line => i - display_char_per_line \in Cell
    BY <2>2, Sizes DEF Cell
  <2>3. CASE i < s.origin \/ i >= s.end
    BY <2>2, <2>3
  <2>4. CASE ~(i < s.origin \/ i >= s.end) /\ i < s.origin + display_char_per_line
    BY <2>4
  <2>5. CASE ~(i < s.origin \/ i >= s.end) /\ ~(i < s.origin + display_char_per_line)
    <3>1. i - display_char_per_line \in Cell
      BY <2>1, <2>2, <2>5, Sizes DEF Cell
    <3> QED BY <2>2, <2>5, <3>1
  <2> QED BY <2>3, <2>4, <2>5
<1>2. scroll_down(s) = [s EXCEPT !.video = moved]
  BY DEF scroll_down
<1> HIDE DEF moved
<1> QED BY <1>1, <1>2 DEF Sound, Screen, InStep, Fits

LEMMA WrittenSound ==
  ASSUME NEW s, Sound(s), NEW cell, NEW char \in {BLANK, INK}
  PROVE  Sound(Written(s, cell, char))
<1> DEFINE video == IF cell \in Cell THEN [s.video EXCEPT ![cell] = char] ELSE s.video
<1>1. video \in [Cell -> {BLANK, INK}]
  BY SoundFields
<1>2. Written(s, cell, char) = [s EXCEPT !.video = video]
  BY DEF Written
<1> HIDE DEF video
<1> QED BY <1>1, <1>2 DEF Sound, Screen, InStep, Fits

LEMMA LfSound ==
  ASSUME NEW s, Sound(s)
  PROVE  Sound(lf(s))
<1>1. CASE s.y + 1 <= display_line_nr - 1
  <2>1. /\ s.y \in Int /\ s.y * display_char_per_line \in Int
        /\ (s.y + 1) * display_char_per_line = s.y * display_char_per_line + display_char_per_line
    BY SoundFields, NextLine
  <2>2. lf(s) = [s EXCEPT !.y = @ + 1, !.mem = @ + display_char_per_line]
    BY <1>1 DEF lf
  <2>3. lf(s) \in Screen
    <3>1. s.y + 1 \in 0 .. display_line_nr /\ s.mem + display_char_per_line \in Int
      BY <1>1, SoundFields, Sizes
    <3>2. lf(s) = [x |-> s.x, y |-> s.y + 1, mem |-> s.mem + display_char_per_line,
               origin |-> s.origin, end |-> s.end, video |-> s.video]
      BY <2>2, SoundFields
    <3> QED BY <3>2, <3>1, SoundFields DEF Screen
  <2>4. lf(s).y = s.y + 1 /\ lf(s).mem = s.mem + display_char_per_line /\ lf(s).x = s.x
    BY <2>2 DEF Sound, Screen
  <2>5. InStep(lf(s))
    BY <2>1, <2>2, <2>4, SoundFields, Sizes DEF InStep
  <2>6. Fits(lf(s))
    BY <2>2 DEF Sound, Screen, Fits
  <2> QED BY <2>3, <2>5, <2>6 DEF Sound
<1>2. CASE ~(s.y + 1 <= display_line_nr - 1)
  BY <1>2, ScrollUpSound DEF lf
<1> QED BY <1>1, <1>2

(* A step of the cursor within a line.                                     *)
LEMMA Shifted ==
  ASSUME NEW s, Sound(s), NEW col \in 0 .. display_char_per_line, NEW m \in Int,
         m - s.mem = col - s.x
  PROVE  Sound([s EXCEPT !.x = col, !.mem = m])
<1> DEFINE r == [s EXCEPT !.x = col, !.mem = m]
<1>2. r = [x |-> col, y |-> s.y, mem |-> m, origin |-> s.origin, end |-> s.end, video |-> s.video]
  BY TwoFields
<1> HIDE DEF r
<1>3. r \in Screen
  BY <1>2, SoundFields DEF Screen
<1>4. s.y * display_char_per_line \in Int
  BY SoundFields, NextLine
<1>5. r.mem = m /\ r.x = col /\ r.y = s.y /\ r.origin = s.origin /\ r.end = s.end
  BY <1>2
<1>6. InStep(r) /\ Fits(r)
  BY <1>4, <1>5, SoundFields DEF InStep, Fits
<1>7. Sound(r)
  BY <1>3, <1>6 DEF Sound
<1> QED BY <1>7 DEF r

LEMMA GotoSound ==
  ASSUME NEW s, Sound(s), NEW x \in Nat, NEW y \in Nat
  PROVE  Sound(cur_goto_pos(s, x, y))
<1>1. CASE x > display_char_per_line \/ y > display_line_nr
  BY <1>1 DEF cur_goto_pos
<1>2. CASE ~(x > display_char_per_line \/ y > display_line_nr)
  <2> DEFINE r == cur_goto_pos(s, x, y)
             address == s.origin + display_char_per_line * y + x
  <2>1. address \in Int /\ address = s.origin + y * display_char_per_line + x
    BY SoundFields, NextLine, Sizes
  <2>2. r = [s EXCEPT !.x = x, !.y = y, !.mem = address]
    BY <1>2 DEF cur_goto_pos
  <2> HIDE DEF address
  <2>3. r = [x |-> x, y |-> y, mem |-> address, origin |-> s.origin, end |-> s.end,
             video |-> s.video]
    BY <2>2, SoundFields
  <2> HIDE DEF r
  <2>4. x \in 0 .. display_char_per_line /\ y \in 0 .. display_line_nr
    BY <1>2, Sizes
  <2>5. r \in Screen
    BY <2>1, <2>3, <2>4, SoundFields DEF Screen
  <2>6. InStep(r) /\ Fits(r)
    BY <2>1, <2>3, SoundFields DEF InStep, Fits
  <2>7. Sound(r)
    BY <2>5, <2>6 DEF Sound
  <2> QED BY <2>7 DEF r
<1> QED BY <1>1, <1>2

LEMMA LeftSound ==
  ASSUME NEW s, Sound(s)
  PROVE  Sound(Left(s))
<1>1. CASE s.x = 0
  BY <1>1 DEF Left
<1>2. CASE s.x # 0
  <2>1. /\ s.x - 1 \in 0 .. display_char_per_line /\ s.mem - 1 \in Int
        /\ (s.mem - 1) - s.mem = (s.x - 1) - s.x
    BY <1>2, SoundFields, Sizes
  <2>2. Left(s) = [s EXCEPT !.x = s.x - 1, !.mem = s.mem - 1]
    BY <1>2 DEF Left
  <2>3. Sound([s EXCEPT !.x = s.x - 1, !.mem = s.mem - 1])
    BY <2>1, Shifted
  <2> QED BY <2>2, <2>3
<1> QED BY <1>1, <1>2

LEMMA CarriedSound ==
  ASSUME NEW s, Sound(s), NEW n \in Int, s.x - n \in 0 .. display_char_per_line
  PROVE  Sound(Carried(s, n))
<1>1. s.mem - n \in Int /\ (s.mem - n) - s.mem = (s.x - n) - s.x
  BY SoundFields
<1> QED BY <1>1, Shifted DEF Carried

LEMMA CrSound ==
  ASSUME NEW s, Sound(s)
  PROVE  Sound(cr(s))
<1>1. s.mem - s.x \in Int /\ (s.mem - s.x) - s.mem = 0 - s.x /\ 0 \in 0 .. display_char_per_line
  BY SoundFields, Sizes
<1>2. Sound([s EXCEPT !.x = 0, !.mem = s.mem - s.x])
  BY <1>1, Shifted
<1>3. cr(s) = [s EXCEPT !.x = 0, !.mem = s.mem - s.x]
  BY DEF cr
<1> QED BY <1>2, <1>3

LEMMA DelSound ==
  ASSUME NEW s, Sound(s)
  PROVE  Sound(del(s))
BY LeftSound, WrittenSound DEF del

LEMMA RiSound ==
  ASSUME NEW s, Sound(s)
  PROVE  Sound(ri(s))
<1>1. CASE s.y > 0
  <2>1. /\ s.y - 1 \in 0 .. display_line_nr /\ s.y * display_char_per_line \in Int
        /\ (s.y - 1) * display_char_per_line = s.y * display_char_per_line - display_char_per_line
    BY <1>1, SoundFields, NextLine, Sizes
  <2>2. ri(s) = [s EXCEPT !.y = @ - 1, !.mem = @ - display_char_per_line]
    BY <1>1 DEF ri
  <2>3. ri(s) = [x |-> s.x, y |-> s.y - 1, mem |-> s.mem - display_char_per_line,
                 origin |-> s.origin, end |-> s.end, video |-> s.video]
    BY <2>2, SoundFields
  <2>4. ri(s) \in Screen
    BY <2>1, <2>3, SoundFields, Sizes DEF Screen
  <2>5. /\ ri(s).y = s.y - 1 /\ ri(s).mem = s.mem - display_char_per_line /\ ri(s).x = s.x
        /\ ri(s).origin = s.origin /\ ri(s).end = s.end
    BY <2>2 DEF Sound, Screen
  <2>6. InStep(ri(s)) /\ Fits(ri(s))
    BY <2>1, <2>5, SoundFields, Sizes DEF InStep, Fits
  <2> QED BY <2>4, <2>6 DEF Sound
<1>2. CASE ~(s.y > 0)
  BY <1>2, ScrollDownSound DEF ri
<1> QED BY <1>1, <1>2

(* A tab moves the cursor by 1 to TabStop columns.                         *)
LEMMA TabSound ==
  ASSUME NEW s, Sound(s)
  PROVE  Sound(Tab(s))
<1> DEFINE offset == TabStop - (s.x % TabStop)
<1>1. offset \in 1 .. TabStop
  BY SoundFields, Sizes
<1>2. CASE s.x + offset > display_char_per_line
  <2>1. Tab(s) = lf(Carried(s, display_char_per_line - offset))
    BY <1>2 DEF Tab
  <2> HIDE DEF offset
  <2>2. /\ display_char_per_line - offset \in Int
        /\ s.x - (display_char_per_line - offset) \in 0 .. display_char_per_line
    BY <1>1, <1>2, SoundFields, Sizes
  <2> QED BY <2>1, <2>2, CarriedSound, LfSound
<1>3. CASE ~(s.x + offset > display_char_per_line)
  <2>1. Tab(s) = [s EXCEPT !.x = s.x + offset, !.mem = s.mem + offset]
    BY <1>3 DEF Tab
  <2> HIDE DEF offset
  <2>2. /\ s.x + offset \in 0 .. display_char_per_line /\ s.mem + offset \in Int
        /\ (s.mem + offset) - s.mem = (s.x + offset) - s.x
    BY <1>1, <1>3, SoundFields, Sizes
  <2>3. Sound([s EXCEPT !.x = s.x + offset, !.mem = s.mem + offset])
    BY <2>2, Shifted
  <2> QED BY <2>1, <2>3
<1> QED BY <1>2, <1>3

(* After InLine the cursor is in a column of the screen.                   *)
LEMMA InLineSound ==
  ASSUME NEW s, Sound(s)
  PROVE  Sound(InLine(s)) /\ InLine(s).x < display_char_per_line
<1>1. CASE s.x >= display_char_per_line
  <2>1. /\ s.x - display_char_per_line = 0 /\ display_char_per_line \in Int
        /\ 0 \in 0 .. display_char_per_line
    BY <1>1, SoundFields, Sizes
  <2> DEFINE carried == Carried(s, display_char_per_line)
  <2>2. Sound(carried) /\ carried.x = 0
    BY <2>1, CarriedSound, SoundFields DEF Carried, Sound, Screen
  <2>3. InLine(s) = lf(carried)
    BY <1>1 DEF InLine
  <2> HIDE DEF carried
  <2>4. lf(carried).x = carried.x
    BY <2>2 DEF lf, scroll_up, Sound, Screen
  <2> QED BY <2>2, <2>3, <2>4, LfSound, Sizes
<1>2. CASE ~(s.x >= display_char_per_line)
  BY <1>2, SoundFields, Sizes DEF InLine
<1> QED BY <1>1, <1>2

LEMMA DisplaySound ==
  ASSUME NEW s, Sound(s)
  PROVE  Sound(Display(s))
<1> DEFINE address == InLine(s)
           w == Written(address, address.mem, INK)
<1>1. Sound(w) /\ w.x = address.x /\ address.x < display_char_per_line
  BY InLineSound, WrittenSound, ZenonT(40) DEF Written, Sound, Screen
<1>2. Display(s) = [w EXCEPT !.x = w.x + 1, !.mem = w.mem + 1]
  BY DEF Display
<1> HIDE DEF address, w
<1>3. /\ w.x + 1 \in 0 .. display_char_per_line /\ w.mem + 1 \in Int
      /\ (w.mem + 1) - w.mem = (w.x + 1) - w.x
  BY <1>1, SoundFields, Sizes
<1>4. Sound([w EXCEPT !.x = w.x + 1, !.mem = w.mem + 1])
  BY <1>1, <1>3, Shifted
<1> QED BY <1>2, <1>4

-----------------------------------------------------------------------------
LEMMA InitSound == KInit => ScreenInv
<1> SUFFICES ASSUME KInit PROVE ScreenInv
  OBVIOUS
<1>1. PICK x \in 0 .. display_char_per_line - 1, y \in 0 .. display_line_nr - 1 :
        screen = [x |-> x, y |-> y, mem |-> display_char_per_line * y + x,
                  origin |-> 0, end |-> Screenful,
                  video |-> [i \in Cell |-> IF /\ i < display_char_per_line
                                               /\ i >= display_char_per_line - 4
                                              THEN INK ELSE BLANK]]
  BY DEF KInit
<1>2. /\ display_char_per_line * y + x \in Int
      /\ display_char_per_line * y = y * display_char_per_line
  BY NextLine, Sizes
<1>3. screen \in Screen
  BY <1>1, <1>2, Sizes DEF Screen
<1>4. InStep(screen) /\ Fits(screen)
  BY <1>1, <1>2, NextLine, Sizes DEF InStep, Fits
<1>5. saved \in [x : 0 .. display_char_per_line, y : 0 .. display_line_nr]
  BY Sizes DEF KInit
<1> QED BY <1>3, <1>4, <1>5 DEF ScreenInv, Sound

LEMMA NextSound == ScreenInv /\ [KNext]_conVars => ScreenInv'
<1> SUFFICES ASSUME ScreenInv, [KNext]_conVars PROVE ScreenInv'
  OBVIOUS
<1>1. /\ Sound(screen) /\ screen.x \in Nat /\ screen.y \in Nat
      /\ saved \in [x : 0 .. display_char_per_line, y : 0 .. display_line_nr]
      /\ saved.x \in Nat /\ saved.y \in Nat
  BY SoundFields DEF ScreenInv
<1>2. Sound(screen)' <=> Sound(screen')
  BY DEF Sound, Screen, InStep, Fits
<1>3. CASE UNCHANGED conVars
  BY <1>1, <1>2, <1>3 DEF conVars, ScreenInv
<1>4. ASSUME NEW char, Normal(char) PROVE ScreenInv'
  <2>1. Sound(screen')
    BY <1>1, <1>4, LfSound, CrSound, DelSound, LeftSound, TabSound, DisplaySound DEF Normal
  <2> QED BY <1>1, <1>2, <1>4, <2>1 DEF Normal, ScreenInv
<1>5. CASE Esc
  BY <1>1, <1>2, <1>5 DEF Esc, ScreenInv
<1>6. ASSUME NEW char, Sequence(char) PROVE ScreenInv'
  <2>1. Sound(screen')
    BY <1>1, <1>6, GotoSound, LfSound, RiSound, SMTT(20) DEF Sequence
  <2>2. saved' \in [x : 0 .. display_char_per_line, y : 0 .. display_line_nr]
    BY <1>1, <1>6, SoundFields DEF Sequence
  <2> QED BY <1>2, <2>1, <2>2 DEF ScreenInv
<1> QED BY <1>3, <1>4, <1>5, <1>6 DEF KNext

(* The invariant: what a screen is, with the two properties as parts.      *)
THEOREM ConsoleInvariant == KSpec => []ScreenInv
BY InitSound, NextSound, PTL DEF KSpec

(* However text, tabs, scrolls and escape sequences follow each other, the *)
(* address that the kernel writes to is that of its cursor, in a window    *)
(* that never leaves the video memory, of whatever size it is.             *)
THEOREM ScreenStaysInStep == KSpec => []ScreenInStep
<1>1. ScreenInv => CursorInStep
  BY DEF ScreenInv, Sound, InStep, CursorInStep
<1>2. ScreenInv => WindowInMemory
  BY DEF ScreenInv, Sound, Fits, WindowInMemory
<1>3. ScreenInv => ScreenInStep
  BY <1>1, <1>2 DEF ScreenInStep
<1> QED BY <1>3, ConsoleInvariant, PTL

-----------------------------------------------------------------------------
(* The window and the text.  Distinct places in sight have distinct cells. *)
Line == 0 .. display_line_nr - 1
Column == 0 .. display_char_per_line - 1
Place(s, l, col) == s.origin + l * display_char_per_line + col

LEMMA LinesInOrder ==
  ASSUME NEW a \in Int, NEW b \in Int, a <= b
  PROVE  a * display_char_per_line <= b * display_char_per_line
BY Sizes

LEMMA PlaceInSight ==
  ASSUME NEW s, Sound(s), NEW l \in Line, NEW col \in Column
  PROVE  /\ Place(s, l, col) \in Cell
         /\ Place(s, l, col) >= s.origin /\ Place(s, l, col) < s.end
         /\ l < display_line_nr - 1 => Place(s, l, col) < s.end - display_char_per_line
         /\ l = display_line_nr - 1 => Place(s, l, col) >= s.end - display_char_per_line
         /\ l > 0 => Place(s, l, col) >= s.origin + display_char_per_line
         /\ l = 0 => Place(s, l, col) < s.origin + display_char_per_line
<1>1. /\ l \in Int /\ 0 <= l /\ l <= display_line_nr - 1
      /\ col \in Int /\ 0 <= col /\ col < display_char_per_line
  BY Sizes DEF Line, Column
<1>2. l * display_char_per_line \in Int /\ 0 <= l * display_char_per_line
  BY <1>1, LinesInOrder, NextLine, Sizes
<1>3. /\ (display_line_nr - 1) * display_char_per_line = Screenful - display_char_per_line
      /\ l * display_char_per_line <= (display_line_nr - 1) * display_char_per_line
  BY <1>1, LinesInOrder, NextLine, Sizes DEF Screenful
<1>4. l < display_line_nr - 1 =>
        l * display_char_per_line <= (display_line_nr - 1) * display_char_per_line - display_char_per_line
  BY <1>1, LinesInOrder, NextLine, Sizes
<1>5. l > 0 => display_char_per_line <= l * display_char_per_line
  BY <1>1, LinesInOrder, NextLine, Sizes
<1>6. /\ s.origin \in Nat /\ s.end = s.origin + Screenful /\ s.end <= video_mem_end
      /\ Place(s, l, col) = s.origin + l * display_char_per_line + col
  BY SoundFields DEF Place
<1> DEFINE start == l * display_char_per_line
<1>7. start \in Int /\ 0 <= start /\ start <= Screenful - display_char_per_line
  BY <1>2, <1>3
<1>8. Place(s, l, col) = s.origin + start + col
  BY <1>6
<1>9. /\ l < display_line_nr - 1 => start <= Screenful - display_char_per_line - display_char_per_line
      /\ l = display_line_nr - 1 => start = Screenful - display_char_per_line
      /\ l > 0 => display_char_per_line <= start
      /\ l = 0 => start = 0
  BY <1>1, <1>2, <1>3, <1>4, <1>5, Sizes
<1> HIDE DEF start
<1> QED BY <1>1, <1>6, <1>7, <1>8, <1>9, Sizes DEF Cell

LEMMA PlacesDiffer ==
  ASSUME NEW s, Sound(s), NEW l \in Int, NEW col \in Column, NEW m \in Int, NEW d \in Column,
         Place(s, l, col) = Place(s, m, d)
  PROVE  l = m /\ col = d
<1>1. l * display_char_per_line \in Int /\ m * display_char_per_line \in Int
  BY NextLine
<1>2. ~(l < m)
  <2> SUFFICES ASSUME l < m PROVE FALSE
    OBVIOUS
  <2>1. l * display_char_per_line + display_char_per_line <= m * display_char_per_line
    BY LinesInOrder, NextLine, Sizes
  <2> QED BY <1>1, <2>1, SoundFields, Sizes DEF Place, Column
<1>3. ~(m < l)
  <2> SUFFICES ASSUME m < l PROVE FALSE
    OBVIOUS
  <2>1. m * display_char_per_line + display_char_per_line <= l * display_char_per_line
    BY LinesInOrder, NextLine, Sizes
  <2> QED BY <1>1, <2>1, SoundFields, Sizes DEF Place, Column
<1>4. l = m
  BY <1>2, <1>3
<1>5. col = d
  <2>1. Place(s, m, col) = Place(s, m, d)
    BY <1>4
  <2>2. s.origin \in Int /\ col \in Int /\ d \in Int
    BY SoundFields, Sizes DEF Column
  <2> DEFINE start == m * display_char_per_line
  <2>3. s.origin + start + col = s.origin + start + d /\ start \in Int
    BY <1>1, <2>1 DEF Place
  <2> HIDE DEF start
  <2> QED BY <2>2, <2>3
<1> QED BY <1>4, <1>5

(* What the terminal makes of its grid.                                    *)
BlankLine == [col \in Column |-> BLANK]
Up(g) == [l \in Line |-> IF l = display_line_nr - 1 THEN BlankLine ELSE g[l + 1]]
Down(g) == [l \in Line |-> IF l = 0 THEN BlankLine ELSE g[l - 1]]

LEMMA InWindow ==
  ASSUME NEW s, NEW l \in Line, NEW col \in Column
  PROVE  Window(s)[l][col] = s.video[Place(s, l, col)]
BY DEF Window, Line, Column, Place

LEMMA SameGrid ==
  ASSUME NEW f, NEW g, f \in [Line -> [Column -> {BLANK, INK}]],
         g \in [Line -> [Column -> {BLANK, INK}]],
         \A l \in Line, col \in Column : f[l][col] = g[l][col]
  PROVE  f = g
<1>1. ASSUME NEW l \in Line PROVE f[l] = g[l]
  <2>1. f[l] \in [Column -> {BLANK, INK}] /\ g[l] \in [Column -> {BLANK, INK}]
    OBVIOUS
  <2> QED BY <2>1
<1> QED BY <1>1

LEMMA WindowType ==
  ASSUME NEW s, Sound(s)
  PROVE  Window(s) \in [Line -> [Column -> {BLANK, INK}]]
<1>1. ASSUME NEW l \in Line, NEW col \in Column PROVE s.video[Place(s, l, col)] \in {BLANK, INK}
  BY PlaceInSight, SoundFields
<1> QED BY <1>1 DEF Window, Line, Column, Place

LEMMA ShiftedTypes ==
  ASSUME NEW g \in [Line -> [Column -> {BLANK, INK}]]
  PROVE  /\ Up(g) \in [Line -> [Column -> {BLANK, INK}]]
         /\ Down(g) \in [Line -> [Column -> {BLANK, INK}]]
<1>1. BlankLine \in [Column -> {BLANK, INK}]
  BY DEF BlankLine
<1>2. ASSUME NEW l \in Line
      PROVE  /\ l # display_line_nr - 1 => l + 1 \in Line
             /\ l # 0 => l - 1 \in Line
  BY Sizes DEF Line
<1> QED BY <1>1, <1>2 DEF Up, Down

(* Both kinds of scroll show the same.                                     *)
LEMMA ScrollUpShows ==
  ASSUME NEW s, Sound(s)
  PROVE  Window(scroll_up(s)) = Up(Window(s))
<1> DEFINE t == scroll_up(s)
<1>1. Sound(t)
  BY ScrollUpSound
<1>2. ASSUME NEW l \in Line, NEW col \in Column
      PROVE  t.video[Place(t, l, col)] = Up(Window(s))[l][col]
  <2> DEFINE p == Place(s, l, col)
             q == Place(t, l, col)
  <2> SUFFICES t.video[q] = Up(Window(s))[l][col]
    OBVIOUS
  <2>1. p \in Int /\ q \in Cell /\ q - t.origin = p - s.origin
    <3> DEFINE start == l * display_char_per_line
    <3>1. l \in Int /\ col \in Int /\ start \in Int
      BY Sizes, NextLine DEF Line, Column
    <3>2. p = s.origin + start + col /\ q = t.origin + start + col
      BY DEF Place
    <3>3. q \in Cell
      BY <1>1, PlaceInSight
    <3>4. s.origin \in Nat /\ t.origin \in Nat
      BY <1>1, SoundFields
    <3> HIDE DEF start, p, q, t
    <3> QED BY <3>1, <3>2, <3>3, <3>4
  <2>2. /\ s.origin \in Nat /\ s.end = s.origin + Screenful /\ s.end <= video_mem_end
        /\ s.video \in [Cell -> {BLANK, INK}]
    BY SoundFields
  <2>3. CASE l = display_line_nr - 1
    <3>1. Up(Window(s))[l][col] = BLANK
      BY <2>3 DEF Up, BlankLine
    <3>2. p >= s.end - display_char_per_line /\ p < s.end
      BY <2>3, PlaceInSight
    <3>3. CASE s.end + display_char_per_line > video_mem_end
      <4>1. /\ t.origin = 0
            /\ t.video[q] = IF q < Screenful - display_char_per_line
                             THEN s.video[s.origin + display_char_per_line + q]
                             ELSE IF q < Screenful THEN BLANK ELSE s.video[q]
        BY <2>1, <3>3 DEF scroll_up, Sound, Screen
      <4> HIDE DEF p, q, t
      <4> QED BY <2>1, <2>2, <3>1, <3>2, <4>1, Sizes DEF Cell
    <3>4. CASE ~(s.end + display_char_per_line > video_mem_end)
      <4>1. /\ t.origin = s.origin + display_char_per_line
            /\ t.video[q] = IF q >= s.end /\ q < s.end + display_char_per_line
                   THEN BLANK ELSE s.video[q]
        BY <2>1, <3>4 DEF scroll_up, Sound, Screen
      <4> HIDE DEF p, q, t
      <4> QED BY <2>1, <2>2, <3>1, <3>2, <4>1, Sizes DEF Cell
    <3> QED BY <3>3, <3>4
  <2>4. CASE l # display_line_nr - 1
    <3>1. l + 1 \in Line /\ Place(s, l + 1, col) = p + display_char_per_line
      <4>1. l \in Int /\ col \in Int /\ l + 1 \in Line /\ l * display_char_per_line \in Int
        BY <2>4, Sizes, NextLine DEF Line, Column
      <4>2. (l + 1) * display_char_per_line = l * display_char_per_line + display_char_per_line
        BY <4>1, NextLine
      <4> QED BY <2>2, <4>1, <4>2, Sizes DEF Place
    <3>2. Up(Window(s))[l][col] = s.video[p + display_char_per_line]
      BY <2>4, <3>1, InWindow DEF Up
    <3>3. p < s.end - display_char_per_line
      BY <2>4, PlaceInSight, Sizes DEF Line
    <3>4. CASE s.end + display_char_per_line > video_mem_end
      <4>1. /\ t.origin = 0
            /\ t.video[q] = IF q < Screenful - display_char_per_line
                             THEN s.video[s.origin + display_char_per_line + q]
                             ELSE IF q < Screenful THEN BLANK ELSE s.video[q]
        BY <2>1, <3>4 DEF scroll_up, Sound, Screen
      <4> HIDE DEF p, q, t
      <4>2. /\ q < Screenful - display_char_per_line
            /\ s.origin + display_char_per_line + q = p + display_char_per_line
        BY <2>1, <2>2, <3>3, <4>1, Sizes DEF Cell
      <4> QED BY <3>2, <4>1, <4>2
    <3>5. CASE ~(s.end + display_char_per_line > video_mem_end)
      <4>1. /\ t.origin = s.origin + display_char_per_line
            /\ t.video[q] = IF q >= s.end /\ q < s.end + display_char_per_line
                   THEN BLANK ELSE s.video[q]
        BY <2>1, <3>5 DEF scroll_up, Sound, Screen
      <4> HIDE DEF p, q, t
      <4>2. q = p + display_char_per_line
        <5>1. q \in Int
          BY <2>1, Sizes DEF Cell
        <5> QED BY <2>1, <2>2, <4>1, <5>1, Sizes
      <4>3. q < s.end
        BY <2>1, <2>2, <3>3, <4>2, Sizes
      <4> QED BY <2>1, <2>2, <3>2, <4>1, <4>2, <4>3, Sizes DEF Cell
    <3> QED BY <3>4, <3>5
  <2> QED BY <2>3, <2>4
<1> HIDE DEF t
<1>3. /\ Window(t) \in [Line -> [Column -> {BLANK, INK}]]
      /\ Up(Window(s)) \in [Line -> [Column -> {BLANK, INK}]]
  BY <1>1, WindowType, ShiftedTypes
<1>4. \A l \in Line, col \in Column : Window(t)[l][col] = Up(Window(s))[l][col]
  BY <1>2, InWindow
<1>5. Window(t) = Up(Window(s))
  BY <1>3, <1>4, SameGrid
<1> QED BY <1>5 DEF t

LEMMA ScrollDownShows ==
  ASSUME NEW s, Sound(s)
  PROVE  Window(scroll_down(s)) = Down(Window(s))
<1> DEFINE t == scroll_down(s)
<1>1. Sound(t)
  BY ScrollDownSound
<1>2. ASSUME NEW l \in Line, NEW col \in Column
      PROVE  t.video[Place(t, l, col)] = Down(Window(s))[l][col]
  <2> DEFINE p == Place(s, l, col)
  <2>1. t.origin = s.origin /\ Place(t, l, col) = p
    BY DEF scroll_down, Sound, Screen, Place
  <2>2. p \in Cell /\ p >= s.origin /\ p < s.end /\ s.origin \in Nat /\ s.end \in Nat
    BY PlaceInSight, SoundFields
  <2>3. t.video[p] = IF p < s.origin \/ p >= s.end THEN s.video[p]
                     ELSE IF p < s.origin + display_char_per_line THEN BLANK
                     ELSE s.video[p - display_char_per_line]
    BY <2>2 DEF scroll_down, Sound, Screen
  <2>4. CASE l = 0
    <3>1. Down(Window(s))[l][col] = BLANK
      BY <2>4 DEF Down, BlankLine
    <3>2. p < s.origin + display_char_per_line
      BY <2>4, PlaceInSight
    <3> HIDE DEF p, t
    <3> QED BY <2>1, <2>2, <2>3, <3>1, <3>2, Sizes DEF Cell
  <2>5. CASE l # 0
    <3>1. l - 1 \in Line /\ Place(s, l - 1, col) = p - display_char_per_line
      <4>1. l \in Int /\ col \in Int /\ l - 1 \in Line /\ l * display_char_per_line \in Int
        BY <2>5, Sizes, NextLine DEF Line, Column
      <4>2. (l - 1) * display_char_per_line = l * display_char_per_line - display_char_per_line
        BY <4>1, NextLine
      <4> QED BY <2>2, <4>1, <4>2, Sizes DEF Place
    <3>2. Down(Window(s))[l][col] = s.video[p - display_char_per_line]
      BY <2>5, <3>1, InWindow DEF Down
    <3>3. p >= s.origin + display_char_per_line
      BY <2>5, PlaceInSight, Sizes DEF Line
    <3> HIDE DEF p, t
    <3> QED BY <2>1, <2>2, <2>3, <3>2, <3>3, Sizes DEF Cell
  <2> QED BY <2>4, <2>5
<1> HIDE DEF t
<1>3. /\ Window(t) \in [Line -> [Column -> {BLANK, INK}]]
      /\ Down(Window(s)) \in [Line -> [Column -> {BLANK, INK}]]
  BY <1>1, WindowType, ShiftedTypes
<1>4. \A l \in Line, col \in Column : Window(t)[l][col] = Down(Window(s))[l][col]
  BY <1>2, InWindow
<1>5. Window(t) = Down(Window(s))
  BY <1>3, <1>4, SameGrid
<1> QED BY <1>5 DEF t

(* A character at the cursor, which below the last line is out of sight.   *)
Marked(g, column, line, kind) ==
  IF line \in Line THEN [g EXCEPT ![line][column] = kind] ELSE g

LEMMA MarkedType ==
  ASSUME NEW g \in [Line -> [Column -> {BLANK, INK}]], NEW column, NEW line,
         NEW kind \in {BLANK, INK}
  PROVE  Marked(g, column, line, kind) \in [Line -> [Column -> {BLANK, INK}]]
<1>1. CASE line \in Line
  <2>1. [g[line] EXCEPT ![column] = kind] \in [Column -> {BLANK, INK}]
    BY <1>1
  <2>2. Marked(g, column, line, kind) = [g EXCEPT ![line] = [g[line] EXCEPT ![column] = kind]]
    BY <1>1 DEF Marked
  <2> QED BY <1>1, <2>1, <2>2
<1>2. CASE line \notin Line
  BY <1>2 DEF Marked
<1> QED BY <1>1, <1>2

LEMMA WrittenShows ==
  ASSUME NEW s, Sound(s), s.x \in Column, NEW char \in {BLANK, INK}
  PROVE  Window(Written(s, s.mem, char)) = Marked(Window(s), s.x, s.y, char)
<1> DEFINE t == Written(s, s.mem, char)
           g == Marked(Window(s), s.x, s.y, char)
<1>1. Sound(t)
  BY WrittenSound
<1>2. /\ Window(s) \in [Line -> [Column -> {BLANK, INK}]]
      /\ g \in [Line -> [Column -> {BLANK, INK}]]
  BY WindowType, MarkedType
<1>3. s.mem = Place(s, s.y, s.x) /\ s.y \in Int /\ s.video \in [Cell -> {BLANK, INK}]
  BY SoundFields DEF Place
<1>4. /\ t.origin = s.origin
      /\ t.video = IF s.mem \in Cell THEN [s.video EXCEPT ![s.mem] = char] ELSE s.video
  BY DEF Written, Sound, Screen
<1>5. ASSUME NEW l \in Line, NEW col \in Column
      PROVE  t.video[Place(t, l, col)] = g[l][col]
  <2>1. Place(t, l, col) = Place(s, l, col) /\ Place(s, l, col) \in Cell /\ l \in Int
    BY <1>4, PlaceInSight, Sizes DEF Place, Line
  <2>2. Window(s)[l][col] = s.video[Place(s, l, col)]
    BY InWindow
  <2>3. CASE l = s.y /\ col = s.x
    <3>1. s.mem \in Cell /\ t.video[s.mem] = char
      BY <1>3, <1>4, <2>1, <2>3
    <3>2. g[l][col] = char
      <4>1. g = [Window(s) EXCEPT ![l] = [Window(s)[l] EXCEPT ![col] = char]]
        BY <2>3 DEF Marked
      <4>2. Window(s)[l] \in [Column -> {BLANK, INK}]
        BY <1>2
      <4> HIDE DEF g
      <4> QED BY <1>2, <4>1, <4>2
    <3> QED BY <1>3, <2>1, <2>3, <3>1, <3>2
  <2>4. CASE ~(l = s.y /\ col = s.x)
    <3>1. Place(s, l, col) # s.mem
      BY <1>3, <2>1, <2>4, PlacesDiffer
    <3>2. t.video[Place(s, l, col)] = s.video[Place(s, l, col)]
      BY <1>3, <1>4, <2>1, <3>1
    <3>3. g[l][col] = Window(s)[l][col]
      <4>1. CASE s.y \in Line
        <5>1. g = [Window(s) EXCEPT ![s.y] = [Window(s)[s.y] EXCEPT ![s.x] = char]]
          BY <4>1 DEF Marked
        <5>2. Window(s)[s.y] \in [Column -> {BLANK, INK}]
          BY <1>2, <4>1
        <5> HIDE DEF g
        <5> QED BY <1>2, <2>4, <4>1, <5>1, <5>2
      <4>2. CASE s.y \notin Line
        BY <4>2 DEF Marked
      <4> QED BY <4>1, <4>2
    <3> QED BY <2>1, <2>2, <3>2, <3>3
  <2> QED BY <2>3, <2>4
<1>6. \A l \in Line, col \in Column : Window(t)[l][col] = g[l][col]
  BY <1>5, InWindow
<1>7. Window(t) \in [Line -> [Column -> {BLANK, INK}]]
  BY <1>1, WindowType
<1> HIDE DEF t, g
<1>8. Window(t) = g
  BY <1>2, <1>6, <1>7, SameGrid
<1> QED BY <1>8 DEF t, g

(* What does not touch the memory or the window changes nothing in sight.  *)
LEMMA Kept ==
  ASSUME NEW s, NEW t, t.video = s.video, t.origin = s.origin
  PROVE  Window(t) = Window(s)
BY DEF Window

LEMMA LfShows ==
  ASSUME NEW s, Sound(s)
  PROVE  /\ lf(s).x = s.x
         /\ s.y < display_line_nr - 1 => lf(s).y = s.y + 1 /\ Window(lf(s)) = Window(s)
         /\ s.y >= display_line_nr - 1 => lf(s).y = s.y /\ Window(lf(s)) = Up(Window(s))
<1>1. s.y \in Int /\ display_line_nr \in Int
  BY SoundFields, Sizes
<1>2. CASE s.y < display_line_nr - 1
  <2>1. lf(s) = [s EXCEPT !.y = @ + 1, !.mem = @ + display_char_per_line]
    BY <1>1, <1>2 DEF lf
  <2>2. lf(s).x = s.x /\ lf(s).y = s.y + 1 /\ lf(s).video = s.video /\ lf(s).origin = s.origin
    BY <2>1 DEF Sound, Screen
  <2> QED BY <1>1, <1>2, <2>2, Kept
<1>3. CASE s.y >= display_line_nr - 1
  <2>1. lf(s) = scroll_up(s)
    BY <1>1, <1>3 DEF lf
  <2>2. scroll_up(s).x = s.x /\ scroll_up(s).y = s.y
    BY DEF scroll_up, Sound, Screen
  <2> QED BY <1>1, <1>3, <2>1, <2>2, ScrollUpShows
<1> QED BY <1>1, <1>2, <1>3

-----------------------------------------------------------------------------
(* Every step of the console is one of the terminal, or shows nothing.     *)
LEMMA TerminalNames ==
  /\ Shows!Line = Line /\ Shows!Column = Column
  /\ Shows!ShiftedUp = Up(Window(screen)) /\ Shows!ShiftedDown = Down(Window(screen))
  /\ \A g, column, line, kind : Shows!Shown(g, column, line, kind) = Marked(g, column, line, kind)
BY DEF Shows!Line, Shows!Column, Shows!ShiftedUp, Shows!ShiftedDown, Shows!BlankLine, Shows!Shown,
       Shows!BLANK, Line, Column, Up, Down, BlankLine, Marked, BLANK

LEMMA WindowPrimed == Window(screen)' = Window(screen')
BY DEF Window

LEMMA LineFeedStep ==
  ASSUME NEW s, Sound(s), s.y = screen.y, Window(s) = Window(screen), screen' = lf(s)
  PROVE  Shows!LineFeed(s.x)
<1>1. s.y \in Int /\ display_line_nr \in Int
  BY SoundFields, Sizes
<1>2. CASE s.y < display_line_nr - 1
  BY <1>2, LfShows, WindowPrimed DEF Shows!LineFeed, Shows!GoTo
<1>3. CASE s.y >= display_line_nr - 1
  BY <1>3, LfShows, WindowPrimed, TerminalNames DEF Shows!LineFeed, Shows!GoTo
<1> QED BY <1>1, <1>2, <1>3

LEMMA TabStep ==
  ASSUME Sound(screen), screen' = Tab(screen)
  PROVE  Shows!Tab
<1> DEFINE offset == TabStop - (screen.x % TabStop)
<1>1. offset \in 1 .. TabStop /\ screen.x \in Int /\ Shows!NextStop = screen.x + offset
  BY SoundFields, Sizes DEF Shows!NextStop
<1>2. CASE screen.x + offset > display_char_per_line
  <2> DEFINE carried == Carried(screen, display_char_per_line - offset)
  <2>1. screen' = lf(carried)
    BY <1>2 DEF Tab
  <2>2. /\ carried.x = screen.x - (display_char_per_line - offset) /\ carried.y = screen.y
        /\ carried.video = screen.video /\ carried.origin = screen.origin
    BY DEF Carried, Sound, Screen
  <2> HIDE DEF offset
  <2>3. /\ display_char_per_line - offset \in Int
        /\ screen.x - (display_char_per_line - offset) \in 0 .. display_char_per_line
        /\ screen.x - (display_char_per_line - offset) = Shows!NextStop - display_char_per_line
    BY <1>1, <1>2, SoundFields, Sizes
  <2>4. Sound(carried)
    BY <2>3, CarriedSound
  <2> HIDE DEF carried
  <2>5. Shows!LineFeed(carried.x)
    BY <2>1, <2>2, <2>4, Kept, LineFeedStep
  <2>6. carried.x = Shows!NextStop - display_char_per_line
    BY <2>2, <2>3
  <2> QED BY <1>1, <1>2, <2>5, <2>6 DEF Shows!Tab
<1>3. CASE ~(screen.x + offset > display_char_per_line)
  <2>1. screen' = [screen EXCEPT !.x = screen.x + offset, !.mem = screen.mem + offset]
    BY <1>3 DEF Tab
  <2> HIDE DEF offset
  <2>2. /\ screen'.x = screen.x + offset /\ screen'.y = screen.y
        /\ screen'.video = screen.video /\ screen'.origin = screen.origin
    BY <2>1 DEF Sound, Screen
  <2>3. Window(screen)' = Window(screen)
    BY <2>2, Kept, WindowPrimed
  <2>4. Shows!NextStop <= display_char_per_line
    BY <1>1, <1>3, Sizes
  <2> QED BY <1>1, <2>2, <2>3, <2>4 DEF Shows!Tab, Shows!GoTo
<1> QED BY <1>2, <1>3

LEMMA DisplayShows ==
  ASSUME NEW s, Sound(s)
  PROVE  /\ Display(s).x = InLine(s).x + 1 /\ Display(s).y = InLine(s).y
         /\ Window(Display(s)) = Marked(Window(InLine(s)), InLine(s).x, InLine(s).y, INK)
<1> DEFINE address == InLine(s)
           w == Written(address, address.mem, INK)
           t == [w EXCEPT !.x = w.x + 1, !.mem = w.mem + 1]
<1>1. Sound(address) /\ address.x \in Column
  <2>1. Sound(address) /\ address.x < display_char_per_line
    BY InLineSound
  <2> HIDE DEF address
  <2> QED BY <2>1, SoundFields, Sizes DEF Column
<1>2. Sound(w) /\ w.x = address.x /\ w.y = address.y
  BY <1>1, WrittenSound DEF Written, Sound, Screen
<1>3. Window(w) = Marked(Window(address), address.x, address.y, INK)
  BY <1>1, WrittenShows
<1>4. Display(s) = t
  BY DEF Display
<1> HIDE DEF address, w
<1>5. t.x = w.x + 1 /\ t.y = w.y /\ t.video = w.video /\ t.origin = w.origin
  BY <1>2 DEF Sound, Screen
<1> HIDE DEF t
<1>6. Window(t) = Window(w)
  BY <1>5, Kept
<1>7. t.x = address.x + 1 /\ t.y = address.y /\ Window(t) = Marked(Window(address), address.x, address.y, INK)
  BY <1>2, <1>3, <1>5, <1>6
<1> QED BY <1>4, <1>7 DEF address

LEMMA DisplayStep ==
  ASSUME Sound(screen), screen' = Display(screen)
  PROVE  Shows!Show(INK)
<1>1. screen.x \in Int /\ screen.x <= display_char_per_line /\ screen.y \in Int
  BY SoundFields, Sizes
<1>2. CASE screen.x < display_char_per_line
  <2>1. InLine(screen) = screen
    BY <1>1, <1>2, Sizes DEF InLine
  <2> QED BY <1>1, <1>2, <2>1, DisplayShows, WindowPrimed, TerminalNames
       DEF Shows!Show, Shows!GoTo
<1>3. CASE screen.x = display_char_per_line
  <2> DEFINE carried == Carried(screen, display_char_per_line)
  <2>1. /\ screen.x - display_char_per_line = 0 /\ display_char_per_line \in Int
        /\ 0 \in 0 .. display_char_per_line
    BY <1>1, <1>3, Sizes
  <2>2. /\ Sound(carried) /\ carried.x = 0 /\ carried.y = screen.y
        /\ carried.video = screen.video /\ carried.origin = screen.origin
    BY <2>1, CarriedSound DEF Carried, Sound, Screen
  <2>3. InLine(screen) = lf(carried)
    BY <1>3, Sizes DEF InLine
  <2> HIDE DEF carried
  <2>4. Window(carried) = Window(screen)
    BY <2>2, Kept
  <2>5. /\ screen'.x = 1 /\ screen'.y = lf(carried).y
        /\ Window(screen') = Marked(Window(lf(carried)), 0, lf(carried).y, INK)
    BY <2>2, <2>3, DisplayShows, LfShows
  <2>6. CASE screen.y < display_line_nr - 1
    BY <1>1, <1>3, <2>2, <2>4, <2>5, <2>6, LfShows, WindowPrimed, TerminalNames
       DEF Shows!Show, Shows!GoTo
  <2>7. CASE screen.y >= display_line_nr - 1
    BY <1>1, <1>3, <2>2, <2>4, <2>5, <2>7, LfShows, WindowPrimed, TerminalNames
       DEF Shows!Show, Shows!GoTo
  <2> QED BY <1>1, <2>6, <2>7, Sizes
<1> QED BY <1>1, <1>2, <1>3, Sizes

LEMMA ReverseStep ==
  ASSUME Sound(screen), screen' = ri(screen)
  PROVE  Shows!ReverseLineFeed
<1>1. screen.y \in Nat
  BY SoundFields
<1>2. CASE screen.y > 0
  <2>1. /\ screen'.x = screen.x /\ screen'.y = screen.y - 1
        /\ screen'.video = screen.video /\ screen'.origin = screen.origin
    BY <1>2 DEF ri, Sound, Screen
  <2> QED BY <1>2, <2>1, Kept, WindowPrimed DEF Shows!ReverseLineFeed, Shows!GoTo
<1>3. CASE screen.y = 0
  <2>1. screen' = scroll_down(screen)
    BY <1>3 DEF ri
  <2>2. screen'.x = screen.x /\ screen'.y = screen.y
    BY <2>1 DEF scroll_down, Sound, Screen
  <2>3. Window(screen') = Down(Window(screen))
    BY <2>1, ScrollDownShows
  <2> QED BY <1>3, <2>2, <2>3, WindowPrimed, TerminalNames DEF Shows!ReverseLineFeed, Shows!GoTo
<1> QED BY <1>1, <1>2, <1>3

(* A move of the cursor on the screen, or to one step beyond.              *)
LEMMA MoveStep ==
  ASSUME Sound(screen), screen'.x \in 0 .. display_char_per_line,
         screen'.y \in 0 .. display_line_nr,
         screen'.video = screen.video, screen'.origin = screen.origin
  PROVE  Shows!TNext
<1>1. Window(screen)' = Window(screen)
  BY Kept, WindowPrimed
<1> QED BY <1>1 DEF Shows!TNext, Shows!GoTo

LEMMA GotoStep ==
  ASSUME Sound(screen), NEW x \in Nat, NEW y \in Nat, screen' = cur_goto_pos(screen, x, y)
  PROVE  Shows!TNext \/ screen' = screen
<1>1. CASE x > display_char_per_line \/ y > display_line_nr
  BY <1>1 DEF cur_goto_pos
<1>2. CASE ~(x > display_char_per_line \/ y > display_line_nr)
  <2>1. x \in 0 .. display_char_per_line /\ y \in 0 .. display_line_nr
    BY <1>2, Sizes
  <2>2. /\ screen'.x = x /\ screen'.y = y
        /\ screen'.video = screen.video /\ screen'.origin = screen.origin
    BY <1>2 DEF cur_goto_pos, Sound, Screen
  <2> QED BY <2>1, <2>2, MoveStep
<1> QED BY <1>1, <1>2

LEMMA LeftStep ==
  ASSUME Sound(screen), screen' = Left(screen)
  PROVE  Shows!TNext \/ screen' = screen
<1>1. CASE screen.x = 0
  BY <1>1 DEF Left
<1>2. CASE screen.x # 0
  <2>1. /\ screen'.x = screen.x - 1 /\ screen'.y = screen.y
        /\ screen'.video = screen.video /\ screen'.origin = screen.origin
    BY <1>2 DEF Left, Sound, Screen
  <2>2. screen.x - 1 \in 0 .. display_char_per_line /\ screen.y \in 0 .. display_line_nr
    BY <1>2, SoundFields, Sizes
  <2> QED BY <2>1, <2>2, MoveStep
<1> QED BY <1>1, <1>2

LEMMA DelStep ==
  ASSUME Sound(screen), screen' = del(screen)
  PROVE  Shows!Erase \/ screen' = screen
<1>1. CASE screen.x = 0
  BY <1>1 DEF del
<1>2. CASE screen.x # 0
  <2> DEFINE address == Left(screen)
  <2>1. /\ address.x = screen.x - 1 /\ address.y = screen.y
        /\ address.video = screen.video /\ address.origin = screen.origin
    BY <1>2 DEF Left, Sound, Screen
  <2>2. Sound(address)
    BY LeftSound
  <2>3. screen' = Written(address, address.mem, BLANK)
    BY <1>2 DEF del
  <2>4. screen'.x = address.x /\ screen'.y = address.y
    BY <2>2, <2>3 DEF Written, Sound, Screen
  <2> HIDE DEF address
  <2>5. address.x \in Column /\ screen.x > 0
    <3>1. screen.x \in Int /\ 0 <= screen.x /\ screen.x <= display_char_per_line
      BY SoundFields, Sizes
    <3> QED BY <1>2, <2>1, <3>1, Sizes DEF Column
  <2>6. Window(screen') = Marked(Window(screen), screen.x - 1, screen.y, BLANK)
    BY <2>1, <2>2, <2>3, <2>5, Kept, WrittenShows
  <2> QED BY <2>1, <2>4, <2>5, <2>6, WindowPrimed, TerminalNames
          DEF Shows!Erase, Shows!GoTo, Shows!BLANK, BLANK
<1> QED BY <1>1, <1>2

LEMMA CrStep ==
  ASSUME Sound(screen), screen' = cr(screen)
  PROVE  Shows!TNext
<1>1. /\ screen'.x = 0 /\ screen'.y = screen.y
      /\ screen'.video = screen.video /\ screen'.origin = screen.origin
  BY DEF cr, Sound, Screen
<1>2. 0 \in 0 .. display_char_per_line /\ screen.y \in 0 .. display_line_nr
  BY SoundFields, Sizes
<1> QED BY <1>1, <1>2, MoveStep

LEMMA TerminalInit == KInit => Shows!TInit
<1> SUFFICES ASSUME KInit PROVE Shows!TInit
  OBVIOUS
<1>1. Sound(screen)
  BY InitSound DEF ScreenInv
<1>2. screen.x \in 0 .. display_char_per_line /\ screen.y \in 0 .. display_line_nr
  BY <1>1, SoundFields
<1>3. Window(screen) \in [Shows!Line -> [Shows!Column -> {BLANK, INK}]]
  BY <1>1, WindowType, TerminalNames
<1> QED BY <1>2, <1>3 DEF Shows!TInit

LEMMA TerminalStep ==
  ASSUME ScreenInv, [KNext]_conVars
  PROVE  [Shows!TNext]_(Shows!terminalVars)
<1>1. /\ Sound(screen) /\ screen.x \in Nat /\ screen.y \in Nat
      /\ saved.x \in Nat /\ saved.y \in Nat
  BY SoundFields DEF ScreenInv
<1>2. ASSUME screen' = screen PROVE UNCHANGED Shows!terminalVars
  BY <1>2, WindowPrimed DEF Shows!terminalVars
<1>3. ASSUME screen' = lf(screen) PROVE Shows!TNext
  BY <1>1, <1>3, LineFeedStep DEF Shows!TNext
<1>4. ASSUME NEW char, Normal(char) PROVE Shows!TNext \/ screen' = screen
  <2>1. CASE screen' = cr(screen)
    BY <1>1, <2>1, CrStep
  <2>2. CASE screen' = del(screen)
    BY <1>1, <2>2, DelStep DEF Shows!TNext
  <2>3. CASE screen' = Left(screen)
    BY <1>1, <2>3, LeftStep
  <2>4. CASE screen' = Tab(screen)
    BY <1>1, <2>4, TabStep DEF Shows!TNext
  <2>5. CASE screen' = Display(screen)
    BY <1>1, <2>5, DisplayStep DEF Shows!TNext
  <2> QED BY <1>3, <1>4, <2>1, <2>2, <2>3, <2>4, <2>5 DEF Normal
<1>5. ASSUME NEW char, Sequence(char) PROVE Shows!TNext \/ screen' = screen
  <2>1. CASE screen' = cur_goto_pos(screen, 0, screen.y + 1)
    BY <1>1, <2>1, GotoStep
  <2>2. CASE screen' = cur_goto_pos(screen, saved.x, saved.y)
    BY <1>1, <2>2, GotoStep
  <2>3. CASE screen' = ri(screen)
    BY <1>1, <2>3, ReverseStep DEF Shows!TNext
  <2> QED BY <1>3, <1>5, <2>1, <2>2, <2>3 DEF Sequence
<1> QED BY <1>2, <1>4, <1>5 DEF KNext, Esc, conVars

(* The console implements the terminal, for every size of screen and of    *)
(* video memory: whether a scroll moves the window or the text cannot be   *)
(* seen.                                                                   *)
THEOREM TerminalImplemented == KSpec => ImplementsTerminal
<1>1. ScreenInv /\ [KNext]_conVars => [Shows!TNext]_(Shows!terminalVars)
  BY TerminalStep
<1> QED BY <1>1, TerminalInit, ConsoleInvariant, PTL
        DEF KSpec, ImplementsTerminal, Shows!TSpec

-----------------------------------------------------------------------------
(* Printk: tasks that print.                                               *)
Texts == {Sent(message) : message \in Message}
Piece == [by : Task, of : Texts, i : Nat]
Whole == shown.i = Len(shown.of)

(* A task that waits for nothing in the queue, whoever has the CPU.        *)
Idle(t) == at[t] = "user" \/ (at[t] = "loop" /\ nr[t] = 0)

(* Task t has shown the first k characters of its text, and the others are *)
(* what the queue holds.                                                   *)
Printing(t, of, k) ==
  /\ unread = Len(of) - k
  /\ \A j \in 0 .. unread - 1 : buf[INC(tail, j)] = [by |-> t, of |-> of, i |-> k + 1 + j]
  /\ k = 0 => Whole
  /\ k # 0 => shown = [by |-> t, of |-> of, i |-> k]
  /\ \/ at[t] = "loop" /\ nr[t] = unread
     \/ /\ at[t] = "read" /\ unread > 0 /\ nr[t] = unread - 1
        /\ c[t] = [char |-> [by |-> t, of |-> of, i |-> k + 1], from |-> tail]

PrintType ==
  /\ head \in Position /\ tail \in Position /\ unread \in Nat
  /\ nr \in [Task -> Nat] /\ at \in [Task -> {"user", "loop", "read"}]
  /\ running \in Task /\ IF_FLAG \in BOOLEAN
  /\ buf \in [Position -> Piece] /\ shown \in Piece
  /\ c \in [Task -> [char : Piece, from : Position]]

PrintInv ==
  /\ PrintType
  /\ unread = READ_SPACE(head, tail)
  /\ \A t \in Task : IF_FLAG \/ t # running => Idle(t)
  /\ IF_FLAG => unread = 0 /\ Whole
  /\ ~ IF_FLAG => \E of \in Texts : \E k \in 0 .. Len(of) : Printing(running, of, k)

-----------------------------------------------------------------------------
(* Positions in the ring.                                                  *)
LEMMA Remainder ==
  ASSUME NEW a \in Int, - TTY_BUF_SIZE <= a, a < 2 * TTY_BUF_SIZE
  PROVE  a % TTY_BUF_SIZE = IF a < 0 THEN a + TTY_BUF_SIZE
                            ELSE IF a < TTY_BUF_SIZE THEN a ELSE a - TTY_BUF_SIZE
<1> DEFINE N == TTY_BUF_SIZE
<1>1. N \in Nat /\ N > 0
  BY PrintkAssumption
<1> QED BY <1>1

LEMMA IncPosition ==
  ASSUME NEW p \in Position, NEW n \in Position
  PROVE  /\ INC(p, n) \in Position
         /\ INC(p, n) = IF p + n < TTY_BUF_SIZE THEN p + n ELSE p + n - TTY_BUF_SIZE
<1>1. TTY_BUF_SIZE \in Nat /\ TTY_BUF_SIZE > 0
  BY PrintkAssumption
<1>2. p + n \in Int /\ - TTY_BUF_SIZE <= p + n /\ p + n < 2 * TTY_BUF_SIZE /\ p + n >= 0
  BY <1>1 DEF Position
<1> DEFINE a == p + n
<1>3. a \in Int /\ - TTY_BUF_SIZE <= a /\ a < 2 * TTY_BUF_SIZE /\ a >= 0
  BY <1>2
<1>4. INC(p, n) = a % TTY_BUF_SIZE
  BY DEF INC
<1> HIDE DEF a
<1>5. a % TTY_BUF_SIZE = IF a < TTY_BUF_SIZE THEN a ELSE a - TTY_BUF_SIZE
  BY <1>1, <1>3, Remainder
<1> QED BY <1>1, <1>3, <1>4, <1>5 DEF Position, a

LEMMA SpacePosition ==
  ASSUME NEW h \in Position, NEW t \in Position
  PROVE  /\ READ_SPACE(h, t) \in Position
         /\ READ_SPACE(h, t) = IF t <= h THEN h - t ELSE h - t + TTY_BUF_SIZE
<1>1. TTY_BUF_SIZE \in Nat /\ TTY_BUF_SIZE > 0
  BY PrintkAssumption
<1>2. h - t \in Int /\ - TTY_BUF_SIZE <= h - t /\ h - t < TTY_BUF_SIZE
  BY <1>1 DEF Position
<1>3. (h - t) % TTY_BUF_SIZE = IF h - t < 0 THEN h - t + TTY_BUF_SIZE ELSE h - t
  BY <1>1, <1>2, Remainder
<1> QED BY <1>1, <1>2, <1>3 DEF Position, READ_SPACE

LEMMA SpaceOfInc ==
  ASSUME NEW p \in Position, NEW n \in Position
  PROVE  READ_SPACE(INC(p, n), p) = n
<1>1. TTY_BUF_SIZE \in Nat /\ p \in Nat /\ n \in Nat /\ p < TTY_BUF_SIZE /\ n < TTY_BUF_SIZE
  BY PrintkAssumption DEF Position
<1>2. INC(p, n) \in Position
  BY IncPosition
<1> QED BY <1>1, <1>2, IncPosition, SpacePosition

LEMMA IncNext ==
  ASSUME NEW p \in Position, NEW n \in Nat, n + 1 \in Position
  PROVE  INC(INC(p, 1), n) = INC(p, n + 1)
<1>1. TTY_BUF_SIZE \in Nat /\ p \in Nat /\ p < TTY_BUF_SIZE /\ n + 1 < TTY_BUF_SIZE
  BY PrintkAssumption DEF Position
<1>2. n \in Position /\ 1 \in Position
  BY <1>1 DEF Position
<1>3. INC(p, 1) \in Position
  BY <1>2, IncPosition
<1> QED BY <1>1, <1>2, <1>3, IncPosition

LEMMA SpaceNext ==
  ASSUME NEW h \in Position, NEW t \in Position, READ_SPACE(h, t) > 0
  PROVE  INC(t, 1) \in Position /\ READ_SPACE(h, INC(t, 1)) = READ_SPACE(h, t) - 1
<1>1. /\ TTY_BUF_SIZE \in Nat /\ h \in Nat /\ t \in Nat
      /\ h < TTY_BUF_SIZE /\ t < TTY_BUF_SIZE
  BY PrintkAssumption DEF Position
<1>2. 1 \in Position
  <2>1. READ_SPACE(h, t) \in Position
    BY SpacePosition
  <2> QED BY <1>1, <2>1 DEF Position
<1>3. INC(t, 1) \in Position
  BY <1>2, IncPosition
<1> DEFINE q == INC(t, 1)
<1>4. q = IF t + 1 < TTY_BUF_SIZE THEN t + 1 ELSE t + 1 - TTY_BUF_SIZE
  BY <1>2, IncPosition
<1>5. READ_SPACE(h, q) = IF q <= h THEN h - q ELSE h - q + TTY_BUF_SIZE
  BY <1>3, SpacePosition
<1>6. READ_SPACE(h, t) = IF t <= h THEN h - t ELSE h - t + TTY_BUF_SIZE
  BY SpacePosition
<1>7. READ_SPACE(h, q) = READ_SPACE(h, t) - 1
  <2> HIDE DEF q
  <2> QED BY <1>1, <1>4, <1>5, <1>6
<1> QED BY <1>3, <1>7

LEMMA SpaceEmpty ==
  ASSUME NEW h \in Position, NEW t \in Position, READ_SPACE(h, t) = 0
  PROVE  h = t
<1>1. /\ TTY_BUF_SIZE \in Nat /\ h \in Nat /\ t \in Nat
      /\ h < TTY_BUF_SIZE /\ t < TTY_BUF_SIZE
  BY PrintkAssumption DEF Position
<1> QED BY <1>1, SpacePosition

LEMMA ZeroPosition == 0 \in Position /\ (\A p \in Position : INC(p, 0) = p)
<1>1. 0 \in Position
  BY PrintkAssumption DEF Position
<1>2. ASSUME NEW p \in Position PROVE INC(p, 0) = p
  <2>1. p \in Nat /\ p < TTY_BUF_SIZE /\ TTY_BUF_SIZE \in Nat
    BY PrintkAssumption DEF Position
  <2> QED BY <2>1, <1>1, IncPosition
<1> QED BY <1>1, <1>2

-----------------------------------------------------------------------------
(* Induction over the natural numbers, for sets.                           *)
LEMMA LeastNumber ==
  ASSUME NEW S \in SUBSET Nat, S # {}
  PROVE  \E n \in S : \A m \in S : n <= m
<1> DEFINE R == {ss \in Nat \X Nat : ss[1] < ss[2]}
<1>1. IsWellFoundedOn(R, Nat)
  BY NatLessThanWellFounded DEF OpToRel
<1>2. \A m, n \in Nat : <<m, n>> \in R <=> m < n
  OBVIOUS
<1> HIDE DEF R
<1>3. PICK n \in S : \A m \in S : ~ (<<m, n>> \in R)
  BY <1>1, WFMin, Zenon
<1>4. \A m \in S : n <= m
  <2> TAKE m \in S
  <2>1. m \in Nat /\ n \in Nat /\ ~ (<<m, n>> \in R)
    BY <1>3
  <2> QED BY <2>1, <1>2
<1> QED BY <1>4

LEMMA SetInduction ==
  ASSUME NEW S, 0 \in S, \A n \in Nat : n \in S => n + 1 \in S
  PROVE  \A n \in Nat : n \in S
<1> SUFFICES ASSUME NEW m \in Nat, m \notin S PROVE FALSE
  OBVIOUS
<1> DEFINE T == {n \in Nat : n \notin S}
<1>1. PICK n \in T : \A k \in T : n <= k
  BY LeastNumber
<1>2. n - 1 \in Nat /\ n - 1 \notin T
  BY <1>1
<1> QED BY <1>1, <1>2

-----------------------------------------------------------------------------
(* What is put into the queue for a line: it fits, and its only line feed  *)
(* is its last character.                                                  *)
Expand(message, e, i) ==
  IF message[i] = "LF" THEN e \o <<"CR", "LF">> ELSE Append(e, message[i])

IsExpansion(message, e) ==
  e = [i \in 0 .. Len(message) |-> IF i = 0 THEN <<>> ELSE Expand(message, e[i - 1], i)]

LEMMA ExpansionExists ==
  ASSUME NEW message, Len(message) \in Nat
  PROVE  \E e : IsExpansion(message, e)
<1> DEFINE UpTo(e, n) == e = [i \in 0 .. n |-> IF i = 0 THEN <<>> ELSE Expand(message, e[i - 1], i)]
           S == {n \in Nat : \E e : UpTo(e, n)}
<1>1. 0 \in S
  <2>1. UpTo([i \in 0 .. 0 |-> <<>>], 0)
    OBVIOUS
  <2> QED BY <2>1
<1>2. ASSUME NEW n \in Nat, n \in S PROVE n + 1 \in S
  <2>1. PICK e : UpTo(e, n)
    BY <1>2
  <2> DEFINE v == [i \in 0 .. n + 1 |-> IF i = n + 1 THEN Expand(message, e[n], n + 1) ELSE e[i]]
  <2>2. \A i \in 0 .. n : v[i] = e[i]
    OBVIOUS
  <2>3. ASSUME NEW i \in 0 .. n + 1
        PROVE  v[i] = IF i = 0 THEN <<>> ELSE Expand(message, v[i - 1], i)
    <3>1. CASE i = 0
      <4>1. v[i] = e[i] /\ e[0] = <<>>
        BY <2>1, <3>1
      <4> QED BY <4>1, <3>1
    <3>2. CASE i = n + 1
      <4>1. v[i - 1] = e[n] /\ v[i] = Expand(message, e[n], n + 1)
        BY <3>2
      <4> QED BY <4>1, <3>2
    <3>3. CASE i \in 1 .. n
      <4>1. v[i] = e[i] /\ v[i - 1] = e[i - 1] /\ e[i] = Expand(message, e[i - 1], i)
        BY <2>1, <3>3
      <4> QED BY <4>1, <3>3
    <3> QED BY <3>1, <3>2, <3>3
  <2>4. UpTo(v, n + 1)
    BY <2>3, Zenon
  <2> HIDE DEF v
  <2> QED BY <2>4
<1>3. Len(message) \in S
  <2> HIDE DEF S
  <2> QED BY <1>1, <1>2, SetInduction
<1> QED BY <1>3 DEF IsExpansion

LEMMA Expansion ==
  ASSUME NEW message, Len(message) \in Nat
  PROVE  \E e : /\ e[0] = <<>> /\ Sent(message) = e[Len(message)]
                /\ \A i \in 1 .. Len(message) : e[i] = Expand(message, e[i - 1], i)
<1> DEFINE e == CHOOSE x : IsExpansion(message, x)
<1>1. Sent(message) = e[Len(message)]
  BY Zenon DEF Sent, IsExpansion, Expand
<1>2. IsExpansion(message, e)
  BY ExpansionExists, Zenon
<1> HIDE DEF e
<1>3. e[0] = <<>> /\ \A i \in 1 .. Len(message) : e[i] = Expand(message, e[i - 1], i)
  BY <1>2 DEF IsExpansion
<1> QED BY <1>1, <1>3

(* What the line of a task looks like in the queue.                        *)
LineText(of) ==
  /\ Len(of) \in Nat /\ Len(of) < TTY_BUF_SIZE
  /\ \A i \in 1 .. Len(of) : of[i] = "LF" => i = Len(of)

LEMMA SentIsLine ==
  ASSUME NEW message \in Message
  PROVE  LineText(Sent(message))
<1>1. /\ message \in Seq({"char", "LF"}) /\ Len(message) + 1 < TTY_BUF_SIZE
      /\ \A i \in 1 .. Len(message) - 1 : message[i] # "LF"
      /\ Len(message) \in Nat /\ TTY_BUF_SIZE \in Nat
  BY PrintkAssumption
<1>2. \A i \in 1 .. Len(message) - 1 : message[i] = "char"
  BY <1>1
<1>3. PICK e : /\ e[0] = <<>> /\ Sent(message) = e[Len(message)]
               /\ \A i \in 1 .. Len(message) : e[i] = Expand(message, e[i - 1], i)
  BY <1>1, Expansion
<1> DEFINE S == {n \in Nat : n < Len(message) => e[n] \in Seq({"char"}) /\ Len(e[n]) = n}
<1>4. 0 \in S
  <2>1. <<>> \in Seq({"char"}) /\ Len(<<>>) = 0
    OBVIOUS
  <2> QED BY <1>3, <2>1
<1>5. ASSUME NEW n \in Nat, n \in S PROVE n + 1 \in S
  <2> SUFFICES ASSUME n + 1 < Len(message)
               PROVE  e[n + 1] \in Seq({"char"}) /\ Len(e[n + 1]) = n + 1
    OBVIOUS
  <2>1. e[n] \in Seq({"char"}) /\ Len(e[n]) = n
    BY <1>1, <1>5
  <2>2. e[n + 1] = Expand(message, e[n], n + 1) /\ message[n + 1] = "char"
    BY <1>1, <1>2, <1>3
  <2>3. e[n + 1] = Append(e[n], "char")
    BY <2>2 DEF Expand
  <2> QED BY <2>1, <2>3
<1>6. \A n \in Nat : n \in S
  <2> HIDE DEF S
  <2> QED BY <1>4, <1>5, SetInduction
<1>7. CASE Len(message) = 0
  BY <1>1, <1>3, <1>7 DEF LineText
<1>8. CASE Len(message) > 0
  <2> DEFINE m == Len(message) - 1
  <2>1. m \in Nat /\ m + 1 = Len(message)
    BY <1>1, <1>8
  <2>2. e[m] \in Seq({"char"}) /\ Len(e[m]) = m
    <3>1. m \in S /\ m < Len(message)
      BY <1>1, <1>6, <2>1
    <3> HIDE DEF m
    <3> QED BY <3>1
  <2>3. Sent(message) = Expand(message, e[m], m + 1)
    BY <1>3, <2>1
  <2>4. message[m + 1] \in {"char", "LF"}
    BY <1>1, <2>1
  <2> HIDE DEF m
  <2> DEFINE first == e[m]
  <2>5. first \in Seq({"char"}) /\ Len(first) = m
    BY <2>2
  <2> HIDE DEF first
  <2>6. CASE message[m + 1] = "LF"
    <3>1. Sent(message) = first \o <<"CR", "LF">>
      BY <2>3, <2>6 DEF Expand, first
    <3>2. Len(first \o <<"CR", "LF">>) = m + 2
      BY <2>5
    <3>3. \A i \in 1 .. m + 1 : (first \o <<"CR", "LF">>)[i] \in {"char", "CR"}
      BY <2>5, <2>1
    <3> QED BY <3>1, <3>2, <3>3, <2>1, <1>1 DEF LineText
  <2>7. CASE message[m + 1] = "char"
    <3>1. Sent(message) = Append(first, "char")
      BY <2>3, <2>7 DEF Expand, first
    <3>2. Len(Append(first, "char")) = m + 1
      BY <2>5
    <3>3. \A i \in 1 .. m + 1 : Append(first, "char")[i] = "char"
      BY <2>5, <2>1
    <3> QED BY <3>1, <3>2, <3>3, <2>1, <1>1 DEF LineText
  <2> QED BY <2>4, <2>6, <2>7
<1> QED BY <1>1, <1>7, <1>8

-----------------------------------------------------------------------------
(* PrintInv is inductive.                                                  *)
LEMMA TextIsLine ==
  ASSUME NEW of \in Texts
  PROVE  LineText(of)
BY SentIsLine DEF Texts

(* Somebody who is not idle prints, and is what runs.                      *)
LEMMA BusyIsRunning ==
  ASSUME PrintInv, NEW t \in Task, ~ Idle(t)
  PROVE  /\ t = running /\ IF_FLAG = FALSE
         /\ \E of \in Texts : \E k \in 0 .. Len(of) : Printing(t, of, k)
BY DEF PrintInv, PrintType

(* In the loop, what is left to show is what the queue holds.              *)
LEMMA PrintInvInit == RInit => PrintInv
<1> SUFFICES ASSUME RInit PROVE PrintInv
  OBVIOUS
<1>1. PICK t \in Task, message \in Message :
        /\ shown = [by |-> t, of |-> Sent(message), i |-> Len(Sent(message))]
        /\ buf = [p \in Position |-> shown]
        /\ c = [s \in Task |-> [char |-> shown, from |-> 0]]
  BY DEF RInit
<1>2. LineText(Sent(message)) /\ Sent(message) \in Texts
  BY SentIsLine DEF Texts
<1>3. shown \in Piece /\ Whole
  BY <1>1, <1>2 DEF LineText, Piece, Whole
<1>4. 0 \in Position
  BY ZeroPosition
<1>5. buf \in [Position -> Piece] /\ c \in [Task -> [char : Piece, from : Position]]
  BY <1>1, <1>3, <1>4
<1>6. READ_SPACE(head, tail) = 0
  BY <1>4, SpacePosition DEF RInit
<1> QED BY <1>3, <1>4, <1>5, <1>6 DEF RInit, PrintInv, PrintType, Idle

LEMMA PrintMessageInv ==
  ASSUME PrintInv, NEW t \in Task, NEW message \in Message, PrintMessage(t, message)
  PROVE  PrintInv'
<1> DEFINE of == Sent(message)
           n == Len(of)
<1>1. LineText(of) /\ of \in Texts
  BY SentIsLine DEF Texts
<1>2. n \in Position /\ n \in Nat
  BY <1>1, PrintkAssumption DEF LineText, Position
<1>3. at[t] = "user" /\ (IF_FLAG \/ running = t)
  BY DEF PrintMessage, Runs
<1>4. IF_FLAG = TRUE
  <2> SUFFICES ASSUME IF_FLAG = FALSE PROVE FALSE
    BY DEF PrintInv, PrintType
  <2>1. PICK o \in Texts : \E k \in 0 .. Len(o) : Printing(running, o, k)
    BY DEF PrintInv
  <2> QED BY <2>1, <1>3 DEF Printing
<1>5. /\ head \in Position /\ tail \in Position /\ unread = 0 /\ Whole
      /\ READ_SPACE(head, tail) = 0
      /\ \A s \in Task : Idle(s)
  BY <1>4 DEF PrintInv, PrintType
<1>6. head = tail
  BY <1>5, SpaceEmpty
<1>7. /\ buf' = [p \in Position |->
                   IF READ_SPACE(p, head) < n
                     THEN [by |-> t, of |-> of, i |-> READ_SPACE(p, head) + 1] ELSE buf[p]]
      /\ head' = INC(head, n) /\ unread' = unread + n
      /\ nr' = [nr EXCEPT ![t] = READ_SPACE(INC(head, n), tail)]
  BY DEF PrintMessage, Put
<1>8. /\ running' = t /\ IF_FLAG' = FALSE /\ at' = [at EXCEPT ![t] = "loop"]
      /\ tail' = tail /\ c' = c /\ shown' = shown
  BY DEF PrintMessage, Runs
<1> HIDE DEF of, n
<1>9. head' \in Position /\ READ_SPACE(head', tail) = n /\ unread' = n
  <2>1. head' = INC(tail, n) /\ unread' = n
    BY <1>2, <1>5, <1>6, <1>7
  <2> QED BY <2>1, <1>2, <1>5, IncPosition, SpaceOfInc
<1>10. nr' = [nr EXCEPT ![t] = n]
  BY <1>7, <1>9
<1>11. buf' \in [Position -> Piece]
  <2> SUFFICES ASSUME NEW p \in Position
               PROVE  (IF READ_SPACE(p, head) < n
                     THEN [by |-> t, of |-> of, i |-> READ_SPACE(p, head) + 1] ELSE buf[p]) \in Piece
    BY <1>7
  <2>1. READ_SPACE(p, head) \in Nat
    BY <1>5, SpacePosition DEF Position
  <2>2. [by |-> t, of |-> of, i |-> READ_SPACE(p, head) + 1] \in Piece
    BY <2>1, <1>1 DEF Piece
  <2>3. buf[p] \in Piece
    BY DEF PrintInv, PrintType
  <2> QED BY <2>2, <2>3
<1>12. PrintType'
  BY <1>2, <1>5, <1>8, <1>9, <1>10, <1>11 DEF PrintInv, PrintType
<1>13. ASSUME NEW s \in Task, s # t PROVE Idle(s)'
  BY <1>5, <1>8, <1>10, <1>13 DEF Idle, PrintInv, PrintType
<1>14. Printing(t, of, 0)'
  <2>1. Whole'
    BY <1>5, <1>8 DEF Whole
  <2>2. at'[t] = "loop" /\ nr'[t] = n
    BY <1>8, <1>10 DEF PrintInv, PrintType
  <2>3. ASSUME NEW j \in 0 .. n - 1
        PROVE  buf'[INC(tail, j)] = [by |-> t, of |-> of, i |-> 0 + 1 + j]
    <3>1. j \in Position /\ j \in Nat /\ j < n
      BY <1>2, PrintkAssumption DEF Position
    <3>2. INC(tail, j) \in Position /\ READ_SPACE(INC(tail, j), head) = j
      BY <3>1, <1>5, <1>6, IncPosition, SpaceOfInc
    <3>3. buf'[INC(tail, j)] = [by |-> t, of |-> of, i |-> j + 1]
      BY <1>7, <3>1, <3>2
    <3>4. 0 + 1 + j = j + 1
      BY <3>1
    <3> QED BY <3>3, <3>4
  <2>4. n = n - 0
    BY <1>2
  <2>5. n = Len(of)
    BY DEF n
  <2>6. \A j \in 0 .. unread' - 1 : buf'[INC(tail', j)] = [by |-> t, of |-> of, i |-> 0 + 1 + j]
    BY <2>3, <1>8, <1>9
  <2> QED BY <2>1, <2>2, <2>4, <2>5, <2>6, <1>9 DEF Printing
<1>15. (~ IF_FLAG => \E o \in Texts : \E k \in 0 .. Len(o) : Printing(running, o, k))'
  <2>1. Printing(running, of, 0)'
    BY <1>14, <1>8 DEF Printing
  <2>2. 0 \in 0 .. Len(of)
    BY <1>2 DEF n
  <2> QED BY <2>1, <2>2, <1>1
<1>16. (unread = READ_SPACE(head, tail))'
  BY <1>8, <1>9 DEF READ_SPACE
<1> QED BY <1>8, <1>12, <1>13, <1>15, <1>16 DEF PrintInv

LEMMA ReadCharInv ==
  ASSUME PrintInv, NEW t \in Task, ReadChar(t)
  PROVE  PrintInv'
<1>1. /\ at[t] = "loop" /\ nr[t] > 0 /\ running' = t
      /\ at' = [at EXCEPT ![t] = "read"]
      /\ nr' = [nr EXCEPT ![t] = @ - 1]
      /\ c' = [c EXCEPT ![t] = [char |-> buf[tail], from |-> tail]]
      /\ UNCHANGED <<buf, head, tail, shown, unread, IF_FLAG>>
  BY DEF ReadChar, Runs
<1>2. ~ Idle(t)
  BY <1>1 DEF Idle
<1>3. t = running /\ IF_FLAG = FALSE
  BY <1>2, BusyIsRunning
<1>4. PICK of \in Texts, k \in Nat : k \in 0 .. Len(of) /\ Printing(t, of, k)
  <2>1. PICK of \in Texts : \E k \in 0 .. Len(of) : Printing(t, of, k)
    BY <1>2, BusyIsRunning
  <2>2. Len(of) \in Nat
    BY TextIsLine DEF LineText
  <2> QED BY <2>1, <2>2
<1>5. LineText(of)
  BY TextIsLine
<1>6. /\ nr[t] = unread /\ unread = Len(of) - k
      /\ \A j \in 0 .. unread - 1 : buf[INC(tail, j)] = [by |-> t, of |-> of, i |-> k + 1 + j]
      /\ k = 0 => Whole
      /\ k # 0 => shown = [by |-> t, of |-> of, i |-> k]
  BY <1>1, <1>4 DEF Printing
<1>7. /\ unread \in Nat /\ unread > 0 /\ k \in Nat /\ tail \in Position /\ nr \in [Task -> Nat]
      /\ at \in [Task -> {"user", "loop", "read"}]
      /\ c \in [Task -> [char : Piece, from : Position]]
      /\ buf \in [Position -> Piece]
  BY <1>1, <1>5, <1>6 DEF PrintInv, PrintType, LineText
<1>8. buf[tail] = [by |-> t, of |-> of, i |-> k + 1]
  <2>1. 0 \in 0 .. unread - 1 /\ INC(tail, 0) = tail /\ k + 1 + 0 = k + 1
    BY <1>7, ZeroPosition
  <2> QED BY <1>6, <2>1
<1>9. PrintType'
  <2>1. nr[t] - 1 \in Nat
    BY <1>6, <1>7
  <2>2. nr' \in [Task -> Nat]
    BY <1>1, <1>7, <2>1
  <2>3. [char |-> buf[tail], from |-> tail] \in [char : Piece, from : Position]
    BY <1>7
  <2>4. c' \in [Task -> [char : Piece, from : Position]]
    BY <1>1, <1>7, <2>3
  <2> QED BY <1>1, <2>2, <2>4 DEF PrintInv, PrintType
<1>10. ASSUME NEW s \in Task, s # t PROVE Idle(s)'
  <2>1. Idle(s)
    BY <1>10, <1>3 DEF PrintInv
  <2> QED BY <1>1, <1>7, <1>10, <2>1 DEF Idle
<1>11. Printing(t, of, k)'
  <2>1. /\ at'[t] = "read" /\ unread > 0 /\ nr'[t] = unread - 1
        /\ c'[t] = [char |-> [by |-> t, of |-> of, i |-> k + 1], from |-> tail]
    BY <1>1, <1>6, <1>7, <1>8
  <2>2. (k = 0 => Whole)'
    BY <1>1, <1>6 DEF Whole
  <2> QED BY <1>1, <1>6, <2>1, <2>2 DEF Printing, INC
<1>12. (~ IF_FLAG => \E o \in Texts : \E l \in 0 .. Len(o) : Printing(running, o, l))'
  <2>1. Printing(running, of, k)'
    BY <1>11, <1>1 DEF Printing
  <2> QED BY <2>1, <1>4
<1>13. (unread = READ_SPACE(head, tail))'
  BY <1>1 DEF READ_SPACE, PrintInv
<1> QED BY <1>1, <1>3, <1>9, <1>10, <1>12, <1>13 DEF PrintInv

(* What ShowChar finds.                                                    *)
LEMMA PieceShown ==
  ASSUME PrintInv, NEW t \in Task, ShowChar(t)
  PROVE  /\ t = running /\ IF_FLAG = FALSE
         /\ \E of \in Texts : \E k \in 0 .. Len(of) :
              /\ Printing(t, of, k) /\ unread > 0 /\ nr[t] = unread - 1
              /\ k = 0 => Whole
              /\ k # 0 => shown = [by |-> t, of |-> of, i |-> k]
              /\ k \in Nat /\ Len(of) \in Nat /\ unread = Len(of) - k
              /\ c[t] = [char |-> [by |-> t, of |-> of, i |-> k + 1], from |-> tail]
              /\ shown' = [by |-> t, of |-> of, i |-> k + 1]
<1>1. at[t] = "read" /\ shown' = c[t].char
  BY DEF ShowChar
<1>2. ~ Idle(t)
  BY <1>1 DEF Idle
<1>3. t = running /\ IF_FLAG = FALSE
  BY <1>2, BusyIsRunning
<1>4. PICK of \in Texts, k \in Nat : k \in 0 .. Len(of) /\ Printing(t, of, k)
  <2>1. PICK of \in Texts : \E k \in 0 .. Len(of) : Printing(t, of, k)
    BY <1>2, BusyIsRunning
  <2>2. Len(of) \in Nat
    BY TextIsLine DEF LineText
  <2> QED BY <2>1, <2>2
<1>5. Len(of) \in Nat /\ k \in Nat
  BY TextIsLine DEF LineText
<1>6. /\ unread > 0 /\ nr[t] = unread - 1 /\ unread = Len(of) - k
      /\ k = 0 => Whole
      /\ k # 0 => shown = [by |-> t, of |-> of, i |-> k]
      /\ c[t] = [char |-> [by |-> t, of |-> of, i |-> k + 1], from |-> tail]
  BY <1>1, <1>4 DEF Printing
<1>7. shown' = [by |-> t, of |-> of, i |-> k + 1]
  BY <1>1, <1>6
<1> QED BY <1>3, <1>4, <1>5, <1>6, <1>7

LEMMA ShowCharInv ==
  ASSUME PrintInv, NEW t \in Task, ShowChar(t)
  PROVE  PrintInv'
<1>1. /\ running' = t /\ at' = [at EXCEPT ![t] = "loop"]
      /\ tail' = INC(c[t].from, 1) /\ unread' = unread - 1
      /\ UNCHANGED <<buf, head, nr, c>>
  BY DEF ShowChar, Runs
<1>2. t = running /\ IF_FLAG = FALSE
  BY PieceShown
<1>3. PICK of \in Texts, k \in Nat :
        /\ k \in 0 .. Len(of)
        /\ Printing(t, of, k) /\ unread > 0 /\ nr[t] = unread - 1
        /\ k \in Nat /\ Len(of) \in Nat /\ unread = Len(of) - k
        /\ c[t] = [char |-> [by |-> t, of |-> of, i |-> k + 1], from |-> tail]
        /\ shown' = [by |-> t, of |-> of, i |-> k + 1]
  BY PieceShown
<1>4. LineText(of)
  BY TextIsLine
<1>5. /\ unread = READ_SPACE(head, tail) /\ head \in Position /\ tail \in Position
      /\ nr \in [Task -> Nat] /\ at \in [Task -> {"user", "loop", "read"}]
      /\ c[t].from = tail
  BY <1>3 DEF PrintInv, PrintType
<1>6. tail' = INC(tail, 1) /\ tail' \in Position
  BY <1>1, <1>3, <1>5, SpaceNext
<1>7. (unread = READ_SPACE(head, tail))'
  <2>1. READ_SPACE(head, tail') = unread - 1
    BY <1>3, <1>5, <1>6, SpaceNext
  <2> QED BY <1>1, <2>1 DEF READ_SPACE
<1>8. k + 1 \in 0 .. Len(of) /\ k + 1 # 0 /\ unread - 1 \in Nat /\ unread - 1 = Len(of) - (k + 1)
  BY <1>3
<1>9. IF_FLAG' \in BOOLEAN /\ (IF_FLAG' = TRUE => of[k + 1] = "LF")
  <2>1. c[t].char.of[c[t].char.i] = of[k + 1]
    BY <1>3
  <2>2. IF_FLAG' = IF_FLAG \/ (c[t].char.of[c[t].char.i] = "LF" /\ IF_FLAG' = TRUE)
    BY DEF ShowChar
  <2> QED BY <1>2, <2>1, <2>2
<1>10. IF_FLAG' = TRUE => unread' = 0 /\ Whole'
  <2> SUFFICES ASSUME IF_FLAG' = TRUE PROVE unread' = 0 /\ Whole'
    OBVIOUS
  <2>1. k + 1 = Len(of)
    BY <1>3, <1>4, <1>8, <1>9 DEF LineText
  <2>2. Whole'
    BY <1>3, <2>1 DEF Whole
  <2> QED BY <1>1, <1>3, <2>1, <2>2
<1>11. PrintType'
  <2>1. shown' \in Piece
    BY <1>3, <1>8 DEF Piece
  <2>2. at' \in [Task -> {"user", "loop", "read"}]
    BY <1>1, <1>5
  <2> QED BY <1>1, <1>6, <1>8, <1>9, <2>1, <2>2 DEF PrintInv, PrintType
<1>12. ASSUME NEW s \in Task, s # t PROVE Idle(s)'
  <2>1. Idle(s)
    BY <1>12, <1>2 DEF PrintInv
  <2> QED BY <1>1, <1>5, <1>12, <2>1 DEF Idle
<1>13. IF_FLAG' = TRUE => Idle(t)'
  BY <1>1, <1>3, <1>5, <1>10 DEF Idle
<1>14. Printing(t, of, k + 1)'
  <2>1. ASSUME NEW j \in 0 .. unread - 2
        PROVE  buf[INC(INC(tail, 1), j)] = [by |-> t, of |-> of, i |-> (k + 1) + 1 + j]
    <3>1. j \in Nat /\ j + 1 \in 0 .. unread - 1
      BY <1>3
    <3>2. j + 1 \in Position
      BY <3>1, <1>3, <1>4, PrintkAssumption DEF LineText, Position
    <3>3. INC(INC(tail, 1), j) = INC(tail, j + 1)
      BY <1>5, <3>1, <3>2, IncNext
    <3>4. buf[INC(tail, j + 1)] = [by |-> t, of |-> of, i |-> k + 1 + (j + 1)]
      BY <1>3, <3>1 DEF Printing
    <3>5. k + 1 + (j + 1) = (k + 1) + 1 + j
      BY <1>3, <3>1
    <3> QED BY <3>3, <3>4, <3>5
  <2>2. unread' - 1 = unread - 2
    BY <1>1, <1>3
  <2>3. \A j \in 0 .. unread' - 1 : buf'[INC(tail', j)] = [by |-> t, of |-> of, i |-> (k + 1) + 1 + j]
    BY <1>1, <1>6, <2>1, <2>2
  <2>4. at'[t] = "loop" /\ nr'[t] = unread'
    BY <1>1, <1>3, <1>5
  <2> QED BY <1>1, <1>3, <1>8, <2>3, <2>4 DEF Printing
<1>15. (~ IF_FLAG => \E o \in Texts : \E l \in 0 .. Len(o) : Printing(running, o, l))'
  <2>1. Printing(running, of, k + 1)'
    BY <1>14, <1>1 DEF Printing
  <2> QED BY <1>8, <2>1
<1> QED BY <1>1, <1>7, <1>10, <1>11, <1>12, <1>13, <1>15 DEF PrintInv, PrintType

LEMMA EndPrintkInv ==
  ASSUME PrintInv, NEW t \in Task, EndPrintk(t)
  PROVE  PrintInv'
<1>1. /\ at[t] = "loop" /\ nr[t] = 0 /\ running' = t /\ IF_FLAG' = TRUE
      /\ at' = [at EXCEPT ![t] = "user"]
      /\ IF_FLAG \/ running = t
      /\ UNCHANGED <<buf, head, tail, nr, c, shown, unread>>
  BY DEF EndPrintk, Runs
<1>2. unread = 0 /\ Whole
  <2>1. CASE IF_FLAG
    BY <2>1 DEF PrintInv
  <2>2. CASE ~ IF_FLAG
    <3>1. running = t
      BY <1>1, <2>2
    <3>2. PICK of \in Texts, k \in Nat : k \in 0 .. Len(of) /\ Printing(t, of, k)
      BY <2>2, <3>1 DEF PrintInv
    <3>3. Len(of) \in Nat
      BY TextIsLine DEF LineText
    <3>4. unread = 0 /\ k = Len(of)
      BY <1>1, <3>2, <3>3 DEF Printing
    <3>5. Whole
      <4>1. k # 0 => shown = [by |-> t, of |-> of, i |-> k]
        BY <3>2 DEF Printing
      <4>2. k = 0 => Whole
        BY <3>2 DEF Printing
      <4> QED BY <3>4, <4>1, <4>2 DEF Whole
    <3> QED BY <3>4, <3>5
  <2> QED BY <2>1, <2>2
<1>3. \A s \in Task : Idle(s)'
  <2> TAKE s \in Task
  <2>1. CASE s = t
    BY <1>1, <2>1 DEF Idle, PrintInv, PrintType
  <2>2. CASE s # t
    <3>1. Idle(s)
      BY <1>1, <2>2 DEF PrintInv
    <3> QED BY <1>1, <2>2, <3>1 DEF Idle, PrintInv, PrintType
  <2> QED BY <2>1, <2>2
<1>4. (unread = READ_SPACE(head, tail))'
  BY <1>1 DEF READ_SPACE, PrintInv
<1>5. Whole'
  BY <1>1, <1>2 DEF Whole
<1> QED BY <1>1, <1>2, <1>3, <1>4, <1>5 DEF PrintInv, PrintType

LEMMA PrintInvStep == PrintInv /\ [RNext]_printVars => PrintInv'
<1> SUFFICES ASSUME PrintInv, [RNext]_printVars PROVE PrintInv'
  OBVIOUS
<1>1. CASE UNCHANGED printVars
  <2>1. Whole' = Whole /\ (\A t \in Task : Idle(t)' = Idle(t))
    BY <1>1 DEF printVars, Whole, Idle
  <2>2. \A of \in Texts : \A k \in 0 .. Len(of) : Printing(running, of, k) => Printing(running, of, k)'
    BY <1>1 DEF printVars, Printing, Whole, INC
  <2> QED BY <1>1, <2>1, <2>2 DEF printVars, PrintInv, PrintType, READ_SPACE
<1>2. CASE RNext
  <2>1. PICK t \in Task :
          \/ \E message \in Message : PrintMessage(t, message)
          \/ ReadChar(t)
          \/ ShowChar(t)
          \/ EndPrintk(t)
    BY <1>2 DEF RNext
  <2> QED BY <2>1, PrintMessageInv, ReadCharInv, ShowCharInv, EndPrintkInv
<1> QED BY <1>1, <1>2

(* The invariant of the terminal queue and of the tasks that print.        *)
THEOREM PrintInvariant == RSpec => []PrintInv
<1> QED BY PrintInvInit, PrintInvStep, PTL DEF RSpec

(* The queue holds what was written and not yet read, and nothing is left  *)
(* in it when nobody prints.                                               *)
THEOREM QueueDrained == RSpec => []QueueIsDrained
<1>1. PrintInv => QueueIsDrained
  <2> SUFFICES ASSUME PrintInv, \A t \in Task : at[t] = "user" PROVE unread = 0
    BY DEF PrintInv, QueueIsDrained
  <2>1. IF_FLAG \in BOOLEAN /\ running \in Task
    BY DEF PrintInv, PrintType
  <2>2. CASE IF_FLAG
    BY <2>2 DEF PrintInv
  <2>3. CASE ~ IF_FLAG
    <3>1. PICK of \in Texts, k \in Nat : k \in 0 .. Len(of) /\ Printing(running, of, k)
      BY <2>3 DEF PrintInv
    <3> QED BY <2>1, <3>1 DEF Printing
  <2> QED BY <2>1, <2>2, <2>3
<1> QED BY <1>1, PrintInvariant, PTL

(* Lines are shown whole, one after the other.                             *)
NextShown ==
  shown' # shown =>
    \/ shown.i = Len(shown.of) /\ shown'.i = 1
    \/ shown'.by = shown.by /\ shown'.of = shown.of /\ shown'.i = shown.i + 1

THEOREM LinesAreWhole == RSpec => WholeMessages
<1>1. PrintInv /\ [RNext]_printVars => [NextShown]_printVars
  <2> SUFFICES ASSUME PrintInv, RNext, shown' # shown
               PROVE  \/ shown.i = Len(shown.of) /\ shown'.i = 1
                      \/ shown'.by = shown.by /\ shown'.of = shown.of /\ shown'.i = shown.i + 1
    BY DEF NextShown
  <2>1. PICK t \in Task : ShowChar(t)
    BY DEF RNext, PrintMessage, ReadChar, EndPrintk
  <2>2. PICK of \in Texts, k \in Nat :
          /\ k \in 0 .. Len(of)
          /\ k = 0 => Whole
          /\ k # 0 => shown = [by |-> t, of |-> of, i |-> k]
          /\ k \in Nat
          /\ shown' = [by |-> t, of |-> of, i |-> k + 1]
    BY <2>1, PieceShown
  <2>3. CASE k = 0
    BY <2>2, <2>3 DEF Whole
  <2>4. CASE k # 0
    BY <2>2, <2>4
  <2> QED BY <2>3, <2>4
<1>2. RSpec => [][NextShown]_printVars
  BY <1>1, PrintInvariant, PTL DEF RSpec
<1> QED BY <1>2 DEF WholeMessages, NextShown

=============================================================================
