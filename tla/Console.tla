------------------------------ MODULE Console ------------------------------
(***************************************************************************)
(* The console, driver/console.c: the cursor, the window that scrolls over *)
(* the video memory, and the escape sequences of console_write().  A step  *)
(* is a character taken from write_q.  Addresses count character cells     *)
(* from video_mem_start_addr.                                              *)
(***************************************************************************)
EXTENDS Integers

CONSTANTS
  display_char_per_line,
  display_line_nr,
  video_mem_end,   (* 16KB, which is not a whole number of lines           *)
  TabStop          (* 8 in the code                                        *)

ASSUME ConsoleAssumption ==
  /\ display_char_per_line \in Nat \ {0} /\ display_line_nr \in Nat \ {0}
  /\ TabStop \in Nat \ {0} /\ TabStop <= display_char_per_line
  /\ video_mem_end \in Nat /\ video_mem_end >= display_char_per_line * display_line_nr

BLANK == " "
INK == "x"         \* any character shown

Screenful == display_char_per_line * display_line_nr
Cell == 0 .. video_mem_end - 1

VARIABLES
  screen,  (* the cursor, the window and the memory                        *)
  state,   (* of the parser of escape sequences                            *)
  saved    (* saved_cur_pos_x and saved_cur_pos_y                          *)

conVars == <<screen, state, saved>>

-----------------------------------------------------------------------------
(* What the functions of console.c make of the screen.                     *)

(* Beyond the 16KB in use, a write goes to memory that is never shown.     *)
Written(s, cell, char) ==
  [s EXCEPT !.video = IF cell \in Cell THEN [@ EXCEPT ![cell] = char] ELSE @]

cur_goto_pos(s, x, y) ==
  IF x > display_char_per_line \/ y > display_line_nr THEN s
  ELSE [s EXCEPT !.x = x, !.y = y, !.mem = s.origin + display_char_per_line * y + x]

(* Wrong variant: the line that comes into sight keeps what it has.        *)
scroll_up_dirty(s) ==
  IF s.end + display_char_per_line > video_mem_end
  THEN [s EXCEPT
          !.video = [c \in Cell |->
             IF c < Screenful - display_char_per_line THEN @[s.origin + display_char_per_line + c]
             ELSE IF c < Screenful THEN BLANK ELSE @[c]],
          !.origin = 0, !.end = Screenful, !.mem = s.y * display_char_per_line + s.x]
  ELSE [s EXCEPT
          !.origin = @ + display_char_per_line, !.end = @ + display_char_per_line,
          !.mem = @ + display_char_per_line]

(* The window moves down a line; at the end of the memory, what it shows   *)
(* is moved to the start instead.                                          *)
scroll_up(s) ==
  IF s.end + display_char_per_line > video_mem_end
  THEN [s EXCEPT
          !.video = [c \in Cell |->
             IF c < Screenful - display_char_per_line THEN @[s.origin + display_char_per_line + c]
             ELSE IF c < Screenful THEN BLANK ELSE @[c]],
          !.origin = 0, !.end = Screenful, !.mem = s.y * display_char_per_line + s.x]
  ELSE [s EXCEPT
          !.video = [c \in Cell |->
             IF c >= s.end /\ c < s.end + display_char_per_line THEN BLANK ELSE @[c]],
          !.origin = @ + display_char_per_line, !.end = @ + display_char_per_line,
          !.mem = @ + display_char_per_line]

scroll_down(s) ==
  [s EXCEPT
     !.video = [c \in Cell |->
        IF c < s.origin \/ c >= s.end THEN @[c]
        ELSE IF c < s.origin + display_char_per_line THEN BLANK
        ELSE @[c - display_char_per_line]]]

cr(s) == [s EXCEPT !.x = 0, !.mem = @ - s.x]

lf(s) ==
  IF s.y + 1 <= display_line_nr - 1
  THEN [s EXCEPT !.y = @ + 1, !.mem = @ + display_char_per_line]
  ELSE scroll_up(s)

ri(s) ==
  IF s.y > 0 THEN [s EXCEPT !.y = @ - 1, !.mem = @ - display_char_per_line] ELSE scroll_down(s)

Left(s) == IF s.x = 0 THEN s ELSE [s EXCEPT !.x = @ - 1, !.mem = @ - 1]

del(s) == IF s.x = 0 THEN s ELSE Written(Left(s), Left(s).mem, BLANK)

(* Back by n columns, which comes before a line feed.                      *)
Carried(s, n) == [s EXCEPT !.x = @ - n, !.mem = @ - n]

InLine(s) == IF s.x >= display_char_per_line THEN lf(Carried(s, display_char_per_line)) ELSE s

Display(s) ==
  LET at == InLine(s) IN [Written(at, at.mem, INK) EXCEPT !.x = @ + 1, !.mem = @ + 1]

(* Wrong variant: the column is carried over to the next line, the address *)
(* is not.                                                                 *)
TabMisplaced(s) ==
  LET ht_offset == TabStop - (s.x % TabStop)
  IN  IF s.x + ht_offset > display_char_per_line
      THEN lf([s EXCEPT !.x = @ - (display_char_per_line - ht_offset)])
      ELSE [s EXCEPT !.x = @ + ht_offset, !.mem = @ + ht_offset]

Tab(s) ==
  LET ht_offset == TabStop - (s.x % TabStop)
  IN  IF s.x + ht_offset > display_char_per_line
      THEN lf(Carried(s, display_char_per_line - ht_offset))
      ELSE [s EXCEPT !.x = @ + ht_offset, !.mem = @ + ht_offset]

-----------------------------------------------------------------------------
(* console_write().  The characters that mean something after ESC are      *)
(* shown otherwise, as any other is.                                       *)
AfterEsc == {"[", "E", "D", "M", "7", "8"}
Control == {"LF", "CR", "DEL", "BS", "HT"}

Normal(char) ==
  /\ state = "NORMAL"
  /\ \/ char = "LF" /\ screen' = lf(screen)
     \/ char = "CR" /\ screen' = cr(screen)
     \/ char = "DEL" /\ screen' = del(screen)
     \/ char = "BS" /\ screen' = Left(screen)
     \/ char = "HT" /\ screen' = Tab(screen)
     \/ char \notin Control /\ screen' = Display(screen)
  /\ UNCHANGED <<state, saved>>

Esc ==
  /\ state = "NORMAL"
  /\ state' = "ESI"
  /\ UNCHANGED <<screen, saved>>

(* A character after ESC that is none of them is dropped.                  *)
Sequence(char) ==
  /\ state = "ESI"
  /\ state' = IF char = "[" THEN "CSI_1" ELSE "NORMAL"
  /\ \/ char = "E" /\ screen' = cur_goto_pos(screen, 0, screen.y + 1)
     \/ char = "D" /\ screen' = lf(screen)
     \/ char = "M" /\ screen' = ri(screen)
     \/ char = "8" /\ screen' = cur_goto_pos(screen, saved.x, saved.y)
     \/ char \notin {"E", "D", "M", "8"} /\ screen' = screen
  /\ saved' = IF char = "7" THEN [x |-> screen.x, y |-> screen.y] ELSE saved

(* console_init().  The cursor is where the BIOS has left it.              *)
KInit ==
  /\ \E x \in 0 .. display_char_per_line - 1, y \in 0 .. display_line_nr - 1 :
       screen = [x |-> x, y |-> y, mem |-> display_char_per_line * y + x,
                 origin |-> 0, end |-> Screenful,
                 video |-> [c \in Cell |-> IF c < display_char_per_line /\ c >= display_char_per_line - 4
                                             THEN INK ELSE BLANK]]
  /\ state = "NORMAL"
  /\ saved = [x |-> 0, y |-> 0]

KNext ==
  \/ \E char \in Control \cup {"printable"} : Normal(char)
  \/ Esc
  \/ \E char \in AfterEsc \cup {"other"} : Sequence(char)

KSpec == KInit /\ [][KNext]_conVars

-----------------------------------------------------------------------------
(* Through every wrap, tab and scroll the address of the cursor, kept up   *)
(* by increments, is the one its coordinates give, and the window that it  *)
(* is counted from never leaves the video memory.                          *)
CursorInStep == screen.mem = screen.origin + screen.y * display_char_per_line + screen.x
WindowInMemory == screen.end = screen.origin + Screenful /\ screen.end <= video_mem_end
ScreenInStep == CursorInStep /\ WindowInMemory

(* What is in sight.                                                       *)
Window(s) ==
  [l \in 0 .. display_line_nr - 1 |-> [c \in 0 .. display_char_per_line - 1 |->
     s.video[s.origin + l * display_char_per_line + c]]]

(* Whatever is written, in whatever order, the window shows what a         *)
(* terminal would: scrolling by moving the window and scrolling by moving  *)
(* the text cannot be told apart.                                          *)
Shows ==
  INSTANCE Terminal WITH
    Columns <- display_char_per_line, Lines <- display_line_nr, Kind <- {BLANK, INK},
    x <- screen.x, y <- screen.y,
    grid <- Window(screen)

ImplementsTerminal == Shows!TSpec

=============================================================================
