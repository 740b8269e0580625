-------------------------------- MODULE Tty --------------------------------
(***************************************************************************)
(* copy_to_cooked() (driver/tty_io.c): what becomes of a typed character   *)
(* on its way from read_q to secondary, and its echo in write_q.           *)
(*                                                                         *)
(* At this commit keyboard.s does not call do_tty_interrupt() yet and      *)
(* nothing reads secondary: typing is external, and secondary only grows   *)
(* until it is full.                                                       *)
(*                                                                         *)
(* A call begins with interrupts disabled, but the first correction that   *)
(* it echoes enables them: tty->write ends in the sti of update_cursor()   *)
(* (console.c), and the EOI has been sent before the call.  From there on  *)
(* the keyboard may interrupt the call and begin another on the same       *)
(* queues.  Between two turns of the loops the model follows that to any   *)
(* depth.  In the middle of a turn, where the code has tested or read a    *)
(* queue and not yet moved its index, such an interrupt leads the call     *)
(* astray (an ended line taken apart, a character twice or never), and     *)
(* the model follows it no further.                                        *)
(*                                                                         *)
(* No code changes the termios of a terminal.  The model takes it from a   *)
(* set, of which one is the initializer of tty_table[0].                   *)
(***************************************************************************)
EXTENDS Integers, Sequences, SequencesExt

CONSTANTS
  TTY_BUF_SIZE,  (* 1024 in the code, here of all three queues             *)
  Typed,         (* what one interrupt brings: sequences of characters     *)
  MaxAhead,      (* bound: characters that wait in read_q                  *)
  MaxCalls,      (* bound: calls that have interrupted one another         *)
  Termios        (* flags: subsets of Flags                                *)

(* L_ICANON is looked up in c_iflag.                                       *)
Flags == {"I_CRNL", "I_IGNCR", "I_NLCR", "I_UCLC", "L_ICANON", "L_ECHO", "O_NLCR"}

(* The initializer: the L_ICANON it sets is in c_lflag.                    *)
Initializer == {"I_CRNL", "L_ECHO", "O_NLCR"}

(* CTL stands for a control character without a meaning of its own; DEL,   *)
(* KILL, EOF, STOP and START for those of c_cc.                            *)
Control == {"CR", "NL", "CTL", "KILL", "EOF", "STOP", "START"}
Char == Control \cup {"a", "A", "DEL"}

ASSUME TtyAssumption ==
  /\ TTY_BUF_SIZE \in Nat /\ TTY_BUF_SIZE > 1 /\ MaxAhead \in 1 .. TTY_BUF_SIZE - 1
  /\ MaxCalls \in Nat /\ Typed \subseteq Seq(Char)
  /\ Termios \subseteq SUBSET Flags

VARIABLES
  termios,
  read_q, secondary, write_q,  (* what is in the queues, the oldest first  *)
  data,       (* secondary.data                                            *)
  stopped,    (* tty.stopped                                               *)
  calls,      (* of copy_to_cooked(), each but the last interrupted:       *)
              (* [killing: in the loop of V_KILL, open: sti done]          *)
  sent,       (* the echo that tty->write has been given since the last    *)
              (* line feed, less the ASC_DEL, each a character             *)
  overrun,    (* write_q has overrun: sent is no longer followed           *)
  astray      (* a call was interrupted in the middle of a turn: nothing   *)
              (* is followed any further                                   *)

ttyVars == <<termios, read_q, secondary, write_q, data, stopped, calls, sent, overrun, astray>>

FULL(queue) == Len(queue) = TTY_BUF_SIZE - 1

-----------------------------------------------------------------------------
(* Input: the conversions before the character is looked at.               *)
Ignored(c) == c = "CR" /\ "I_CRNL" \notin termios /\ "I_IGNCR" \in termios

Converted(c) ==
  IF c = "CR" /\ "I_CRNL" \in termios THEN "NL"
  ELSE IF c = "NL" /\ "I_NLCR" \in termios THEN "CR"
  ELSE IF c = "A" /\ "I_UCLC" \in termios THEN "a"
  ELSE c

EndsLine(c) == c \in {"NL", "EOF"}

(* Wrong variant: only a line feed stops the line from being erased.       *)
ProtectedByNewline(c) == c = "NL"

Protected(c) == EndsLine(c)

(* What V_ERASE and V_KILL look for before they take a character off.      *)
Erasable == secondary # <<>> /\ ~Protected(Last(secondary))

(* Output: put does not look for room.  When head reaches tail, all that   *)
(* was waiting looks as if it were gone.                                   *)
Put(queue, item) ==
  IF Len(queue) + 1 = TTY_BUF_SIZE THEN <<>> ELSE Append(queue, item)

PutAll(queue, items) == FoldLeft(Put, queue, items)
Overruns(items) == Len(write_q) + Len(items) >= TTY_BUF_SIZE

Echo(c) ==
  IF c = "NL" THEN IF "O_NLCR" \in termios THEN <<"NL", "CR">> ELSE <<"NL">>
  ELSE IF c \in Control THEN <<"echo", "echo">>
  ELSE <<"echo">>

(* Wrong variant: one erasure for any character.                           *)
OneErasure(c) == <<"ASC_DEL">>

Erasures(c) == IF c \in Control THEN <<"ASC_DEL", "ASC_DEL">> ELSE <<"ASC_DEL">>

(* The account of the row after these characters.                          *)
Balance(n, items) ==
  LET step(m, item) == CASE item = "echo" -> m + 1
                         [] item = "ASC_DEL" -> m - 1
                         [] OTHER -> 0
  IN  FoldLeft(step, n, items)

-----------------------------------------------------------------------------
Canonical == "L_ICANON" \in termios

(* The call that is running, between two turns of its loops.               *)
Running(killing) == calls # <<>> /\ ~astray /\ Last(calls).killing = killing

Becomes(killing, open) ==
  calls' = Append(Front(calls), [killing |-> killing, open |-> open])

(* The last character is taken off secondary.  With echo, its erasures are *)
(* put and tty->write called, which empties write_q and enables interrupts.*)
TakeBack(killing) ==
  /\ secondary' = Front(secondary)
  /\ IF "L_ECHO" \in termios
       THEN LET items == Erasures(Last(secondary))
            IN  /\ write_q' = <<>>
                /\ overrun' = (overrun \/ Overruns(items))
                /\ sent' = IF overrun' THEN 0 ELSE Balance(sent, write_q \o items)
                /\ Becomes(killing, TRUE)
       ELSE UNCHANGED <<write_q, overrun, sent, calls>>
  /\ UNCHANGED <<data, stopped>>

Nothing == UNCHANGED <<secondary, data, stopped, write_q, sent, overrun, calls>>

Kill ==
  /\ Becomes(TRUE, Last(calls).open)
  /\ UNCHANGED <<secondary, data, stopped, write_q, sent, overrun>>

Erase == IF Erasable THEN TakeBack(FALSE) ELSE Nothing

Stop(b) ==
  /\ stopped' = b
  /\ UNCHANGED <<secondary, data, write_q, sent, overrun, calls>>

Store(c) ==
  /\ data' = IF EndsLine(c) THEN data + 1 ELSE data
  /\ secondary' = Append(secondary, c)
  /\ IF "L_ECHO" \in termios
       THEN /\ write_q' = PutAll(write_q, Echo(c))
            /\ overrun' = (overrun \/ Overruns(Echo(c)))
            /\ sent' = IF overrun' THEN 0 ELSE sent
       ELSE UNCHANGED <<write_q, overrun, sent>>
  /\ UNCHANGED <<stopped, calls>>

(* One turn of the loop of copy_to_cooked().                               *)
Special == {"KILL", "DEL", "STOP", "START"}

Cook ==
  /\ Running(FALSE) /\ read_q # <<>> /\ ~FULL(secondary)
  /\ read_q' = Tail(read_q)
  /\ LET typed == Head(read_q)
         c == Converted(typed)
     IN  \/ Ignored(typed) /\ Nothing
         \/ ~Ignored(typed) /\ Canonical /\ c = "KILL" /\ Kill
         \/ ~Ignored(typed) /\ Canonical /\ c = "DEL" /\ Erase
         \/ ~Ignored(typed) /\ Canonical /\ c \in {"STOP", "START"} /\ Stop(c = "STOP")
         \/ ~Ignored(typed) /\ (Canonical => c \notin Special) /\ Store(c)
  /\ UNCHANGED <<termios, astray>>

(* One turn of the loop of V_KILL, and its end.                            *)
KillTurn ==
  /\ Running(TRUE) /\ Erasable
  /\ TakeBack(TRUE)
  /\ UNCHANGED <<termios, read_q, astray>>

EndKill ==
  /\ Running(TRUE) /\ ~Erasable
  /\ Becomes(FALSE, Last(calls).open)
  /\ UNCHANGED <<termios, read_q, secondary, data, stopped, write_q, sent, overrun, astray>>

(* The loop ends also with secondary full, whatever waits in read_q.       *)
EndCooking ==
  /\ Running(FALSE) /\ (read_q = <<>> \/ FULL(secondary))
  /\ calls' = Front(calls)
  /\ UNCHANGED <<termios, read_q, secondary, write_q, data, stopped, sent, overrun, astray>>

Interruptible == ~astray /\ (calls # <<>> => Last(calls).open)

(* External: the keyboard puts characters into read_q and calls            *)
(* do_tty_interrupt(), from its interrupt gate.                            *)
KeyboardInterrupt(keys) ==
  /\ Interruptible /\ Len(calls) < MaxCalls /\ Len(read_q) + Len(keys) <= MaxAhead
  /\ read_q' = read_q \o keys
  /\ calls' = Append(calls, [killing |-> FALSE, open |-> FALSE])
  /\ UNCHANGED <<termios, secondary, write_q, data, stopped, sent, overrun, astray>>

(* The keyboard interrupts a call in the middle of a turn.                 *)
GoAstray ==
  /\ Interruptible /\ calls # <<>>
  /\ astray' = TRUE
  /\ UNCHANGED <<termios, read_q, secondary, write_q, data, stopped, calls, sent, overrun>>

TtyInit ==
  /\ termios \in Termios
  /\ read_q = <<>> /\ secondary = <<>> /\ write_q = <<>>
  /\ data = 0 /\ stopped = FALSE /\ calls = <<>>
  /\ sent = 0 /\ overrun = FALSE /\ astray = FALSE

TtyNext ==
  \/ Cook \/ KillTurn \/ EndKill \/ EndCooking
  \/ \E keys \in Typed : KeyboardInterrupt(keys)
  \/ GoAstray

TtySpec == TtyInit /\ [][TtyNext]_ttyVars

-----------------------------------------------------------------------------
(* A corrected line: what is in secondary are whole lines followed by the  *)
(* line being typed, of which a correction takes nothing but its own       *)
(* characters; a kill ends only when none is left of it, though other      *)
(* calls type into the line meanwhile; and data counts the lines.  Said    *)
(* of calls that have not gone astray.                                     *)
Ended ==
  LET ends == {i \in DOMAIN secondary : EndsLine(secondary[i])}
  IN  IF ends = {} THEN 0 ELSE CHOOSE i \in ends : \A j \in ends : j <= i

Editor == INSTANCE LineEditor WITH
  Ends  <- {"NL", "EOF"},
  done  <- SubSeq(secondary, 1, Ended),
  line  <- SubSeq(secondary, Ended + 1, Len(secondary)),
  lines <- data,
  kills <- Cardinality({i \in DOMAIN calls : calls[i].killing})

ImplementsEditor == Editor!ESpec

(* The account of the echo: for a character that is erased or killed as    *)
(* many ASC_DEL are sent as its echo had characters, control characters    *)
(* two, whatever was typed meanwhile.  What was sent since the last line   *)
(* feed, and what waits, is what the characters of the row came to.  Said  *)
(* of terminals whose write_q has not overrun and of calls that have not   *)
(* gone astray, and of what tty_io.c sends: it does not say what the       *)
(* console shows, which does not know ASC_DEL.                             *)
ErasuresMatch ==
  LET feeds == {i \in DOMAIN secondary : secondary[i] = "NL"}
      row   == {i \in DOMAIN secondary : \A j \in feeds : j < i}
  IN  "L_ECHO" \in termios /\ ~overrun =>
        Balance(sent, write_q) =
          Cardinality(row) + Cardinality({i \in row : secondary[i] \in Control})

=============================================================================
