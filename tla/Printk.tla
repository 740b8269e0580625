------------------------------- MODULE Printk -------------------------------
(***************************************************************************)
(* printk (kernel/printk.c), kernel_tty_write (driver/tty_io.c) and the    *)
(* loop of console_write (driver/console.c): several tasks that print from *)
(* user mode through the one write_q.                                      *)
(*                                                                         *)
(* Tasks run with IOPL 3, so printk() disables interrupts for them too.    *)
(* But a scroll enables them again, in the middle of console_write(), and  *)
(* a tick in user mode is a switch.  A task can be switched away from when *)
(* IF is set; the module lets it happen before any step.                   *)
(***************************************************************************)
EXTENDS Integers, Sequences

CONSTANTS
  Task,
  TTY_BUF_SIZE,
  Message    (* what is printed: sequences of "char" and "LF", none longer *)
             (* than a line of the console                                 *)

(* What tasks print ends with its only line feed; it fits in write_q with  *)
(* the carriage return that goes before.                                   *)
ASSUME PrintkAssumption ==
  /\ TTY_BUF_SIZE \in Nat \ {0}
  /\ \A message \in Message :
       /\ message \in Seq({"char", "LF"}) /\ Len(message) + 1 < TTY_BUF_SIZE
       /\ \A i \in 1 .. Len(message) - 1 : message[i] # "LF"

VARIABLES
  buf, head, tail,   (* write_q; of a character, whose it is and which     *)
  nr,                (* console_write's counter, on the stack of each task *)
  c,                 (* the character a task has read, and where           *)
  at,                (* where each task is                                 *)
  running,           (* the task that has the CPU                          *)
  IF_FLAG,           (* interrupts are enabled                             *)
  shown,             (* the last character shown                           *)
  unread             (* characters written minus characters read           *)

printVars == <<buf, head, tail, nr, c, at, running, IF_FLAG, shown, unread>>

Position == 0 .. TTY_BUF_SIZE - 1
INC(p, n) == (p + n) % TTY_BUF_SIZE
READ_SPACE(h, t) == (h - t) % TTY_BUF_SIZE

(* With O_NLCR, a line feed goes out as a carriage return and a line feed. *)
Sent(message) ==
  LET expanded[i \in 0 .. Len(message)] ==
        IF i = 0 THEN <<>>
        ELSE IF message[i] = "LF" THEN expanded[i - 1] \o <<"CR", "LF">>
        ELSE Append(expanded[i - 1], message[i])
  IN  expanded[Len(message)]

(* A task that is switched away from had interrupts enabled, and finds     *)
(* them enabled again.                                                     *)
Runs(t) == (IF_FLAG \/ running = t) /\ running' = t

Put(t, message) ==
  LET sent == Sent(message)
      n == Len(sent)
  IN  /\ buf' = [p \in Position |->
                   IF READ_SPACE(p, head) < n
                     THEN [by |-> t, of |-> sent, i |-> READ_SPACE(p, head) + 1] ELSE buf[p]]
      /\ head' = INC(head, n)
      /\ unread' = unread + n
      /\ nr' = [nr EXCEPT ![t] = READ_SPACE(INC(head, n), tail)]

(* Wrong variant: interrupts stay enabled.                                 *)
PrintkOpen(t, message) ==
  /\ Runs(t) /\ at[t] = "user" /\ Len(message) < TTY_BUF_SIZE
  /\ at' = [at EXCEPT ![t] = "loop"]
  /\ Put(t, message)
  /\ UNCHANGED <<tail, c, shown, IF_FLAG>>

(* printk(), as far as the loop of console_write(): everything is put into *)
(* write_q, full or not, and nr is what there is to read by then.          *)
PrintMessage(t, message) ==
  /\ Runs(t) /\ at[t] = "user" /\ Len(message) < TTY_BUF_SIZE
  /\ IF_FLAG' = FALSE
  /\ at' = [at EXCEPT ![t] = "loop"]
  /\ Put(t, message)
  /\ UNCHANGED <<tail, c, shown>>

(* One turn of the loop: the character and tail are read ...               *)
ReadChar(t) ==
  /\ Runs(t) /\ at[t] = "loop" /\ nr[t] > 0
  /\ at' = [at EXCEPT ![t] = "read"]
  /\ nr' = [nr EXCEPT ![t] = @ - 1]
  /\ c' = [c EXCEPT ![t] = [char |-> buf[tail], from |-> tail]]
  /\ UNCHANGED <<buf, head, tail, shown, unread, IF_FLAG>>

(* ... tail is stored, and the character shown.  A line feed scrolls when  *)
(* the cursor is in the last line, which leaves interrupts enabled.        *)
ShowChar(t) ==
  /\ Runs(t) /\ at[t] = "read"
  /\ at' = [at EXCEPT ![t] = "loop"]
  /\ shown' = c[t].char
  /\ tail' = INC(c[t].from, 1)
  /\ unread' = unread - 1
  /\ \/ UNCHANGED IF_FLAG
     \/ c[t].char.of[c[t].char.i] = "LF" /\ IF_FLAG' = TRUE
  /\ UNCHANGED <<buf, head, nr, c>>

(* update_cursor() enables interrupts, and so does printk() itself.        *)
EndPrintk(t) ==
  /\ Runs(t) /\ at[t] = "loop" /\ nr[t] = 0
  /\ at' = [at EXCEPT ![t] = "user"]
  /\ IF_FLAG' = TRUE
  /\ UNCHANGED <<buf, head, tail, nr, c, shown, unread>>

(* The kernel has printed whole messages before the tasks run.             *)
RInit ==
  /\ \E t \in Task, message \in Message :
       /\ shown = [by |-> t, of |-> Sent(message), i |-> Len(Sent(message))]
       /\ buf = [p \in Position |-> shown]
       /\ c = [s \in Task |-> [char |-> shown, from |-> 0]]
  /\ head = 0 /\ tail = 0
  /\ nr = [t \in Task |-> 0]
  /\ at = [t \in Task |-> "user"]
  /\ running \in Task
  /\ IF_FLAG = TRUE
  /\ unread = 0

RNext ==
  \E t \in Task :
    \/ \E message \in Message : PrintMessage(t, message)
    \/ ReadChar(t)
    \/ ShowChar(t)
    \/ EndPrintk(t)

RSpec == RInit /\ [][RNext]_printVars

-----------------------------------------------------------------------------
(* write_q never runs over or under, and nothing is left in it when nobody *)
(* prints: each console_write() empties it, though it may be switched away *)
(* from after a scroll.                                                    *)
QueueIsDrained ==
  /\ unread = READ_SPACE(head, tail)
  /\ (\A t \in Task : at[t] = "user") => unread = 0

(* Characters are shown once each and in order, and the messages of        *)
(* different tasks are not mixed.                                          *)
WholeMessages ==
  [][shown' # shown =>
       \/ shown.i = Len(shown.of) /\ shown'.i = 1
       \/ shown'.by = shown.by /\ shown'.of = shown.of /\ shown'.i = shown.i + 1]_printVars

=============================================================================
