----------------------------- MODULE LineEditor -----------------------------
(***************************************************************************)
(* What a terminal promises to whoever reads it: typed characters arrive   *)
(* in order, a line can be corrected until it is ended and never after,    *)
(* and the lines that are ready are counted.                               *)
(***************************************************************************)
EXTENDS Naturals, Sequences

CONSTANTS Char, Ends   (* the characters, and those that end a line        *)

VARIABLES done,   (* the lines that have been ended, one after the other   *)
          line,   (* the line being typed                                  *)
          lines,  (* how many have been ended                              *)
          kills   (* how many kills of the line are under way              *)

editorVars == <<done, line, lines, kills>>

EInit == done = <<>> /\ line = <<>> /\ lines = 0 /\ kills = 0

Add(c) == line' = Append(line, c) /\ UNCHANGED <<done, lines, kills>>

EndLine(c) ==
  /\ done' = Append(done \o line, c)
  /\ line' = <<>>
  /\ lines' = lines + 1
  /\ UNCHANGED kills

EraseChar ==
  /\ line # <<>>
  /\ line' = SubSeq(line, 1, Len(line) - 1)
  /\ UNCHANGED <<done, lines, kills>>

(* A kill erases one character after the other, until none is left.        *)
BeginKill == kills' = kills + 1 /\ UNCHANGED <<done, line, lines>>

EndKill ==
  /\ kills > 0 /\ line = <<>>
  /\ kills' = kills - 1
  /\ UNCHANGED <<done, line, lines>>

ENext ==
  \/ \E c \in Char \ Ends : Add(c)
  \/ \E c \in Ends : EndLine(c)
  \/ EraseChar \/ BeginKill \/ EndKill

ESpec == EInit /\ [][ENext]_editorVars

=============================================================================
