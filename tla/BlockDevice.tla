---------------------------- MODULE BlockDevice ----------------------------
(***************************************************************************)
(* What ll_rw_block (driver/ll_rw_blk.c) and the disk behind it promise    *)
(* the users of buffers, without table, driver, tries or interrupts.       *)
(*                                                                         *)
(* Accepted requests are served one at a time, in the order in which they  *)
(* were accepted.  Each ends once: with both sectors of its block moved,   *)
(* the first one first, or given up, and then its buffer is not uptodate.  *)
(* From the call to the end its buffer is locked and its own.  Accepted    *)
(* while no other is, it joins no line: it never ends, and always counts.  *)
(* HardDisk implements this.                                               *)
(***************************************************************************)
EXTENDS Integers, Sequences, FiniteSets

CONSTANTS Buffer, (* blocks that somebody reads or writes                  *)
          Depth   (* how many requests there can be at a time              *)

VARIABLES locked,   (* the buffers of all calls and requests               *)
          calling,  (* those of calls that wait to be accepted             *)
          line,     (* those of the requests that are served, in order     *)
          uptodate, dirty,
          moved     (* the sectors of a buffer that its request has moved  *)

deviceVars == <<locked, calling, line, uptodate, dirty, moved>>

Sectors == {0, 1}
First == Head(line)

Call(b) ==
  /\ b \notin locked /\ (b \in dirty \/ b \notin uptodate)
  /\ locked' = locked \cup {b}
  /\ calling' = calling \cup {b}
  /\ UNCHANGED <<line, uptodate, dirty, moved>>

Accept(b) ==
  /\ b \in calling /\ Cardinality(locked \ calling) < Depth
  /\ calling' = calling \ {b}
  /\ dirty' = dirty \ {b}
  /\ moved' = [moved EXCEPT ![b] = {}]
  /\ line' = IF line = <<>> THEN line ELSE Append(line, b)
  /\ UNCHANGED <<locked, uptodate>>

(* A sector is moved, for the first time or once more.                     *)
MoveSector(s) ==
  /\ line # <<>> /\ (s = 1 => 0 \in moved[First])
  /\ moved' = [moved EXCEPT ![First] = @ \cup {s}]
  /\ UNCHANGED <<locked, calling, line, uptodate, dirty>>

LeaveLine ==
  /\ line # <<>>
  /\ locked' = locked \ {First}
  /\ line' = Tail(line)
  /\ UNCHANGED <<calling, dirty>>

(* The second sector may be moved in the same step.                        *)
Finish ==
  /\ LeaveLine
  /\ 0 \in moved[First]
  /\ moved' = [moved EXCEPT ![First] = Sectors]
  /\ uptodate' = uptodate \cup {First}

GiveUp ==
  /\ LeaveLine
  /\ uptodate' = uptodate \ {First}
  /\ UNCHANGED moved

Modify(b) ==
  /\ b \in uptodate \ locked
  /\ dirty' = dirty \cup {b}
  /\ UNCHANGED <<locked, calling, line, uptodate, moved>>

DeviceInit ==
  /\ line = <<>> \/ \E b \in Buffer : line = <<b>>
  /\ locked = {line[i] : i \in 1 .. Len(line)}
  /\ calling = {} /\ uptodate = {} /\ dirty = {}
  /\ moved = [b \in Buffer |-> {}]

DeviceNext ==
  \/ \E b \in Buffer : Call(b) \/ Accept(b) \/ Modify(b)
  \/ \E s \in Sectors : MoveSector(s)
  \/ Finish \/ GiveUp

DeviceSpec == DeviceInit /\ [][DeviceNext]_deviceVars

=============================================================================
