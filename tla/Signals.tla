------------------------------ MODULE Signals ------------------------------
(***************************************************************************)
(* Signal handlers (kernel/signal.c): what signal() and sigaction()        *)
(* install, the frame do_signal() pushes on the user stack to run a        *)
(* handler, and the return from it.  The tasks and their calls are those   *)
(* of Process.                                                             *)
(*                                                                         *)
(* The restorer that ends a handler is user code outside the repository.   *)
(* The frame fixes what it must do: a frame of a handler with SA_NOMASK    *)
(* has no mask, from any other the restorer takes the saved mask and       *)
(* passes it to ssetmask(), a call like any other, on whose return the     *)
(* next handler may begin.                                                 *)
(***************************************************************************)
EXTENDS Process, Sequences

CONSTANTS
  Caught,     (* the signals programs install actions for                  *)
  Actions,    (* what programs pass to sigaction()                         *)
  MaxFrames   (* bound: kill() is not used beyond so many frames and       *)
              (* pending signals of the task that it reaches               *)

VARIABLES
  sa,         (* task_struct.sa: the action for each signal                *)
  frames      (* the handlers a task is in, the innermost last             *)

sigVars == <<sa, frames>>
allVars == <<vars, sigVars>>

Handler == {"DFL", "IGN", "user"}
Flag == {"NOMASK", "ONESHOT"}
SigAction == [handler : Handler, mask : SUBSET Sig, flags : SUBSET Flag]

ASSUME ActionsAssumption ==
  Actions \subseteq SigAction /\ Caught \subseteq Sig /\ MaxFrames \in Nat

(* The action of a signal the program gave none.                           *)
Default == [handler |-> "DFL", mask |-> {}, flags |-> {}]

(* Of a frame, act is the action that pushed it and before the mask at     *)
(* that moment, on the stack only if the frame saves it.                   *)
Frame == [sig : Sig, act : SigAction, before : SUBSET Sig, restored : BOOLEAN]

Saves(f) == "NOMASK" \notin f.act.flags

InHandler == frames[current] # <<>>
Innermost(t) == frames[t][Len(frames[t])]
Top == Innermost(current)
Deeper(t, f) == [frames EXCEPT ![t] = Append(@, f)]
MaskTaken(fs) == [fs EXCEPT ![Len(fs)] = [@ EXCEPT !.restored = TRUE]]

-----------------------------------------------------------------------------
(* sys_signal() and sys_sigaction() refuse SIGKILL only.  Programs install *)
(* their actions outside handlers and, a bound, before task1 forks: the    *)
(* other tasks inherit them.                                               *)
BeforeForks == current # 0 /\ last_pid = 1

Install(sig, act) ==
  /\ InUser /\ BeforeForks /\ ~InHandler
  /\ sa' = IF sig = SIGKILL THEN sa ELSE [sa EXCEPT ![current][sig] = act]
  /\ Return
  /\ UNCHANGED <<schedVars, pid, father, last_pid, frames>>

SysSignal(sig, handler) ==
  Install(sig, [handler |-> handler, mask |-> {}, flags |-> Flag])

(* Wrong variant: a handler with SA_NOMASK keeps its mask.                 *)
KeptMask(sig, act) == [act EXCEPT !.mask = IF "NOMASK" \in act.flags THEN @ ELSE @ \cup {sig}]

CheckedMask(sig, act) ==
  [act EXCEPT !.mask = IF "NOMASK" \in act.flags THEN {} ELSE @ \cup {sig}]

SysSigaction(sig, act) == Install(sig, CheckedMask(sig, act))

-----------------------------------------------------------------------------
(* do_signal() once it has found a signal.                                 *)
SignalIgnored(sig) ==
  /\ current # 0 /\ Lowest(sig) /\ sa[current][sig].handler = "IGN"
  /\ signal' = Taken(sig)
  /\ ToUser
  /\ UNCHANGED <<jiffies, current, state, ts, priority, blocked, alarm, pid, father, last_pid>>
  /\ UNCHANGED sigVars

(* Wrong variant: the mask of the action replaces the one in force.        *)
ReplacedMask(act) == IF "NOMASK" \in act.flags THEN blocked[current] ELSE act.mask

MaskInHandler(act) == blocked[current] \cup act.mask

AfterUse(act) == IF "ONESHOT" \in act.flags THEN [act EXCEPT !.handler = "DFL"] ELSE act

HandlerRuns(sig) ==
  LET act == sa[current][sig]
  IN  /\ current # 0 /\ Lowest(sig) /\ act.handler = "user"
      /\ signal' = Taken(sig)
      /\ frames' = Deeper(current, [sig |-> sig, act |-> act,
                                    before |-> blocked[current], restored |-> FALSE])
      /\ blocked' = [blocked EXCEPT ![current] = MaskInHandler(act)]
      /\ sa' = [sa EXCEPT ![current][sig] = AfterUse(act)]
      /\ ToUser
      /\ UNCHANGED <<jiffies, current, state, ts, priority, alarm, pid, father, last_pid>>

(* A task that has died and was not switched away from has no user stack   *)
(* to push a frame on: the kernel faults.                                  *)
HandlerFaults(sig) ==
  /\ Lowest(sig) /\ sa[current][sig].handler = "user" /\ state[current] = "ZOMBIE"
  /\ Hang
  /\ UNCHANGED sigVars

(* A task that dies loses its stack with its pages.                        *)
StackLost == frames' = [frames EXCEPT ![current] = IF MayExit THEN <<>> ELSE @]

DefaultAction ==
  \/ NoSignalTaken /\ UNCHANGED sigVars
  \/ TickAtIret /\ UNCHANGED sigVars
  \/ sa[current][SIGCHLD].handler = "DFL" /\ ChildSignalDropped /\ UNCHANGED sigVars
  \/ \E sig \in Sig :
       /\ sa[current][sig].handler = "DFL"
       /\ KilledBySignal(sig) /\ StackLost /\ UNCHANGED sa

DoSignal ==
  /\ pc[current] \in {"ret", "open"}
  /\ \/ DefaultAction
     \/ \E sig \in Sig :
          \/ SignalIgnored(sig)
          \/ state[current] # "ZOMBIE" /\ HandlerRuns(sig)
          \/ HandlerFaults(sig)

(* The handler has returned into the restorer, which passes the saved mask *)
(* to ssetmask() ...                                                       *)
RestoreMask ==
  /\ InHandler /\ Saves(Top) /\ ~Top.restored
  /\ SysSsetmask(Top.before)
  /\ frames' = [frames EXCEPT ![current] = MaskTaken(@)]
  /\ UNCHANGED sa

(* ... and jumps back to where the signal was taken.                       *)
LeaveHandler ==
  /\ InUser /\ InHandler /\ (Saves(Top) => Top.restored)
  /\ frames' = [frames EXCEPT ![current] = SubSeq(@, 1, Len(@) - 1)]
  /\ UNCHANGED <<vars, sa>>

-----------------------------------------------------------------------------
(* The calls of Process.  copy_process() copies the task and its stack.    *)
ForkWithHandlers ==
  /\ SysFork
  /\ LET born == {t \in Task : state[t] = "NULL" /\ state'[t] # "NULL"}
     IN  /\ sa' = [t \in Task |-> IF t \in born THEN sa[current] ELSE sa[t]]
         /\ frames' = [t \in Task |-> IF t \in born THEN frames[current] ELSE frames[t]]

ExitFromHandler ==
  /\ SysExit
  /\ StackLost
  /\ UNCHANGED sa

KillWithin(p, sig) ==
  /\ AtMost(MaxAtKill)
  /\ \A t \in KillTargets(p) : Len(frames[t]) + Cardinality(signal[t]) < MaxFrames
  /\ SysKill(p, sig)
  /\ UNCHANGED sigVars

(* Programs change their mask outside handlers only.                       *)
SsetmaskAtBase(mask) ==
  /\ ~InHandler /\ AtMost(MaxAtMask)
  /\ SysSsetmask(mask)
  /\ UNCHANGED sigVars

SchedulerCallOrTick ==
  /\ SchedulerCall \/ TickInFork
  /\ UNCHANGED sigVars

SigInit ==
  /\ Init
  /\ sa = [t \in Task |-> [sig \in Sig |-> Default]]
  /\ frames = [t \in Task |-> <<>>]

SigNext ==
  \/ ForkWithHandlers \/ ExitFromHandler \/ SchedulerCallOrTick
  \/ DoSignal \/ RestoreMask \/ LeaveHandler
  \/ \E p \in -2 .. MaxPid, sig \in KillSigs : KillWithin(p, sig)
  \/ \E mask \in Masks : SsetmaskAtBase(mask)
  \/ \E sig \in Caught, handler \in Handler : SysSignal(sig, handler)
  \/ \E sig \in Caught, act \in Actions : SysSigaction(sig, act)

SigSpec == SigInit /\ [][SigNext]_allVars

-----------------------------------------------------------------------------
(* Leaving a handler leaves the mask that was in force when it began,      *)
(* however handlers nest, whether its frame saves the mask or not.         *)
(* SIGKILL is left out: a mask of sigaction() may hold it, and ssetmask()  *)
(* strips it.                                                              *)
MaskIsRestored ==
  [][\A t \in Task :
       Len(frames'[t]) < Len(frames[t]) /\ state'[t] # "ZOMBIE" =>
         blocked'[t] \ {SIGKILL} = Innermost(t).before \ {SIGKILL}]_allVars

(* As long as a handler runs, the signals its action asks to be masked     *)
(* are, also while another handler runs on top of it and after that one    *)
(* has restored what it found.                                             *)
MaskHoldsInHandler ==
  \A t \in Task : \A i \in DOMAIN frames[t] :
    Saves(frames[t][i]) /\ ~frames[t][i].restored =>
      frames[t][i].act.mask \subseteq blocked[t] \cup {SIGKILL}

=============================================================================
