------------------------------ MODULE Process ------------------------------
(***************************************************************************)
(* The life of a task: fork (kernel/fork.c), exit and kill                 *)
(* (kernel/exit.c), the signal mask (kernel/signal.c), and do_signal,      *)
(* which runs on every return to user mode (kernel/system_call.s).         *)
(*                                                                         *)
(* The programs install no handler here: every signal has its default      *)
(* action.  The gates of the calls and of the clock disable interrupts up  *)
(* to the iret, so a call is one step and the return to user mode another; *)
(* schedule() may let other tasks run in between.  fork alone calls printk *)
(* and leaves them enabled, so that the clock can tick before its iret.    *)
(***************************************************************************)
EXTENDS Sched

CONSTANTS
  MaxPid,     (* bound: the pid after which last_pid wraps; 2^31 - 1 in C  *)
  MaxOverrun, (* bound: the slices a call may run into the red             *)
  KillSigs,   (* the signals programs pass to kill()                       *)
  Masks,      (* the signal masks programs pass to ssetmask()              *)
  MaxAtKill,  (* bound: the tasks there may be when kill() is called       *)
  MaxAtMask   (* bound: the tasks there may be when ssetmask() is called   *)

ASSUME PidAssumption == MaxPid \in Nat /\ MaxPid >= NUMBER_OF_TASKS
ASSUME OverrunAssumption == MaxOverrun \in Nat
ASSUME BoundAssumption == MaxAtKill \in Nat /\ MaxAtMask \in Nat
ASSUME SignalAssumption == KillSigs \subseteq Sig /\ Masks \subseteq SUBSET Sig

VARIABLES
  pid,       (* task_struct.pid                                            *)
  father,    (* task_struct.father, a pid                                  *)
  last_pid,  (* the pid find_empty_process tried last                      *)
  pc         (* "user", about to run do_signal ("ret", or "open" with      *)
             (* interrupts enabled), or "hung"                             *)

procVars == <<pid, father, last_pid, pc>>
vars == <<schedVars, procVars>>

(* Every task has process group 0: no call changes what task0 has.         *)
PGRP == 0

Present == {t \in Task : state[t] # "NULL"}
Others == Present \ {0}
AtMost(tasks) == Cardinality(Present) <= tasks

(* find_pid_task(p), as the set of what it finds: it skips slot 0.         *)
WithPid(p) == {t \in Others : pid[t] = p}

InUser == pc[current] = "user"
Return == pc' = [pc EXCEPT ![current] = "ret"]

(* panic(), or a page fault that do_no_page() cannot serve: interrupts off *)
(* or not, kernel code that loops is never preempted, and the machine has  *)
(* stopped.                                                                *)
Hang ==
  /\ pc' = [pc EXCEPT ![current] = "hung"]
  /\ UNCHANGED <<schedVars, pid, father, last_pid>>

-----------------------------------------------------------------------------
(* find_empty_process(): the first pid after last_pid that is free, then   *)
(* the lowest empty slot.                                                  *)
(* Wrong variant: the pids of zombies count as free.                       *)
FreePidsOfDead == (1 .. MaxPid) \ {pid[t] : t \in {s \in Present : state[s] # "ZOMBIE"}}

FreePids == (1 .. MaxPid) \ {pid[t] : t \in Present}
StepsTo(p) == (p - last_pid - 1) % MaxPid
IsNextPid(p) == p \in FreePids /\ \A q \in FreePids : StepsTo(p) <= StepsTo(q)

EmptySlots == Task \ Present
IsNextSlot(s) == s \in EmptySlots /\ \A r \in EmptySlots : s <= r

(* copy_process() with memory for the child.                               *)
ForkInto(slot, p) ==
  /\ state' = [state EXCEPT ![slot] = "RUNNING"]
  /\ ts' = [ts EXCEPT ![slot] = priority[current]]
  /\ priority' = [priority EXCEPT ![slot] = priority[current]]
  /\ signal' = [signal EXCEPT ![slot] = {}]
  /\ blocked' = [blocked EXCEPT ![slot] = blocked[current]]
  /\ alarm' = [alarm EXCEPT ![slot] = 0]
  /\ pid' = [pid EXCEPT ![slot] = p]
  /\ father' = [father EXCEPT ![slot] = pid[current]]
  /\ pc' = [t \in Task |-> IF t = current THEN "open" ELSE IF t = slot THEN "user" ELSE pc[t]]
  /\ UNCHANGED <<jiffies, current>>

(* -EAGAIN: no slot, or copy_mem() found no page for a page table or for   *)
(* the data.  Task1 is given page tables of the kernel, which cannot fail. *)
ForkFails ==
  /\ pc' = [pc EXCEPT ![current] = "open"]
  /\ UNCHANGED <<schedVars, pid, father>>

(* copy_process() does not look whether get_free_page() found a page for   *)
(* the task; when it did not, copy_mem() fails as well and free_page(0)    *)
(* panics.                                                                 *)
ForkPanics ==
  /\ pc' = [pc EXCEPT ![current] = "hung"]
  /\ UNCHANGED <<schedVars, pid, father>>

(* TASK_0 in main.c forks once.                                            *)
SysFork ==
  /\ InUser
  /\ current = 0 => 1 \in EmptySlots
  /\ \E p \in 1 .. MaxPid : IsNextPid(p) /\ last_pid' = p
  /\ \/ \E slot \in Task : IsNextSlot(slot) /\ ForkInto(slot, last_pid')
     \/ (EmptySlots # {} => 1 \notin EmptySlots) /\ ForkFails
     \/ EmptySlots # {} /\ 1 \notin EmptySlots /\ ForkPanics

-----------------------------------------------------------------------------
(* do_exit().  The father is found through the table, where a zombie       *)
(* counts; release(), for a father that is gone, is not modelled: the      *)
(* invariant FatherAlive shows that the father is there.                   *)
(* Wrong variant: dead children are not handed on.                         *)
LiveChildren == {t \in Others : father[t] = pid[current] /\ state[t] # "ZOMBIE"}

Children == {t \in Others : father[t] = pid[current]}

(* Wrong variant: the father's pid is taken for its slot.                  *)
ReportedBySlot == {father[current]} \cap Others

Reported ==
  LET forOrphans == IF \E t \in Children : state[t] = "ZOMBIE" THEN {1} ELSE {}
  IN  WithPid(father[current]) \cup forOrphans

DoExit(sg) ==
  /\ father' = [t \in Task |-> IF t \in Children THEN 1 ELSE father[t]]
  /\ Schedule([state EXCEPT ![current] = "ZOMBIE"],
              [t \in Task |-> IF t \in Reported THEN sg[t] \cup {SIGCHLD} ELSE sg[t]],
              ts)
  /\ UNCHANGED <<jiffies, priority, blocked, pid, last_pid>>

(* free_page_tables() refuses the tables of task0 and of task1: panic.     *)
MayExit == current \notin {0, 1}

SysExit ==
  /\ InUser /\ current # 0
  /\ IF MayExit THEN DoExit(signal) /\ Return ELSE Hang

(* sys_kill(): whom kill(p, .) reaches.  Callers have euid 0.              *)
KillTargets(p) ==
  IF p > 0 THEN WithPid(p)
  ELSE IF p = 0 THEN {t \in Others : PGRP = pid[current]}
  ELSE IF p = -1 THEN Others
  ELSE {t \in Others : PGRP = -p}

SysKill(p, sig) ==
  /\ InUser /\ current # 0
  /\ signal' = [t \in Task |-> IF t \in KillTargets(p) THEN signal[t] \cup {sig} ELSE signal[t]]
  /\ Return
  /\ UNCHANGED <<jiffies, current, state, ts, priority, blocked, alarm, pid, father, last_pid>>

SysSsetmask(mask) ==
  /\ InUser /\ current # 0
  /\ blocked' = [blocked EXCEPT ![current] = mask \ {SIGKILL}]
  /\ Return
  /\ UNCHANGED <<jiffies, current, state, ts, priority, signal, alarm, pid, father, last_pid>>

(* The calls and the tick of Sched, each followed by a return to user mode.*)
SchedulerCall ==
  /\ InUser /\ (SystemCall \/ UserTick)
  /\ Return
  /\ UNCHANGED <<pid, father, last_pid>>

TickInFork ==
  /\ pc[current] = "open"
  /\ ts[current] > -MaxOverrun
  /\ KernelTick
  /\ UNCHANGED procVars

-----------------------------------------------------------------------------
(* do_signal() looks at the signals that are pending AND BLOCKED, and      *)
(* takes the lowest.                                                       *)
SigBitmap == signal[current] \cap blocked[current]

Lowest(sig) == sig \in SigBitmap /\ \A other \in SigBitmap : sig <= other

Taken(sig) == [signal EXCEPT ![current] = @ \ {sig}]

(* The iret at the end of a system call or a tick.  exit() returns here    *)
(* when schedule() found no one to switch to, but the pages of a zombie    *)
(* are gone: its next instruction is a page fault for good.                *)
ToUser == pc' = [pc EXCEPT ![current] = IF state[current] = "ZOMBIE" THEN "hung" ELSE "user"]

NoSignalTaken ==
  /\ current = 0 \/ SigBitmap = {}
  /\ ToUser
  /\ UNCHANGED <<schedVars, pid, father, last_pid>>

ChildSignalDropped ==
  /\ current # 0 /\ Lowest(SIGCHLD)
  /\ signal' = Taken(SIGCHLD)
  /\ ToUser
  /\ UNCHANGED <<jiffies, current, state, ts, priority, blocked, alarm, pid, father, last_pid>>

(* After a do_exit() that returns, do_signal goes on to build a frame for  *)
(* handler 0 on a user stack whose pages are gone: a fault in the kernel.  *)
KilledBySignal(sig) ==
  /\ current # 0 /\ sig # SIGCHLD /\ Lowest(sig)
  /\ IF MayExit
       THEN /\ DoExit(Taken(sig))
            /\ pc' = [pc EXCEPT ![current] = "hung"]
       ELSE Hang

(* A timer interrupt that waits for that iret comes before the page fault, *)
(* and may switch the zombie away for good.                                *)
TickAtIret ==
  /\ state[current] = "ZOMBIE" /\ SigBitmap = {}
  /\ UserTick
  /\ UNCHANGED procVars

ReturnToUser ==
  /\ pc[current] \in {"ret", "open"}
  /\ NoSignalTaken \/ TickAtIret \/ ChildSignalDropped \/ \E sig \in Sig : KilledBySignal(sig)

-----------------------------------------------------------------------------
(* main() before TASK_0 forks: task0 alone.                                *)
Init ==
  /\ jiffies = 0
  /\ current = 0
  /\ state = [t \in Task |-> IF t = 0 THEN "RUNNING" ELSE "NULL"]
  /\ ts = [t \in Task |-> IF t = 0 THEN InitPriority ELSE 0]
  /\ priority = [t \in Task |-> IF t = 0 THEN InitPriority ELSE 0]
  /\ signal = [t \in Task |-> {}]
  /\ blocked = [t \in Task |-> {}]
  /\ alarm = [t \in Task |-> 0]
  /\ pid = [t \in Task |-> 0]
  /\ father = [t \in Task |-> IF t = 0 THEN -1 ELSE 0]
  /\ last_pid = 0
  /\ pc = [t \in Task |-> "user"]

PNext ==
  \/ SysFork \/ SysExit \/ SchedulerCall \/ TickInFork \/ ReturnToUser
  \/ \E p \in -2 .. MaxPid, sig \in KillSigs : AtMost(MaxAtKill) /\ SysKill(p, sig)
  \/ \E mask \in Masks : AtMost(MaxAtMask) /\ SysSsetmask(mask)

(* The kernel returns to user mode, and the clock, which is not locked to  *)
(* the calls of any program, does not miss user mode every single time.    *)
PSpec ==
  /\ Init /\ [][PNext]_vars
  /\ SF_vars(InUser /\ UserTick /\ SchedulerCall)
  /\ WF_vars(ReturnToUser)

-----------------------------------------------------------------------------
TypeOK ==
  /\ SchedTypeOK
  /\ pid \in [Task -> 0 .. MaxPid]
  /\ father \in [Task -> -1 .. MaxPid]
  /\ last_pid \in 0 .. MaxPid
  /\ pc \in [Task -> {"user", "ret", "open", "hung"}]

(* A pid names one task, zombies included, however often last_pid wraps.   *)
PidUnique == \A s, t \in Present : pid[s] = pid[t] => s = t

(* The father of a task is task0 or a task that is still alive: a dying    *)
(* task leaves no child behind, and the zombies it leaves go to task1.     *)
(* tell_father() therefore always finds whom to tell, and release() is     *)
(* never called.                                                           *)
FatherAlive ==
  \A t \in Others :
    father[t] = 0 \/ \E f \in Others : pid[f] = father[t] /\ state[f] # "ZOMBIE"

(* Every death is reported: the step in which a task dies leaves SIGCHLD   *)
(* pending for the father it had and for the father its dead children get. *)
DeathIsReported ==
  [][\A t \in Others :
       state[t] # "ZOMBIE" /\ state'[t] = "ZOMBIE" =>
         \A f \in Others :
           (\/ pid[f] = father[t]
            \/ \E c \in Others : father[c] = pid[t] /\ state[c] = "ZOMBIE" /\ pid[f] = father'[c])
             => SIGCHLD \in signal'[f]]_vars

(* A task in pause() for which a signal is sent that it does not block     *)
(* becomes runnable, unless the machine stops or pause() has come back by  *)
(* itself.                                                                 *)
SignalEndsPause ==
  \A t \in Task :
    (state[t] = "INTERRUPTIBLE" /\ Deliverable(signal, t) # {})
      ~> (state[t] = "RUNNING" \/ current = t \/ pc[current] = "hung")

=============================================================================
