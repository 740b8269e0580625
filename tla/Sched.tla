------------------------------- MODULE Sched -------------------------------
(***************************************************************************)
(* The scheduler of CherryOS (kernel/sched.c) and sys_alarm                *)
(* (kernel/signal.c): the task table, schedule(), the timer interrupt and  *)
(* the calls sys_pause, sys_nice and sys_alarm.                            *)
(*                                                                         *)
(* A task is its index in tasks_ptr[]; each field of task_struct that the  *)
(* scheduler reads is a function of that index.  The kernel is not         *)
(* preempted: a timer interrupt taken in kernel mode only counts, so a     *)
(* call is one step up to the point where schedule() switches away.        *)
(*                                                                         *)
(* Used alone (Spec), this module is the kernel as seen by programs that   *)
(* block no signal.  do_signal() looks for a signal in signal & blocked,   *)
(* which is empty then, so the return to user mode changes nothing here.   *)
(* WaitQueue and Process extend this module with the calls that need more. *)
(***************************************************************************)
EXTENDS Integers, FiniteSets

CONSTANTS
  NUMBER_OF_TASKS, (* slots of tasks_ptr[]; 64 in the code                 *)
  NUM_INT_PS,      (* timer interrupts per second; 100 in the code         *)
  HalfRange,       (* 2^31 in the code: jiffies and alarm are int32_t      *)
  Sig,             (* the signal numbers in use, out of 1..32              *)
  InitPriority,    (* .priority and .ts of task0; 10 in the code           *)
  MinPriority,     (* bound: the lowest priority nice() is taken to        *)
  MaxPriority,     (* bound: the highest priority nice() is taken to       *)
  Increments,      (* the increments programs pass to nice()               *)
  Seconds          (* the delays programs pass to alarm()                  *)

SIGKILL == 9
SIGALRM == 14
SIGCHLD == 17
SIGSTOP == 19

ASSUME TaskCountAssumption == NUMBER_OF_TASKS \in Nat \ {0}
ASSUME ClockAssumption == NUM_INT_PS \in Nat \ {0} /\ HalfRange \in Nat \ {0}
ASSUME SigAssumption ==
  Sig \subseteq 1..32 /\ {SIGKILL, SIGALRM, SIGCHLD} \subseteq Sig
ASSUME PriorityAssumption ==
  /\ MinPriority \in Int /\ MaxPriority \in Int /\ InitPriority \in Int
  /\ MinPriority <= InitPriority /\ InitPriority <= MaxPriority
  /\ 0 < InitPriority
ASSUME InputAssumption == Increments \subseteq Int /\ Seconds \subseteq Nat

Task == 0 .. NUMBER_OF_TASKS - 1

(* NULL is an empty slot of tasks_ptr[]; TASK_STOPPED is never assigned.   *)
TaskState ==
  {"NULL", "RUNNING", "INTERRUPTIBLE", "UNINTERRUPTIBLE", "ZOMBIE"}

Int32 == -HalfRange .. HalfRange - 1
Wrap(x) == ((x + HalfRange) % (2 * HalfRange)) - HalfRange

(* SIG_BLOCKABLE: a task cannot shut out SIGKILL and SIGSTOP.              *)
Blockable == Sig \ {SIGKILL, SIGSTOP}

VARIABLES
  jiffies,   (* timer interrupts since boot, an int32_t                    *)
  current,   (* the task that has the CPU                                  *)
  state,     (* task_struct.state                                          *)
  ts,        (* task_struct.ts, the time slices left                       *)
  priority,  (* task_struct.priority, the slices a refill grants           *)
  signal,    (* task_struct.signal, the set of pending signals             *)
  blocked,   (* task_struct.blocked, the signal mask                       *)
  alarm      (* task_struct.alarm, a value of jiffies; 0 is no alarm       *)

schedVars == <<jiffies, current, state, ts, priority, signal, blocked, alarm>>

-----------------------------------------------------------------------------
(* schedule().  st, sg and sl are state, signal and ts as the caller has   *)
(* left them; the clock it reads is the one its caller has set.            *)

(* Wrong variant: the loop looks at current instead of the slot reached.   *)
OverdueCurrent(st) == {t \in {current} : alarm[t] # 0 /\ alarm[t] < jiffies'}

Overdue(st) == {t \in Task : st[t] # "NULL" /\ alarm[t] # 0 /\ alarm[t] < jiffies'}

Rung(st, sg) ==
  [t \in Task |-> IF t \in Overdue(st) THEN sg[t] \cup {SIGALRM} ELSE sg[t]]

Disarmed(st) == [t \in Task |-> IF t \in Overdue(st) THEN 0 ELSE alarm[t]]

Deliverable(sg, t) == sg[t] \ (blocked[t] \cap Blockable)

(* Wrong variants: the signals that are blocked rouse, as in do_signal;    *)
(* the scan looks at current instead of the slot it has reached.           *)
RousedByBlocked(st, sg) ==
  [t \in Task |-> IF st[t] = "INTERRUPTIBLE" /\ sg[t] \cap blocked[t] # {}
                    THEN "RUNNING" ELSE st[t]]

RousedCurrent(st, sg) ==
  [t \in Task |-> IF t = current /\ st[t] = "INTERRUPTIBLE" /\ Deliverable(sg, t) # {}
                    THEN "RUNNING" ELSE st[t]]

Roused(st, sg) ==
  [t \in Task |-> IF st[t] = "INTERRUPTIBLE" /\ Deliverable(sg, t) # {}
                    THEN "RUNNING" ELSE st[t]]

Ready(st, sl) == {t \in Task : st[t] = "RUNNING" /\ sl[t] > 0}

(* The scan runs from the highest index down and keeps the first maximum.  *)
MostSlices(t, ready, sl) ==
  \A u \in ready : sl[u] < sl[t] \/ (sl[u] = sl[t] /\ u <= t)

(* Wrong variant: the refill serves current instead of the slot reached.   *)
RefilledCurrent(st, sl) ==
  [t \in Task |-> IF t = current /\ st[t] = "RUNNING" THEN priority[t] ELSE sl[t]]

Refilled(st, sl) ==
  [t \in Task |-> IF st[t] = "RUNNING" THEN priority[t] ELSE sl[t]]

(* With no slice left among the runnable tasks, schedule() refills them    *)
(* and RETURNS TO ITS CALLER without a switch, whatever state the caller   *)
(* has put itself in.                                                      *)
Schedule(st, sg, sl) ==
  LET roused == Roused(st, Rung(st, sg))
      ready  == Ready(roused, sl)
  IN  /\ signal' = Rung(st, sg)
      /\ alarm' = Disarmed(st)
      /\ state' = roused
      /\ \/ /\ ready = {}
            /\ ts' = Refilled(roused, sl)
            /\ current' = current
         \/ \E t \in ready :
              /\ MostSlices(t, ready, sl)
              /\ ts' = sl
              /\ current' = t

-----------------------------------------------------------------------------
(* The timer interrupt, taken in user mode.                                *)
UserTick ==
  LET charged == [ts EXCEPT ![current] = @ - 1]
  IN  /\ jiffies' = Wrap(jiffies + 1)
      /\ \/ /\ charged[current] > 0
            /\ ts' = charged
            /\ UNCHANGED <<current, state, signal, alarm>>
         \/ /\ charged[current] <= 0
            /\ Schedule(state, signal, charged)
      /\ UNCHANGED <<priority, blocked>>

(* The same interrupt taken in kernel mode counts and returns.             *)
KernelTick ==
  /\ jiffies' = Wrap(jiffies + 1)
  /\ ts' = [ts EXCEPT ![current] = @ - 1]
  /\ UNCHANGED <<current, state, priority, signal, blocked, alarm>>

SysPause ==
  /\ jiffies' = jiffies
  /\ Schedule([state EXCEPT ![current] = "INTERRUPTIBLE"], signal, ts)
  /\ UNCHANGED <<priority, blocked>>

(* Every task runs with euid 0 (task0 has it, fork copies it, no call      *)
(* changes it), so both arms of sys_nice() subtract.                       *)
SysNice(increment) ==
  LET lowered == priority[current] - increment
  IN  /\ lowered \in MinPriority .. MaxPriority
      /\ priority' = [priority EXCEPT ![current] = lowered]
      /\ UNCHANGED <<jiffies, current, state, ts, signal, blocked, alarm>>

SysAlarm(seconds) ==
  /\ alarm' = [alarm EXCEPT ![current] =
                 IF seconds > 0 THEN Wrap(jiffies + NUM_INT_PS * seconds) ELSE 0]
  /\ UNCHANGED <<jiffies, current, state, ts, priority, signal, blocked>>

-----------------------------------------------------------------------------
(* The table once TASK_0 and its children have forked, before any tick.    *)
SchedInit ==
  /\ jiffies = 0
  /\ current = 0
  /\ state = [t \in Task |-> "RUNNING"]
  /\ ts = [t \in Task |-> InitPriority]
  /\ priority = [t \in Task |-> InitPriority]
  /\ signal = [t \in Task |-> {}]
  /\ blocked = [t \in Task |-> {}]
  /\ alarm = [t \in Task |-> 0]

(* Task 0 is the endless loop of TASK_0 in main.c: it makes no call.       *)
SystemCall ==
  /\ current # 0
  /\ \/ SysPause
     \/ \E increment \in Increments : SysNice(increment)
     \/ \E seconds \in Seconds : SysAlarm(seconds)

Next == UserTick \/ SystemCall

(* The 8254 never stops interrupting and user mode runs with IF set.       *)
Spec == SchedInit /\ [][Next]_schedVars /\ WF_schedVars(UserTick)

-----------------------------------------------------------------------------
(* Every field keeps its type, and the wrapped counters stay in int32_t.   *)
SchedTypeOK ==
  /\ jiffies \in Int32
  /\ current \in Task
  /\ state \in [Task -> TaskState]
  /\ ts \in [Task -> Int]
  /\ priority \in [Task -> Int]
  /\ signal \in [Task -> SUBSET Sig]
  /\ blocked \in [Task -> SUBSET Sig]
  /\ alarm \in [Task -> Int32]

(* No starvation: a runnable task whose priority stays positive gets the   *)
(* CPU, however the others pause, wake up and change their priorities.     *)
NoStarvation ==
  \A t \in Task :
    (state[t] = "RUNNING" /\ priority[t] > 0)
      ~> (current = t \/ state[t] # "RUNNING" \/ priority[t] <= 0)

(* alarm(n) and then pause() wakes up.  schedule() is the only place that  *)
(* looks at alarms and tests alarm < jiffies, so a deadline within one     *)
(* round of slices of the wrap-around of jiffies is left out: the clock    *)
(* can turn negative before anyone looks.  The second disjunct of the      *)
(* conclusion is pause() coming back without having slept.                 *)
PausedAlarmWakes ==
  \A t \in Task :
    (/\ state[t] = "INTERRUPTIBLE"
     /\ alarm[t] # 0
     /\ alarm[t] < HalfRange - MaxPriority)
      ~> (state[t] = "RUNNING" \/ current = t)

(* The CPU is never handed to a task that sleeps, is dead or has used its  *)
(* slice up, and a task that slept on a deliverable signal is roused by    *)
(* every switch before it is made.                                         *)
SwitchIsSound ==
  [][current' # current =>
       /\ state'[current'] = "RUNNING"
       /\ \A t \in Task :
            /\ state'[t] = "RUNNING" => ts'[t] <= ts'[current']
            /\ state'[t] = "INTERRUPTIBLE" => Deliverable(signal, t)' = {}]_schedVars

=============================================================================
