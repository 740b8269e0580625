---------------------------- MODULE SchedProofs ----------------------------
(* Theorems of Sched, for any number of tasks and any clock.  The lemmas   *)
(* about Schedule serve the modules that extend Sched as well.             *)
EXTENDS Sched, TLAPS

(* What a caller of schedule() hands over is a well-formed table.          *)
Table(st, sg, sl) ==
  /\ st \in [Task -> TaskState]
  /\ sg \in [Task -> SUBSET Sig]
  /\ sl \in [Task -> Int]

(* The clock stays an int32_t.                                             *)
LEMMA WrapInRange == ASSUME NEW x \in Int PROVE Wrap(x) \in Int32
<1> DEFINE y == x + HalfRange
           m == 2 * HalfRange
<1>1. y \in Int /\ m \in Nat /\ m > 0 /\ HalfRange \in Nat
  BY ClockAssumption
<1>2. y % m \in 0 .. m - 1
  <2> HIDE DEF y, m
  <2> QED BY <1>1
<1>3. Wrap(x) = (y % m) - HalfRange
  BY DEF Wrap
<1> QED BY <1>1, <1>2, <1>3 DEF Int32

LEMMA ZeroInRange == 0 \in Int32
BY ClockAssumption DEF Int32

(* Whatever table it is given, schedule() leaves a well-formed one, and    *)
(* touches only the states of tasks that sleep interruptibly.              *)
LEMMA ScheduleType ==
  ASSUME SchedTypeOK, jiffies' \in Int32,
         NEW st, NEW sg, NEW sl, Table(st, sg, sl), Schedule(st, sg, sl)
  PROVE  /\ current' \in Task
         /\ state' \in [Task -> TaskState]
         /\ ts' \in [Task -> Int]
         /\ signal' \in [Task -> SUBSET Sig]
         /\ alarm' \in [Task -> Int32]
<1>1. Rung(st, sg) \in [Task -> SUBSET Sig]
  BY SigAssumption DEF Table, Rung
<1>2. Disarmed(st) \in [Task -> Int32]
  BY ZeroInRange DEF SchedTypeOK, Disarmed
<1>3. ASSUME NEW s2 PROVE Roused(st, s2) \in [Task -> TaskState]
  BY DEF Table, Roused, TaskState
<1>4. ASSUME NEW s2 PROVE Refilled(s2, sl) \in [Task -> Int]
  BY DEF SchedTypeOK, Table, Refilled
<1>5. ASSUME NEW s2, NEW t \in Ready(s2, sl) PROVE t \in Task
  BY DEF Ready
<1>6. current \in Task
  BY DEF SchedTypeOK
<1>7. state' = Roused(st, Rung(st, sg)) /\ signal' = Rung(st, sg) /\ alarm' = Disarmed(st)
  BY DEF Schedule
<1>8. \/ ts' = Refilled(Roused(st, Rung(st, sg)), sl) /\ current' = current
      \/ ts' = sl /\ \E t \in Ready(Roused(st, Rung(st, sg)), sl) : current' = t
  BY Zenon DEF Schedule
<1>9. ts' \in [Task -> Int] /\ current' \in Task
  BY <1>4, <1>5, <1>6, <1>8 DEF Table
<1> QED BY <1>1, <1>2, <1>3, <1>7, <1>9

LEMMA ScheduleStates ==
  ASSUME NEW st, NEW sg, NEW sl, Schedule(st, sg, sl), NEW t \in Task
  PROVE  /\ state'[t] = st[t] \/ (st[t] = "INTERRUPTIBLE" /\ state'[t] = "RUNNING")
         /\ state'[t] = "UNINTERRUPTIBLE" <=> st[t] = "UNINTERRUPTIBLE"
<1>1. state' = Roused(st, Rung(st, sg))
  BY DEF Schedule
<1>2. state'[t] = IF st[t] = "INTERRUPTIBLE" /\ Deliverable(Rung(st, sg), t) # {}
                    THEN "RUNNING" ELSE st[t]
  BY <1>1 DEF Roused
<1> QED BY <1>2

-----------------------------------------------------------------------------
LEMMA InitType == SchedInit => SchedTypeOK
BY ZeroInRange, TaskCountAssumption, PriorityAssumption
   DEF SchedInit, SchedTypeOK, Task, TaskState

LEMMA UserTickType == SchedTypeOK /\ UserTick => SchedTypeOK'
<1> SUFFICES ASSUME SchedTypeOK, UserTick PROVE SchedTypeOK'
  OBVIOUS
<1> DEFINE charged == [ts EXCEPT ![current] = @ - 1]
<1>1. jiffies' \in Int32
  <2>1. jiffies + 1 \in Int
    BY ClockAssumption DEF SchedTypeOK, Int32
  <2> QED BY <2>1, WrapInRange DEF UserTick
<1>2. charged \in [Task -> Int]
  BY DEF SchedTypeOK
<1>3. priority' = priority /\ blocked' = blocked
  BY DEF UserTick
<1>4. CASE ts' = charged /\ UNCHANGED <<current, state, signal, alarm>>
  BY <1>1, <1>2, <1>3, <1>4 DEF SchedTypeOK
<1>5. CASE Schedule(state, signal, charged)
  <2>1. Table(state, signal, charged)
    BY <1>2 DEF Table, SchedTypeOK
  <2> HIDE DEF charged
  <2> QED BY <1>1, <1>3, <1>5, <2>1, ScheduleType DEF SchedTypeOK
<1> QED BY <1>4, <1>5 DEF UserTick

LEMMA KernelTickType == SchedTypeOK /\ KernelTick => SchedTypeOK'
<1> SUFFICES ASSUME SchedTypeOK, KernelTick PROVE SchedTypeOK'
  OBVIOUS
<1>1. jiffies + 1 \in Int
  BY ClockAssumption DEF SchedTypeOK, Int32
<1>2. jiffies' \in Int32
  BY <1>1, WrapInRange DEF KernelTick
<1> QED BY <1>2 DEF KernelTick, SchedTypeOK

LEMMA SystemCallType == SchedTypeOK /\ SystemCall => SchedTypeOK'
<1> SUFFICES ASSUME SchedTypeOK, SystemCall PROVE SchedTypeOK'
  OBVIOUS
<1>1. CASE SysPause
  <2> DEFINE st == [state EXCEPT ![current] = "INTERRUPTIBLE"]
  <2>1. Table(st, signal, ts)
    BY DEF SchedTypeOK, Table, TaskState
  <2>2. jiffies' \in Int32 /\ priority' = priority /\ blocked' = blocked
    BY <1>1 DEF SysPause, SchedTypeOK
  <2>3. Schedule(st, signal, ts)
    BY <1>1 DEF SysPause
  <2> HIDE DEF st
  <2> QED BY <2>1, <2>2, <2>3, ScheduleType DEF SchedTypeOK
<1>2. CASE \E increment \in Increments : SysNice(increment)
  <2>1. PICK increment \in Increments : SysNice(increment)
    BY <1>2
  <2>2. priority[current] - increment \in Int
    BY InputAssumption DEF SchedTypeOK
  <2> QED BY <2>1, <2>2 DEF SysNice, SchedTypeOK
<1>3. CASE \E seconds \in Seconds : SysAlarm(seconds)
  <2>1. PICK seconds \in Seconds : SysAlarm(seconds)
    BY <1>3
  <2>2. jiffies + NUM_INT_PS * seconds \in Int
    BY InputAssumption, ClockAssumption DEF SchedTypeOK, Int32
  <2>3. Wrap(jiffies + NUM_INT_PS * seconds) \in Int32
    BY <2>2, WrapInRange
  <2> QED BY <2>1, <2>3, ZeroInRange DEF SysAlarm, SchedTypeOK
<1> QED BY <1>1, <1>2, <1>3 DEF SystemCall

(* Every field keeps its type: the wrapped counters are int32_t, and the   *)
(* CPU always belongs to a slot of the table.                              *)
THEOREM SchedTypeCorrect == Spec => []SchedTypeOK
<1>1. SchedInit => SchedTypeOK
  BY InitType
<1>2. SchedTypeOK /\ [Next]_schedVars => SchedTypeOK'
  <2>1. CASE UserTick BY <2>1, UserTickType
  <2>2. CASE SystemCall BY <2>2, SystemCallType
  <2>3. CASE UNCHANGED schedVars BY <2>3 DEF schedVars, SchedTypeOK
  <2> QED BY <2>1, <2>2, <2>3 DEF Next
<1> QED BY <1>1, <1>2, PTL DEF Spec

-----------------------------------------------------------------------------
(* When schedule() switches, it is to a ready task with the most slices,   *)
(* and no task is left asleep on a signal it does not block.               *)
LEMMA ScheduleSwitch ==
  ASSUME NEW st, NEW sg, NEW sl, Schedule(st, sg, sl),
         sl \in [Task -> Int], blocked' = blocked, current' # current
  PROVE  /\ state'[current'] = "RUNNING" /\ ts'[current'] > 0
         /\ \A t \in Task :
              /\ state'[t] = "RUNNING" => ts'[t] <= ts'[current']
              /\ state'[t] = "INTERRUPTIBLE" => Deliverable(signal, t)' = {}
<1> DEFINE rung == Rung(st, sg)
           roused == Roused(st, rung)
           ready == Ready(roused, sl)
<1>1. PICK n \in ready : MostSlices(n, ready, sl) /\ ts' = sl /\ current' = n
  BY Zenon DEF Schedule
<1>2. state' = roused /\ signal' = rung
  BY DEF Schedule
<1>3. n \in Task /\ roused[n] = "RUNNING" /\ sl[n] > 0
  BY <1>1 DEF Ready
<1>4. ASSUME NEW t \in Task, roused[t] = "RUNNING" PROVE sl[t] <= sl[n]
  <2>1. CASE sl[t] > 0
    <3>1. t \in ready
      BY <1>4, <2>1 DEF Ready
    <3> QED BY <1>1, <1>3, <3>1 DEF MostSlices
  <2>2. CASE ~(sl[t] > 0)
    BY <1>3, <2>2
  <2> QED BY <2>1, <2>2
<1>5. ASSUME NEW t \in Task, roused[t] = "INTERRUPTIBLE" PROVE Deliverable(signal, t)' = {}
  <2>1. Deliverable(rung, t) = {}
    BY <1>5 DEF Roused
  <2> QED BY <1>2, <2>1 DEF Deliverable
<1> QED BY <1>1, <1>2, <1>3, <1>4, <1>5

(* Every switch is to a runnable task with the most slices left, and wakes *)
(* first every sleeper whose alarm or other signal it does not block.      *)
THEOREM SwitchCorrect == Spec => SwitchIsSound
<1> DEFINE Sound ==
      current' # current =>
        /\ state'[current'] = "RUNNING"
        /\ \A t \in Task :
             /\ state'[t] = "RUNNING" => ts'[t] <= ts'[current']
             /\ state'[t] = "INTERRUPTIBLE" => Deliverable(signal, t)' = {}
<1>1. SchedTypeOK /\ [Next]_schedVars => [Sound]_schedVars
  <2> SUFFICES ASSUME SchedTypeOK, Next, current' # current PROVE Sound
    BY DEF schedVars
  <2>1. CASE UserTick
    <3> DEFINE charged == [ts EXCEPT ![current] = @ - 1]
    <3>1. Schedule(state, signal, charged) /\ blocked' = blocked
      BY <2>1 DEF UserTick
    <3>2. charged \in [Task -> Int]
      BY DEF SchedTypeOK
    <3> HIDE DEF charged
    <3> QED BY <3>1, <3>2, ScheduleSwitch
  <2>2. CASE SystemCall
    <3> DEFINE st == [state EXCEPT ![current] = "INTERRUPTIBLE"]
    <3>1. Schedule(st, signal, ts) /\ blocked' = blocked
      BY <2>2 DEF SystemCall, SysPause, SysNice, SysAlarm
    <3>2. ts \in [Task -> Int]
      BY DEF SchedTypeOK
    <3> HIDE DEF st
    <3> QED BY <3>1, <3>2, ScheduleSwitch
  <2> QED BY <2>1, <2>2 DEF Next
<1> QED BY <1>1, SchedTypeCorrect, PTL DEF Spec, SwitchIsSound

=============================================================================
