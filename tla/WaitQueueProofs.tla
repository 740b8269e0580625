-------------------------- MODULE WaitQueueProofs --------------------------
(* Theorems of WaitQueue, for any number of tasks: the lock excludes, no   *)
(* wake-up is lost, and nobody runs on while marked asleep.                *)
EXTENDS WaitQueue, SchedProofs

(* The inductive invariant.  AsleepInQueueOnly needs SpuriousReturn, for   *)
(* the task that leaves sleep_on; NoLostWakeup needs both, to know that    *)
(* this task is in no set of sleepers that has lost a wake-up.             *)
IInv ==
  TypeOK /\ MutualExclusion /\ NoLostWakeup /\ AsleepInQueueOnly /\ SpuriousReturn

Asleep == {t \in Task : state[t] = "UNINTERRUPTIBLE"}

LEMMA NoTaskIsNoTask == NoTask \notin Task
BY TaskCountAssumption DEF NoTask, Task

(* The calls and ticks of Sched put no task to sleep in a queue and take   *)
(* none out; they move the CPU only to a task that is runnable.            *)
LEMMA SchedStep ==
  ASSUME TypeOK, SystemCall \/ UserTick \/ KernelTick,
         state[current] # "UNINTERRUPTIBLE"
  PROVE  /\ SchedTypeOK'
         /\ Asleep' = Asleep
         /\ state'[current'] # "UNINTERRUPTIBLE"
<1>1. SchedTypeOK'
  BY SystemCallType, UserTickType, KernelTickType DEF TypeOK
<1>2. ASSUME NEW st, NEW sl, Schedule(st, signal, sl), sl \in [Task -> Int],
             blocked' = blocked,
             \A t \in Task : st[t] = "UNINTERRUPTIBLE" <=> state[t] = "UNINTERRUPTIBLE"
      PROVE  Asleep' = Asleep /\ state'[current'] # "UNINTERRUPTIBLE"
  <2>1. Asleep' = Asleep
    BY <1>2, ScheduleStates DEF Asleep
  <2>2. CASE current' = current
    BY <2>1, <2>2 DEF Asleep, TypeOK, SchedTypeOK
  <2>3. CASE current' # current
    BY <1>2, <2>1, <2>3, ScheduleSwitch
  <2> QED BY <2>1, <2>2, <2>3
<1>3. ts \in [Task -> Int] /\ state \in [Task -> TaskState] /\ current \in Task
  BY DEF TypeOK, SchedTypeOK
<1>4. CASE SysPause
  <2> DEFINE st == [state EXCEPT ![current] = "INTERRUPTIBLE"]
  <2>1. Schedule(st, signal, ts) /\ blocked' = blocked
    BY <1>4 DEF SysPause
  <2>2. \A t \in Task : st[t] = "UNINTERRUPTIBLE" <=> state[t] = "UNINTERRUPTIBLE"
    BY <1>3
  <2> HIDE DEF st
  <2> QED BY <1>1, <1>2, <1>3, <2>1, <2>2
<1>5. CASE UserTick
  <2> DEFINE charged == [ts EXCEPT ![current] = @ - 1]
  <2>1. charged \in [Task -> Int] /\ blocked' = blocked
    BY <1>3, <1>5 DEF UserTick
  <2>2. CASE Schedule(state, signal, charged)
    <3> HIDE DEF charged
    <3> QED BY <1>1, <1>2, <2>1, <2>2
  <2>3. CASE UNCHANGED <<current, state, signal, alarm>>
    BY <1>1, <2>3 DEF Asleep
  <2> QED BY <1>5, <2>2, <2>3 DEF UserTick
<1>6. CASE UNCHANGED <<current, state>>
  BY <1>1, <1>6 DEF Asleep
<1> QED BY <1>4, <1>5, <1>6 DEF SystemCall, SysNice, SysAlarm, KernelTick

(* sleep_on up to schedule(), from a table in which the caller may have    *)
(* woken a task before.                                                    *)
LEMMA SleepOnStep ==
  ASSUME TypeOK, UNCHANGED <<jiffies, priority, blocked>>,
         NEW st \in [Task -> TaskState], SleepOn(st)
  PROVE  /\ SchedTypeOK'
         /\ tmp' \in [Task -> Task \cup {NoTask}] /\ b_wait' = current
         /\ Asleep' = {t \in Task : st[t] = "UNINTERRUPTIBLE"} \cup {current}
         /\ current' # current => state'[current'] # "UNINTERRUPTIBLE"
<1> DEFINE s2 == [st EXCEPT ![current] = "UNINTERRUPTIBLE"]
<1>1. current \in Task /\ ts \in [Task -> Int]
  BY DEF TypeOK, SchedTypeOK
<1>2. Schedule(s2, signal, ts) /\ s2 \in [Task -> TaskState]
  BY <1>1 DEF SleepOn, TaskState
<1>3. {t \in Task : s2[t] = "UNINTERRUPTIBLE"}
        = {t \in Task : st[t] = "UNINTERRUPTIBLE"} \cup {current}
  BY <1>1
<1>4. tmp' \in [Task -> Task \cup {NoTask}] /\ b_wait' = current
  BY <1>1 DEF SleepOn, TypeOK, BufTypeOK
<1> HIDE DEF s2
<1>5. SchedTypeOK'
  <2>1. Table(s2, signal, ts)
    BY <1>2 DEF Table, TypeOK, SchedTypeOK
  <2>2. SchedTypeOK /\ jiffies' \in Int32 /\ priority' \in [Task -> Int] /\ blocked' \in [Task -> SUBSET Sig]
    BY DEF TypeOK, SchedTypeOK
  <2> QED BY <1>2, <2>1, <2>2, ScheduleType DEF SchedTypeOK
<1>6. Asleep' = {t \in Task : s2[t] = "UNINTERRUPTIBLE"}
  BY <1>2, ScheduleStates DEF Asleep
<1>7. current' # current => state'[current'] # "UNINTERRUPTIBLE"
  BY <1>1, <1>2, ScheduleSwitch
<1> QED BY <1>3, <1>4, <1>5, <1>6, <1>7

-----------------------------------------------------------------------------
LEMMA InitIInv == Init => IInv
<1> SUFFICES ASSUME Init PROVE IInv
  OBVIOUS
<1>1. TypeOK
  BY InitType DEF Init, TypeOK, BufTypeOK, Place
<1>2. MutualExclusion
  BY DEF Init, MutualExclusion
<1>3. NoLostWakeup /\ AsleepInQueueOnly /\ SpuriousReturn
  BY <1>1 DEF Init, SchedInit, NoLostWakeup, AsleepInQueueOnly, SpuriousReturn,
     TypeOK, SchedTypeOK
<1> QED BY <1>1, <1>2, <1>3 DEF IInv

(* A step that leaves the sleepers, the lock, the queue and everyone's     *)
(* place in sleep_on alone keeps the part of IInv that is about them.      *)
LEMMA QuietStep ==
  ASSUME IInv, TypeOK', Asleep' = Asleep,
         UNCHANGED <<tmp, b_wait>>, b_lock => b_lock',
         \A t \in Task : (pc[t] = "lock" <=> pc'[t] = "lock") /\ (pc[t] = "wait" <=> pc'[t] = "wait"),
         current' = current \/ state'[current'] # "UNINTERRUPTIBLE"
  PROVE  NoLostWakeup' /\ AsleepInQueueOnly' /\ SpuriousReturn'
<1>1. \A t \in Task : InSleepOn(t) <=> InSleepOn(t)'
  BY DEF InSleepOn
<1>2. NoLostWakeup'
  <2> SUFFICES ASSUME NEW S \in SUBSET Asleep, S # {}
               PROVE  \E t \in S : WokenFrom(t, S)'
    BY DEF NoLostWakeup, Asleep
  <2>1. PICK t \in S : WokenFrom(t, S)
    BY DEF IInv, NoLostWakeup, Asleep
  <2>2. WokenFrom(t, S)'
    BY <1>1, <2>1 DEF WokenFrom
  <2> QED BY <2>2
<1>3. AsleepInQueueOnly'
  BY <1>1 DEF IInv, AsleepInQueueOnly, Asleep
<1>4. SpuriousReturn'
  BY <1>1 DEF IInv, SpuriousReturn, Asleep, TypeOK, SchedTypeOK
<1> QED BY <1>2, <1>3, <1>4

(* unlock_buffer wakes the head of the queue, which is in no set of tasks  *)
(* still asleep; the others are woken through someone's tmp as before.     *)
LEMMA UnlockStep ==
  ASSUME IInv, TypeOK', UnlockBuffer, UNCHANGED <<tmp, current>>, ~InSleepOn(current),
         \A t \in Task : InSleepOn(t) <=> InSleepOn(t)'
  PROVE  NoLostWakeup' /\ AsleepInQueueOnly' /\ SpuriousReturn'
<1>1. Asleep' = Asleep \ {b_wait}
  BY NoTaskIsNoTask DEF UnlockBuffer, Asleep, IInv, TypeOK, SchedTypeOK, BufTypeOK
<1>2. NoLostWakeup'
  <2> SUFFICES ASSUME NEW S \in SUBSET Asleep', S # {}
               PROVE  \E t \in S : WokenFrom(t, S)'
    BY DEF NoLostWakeup, Asleep
  <2>1. PICK t \in S : WokenFrom(t, S)
    BY <1>1 DEF IInv, NoLostWakeup, Asleep
  <2>2. t # b_wait
    BY <1>1
  <2>3. WokenFrom(t, S)'
    BY <2>1, <2>2 DEF WokenFrom
  <2> QED BY <2>3
<1>3. AsleepInQueueOnly'
  BY <1>1 DEF IInv, AsleepInQueueOnly, Asleep
<1>4. SpuriousReturn'
  BY DEF SpuriousReturn, IInv, TypeOK, SchedTypeOK
<1> QED BY <1>2, <1>3, <1>4

(* sleep_on queues the caller in front: it is woken through b_wait, and    *)
(* whom it displaces through its tmp.                                      *)
LEMMA EnqueueStep ==
  ASSUME IInv, TypeOK', NEW st \in [Task -> TaskState], SleepOn(st),
         UNCHANGED <<jiffies, priority, blocked>>, b_lock, b_lock',
         \A t \in Task \ {current} : InSleepOn(t) <=> InSleepOn(t)',
         pc'[current] \in {"lock", "wait"},
         \A t \in Task \ {current} : st[t] = "UNINTERRUPTIBLE" =>
           state[t] = "UNINTERRUPTIBLE" /\ ~(InSleepOn(current) /\ tmp[current] = t)
  PROVE  NoLostWakeup' /\ AsleepInQueueOnly' /\ SpuriousReturn'
<1>1. /\ b_wait' = current
      /\ Asleep' = {t \in Task : st[t] = "UNINTERRUPTIBLE"} \cup {current}
      /\ current' # current => state'[current'] # "UNINTERRUPTIBLE"
  BY SleepOnStep DEF IInv
<1>2. current \in Task /\ tmp' = [tmp EXCEPT ![current] = b_wait] /\ tmp \in [Task -> Task \cup {NoTask}]
  BY DEF SleepOn, IInv, TypeOK, SchedTypeOK, BufTypeOK
<1>3. NoLostWakeup'
  <2> SUFFICES ASSUME NEW S \in SUBSET Asleep', S # {}
               PROVE  \E t \in S : WokenFrom(t, S)'
    BY DEF NoLostWakeup, Asleep
  <2>1. CASE current \in S
    BY <1>1, <2>1 DEF WokenFrom
  <2>2. CASE current \notin S
    <3>1. S \subseteq Asleep
      BY <1>1, <2>2 DEF Asleep
    <3>2. PICK t \in S : WokenFrom(t, S)
      BY <3>1 DEF IInv, NoLostWakeup, Asleep
    <3>3. t \in Task \ {current} /\ st[t] = "UNINTERRUPTIBLE"
      BY <1>1, <2>2
    <3>4. CASE b_wait = t
      BY <1>2, <2>2, <3>4 DEF WokenFrom, InSleepOn
    <3>5. CASE \E u \in Task \ S : InSleepOn(u) /\ tmp[u] = t
      <4>1. PICK u \in Task \ S : InSleepOn(u) /\ tmp[u] = t
        BY <3>5
      <4>2. u # current
        BY <3>3, <4>1
      <4>3. InSleepOn(u)' /\ tmp'[u] = t
        BY <1>2, <4>1, <4>2
      <4> QED BY <4>1, <4>3 DEF WokenFrom
    <3> QED BY <3>2, <3>4, <3>5 DEF WokenFrom
  <2> QED BY <2>1, <2>2
<1>4. AsleepInQueueOnly'
  <2> SUFFICES ASSUME NEW t \in Asleep' PROVE InSleepOn(t)'
    BY DEF AsleepInQueueOnly, Asleep
  <2> QED BY <1>1 DEF IInv, AsleepInQueueOnly, InSleepOn
<1>5. SpuriousReturn'
  BY DEF SpuriousReturn
<1> QED BY <1>3, <1>4, <1>5

-----------------------------------------------------------------------------
(* Types.  Only the steps that schedule() takes part in need more than     *)
(* their own text.                                                         *)
LEMMA WokenByTmpType ==
  ASSUME TypeOK PROVE WokenByTmp \in [Task -> TaskState]
BY DEF WokenByTmp, TypeOK, SchedTypeOK, TaskState

LEMMA TypeStep == TypeOK /\ [WQNext]_vars => TypeOK'
<1> SUFFICES ASSUME TypeOK, [WQNext]_vars PROVE TypeOK'
  OBVIOUS
<1> USE DEF TypeOK, BufTypeOK, Place
<1>1. CASE Tick
  BY <1>1, UserTickType, KernelTickType DEF Tick, bufVars
<1>2. CASE OtherCall
  BY <1>2, SystemCallType DEF OtherCall, bufVars
<1>3. CASE LockBuffer
  <2>1. ASSUME SleepOn(state), UNCHANGED <<jiffies, priority, blocked>>
        PROVE  SchedTypeOK' /\ tmp' \in [Task -> Task \cup {NoTask}] /\ b_wait' \in Task
    <3>1. state \in [Task -> TaskState] /\ current \in Task
      BY DEF SchedTypeOK
    <3> QED BY <2>1, <3>1, SleepOnStep
  <2> QED BY <1>3, <2>1 DEF LockBuffer, schedVars, SchedTypeOK
<1>4. CASE AlreadyValid
  BY <1>4 DEF AlreadyValid, UnlockBuffer, SchedTypeOK, TaskState
<1>5. CASE QueueRequest
  BY <1>5 DEF QueueRequest, schedVars, SchedTypeOK
<1>6. CASE WaitOnBuffer
  <2>1. ASSUME SleepOn(state), UNCHANGED <<jiffies, priority, blocked>>
        PROVE  SchedTypeOK' /\ tmp' \in [Task -> Task \cup {NoTask}] /\ b_wait' \in Task
    <3>1. state \in [Task -> TaskState] /\ current \in Task
      BY DEF SchedTypeOK
    <3> QED BY <2>1, <3>1, SleepOnStep
  <2> QED BY <1>6, <2>1 DEF WaitOnBuffer, schedVars, SchedTypeOK
<1>8. CASE SleepAgain
  <2>1. current \in Task
    BY DEF SchedTypeOK
  <2> QED BY <1>8, <2>1, WokenByTmpType, SleepOnStep DEF SleepAgain
<1>9. CASE LeaveSleepOn
  BY <1>9, WokenByTmpType DEF LeaveSleepOn, SchedTypeOK
<1>10. CASE EndRequest
  BY <1>10 DEF EndRequest, UnlockBuffer, SchedTypeOK, TaskState
<1>11. CASE UNCHANGED vars
  BY <1>11 DEF vars, schedVars, bufVars, SchedTypeOK
<1> QED BY <1>1, <1>2, <1>3, <1>4, <1>5, <1>6, <1>8, <1>9, <1>10, <1>11
        DEF WQNext, KernelStep

(* One owner of the lock.                                                  *)
LEMMA ExclusionStep ==
  TypeOK /\ MutualExclusion /\ [WQNext]_vars => MutualExclusion'
<1> SUFFICES ASSUME TypeOK, MutualExclusion, [WQNext]_vars PROVE MutualExclusion'
  OBVIOUS
<1>1. current \in Task /\ pc \in [Task -> Place]
  BY DEF TypeOK, SchedTypeOK, BufTypeOK
<1>2. CASE UNCHANGED <<pc, b_lock, io>>
  BY <1>2 DEF MutualExclusion
<1>3. CASE LockBuffer
  BY <1>1, <1>3 DEF LockBuffer, MutualExclusion
<1>4. CASE AlreadyValid
  BY <1>1, <1>4 DEF AlreadyValid, UnlockBuffer, MutualExclusion
<1>5. CASE QueueRequest
  BY <1>1, <1>5 DEF QueueRequest, MutualExclusion
<1>6. CASE WaitOnBuffer
  BY <1>1, <1>6 DEF WaitOnBuffer, MutualExclusion
<1>8. CASE LeaveSleepOn
  BY <1>1, <1>8 DEF LeaveSleepOn, InSleepOn, MutualExclusion
<1>9. CASE EndRequest
  BY <1>1, <1>9 DEF EndRequest, UnlockBuffer, MutualExclusion
<1> QED BY <1>2, <1>3, <1>4, <1>5, <1>6, <1>8, <1>9
        DEF WQNext, KernelStep, Tick, OtherCall, SleepAgain, vars, bufVars

(* Sleeping and waking.                                                    *)
LEMMA SleepStep ==
  IInv /\ TypeOK' /\ [WQNext]_vars => NoLostWakeup' /\ AsleepInQueueOnly' /\ SpuriousReturn'
<1> SUFFICES ASSUME IInv, TypeOK', [WQNext]_vars
             PROVE  NoLostWakeup' /\ AsleepInQueueOnly' /\ SpuriousReturn'
  OBVIOUS
<1>1. /\ TypeOK /\ current \in Task /\ pc \in [Task -> Place]
      /\ state \in [Task -> TaskState] /\ tmp \in [Task -> Task \cup {NoTask}]
  BY DEF IInv, TypeOK, SchedTypeOK, BufTypeOK
<1>2. ~InSleepOn(current) => state[current] # "UNINTERRUPTIBLE"
  BY <1>1 DEF IInv, AsleepInQueueOnly
<1>3. CASE Tick \/ OtherCall
  <2>1. UNCHANGED bufVars /\ ~InSleepOn(current) /\ (SystemCall \/ UserTick \/ KernelTick)
    BY <1>3 DEF Tick, OtherCall, InSleepOn
  <2>2. Asleep' = Asleep /\ state'[current'] # "UNINTERRUPTIBLE"
    BY <1>1, <1>2, <2>1, SchedStep
  <2> QED BY <2>1, <2>2, QuietStep DEF bufVars
<1>4. CASE LockBuffer
  <2>1. ~InSleepOn(current)
    BY <1>4 DEF LockBuffer, InSleepOn
  <2>2. CASE b_lock
    BY <1>1, <1>4, <2>1, <2>2, EnqueueStep DEF LockBuffer, InSleepOn
  <2>3. CASE ~b_lock
    BY <1>1, <1>4, <2>1, <2>3, QuietStep DEF LockBuffer, InSleepOn, schedVars, Asleep
  <2> QED BY <2>2, <2>3
<1>5. CASE AlreadyValid
  BY <1>1, <1>5, UnlockStep DEF AlreadyValid, InSleepOn
<1>6. CASE QueueRequest
  BY <1>1, <1>6, QuietStep DEF QueueRequest, InSleepOn, schedVars, Asleep
<1>7. CASE WaitOnBuffer
  <2>1. ~InSleepOn(current)
    BY <1>7 DEF WaitOnBuffer, InSleepOn
  <2>2. CASE b_lock
    BY <1>1, <1>7, <2>1, <2>2, EnqueueStep DEF WaitOnBuffer, InSleepOn
  <2>3. CASE ~b_lock
    BY <1>1, <1>7, <2>1, <2>3, QuietStep DEF WaitOnBuffer, InSleepOn, schedVars, Asleep
  <2> QED BY <2>2, <2>3
<1>9. CASE SleepAgain
  <2>1. SleepOn(WokenByTmp) /\ b_lock /\ b_lock' /\ pc' = pc /\ InSleepOn(current)
    BY <1>9 DEF SleepAgain
  <2>2. UNCHANGED <<jiffies, priority, blocked>>
    BY <1>9 DEF SleepAgain
  <2>3. \A t \in Task \ {current} : WokenByTmp[t] = "UNINTERRUPTIBLE" =>
          state[t] = "UNINTERRUPTIBLE" /\ ~(InSleepOn(current) /\ tmp[current] = t)
    BY <1>1, NoTaskIsNoTask DEF WokenByTmp
  <2>4. WokenByTmp \in [Task -> TaskState]
    BY <1>1, WokenByTmpType
  <2> QED BY <2>1, <2>2, <2>3, <2>4, EnqueueStep DEF InSleepOn
<1>10. CASE LeaveSleepOn
  <2>1. ~b_lock /\ InSleepOn(current) /\ current' = current /\ state' = WokenByTmp
    BY <1>10 DEF LeaveSleepOn
  <2>2. state[current] # "UNINTERRUPTIBLE"
    BY <2>1 DEF IInv, SpuriousReturn
  <2>3. Asleep' = Asleep \ {tmp[current]} /\ current \notin Asleep'
    BY <1>1, <2>1, <2>2, NoTaskIsNoTask DEF Asleep, WokenByTmp
  <2>4. \A t \in Task \ {current} : (InSleepOn(t) <=> InSleepOn(t)') /\ tmp'[t] = tmp[t]
    BY <1>1, <1>10 DEF LeaveSleepOn, InSleepOn
  <2>5. NoLostWakeup'
    <3> SUFFICES ASSUME NEW S \in SUBSET Asleep', S # {}
                 PROVE  \E t \in S : WokenFrom(t, S)'
      BY DEF NoLostWakeup, Asleep
    <3>1. PICK t \in S : WokenFrom(t, S)
      BY <2>3 DEF IInv, NoLostWakeup, Asleep
    <3>2. PICK u \in Task \ S : InSleepOn(u) /\ tmp[u] = t
      BY <2>1, <3>1 DEF WokenFrom
    <3>3. u # current
      BY <2>3, <3>2
    <3>4. InSleepOn(u)' /\ tmp'[u] = t
      BY <2>4, <3>2, <3>3
    <3> QED BY <3>2, <3>4 DEF WokenFrom
  <2>6. AsleepInQueueOnly'
    BY <2>3, <2>4 DEF IInv, AsleepInQueueOnly, Asleep
  <2>7. SpuriousReturn'
    BY <1>1, <2>1, <2>3 DEF SpuriousReturn, Asleep
  <2> QED BY <2>5, <2>6, <2>7
<1>11. CASE EndRequest
  BY <1>1, <1>11, UnlockStep DEF EndRequest, InSleepOn
<1>12. CASE UNCHANGED vars
  BY <1>1, <1>12, QuietStep DEF vars, schedVars, bufVars, Asleep
<1> QED BY <1>3, <1>4, <1>5, <1>6, <1>7, <1>9, <1>10, <1>11, <1>12
        DEF WQNext, KernelStep

-----------------------------------------------------------------------------
THEOREM WaitQueueInvariant == WQSpec => []IInv
<1>1. Init => IInv
  BY InitIInv
<1>2. IInv /\ [WQNext]_vars => IInv'
  BY TypeStep, ExclusionStep, SleepStep DEF IInv
<1> QED BY <1>1, <1>2, PTL DEF WQSpec

(* However many tasks contend, one of them, or the disk, owns the buffer.  *)
THEOREM LockExcludes == WQSpec => []MutualExclusion
BY WaitQueueInvariant, PTL DEF IInv

(* The chain of tmp variables on the kernel stacks never drops a sleeper.  *)
THEOREM WakeupsAreKept == WQSpec => []NoLostWakeup
BY WaitQueueInvariant, PTL DEF IInv

(* schedule() may come back without having slept; no task leaves sleep_on  *)
(* still marked asleep for all that.                                       *)
THEOREM NobodyRunsAsleep == WQSpec => []AsleepInQueueOnly
BY WaitQueueInvariant, PTL DEF IInv

-----------------------------------------------------------------------------
LEMMA HolderIs ==
  ASSUME TypeOK, MutualExclusion
  PROVE  /\ io => Holder = Disk
         /\ ~b_lock <=> Holder = NoTask
         /\ \A t \in Task : pc[t] = "locked" => Holder = t
<1>1. Disk \notin Task /\ NoTask \notin Task /\ Disk # NoTask
  BY TaskCountAssumption DEF Disk, NoTask, Task
<1>2. ASSUME NEW t \in Task, pc[t] = "locked" PROVE Holder = t
  <2>1. ~io /\ \A s \in Task : pc[s] = "locked" => s = t
    BY <1>2 DEF MutualExclusion
  <2>2. Lockers = {t}
    BY <1>2, <2>1 DEF Lockers
  <2> QED BY <2>1, <2>2 DEF Holder
<1>3. CASE io
  BY <1>1, <1>2, <1>3 DEF Holder, MutualExclusion
<1>4. CASE ~io /\ \E t \in Task : pc[t] = "locked"
  BY <1>1, <1>2, <1>4 DEF MutualExclusion, Lockers
<1>5. CASE ~io /\ ~ \E t \in Task : pc[t] = "locked"
  BY <1>5 DEF Holder, Lockers, MutualExclusion
<1> QED BY <1>2, <1>3, <1>4, <1>5

(* Every step of the queue is a step of the lock, or changes nothing that  *)
(* a user of the lock can see.                                             *)
LEMMA LockStep ==
  TypeOK /\ MutualExclusion /\ TypeOK' /\ MutualExclusion' /\ [WQNext]_vars
    => [Lock!LockNext]_(Lock!lockVars)
<1> SUFFICES ASSUME TypeOK, MutualExclusion, TypeOK', MutualExclusion', [WQNext]_vars
             PROVE  [Lock!LockNext]_(Lock!lockVars)
  OBVIOUS
<1> DEFINE Waiting == {t \in Task : InSleepOn(t)}
<1>1. /\ current \in Task /\ pc \in [Task -> Place] /\ NoTask \notin Task /\ Disk # NoTask
      /\ Disk \notin Task
  BY TaskCountAssumption DEF TypeOK, SchedTypeOK, BufTypeOK, Disk, NoTask, Task
<1>2. /\ ~b_lock <=> Holder = NoTask
      /\ \A t \in Task : pc[t] = "locked" => Holder = t
      /\ io => Holder = Disk
  BY HolderIs
<1>3. /\ ~b_lock' <=> Holder' = NoTask
      /\ \A t \in Task : pc'[t] = "locked" => Holder' = t
      /\ io' => Holder' = Disk
  <2>1. (TypeOK /\ MutualExclusion =>
           /\ ~b_lock <=> Holder = NoTask
           /\ \A t \in Task : pc[t] = "locked" => Holder = t
           /\ io => Holder = Disk)'
    BY HolderIs, PTL
  <2> QED BY <2>1
<1>4. ASSUME Holder' = Holder, Waiting' = Waiting PROVE [Lock!LockNext]_(Lock!lockVars)
  BY <1>4 DEF Lock!lockVars
<1>5. ASSUME UNCHANGED <<pc, io>> PROVE [Lock!LockNext]_(Lock!lockVars)
  BY <1>4, <1>5 DEF Holder, Lockers, InSleepOn
<1>6. CASE LockBuffer
  <2>1. pc[current] = "user"
    BY <1>6 DEF LockBuffer
  <2>2. CASE b_lock
    <3>1. Waiting' = Waiting \cup {current} /\ Lockers' = Lockers /\ io' = io
      BY <1>1, <1>6, <2>1, <2>2 DEF LockBuffer, InSleepOn, Lockers
    <3>2. Holder' = Holder
      BY <3>1 DEF Holder
    <3>3. Holder \notin {NoTask, current}
      <4>1. io \/ \E t \in Task \ {current} : pc[t] = "locked"
        BY <2>1, <2>2 DEF MutualExclusion
      <4> QED BY <1>1, <1>2, <2>2, <4>1
    <3> QED BY <1>1, <3>1, <3>2, <3>3 DEF Lock!LockNext, Lock!Block
  <2>3. CASE ~b_lock
    <3>1. Waiting' = Waiting \ {current} /\ pc'[current] = "locked"
      BY <1>1, <1>6, <2>1, <2>3 DEF LockBuffer, InSleepOn
    <3> QED BY <1>1, <1>2, <1>3, <2>3, <3>1 DEF Lock!LockNext, Lock!Acquire
  <2> QED BY <2>2, <2>3
<1>7. CASE AlreadyValid
  <2>1. Waiting' = Waiting /\ ~b_lock' /\ Holder = current
    BY <1>1, <1>2, <1>7 DEF AlreadyValid, UnlockBuffer, InSleepOn
  <2> QED BY <1>1, <1>3, <2>1 DEF Lock!LockNext, Lock!Release
<1>8. CASE QueueRequest
  <2>1. Waiting' = Waiting /\ io' /\ Holder = current
    BY <1>1, <1>2, <1>8 DEF QueueRequest, InSleepOn
  <2> QED BY <1>1, <1>3, <2>1 DEF Lock!LockNext, Lock!HandOver
<1>9. CASE WaitOnBuffer
  <2>1. pc[current] \in {"issued", "user"}
    BY <1>9 DEF WaitOnBuffer
  <2>2. CASE b_lock
    <3>1. Waiting' = Waiting \cup {current} /\ Lockers' = Lockers /\ io' = io
      BY <1>1, <1>9, <2>1, <2>2 DEF WaitOnBuffer, InSleepOn, Lockers
    <3>2. Holder' = Holder
      BY <3>1 DEF Holder
    <3>3. Holder \notin {NoTask, current}
      <4>1. io \/ \E t \in Task \ {current} : pc[t] = "locked"
        BY <2>1, <2>2 DEF MutualExclusion
      <4> QED BY <1>1, <1>2, <2>2, <4>1
    <3> QED BY <1>1, <3>1, <3>2, <3>3 DEF Lock!LockNext, Lock!Block
  <2>3. CASE ~b_lock
    <3>1. Waiting' = Waiting /\ Lockers' = Lockers /\ io' = io
      BY <1>1, <1>9, <2>1, <2>3 DEF WaitOnBuffer, InSleepOn, Lockers
    <3> QED BY <1>4, <3>1 DEF Holder
  <2> QED BY <2>2, <2>3
<1>11. CASE LeaveSleepOn
  <2>1. ~b_lock /\ InSleepOn(current) /\ current \in Waiting /\ Waiting' = Waiting \ {current}
    BY <1>1, <1>11 DEF LeaveSleepOn, InSleepOn
  <2>2. CASE pc[current] = "lock"
    <3>1. pc'[current] = "locked"
      BY <1>1, <1>11, <2>2 DEF LeaveSleepOn
    <3> QED BY <1>1, <1>2, <1>3, <2>1, <3>1 DEF Lock!LockNext, Lock!Acquire
  <2>3. CASE pc[current] = "wait"
    <3>1. ~b_lock'
      BY <1>11, <2>3 DEF LeaveSleepOn
    <3> QED BY <1>1, <1>2, <1>3, <2>1, <3>1 DEF Lock!LockNext, Lock!Pass
  <2> QED BY <2>1, <2>2, <2>3 DEF InSleepOn
<1>12. CASE EndRequest
  <2>1. Waiting' = Waiting /\ ~b_lock' /\ Holder = Disk
    BY <1>2, <1>12 DEF EndRequest, UnlockBuffer, InSleepOn
  <2> QED BY <1>1, <1>3, <2>1 DEF Lock!LockNext, Lock!Release
<1> QED BY <1>5, <1>6, <1>7, <1>8, <1>9, <1>11, <1>12
        DEF WQNext, KernelStep, Tick, OtherCall, SleepAgain, vars, bufVars

(* The kernel's sleep_on, wake_up and buffer lock implement the abstract   *)
(* lock of module BufferLock.                                              *)
THEOREM LockImplemented == WQSpec => ImplementsLock
<1>1. Init => Lock!LockInit
  <2> SUFFICES ASSUME Init PROVE Lock!LockInit
    OBVIOUS
  <2>1. Holder = NoTask /\ {t \in Task : InSleepOn(t)} = {}
    BY DEF Init, Holder, Lockers, InSleepOn
  <2> QED BY <2>1 DEF Lock!LockInit
<1>2. IInv /\ IInv' /\ [WQNext]_vars => [Lock!LockNext]_(Lock!lockVars)
  BY LockStep DEF IInv
<1> QED BY <1>1, <1>2, WaitQueueInvariant, PTL
        DEF WQSpec, ImplementsLock, Lock!LockSpec

=============================================================================
