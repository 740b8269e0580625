--------------------------- MODULE SignalsProofs ---------------------------
(* Theorems of Process and of Signals, for any number of slots, any range  *)
(* of pids and any signals, any actions, any masks and any depth of        *)
(* nesting.  Without handlers: types, unique pids, living fathers, and     *)
(* reports of death.  With them: the same, a handler's mask holds, and     *)
(* leaving a handler restores the mask.                                    *)
EXTENDS Signals, SchedProofs, SequenceTheorems

(* Before TASK_0 forks there is nobody else and no pid given; afterwards   *)
(* task1 is there for good, and is the process with pid 1 that orphans are *)
(* given to.                                                               *)
InitLives ==
  \/ Others = {} /\ last_pid = 0
  \/ 1 \in Others /\ pid[1] = 1 /\ state[1] # "ZOMBIE"

(* Task 0 is always ready, and it alone has pid 0.                         *)
Task0Runs ==
  /\ state[0] = "RUNNING" /\ pid[0] = 0
  /\ \A t \in Others : pid[t] # 0

(* A dead task may have the CPU, but not in user mode.                     *)
DeadNotInUser ==
  /\ current \in Present
  /\ \A t \in Task : state[t] = "ZOMBIE" => pc[t] # "user"

IInv ==
  TypeOK /\ InitLives /\ Task0Runs /\ DeadNotInUser /\ PidUnique /\ FatherAlive

LEMMA ZeroIsTask == 0 \in Task
BY TaskCountAssumption DEF Task

-----------------------------------------------------------------------------
(* Types.                                                                  *)
LEMMA PInitType == Init => TypeOK
BY ZeroInRange, TaskCountAssumption, PriorityAssumption, PidAssumption
   DEF Init, TypeOK, SchedTypeOK, Task, TaskState

LEMMA DoExitType ==
  ASSUME TypeOK, NEW sg \in [Task -> SUBSET Sig], DoExit(sg)
  PROVE  /\ SchedTypeOK' /\ pid' \in [Task -> 0 .. MaxPid]
         /\ father' \in [Task -> -1 .. MaxPid] /\ last_pid' \in 0 .. MaxPid
<1> DEFINE st == [state EXCEPT ![current] = "ZOMBIE"]
           told == [t \in Task |-> IF t \in Reported THEN sg[t] \cup {SIGCHLD} ELSE sg[t]]
<1>1. Table(st, told, ts)
  BY SigAssumption DEF Table, TypeOK, SchedTypeOK, TaskState
<1>2. Schedule(st, told, ts) /\ UNCHANGED <<jiffies, priority, blocked, pid, last_pid>>
  BY DEF DoExit
<1>3. father' \in [Task -> -1 .. MaxPid]
  BY PidAssumption, TaskCountAssumption DEF DoExit, TypeOK
<1>4. SchedTypeOK'
  <2> HIDE DEF st, told
  <2>1. SchedTypeOK /\ jiffies' \in Int32
    BY <1>2 DEF TypeOK, SchedTypeOK
  <2> QED BY <1>1, <1>2, <2>1, ScheduleType DEF SchedTypeOK
<1> QED BY <1>2, <1>3, <1>4 DEF TypeOK

LEMMA PTypeStep == TypeOK /\ [PNext]_vars => TypeOK'
<1> SUFFICES ASSUME TypeOK, [PNext]_vars PROVE TypeOK'
  OBVIOUS
<1>1. current \in Task
  BY DEF TypeOK, SchedTypeOK
<1>2. CASE SysFork
  <2>1. PICK p \in 1 .. MaxPid : IsNextPid(p) /\ last_pid' = p
    BY <1>2 DEF SysFork
  <2>2. CASE \E slot \in Task : IsNextSlot(slot) /\ ForkInto(slot, last_pid')
    <3>1. PICK slot \in Task : ForkInto(slot, last_pid')
      BY <2>2
    <3>2. SchedTypeOK'
      BY <1>1, <3>1, ZeroInRange DEF ForkInto, TypeOK, SchedTypeOK, TaskState
    <3> QED BY <1>1, <2>1, <3>1, <3>2 DEF ForkInto, TypeOK
  <2>3. CASE ForkFails \/ ForkPanics
    BY <1>1, <2>1, <2>3 DEF ForkFails, ForkPanics, schedVars, TypeOK, SchedTypeOK
  <2> QED BY <1>2, <2>2, <2>3 DEF SysFork
<1>3. CASE SysExit
  BY <1>1, <1>3, DoExitType DEF SysExit, Hang, Return, schedVars, TypeOK, SchedTypeOK
<1>4. CASE SchedulerCall
  BY <1>1, <1>4, SystemCallType, UserTickType DEF SchedulerCall, Return, TypeOK
<1>5. CASE TickInFork
  BY <1>5, KernelTickType DEF TickInFork, procVars, TypeOK
<1>6. CASE ReturnToUser
  <2>1. CASE NoSignalTaken
    BY <1>1, <2>1 DEF NoSignalTaken, ToUser, schedVars, TypeOK, SchedTypeOK
  <2>2. CASE ChildSignalDropped
    BY <1>1, <2>2 DEF ChildSignalDropped, Taken, ToUser, TypeOK, SchedTypeOK
  <2>3. CASE \E sig \in Sig : KilledBySignal(sig)
    <3>1. PICK sig \in Sig : KilledBySignal(sig)
      BY <2>3
    <3>2. Taken(sig) \in [Task -> SUBSET Sig]
      BY <1>1 DEF Taken, TypeOK, SchedTypeOK
    <3> QED BY <1>1, <3>1, <3>2, DoExitType
            DEF KilledBySignal, Hang, schedVars, TypeOK, SchedTypeOK
  <2>4. CASE TickAtIret
    BY <1>1, <2>4, UserTickType DEF TickAtIret, procVars, TypeOK
  <2> QED BY <1>6, <2>1, <2>2, <2>3, <2>4 DEF ReturnToUser
<1>7. CASE \E p \in -2 .. MaxPid, sig \in KillSigs : AtMost(MaxAtKill) /\ SysKill(p, sig)
  BY <1>1, <1>7, SignalAssumption DEF SysKill, Return, TypeOK, SchedTypeOK
<1>8. CASE \E mask \in Masks : AtMost(MaxAtMask) /\ SysSsetmask(mask)
  BY <1>1, <1>8, SignalAssumption DEF SysSsetmask, Return, TypeOK, SchedTypeOK
<1>9. CASE UNCHANGED vars
  BY <1>9 DEF vars, schedVars, procVars, TypeOK, SchedTypeOK
<1> QED BY <1>2, <1>3, <1>4, <1>5, <1>6, <1>7, <1>8, <1>9 DEF PNext

-----------------------------------------------------------------------------
LEMMA PInitIInv == Init => IInv
<1> SUFFICES ASSUME Init PROVE IInv
  OBVIOUS
<1>1. TypeOK
  BY PInitType
<1>2. Present = {0} /\ Others = {}
  BY ZeroIsTask DEF Init, Present, Others
<1>3. InitLives /\ Task0Runs /\ DeadNotInUser
  BY <1>2, ZeroIsTask DEF Init, InitLives, Task0Runs, DeadNotInUser
<1>4. PidUnique /\ FatherAlive
  BY <1>2 DEF PidUnique, FatherAlive
<1> QED BY <1>1, <1>3, <1>4 DEF IInv

(* A step in which nobody is born and nobody dies.                         *)
Quiet ==
  /\ UNCHANGED <<pid, father, last_pid>>
  /\ \A t \in Task : (state'[t] = "NULL" <=> state[t] = "NULL")
                    /\ (state'[t] = "ZOMBIE" <=> state[t] = "ZOMBIE")
  /\ state'[0] = "RUNNING" /\ current' \in Present'
  /\ \A t \in Task : pc'[t] = "user" => pc[t] = "user" \/ state[t] # "ZOMBIE"

LEMMA QuietStep == IInv /\ TypeOK' /\ Quiet => IInv'
<1> SUFFICES ASSUME IInv, TypeOK', Quiet PROVE IInv'
  OBVIOUS
<1>1. Present' = Present /\ Others' = Others
  BY DEF Quiet, Present, Others
<1>2. InitLives'
  BY <1>1 DEF IInv, InitLives, Quiet, Others, Present
<1>3. Task0Runs'
  BY <1>1 DEF IInv, Task0Runs, Quiet
<1>4. DeadNotInUser'
  BY <1>1 DEF IInv, DeadNotInUser, Quiet
<1>5. PidUnique'
  BY <1>1 DEF IInv, PidUnique, Quiet
<1>6. FatherAlive'
  BY <1>1 DEF IInv, FatherAlive, Quiet, Others, Present
<1> QED BY <1>2, <1>3, <1>4, <1>5, <1>6 DEF IInv

(* A call of schedule() that its caller has not died in, from a table st.  *)
LEMMA ScheduleQuiet ==
  ASSUME IInv, NEW st, NEW sg, NEW sl, Schedule(st, sg, sl),
         sl \in [Task -> Int], blocked' = blocked, st[0] = "RUNNING",
         \A t \in Task : (st[t] = "NULL" <=> state[t] = "NULL")
                       /\ (st[t] = "ZOMBIE" <=> state[t] = "ZOMBIE")
  PROVE  /\ \A t \in Task : (state'[t] = "NULL" <=> state[t] = "NULL")
                           /\ (state'[t] = "ZOMBIE" <=> state[t] = "ZOMBIE")
         /\ state'[0] = "RUNNING" /\ current' \in Present'
<1>1. \A t \in Task : state'[t] = st[t] \/ (st[t] = "INTERRUPTIBLE" /\ state'[t] = "RUNNING")
  BY ScheduleStates
<1>2. \A t \in Task : (state'[t] = "NULL" <=> state[t] = "NULL")
                    /\ (state'[t] = "ZOMBIE" <=> state[t] = "ZOMBIE")
  BY <1>1
<1>3. current \in Task /\ state[current] # "NULL"
  BY DEF IInv, DeadNotInUser, Present
<1>4. CASE current' = current
  BY <1>1, <1>2, <1>3, <1>4, ZeroIsTask DEF Present
<1>5. CASE current' # current
  <2>1. current' \in Task
    BY Zenon, <1>5 DEF Schedule, Ready
  <2>2. state'[current'] = "RUNNING"
    BY <1>5, ScheduleSwitch
  <2> QED BY <1>1, <1>2, <2>1, <2>2, ZeroIsTask DEF Present
<1> QED BY <1>4, <1>5

LEMMA SchedulerCallStep == IInv /\ SchedulerCall => Quiet
<1> SUFFICES ASSUME IInv, SchedulerCall PROVE Quiet
  OBVIOUS
<1>1. /\ current \in Task /\ state \in [Task -> TaskState] /\ ts \in [Task -> Int]
      /\ pc \in [Task -> {"user", "ret", "open", "hung"}]
  BY DEF IInv, TypeOK, SchedTypeOK
<1>2. pc[current] = "user" /\ pc' = [pc EXCEPT ![current] = "ret"] /\ UNCHANGED <<pid, father, last_pid>>
  BY DEF SchedulerCall, InUser, Return
<1>3. state[current] \notin {"NULL", "ZOMBIE"} /\ state[0] = "RUNNING"
  BY <1>1, <1>2 DEF IInv, DeadNotInUser, Task0Runs, Present
<1>4. /\ \A t \in Task : (state'[t] = "NULL" <=> state[t] = "NULL")
                      /\ (state'[t] = "ZOMBIE" <=> state[t] = "ZOMBIE")
      /\ state'[0] = "RUNNING" /\ current' \in Present'
  <2>1. CASE SystemCall /\ SysPause
    <3> DEFINE st == [state EXCEPT ![current] = "INTERRUPTIBLE"]
    <3>1. Schedule(st, signal, ts) /\ blocked' = blocked
      BY <2>1 DEF SysPause
    <3>2. st[0] = "RUNNING" /\ \A t \in Task : (st[t] = "NULL" <=> state[t] = "NULL")
                                         /\ (st[t] = "ZOMBIE" <=> state[t] = "ZOMBIE")
      BY <1>1, <1>3, <2>1, ZeroIsTask DEF SystemCall
    <3> HIDE DEF st
    <3> QED BY <1>1, <3>1, <3>2, ScheduleQuiet
  <2>2. CASE UserTick /\ ~UNCHANGED <<current, state>>
    <3> DEFINE charged == [ts EXCEPT ![current] = @ - 1]
    <3>1. Schedule(state, signal, charged) /\ blocked' = blocked
      BY <2>2 DEF UserTick
    <3>2. charged \in [Task -> Int]
      BY <1>1
    <3> HIDE DEF charged
    <3> QED BY <1>3, <3>1, <3>2, ScheduleQuiet
  <2>3. CASE UNCHANGED <<current, state>>
    BY <1>1, <1>3, <2>3 DEF Present
  <2> QED BY <2>1, <2>2, <2>3 DEF SchedulerCall, SystemCall, SysNice, SysAlarm
<1> QED BY <1>1, <1>2, <1>4 DEF Quiet

(* A tick at the iret of a zombie.                                         *)
LEMMA TickAtIretStep == IInv /\ TickAtIret => Quiet
<1> SUFFICES ASSUME IInv, TickAtIret PROVE Quiet
  OBVIOUS
<1>1. /\ current \in Task /\ ts \in [Task -> Int] /\ state[0] = "RUNNING"
      /\ current \in Present
  BY DEF IInv, TypeOK, SchedTypeOK, Task0Runs, DeadNotInUser
<1>2. UserTick /\ pc' = pc /\ UNCHANGED <<pid, father, last_pid>>
  BY DEF TickAtIret, procVars
<1>3. /\ \A t \in Task : (state'[t] = "NULL" <=> state[t] = "NULL")
                      /\ (state'[t] = "ZOMBIE" <=> state[t] = "ZOMBIE")
      /\ state'[0] = "RUNNING" /\ current' \in Present'
  <2>1. CASE ~UNCHANGED <<current, state>>
    <3> DEFINE charged == [ts EXCEPT ![current] = @ - 1]
    <3>1. Schedule(state, signal, charged) /\ blocked' = blocked
      BY <1>2, <2>1 DEF UserTick
    <3>2. charged \in [Task -> Int]
      BY <1>1
    <3> HIDE DEF charged
    <3> QED BY <1>1, <3>1, <3>2, ScheduleQuiet
  <2>2. CASE UNCHANGED <<current, state>>
    BY <1>1, <2>2 DEF Present
  <2> QED BY <2>1, <2>2
<1> QED BY <1>2, <1>3 DEF Quiet

(* The steps that leave the table of states alone.                         *)
LEMMA SameStatesStep ==
  ASSUME IInv, UNCHANGED <<state, current, pid, father, last_pid>>,
         pc' = pc \/ (\E place \in {"ret", "open", "hung"} : pc' = [pc EXCEPT ![current] = place])
                  \/ (state[current] # "ZOMBIE" /\ pc' = [pc EXCEPT ![current] = "user"])
  PROVE  Quiet
<1>1. /\ current \in Task /\ pc \in [Task -> {"user", "ret", "open", "hung"}]
      /\ state[0] = "RUNNING" /\ current \in Present
  BY DEF IInv, TypeOK, SchedTypeOK, Task0Runs, DeadNotInUser
<1>2. Present' = Present
  BY DEF Present
<1>3. \A t \in Task : pc'[t] = "user" => pc[t] = "user" \/ state[t] # "ZOMBIE"
  BY <1>1
<1> QED BY <1>1, <1>2, <1>3 DEF Quiet

-----------------------------------------------------------------------------
(* Birth.  The first pid is 1 and goes to slot 1.                          *)
LEMMA FirstPid ==
  ASSUME last_pid = 0, Present = {0}, pid[0] = 0, NEW p \in 1 .. MaxPid, IsNextPid(p)
  PROVE  p = 1
<1>1. MaxPid \in Nat \ {0}
  BY PidAssumption, TaskCountAssumption
<1>2. 1 \in FreePids
  BY <1>1 DEF FreePids
<1>3. StepsTo(p) <= StepsTo(1)
  BY <1>2 DEF IsNextPid
<1>4. ASSUME NEW q \in 1 .. MaxPid PROVE StepsTo(q) = q - 1
  <2>1. q - 1 \in 0 .. MaxPid - 1 /\ q - 0 - 1 = q - 1
    BY <1>1
  <2>2. (q - 1) % MaxPid = q - 1
    BY <1>1, <2>1
  <2> QED BY <2>1, <2>2 DEF StepsTo
<1> QED BY <1>1, <1>3, <1>4

LEMMA ForkStep == IInv /\ TypeOK' /\ SysFork => IInv'
<1> SUFFICES ASSUME IInv, TypeOK', SysFork PROVE IInv'
  OBVIOUS
<1>1. PICK p \in 1 .. MaxPid : IsNextPid(p) /\ last_pid' = p
  BY DEF SysFork
<1>2. /\ current \in Task /\ pc \in [Task -> {"user", "ret", "open", "hung"}]
      /\ pc[current] = "user" /\ state \in [Task -> TaskState]
      /\ pid \in [Task -> 0 .. MaxPid] /\ father \in [Task -> -1 .. MaxPid]
  BY DEF SysFork, InUser, IInv, TypeOK, SchedTypeOK
<1>3. current \in Present /\ state[current] # "ZOMBIE" /\ state[0] = "RUNNING" /\ 0 \in Present /\ pid[0] = 0
  BY <1>2, ZeroIsTask DEF IInv, DeadNotInUser, Task0Runs, Present
<1>4. \A t \in Present : pid[t] # p
  BY <1>1 DEF IsNextPid, FreePids
<1>5. Others = {} => current = 0 /\ last_pid = 0 /\ Present = {0}
  BY <1>3 DEF IInv, InitLives, Others
<1>6. CASE \E slot \in Task : IsNextSlot(slot) /\ ForkInto(slot, last_pid')
  <2>1. PICK slot \in Task : IsNextSlot(slot) /\ ForkInto(slot, p)
    BY <1>1, <1>6
  <2>2. /\ slot \notin Present /\ slot # 0 /\ slot # current
        /\ state' = [state EXCEPT ![slot] = "RUNNING"] /\ pid' = [pid EXCEPT ![slot] = p]
        /\ father' = [father EXCEPT ![slot] = pid[current]] /\ current' = current
        /\ pc' = [t \in Task |-> IF t = current THEN "open" ELSE IF t = slot THEN "user" ELSE pc[t]]
    BY <1>2, <1>3, <2>1 DEF ForkInto, IsNextSlot, EmptySlots
  <2>3. Present' = Present \cup {slot} /\ Others' = Others \cup {slot}
    BY <1>2, <2>2 DEF Present, Others
  <2>4. InitLives'
    <3>1. CASE Others = {}
      <4>1. p = 1
        BY <1>1, <1>3, <1>5, <3>1, FirstPid
      <4>2. 1 \in EmptySlots
        BY <1>5, <3>1 DEF SysFork
      <4>3. slot = 1
        <5>1. slot <= 1
          BY <2>1, <4>2 DEF IsNextSlot
        <5> QED BY <2>2, <5>1 DEF Task
      <4> QED BY <1>2, <2>2, <2>3, <4>1, <4>3 DEF InitLives
    <3>2. CASE 1 \in Others /\ pid[1] = 1 /\ state[1] # "ZOMBIE"
      BY <1>2, <2>2, <2>3, <3>2 DEF InitLives, Others, Present
    <3> QED BY <3>1, <3>2 DEF IInv, InitLives
  <2>5. Task0Runs'
    BY <1>2, <1>3, <2>2, <2>3, ZeroIsTask DEF IInv, Task0Runs, Others, Present
  <2>6. DeadNotInUser'
    BY <1>2, <1>3, <2>2, <2>3 DEF IInv, DeadNotInUser
  <2>7. PidUnique'
    BY <1>2, <1>4, <2>2, <2>3 DEF IInv, PidUnique, Present
  <2>8. FatherAlive'
    <3> SUFFICES ASSUME NEW t \in Others'
                 PROVE  father'[t] = 0 \/ \E f \in Others' : pid'[f] = father'[t] /\ state'[f] # "ZOMBIE"
      BY DEF FatherAlive
    <3>1. CASE t = slot
      <4>1. father'[t] = pid[current]
        BY <1>2, <2>2, <3>1
      <4>2. CASE current = 0
        BY <1>3, <4>1, <4>2
      <4>3. CASE current # 0
        BY <1>2, <1>3, <2>2, <2>3, <4>1, <4>3 DEF Others
      <4> QED BY <4>2, <4>3
    <3>2. CASE t # slot
      <4>1. t \in Others /\ father'[t] = father[t]
        BY <1>2, <2>2, <2>3, <3>2 DEF Others, Present
      <4>2. CASE father[t] = 0
        BY <4>1, <4>2
      <4>3. CASE \E f \in Others : pid[f] = father[t] /\ state[f] # "ZOMBIE"
        <5>1. PICK f \in Others : pid[f] = father[t] /\ state[f] # "ZOMBIE"
          BY <4>3
        <5>2. f # slot /\ f \in Task
          BY <2>2, <5>1 DEF Others, Present
        <5> QED BY <1>2, <2>2, <2>3, <4>1, <5>1, <5>2
      <4> QED BY <4>1, <4>2, <4>3 DEF IInv, FatherAlive
    <3> QED BY <3>1, <3>2
  <2> QED BY <2>4, <2>5, <2>6, <2>7, <2>8 DEF IInv
<1>7. CASE 1 \notin EmptySlots /\ (ForkFails \/ ForkPanics)
  <2>1. UNCHANGED <<state, current, pid, father>>
        /\ \E place \in {"open", "hung"} : pc' = [pc EXCEPT ![current] = place]
    BY <1>7 DEF ForkFails, ForkPanics, schedVars
  <2>2. Present' = Present /\ Others' = Others
    BY <2>1 DEF Present, Others
  <2>3. Others # {}
    <3>1. CASE current = 0
      BY <1>7, <3>1 DEF SysFork
    <3>2. CASE current # 0
      BY <1>3, <3>2 DEF Others
    <3> QED BY <3>1, <3>2
  <2>4. InitLives'
    BY <2>1, <2>2, <2>3 DEF IInv, InitLives
  <2>5. Task0Runs' /\ DeadNotInUser'
    BY <1>2, <2>1, <2>2 DEF IInv, Task0Runs, DeadNotInUser
  <2>6. PidUnique' /\ FatherAlive'
    BY <2>1, <2>2 DEF IInv, PidUnique, FatherAlive
  <2> QED BY <2>4, <2>5, <2>6 DEF IInv
<1> QED BY <1>6, <1>7 DEF SysFork

-----------------------------------------------------------------------------
(* Death.  The children are given to task1, which is not the one that dies,*)
(* and everybody else keeps the father they had.                           *)
LEMMA DoExitStates ==
  ASSUME IInv, NEW sg, DoExit(sg)
  PROVE  /\ \A t \in Task : state'[t] = "NULL" <=> state[t] = "NULL"
         /\ \A t \in Task : state'[t] = "ZOMBIE" <=> (state[t] = "ZOMBIE" \/ t = current)
         /\ current # 0 => state'[0] = "RUNNING"
         /\ current' \in Present'
<1> DEFINE st == [state EXCEPT ![current] = "ZOMBIE"]
           told == [t \in Task |-> IF t \in Reported THEN sg[t] \cup {SIGCHLD} ELSE sg[t]]
<1>1. /\ current \in Task /\ state \in [Task -> TaskState] /\ ts \in [Task -> Int]
      /\ state[0] = "RUNNING" /\ state[current] # "NULL"
  BY DEF IInv, TypeOK, SchedTypeOK, Task0Runs, DeadNotInUser, Present
<1>2. Schedule(st, told, ts) /\ blocked' = blocked
  BY DEF DoExit
<1>3. \A t \in Task : st[t] = IF t = current THEN "ZOMBIE" ELSE state[t]
  BY <1>1
<1> HIDE DEF st, told
<1>4. \A t \in Task : state'[t] = st[t] \/ (st[t] = "INTERRUPTIBLE" /\ state'[t] = "RUNNING")
  BY <1>2, ScheduleStates
<1>5. current' # current => current' \in Task /\ state'[current'] = "RUNNING"
  <2> SUFFICES ASSUME current' # current PROVE current' \in Task /\ state'[current'] = "RUNNING"
    OBVIOUS
  <2>1. current' \in Task
    BY Zenon, <1>2 DEF Schedule, Ready
  <2>2. state'[current'] = "RUNNING"
    BY <1>1, <1>2, ScheduleSwitch
  <2> QED BY <2>1, <2>2
<1> QED BY <1>1, <1>3, <1>4, <1>5, ZeroIsTask DEF Present

LEMMA DeathStep ==
  ASSUME IInv, TypeOK', NEW sg, DoExit(sg), MayExit,
         \E place \in {"ret", "hung"} : pc' = [pc EXCEPT ![current] = place]
  PROVE  IInv'
<1>1. /\ current \in Task /\ pc \in [Task -> {"user", "ret", "open", "hung"}]
      /\ current \notin {0, 1} /\ current \in Others /\ current \in Present
  BY DEF IInv, TypeOK, SchedTypeOK, MayExit, DeadNotInUser, Others
<1>2. /\ \A t \in Task : state'[t] = "NULL" <=> state[t] = "NULL"
      /\ \A t \in Task : state'[t] = "ZOMBIE" <=> (state[t] = "ZOMBIE" \/ t = current)
      /\ state'[0] = "RUNNING" /\ current' \in Present'
  BY <1>1, DoExitStates
<1>3. pid' = pid /\ last_pid' = last_pid
      /\ father' = [t \in Task |-> IF t \in Children THEN 1 ELSE father[t]]
  BY DEF DoExit
<1>4. Present' = Present /\ Others' = Others
  BY <1>2 DEF Present, Others
<1>5. 1 \in Others /\ pid[1] = 1 /\ state[1] # "ZOMBIE" /\ 1 \in Task
  BY <1>1 DEF IInv, InitLives, Others, Present
<1>6. state'[1] # "ZOMBIE"
  BY <1>1, <1>2, <1>5
<1>7. InitLives'
  BY <1>3, <1>4, <1>5, <1>6 DEF InitLives
<1>8. Task0Runs'
  BY <1>2, <1>3, <1>4 DEF IInv, Task0Runs
<1>9. DeadNotInUser'
  BY <1>1, <1>2 DEF IInv, DeadNotInUser
<1>10. PidUnique'
  BY <1>3, <1>4 DEF IInv, PidUnique
<1>11. FatherAlive'
  <2> SUFFICES ASSUME NEW t \in Others
               PROVE  father'[t] = 0 \/ \E f \in Others : pid'[f] = father'[t] /\ state'[f] # "ZOMBIE"
    BY <1>4 DEF FatherAlive
  <2>1. CASE t \in Children
    BY <1>3, <1>5, <1>6, <2>1 DEF Others, Present
  <2>2. CASE t \notin Children
    <3>1. father'[t] = father[t] /\ father[t] # pid[current]
      BY <1>3, <2>2 DEF Children, Others, Present
    <3>2. CASE father[t] = 0
      BY <3>1, <3>2
    <3>3. CASE \E f \in Others : pid[f] = father[t] /\ state[f] # "ZOMBIE"
      <4>1. PICK f \in Others : pid[f] = father[t] /\ state[f] # "ZOMBIE"
        BY <3>3
      <4>2. f # current /\ f \in Task
        BY <3>1, <4>1 DEF Others, Present
      <4> QED BY <1>2, <1>3, <3>1, <4>1, <4>2
    <3> QED BY <3>2, <3>3 DEF IInv, FatherAlive
  <2> QED BY <2>1, <2>2
<1> QED BY <1>7, <1>8, <1>9, <1>10, <1>11 DEF IInv

LEMMA PStep == IInv /\ [PNext]_vars => IInv'
<1> SUFFICES ASSUME IInv, [PNext]_vars PROVE IInv'
  OBVIOUS
<1>1. TypeOK'
  BY PTypeStep DEF IInv
<1>2. CASE SysFork
  BY <1>1, <1>2, ForkStep
<1>3. CASE SysExit
  <2>1. CASE MayExit
    BY <1>1, <1>3, <2>1, DeathStep DEF SysExit, Return
  <2>2. CASE ~MayExit
    BY <1>1, <1>3, <2>2, SameStatesStep, QuietStep DEF SysExit, Hang, schedVars
  <2> QED BY <2>1, <2>2
<1>4. CASE SchedulerCall
  BY <1>1, <1>4, SchedulerCallStep, QuietStep
<1>5. CASE TickInFork
  BY <1>1, <1>5, SameStatesStep, QuietStep DEF TickInFork, KernelTick, procVars
<1>6. CASE ReturnToUser
  <2>1. ToUser => \/ \E place \in {"ret", "open", "hung"} : pc' = [pc EXCEPT ![current] = place]
                  \/ state[current] # "ZOMBIE" /\ pc' = [pc EXCEPT ![current] = "user"]
    BY DEF ToUser
  <2>2. CASE NoSignalTaken
    BY <1>1, <2>1, <2>2, SameStatesStep, QuietStep DEF NoSignalTaken, schedVars
  <2>3. CASE ChildSignalDropped
    BY <1>1, <2>1, <2>3, SameStatesStep, QuietStep DEF ChildSignalDropped
  <2>4. CASE \E sig \in Sig : KilledBySignal(sig)
    <3>1. PICK sig \in Sig : KilledBySignal(sig)
      BY <2>4
    <3>2. CASE MayExit
      BY <1>1, <3>1, <3>2, DeathStep DEF KilledBySignal
    <3>3. CASE ~MayExit
      BY <1>1, <3>1, <3>3, SameStatesStep, QuietStep DEF KilledBySignal, Hang, schedVars
    <3> QED BY <3>2, <3>3
  <2>5. CASE TickAtIret
    BY <1>1, <2>5, TickAtIretStep, QuietStep
  <2> QED BY <1>6, <2>2, <2>3, <2>4, <2>5 DEF ReturnToUser
<1>7. CASE \E p \in -2 .. MaxPid, sig \in KillSigs : AtMost(MaxAtKill) /\ SysKill(p, sig)
  BY <1>1, <1>7, SameStatesStep, QuietStep DEF SysKill, Return
<1>8. CASE \E mask \in Masks : AtMost(MaxAtMask) /\ SysSsetmask(mask)
  BY <1>1, <1>8, SameStatesStep, QuietStep DEF SysSsetmask, Return
<1>9. CASE UNCHANGED vars
  BY <1>1, <1>9, SameStatesStep, QuietStep DEF vars, schedVars, procVars
<1> QED BY <1>2, <1>3, <1>4, <1>5, <1>6, <1>7, <1>8, <1>9 DEF PNext

-----------------------------------------------------------------------------
THEOREM ProcessInvariant == PSpec => []IInv
BY PInitIInv, PStep, PTL DEF PSpec

(* However pids wrap and slots are re-used, a pid names one task.          *)
THEOREM PidsAreUnique == PSpec => []PidUnique
BY ProcessInvariant, PTL DEF IInv

(* The father of every task is task0 or alive, so that no exit ever        *)
(* releases the running task.                                              *)
THEOREM FathersAreAlive == PSpec => []FatherAlive
BY ProcessInvariant, PTL DEF IInv

(* What a death leaves behind; the formula of DeathIsReported.             *)
Report ==
  \A t \in Others :
    state[t] # "ZOMBIE" /\ state'[t] = "ZOMBIE" =>
      \A f \in Others :
        (\/ pid[f] = father[t]
         \/ \E c \in Others : father[c] = pid[t] /\ state[c] = "ZOMBIE" /\ pid[f] = father'[c])
          => SIGCHLD \in signal'[f]

LEMMA NobodyDied ==
  ASSUME \A t \in Others : state'[t] = "ZOMBIE" => state[t] = "ZOMBIE"
  PROVE  Report
BY DEF Report

LEMMA DeathReport ==
  ASSUME IInv, NEW sg \in [Task -> SUBSET Sig], DoExit(sg), MayExit
  PROVE  Report
<1> SUFFICES ASSUME NEW t \in Others, state[t] # "ZOMBIE", state'[t] = "ZOMBIE", NEW f \in Others,
                    \/ pid[f] = father[t]
                    \/ \E c \in Others : father[c] = pid[t] /\ state[c] = "ZOMBIE" /\ pid[f] = father'[c]
             PROVE  SIGCHLD \in signal'[f]
  BY DEF Report
<1>1. t = current /\ t \in Task /\ f \in Task
  BY DoExitStates DEF Others, Present
<1>2. 1 \in Others /\ pid[1] = 1
  BY <1>1 DEF IInv, InitLives
<1>3. f \in Reported
  <2>1. CASE pid[f] = father[t]
    BY <1>1, <2>1 DEF Reported, WithPid
  <2>2. CASE \E c \in Others : father[c] = pid[t] /\ state[c] = "ZOMBIE" /\ pid[f] = father'[c]
    <3>1. PICK c \in Others : father[c] = pid[t] /\ state[c] = "ZOMBIE" /\ pid[f] = father'[c]
      BY <2>2
    <3>2. c \in Children /\ c \in Task
      BY <1>1, <3>1 DEF Children, Others, Present
    <3>3. father'[c] = 1
      BY <3>2 DEF DoExit
    <3>4. f = 1
      BY <1>2, <3>1, <3>3 DEF IInv, PidUnique, Others
    <3> QED BY <3>1, <3>2, <3>4 DEF Reported
  <2> QED BY <2>1, <2>2
<1>4. SIGCHLD \in signal'[f]
  BY <1>1, <1>3 DEF DoExit, Schedule, Rung
<1> QED BY <1>4

(* Every death leaves SIGCHLD with the father, and with task1 for the      *)
(* zombies it is given.                                                    *)
THEOREM DeathsAreReported == PSpec => DeathIsReported
<1>1. IInv /\ [PNext]_vars => [Report]_vars
  <2> SUFFICES ASSUME IInv, PNext PROVE Report
    OBVIOUS
  <2>1. Quiet => Report
    BY NobodyDied DEF Quiet, Others, Present
  <2>2. signal \in [Task -> SUBSET Sig] /\ state \in [Task -> TaskState] /\ current \in Task
    BY DEF IInv, TypeOK, SchedTypeOK
  <2>3. CASE SysFork
    <3>1. CASE \E slot \in Task : ForkInto(slot, last_pid')
      BY <2>2, <3>1, NobodyDied DEF ForkInto, Others, Present
    <3>2. CASE ForkFails \/ ForkPanics
      BY <3>2, NobodyDied DEF ForkFails, ForkPanics, schedVars
    <3> QED BY <2>3, <3>1, <3>2 DEF SysFork
  <2>4. CASE SysExit
    BY <2>2, <2>4, DeathReport, NobodyDied DEF SysExit, Hang, schedVars
  <2>5. CASE SchedulerCall
    BY <2>1, <2>5, SchedulerCallStep
  <2>6. CASE ReturnToUser
    <3>1. CASE NoSignalTaken \/ ChildSignalDropped
      BY <3>1, NobodyDied DEF NoSignalTaken, ChildSignalDropped, schedVars
    <3>2. CASE \E sig \in Sig : KilledBySignal(sig)
      <4>1. PICK sig \in Sig : KilledBySignal(sig)
        BY <3>2
      <4>2. Taken(sig) \in [Task -> SUBSET Sig]
        BY <2>2 DEF Taken
      <4>3. CASE MayExit
        BY <4>1, <4>2, <4>3, DeathReport DEF KilledBySignal
      <4>4. CASE ~MayExit
        BY <4>1, <4>4, NobodyDied DEF KilledBySignal, Hang, schedVars
      <4> QED BY <4>3, <4>4
    <3>3. CASE TickAtIret
      BY <2>1, <3>3, TickAtIretStep
    <3> QED BY <2>6, <3>1, <3>2, <3>3 DEF ReturnToUser
  <2>7. CASE TickInFork
    BY <2>7, NobodyDied DEF TickInFork, KernelTick
  <2>8. CASE \E p \in -2 .. MaxPid, sig \in KillSigs : AtMost(MaxAtKill) /\ SysKill(p, sig)
    BY <2>8, NobodyDied DEF SysKill
  <2>9. CASE \E mask \in Masks : AtMost(MaxAtMask) /\ SysSsetmask(mask)
    BY <2>9, NobodyDied DEF SysSsetmask
  <2> QED BY <2>3, <2>4, <2>5, <2>6, <2>7, <2>8, <2>9 DEF PNext
<1> QED BY <1>1, ProcessInvariant, PTL DEF PSpec, DeathIsReported, Report

-----------------------------------------------------------------------------
(* Handlers.                                                               *)
(* A handler whose restorer has yet to restore the mask.                   *)
Owes(f) == Saves(f) /\ ~f.restored

(* The mask once the handlers above the i-th have ended, m being the one   *)
(* in force.                                                               *)
Found(fs, m, i) == IF i = Len(fs) THEN m ELSE fs[i + 1].before

(* A stack of frames and the mask in force: what a handler asked to be     *)
(* masked is, and every mask that a frame above it will restore masks it;  *)
(* what runs above a handler that owes nothing comes back to the mask that *)
(* this handler found.                                                     *)
Held(fs, m) ==
  \A i \in 1 .. Len(fs) : Owes(fs[i]) => fs[i].act.mask \subseteq m \cup {SIGKILL}

HeldAbove(fs) ==
  \A i, j \in 1 .. Len(fs) :
    i < j /\ Owes(fs[i]) => fs[i].act.mask \subseteq fs[j].before \cup {SIGKILL}

Settled(fs, m) ==
  \A i \in 1 .. Len(fs) :
    ~Owes(fs[i]) => Found(fs, m, i) \ {SIGKILL} = fs[i].before \ {SIGKILL}

StackSound(fs, m) == Held(fs, m) /\ HeldAbove(fs) /\ Settled(fs, m)

(* An action with SA_NOMASK masks nothing, and an empty slot of the table  *)
(* holds no stack.                                                         *)
NomaskMasksNothing ==
  \A t \in Task : \A sig \in Sig : "NOMASK" \in sa[t][sig].flags => sa[t][sig].mask = {}

EmptySlotsAreClean == \A t \in Task : state[t] = "NULL" => frames[t] = <<>>

FrameInv ==
  /\ sa \in [Task -> [Sig -> SigAction]]
  /\ frames \in [Task -> Seq(Frame)]
  /\ NomaskMasksNothing
  /\ EmptySlotsAreClean
  /\ \A t \in Task : StackSound(frames[t], blocked[t])

SigInv == IInv /\ FrameInv

-----------------------------------------------------------------------------
(* What the operations on one stack keep.                                  *)
LEMMA EmptyStack == ASSUME NEW m PROVE StackSound(<<>>, m)
BY DEF StackSound, Held, HeldAbove, Settled

(* A handler begins: its mask is added to the one in force.                *)
LEMMA Pushed ==
  ASSUME NEW fs \in Seq(Frame), NEW m, StackSound(fs, m),
         NEW f \in Frame, f.before = m, ~f.restored, ~Saves(f) => f.act.mask = {}
  PROVE  StackSound(Append(fs, f), m \cup f.act.mask)
<1> DEFINE gs == Append(fs, f)
           n  == Len(fs)
<1>1. /\ n \in Nat /\ Len(gs) = n + 1
      /\ gs[n + 1] = f /\ \A i \in 1 .. n : gs[i] = fs[i]
  BY AppendProperties, LenProperties
<1> HIDE DEF gs
<1>2. Held(gs, m \cup f.act.mask)
  BY <1>1 DEF Held, StackSound
<1>3. HeldAbove(gs)
  BY <1>1 DEF HeldAbove, Held, StackSound
<1>4. Settled(gs, m \cup f.act.mask)
  <2> SUFFICES ASSUME NEW i \in 1 .. n + 1, ~Owes(gs[i])
               PROVE  Found(gs, m \cup f.act.mask, i) \ {SIGKILL} = gs[i].before \ {SIGKILL}
    BY <1>1 DEF Settled
  <2>1. CASE i = n + 1
    BY <1>1, <2>1 DEF Found, Owes
  <2>2. CASE i \in 1 .. n - 1
    BY <1>1, <2>2 DEF Found, Settled, StackSound
  <2>3. CASE i = n
    BY <1>1, <2>3 DEF Found, Settled, StackSound
  <2>4. i = n + 1 \/ i = n \/ i \in 1 .. n - 1
    BY <1>1
  <2> QED BY <2>1, <2>2, <2>3, <2>4
<1> QED BY <1>2, <1>3, <1>4 DEF StackSound, gs

(* The restorer restores the mask that the innermost frame saved.          *)
LEMMA Restored ==
  ASSUME NEW fs \in Seq(Frame), NEW m, StackSound(fs, m), fs # <<>>,
         Owes(fs[Len(fs)])
  PROVE  /\ MaskTaken(fs) \in Seq(Frame)
         /\ Len(MaskTaken(fs)) = Len(fs)
         /\ StackSound(MaskTaken(fs), fs[Len(fs)].before \ {SIGKILL})
<1> DEFINE n  == Len(fs)
           gs == MaskTaken(fs)
           f  == [fs[n] EXCEPT !.restored = TRUE]
<1>1. n \in Nat /\ n \in 1 .. n /\ fs[n] \in Frame
  BY LenProperties, EmptySeq
<1>2. f \in Frame /\ f.before = fs[n].before /\ f.act = fs[n].act /\ f.restored
  BY <1>1 DEF Frame
<1>3. gs = [fs EXCEPT ![n] = f]
  BY <1>1 DEF MaskTaken
<1>4. /\ gs \in Seq(Frame) /\ Len(gs) = n
      /\ gs[n] = f /\ \A i \in 1 .. n : i # n => gs[i] = fs[i]
  <2>1. /\ [fs EXCEPT ![n] = f] \in Seq(Frame)
        /\ Len([fs EXCEPT ![n] = f]) = n
        /\ \A i \in 1 .. n : [fs EXCEPT ![n] = f][i] = IF i = n THEN f ELSE fs[i]
    <3> HIDE DEF f
    <3> QED BY <1>1, <1>2, ExceptSeq
  <2> HIDE DEF f, gs
  <2> QED BY <1>1, <1>3, <2>1
<1>5. \A i \in 1 .. n : gs[i].before = fs[i].before /\ gs[i].act = fs[i].act
                     /\ (Owes(gs[i]) => i # n /\ Owes(fs[i]))
  <2> HIDE DEF f, gs
  <2> QED BY <1>2, <1>4 DEF Owes, Saves
<1> HIDE DEF gs, f
<1>6. Held(gs, fs[n].before \ {SIGKILL})
  <2> SUFFICES ASSUME NEW i \in 1 .. n, Owes(gs[i])
               PROVE  gs[i].act.mask \subseteq (fs[n].before \ {SIGKILL}) \cup {SIGKILL}
    BY <1>4 DEF Held
  <2>1. i < n /\ Owes(fs[i]) /\ gs[i].act = fs[i].act
    BY <1>1, <1>5
  <2> QED BY <1>1, <2>1 DEF HeldAbove, StackSound
<1>7. HeldAbove(gs)
  BY <1>1, <1>4, <1>5 DEF HeldAbove, StackSound
<1>8. Settled(gs, fs[n].before \ {SIGKILL})
  <2> SUFFICES ASSUME NEW i \in 1 .. n, ~Owes(gs[i])
               PROVE  Found(gs, fs[n].before \ {SIGKILL}, i) \ {SIGKILL} = gs[i].before \ {SIGKILL}
    BY <1>4 DEF Settled
  <2>1. CASE i = n
    BY <1>4, <1>5, <2>1 DEF Found
  <2>2. CASE i # n
    <3>1. i + 1 \in 1 .. n /\ gs[i] = fs[i]
      BY <1>1, <1>4, <2>2
    <3>2. gs[i + 1].before = fs[i + 1].before
      BY <1>5, <3>1
    <3> QED BY <1>1, <1>4, <2>2, <3>1, <3>2 DEF Found, Settled, StackSound
  <2> QED BY <2>1, <2>2
<1> QED BY <1>4, <1>6, <1>7, <1>8 DEF StackSound, gs

(* A handler ends that owes nothing.                                       *)
LEMMA Popped ==
  ASSUME NEW fs \in Seq(Frame), NEW m, StackSound(fs, m), fs # <<>>,
         ~Owes(fs[Len(fs)])
  PROVE  /\ SubSeq(fs, 1, Len(fs) - 1) \in Seq(Frame)
         /\ StackSound(SubSeq(fs, 1, Len(fs) - 1), m)
<1> DEFINE n  == Len(fs)
           gs == SubSeq(fs, 1, n - 1)
<1>1. n \in Nat \ {0} /\ \A i \in 1 .. n : fs[i] \in Frame
  BY LenProperties, EmptySeq, ElementOfSeq
<1>2. gs \in Seq(Frame) /\ Len(gs) = n - 1 /\ \A i \in 1 .. n - 1 : gs[i] = fs[i]
  <2>1. \A i \in 1 .. n - 1 : fs[i] \in Frame
    BY <1>1
  <2>2. /\ gs \in Seq(Frame)
        /\ Len(gs) = IF 1 <= n - 1 THEN (n - 1) - 1 + 1 ELSE 0
        /\ \A i \in 1 .. (n - 1) - 1 + 1 : gs[i] = fs[1 + i - 1]
    BY <1>1, <2>1, SubSeqProperties
  <2>3. \A i \in 1 .. n - 1 : 1 + i - 1 = i /\ i \in 1 .. (n - 1) - 1 + 1
    BY <1>1
  <2>4. n - 1 \in Nat
    BY <1>1
  <2> HIDE DEF gs, n
  <2> QED BY <1>1, <2>2, <2>3, <2>4
<1> HIDE DEF gs
<1>3. Held(gs, m) /\ HeldAbove(gs)
  BY <1>1, <1>2, SMTT(20) DEF Held, HeldAbove, StackSound
<1>4. Settled(gs, m)
  <2> SUFFICES ASSUME NEW i \in 1 .. n - 1, ~Owes(gs[i])
               PROVE  Found(gs, m, i) \ {SIGKILL} = gs[i].before \ {SIGKILL}
    BY <1>2 DEF Settled
  <2>1. fs[i + 1].before \ {SIGKILL} = fs[i].before \ {SIGKILL}
    BY <1>1, <1>2 DEF Settled, StackSound, Found
  <2>2. CASE i = n - 1
    <3>1. m \ {SIGKILL} = fs[n].before \ {SIGKILL}
      BY <1>1 DEF Settled, StackSound, Found
    <3> QED BY <1>1, <1>2, <2>1, <2>2, <3>1 DEF Found
  <2>3. CASE i # n - 1
    <3>1. i + 1 \in 1 .. n - 1
      BY <1>1, <2>3
    <3> QED BY <1>1, <1>2, <2>1, <2>3, <3>1 DEF Found
  <2> QED BY <2>2, <2>3
<1> QED BY <1>2, <1>3, <1>4 DEF StackSound, gs

-----------------------------------------------------------------------------
(* Steps that touch no stack, and steps that touch one.                    *)
LEMMA StacksKept ==
  ASSUME FrameInv, sa' = sa, frames' = frames, blocked' = blocked,
         \A t \in Task : state'[t] = "NULL" => state[t] = "NULL"
  PROVE  FrameInv'
BY DEF FrameInv, NomaskMasksNothing, EmptySlotsAreClean

Changed(f, c, value, g) == g = [f EXCEPT ![c] = value]

LEMMA OneStackChanged ==
  ASSUME FrameInv, blocked \in [Task -> SUBSET Sig],
         NEW c \in Task, state[c] # "NULL",
         NEW fs \in Seq(Frame), NEW m, StackSound(fs, m),
         Changed(frames, c, fs, frames'), Changed(blocked, c, m, blocked'),
         sa' \in [Task -> [Sig -> SigAction]], NomaskMasksNothing',
         \A t \in Task : state'[t] = "NULL" => state[t] = "NULL"
  PROVE  FrameInv'
<1>1. frames' \in [Task -> Seq(Frame)]
  BY DEF FrameInv, Changed
<1>2. EmptySlotsAreClean'
  BY DEF FrameInv, EmptySlotsAreClean, Changed
<1>3. ASSUME NEW t \in Task PROVE StackSound(frames'[t], blocked'[t])
  <2>1. CASE t = c
    <3>1. frames'[t] = fs /\ blocked'[t] = m
      BY <2>1 DEF FrameInv, Changed
    <3> QED BY <3>1
  <2>2. CASE t # c
    <3>1. frames'[t] = frames[t] /\ blocked'[t] = blocked[t]
      BY <2>2 DEF FrameInv, Changed
    <3> QED BY <3>1 DEF FrameInv
  <2> QED BY <2>1, <2>2
<1> QED BY <1>1, <1>2, <1>3 DEF FrameInv

(* The invariant of Process in a step that changes signals, masks and the  *)
(* place of the running task alone.                                        *)
LEMMA StillStep ==
  ASSUME IInv, jiffies' = jiffies, current' = current, state' = state, ts' = ts,
         priority' = priority, alarm' = alarm, pid' = pid, father' = father,
         last_pid' = last_pid,
         signal' \in [Task -> SUBSET Sig], blocked' \in [Task -> SUBSET Sig],
         pc' = pc \/ Return \/ ToUser
  PROVE  IInv'
<1>1. /\ current \in Task /\ pc \in [Task -> {"user", "ret", "open", "hung"}]
  BY DEF IInv, TypeOK, SchedTypeOK
<1>2. pc' = pc \/ (\E place \in {"ret", "open", "hung"} : pc' = [pc EXCEPT ![current] = place])
         \/ (state[current] # "ZOMBIE" /\ pc' = [pc EXCEPT ![current] = "user"])
  BY DEF Return, ToUser
<1>3. pc' \in [Task -> {"user", "ret", "open", "hung"}]
  BY <1>1 DEF Return, ToUser
<1>4. TypeOK'
  BY <1>3 DEF IInv, TypeOK, SchedTypeOK
<1>5. Quiet
  BY <1>2, SameStatesStep
<1> QED BY <1>4, <1>5, QuietStep

LEMMA Basics ==
  ASSUME SigInv
  PROVE  /\ current \in Task /\ state[current] # "NULL"
         /\ signal \in [Task -> SUBSET Sig] /\ blocked \in [Task -> SUBSET Sig]
         /\ sa \in [Task -> [Sig -> SigAction]] /\ frames \in [Task -> Seq(Frame)]
         /\ frames[current] \in Seq(Frame)
         /\ StackSound(frames[current], blocked[current])
BY DEF SigInv, FrameInv, IInv, TypeOK, SchedTypeOK, DeadNotInUser, Present

-----------------------------------------------------------------------------
LEMMA InitSound == SigInit => SigInv
<1> SUFFICES ASSUME SigInit PROVE SigInv
  OBVIOUS
<1>1. IInv
  BY PInitIInv DEF SigInit
<1>2. Default \in SigAction /\ Default.flags = {}
  BY DEF Default, SigAction, Handler, Flag
<1>3. sa \in [Task -> [Sig -> SigAction]] /\ NomaskMasksNothing
  BY <1>2 DEF SigInit, NomaskMasksNothing
<1>4. frames = [t \in Task |-> <<>>] /\ <<>> \in Seq(Frame)
  BY DEF SigInit
<1>5. frames \in [Task -> Seq(Frame)] /\ EmptySlotsAreClean
  BY <1>4 DEF EmptySlotsAreClean
<1>6. \A t \in Task : StackSound(frames[t], blocked[t])
  BY <1>4, EmptyStack
<1> QED BY <1>1, <1>3, <1>5, <1>6 DEF SigInv, FrameInv

LEMMA ActionChanged ==
  ASSUME SigInv, NEW c \in Task, NEW sig \in Sig, NEW act \in SigAction,
         "NOMASK" \in act.flags => act.mask = {}, sa' = [sa EXCEPT ![c][sig] = act]
  PROVE  sa' \in [Task -> [Sig -> SigAction]] /\ NomaskMasksNothing'
<1>1. sa \in [Task -> [Sig -> SigAction]] /\ sa[c] \in [Sig -> SigAction]
  BY Basics
<1>2. [sa[c] EXCEPT ![sig] = act] \in [Sig -> SigAction]
  BY <1>1
<1>3. sa' \in [Task -> [Sig -> SigAction]]
  BY <1>1, <1>2
<1>4. ASSUME NEW t \in Task, NEW s \in Sig
      PROVE  sa'[t][s] = IF t = c /\ s = sig THEN act ELSE sa[t][s]
  BY <1>1
<1>5. NomaskMasksNothing
  BY DEF SigInv, FrameInv
<1>6. ASSUME NEW t \in Task, NEW s \in Sig, "NOMASK" \in sa'[t][s].flags
      PROVE  sa'[t][s].mask = {}
  <2>1. CASE t = c /\ s = sig
    <3>1. sa'[t][s] = act
      BY <1>4, <2>1
    <3> QED BY <1>6, <3>1
  <2>2. CASE ~(t = c /\ s = sig)
    <3>1. sa'[t][s] = sa[t][s]
      BY <1>4, <2>2
    <3> QED BY <1>5, <1>6, <3>1 DEF NomaskMasksNothing
  <2> QED BY <2>1, <2>2
<1> QED BY <1>3, <1>6 DEF NomaskMasksNothing

LEMMA InstallStep ==
  ASSUME SigInv, NEW sig \in Sig, NEW act \in SigAction,
         "NOMASK" \in act.flags => act.mask = {}, Install(sig, act)
  PROVE  SigInv'
<1>1. /\ jiffies' = jiffies /\ current' = current /\ state' = state /\ ts' = ts
      /\ priority' = priority /\ signal' = signal /\ blocked' = blocked /\ alarm' = alarm
      /\ pid' = pid /\ father' = father /\ last_pid' = last_pid /\ frames' = frames /\ Return
  BY DEF Install, schedVars
<1>2. IInv'
  BY <1>1, Basics, StillStep DEF SigInv
<1>3. sa' = sa \/ sa' = [sa EXCEPT ![current][sig] = act]
  BY DEF Install
<1>4. sa' \in [Task -> [Sig -> SigAction]] /\ NomaskMasksNothing'
  <2>1. CASE sa' = sa
    BY <2>1 DEF NomaskMasksNothing, SigInv, FrameInv
  <2>2. CASE sa' = [sa EXCEPT ![current][sig] = act]
    BY <2>2, Basics, ActionChanged
  <2> QED BY <1>3, <2>1, <2>2
<1>5. EmptySlotsAreClean' /\ \A t \in Task : StackSound(frames[t], blocked[t])'
  BY <1>1 DEF SigInv, FrameInv, EmptySlotsAreClean
<1> QED BY <1>1, <1>2, <1>4, <1>5, Basics DEF SigInv, FrameInv

LEMMA InstallCallsStep ==
  ASSUME SigInv,
         \/ \E sig \in Caught, handler \in Handler : SysSignal(sig, handler)
         \/ \E sig \in Caught, act \in Actions : SysSigaction(sig, act)
  PROVE  SigInv'
<1>1. CASE \E sig \in Caught, handler \in Handler : SysSignal(sig, handler)
  <2>1. PICK sig \in Caught, handler \in Handler : SysSignal(sig, handler)
    BY <1>1
  <2>2. [handler |-> handler, mask |-> {}, flags |-> Flag] \in SigAction
    BY DEF SigAction
  <2> QED BY <2>1, <2>2, InstallStep, ActionsAssumption DEF SysSignal
<1>2. CASE \E sig \in Caught, act \in Actions : SysSigaction(sig, act)
  <2>1. PICK sig \in Caught, act \in Actions : SysSigaction(sig, act)
    BY <1>2
  <2>2. act \in SigAction /\ sig \in Sig
    BY ActionsAssumption
  <2>3. CheckedMask(sig, act) \in SigAction
        /\ ("NOMASK" \in CheckedMask(sig, act).flags => CheckedMask(sig, act).mask = {})
    BY <2>2 DEF CheckedMask, SigAction
  <2> QED BY <2>1, <2>2, <2>3, InstallStep DEF SysSigaction
<1> QED BY <1>1, <1>2

(* do_signal().                                                            *)
LEMMA HandlerRunsStep ==
  ASSUME SigInv, NEW sig \in Sig, HandlerRuns(sig)
  PROVE  SigInv'
<1> DEFINE act == sa[current][sig]
           f == [sig |-> sig, act |-> act, before |-> blocked[current], restored |-> FALSE]
<1>1. act \in SigAction /\ blocked[current] \in SUBSET Sig /\ current \in Task
  BY Basics
<1>2. f \in Frame /\ f.before = blocked[current] /\ ~f.restored /\ f.act = act
  BY <1>1 DEF Frame
<1>3. /\ jiffies' = jiffies /\ current' = current /\ state' = state /\ ts' = ts
      /\ priority' = priority /\ alarm' = alarm /\ pid' = pid /\ father' = father
      /\ last_pid' = last_pid /\ signal' = Taken(sig) /\ ToUser
      /\ blocked' = [blocked EXCEPT ![current] = blocked[current] \cup act.mask]
      /\ frames' = [frames EXCEPT ![current] = Append(frames[current], f)]
      /\ sa' = [sa EXCEPT ![current][sig] = AfterUse(act)]
  BY DEF HandlerRuns, Deeper, MaskInHandler
<1>4. act.mask \subseteq Sig /\ AfterUse(act) \in SigAction
      /\ AfterUse(act).mask = act.mask /\ AfterUse(act).flags = act.flags
  <2> HIDE DEF act
  <2> QED BY <1>1 DEF AfterUse, SigAction, Handler
<1>5. "NOMASK" \in act.flags => act.mask = {}
  BY <1>1 DEF SigInv, FrameInv, NomaskMasksNothing
<1> HIDE DEF act, f
<1>6. signal' \in [Task -> SUBSET Sig] /\ blocked' \in [Task -> SUBSET Sig]
  BY <1>1, <1>3, <1>4, Basics DEF Taken
<1>7. IInv'
  BY <1>3, <1>6, StillStep DEF SigInv
<1>8. sa' \in [Task -> [Sig -> SigAction]] /\ NomaskMasksNothing'
  BY <1>1, <1>3, <1>4, <1>5, ActionChanged
<1>9. StackSound(Append(frames[current], f), blocked[current] \cup f.act.mask)
  BY <1>2, <1>5, Basics, Pushed DEF Saves
<1>10. Append(frames[current], f) \in Seq(Frame)
  BY <1>2, Basics, AppendProperties
<1>11. FrameInv'
  <2>1. /\ Changed(frames, current, Append(frames[current], f), frames')
        /\ Changed(blocked, current, blocked[current] \cup f.act.mask, blocked')
    BY <1>2, <1>3 DEF Changed
  <2>2. state' = state
    BY <1>3
  <2> QED BY <1>8, <1>9, <1>10, <2>1, <2>2, Basics, OneStackChanged DEF SigInv
<1> QED BY <1>7, <1>11 DEF SigInv

(* A death: the other stacks stay.                                         *)
LEMMA DeathFrames ==
  ASSUME SigInv, NEW sg, DoExit(sg), MayExit, StackLost, sa' = sa
  PROVE  FrameInv'
<1>1. /\ \A t \in Task : state'[t] = "NULL" <=> state[t] = "NULL"
      /\ blocked' = blocked
  BY DoExitStates DEF SigInv, DoExit
<1>2. frames' = [frames EXCEPT ![current] = <<>>]
  BY DEF StackLost
<1>3. <<>> \in Seq(Frame) /\ StackSound(<<>>, blocked[current])
  BY EmptyStack
<1>4. blocked' = [blocked EXCEPT ![current] = blocked[current]]
  BY <1>1, Basics
<1>5. Changed(frames, current, <<>>, frames') /\ Changed(blocked, current, blocked[current], blocked')
  BY <1>2, <1>4 DEF Changed
<1>6. FrameInv /\ sa' \in [Task -> [Sig -> SigAction]] /\ NomaskMasksNothing'
  BY DEF SigInv, FrameInv, NomaskMasksNothing
<1>7. \A t \in Task : state'[t] = "NULL" => state[t] = "NULL"
  BY <1>1
<1> QED BY <1>3, <1>5, <1>6, <1>7, Basics, OneStackChanged
        DEF SigInv, FrameInv, NomaskMasksNothing

LEMMA HangFrames ==
  ASSUME SigInv, Hang, sa' = sa, frames' = frames \/ (StackLost /\ ~MayExit)
  PROVE  FrameInv'
<1>1. frames' = frames
  BY Basics DEF StackLost
<1>2. blocked' = blocked /\ state' = state
  BY DEF Hang, schedVars
<1> QED BY <1>1, <1>2, StacksKept DEF SigInv

LEMMA HangType == ASSUME IInv, Hang PROVE TypeOK'
<1>1. pc' \in [Task -> {"user", "ret", "open", "hung"}]
  BY DEF Hang, IInv, TypeOK
<1> QED BY <1>1 DEF Hang, schedVars, IInv, TypeOK, SchedTypeOK

LEMMA DoSignalStep == SigInv /\ DoSignal => SigInv'
<1> SUFFICES ASSUME SigInv, DoSignal PROVE SigInv'
  OBVIOUS
<1> USE DEF sigVars
<1>1. CASE DefaultAction
  <2>1. CASE NoSignalTaken /\ UNCHANGED sigVars
    <3>1. ReturnToUser
      BY <2>1 DEF ReturnToUser, DoSignal
    <3>2. IInv'
      BY <3>1, PStep DEF PNext, SigInv
    <3> QED BY <2>1, <3>2, StacksKept DEF SigInv, NoSignalTaken, schedVars
  <2>2. CASE ChildSignalDropped /\ UNCHANGED sigVars
    <3>1. ReturnToUser
      BY <2>2 DEF ReturnToUser, DoSignal
    <3>2. IInv'
      BY <3>1, PStep DEF PNext, SigInv
    <3> QED BY <2>2, <3>2, StacksKept DEF SigInv, ChildSignalDropped
  <2>3. CASE \E sig \in Sig : KilledBySignal(sig) /\ StackLost /\ UNCHANGED sa
    <3>1. PICK sig \in Sig : KilledBySignal(sig) /\ StackLost /\ UNCHANGED sa
      BY <2>3
    <3>2. ReturnToUser
      BY <3>1 DEF ReturnToUser, DoSignal
    <3>3. IInv'
      BY <3>2, PStep DEF PNext, SigInv
    <3>4. CASE MayExit
      BY <3>1, <3>3, <3>4, DeathFrames DEF KilledBySignal, SigInv
    <3>5. CASE ~MayExit
      BY <3>1, <3>3, <3>5, HangFrames DEF KilledBySignal, SigInv
    <3> QED BY <3>4, <3>5
  <2>4. CASE TickAtIret /\ UNCHANGED sigVars
    <3>1. ReturnToUser
      BY <2>4 DEF ReturnToUser, DoSignal
    <3>2. IInv'
      BY <3>1, PStep DEF PNext, SigInv
    <3>3. blocked' = blocked
      BY <2>4 DEF TickAtIret, UserTick
    <3>4. Quiet
      BY <2>4, TickAtIretStep DEF SigInv
    <3> QED BY <2>4, <3>2, <3>3, <3>4, StacksKept DEF SigInv, Quiet
  <2> QED BY <1>1, <2>1, <2>2, <2>3, <2>4 DEF DefaultAction
<1>2. CASE \E sig \in Sig : SignalIgnored(sig)
  <2>1. PICK sig \in Sig : SignalIgnored(sig)
    BY <1>2
  <2>2. signal' \in [Task -> SUBSET Sig]
    BY <2>1, Basics DEF SignalIgnored, Taken
  <2>3. IInv'
    BY <2>1, <2>2, Basics, StillStep DEF SignalIgnored, SigInv
  <2> QED BY <2>1, <2>3, StacksKept DEF SignalIgnored, SigInv
<1>3. CASE \E sig \in Sig : HandlerRuns(sig)
  BY <1>3, HandlerRunsStep
<1>4. CASE \E sig \in Sig : HandlerFaults(sig)
  <2>1. Hang /\ sa' = sa /\ frames' = frames
    BY <1>4 DEF HandlerFaults
  <2>2. IInv'
    BY <2>1, SameStatesStep, QuietStep, HangType DEF SigInv, Hang, schedVars
  <2> QED BY <2>1, <2>2, HangFrames DEF SigInv
<1> QED BY <1>1, <1>2, <1>3, <1>4 DEF DoSignal

-----------------------------------------------------------------------------
(* The restorer.                                                           *)
LEMMA RestoreMaskStep == SigInv /\ RestoreMask => SigInv'
<1> SUFFICES ASSUME SigInv, RestoreMask PROVE SigInv'
  OBVIOUS
<1> DEFINE fs == frames[current]
<1>1. fs \in Seq(Frame) /\ fs # <<>> /\ Owes(fs[Len(fs)]) /\ StackSound(fs, blocked[current])
  BY Basics DEF RestoreMask, InHandler, Top, Innermost, Owes
<1>2. fs[Len(fs)] \in Frame /\ Top = fs[Len(fs)]
  BY <1>1, EmptySeq, LenProperties, ElementOfSeq DEF Top, Innermost
<1>3. fs[Len(fs)].before \in SUBSET Sig
  BY <1>2 DEF Frame
<1>4. /\ frames' = [frames EXCEPT ![current] = MaskTaken(fs)]
      /\ blocked' = [blocked EXCEPT ![current] = fs[Len(fs)].before \ {SIGKILL}]
      /\ jiffies' = jiffies /\ current' = current /\ state' = state /\ ts' = ts
      /\ priority' = priority /\ alarm' = alarm /\ pid' = pid /\ father' = father
      /\ last_pid' = last_pid /\ signal' = signal /\ Return /\ sa' = sa
  BY <1>2 DEF RestoreMask, SysSsetmask
<1> HIDE DEF fs
<1>5. blocked' \in [Task -> SUBSET Sig] /\ signal' \in [Task -> SUBSET Sig]
  BY <1>3, <1>4, Basics
<1>6. IInv'
  BY <1>4, <1>5, StillStep DEF SigInv
<1>7. MaskTaken(fs) \in Seq(Frame) /\ StackSound(MaskTaken(fs), fs[Len(fs)].before \ {SIGKILL})
  BY <1>1, Restored
<1>8. sa' \in [Task -> [Sig -> SigAction]] /\ NomaskMasksNothing'
  BY <1>4 DEF SigInv, FrameInv, NomaskMasksNothing
<1>9. FrameInv'
  <2>1. /\ Changed(frames, current, MaskTaken(fs), frames')
        /\ Changed(blocked, current, fs[Len(fs)].before \ {SIGKILL}, blocked')
    BY <1>4 DEF Changed
  <2>2. state' = state
    BY <1>4
  <2> QED BY <1>7, <1>8, <2>1, <2>2, Basics, OneStackChanged DEF SigInv
<1> QED BY <1>6, <1>9 DEF SigInv

LEMMA LeaveHandlerStep ==
  ASSUME SigInv, LeaveHandler
  PROVE  /\ SigInv'
         /\ blocked[current] \ {SIGKILL} = Innermost(current).before \ {SIGKILL}
<1> DEFINE fs == frames[current]
           gs == SubSeq(fs, 1, Len(fs) - 1)
<1>1. fs \in Seq(Frame) /\ fs # <<>> /\ ~Owes(fs[Len(fs)]) /\ StackSound(fs, blocked[current])
  BY Basics DEF LeaveHandler, InHandler, Top, Innermost, Owes
<1>2. /\ frames' = [frames EXCEPT ![current] = gs] /\ sa' = sa
      /\ jiffies' = jiffies /\ current' = current /\ state' = state /\ ts' = ts
      /\ priority' = priority /\ alarm' = alarm /\ pid' = pid /\ father' = father
      /\ last_pid' = last_pid /\ signal' = signal /\ blocked' = blocked /\ pc' = pc
  BY DEF LeaveHandler, vars, schedVars, procVars
<1>3. gs \in Seq(Frame) /\ StackSound(gs, blocked[current])
  BY <1>1, Popped
<1>4. Len(fs) \in 1 .. Len(fs)
  BY <1>1, EmptySeq, LenProperties
<1>5. blocked[current] \ {SIGKILL} = fs[Len(fs)].before \ {SIGKILL}
  BY <1>1, <1>4 DEF StackSound, Settled, Found
<1> HIDE DEF gs
<1>6. blocked' = [blocked EXCEPT ![current] = blocked[current]]
  BY <1>2, Basics
<1>7. IInv'
  BY <1>2, Basics, StillStep DEF SigInv
<1>8. sa' \in [Task -> [Sig -> SigAction]] /\ NomaskMasksNothing'
  BY <1>2 DEF SigInv, FrameInv, NomaskMasksNothing
<1>9. FrameInv'
  <2>1. Changed(frames, current, gs, frames') /\ Changed(blocked, current, blocked[current], blocked')
    BY <1>2, <1>6, Zenon DEF Changed
  <2>2. state' = state
    BY <1>2
  <2> QED BY <1>3, <1>8, <2>1, <2>2, Basics, OneStackChanged DEF SigInv
<1> QED BY <1>5, <1>7, <1>9 DEF SigInv, Innermost

-----------------------------------------------------------------------------
(* The calls of Process.                                                   *)
LEMMA ForkFrames ==
  ASSUME SigInv, ForkWithHandlers
  PROVE  FrameInv' /\ \A t \in Task : frames[t] = <<>> \/ frames'[t] = frames[t]
<1> DEFINE born == {t \in Task : state[t] = "NULL" /\ state'[t] # "NULL"}
<1>1. /\ SysFork
      /\ sa' = [t \in Task |-> IF t \in born THEN sa[current] ELSE sa[t]]
      /\ frames' = [t \in Task |-> IF t \in born THEN frames[current] ELSE frames[t]]
  BY DEF ForkWithHandlers
<1>2. /\ \A t \in Task : t \in born => frames[t] = <<>> /\ blocked'[t] = blocked[current]
      /\ \A t \in Task : t \notin born => blocked'[t] = blocked[t]
      /\ \A t \in Task : state'[t] = "NULL" => state[t] = "NULL"
  <2>1. CASE \E slot \in Task : IsNextSlot(slot) /\ ForkInto(slot, last_pid')
    <3>1. PICK slot \in Task : IsNextSlot(slot) /\ ForkInto(slot, last_pid')
      BY <2>1
    <3>2. state[slot] = "NULL"
      BY <3>1 DEF IsNextSlot, EmptySlots, Present
    <3>3. state \in [Task -> TaskState] /\ blocked \in [Task -> SUBSET Sig]
      BY DEF SigInv, IInv, TypeOK, SchedTypeOK
    <3>4. /\ \A t \in Task : state'[t] = IF t = slot THEN "RUNNING" ELSE state[t]
          /\ \A t \in Task : blocked'[t] = IF t = slot THEN blocked[current] ELSE blocked[t]
      BY <3>1, <3>3 DEF ForkInto
    <3>5. frames[slot] = <<>>
      BY <3>2 DEF SigInv, FrameInv, EmptySlotsAreClean
    <3>6. \A t \in Task : t \in born <=> t = slot
      BY <3>2, <3>4
    <3> QED BY <3>4, <3>5, <3>6
  <2>2. CASE ForkFails \/ ForkPanics
    <3>1. state' = state /\ blocked' = blocked
      BY <2>2 DEF ForkFails, ForkPanics, schedVars
    <3> QED BY <3>1
  <2> QED BY <1>1, <2>1, <2>2 DEF SysFork
<1> HIDE DEF born
<1>3. sa' \in [Task -> [Sig -> SigAction]] /\ frames' \in [Task -> Seq(Frame)]
  BY <1>1, Basics
<1>4. NomaskMasksNothing'
  BY <1>1, Basics DEF NomaskMasksNothing, SigInv, FrameInv
<1>5. EmptySlotsAreClean'
  <2> SUFFICES ASSUME NEW t \in Task, state'[t] = "NULL" PROVE frames'[t] = <<>>
    BY DEF EmptySlotsAreClean
  <2>1. t \notin born
    BY DEF born
  <2> QED BY <1>1, <1>2, <2>1 DEF SigInv, FrameInv, EmptySlotsAreClean
<1>6. ASSUME NEW t \in Task PROVE StackSound(frames'[t], blocked'[t])
  <2>1. CASE t \in born
    <3>1. frames'[t] = frames[current] /\ blocked'[t] = blocked[current]
      BY <1>1, <1>2, <2>1
    <3> QED BY <3>1, Basics
  <2>2. CASE t \notin born
    <3>1. frames'[t] = frames[t] /\ blocked'[t] = blocked[t]
      BY <1>1, <1>2, <2>2
    <3> QED BY <3>1 DEF SigInv, FrameInv
  <2> QED BY <2>1, <2>2
<1>7. \A t \in Task : frames[t] = <<>> \/ frames'[t] = frames[t]
  BY <1>1, <1>2
<1> QED BY <1>3, <1>4, <1>5, <1>6, <1>7 DEF FrameInv

LEMMA ExitStep == SigInv /\ ExitFromHandler => SigInv'
<1> SUFFICES ASSUME SigInv, ExitFromHandler PROVE SigInv'
  OBVIOUS
<1>1. SysExit /\ StackLost /\ sa' = sa
  BY DEF ExitFromHandler
<1>2. IInv'
  BY <1>1, PStep DEF PNext, SigInv
<1>3. CASE MayExit
  BY <1>1, <1>2, <1>3, DeathFrames DEF SysExit, SigInv
<1>4. CASE ~MayExit
  BY <1>1, <1>2, <1>4, HangFrames DEF SysExit, SigInv
<1> QED BY <1>3, <1>4

LEMMA OtherCallsStep ==
  ASSUME SigInv,
         \/ SchedulerCallOrTick
         \/ \E p \in -2 .. MaxPid, sig \in KillSigs : KillWithin(p, sig)
         \/ UNCHANGED allVars
  PROVE  SigInv' /\ frames' = frames
<1>1. sa' = sa /\ frames' = frames /\ [PNext]_vars
  BY DEF SchedulerCallOrTick, KillWithin, sigVars, allVars, PNext
<1>2. IInv'
  BY <1>1, PStep DEF SigInv
<1>3. blocked' = blocked
  <2>1. CASE SchedulerCallOrTick
    BY <2>1 DEF SchedulerCallOrTick, SchedulerCall, SystemCall, SysPause, SysNice, SysAlarm,
                UserTick, TickInFork, KernelTick
  <2>2. CASE \E p \in -2 .. MaxPid, sig \in KillSigs : KillWithin(p, sig)
    BY <2>2 DEF KillWithin, SysKill
  <2>3. CASE UNCHANGED allVars
    BY <2>3 DEF allVars, vars, schedVars
  <2> QED BY <2>1, <2>2, <2>3
<1>4. \A t \in Task : state'[t] = "NULL" => state[t] = "NULL"
  <2>1. CASE SchedulerCallOrTick
    <3>1. CASE SchedulerCall
      BY <3>1, SchedulerCallStep DEF SigInv, Quiet
    <3>2. CASE TickInFork
      BY <3>2 DEF TickInFork, KernelTick
    <3> QED BY <2>1, <3>1, <3>2 DEF SchedulerCallOrTick
  <2>2. CASE \E p \in -2 .. MaxPid, sig \in KillSigs : KillWithin(p, sig)
    BY <2>2 DEF KillWithin, SysKill
  <2>3. CASE UNCHANGED allVars
    BY <2>3 DEF allVars, vars, schedVars
  <2> QED BY <2>1, <2>2, <2>3
<1> QED BY <1>1, <1>2, <1>3, <1>4, StacksKept DEF SigInv

LEMMA SsetmaskStep ==
  ASSUME SigInv, NEW mask \in Masks, SsetmaskAtBase(mask)
  PROVE  SigInv'
<1>1. /\ AtMost(MaxAtMask) /\ SysSsetmask(mask)
      /\ frames[current] = <<>> /\ sa' = sa /\ frames' = frames
      /\ blocked' = [blocked EXCEPT ![current] = mask \ {SIGKILL}] /\ state' = state
  BY DEF SsetmaskAtBase, InHandler, sigVars, SysSsetmask
<1>2. IInv'
  BY <1>1, PStep DEF PNext, SigInv
<1>3. StackSound(<<>>, mask \ {SIGKILL}) /\ <<>> \in Seq(Frame)
  BY EmptyStack
<1>4. frames' = [frames EXCEPT ![current] = <<>>]
  BY <1>1, Basics
<1>5. NomaskMasksNothing'
  BY <1>1 DEF SigInv, FrameInv, NomaskMasksNothing
<1>6. FrameInv'
  <2>1. Changed(frames, current, <<>>, frames') /\ Changed(blocked, current, mask \ {SIGKILL}, blocked')
    BY <1>1, <1>4, Zenon DEF Changed
  <2>2. state' = state /\ sa' \in [Task -> [Sig -> SigAction]]
    BY <1>1 DEF SigInv, FrameInv
  <2> QED BY <1>3, <1>5, <2>1, <2>2, Basics, OneStackChanged DEF SigInv
<1> QED BY <1>2, <1>6 DEF SigInv

LEMMA SigStep == SigInv /\ [SigNext]_allVars => SigInv'
<1> SUFFICES ASSUME SigInv, [SigNext]_allVars PROVE SigInv'
  OBVIOUS
<1>1. CASE ForkWithHandlers
  <2>1. IInv'
    BY <1>1, PStep DEF ForkWithHandlers, PNext, SigInv
  <2> QED BY <1>1, <2>1, ForkFrames DEF SigInv
<1>2. CASE \E mask \in Masks : SsetmaskAtBase(mask)
  BY <1>2, SsetmaskStep
<1>3. CASE SchedulerCallOrTick \/ UNCHANGED allVars
  BY <1>3, OtherCallsStep
<1>4. CASE \E p \in -2 .. MaxPid, sig \in KillSigs : KillWithin(p, sig)
  BY <1>4, OtherCallsStep
<1>5. CASE \E sig \in Caught, handler \in Handler : SysSignal(sig, handler)
  BY <1>5, InstallCallsStep
<1>6. CASE \E sig \in Caught, act \in Actions : SysSigaction(sig, act)
  BY <1>6, InstallCallsStep
<1> QED BY <1>1, <1>2, <1>3, <1>4, <1>5, <1>6, ExitStep, DoSignalStep, RestoreMaskStep,
           LeaveHandlerStep DEF SigNext

-----------------------------------------------------------------------------
(* The invariant of Process, and that of the stacks, hold with handlers.   *)
THEOREM SignalsInvariant == SigSpec => []SigInv
BY InitSound, SigStep, PTL DEF SigSpec

(* Pids stay unique and fathers alive when programs catch signals too.     *)
THEOREM PidsAreUniqueWithHandlers == SigSpec => []PidUnique
BY SignalsInvariant, PTL DEF SigInv, IInv

(* While a handler runs, the signals its action asks to be masked are.     *)
THEOREM MasksHold == SigSpec => []MaskHoldsInHandler
<1>1. SigInv => MaskHoldsInHandler
  <2> SUFFICES ASSUME SigInv, NEW t \in Task, NEW i \in DOMAIN frames[t],
                      Saves(frames[t][i]), ~frames[t][i].restored
               PROVE  frames[t][i].act.mask \subseteq blocked[t] \cup {SIGKILL}
    BY DEF MaskHoldsInHandler
  <2>1. i \in 1 .. Len(frames[t])
    BY LenProperties DEF SigInv, FrameInv
  <2>2. Held(frames[t], blocked[t])
    BY DEF SigInv, FrameInv, StackSound
  <2> QED BY <2>1, <2>2 DEF Held, Owes
<1> QED BY <1>1, SignalsInvariant, PTL

(* What a step does that leaves a handler; the formula of MaskIsRestored.  *)
Leaving ==
  \A t \in Task :
    Len(frames'[t]) < Len(frames[t]) /\ state'[t] # "ZOMBIE" =>
      blocked'[t] \ {SIGKILL} = Innermost(t).before \ {SIGKILL}

LEMMA NobodyLeaves ==
  ASSUME SigInv, \A t \in Task : Len(frames[t]) = 0 \/ ~(Len(frames'[t]) < Len(frames[t])),
         frames' \in [Task -> Seq(Frame)]
  PROVE  Leaving
<1> SUFFICES ASSUME NEW t \in Task PROVE ~(Len(frames'[t]) < Len(frames[t]))
  BY DEF Leaving
<1>1. Len(frames'[t]) \in Nat
  BY LenProperties
<1> QED BY <1>1

LEMMA DeathLeaves ==
  ASSUME SigInv, NEW sg, DoExit(sg), MayExit, StackLost
  PROVE  Leaving
<1>1. state'[current] = "ZOMBIE"
  BY DoExitStates, Basics DEF SigInv
<1>2. \A t \in Task : t # current => frames'[t] = frames[t]
  BY Basics DEF StackLost
<1>3. \A t \in Task : Len(frames[t]) \in Nat
  BY LenProperties DEF SigInv, FrameInv
<1> QED BY <1>1, <1>2, <1>3 DEF Leaving

LEMMA SameFrames == ASSUME SigInv, frames' = frames PROVE Leaving
BY NobodyLeaves, LenProperties DEF SigInv, FrameInv

LEMMA SignalLeaves == ASSUME SigInv, DoSignal PROVE Leaving
<1>1. CASE DefaultAction
  <2>1. CASE UNCHANGED sigVars
    BY <2>1, SameFrames DEF sigVars
  <2>2. CASE \E sig \in Sig : KilledBySignal(sig) /\ StackLost
    <3>1. PICK sig \in Sig : KilledBySignal(sig) /\ StackLost
      BY <2>2
    <3>2. CASE MayExit
      BY <3>1, <3>2, DeathLeaves DEF KilledBySignal
    <3>3. CASE ~MayExit
      <4>1. frames' = frames
        BY <3>1, <3>3, Basics DEF StackLost
      <4> QED BY <4>1, SameFrames
    <3> QED BY <3>2, <3>3
  <2> QED BY <1>1, <2>1, <2>2 DEF DefaultAction
<1>2. CASE \E sig \in Sig : HandlerRuns(sig)
  <2>1. PICK sig \in Sig : HandlerRuns(sig)
    BY <1>2
  <2>2. SigInv'
    BY <2>1, HandlerRunsStep
  <2>3. \E f : frames' = [frames EXCEPT ![current] = Append(frames[current], f)]
    BY <2>1 DEF HandlerRuns, Deeper
  <2>4. PICK f : frames' = [frames EXCEPT ![current] = Append(frames[current], f)]
    BY <2>3
  <2>5. ASSUME NEW t \in Task PROVE ~(Len(frames'[t]) < Len(frames[t]))
    <3>1. CASE t = current
      <4>1. frames'[t] = Append(frames[t], f)
        BY <2>4, <3>1, Basics
      <4>2. Len(frames'[t]) = Len(frames[t]) + 1 /\ Len(frames[t]) \in Nat
        BY <4>1, LenProperties DEF SigInv, FrameInv
      <4> QED BY <4>2
    <3>2. CASE t # current
      <4>1. frames'[t] = frames[t] /\ Len(frames[t]) \in Nat
        BY <2>4, <3>2, LenProperties DEF SigInv, FrameInv
      <4> QED BY <4>1
    <3> QED BY <3>1, <3>2
  <2> QED BY <2>2, <2>5, NobodyLeaves DEF SigInv, FrameInv
<1>3. CASE \E sig \in Sig : SignalIgnored(sig) \/ HandlerFaults(sig)
  BY <1>3, SameFrames DEF SignalIgnored, HandlerFaults, sigVars
<1> QED BY <1>1, <1>2, <1>3 DEF DoSignal

LEMMA RestorerLeaves == ASSUME SigInv, RestoreMask \/ LeaveHandler PROVE Leaving
<1>1. \A t \in Task : frames[t] \in Seq(Frame) /\ Len(frames[t]) \in Nat
  BY LenProperties DEF SigInv, FrameInv
<1>2. CASE RestoreMask
  <2>1. frames[current] # <<>> /\ Owes(Top) /\ frames' = [frames EXCEPT ![current] = MaskTaken(frames[current])]
    BY <1>2 DEF RestoreMask, InHandler, Owes
  <2>2. Len(MaskTaken(frames[current])) = Len(frames[current])
    BY <2>1, Basics, Restored DEF Top, Innermost
  <2>3. ASSUME NEW t \in Task PROVE ~(Len(frames'[t]) < Len(frames[t]))
    <3>1. Len(frames'[t]) = Len(frames[t])
      BY <2>1, <2>2, Basics
    <3> QED BY <1>1, <3>1
  <2>4. SigInv'
    BY <1>2, RestoreMaskStep
  <2> QED BY <2>3, <2>4, NobodyLeaves DEF SigInv, FrameInv
<1>3. CASE LeaveHandler
  <2> SUFFICES ASSUME NEW t \in Task, Len(frames'[t]) < Len(frames[t])
               PROVE  blocked'[t] \ {SIGKILL} = Innermost(t).before \ {SIGKILL}
    BY DEF Leaving
  <2>1. blocked' = blocked
    BY <1>3 DEF LeaveHandler, vars, schedVars
  <2>2. \A u \in Task : u # current => frames'[u] = frames[u]
    BY <1>3, Basics DEF LeaveHandler
  <2>3. t = current
    BY <1>1, <2>2
  <2> QED BY <1>3, <2>1, <2>3, LeaveHandlerStep
<1> QED BY <1>2, <1>3

(* Whatever handler is left, the mask it found is in force again.          *)
THEOREM MasksAreRestored == SigSpec => MaskIsRestored
<1>1. SigInv /\ [SigNext]_allVars => [Leaving]_allVars
  <2> SUFFICES ASSUME SigInv, SigNext PROVE Leaving
    OBVIOUS
  <2>1. CASE ForkWithHandlers
    <3>1. /\ \A t \in Task : frames[t] = <<>> \/ frames'[t] = frames[t]
          /\ frames' \in [Task -> Seq(Frame)]
      BY <2>1, ForkFrames DEF FrameInv
    <3>2. \A t \in Task : Len(frames[t]) \in Nat
      BY LenProperties DEF SigInv, FrameInv
    <3>3. \A t \in Task : Len(frames[t]) = 0 \/ ~(Len(frames'[t]) < Len(frames[t]))
      BY <3>1, <3>2
    <3> QED BY <3>1, <3>3, NobodyLeaves
  <2>2. CASE ExitFromHandler
    <3>1. CASE MayExit
      BY <2>2, <3>1, DeathLeaves DEF ExitFromHandler, SysExit
    <3>2. CASE ~MayExit
      <4>1. frames' = frames
        BY <2>2, <3>2, Basics DEF ExitFromHandler, StackLost
      <4> QED BY <4>1, SameFrames
    <3> QED BY <3>1, <3>2
  <2>3. CASE \/ SchedulerCallOrTick
             \/ \E p \in -2 .. MaxPid, sig \in KillSigs : KillWithin(p, sig)
             \/ \E mask \in Masks : SsetmaskAtBase(mask)
    BY <2>3, SameFrames DEF SchedulerCallOrTick, KillWithin, SsetmaskAtBase, sigVars
  <2>4. CASE \/ \E sig \in Caught, handler \in Handler : SysSignal(sig, handler)
             \/ \E sig \in Caught, act \in Actions : SysSigaction(sig, act)
    BY <2>4, SameFrames DEF SysSignal, SysSigaction, Install
  <2> QED BY <2>1, <2>2, <2>3, <2>4, SignalLeaves, RestorerLeaves DEF SigNext
<1> QED BY <1>1, SignalsInvariant, PTL DEF SigSpec, MaskIsRestored, Leaving

=============================================================================
