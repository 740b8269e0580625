----------------------------- MODULE WaitQueue -----------------------------
(***************************************************************************)
(* Sleeping and waking (sleep_on and wake_up of kernel/sched.c) through    *)
(* the one lock built on them, the lock of a disk buffer: lock_buffer,     *)
(* unlock_buffer and wait_on_buffer of fs/buffer.c, called by make_request *)
(* and ll_rw_block (driver/ll_rw_blk.c) and by end_request (driver/hd.c).  *)
(*                                                                         *)
(* A wait queue is a single pointer, b_wait: the sleeper that a newcomer   *)
(* displaces is kept in a local variable tmp of the newcomer, and woken by *)
(* it.  Nothing else records the queue, so that a wake-up lost anywhere    *)
(* loses everyone behind.                                                  *)
(*                                                                         *)
(* From the driver the module takes only that a request that is queued     *)
(* ends, at last, with an interrupt that calls unlock_buffer (HardDisk).   *)
(* A request that meets an empty line is not queued at all, and its buffer *)
(* stays locked for good: that is lost, below.                             *)
(***************************************************************************)
EXTENDS Sched

CONSTANT MaxOverrun  (* bound: the slices a call may run into the red      *)

ASSUME OverrunAssumption == MaxOverrun \in Nat

NUMBER_OF_REQUESTS == 32  (* the entries of request[]                      *)

(* A task waits for its request before it makes another, and task0 makes   *)
(* none: with no more tasks than this make_request always finds an idle    *)
(* entry, and its sleep on wait_for_request is not reached.  The tasks     *)
(* here are those there are, not the slots of the table; the kernel can    *)
(* run 30, whose descriptors lie within the limit of the GDT (Library).    *)
ASSUME EntryForEachTask == NUMBER_OF_TASKS - 1 <= NUMBER_OF_REQUESTS

NoTask == -1

VARIABLES
  pc,      (* where a task is; "lock" and "wait" are inside sleep_on       *)
  tmp,     (* sleep_on's local variable, on the kernel stack of each task  *)
  b_lock,  (* buffer_head.b_lock                                           *)
  b_wait,  (* buffer_head.b_wait, the task that sleep_on queued last       *)
  io,      (* make_request has left the buffer locked for a transfer       *)
  lost     (* that transfer's request is in no queue                       *)

bufVars == <<pc, tmp, b_lock, b_wait, io, lost>>
vars == <<schedVars, bufVars>>

(* Both loops around sleep_on run with interrupts disabled, and a switch   *)
(* restores the flag of the task switched to; "locked" is inside           *)
(* make_request, "issued" after ll_rw_block, both with interrupts enabled. *)
Place == {"user", "lock", "wait", "locked", "issued"}
InSleepOn(t) == pc[t] \in {"lock", "wait"}

-----------------------------------------------------------------------------
(* Wrong variant: the sleeper that was queued before is forgotten.         *)
SleepOnForgetting(st) ==
  /\ tmp' = [tmp EXCEPT ![current] = NoTask]
  /\ b_wait' = current
  /\ Schedule([st EXCEPT ![current] = "UNINTERRUPTIBLE"], signal, ts)

(* sleep_on(&bh->b_wait) as far as schedule(), from a table st.            *)
SleepOn(st) ==
  /\ tmp' = [tmp EXCEPT ![current] = b_wait]
  /\ b_wait' = current
  /\ Schedule([st EXCEPT ![current] = "UNINTERRUPTIBLE"], signal, ts)

(* Wrong variant: sleep_on returns without waking whom it displaced.       *)
WokenNobody == state

(* sleep_on after schedule() has returned: the displaced sleeper is woken. *)
WokenByTmp ==
  IF tmp[current] = NoTask THEN state
                           ELSE [state EXCEPT ![tmp[current]] = "RUNNING"]

(* unlock_buffer(bh), with its wake_up(&bh->b_wait).                       *)
UnlockBuffer ==
  /\ b_lock' = FALSE
  /\ b_wait' = NoTask
  /\ state' = IF b_wait = NoTask THEN state ELSE [state EXCEPT ![b_wait] = "RUNNING"]

(* lock_buffer(bh) from make_request.                                      *)
LockBuffer ==
  /\ pc[current] = "user" /\ current # 0
  /\ \/ /\ b_lock
        /\ SleepOn(state)
        /\ pc' = [pc EXCEPT ![current] = "lock"]
        /\ UNCHANGED <<jiffies, priority, blocked, b_lock, io, lost>>
     \/ /\ ~b_lock
        /\ b_lock' = TRUE
        /\ pc' = [pc EXCEPT ![current] = "locked"]
        /\ UNCHANGED <<schedVars, tmp, b_wait, io, lost>>

(* The end of make_request: nothing to transfer, or add_request.           *)
AlreadyValid ==
  /\ pc[current] = "locked"
  /\ UnlockBuffer
  /\ pc' = [pc EXCEPT ![current] = "issued"]
  /\ UNCHANGED <<jiffies, current, ts, priority, signal, blocked, alarm, tmp, io, lost>>

(* add_request queues the request behind another one; or the line of the   *)
(* device is empty, and it assigns the request to a local variable only.   *)
QueueRequest ==
  /\ pc[current] = "locked"
  /\ io' = TRUE
  /\ lost' \in BOOLEAN
  /\ pc' = [pc EXCEPT ![current] = "issued"]
  /\ UNCHANGED <<schedVars, tmp, b_lock, b_wait>>

(* wait_on_buffer from bread, after ll_rw_block, or on its own from        *)
(* get_hash_table, getblk and brelse.                                      *)
WaitOnBuffer ==
  /\ pc[current] = "issued" \/ (pc[current] = "user" /\ current # 0)
  /\ \/ /\ b_lock
        /\ SleepOn(state)
        /\ pc' = [pc EXCEPT ![current] = "wait"]
        /\ UNCHANGED <<jiffies, priority, blocked, b_lock, io, lost>>
     \/ /\ ~b_lock
        /\ pc' = [pc EXCEPT ![current] = "user"]
        /\ UNCHANGED <<schedVars, tmp, b_lock, b_wait, io, lost>>

(* schedule() has returned inside sleep_on, after a switch back or at once *)
(* because there was no one to switch to: the rest of sleep_on and the     *)
(* next turn of the loop of lock_buffer or wait_on_buffer.                 *)
SleepAgain ==
  /\ InSleepOn(current) /\ b_lock
  /\ SleepOn(WokenByTmp)
  /\ UNCHANGED <<jiffies, priority, blocked, pc, b_lock, io, lost>>

(* Wrong variants: lock_buffer, or wait_on_buffer, tests b_lock with an    *)
(* if instead of a while, and takes the first wake-up for the lock.        *)
LeaveLockUnchecked ==
  /\ InSleepOn(current) /\ (b_lock => pc[current] = "lock")
  /\ state' = WokenByTmp
  /\ tmp' = [tmp EXCEPT ![current] = NoTask]
  /\ b_lock' = (pc[current] = "lock")
  /\ pc' = [pc EXCEPT ![current] = IF pc[current] = "lock" THEN "locked" ELSE "user"]
  /\ UNCHANGED <<jiffies, current, ts, priority, signal, blocked, alarm, b_wait, io, lost>>

LeaveWaitUnchecked ==
  /\ InSleepOn(current) /\ (b_lock => pc[current] = "wait")
  /\ state' = WokenByTmp
  /\ tmp' = [tmp EXCEPT ![current] = NoTask]
  /\ b_lock' = (b_lock \/ pc[current] = "lock")
  /\ pc' = [pc EXCEPT ![current] = IF pc[current] = "lock" THEN "locked" ELSE "user"]
  /\ UNCHANGED <<jiffies, current, ts, priority, signal, blocked, alarm, b_wait, io, lost>>

LeaveSleepOn ==
  /\ InSleepOn(current) /\ ~b_lock
  /\ state' = WokenByTmp
  /\ tmp' = [tmp EXCEPT ![current] = NoTask]
  /\ b_lock' = (pc[current] = "lock")
  /\ pc' = [pc EXCEPT ![current] = IF pc[current] = "lock" THEN "locked" ELSE "user"]
  /\ UNCHANGED <<jiffies, current, ts, priority, signal, blocked, alarm, b_wait, io, lost>>

(* end_request() in the interrupt of the disk, for a request in its queue. *)
EndRequest ==
  /\ io /\ ~lost /\ ~InSleepOn(current)
  /\ io' = FALSE
  /\ UnlockBuffer
  /\ UNCHANGED <<jiffies, current, ts, priority, signal, blocked, alarm, pc, tmp, lost>>

Tick ==
  /\ \/ pc[current] = "user" /\ UserTick
     \/ /\ pc[current] \in {"locked", "issued"}
        /\ ts[current] > -MaxOverrun
        /\ KernelTick
  /\ UNCHANGED bufVars

OtherCall == pc[current] = "user" /\ SystemCall /\ UNCHANGED bufVars

-----------------------------------------------------------------------------
Init ==
  /\ SchedInit
  /\ pc = [t \in Task |-> "user"]
  /\ tmp = [t \in Task |-> NoTask]
  /\ b_lock = FALSE
  /\ b_wait = NoTask
  /\ io = FALSE
  /\ lost = FALSE

KernelStep ==
  AlreadyValid \/ QueueRequest \/ SleepAgain \/ LeaveSleepOn

WQNext == Tick \/ OtherCall \/ LockBuffer \/ WaitOnBuffer \/ KernelStep \/ EndRequest

(* Kernel code runs on, and the disk works off its queue, as               *)
(* QueuedRequestEnds of HardDisk has it.  Strong fairness of the tick in   *)
(* user mode: the clock is not locked to the calls of any program, so it   *)
(* does not catch a task inside its calls every single time.               *)
WQSpec ==
  /\ Init /\ [][WQNext]_vars
  /\ SF_vars(pc[current] = "user" /\ Tick)
  /\ WF_vars(KernelStep)
  /\ WF_vars(pc[current] = "issued" /\ WaitOnBuffer)
  /\ WF_vars(EndRequest)

-----------------------------------------------------------------------------
BufTypeOK ==
  /\ pc \in [Task -> Place]
  /\ tmp \in [Task -> Task \cup {NoTask}]
  /\ b_lock \in BOOLEAN
  /\ b_wait \in Task \cup {NoTask}
  /\ io \in BOOLEAN
  /\ lost \in BOOLEAN

TypeOK == SchedTypeOK /\ BufTypeOK

(* The lock has one owner: the task between lock_buffer and the end of     *)
(* make_request, or the disk; and b_lock is set exactly while it has one.  *)
MutualExclusion ==
  /\ \A s, t \in Task : pc[s] = "locked" /\ pc[t] = "locked" => s = t
  /\ io => \A t \in Task : pc[t] # "locked"
  /\ b_lock <=> (io \/ \E t \in Task : pc[t] = "locked")

(* Someone is to wake t: the owner of the lock through b_wait, or a task   *)
(* about to leave sleep_on through its tmp.  (Whether the owner ever does  *)
(* is the matter of SleeperWakes.)                                         *)
WokenFrom(t, S) ==
  \/ b_lock /\ b_wait = t
  \/ \E u \in Task \ S : InSleepOn(u) /\ tmp[u] = t

(* No wake-up is lost: in every set of tasks asleep some task will be      *)
(* woken from outside the set.  (Were a task asleep behind a queue nobody  *)
(* will ever wake, it and the tasks it waits for would be a set without.)  *)
NoLostWakeup ==
  \A S \in SUBSET {t \in Task : state[t] = "UNINTERRUPTIBLE"} :
    S # {} => \E t \in S : WokenFrom(t, S)

(* No task runs on in user mode, or elsewhere in the kernel, while it is   *)
(* marked asleep in a queue: a later tick would take the CPU from it for   *)
(* good.                                                                   *)
AsleepInQueueOnly ==
  \A t \in Task : state[t] = "UNINTERRUPTIBLE" => InSleepOn(t)

(* When schedule() comes back to a task still marked asleep, the lock is   *)
(* still held, so that the task goes back to sleep.                        *)
SpuriousReturn ==
  InSleepOn(current) /\ state[current] = "UNINTERRUPTIBLE" => b_lock

(* Whoever sleeps for a buffer becomes runnable again, unless a request    *)
(* for the buffer was lost on an empty line: nobody unlocks it then, and   *)
(* every sleeper is left behind.                                           *)
SleeperWakes ==
  \A t \in Task :
    state[t] = "UNINTERRUPTIBLE" ~> (state[t] = "RUNNING" \/ lost)

-----------------------------------------------------------------------------
(* The lock as its users see it.                                           *)
Disk == -2

Lockers == {t \in Task : pc[t] = "locked"}

Holder ==
  IF io THEN Disk
  ELSE IF Lockers # {} THEN CHOOSE t \in Lockers : TRUE
  ELSE NoTask

Lock == INSTANCE BufferLock WITH
  Client <- Task, Free <- NoTask, owner <- Holder, waiting <- {t \in Task : InSleepOn(t)}

(* The queue of sleepers, the loops around it and the interrupt of the     *)
(* disk together implement the lock: nobody gets past lock_buffer or       *)
(* wait_on_buffer while the buffer is held, and nobody blocks on a buffer  *)
(* that is free or its own.                                                *)
ImplementsLock == Lock!LockSpec

=============================================================================
