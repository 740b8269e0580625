# A TLA+ model of CherryOS

CherryOS is a small x86 kernel in the shape of linux-0.11: a scheduler with
time slices, fork/exit/kill with signals, sleep queues, a buffer cache over a
hard-disk driver, a tty layer with a console. It runs on one CPU and does not
preempt kernel code. This directory holds TLA+ modules translated from its
sources, TLC configurations that check them on small instances, and proofs,
checked by TLAPS, that hold for any number of tasks.

## Inventory

| component | state | operations | talks to | what makes it correct |
|---|---|---|---|---|
| scheduler (`kernel/sched.c`) | `tasks_ptr[]`, `current`, `jiffies`, per task `state ts priority signal blocked alarm` | `schedule`, `do_timer_interrupt`, `sys_pause`, `sys_nice`, `sys_alarm` | called by every path that gives up the CPU | switches only to runnable tasks, starves nobody, misses no signal or alarm |
| sleep queues (`sleep_on`, `wake_up`) | one pointer per queue, `tmp` on kernel stacks | sleep, wake | scheduler; buffer cache, driver interrupts | no wake-up lost |
| processes (`fork.c`, `exit.c`) | `pid father`, `last_pid`, slots | `fork exit kill` | scheduler, memory, signals | unique pids, a living father for everyone, every death reported |
| signals (`signal.c`, return path in `system_call.s`) | `signal blocked sa[]` | `signal sigaction ssetmask alarm`, `do_signal`, frames on the user stack | scheduler, exit | a handler runs under its mask and leaves the one it found; a signal ends a pause |
| memory (`mm/memory.c`) | `mem_map[]`, page directory and tables | `get_free_page free_page copy_page_tables free_page_tables mem_init` | fork, exit, page fault | counts equal mappings, nothing leaks on failure |
| buffer cache (`fs/buffer.c`) | buffer heads, hash chains, free list, `b_lock b_count b_dirt b_uptodate` | `getblk bread brelse`, the buffer lock | sleep queues, block requests | one buffer per block, one owner of a locked buffer |
| block requests, disk (`ll_rw_blk.c`, `hd.c`) | `request[]`, queue, `reset recalibrate`, `do_hd` | `ll_rw_block make_request add_request`, `end_request`, interrupts | buffer lock, `wait_for_request` | every queued request ends, once |
| tty (`tty_io.c`, `keyboard.s`) | three rings per tty, `termios`, `stopped` | keyboard interrupt, `copy_to_cooked` | console | lines can be corrected until they are ended, in step with the echo |
| console, printk (`console.c`, `printk.c`) | cursor, origin and scroll window, escape state | `console_write`, `printk` | tty write ring | cursor inside the screen |
| segment descriptors (`sched.c`, `fork.c`, `traps.c`) | GDT, IDT, `ldt[]` | `set_tss_desc set_ldt_desc set_segment_base set_segment_limit set_gate`, `copy_mem` | fork, start-up | a child has segments of its own, found where its selectors point |
| library (`lib/string.c`, `vsprintf.c`) | - | string functions, `vsprintf` | printk | what the standard says of them |
| boot, traps (`*.s`, `traps.c`) | - | - | - | not modelled: straight-line, or print and stop |

Hard behaviour: the interleaving of tasks through `schedule()`, which in this
kernel may *return without switching*; interrupts between the steps of a call
that runs with interrupts enabled; wrapping counters (`jiffies`, `last_pid`);
tables that fill up (task slots, requests, rings); the stop of the whole
machine when kernel code loops. `PROJECT.json` lists each hazard at its line.

## Modules

| module | what it is |
|---|---|
| `Sched` | the scheduler; `Schedule(st, sg, sl)` is `schedule()` as every other module uses it |
| `WaitQueue` | EXTENDS `Sched`: `sleep_on`/`wake_up` and the lock of a buffer, with the tasks and the disk interrupt that use it |
| `BufferLock` | the abstract lock that `WaitQueue` implements |
| `Process` | EXTENDS `Sched`: fork, exit, kill, masks and `do_signal` |
| `Memory` | pages, `mem_map` and page tables under fork and exit |
| `AddressSpaces` | what fork and exit promise of memory; `Memory` implements it |
| `HardDisk` | the request table and queue, the disk driver and the controller's answers |
| `BlockDevice` | what the users of a block device may rely on; `HardDisk` implements it |
| `BufferCache` | `getblk`, `bread`, `brelse`, with the hash chains and the free list pointer by pointer |
| `BlockCache` | what the tasks that read blocks may rely on; `BufferCache` implements it |
| `Console` | cursor, scrolling window and escape sequences, one step per character |
| `Terminal` | a terminal with a plain grid of cells, which `Console` implements |
| `Printk` | `printk` called by several tasks in user mode, one terminal queue |
| `Signals` | EXTENDS `Process`: `signal`, `sigaction`, the frames `do_signal` pushes for handlers, and the return from them |
| `Tty` | `copy_to_cooked`: conversions, line editing and echo on the three queues |
| `LineEditor` | what a terminal promises its readers; `Tty` implements it |
| `Strings` | `lib/string.c`, over a memory of bytes |
| `Vsprintf` | `vsprintf` and `number` |
| `Descriptors` | segment descriptors and gates, byte by byte |
| `Library` | one call of a function of the last three, and what it must come to |
| `SchedProofs`, `WaitQueueProofs`, `MemoryProofs`, `BufferCacheProofs`, `HardDiskProofs`, `TtyProofs` | theorems of one module each |
| `SignalsProofs`, `ConsoleProofs` | theorems of `Process` and `Signals`, and of `Console` and `Printk` |
| `MCSched`, `MCWaitQueue`, `MCProcess`, `MCSignals`, `MCMemory`, `MCHardDisk`, `MCBufferCache`, `MCConsole`, `MCPrintk`, `MCTty`, `MCLibrary` | values of the constants for TLC |

**Correspondence.** A task is its index in `tasks_ptr[]`; every field of
`task_struct` that matters is a function of the index, under its name in C;
an empty slot has `state` `"NULL"`. Since the kernel is not preempted, a system
call is one step up to the point where `schedule()` switches away; what the
task does when it runs again is a further step (`SleepAgain`, `LeaveSleepOn`,
`ReturnToUser`). `pc` says where a task is between two steps, and which of the
places have interrupts enabled: there the clock (`KernelTick`) and the disk
(`EndRequest`) can come in.

`Schedule` keeps the fact that the scheduler of linux-0.11 does not have:
when no runnable task has slices left, slices are refilled and the function
returns to its caller (`sched.c:386`), whose state may be `INTERRUPTIBLE`,
`UNINTERRUPTIBLE` or `ZOMBIE` at that moment.

`Sched` alone is the kernel under programs that block no signals, so that
`do_signal` (which looks only at blocked ones) does nothing. Programs may make
any call in any order; the two loops that `main.c` ships are the least
interesting of them. Task 0 is the loop of `TASK_0`: it forks once and makes no
other call. All tasks have euid 0 and process group 0, as in the code, where
nothing changes them.

`WaitQueue` takes of the driver that a request that is queued ends with an
interrupt (`QueuedRequestEnds` of `HardDisk`). A request that meets an empty line is
not queued (`ll_rw_blk.c:35-41`): `QueueRequest` may lose it, `lost` is then true, the
disk never ends it and whoever sleeps for the buffer sleeps for good. The safety
properties hold of both outcomes; `SleeperWakes` excepts the second. The sleep on
`wait_for_request` is not reached with as few tasks as there are entries
(`EntryForEachTask`); `HardDisk` has it. The kernel has
no system call that reads blocks yet; the tasks of `WaitQueue` call the
functions of `buffer.c` as its callers inside `buffer.c` do.

`Process` abstracts memory to its outcomes: a fork may fail for lack of page
tables or data pages (-EAGAIN) or of the page for the task itself, which the
code does not check and which ends in a panic. `"hung"` is the stopped machine:
a panic, or a page fault that `do_no_page` answers with a loop. A zombie that
`schedule()` returns to meets that page fault at the end of its call, unless a timer
interrupt that waits for its `iret` comes first and switches it away (`TickAtIret`; of a
zombie with no blocked signal pending, for which `do_signal` does nothing before). It
is why the runs of `Process` do not check for deadlock. `release()` is not modelled: the
invariant `FatherAlive` shows that `tell_father` always finds a father.

`Memory` has no scheduler: neither fork nor exit gives up the CPU before it is
done with memory, so `current` is whoever makes the call. A frame is a physical
page number; the limit of a task is 1MB, so an address space is one entry of the
page directory, and `page_dir` is a function of the slot. The loops over a page
table take one step per entry, which is where memory can run out. `pc` is the
part of the call in progress or the panic it ended in. A page that becomes data
is given contents (`Data`), so that `get_free_page` clearing it is seen to matter
when it becomes a page table. The task of a zombie stays in `tasks_ptr` with its
page, since nobody calls `release()`. Page faults are not modelled: `do_no_page`
and `do_wp_page` print and loop.

`HardDisk` names a buffer by the block it is for. `request` is the table,
`req_q` the queue as a sequence of entries, with `CURR_REQ` its head. A step is
what runs without an interrupt being possible; `pc` says where the driver is, or
which panic it ended in. The controller is modelled by what the driver can see
of it: `drive` is the command it works on, and it answers with success, with a
failure at either sector, by not being ready, or by never asking for data
(`LateInterrupt` is the interrupt that comes all the same). Since
`add_request` never puts a request into an empty queue, the initial states are
those with an empty queue and with one request already in it: only from the
latter does the driver work at all. `hd_init` has no caller; the module starts
where it would leave off, with `nr_sects` sectors in the one partition. A read
through `CURR_REQ` when the queue is empty is a read of address 0, that is of the
page directory, and a write there is a panic of its own. `BlockDevice` has neither
table nor driver: calls, a line of accepted requests, and which sectors of each
have been moved. It says what is served and in which order, not that anything is
(`QueuedRequestEnds` does), and it has the request that joins no line, since the
code has it.

`BufferCache` keeps every link: `prev_hash`, `next_hash`, `hash_table`,
`prev_free`, `next_free`, `free_list` are functions or values under those names,
and `Removed` and `Inserted` are the assignments of the two C functions. The write
through the head of an empty chain (`buffer.c:105`) goes to address 20, an entry of the
page directory, and is kept as `queues.at_null`. A call
runs until it sleeps; `at` is where. `brelse` wakes the one task that `buffer_wait`
points to (`LetGo`), and that task, when it runs, the one it had displaced and kept in
`tmp` (`WakeNext`): until then the others sleep on, beside a free buffer too. As in
`WaitQueue`, `schedule()` may return to a task that has just gone to sleep, which then
displaces itself (`NoneFree`). `b_count` is a byte and wraps (`UInt8`); what keeps it
from wrapping is an assumption about the callers (`ReferencesFit`), since nothing in
`buffer.c` does. `b_dirt` and `sync_dev` are left out: nothing
sets `b_dirt`. The wait for a free but locked buffer is left out because the
invariant `BusyIsHeld` shows that there is none. `BlockCache` knows blocks only:
which have a copy, which copies are valid or being read, which blocks a task has
got and which one it asks for. A buffer's data counts as valid there only when it
is that of the block (`ValidBlocks`). It has no action for a `brelse` that waits: a
buffer that a task has got is up to date, hence not read, hence not locked, and the
wait that the code has, and `BrelseWaited` models, never happens. (Nor does `bread`
wait in `lock_buffer`: nothing runs between `getblk` and the lock but the disk.)

`Console` counts video memory in character cells. The escape state `CSI_1` has no
way out in the code (`console.c:431`), and neither has it here: the terminal is
silent from then on, which is why its run does not check for deadlock. ESC E on
the last line moves the cursor below it, in the code as in the model: the guard
of `cur_goto_pos` allows `y` to be `display_line_nr`. `ScreenInStep` must hold
there too.
`Terminal` has no addresses and no window; the refinement maps the cells of the
window to its grid.

`Printk` composes `printk`, `kernel_tty_write` and the loop of `console_write`.
Tasks run with IOPL 3 and call `printk` in user mode, with interrupts disabled;
but `update_scroll` enables them, so a task may be switched away from after any
line feed. The console itself is left out but for that.

`Signals` adds to the tasks of `Process` the actions `sa[]` and the frames on the
user stack. `HandlerRuns` is the part of `do_signal` below line 135; a frame
records the action, the mask at that moment (`before`, on the stack only
when `SA_NOMASK` is not set) and whether the restorer has put it back. The restorer
is user code outside the repository: what it must do follows from the frame
it is handed, and it calls `ssetmask`, after which the next handler may begin
before the jump back (`RestoreMask`, `LeaveHandler`). `copy_process` copies a task
with its stack; a task that exits loses it with its pages. `do_signal` looks at
`signal & blocked`, as the code does: it is blocked signals that handlers are run
for, and a handler with its own signal in its mask can therefore be entered again.

`Tty` has a step for each turn of the loop of `copy_to_cooked`, and for each turn of the
loop of V_KILL, and holds the three queues as sequences; a queue whose head runs into
its tail looks empty, in `Put` as in the code. Typing is external: `keyboard.s` does not
call `do_tty_interrupt` yet, but its handler sends the EOI before the place where it
would. A call starts with interrupts disabled. The first correction that it echoes
enables them, because `tty->write` ends in the `sti` of `update_cursor`; from then on a
keyboard interrupt may begin another call on the same queues. `calls` is the stack of
them, and such an interrupt between two turns (`KeyboardInterrupt`) is followed to
any depth. In the middle of a turn, between the test of the last character and the
`DEC`, it makes the outer call take off a character it has not looked at, an ended line's
perhaps: `GoAstray` lets that happen and the model ends there, so that what `Tty` says
is said of calls that were not interrupted in the middle of a turn. A terminal that is
raw or does not echo, `tty_table[0]` as shipped among them, has no such calls
(`OnlyCorrectionsInterrupted`). `sent` adds up what `tty->write` has been given since
the last line feed, and stops being followed once `write_q` has overrun. `stopped`
is set and never looked at, by the code or the module.

`Library` runs one call: the initial state chooses it, the only step
returns. The string functions are translated as loops of string instructions
with their registers; that a register counts down from 2^32 - 1 is `Unlimited`. What a
call must come to is defined in `Library` on sequences and numbers, without
the loops of the code: the digits of a field must spell its argument, a search
returns the least place that fits, memory outside the destination must be as it was.
Where the code does not do what the name of a function promises, `Right` and
`FieldsExact` say what it does instead: `strncat` writes a second NUL behind the end of
a source shorter than the count, `memcmp` of no bytes answers whatever the flags were
before it (its `leftover` is chosen), and a width of 0 or more that is passed for a `*`
turns the conversion into text (`EndsAtStar`).

## Runs

| run | question | instance |
|---|---|---|
| `sched` | does every runnable task with positive priority get the CPU, are switches sound, do alarms end pauses? | 3 tasks, priorities -1..1, alarms of 0, 1 and 2 ticks, a clock of 8 values that wraps |
| `wait_queue` | is the lock a lock, and is every sleeper woken? | 3 contenders, task 0, one slice each |
| `process` | are pids unique, is every death reported to a living father, do signals end pauses? | 4 slots, 4 pids (so pids are re-used at once), SIGKILL, SIGALRM, SIGCHLD, two masks; a task below task1 has a child that leaves a zombie |
| `memory` | are pages exclusive, counts exact, calls all-or-nothing? | 6 slots beside task0 on 11 usable pages, tables of 3 entries, so that forks fail at the task, the table and a data page |
| `hard_disk` | does each request move the right sectors, in its turn, and end, whatever fails? | 2 entries, 3 buffers, the code's 7 tries, 4 sectors: one block lies beyond the end |
| `buffer_cache` | one right copy per block, exact counts, sound lists, and all of it a cache of blocks to the tasks? | 3 tasks with up to 2 references each, 2 buffers, blocks 1, 2, 3 on 2 chains |
| `console` | can window and terminal be told apart? | 3 columns, 2 lines, a video memory of 10 cells, tabs of 2 |
| `printk` | are lines shown whole? | 2 tasks, lines of 1 and 2 characters, a queue of 8 |
| `signals` | does every handler run under its mask and leave the one it found? | 3 slots, SIGALRM and SIGCHLD caught by `signal` or by two actions of `sigaction`, handlers nested 2 deep |
| `tty` | can lines be corrected, and is what the echo sent taken back, with calls that interrupt one another? | all 10 kinds of characters, two of them at a time for some, queues of 4, 3 calls, 4 terminals, `tty_table[0]` among them |
| `library` | do string functions, `vsprintf` and descriptors come to what they must? | strings of up to 3 of 2 characters, ints of 8 bits, 8 slots to fork from and into |
| `gdt_limit` | does the limit of the GDTR take in the 64 tasks that `head.s:109` promises? No: TLC shows the fork into slot 30 | as `library` |

*Bounds.* `HalfRange` stands for 2^31 and makes the clock wrap within a run;
where no property looks at the clock it is 1. `MinPriority`/`MaxPriority` bound
`nice`, `MaxPid` stands for 2^31-1, `MaxOverrun` bounds how far slices go into the
red while kernel code runs with interrupts enabled. Three contenders are the
smallest number with a sleeper behind a sleeper behind an owner; four slots are
the fewest in which a task dies that has a zombie for a child while task1 is alive, who
is its father. (That task1 and another father are both told takes five, which the run does
not reach and the proof of `DeathIsReported` covers.) `kill` is called with up to
`MaxAtKill` tasks present and `ssetmask` with up to `MaxAtMask`: a task in pause,
one that signals it and task0 are three, and in `process` it is task1 that sets its mask,
before it forks, and the others inherit it. Programs that set no alarm leave nobody
to read the clock: the runs `process` and `signals` leave `jiffies` out of the
state they compare (`NoClock`, a view), and none of their properties speaks of it. In
`Memory` a page is 32 bytes and so is a KB: the size in KB that `main` passes for
an address is then below `LOW_MEM`, as it is on every real machine with less than
1GB, and `MAP_INDEX` wraps as it does there.

Two request entries are the fewest of which one can be in work while another
waits, or both are taken while a third buffer wants one; `MAX_ERRORS` is the
code's own. Two buffers on one chain and on two have every kind of neighbour but a
middle, which is left to the proof of `QueuesAreSound`; one task with two references
uses up every buffer, and two more sleep for one, so that a wake-up must be passed on. The
run takes the tasks as interchangeable, and leaves out of the state it compares what
nobody reads before it is written again (`Live`, a view): the argument and the buffer of
a call that is over, the data of a buffer that is not up to date, the word at NULL. A screen of 2 lines in a memory of 10 cells has both kinds of scroll, and a tab of 2 in 3
columns one that fits and one that is carried over.

In `Signals` two handlers are the fewest that nest; `MaxFrames` keeps `kill` from
being used on a task with more frames and pending signals than that, and
actions are installed before task1 forks (`BeforeForks`), so that what the others
have is inherited. In `Tty` a queue of 4 holds 3 characters, and the echo of a control
character and one more fill it; two characters wait in `read_q` at most, and three calls
are one that kills, one that kills within it and one that types within that. In `Library`
an int has 8 bits, so that its smallest value, which is its own negation, is
among the numbers; the slots are those at both ends of the table and of what the
GDTR covers.

*Fairness.* The 8254 never stops, and user mode runs with interrupts enabled:
weak fairness of `UserTick` in `Sched`. Where calls are modelled with their inner
steps, the tick in user mode is strongly fair: a task that runs short calls in
a loop leaves user mode again and again, and the clock is not locked to it.
Kernel code runs on (weak fairness of the steps of a call), and the disk
answers (`EndRequest`, and `WF` of the driver's and the controller's steps in
`HardDisk`); an interrupt that arrives while interrupts are disabled
stays pending in the 8259.

*Where code and comments part.* The modules follow the code. One run, `gdt_limit`,
checks what a comment says and finds it violated; of the rest no property claims what
the comments say, and some properties that hold say what the code does in its place.

* `signal.c:100` masks with `blocked` where `schedule()` masks with its complement
  (`sched.c:355`, for the same question): `do_signal` finds no signal pending
  (its comment, line 115) when an unblocked one is.
* `ll_rw_blk.c:37`: for an empty queue `add_request` assigns the request to the local
  variable `tmp`; the queue stays empty (`AddRequest`). "reaching here, the queue is
  not empty" (line 43) is therefore never reached on a machine as it boots.
* `hd.c:252` tests sector + 2 against the end of the partition also for a retry
  that has one sector left: half of the last block having been moved, the request
  is given up at its next error. It is the exception in `TriedToTheEnd`.
* `head.s:108` gives the GDTR a limit of 64 descriptors, "support maxmium 64 tasks";
  with two descriptors per task that is tasks 0 to 29, and `TasksWithinLimit` is
  violated (run `gdt_limit`, a finding). Line 144 reserves room for two each, but starts at index 3 where tasks
  start at 4: the LDT of task63 lies behind the table.
* `vsprintf.c:129`: the missing `++fmt` that a comment says was added is added for
  negative widths only; with another, `%*d` takes the `*` for the conversion
  (`ReadWidth`). `FieldsExact` describes what comes out then (a finding).
* `strncat` (`string.c:58-60`) writes a NUL behind the one it has copied, and `memcmp`
  of no bytes (`string.c:331-344`) returns by a flag that nothing has set. The repository
  promises neither otherwise; `StringsExact` states both.
* `tty_io.c:103` looks for `L_ICANON` in `c_iflag`, where the initializers do not set
  it: the terminal as shipped is raw (`Initializer`). `tty_io.c:8` erases with 0x1F,
  of which `tty_io.c:129` says that the console takes the display back; `console_write`
  ignores 0x1F and deletes on `c_cc[V_ERASE]`, 0x7F (`console.c:351`), which an echo on
  the raw terminal sends. `ErasuresMatch` is therefore about what `tty_io.c` sends, and
  says nothing of the screen (a finding).
* `tty_io.c:110-113` lists what ends the loop of V_KILL; with the interrupts that
  `tty->write` enables inside it (line 140, `console.c:82`), a line ended by a nested
  call between lines 119 and 126 loses its end all the same (`GoAstray`; a finding).
* `sys_signal` returns the handler it has just installed (`signal.c:52`).
* Nothing reaps zombies, so that the slots run out (`fork.c:81`); `copy_process`
  does not check the page it gets for the task (`fork.c:115`), which is the panic
  `"page directory overwritten"` of `Memory`.

*Also in the models, with no run of its own:* `insert_into_queues` writes a pointer
into the page directory whenever a chain is empty (`queues.at_null`); `schedule()` returns to `do_exit`,
so a zombie keeps the CPU (`Process`, a state with `state[current]` `"ZOMBIE"`);
`kill(0)` compares groups with the caller's pid and reaches nobody, `kill(-1)`
reaches task1 (`KillTargets`); `mem_init` is given KB for bytes and frees pages that
are not there (`MInit`); a task can sleep for a request entry beside an idle one,
when the disk ends a request between `make_request`'s search and its `sleep_on`
(`SleepOn`); the late interrupt of a write that was given up writes through
`CURR_REQ == NULL` (`LateInterrupt`).

`QueueIsDrained` and `WholeMessages` are about lines that end with their only
line feed (`PrintkAssumption`): what tasks print, which is `main.c:105` and `123`,
is of this kind. With a line feed in the middle of a message a scroll would enable
interrupts while the rest is still in the queue, and the line of another task
could overtake it.

Definitions whose comment starts with "Wrong variant" are not part of any
specification: each is what its successor would be with a plausible mistake,
and shows that a property tells the difference.

## Proofs

Assumptions are the named ASSUMEs of the modules: at least one task, positive
clock rate and range, signal numbers within 1..32, integer priorities, at least one
block, buffer and request entry, references that fit together in the byte of `b_count`,
no more tasks of `WaitQueue` than request entries, a first megabyte that fits in one page table,
printed lines that fit in the queue and end with their only line feed, and tty
queues with room for a character beside what is typed ahead.

* `SchedTypeCorrect`: types, with jiffies and alarm in int32_t. The work is in
  `ScheduleType`: `Schedule` returns a well-formed table from any.
* `SwitchCorrect`: `SwitchIsSound` for any number of tasks, from `ScheduleSwitch`.
* `WaitQueueInvariant`: the conjunction of types, `MutualExclusion`,
  `NoLostWakeup`, `AsleepInQueueOnly` and `SpuriousReturn` is inductive.
  `SpuriousReturn` is the strengthening: if `schedule()` has come back to a task
  still marked asleep, the lock is still held, so the loop sends it back to
  sleep. `NoLostWakeup` speaks of sets of sleepers, each with a member that is
  woken from outside the set; a chain of `tmp` pointers without a cycle is what
  it comes to, and the set form is inductive without talking of chains.
  Corollaries: `LockExcludes`, `WakeupsAreKept`, `NobodyRunsAsleep`.
* `LockImplemented`: `WaitQueue` refines `BufferLock`, step by step.

* `ProcessInvariant`: types, `PidUnique`, `FatherAlive`, and three strengthenings:
  `InitLives` and `Task0Runs` (whom orphans and the idle CPU fall back on) and
  `DeadNotInUser`. Corollaries `PidsAreUnique`, `FathersAreAlive`, and
  `DeathsAreReported`, an action property from the same invariant.
* `MemoryInvariant`: types, `OnePurpose`, `MapIsExact`, `OnlyKnownPanics` and
  `Shape`, what the loops rely on: the victim of a freeing loop has lost the
  entries before `next`, the child of a copying loop has none after it, only
  task1 maps the first megabyte, live tasks have a table. Corollaries
  `PagesAreNotShared`, `NothingLeaks`, `GuardsAreNotHit`.
* `SpacesImplemented`: `Memory` refines `AddressSpaces`, for any number of tasks, pages
  and table entries. The abstract state is a function of `Kept`, what the places hold
  that are not the business of the call in progress: a step either leaves `Kept` alone
  (the `...Hidden` lemmas) or is the last of a fork or the first of an exit (the
  `...Shown` lemmas). Pages are counted through the places that hold them, once each
  (`Drawn`, `WholeTask`). `SInv` is what a call needs to end as it promises: task 1
  starts alone and keeps the entry that its exit panics at, every table maps
  something, and a copying loop has mapped what the parent maps, up to `next`.
* `SignalsInvariant`: the invariant of `Process`, which every step of `Signals`
  keeps, and `FrameInv`. `MaskHoldsInHandler` is not inductive: what an outer
  handler masks must survive the inner one putting back the mask it saved.
  `HeldAbove` says that every mask saved above a handler includes what that one
  masks; `Settled`, that what runs above a frame that owes nothing (it has restored
  its mask, or saved none) comes back to the mask which that frame found. For a frame without a
  saved mask this needs `NomaskMasksNothing`, which is what `sigaction` clearing
  the mask is for; `EmptySlotsAreClean` gives a child in a slot the stack of its
  parent and nothing else. Each operation on a stack (push, restore, pop) is a
  lemma of its own. Corollaries: `MasksHold`, `MasksAreRestored`,
  `PidsAreUniqueWithHandlers`.

* `ConsoleInvariant`: what a screen is (`Screen`: the cursor is at most one column
  or one line beyond), `InStep` and `Fits`, kept by each operation of `console.c` in a
  lemma of its own (`LfSound`, `TabSound` ...). Corollary `ScreenStaysInStep`.
* `TerminalImplemented`: `Console` refines `Terminal` for every size of screen and
  memory. `PlacesDiffer` (no two places in sight share a cell) makes a character
  written at the cursor one change of the grid (`WrittenShows`); `ScrollUpShows` says
  that both ways of scrolling up come to `ShiftedUp`.

* `CacheInvariant`: types, `LimitInv` (a task has at most `MaxHeld` references, and
  fewer while it asks for another), exact counts, `BusyIsHeld` in its two halves and
  `DataIsOfBlock`; `SectorInv`, that the disk reads the block under which a
  locked buffer is filed, is the strengthening. `Using(b)` is a finite set of references; a
  call that begins adds one (`CallBegins`), one that ends takes one out
  (`CallEnds`), and one that returns the buffer exchanges the call for a
  reference (`ValidKeeps`). `LimitInv` and `ReferencesFit` bound the references of all tasks
  below 256, so that no count wraps. A buffer with count 0 is in nobody's hands
  (`FreeIsUnused`), which is why it may change its block. None of this depends on
  the order of the lists. Corollaries `CountsCorrect` and `BusyBuffersAreHeld`.
* `ListsInvariant`: the free list is one ring and the hash chains hold the buffers
  with a block, each once. A list in order is one whose buffers can be numbered so
  that every link leads to the next number (`Ring`, `Chains`); that a
  walk along the links meets everything and ends (`RingReached`, `ChainReached`) is
  then an induction over the numbers. `Removed` and `Inserted` are taken apart into
  what they do to the ring and to one chain, and each part comes with the
  numbering after it (`RingMoves`, `ChainUnlink`, `ChainLink`). So a search that finds
  nothing shows that there is nothing (`FoundOnChain`, `NoneFreeOnRing`), which is
  what a second buffer for a block would contradict. `SleepInv` is `SleepersAreReached`
  with what `buffer_wait` and `tmp` may hold; a task goes to sleep only when all buffers
  are in use, and `brelse` takes the task it wakes from the pointer.
  Corollaries `ListsAreSound`, `CopiesCorrect` and `SleepersReached`.
* `CacheImplemented`: `BufferCache` refines `BlockCache`, for any number of tasks, buffers
  and blocks. `UsersInv` is what the two invariants lack: a buffer in use has a block,
  one that is read is not up to date, one that a task has got is, and so no `brelse`
  waits. With one buffer per block every view of a block is one of its
  buffer (`Seen`), and a block is in use when the count of its buffer says so
  (`InUseIs`). `getblk` is a step of its own in each of its three ways: the block that
  goes when a buffer is re-used is the only one that does (`EnterStep`), and a task
  sleeps on `buffer_wait` only beside as many blocks in use as there are buffers
  (`WaitStep`, by counting: `CopiesFit`, `CopiesFill`).

* `DiskInvariant`: `BlocksAreLocked`, `MovedInPlace`, `InterruptsAreExpected`, and what
  makes them inductive. `WaitersInv`: a call that waits for an entry has locked its
  buffer and no request is about it, so `AddRequest` finds none. `ProgressInv`: requests
  are as they were made until they are first in the queue, and the first has moved what its
  `buffer` pointer is past. `DriveInv` ties the controller's command to the first
  request. `PreparedInv`: after too many errors a reset is due, or a restore is, or both
  are done. `end_request` and a change of the first request are one lemma each
  (`EndRequestKeeps`, `ReviseKeeps`), used by all handlers. Corollaries
  `RequestsOwnBuffers`, `TransfersAreComplete`, `HandlersFit`, `ResetsPrecedeRetries`;
  and `NothingIsGivenUpEarly`, an action property: only the first request leaves the
  queue, and each of the three ways it can end badly uses up its tries or is the
  exception for half of the last block.
* `DeviceImplemented`: `HardDisk` refines `BlockDevice`, for any number of entries, tries
  and buffers. The line is the queue seen through the table (`LineOf`), so that a retry,
  a reset or an error that is not the last is a stutter (`UnseenDriverStep`,
  `NothingEnds`), a sector moved twice is one moved once (`SectorMoves`), and each end
  of a request takes the first out of the line (`EndRequestLeaves`). `AcceptedInv` is what
  the invariant lacked: a buffer locked after its call has returned has an entry. The
  buffers behind accepted calls can therefore be counted by their entries, and an idle
  entry leaves room for one more (`RoomLeft`).

* `PrintInvariant`: while interrupts are disabled the queue holds exactly what is
  left of the line of the running task, in order, and its counter says how much
  (`Printing`); once they are enabled the queue is empty, and the last character
  shown ended its line. All other tasks are then in user mode or about to leave
  `console_write` with nothing left to read (`Idle`). The line feed that can enable
  interrupts is the last character, after the carriage return is put in (`SentIsLine`).
  Corollaries: `QueueDrained`, and `LinesAreWhole`, an action property.
* `TtyInvariant`: types. `EditorImplemented`: `Tty` refines `LineEditor`,
  for any termios, size of queues and depth of calls. The last character that ends a line
  splits `secondary` into `Done` and `Line`; `EndUnique` makes that split a function of the
  queue, and `Shortened` and `Grown` say what a character taken back or stored does
  to it. `kills` counts the calls in the loop of V_KILL, each of which ends with the line
  empty. It holds up to the step that goes astray, and trivially from there on;
  `OnlyCorrectionsInterrupted` says for which terminals that step exists.
* `ErasuresAreSent`: `ErasuresMatch` follows from `EchoInv`: while nothing has overrun,
  the balance of what was sent, with what waits in `write_q`, is what the row of
  `secondary` came to. The sizes of the row are folds, unrolled one element at a time.

*Induction over data* (along a list, a fold or a queue) is done without the
theorems of the library that take an operator: `SetInduction`, proved from the
well-foundedness of the natural numbers, says it of sets.

The type invariants (`SchedTypeOK`, `TypeOK`, `MTypeOK`, those in `FrameInv`) are
proved as parts of these.

Only model-checked: liveness (`NoStarvation`, `PausedAlarmWakes`, `SleeperWakes`,
`SignalEndsPause`, `QueuedRequestEnds`), which is out of this prover's reach, and
`Library` (`StringsExact`, `FieldsExact`, `DescriptorsExact`), whose operators are
recursive or work bit by bit.

## Not modelled

* Boot (`bootsect.s`, `setup.s`, `head.s` but for its tables): straight-line code on
  bare hardware before the kernel runs.
* Traps (`traps.c`, `asm.s`) and page faults: they print the registers. What matters of
  them, that the machine stops, is `"hung"` in `Process`.
* `keyboard.s`: tables of scan codes; its handler does not reach the tty.
* The table of system calls (`sys.c`): data, of which most entries are stubs;
  the getters (`getpid`, `getuid`, `sgetmask` ...), which change no state.
* `interruptible_sleep_on`, `hd_init` and `sync_dev`: nothing calls them, or nothing
  gives them work. `release()` and `kill_session()`: unreachable, by `FatherAlive` and
  because no task is a session leader.
* The programming of the 8254, the 8259 and the video controller, and the
  arithmetic of cylinders and heads.

## Plan

Done: every component above that changes state while the kernel runs has a
module, and each of these modules has proofs. What is left:

1. `WaitQueue` composed with `HardDisk`: the lock freed by the driver's `end_request`.
2. The loops of `Strings` as functions rather than recursive operators, so that
   `SetInduction` applies to them.
