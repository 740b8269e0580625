------------------------------- MODULE Memory -------------------------------
(***************************************************************************)
(* The pages of the machine (mm/memory.c) and their use by fork            *)
(* (kernel/fork.c) and exit (kernel/exit.c): mem_map, the page directory,  *)
(* one page table per task, and the page each task_struct lives in.        *)
(*                                                                         *)
(* A frame is a physical page number.  The limit of every task is 1MB, so  *)
(* its address space is one entry of the page directory.  The kernel is    *)
(* not preempted: `current' is whoever made the call in progress, and the  *)
(* loops of copy_page_tables and free_page_tables take a step per entry.   *)
(***************************************************************************)
EXTENDS Integers, FiniteSets

CONSTANTS
  NUMBER_OF_TASKS, (* slots of tasks_ptr[]                                 *)
  PAGE_SIZE,       (* bytes in a page                                      *)
  LowFrames,       (* frames below LOW_MEM (1MB), which mem_map leaves out *)
  PAGING_PAGES,    (* entries of mem_map                                   *)
  LastEntry,       (* the last index of a page table; 1023 in the code     *)
  FrameSpace,      (* 2^32 \div PAGE_SIZE: addresses are uint32_t          *)
  buf_mem_end,     (* where the buffers end; 4MB                           *)
  ext_mem_k,       (* what the BIOS reports: KB above 1MB                  *)
  KB               (* bytes in a KB                                        *)

ASSUME MemAssumption ==
  /\ NUMBER_OF_TASKS \in Nat /\ NUMBER_OF_TASKS >= 2
  /\ {PAGE_SIZE, LowFrames, FrameSpace, KB} \subseteq Nat \ {0}
  /\ {PAGING_PAGES, LastEntry, buf_mem_end, ext_mem_k} \subseteq Nat
  /\ LowFrames <= LastEntry + 1

NOT_EXIST == 100   \* mem_map of a page that is not to be handed out
None == -1         \* a directory or table entry without the present bit

LOW_MEM == LowFrames * PAGE_SIZE
Low == 0 .. LowFrames - 1
Page == LowFrames .. LowFrames + PAGING_PAGES - 1
Entry == 0 .. LastEntry
Slot == 1 .. NUMBER_OF_TASKS - 1   \* task0 is static and has no page

VARIABLES
  mem_map,   (* how often each page is in use                              *)
  tasks_ptr, (* the page of the task_struct of each slot, or None          *)
  page_dir,  (* the page of the page table of each slot, or None           *)
  page_tab,  (* the contents of each page, read as a page table            *)
  dead,      (* the slots whose task has called exit                       *)
  current,   (* the task that makes the call in progress                   *)
  child,     (* the slot a fork is filling                                 *)
  next,      (* the entry the loop has reached                             *)
  pc         (* "user", the part of the call in progress, or a panic       *)

memVars == <<mem_map, tasks_ptr, page_dir, page_tab, dead, current, child, next, pc>>

Table == [Entry -> Low \cup Page \cup {None}]
Blank == [j \in Entry |-> None]
(* What init_task1_paging() writes: the first megabyte as it is.           *)
Identity == [j \in Entry |-> IF j \in Low THEN j ELSE None]
(* Data, should anybody read it as a page table.                           *)
Data == [j \in Entry |-> 0]

-----------------------------------------------------------------------------
(* get_free_page(): the first free page, filled with zeros.  The caller    *)
(* says what the page holds when the step is over.                         *)

(* Wrong variant: pages that are in use once are taken as well.            *)
FreeFramesShared == {p \in Page : mem_map[p] <= 1}

FreeFrames == {p \in Page : mem_map[p] = 0}

IsFirstFree(p) == p \in FreeFrames /\ \A q \in FreeFrames : p <= q

Take(p) == mem_map' = [mem_map EXCEPT ![p] = @ + 1]

Panic(message) ==
  /\ pc' = message
  /\ UNCHANGED <<mem_map, tasks_ptr, page_dir, page_tab, dead, current, child, next>>

(* free_page(): it decrements whatever is not 0, NOT_EXIST included.       *)
Give(f) == f \in Page /\ mem_map[f] >= 1 /\ mem_map' = [mem_map EXCEPT ![f] = @ - 1]
GiveFails(f) ==
  \/ f \notin Page /\ Panic("free addr < 1MB")
  \/ f \in Page /\ mem_map[f] = 0 /\ Panic("free addr bad map")

-----------------------------------------------------------------------------
(* copy_process().                                                         *)
Runs(t) == t = 0 \/ (t \in Slot \ dead /\ tasks_ptr[t] # None)

IsNextSlot(s) == tasks_ptr[s] = None /\ \A r \in Slot : tasks_ptr[r] = None => s <= r

(* Task 0 forks task 1 and nobody else.  Without a page for the task, the  *)
(* code goes on at address 0, over the page directory.                     *)
Fork(t, c) ==
  /\ pc = "user" /\ Runs(t)
  /\ IsNextSlot(c) /\ (t = 0 => c = 1)
  /\ current' = t /\ child' = c /\ next' = 0
  /\ \/ /\ FreeFrames = {}
        /\ pc' = "page directory overwritten"
        /\ UNCHANGED <<mem_map, tasks_ptr, page_tab>>
     \/ \E p \in FreeFrames :
          /\ IsFirstFree(p) /\ Take(p)
          /\ tasks_ptr' = [tasks_ptr EXCEPT ![c] = p]
          /\ page_tab' = [page_tab EXCEPT ![p] = Data]
          /\ pc' = IF c = 1 THEN "task1" ELSE "table"
  /\ UNCHANGED <<page_dir, dead>>

(* init_task1_paging().                                                    *)
InitTask1Paging ==
  /\ pc = "task1"
  /\ \/ FreeFrames = {} /\ Panic("init task1 failed")
     \/ \E p \in FreeFrames :
          /\ IsFirstFree(p) /\ Take(p)
          /\ page_dir' = [page_dir EXCEPT ![1] = p]
          /\ page_tab' = [page_tab EXCEPT ![p] = Identity]
          /\ pc' = "user"
          /\ UNCHANGED <<tasks_ptr, dead, current, child, next>>

(* copy_page_tables(), up to the loop: the directory entry.                *)
CopyTable ==
  /\ pc = "table"
  /\ \/ page_dir[child] # None /\ Panic("destination page dir is present")
     \/ page_dir[current] = None /\ Panic("source page dir is not present")
     \/ /\ page_dir[child] = None /\ page_dir[current] # None
        /\ \/ FreeFrames = {} /\ Panic("undo")
           \/ \E p \in FreeFrames :
                /\ IsFirstFree(p) /\ Take(p)
                /\ page_dir' = [page_dir EXCEPT ![child] = p]
                /\ page_tab' = [page_tab EXCEPT ![p] = Blank]
                /\ pc' = "copy"
                /\ UNCHANGED <<tasks_ptr, dead, current, child, next>>

(* One turn of its loop.                                                   *)
AdvanceTo(done) ==
  /\ next' = IF next = LastEntry THEN 0 ELSE next + 1
  /\ pc' = IF next = LastEntry THEN done ELSE pc

(* Wrong variant: an entry of the parent is shared, not copied.            *)
CopyEntryShared ==
  /\ pc = "copy"
  /\ page_tab' = [page_tab EXCEPT ![page_dir[child]][next] = page_tab[page_dir[current]][next]]
  /\ AdvanceTo("user")
  /\ UNCHANGED <<mem_map, tasks_ptr, page_dir, dead, current, child>>

(* The tables with page p holding a copy of the data, entered for child.   *)
WithCopy(p) ==
  [q \in Page |-> IF q = p THEN Data
                  ELSE IF q = page_dir[child] THEN [page_tab[q] EXCEPT ![next] = p]
                  ELSE page_tab[q]]

CopyEntry ==
  /\ pc = "copy"
  /\ \/ /\ page_tab[page_dir[current]][next] = None
        /\ AdvanceTo("user")
        /\ UNCHANGED <<mem_map, page_tab>>
     \/ /\ page_tab[page_dir[current]][next] # None /\ FreeFrames = {}
        /\ pc' = "undo" /\ next' = 0
        /\ UNCHANGED <<mem_map, page_tab>>
     \/ \E p \in FreeFrames :
          /\ page_tab[page_dir[current]][next] # None
          /\ IsFirstFree(p) /\ Take(p)
          /\ page_tab' = WithCopy(p)
          /\ AdvanceTo("user")
  /\ UNCHANGED <<tasks_ptr, page_dir, dead, current, child>>

-----------------------------------------------------------------------------
(* free_page_tables(), called by copy_mem() for a child that could not be  *)
(* completed ("undo") and by do_exit() ("exit").  do_exit() calls it twice *)
(* with the same base; the second call finds nothing.                      *)
Victim == IF pc = "undo" THEN child ELSE current

Freeing == pc \in {"undo", "exit"} /\ page_dir[Victim] # None

Doomed == page_tab[page_dir[Victim]][next]

FreeEntry ==
  /\ Freeing /\ next <= LastEntry
  /\ \/ /\ Doomed = None \/ Give(Doomed)
        /\ Doomed = None => UNCHANGED mem_map
        /\ page_tab' = [page_tab EXCEPT ![page_dir[Victim]][next] = None]
        /\ next' = next + 1
        /\ UNCHANGED <<tasks_ptr, page_dir, dead, current, child, pc>>
     \/ Doomed # None /\ GiveFails(Doomed)

(* Wrong variant: the page table is kept.                                  *)
FreeTableKept ==
  /\ Freeing /\ next = LastEntry + 1
  /\ page_dir' = [page_dir EXCEPT ![Victim] = None]
  /\ next' = 0
  /\ UNCHANGED <<mem_map, tasks_ptr, page_tab, dead, current, child, pc>>

FreeTable ==
  /\ Freeing /\ next = LastEntry + 1
  /\ \/ /\ Give(page_dir[Victim])
        /\ page_dir' = [page_dir EXCEPT ![Victim] = None]
        /\ next' = 0
        /\ UNCHANGED <<tasks_ptr, page_tab, dead, current, child, pc>>
     \/ GiveFails(page_dir[Victim])

(* The end of a fork that failed.                                          *)
(* Wrong variant: the slot is cleared and the page of the task forgotten.  *)
FreeTaskForgotten ==
  /\ pc = "undo" /\ page_dir[child] = None
  /\ tasks_ptr' = [tasks_ptr EXCEPT ![child] = None]
  /\ pc' = "user"
  /\ UNCHANGED <<mem_map, page_dir, page_tab, dead, current, child, next>>

FreeTask ==
  /\ pc = "undo" /\ page_dir[child] = None
  /\ \/ /\ Give(tasks_ptr[child])
        /\ tasks_ptr' = [tasks_ptr EXCEPT ![child] = None]
        /\ pc' = "user"
        /\ UNCHANGED <<page_dir, page_tab, dead, current, child, next>>
     \/ GiveFails(tasks_ptr[child])

(* do_exit().  Nothing ever gives a zombie's task_struct back.             *)
Exit(t) ==
  /\ pc = "user" /\ Runs(t) /\ t # 0
  /\ pc' = "exit" /\ current' = t /\ next' = 0
  /\ UNCHANGED <<mem_map, tasks_ptr, page_dir, page_tab, dead, child>>

EndExit ==
  /\ pc = "exit" /\ page_dir[current] = None
  /\ dead' = dead \cup {current}
  /\ pc' = "user"
  /\ UNCHANGED <<mem_map, tasks_ptr, page_dir, page_tab, current, child, next>>

-----------------------------------------------------------------------------
(* mem_init().  main() keeps main_mem_end in KB and passes it on, and      *)
(* MAP_INDEX subtracts LOW_MEM from it as an unsigned number.              *)
main_mem_end == ext_mem_k

MAP_INDEX(addr) == ((addr - LOW_MEM) \div PAGE_SIZE) % FrameSpace

Marked(f) == f - LowFrames >= MAP_INDEX(buf_mem_end) /\ f - LowFrames < MAP_INDEX(main_mem_end)

MInit ==
  /\ mem_map = [f \in Page |-> IF Marked(f) THEN 0 ELSE NOT_EXIST]
  /\ tasks_ptr = [s \in Slot |-> None]
  /\ page_dir = [s \in Slot |-> None]
  /\ page_tab = [f \in Page |-> Data]
  /\ dead = {}
  /\ current = 0 /\ child = 1 /\ next = 0
  /\ pc = "user"

MNext ==
  \/ \E t \in {0} \cup Slot, c \in Slot : Fork(t, c)
  \/ InitTask1Paging \/ CopyTable \/ CopyEntry
  \/ FreeEntry \/ FreeTable \/ FreeTask \/ EndExit
  \/ \E t \in Slot : Exit(t)

MSpec == MInit /\ [][MNext]_memVars

-----------------------------------------------------------------------------
Calls == {"user", "task1", "table", "copy", "undo", "exit"}
Panics ==
  {"page directory overwritten", "init task1 failed", "free addr < 1MB", "free addr bad map",
   "destination page dir is present", "source page dir is not present"}

MTypeOK ==
  /\ mem_map \in [Page -> 0 .. NOT_EXIST]
  /\ tasks_ptr \in [Slot -> Page \cup {None}]
  /\ page_dir \in [Slot -> Page \cup {None}]
  /\ page_tab \in [Page -> Table]
  /\ dead \subseteq Slot
  /\ current \in {0} \cup Slot /\ child \in Slot
  /\ next \in 0 .. LastEntry + 1
  /\ pc \in Calls \cup Panics

(* Where the kernel keeps the number of a page: the table of tasks, the    *)
(* page directory, and the page tables.                                    *)
TheTask == -2
TheTable == -1
Place == Slot \X (TheTask .. LastEntry)

Holds ==
  [x \in Place |->
     IF x[2] = TheTask THEN tasks_ptr[x[1]]
     ELSE IF x[2] = TheTable \/ page_dir[x[1]] = None THEN page_dir[x[1]]
     ELSE page_tab[page_dir[x[1]]][x[2]]]

(* No page above 1MB serves two purposes: no two tasks share memory, no    *)
(* page table is anybody's data, no task_struct lies in a user's page.     *)
OnePurpose ==
  \A x, y \in Place : Holds[x] \in Page /\ Holds[x] = Holds[y] => x = y

(* mem_map is exact at every step: what is marked as used is held, what is *)
(* held is marked, and what does not exist is left alone.  So nothing      *)
(* leaks, whichever page a fork failed at.                                 *)
MapIsExact ==
  \A f \in Page :
    mem_map[f] = IF \E x \in Place : Holds[x] = f THEN 1
                 ELSE IF Marked(f) THEN 0 ELSE NOT_EXIST

(* The panics that fork and exit guard against do not happen.  Those left  *)
(* are memory running out, and the exit of task1.                          *)
OnlyKnownPanics ==
  /\ pc \notin {"free addr bad map", "destination page dir is present", "source page dir is not present"}
  /\ pc = "free addr < 1MB" => current = 1

-----------------------------------------------------------------------------
(* What fork and exit come to, seen from outside the calls: a fork that is *)
(* not over has not happened, an exit that has begun has.                  *)
Mapped(s) == {j \in Entry : Holds[<<s, j>>] # None}

InFork == pc \in {"task1", "init task1 failed", "table", "copy", "undo"}

(* Task 1 does not get far: its first page is below 1MB.                   *)
InExit(s) == pc = "exit" /\ s = current /\ s # 1

(* Pages that the call in progress has taken, or has yet to give back.     *)
InFlight ==
  {Holds[x] : x \in {y \in Place :
     \/ InFork /\ y[1] = child
     \/ InExit(y[1]) /\ y[2] # TheTask}} \cap Page

Spaces == INSTANCE AddressSpaces WITH
  First <- Low,
  space <- [s \in Slot |-> IF InExit(s) \/ (InFork /\ s = child) THEN {} ELSE Mapped(s)],
  present <- {s \in Slot : tasks_ptr[s] # None /\ ~(InFork /\ s = child)},
  free <- Cardinality(FreeFrames \cup InFlight)

ImplementsSpaces == Spaces!SpacesSpec

=============================================================================
