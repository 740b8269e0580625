---------------------------- MODULE MemoryProofs ----------------------------
(* Theorems of Memory, for any number of tasks, pages and table entries:   *)
(* no page serves two purposes, mem_map is exact at every step, the guards *)
(* of the copying and freeing code are never hit, and fork and exit are to *)
(* the address spaces what AddressSpaces says.                             *)
EXTENDS Memory, FiniteSetTheorems, TLAPS

(* What the calls rely on between two of their steps.                      *)
TaskOneFirst == tasks_ptr[1] = None => \A s \in Slot : tasks_ptr[s] = None
TablesHaveTasks == \A s \in Slot : tasks_ptr[s] = None => page_dir[s] = None
DeadHaveTasks == \A s \in dead : tasks_ptr[s] # None
HeldAreMarked == \A x \in Place : Holds[x] \in Page => Marked(Holds[x])
LowIsTaskOnes == \A s \in Slot \ {1}, j \in Entry : Holds[<<s, j>>] \notin Low

(* A slot whose page table is being built or taken down.                   *)
Half(s) ==
  \/ s = child /\ pc \in {"task1", "table", "undo"}
  \/ s = current /\ pc = "exit"

LiveHaveTables ==
  pc \in Calls => \A s \in Slot \ dead : tasks_ptr[s] # None => page_dir[s] # None \/ Half(s)

Phase ==
  /\ pc \in {"task1", "table", "copy", "undo"} => tasks_ptr[child] # None /\ child \notin dead
  /\ pc = "task1" => child = 1 /\ page_dir[1] = None
  /\ pc \in {"table", "copy", "undo"} =>
       /\ child # 1 /\ current \in Slot /\ current # child /\ page_dir[current] # None
  /\ pc = "table" => page_dir[child] = None /\ next = 0
  /\ pc = "copy" =>
       /\ page_dir[child] # None /\ next <= LastEntry
       /\ \A j \in Entry : j >= next => page_tab[page_dir[child]][j] = None
  /\ Freeing => \A j \in Entry : j < next => page_tab[page_dir[Victim]][j] = None
  /\ pc = "exit" => current \in Slot \ dead /\ tasks_ptr[current] # None

Shape ==
  /\ TaskOneFirst /\ TablesHaveTasks /\ DeadHaveTasks /\ HeldAreMarked
  /\ LowIsTaskOnes /\ LiveHaveTables /\ Phase

IInv == MTypeOK /\ OnePurpose /\ MapIsExact /\ OnlyKnownPanics /\ Shape

-----------------------------------------------------------------------------
(* Arithmetic and places.                                                  *)
LEMMA Sorts ==
  /\ 1 \in Slot /\ Low \cap Page = {} /\ None \notin Low \cup Page /\ 0 \in Low
  /\ Low \cup Page \subseteq Int /\ Entry \subseteq Nat /\ 0 \in Entry /\ Low \subseteq Entry
  /\ LastEntry \in Nat /\ Page \subseteq Nat /\ TheTable # TheTask
BY MemAssumption DEF Slot, Low, Page, None, Entry, TheTask, TheTable

LEMMA Tables == Blank \in Table /\ Identity \in Table /\ Data \in Table
BY Sorts DEF Blank, Identity, Data, Table

LEMMA Places ==
  /\ \A s \in Slot : <<s, TheTask>> \in Place /\ <<s, TheTable>> \in Place
  /\ \A s \in Slot, j \in Entry : <<s, j>> \in Place
  /\ \A x \in Place : \E s \in Slot :
       x = <<s, TheTask>> \/ x = <<s, TheTable>> \/ \E j \in Entry : x = <<s, j>>
BY MemAssumption DEF Place, TheTask, TheTable, Entry

LEMMA HoldsNow ==
  \A s \in Slot :
    /\ Holds[<<s, TheTask>>] = tasks_ptr[s]
    /\ Holds[<<s, TheTable>>] = page_dir[s]
    /\ \A j \in Entry : Holds[<<s, j>>] = IF page_dir[s] = None THEN None ELSE page_tab[page_dir[s]][j]
<1> SUFFICES ASSUME NEW s \in Slot
             PROVE  /\ Holds[<<s, TheTask>>] = tasks_ptr[s]
                    /\ Holds[<<s, TheTable>>] = page_dir[s]
                    /\ \A j \in Entry : Holds[<<s, j>>] = IF page_dir[s] = None THEN None ELSE page_tab[page_dir[s]][j]
  OBVIOUS
<1>1. Holds[<<s, TheTask>>] = tasks_ptr[s]
  BY Places DEF Holds
<1>2. Holds[<<s, TheTable>>] = page_dir[s]
  <2> DEFINE x == <<s, TheTable>>
  <2>1. x[1] = s /\ x[2] = TheTable /\ x \in Place /\ TheTable # TheTask
    BY Places, Sorts
  <2> HIDE DEF x
  <2>2. Holds[x] = page_dir[s]
    BY <2>1 DEF Holds
  <2> QED BY <2>2 DEF x
<1>3. ASSUME NEW j \in Entry PROVE Holds[<<s, j>>] = IF page_dir[s] = None THEN None ELSE page_tab[page_dir[s]][j]
  <2>1. j # TheTask /\ j # TheTable /\ <<s, j>> \in Place
    BY Places, Sorts DEF TheTask, TheTable
  <2> DEFINE x == <<s, j>>
  <2>2. x[1] = s /\ x[2] = j /\ x \in Place
    BY <2>1
  <2> HIDE DEF x
  <2>3. Holds[x] = IF page_dir[s] = None THEN None ELSE page_tab[page_dir[s]][j]
    BY <2>1, <2>2 DEF Holds
  <2> QED BY <2>3 DEF x
<1> QED BY <1>1, <1>2, <1>3

LEMMA HoldsThen ==
  \A s \in Slot :
    /\ Holds'[<<s, TheTask>>] = tasks_ptr'[s]
    /\ Holds'[<<s, TheTable>>] = page_dir'[s]
    /\ \A j \in Entry : Holds'[<<s, j>>] = IF page_dir'[s] = None THEN None ELSE page_tab'[page_dir'[s]][j]
<1> SUFFICES ASSUME NEW s \in Slot
             PROVE  /\ Holds'[<<s, TheTask>>] = tasks_ptr'[s]
                    /\ Holds'[<<s, TheTable>>] = page_dir'[s]
                    /\ \A j \in Entry : Holds'[<<s, j>>] = IF page_dir'[s] = None THEN None ELSE page_tab'[page_dir'[s]][j]
  OBVIOUS
<1>1. Holds'[<<s, TheTask>>] = tasks_ptr'[s]
  BY Places DEF Holds
<1>2. Holds'[<<s, TheTable>>] = page_dir'[s]
  <2> DEFINE x == <<s, TheTable>>
  <2>1. x[1] = s /\ x[2] = TheTable /\ x \in Place /\ TheTable # TheTask
    BY Places, Sorts
  <2> HIDE DEF x
  <2>2. Holds'[x] = page_dir'[s]
    BY <2>1 DEF Holds
  <2> QED BY <2>2 DEF x
<1>3. ASSUME NEW j \in Entry PROVE Holds'[<<s, j>>] = IF page_dir'[s] = None THEN None ELSE page_tab'[page_dir'[s]][j]
  <2>1. j # TheTask /\ j # TheTable /\ <<s, j>> \in Place
    BY Places, Sorts DEF TheTask, TheTable
  <2> DEFINE x == <<s, j>>
  <2>2. x[1] = s /\ x[2] = j /\ x \in Place
    BY <2>1
  <2> HIDE DEF x
  <2>3. Holds'[x] = IF page_dir'[s] = None THEN None ELSE page_tab'[page_dir'[s]][j]
    BY <2>1, <2>2 DEF Holds
  <2> QED BY <2>3 DEF x
<1> QED BY <1>1, <1>2, <1>3

LEMMA HoldsTask ==
  \A s \in Slot : Holds[<<s, TheTask>>] = tasks_ptr[s] /\ Holds'[<<s, TheTask>>] = tasks_ptr'[s]
BY HoldsNow, HoldsThen

LEMMA HoldsTable ==
  \A s \in Slot : Holds[<<s, TheTable>>] = page_dir[s] /\ Holds'[<<s, TheTable>>] = page_dir'[s]
BY HoldsNow, HoldsThen

LEMMA HoldsNone ==
  \A s \in Slot, j \in Entry :
    /\ page_dir[s] = None => Holds[<<s, j>>] = None
    /\ page_dir'[s] = None => Holds'[<<s, j>>] = None
BY HoldsNow, HoldsThen

LEMMA HoldsEntry ==
  \A s \in Slot, j \in Entry :
    /\ page_dir[s] # None => Holds[<<s, j>>] = page_tab[page_dir[s]][j]
    /\ page_dir'[s] # None => Holds'[<<s, j>>] = page_tab'[page_dir'[s]][j]
BY HoldsNow, HoldsThen

(* mem_map and the places, as functions: one place gains or loses a page.  *)
Single(h) == \A x, y \in Place : h[x] \in Page /\ h[x] = h[y] => x = y
Exact(mm, h) ==
  \A f \in Page :
    mm[f] = IF \E x \in Place : h[x] = f THEN 1 ELSE IF Marked(f) THEN 0 ELSE NOT_EXIST
SameButAt(h, g, x0) ==
  \A y \in Place : y # x0 => g[y] = h[y] \/ (h[y] \notin Page /\ g[y] \notin Page)

LEMMA Taking ==
  ASSUME NEW mm \in [Page -> 0 .. NOT_EXIST], NEW h, NEW g, NEW x0 \in Place, NEW p \in Page,
         Single(h), Exact(mm, h), mm[p] = 0,
         h[x0] \notin Page, g[x0] = p, SameButAt(h, g, x0)
  PROVE  /\ Single(g) /\ Exact([mm EXCEPT ![p] = @ + 1], g) /\ Marked(p)
         /\ \A x \in Place : h[x] # p
<1>1. Marked(p) /\ \A x \in Place : h[x] # p
  BY DEF Exact, NOT_EXIST
<1>2. \A y \in Place : y # x0 => g[y] # p
  BY <1>1 DEF SameButAt
<1>3. Single(g)
  BY <1>2 DEF Single, SameButAt
<1>4. \A f \in Page : f # p => ((\E x \in Place : g[x] = f) <=> (\E x \in Place : h[x] = f))
  BY DEF SameButAt
<1>5. Exact([mm EXCEPT ![p] = @ + 1], g)
  BY <1>4 DEF Exact
<1> QED BY <1>1, <1>3, <1>5

LEMMA Giving ==
  ASSUME NEW mm \in [Page -> 0 .. NOT_EXIST], NEW h, NEW g, NEW x0 \in Place, NEW p \in Page,
         Single(h), Exact(mm, h), Marked(p),
         h[x0] = p, g[x0] \notin Page, SameButAt(h, g, x0)
  PROVE  Single(g) /\ Exact([mm EXCEPT ![p] = @ - 1], g)
<1>1. mm[p] = 1
  BY DEF Exact
<1>2. \A y \in Place : g[y] # p
  BY DEF SameButAt, Single
<1>3. Single(g)
  BY DEF Single, SameButAt
<1>4. \A f \in Page : f # p => ((\E x \in Place : g[x] = f) <=> (\E x \in Place : h[x] = f))
  BY DEF SameButAt
<1>5. Exact([mm EXCEPT ![p] = @ - 1], g)
  BY <1>1, <1>2, <1>4 DEF Exact
<1> QED BY <1>3, <1>5

LEMMA Keeping ==
  ASSUME NEW mm, NEW h, NEW g, Single(h), Exact(mm, h),
         \A y \in Place : g[y] = h[y] \/ (h[y] \notin Page /\ g[y] \notin Page)
  PROVE  Single(g) /\ Exact(mm, g)
<1>1. \A f \in Page : (\E x \in Place : g[x] = f) <=> (\E x \in Place : h[x] = f)
  OBVIOUS
<1> QED BY <1>1 DEF Single, Exact

-----------------------------------------------------------------------------
(* Types.                                                                  *)
LEMMA MInitType == MInit => MTypeOK
BY Sorts, Tables, MemAssumption DEF MInit, MTypeOK, NOT_EXIST, Calls, Panics

LEMMA TakeType ==
  ASSUME MTypeOK, NEW p \in FreeFrames, Take(p)
  PROVE  p \in Page /\ mem_map' \in [Page -> 0 .. NOT_EXIST]
BY DEF MTypeOK, Take, FreeFrames, NOT_EXIST

LEMMA GiveType ==
  ASSUME MTypeOK, NEW f, Give(f)
  PROVE  f \in Page /\ mem_map' \in [Page -> 0 .. NOT_EXIST]
BY DEF MTypeOK, Give, NOT_EXIST

LEMMA PanicType ==
  ASSUME MTypeOK, NEW m \in Calls \cup Panics, Panic(m)
  PROVE  MTypeOK'
BY DEF MTypeOK, Panic

LEMMA WriteType ==
  ASSUME NEW tab \in [Page -> Table], NEW p, NEW j, NEW v \in Low \cup Page \cup {None}
  PROVE  [tab EXCEPT ![p][j] = v] \in [Page -> Table]
<1>1. ASSUME NEW f \in Page PROVE [tab[f] EXCEPT ![j] = v] \in Table
  BY DEF Table
<1> QED BY <1>1

LEMMA MTypeStep == IInv /\ [MNext]_memVars => MTypeOK'
<1> SUFFICES ASSUME IInv, MTypeOK, [MNext]_memVars PROVE MTypeOK'
  BY DEF IInv
<1>0. next \in Int /\ LastEntry \in Nat /\ {0, LastEntry} \subseteq 0 .. LastEntry + 1
  BY Sorts DEF MTypeOK
<1>1. ASSUME NEW t \in {0} \cup Slot, NEW c \in Slot, Fork(t, c) PROVE MTypeOK'
  <2>1. CASE FreeFrames = {} /\ UNCHANGED <<mem_map, tasks_ptr, page_tab>> /\ pc' = "page directory overwritten"
    BY <1>0, <1>1, <2>1 DEF Fork, MTypeOK, Panics
  <2>2. CASE \E p \in FreeFrames :
               /\ Take(p) /\ tasks_ptr' = [tasks_ptr EXCEPT ![c] = p]
               /\ page_tab' = [page_tab EXCEPT ![p] = Data]
               /\ pc' = IF c = 1 THEN "task1" ELSE "table"
    <3>1. PICK p \in FreeFrames :
               /\ Take(p) /\ tasks_ptr' = [tasks_ptr EXCEPT ![c] = p]
               /\ page_tab' = [page_tab EXCEPT ![p] = Data]
               /\ pc' = IF c = 1 THEN "task1" ELSE "table"
      BY <2>2
    <3>2. p \in Page /\ mem_map' \in [Page -> 0 .. NOT_EXIST]
      BY <3>1, TakeType
    <3> QED BY <1>0, <1>1, <3>1, <3>2, Tables DEF Fork, MTypeOK, Calls
  <2> QED BY <1>1, <2>1, <2>2 DEF Fork
<1>2. CASE InitTask1Paging
  <2>1. CASE Panic("init task1 failed")
    BY <2>1, PanicType DEF Panics
  <2>2. ASSUME NEW p \in FreeFrames, Take(p), page_dir' = [page_dir EXCEPT ![1] = p],
               page_tab' = [page_tab EXCEPT ![p] = Identity], pc' = "user",
               UNCHANGED <<tasks_ptr, dead, current, child, next>>
        PROVE  MTypeOK'
    BY <2>2, TakeType, Tables DEF MTypeOK, Calls
  <2> QED BY <1>2, <2>1, <2>2 DEF InitTask1Paging
<1>3. CASE CopyTable
  <2>1. ASSUME NEW m \in {"destination page dir is present", "source page dir is not present", "undo"}, Panic(m)
        PROVE  MTypeOK'
    BY <2>1, PanicType DEF Panics, Calls
  <2>2. ASSUME NEW p \in FreeFrames, Take(p), page_dir' = [page_dir EXCEPT ![child] = p],
               page_tab' = [page_tab EXCEPT ![p] = Blank], pc' = "copy",
               UNCHANGED <<tasks_ptr, dead, current, child, next>>
        PROVE  MTypeOK'
    BY <2>2, TakeType, Tables DEF MTypeOK, Calls
  <2> QED BY <1>3, <2>1, <2>2 DEF CopyTable
<1>4. CASE CopyEntry
  <2>1. next \in 0 .. LastEntry /\ pc = "copy"
    BY <1>0, <1>4 DEF CopyEntry, IInv, Shape, Phase, MTypeOK
  <2>2. ASSUME AdvanceTo("user") PROVE next' \in 0 .. LastEntry + 1 /\ pc' \in Calls
    BY <1>0, <2>1, <2>2 DEF AdvanceTo, Calls
  <2>3. CASE AdvanceTo("user") /\ UNCHANGED <<mem_map, page_tab>>
    BY <1>4, <2>2, <2>3 DEF CopyEntry, MTypeOK
  <2>4. CASE pc' = "undo" /\ next' = 0 /\ UNCHANGED <<mem_map, page_tab>>
    BY <1>0, <1>4, <2>4 DEF CopyEntry, MTypeOK, Calls
  <2>5. ASSUME NEW p \in FreeFrames, Take(p), AdvanceTo("user"),
               page_tab' = WithCopy(p)
        PROVE  MTypeOK'
    <3>1. p \in Page /\ mem_map' \in [Page -> 0 .. NOT_EXIST]
      BY <2>5, TakeType
    <3>2. \A q \in Page : page_tab[q] \in Table /\ [page_tab[q] EXCEPT ![next] = p] \in Table
      BY <3>1 DEF MTypeOK, Table
    <3>3. Data \in Table
      BY Tables
    <3>4. page_tab' \in [Page -> Table]
      BY <2>5, <3>2, <3>3 DEF WithCopy
    <3> QED BY <1>4, <2>2, <2>5, <3>1, <3>4 DEF CopyEntry, MTypeOK
  <2> QED BY <1>4, <2>3, <2>4, <2>5 DEF CopyEntry
<1>5. CASE FreeEntry
  <2>1. CASE Doomed # None /\ GiveFails(Doomed)
    BY <2>1, PanicType DEF GiveFails, Panics
  <2>2. CASE /\ Doomed = None \/ Give(Doomed)
             /\ Doomed = None => UNCHANGED mem_map
             /\ page_tab' = [page_tab EXCEPT ![page_dir[Victim]][next] = None]
             /\ next' = next + 1
             /\ UNCHANGED <<tasks_ptr, page_dir, dead, current, child, pc>>
    <3>1. mem_map' \in [Page -> 0 .. NOT_EXIST]
      BY <2>2, GiveType DEF MTypeOK
    <3>2. page_tab' \in [Page -> Table]
      BY <2>2, WriteType DEF MTypeOK
    <3>3. next' \in 0 .. LastEntry + 1
      BY <1>0, <1>5, <2>2 DEF FreeEntry, MTypeOK
    <3> QED BY <2>2, <3>1, <3>2, <3>3 DEF MTypeOK
  <2> QED BY <1>5, <2>1, <2>2 DEF FreeEntry
<1>6. CASE FreeTable
  <2>1. CASE GiveFails(page_dir[Victim])
    BY <2>1, PanicType DEF GiveFails, Panics
  <2>2. CASE /\ Give(page_dir[Victim]) /\ page_dir' = [page_dir EXCEPT ![Victim] = None] /\ next' = 0
             /\ UNCHANGED <<tasks_ptr, page_tab, dead, current, child, pc>>
    BY <1>0, <2>2, GiveType DEF MTypeOK
  <2> QED BY <1>6, <2>1, <2>2 DEF FreeTable
<1>7. CASE FreeTask
  <2>1. CASE GiveFails(tasks_ptr[child])
    BY <2>1, PanicType DEF GiveFails, Panics
  <2>2. CASE /\ Give(tasks_ptr[child]) /\ tasks_ptr' = [tasks_ptr EXCEPT ![child] = None] /\ pc' = "user"
             /\ UNCHANGED <<page_dir, page_tab, dead, current, child, next>>
    BY <1>0, <2>2, GiveType DEF MTypeOK, Calls
  <2> QED BY <1>7, <2>1, <2>2 DEF FreeTask
<1>8. CASE EndExit
  BY <1>8 DEF EndExit, MTypeOK, Calls, IInv, Shape, Phase
<1>9. ASSUME NEW t \in Slot, Exit(t) PROVE MTypeOK'
  BY <1>0, <1>9 DEF Exit, MTypeOK, Calls
<1>10. CASE UNCHANGED memVars
  BY <1>10 DEF memVars, MTypeOK
<1> QED BY <1>1, <1>2, <1>3, <1>4, <1>5, <1>6, <1>7, <1>8, <1>9, <1>10 DEF MNext

-----------------------------------------------------------------------------
LEMMA MInitIInv == MInit => IInv
<1> SUFFICES ASSUME MInit PROVE IInv
  OBVIOUS
<1>1. \A x \in Place : Holds[x] = None
  <2>1. \A s \in Slot : tasks_ptr[s] = None /\ page_dir[s] = None
    BY DEF MInit
  <2>2. \A s \in Slot, j \in Entry : Holds[<<s, j>>] = None
    BY <2>1, HoldsNow
  <2>3. \A s \in Slot : Holds[<<s, TheTask>>] = None /\ Holds[<<s, TheTable>>] = None
    BY <2>1, HoldsNow
  <2> QED BY <2>2, <2>3, Places, ZenonT(40)
<1>2. \A x \in Place : Holds[x] \notin Low \cup Page
  BY <1>1, Sorts
<1>3. OnePurpose /\ HeldAreMarked
  BY <1>2 DEF OnePurpose, HeldAreMarked
<1>4. MapIsExact
  BY <1>2 DEF MapIsExact, MInit
<1>5. LowIsTaskOnes
  BY <1>2, Places DEF LowIsTaskOnes
<1> QED BY <1>3, <1>4, <1>5, MInitType
        DEF IInv, MInit, OnlyKnownPanics, Shape, TaskOneFirst, TablesHaveTasks, DeadHaveTasks,
            LiveHaveTables, Phase, Freeing

(* The three ways a step changes what the places hold.                     *)
LEMMA TakeStep ==
  ASSUME IInv, NEW p \in FreeFrames, Take(p), NEW x0 \in Place,
         Holds[x0] \notin Page, Holds'[x0] = p, SameButAt(Holds, Holds', x0)
  PROVE  OnePurpose' /\ MapIsExact' /\ HeldAreMarked'
<1>1. mem_map \in [Page -> 0 .. NOT_EXIST] /\ Single(Holds) /\ Exact(mem_map, Holds)
  BY DEF IInv, MTypeOK, OnePurpose, MapIsExact, Single, Exact
<1>2. p \in Page /\ mem_map[p] = 0 /\ mem_map' = [mem_map EXCEPT ![p] = @ + 1]
  BY DEF FreeFrames, Take
<1>3. Single(Holds') /\ Exact(mem_map', Holds') /\ Marked(p)
  BY <1>1, <1>2, Taking
<1>4. HeldAreMarked'
  BY <1>3 DEF IInv, Shape, HeldAreMarked, SameButAt, Marked
<1> QED BY <1>3, <1>4 DEF OnePurpose, MapIsExact, Single, Exact, Marked

LEMMA GiveStep ==
  ASSUME IInv, NEW x0 \in Place, Give(Holds[x0]), Holds'[x0] \notin Page,
         SameButAt(Holds, Holds', x0)
  PROVE  OnePurpose' /\ MapIsExact' /\ HeldAreMarked'
<1> DEFINE p == Holds[x0]
<1>1. mem_map \in [Page -> 0 .. NOT_EXIST] /\ Single(Holds) /\ Exact(mem_map, Holds)
  BY DEF IInv, MTypeOK, OnePurpose, MapIsExact, Single, Exact
<1>2. p \in Page /\ mem_map' = [mem_map EXCEPT ![p] = @ - 1] /\ Marked(p)
  BY DEF Give, IInv, Shape, HeldAreMarked
<1> HIDE DEF p
<1>3. p = Holds[x0]
  BY DEF p
<1>4. Single(Holds') /\ Exact(mem_map', Holds')
  BY <1>1, <1>2, <1>3, Giving
<1>5. HeldAreMarked'
  BY DEF IInv, Shape, HeldAreMarked, SameButAt, Marked
<1> QED BY <1>4, <1>5 DEF OnePurpose, MapIsExact, Single, Exact, Marked

LEMMA KeepStep ==
  ASSUME IInv, UNCHANGED mem_map,
         \A y \in Place : Holds'[y] = Holds[y] \/ (Holds[y] \notin Page /\ Holds'[y] \notin Page)
  PROVE  OnePurpose' /\ MapIsExact' /\ HeldAreMarked'
<1>1. Single(Holds') /\ Exact(mem_map', Holds')
  BY Keeping DEF IInv, OnePurpose, MapIsExact, Single, Exact
<1>2. HeldAreMarked'
  BY DEF IInv, Shape, HeldAreMarked, Marked
<1> QED BY <1>1, <1>2 DEF OnePurpose, MapIsExact, Single, Exact, Marked

(* What is held is in use once, and what is free is not held.              *)
LEMMA FreeNotHeld ==
  ASSUME IInv, NEW p \in FreeFrames
  PROVE  p \in Page /\ \A s \in Slot : page_dir[s] # p
<1>1. p \in Page /\ \A x \in Place : Holds[x] # p
  BY DEF FreeFrames, IInv, MapIsExact
<1> QED BY <1>1, Places, HoldsNow, ZenonT(40)

LEMMA HeldInUse ==
  ASSUME IInv, NEW x \in Place, NEW f, Holds[x] = f, f \in Page
  PROVE  ~GiveFails(f)
<1>1. mem_map[f] = 1
  BY DEF IInv, MapIsExact
<1>2. mem_map[f] # 0
  BY <1>1
<1> QED BY <1>2, Zenon DEF GiveFails

(* Equality of the places, slot by slot.                                   *)
LEMMA SameEntries ==
  ASSUME NEW s \in Slot, page_dir'[s] = page_dir[s],
         page_dir[s] # None => page_tab'[page_dir[s]] = page_tab[page_dir[s]]
  PROVE  \A j \in Entry : Holds'[<<s, j>>] = Holds[<<s, j>>]
<1> SUFFICES ASSUME NEW j \in Entry PROVE Holds'[<<s, j>>] = Holds[<<s, j>>]
  OBVIOUS
<1>1. Holds[<<s, j>>] = IF page_dir[s] = None THEN None ELSE page_tab[page_dir[s]][j]
  BY HoldsNow
<1>2. Holds'[<<s, j>>] = IF page_dir'[s] = None THEN None ELSE page_tab'[page_dir'[s]][j]
  BY HoldsThen
<1> QED BY <1>1, <1>2

LEMMA SamePlaces ==
  ASSUME NEW x0,
         \A s \in Slot : \/ <<s, TheTask>> = x0
                         \/ tasks_ptr'[s] = tasks_ptr[s],
         \A s \in Slot : \/ <<s, TheTable>> = x0
                         \/ page_dir'[s] = page_dir[s],
         \A s \in Slot, j \in Entry :
           \/ <<s, j>> = x0
           \/ Holds'[<<s, j>>] = Holds[<<s, j>>]
           \/ Holds[<<s, j>>] \notin Page /\ Holds'[<<s, j>>] \notin Page
  PROVE  SameButAt(Holds, Holds', x0)
<1> SUFFICES ASSUME NEW y \in Place, y # x0
             PROVE  Holds'[y] = Holds[y] \/ (Holds[y] \notin Page /\ Holds'[y] \notin Page)
  BY DEF SameButAt
<1>1. PICK s \in Slot : y = <<s, TheTask>> \/ y = <<s, TheTable>> \/ \E j \in Entry : y = <<s, j>>
  BY Places
<1>2. CASE y = <<s, TheTask>>
  BY <1>2, HoldsNow, HoldsThen, ZenonT(40)
<1>3. CASE y = <<s, TheTable>>
  BY <1>3, HoldsNow, HoldsThen, ZenonT(40)
<1>4. CASE \E j \in Entry : y = <<s, j>>
  BY <1>4
<1> QED BY <1>1, <1>2, <1>3, <1>4

-----------------------------------------------------------------------------
(* One lemma per action.                                                   *)
LEMMA UnchangedPlaces ==
  ASSUME UNCHANGED tasks_ptr, UNCHANGED page_dir, UNCHANGED page_tab
  PROVE  Holds' = Holds
BY DEF Holds

LEMMA PanicStep ==
  ASSUME IInv, MTypeOK',
         UNCHANGED mem_map, UNCHANGED tasks_ptr, UNCHANGED page_dir, UNCHANGED page_tab, UNCHANGED dead,
         pc' \in {"page directory overwritten", "init task1 failed", "free addr < 1MB"},
         pc' = "free addr < 1MB" => current' = 1
  PROVE  IInv'
<1>1. Holds' = Holds
  BY UnchangedPlaces
<1>2. OnePurpose' /\ MapIsExact' /\ HeldAreMarked'
  BY <1>1, KeepStep
<1>3. OnlyKnownPanics' /\ LiveHaveTables' /\ Phase'
  BY DEF OnlyKnownPanics, LiveHaveTables, Phase, Freeing, Calls
<1>4. TaskOneFirst' /\ TablesHaveTasks' /\ DeadHaveTasks' /\ LowIsTaskOnes'
  BY <1>1 DEF IInv, Shape, TaskOneFirst, TablesHaveTasks, DeadHaveTasks, LowIsTaskOnes
<1> QED BY <1>2, <1>3, <1>4 DEF IInv, Shape

LEMMA ForkStep ==
  ASSUME IInv, MTypeOK', NEW t \in {0} \cup Slot, NEW c \in Slot, Fork(t, c)
  PROVE  IInv'
<1>1. CASE FreeFrames = {} /\ UNCHANGED <<mem_map, tasks_ptr, page_tab>> /\ pc' = "page directory overwritten"
  BY <1>1, PanicStep DEF Fork
<1>2. ASSUME NEW p \in FreeFrames, Take(p), tasks_ptr' = [tasks_ptr EXCEPT ![c] = p],
             page_tab' = [page_tab EXCEPT ![p] = Data], pc' = IF c = 1 THEN "task1" ELSE "table"
      PROVE  IInv'
  <2>1. /\ tasks_ptr[c] = None /\ page_dir[c] = None /\ c \notin dead
        /\ pc = "user" /\ child' = c /\ current' = t /\ next' = 0 /\ UNCHANGED <<page_dir, dead>>
    BY <1>2 DEF Fork, IsNextSlot, IInv, Shape, TablesHaveTasks, DeadHaveTasks
  <2>2. /\ p \in Page /\ \A s \in Slot : page_dir[s] # p
        /\ tasks_ptr \in [Slot -> Page \cup {None}] /\ page_dir \in [Slot -> Page \cup {None}]
        /\ page_tab \in [Page -> Table]
    BY FreeNotHeld DEF IInv, MTypeOK
  <2>3. \A s \in Slot, j \in Entry : Holds'[<<s, j>>] = Holds[<<s, j>>]
    <3>1. \A s \in Slot : page_dir[s] # None => page_tab'[page_dir[s]] = page_tab[page_dir[s]]
      BY <1>2, <2>2
    <3> QED BY <2>1, <3>1, SameEntries
  <2>4. OnePurpose' /\ MapIsExact' /\ HeldAreMarked'
    <3>1. <<c, TheTask>> \in Place /\ Holds[<<c, TheTask>>] \notin Page /\ Holds'[<<c, TheTask>>] = p
      <4>1. tasks_ptr'[c] = p
        BY <1>2, <2>2
      <4> QED BY <2>1, <4>1, HoldsTask, Places, Sorts
    <3>2. SameButAt(Holds, Holds', <<c, TheTask>>)
      BY <1>2, <2>1, <2>2, <2>3, SamePlaces
    <3> QED BY <1>2, <3>1, <3>2, TakeStep
  <2>5. c # 1 => tasks_ptr[1] # None
    <3>1. tasks_ptr[1] = None => c <= 1
      BY <1>2, Sorts DEF Fork, IsNextSlot
    <3> QED BY <3>1 DEF Slot
  <2>6. c = 1 => \A s \in Slot : tasks_ptr[s] = None
    BY <2>1 DEF IInv, Shape, TaskOneFirst
  <2>7. t # 0 => t \in Slot \ dead /\ tasks_ptr[t] # None /\ page_dir[t] # None /\ t # c
    BY <2>1 DEF Fork, Runs, IInv, Shape, LiveHaveTables, Half, Calls
  <2>8. t # 0 => c # 1
    BY <2>6, <2>7
  <2>9. t = 0 => c = 1
    BY DEF Fork
  <2>10. p # None
    BY <2>2, Sorts
  <2>11. TaskOneFirst'
    BY <1>2, <2>2, <2>5, <2>10, Sorts DEF TaskOneFirst
  <2>12. TablesHaveTasks' /\ DeadHaveTasks' /\ LowIsTaskOnes'
    BY <1>2, <2>1, <2>2, <2>3, <2>10 DEF IInv, Shape, TablesHaveTasks, DeadHaveTasks, LowIsTaskOnes, MTypeOK
  <2>13. LiveHaveTables'
    BY <1>2, <2>1, <2>2 DEF IInv, Shape, LiveHaveTables, Half, Calls
  <2>14. Phase'
    BY <1>2, <2>1, <2>2, <2>7, <2>8, <2>9, <2>10 DEF Phase, Freeing
  <2>15. OnlyKnownPanics'
    BY <1>2 DEF OnlyKnownPanics
  <2> QED BY <2>4, <2>11, <2>12, <2>13, <2>14, <2>15 DEF IInv, Shape
<1>3. \/ FreeFrames = {} /\ UNCHANGED <<mem_map, tasks_ptr, page_tab>> /\ pc' = "page directory overwritten"
      \/ \E p \in FreeFrames : /\ Take(p) /\ tasks_ptr' = [tasks_ptr EXCEPT ![c] = p]
                               /\ page_tab' = [page_tab EXCEPT ![p] = Data]
                               /\ pc' = IF c = 1 THEN "task1" ELSE "table"
  BY DEF Fork
<1> QED BY <1>1, <1>2, <1>3

LEMMA Task1Step == IInv /\ MTypeOK' /\ InitTask1Paging => IInv'
<1> SUFFICES ASSUME IInv, MTypeOK', InitTask1Paging PROVE IInv'
  OBVIOUS
<1>1. CASE Panic("init task1 failed")
  BY <1>1, PanicStep DEF Panic
<1>2. ASSUME NEW p \in FreeFrames, Take(p), page_dir' = [page_dir EXCEPT ![1] = p],
             page_tab' = [page_tab EXCEPT ![p] = Identity], pc' = "user",
             UNCHANGED <<tasks_ptr, dead, current, child, next>>
      PROVE  IInv'
  <2>1. pc = "task1" /\ child = 1 /\ page_dir[1] = None /\ tasks_ptr[1] # None
    BY DEF InitTask1Paging, IInv, Shape, Phase
  <2>2. /\ p \in Page /\ \A s \in Slot : page_dir[s] # p
        /\ page_dir \in [Slot -> Page \cup {None}] /\ page_tab \in [Page -> Table]
    BY FreeNotHeld DEF IInv, MTypeOK
  <2>3. \A s \in Slot \ {1}, j \in Entry : Holds'[<<s, j>>] = Holds[<<s, j>>]
    <3>1. \A s \in Slot \ {1} :
            /\ page_dir'[s] = page_dir[s]
            /\ page_dir[s] # None => page_tab'[page_dir[s]] = page_tab[page_dir[s]]
      BY <1>2, <2>2
    <3> QED BY <3>1, SameEntries
  <2>4. \A j \in Entry : Holds[<<1, j>>] = None /\ Holds'[<<1, j>>] = Identity[j]
    <3>1. page_dir'[1] = p /\ p # None /\ page_tab'[p] = Identity
      BY <1>2, <2>2, Sorts
    <3> QED BY <2>1, <3>1, HoldsNone, HoldsEntry, Sorts
  <2>5. \A j \in Entry : Identity[j] \notin Page
    BY Sorts DEF Identity
  <2>6. OnePurpose' /\ MapIsExact' /\ HeldAreMarked'
    <3>1. <<1, TheTable>> \in Place /\ Holds[<<1, TheTable>>] \notin Page /\ Holds'[<<1, TheTable>>] = p
      BY <1>2, <2>1, <2>2, HoldsNow, HoldsThen, Places, Sorts, ZenonT(40)
    <3>2. \A s \in Slot : <<s, TheTable>> = <<1, TheTable>> \/ page_dir'[s] = page_dir[s]
      BY <1>2, <2>2
    <3>3. \A s \in Slot, j \in Entry :
            \/ Holds'[<<s, j>>] = Holds[<<s, j>>]
            \/ Holds[<<s, j>>] \notin Page /\ Holds'[<<s, j>>] \notin Page
      BY <2>3, <2>4, <2>5, Sorts
    <3>4. SameButAt(Holds, Holds', <<1, TheTable>>)
      BY <1>2, <3>2, <3>3, SamePlaces
    <3> QED BY <1>2, <3>1, <3>4, TakeStep
  <2>7. TaskOneFirst' /\ TablesHaveTasks' /\ DeadHaveTasks' /\ LowIsTaskOnes'
    BY <1>2, <2>1, <2>2, <2>3 DEF IInv, Shape, TaskOneFirst, TablesHaveTasks, DeadHaveTasks, LowIsTaskOnes
  <2>8. LiveHaveTables'
    BY <1>2, <2>1, <2>2, Sorts DEF IInv, Shape, LiveHaveTables, Half, Calls
  <2>9. Phase' /\ OnlyKnownPanics'
    BY <1>2 DEF Phase, Freeing, OnlyKnownPanics
  <2> QED BY <2>6, <2>7, <2>8, <2>9 DEF IInv, Shape
<1> QED BY <1>1, <1>2 DEF InitTask1Paging

LEMMA CopyTableStep == IInv /\ MTypeOK' /\ CopyTable => IInv'
<1> SUFFICES ASSUME IInv, MTypeOK', CopyTable PROVE IInv'
  OBVIOUS
<1>1. /\ pc = "table" /\ child \in Slot \ {1} /\ page_dir[child] = None /\ tasks_ptr[child] # None
      /\ child \notin dead /\ current \in Slot /\ page_dir[current] # None /\ current # child
  BY DEF CopyTable, IInv, Shape, Phase, MTypeOK
<1>2. CASE Panic("undo")
  <2>1. Holds' = Holds
    BY <1>2, UnchangedPlaces DEF Panic
  <2>2. OnePurpose' /\ MapIsExact' /\ HeldAreMarked'
    BY <1>2, <2>1, KeepStep DEF Panic
  <2>3. TaskOneFirst' /\ TablesHaveTasks' /\ DeadHaveTasks' /\ LowIsTaskOnes'
    BY <1>2, <2>1 DEF Panic, IInv, Shape, TaskOneFirst, TablesHaveTasks, DeadHaveTasks, LowIsTaskOnes
  <2>4. LiveHaveTables' /\ Phase' /\ OnlyKnownPanics'
    BY <1>1, <1>2 DEF Panic, IInv, Shape, LiveHaveTables, Half, Calls, Phase, Freeing, Victim, OnlyKnownPanics
  <2> QED BY <2>2, <2>3, <2>4 DEF IInv, Shape
<1>3. ASSUME NEW p \in FreeFrames, Take(p), page_dir' = [page_dir EXCEPT ![child] = p],
             page_tab' = [page_tab EXCEPT ![p] = Blank], pc' = "copy", next' = 0 \/ next' = next,
             UNCHANGED <<tasks_ptr, dead, current, child>>
      PROVE  IInv'
  <2>1. /\ p \in Page /\ \A s \in Slot : page_dir[s] # p
        /\ page_dir \in [Slot -> Page \cup {None}] /\ page_tab \in [Page -> Table]
    BY FreeNotHeld DEF IInv, MTypeOK
  <2>2. \A s \in Slot, j \in Entry : Holds'[<<s, j>>] = Holds[<<s, j>>]
    <3>1. \A s \in Slot \ {child} :
            /\ page_dir'[s] = page_dir[s]
            /\ page_dir[s] # None => page_tab'[page_dir[s]] = page_tab[page_dir[s]]
      BY <1>1, <1>3, <2>1
    <3>2. page_dir'[child] = p /\ p # None /\ page_tab'[p] = Blank
      BY <1>1, <1>3, <2>1, Sorts
    <3>3. \A j \in Entry : Holds'[<<child, j>>] = None /\ Holds[<<child, j>>] = None
      <4>1. \A j \in Entry : Blank[j] = None
        BY DEF Blank
      <4> QED BY <1>1, <3>2, <4>1, HoldsNone, HoldsEntry
    <3> QED BY <3>1, <3>3, SameEntries
  <2>3. OnePurpose' /\ MapIsExact' /\ HeldAreMarked'
    <3>1. page_dir'[child] = p
      BY <1>1, <1>3, <2>1
    <3>2. <<child, TheTable>> \in Place /\ Holds[<<child, TheTable>>] \notin Page
          /\ Holds'[<<child, TheTable>>] = p
      BY <1>1, <3>1, HoldsTable, Places, Sorts
    <3>3. \A s \in Slot : <<s, TheTable>> = <<child, TheTable>> \/ page_dir'[s] = page_dir[s]
      BY <1>3, <2>1
    <3>4. SameButAt(Holds, Holds', <<child, TheTable>>)
      BY <1>3, <2>2, <3>3, SamePlaces
    <3> QED BY <1>3, <3>2, <3>4, TakeStep
  <2>4. TaskOneFirst' /\ TablesHaveTasks' /\ DeadHaveTasks' /\ LowIsTaskOnes'
    BY <1>1, <1>3, <2>1, <2>2 DEF IInv, Shape, TaskOneFirst, TablesHaveTasks, DeadHaveTasks, LowIsTaskOnes
  <2>5. p # None
    BY <2>1, Sorts
  <2>6. LiveHaveTables'
    BY <1>1, <1>3, <2>1, <2>5 DEF IInv, Shape, LiveHaveTables, Half, Calls
  <2>7. next' = 0 /\ 0 <= LastEntry
    BY <1>1, <1>3, Sorts DEF IInv, Shape, Phase
  <2>8. Phase' /\ OnlyKnownPanics'
    BY <1>1, <1>3, <2>1, <2>5, <2>7 DEF Phase, Freeing, Blank, OnlyKnownPanics
  <2> QED BY <2>3, <2>4, <2>6, <2>8 DEF IInv, Shape
<1> QED BY <1>1, <1>2, <1>3 DEF CopyTable

LEMMA CopyEntryStep == IInv /\ MTypeOK' /\ CopyEntry => IInv'
<1> SUFFICES ASSUME IInv, MTypeOK', CopyEntry PROVE IInv'
  OBVIOUS
<1> DEFINE D == page_dir[child]
<1>1. /\ pc = "copy" /\ child \in Slot \ {1} /\ page_dir[child] # None /\ tasks_ptr[child] # None
      /\ child \notin dead /\ current \in Slot /\ page_dir[current] # None /\ current # child
  BY DEF CopyEntry, IInv, Shape, Phase, MTypeOK
<1>2. /\ next \in Entry /\ page_dir \in [Slot -> Page \cup {None}] /\ page_tab \in [Page -> Table]
      /\ \A j \in Entry : j >= next => page_tab[D][j] = None
  BY <1>1 DEF IInv, Shape, Phase, MTypeOK, Entry
<1>3. UNCHANGED tasks_ptr /\ UNCHANGED page_dir /\ UNCHANGED dead /\ UNCHANGED current /\ UNCHANGED child
  BY DEF CopyEntry
<1>4. \A s \in Slot : s # child => page_dir[s] # D
  <2> SUFFICES ASSUME NEW s \in Slot, page_dir[s] = D PROVE s = child
    OBVIOUS
  <2>1. Holds[<<s, TheTable>>] \in Page /\ Holds[<<s, TheTable>>] = Holds[<<child, TheTable>>]
    BY <1>1, <1>2, HoldsTable
  <2>2. <<s, TheTable>> = <<child, TheTable>>
    BY <1>1, <2>1, Places DEF IInv, OnePurpose
  <2> QED BY <2>2
<1>5. TaskOneFirst' /\ TablesHaveTasks' /\ DeadHaveTasks'
  BY <1>3 DEF IInv, Shape, TaskOneFirst, TablesHaveTasks, DeadHaveTasks
<1>6. ASSUME pc' \in {"user", "copy", "undo"} PROVE LiveHaveTables' /\ OnlyKnownPanics'
  BY <1>1, <1>3, <1>6 DEF IInv, Shape, LiveHaveTables, Half, OnlyKnownPanics, Calls
<1>7. AdvanceTo("user") => \/ pc' = "user"
                           \/ pc' = "copy" /\ next' = next + 1 /\ next' <= LastEntry
  BY <1>1, <1>2, Sorts DEF AdvanceTo, Entry
<1>8. ASSUME UNCHANGED mem_map, UNCHANGED page_tab, AdvanceTo("user") \/ (pc' = "undo" /\ next' = 0)
      PROVE  IInv'
  <2>1. Holds' = Holds
    BY <1>3, <1>8, UnchangedPlaces
  <2>2. OnePurpose' /\ MapIsExact' /\ HeldAreMarked'
    BY <1>8, <2>1, KeepStep
  <2>3. LowIsTaskOnes'
    BY <2>1 DEF IInv, Shape, LowIsTaskOnes
  <2>4. Phase'
    <3>1. CASE pc' = "user"
      BY <3>1 DEF Phase, Freeing
    <3>2. CASE pc' = "copy" /\ next' = next + 1 /\ next' <= LastEntry
      BY <1>1, <1>2, <1>3, <1>8, <3>2, Sorts DEF Phase, Freeing
    <3>3. CASE pc' = "undo" /\ next' = 0
      <4>1. \A j \in Entry : ~(j < next')
        BY <3>3, Sorts
      <4> QED BY <1>1, <1>3, <3>3, <4>1 DEF Phase
    <3> QED BY <1>7, <1>8, <3>1, <3>2, <3>3
  <2> QED BY <1>5, <1>6, <1>7, <1>8, <2>2, <2>3, <2>4 DEF IInv, Shape
<1>9. ASSUME NEW p \in FreeFrames, Take(p), AdvanceTo("user"),
             page_tab' = WithCopy(p)
      PROVE  IInv'
  <2>1. p \in Page /\ p # None /\ p \notin Low /\ \A s \in Slot : page_dir[s] # p
    BY FreeNotHeld, Sorts
  <2>2. /\ \A f \in Page : f # p /\ f # D => page_tab'[f] = page_tab[f]
        /\ page_tab'[D][next] = p
        /\ \A j \in Entry : j # next => page_tab'[D][j] = page_tab[D][j]
    <3>1. D \in Page /\ D # p /\ page_tab[D] \in Table
      BY <1>1, <1>2, <2>1
    <3>2. page_tab'[D] = [page_tab[D] EXCEPT ![next] = p]
      BY <1>2, <1>9, <2>1, <3>1 DEF WithCopy
    <3>3. page_tab'[D][next] = p /\ \A j \in Entry : j # next => page_tab'[D][j] = page_tab[D][j]
      BY <1>2, <3>1, <3>2 DEF Table
    <3>4. \A f \in Page : f # p /\ f # D => page_tab'[f] = page_tab[f]
      BY <1>2, <1>9, <2>1, <3>1 DEF WithCopy
    <3> QED BY <3>3, <3>4
  <2>3. \A s \in Slot, j \in Entry : <<s, j>> # <<child, next>> => Holds'[<<s, j>>] = Holds[<<s, j>>]
    <3>1. ASSUME NEW s \in Slot, s # child PROVE \A j \in Entry : Holds'[<<s, j>>] = Holds[<<s, j>>]
      <4>1. page_dir'[s] = page_dir[s]
        BY <1>3
      <4>2. page_dir[s] # None => page_tab'[page_dir[s]] = page_tab[page_dir[s]]
        BY <1>2, <1>4, <2>1, <2>2, <3>1
      <4> QED BY <4>1, <4>2, SameEntries
    <3>2. \A j \in Entry : j # next => Holds'[<<child, j>>] = Holds[<<child, j>>]
      BY <1>1, <1>3, <2>2, HoldsEntry
    <3> QED BY <3>1, <3>2
  <2>4. Holds[<<child, next>>] = None /\ Holds'[<<child, next>>] = p
    BY <1>1, <1>2, <1>3, <2>2, HoldsEntry, Sorts
  <2>5. OnePurpose' /\ MapIsExact' /\ HeldAreMarked'
    <3>1. <<child, next>> \in Place /\ None \notin Page
      BY <1>1, <1>2, Places, Sorts
    <3>2. SameButAt(Holds, Holds', <<child, next>>)
      BY <1>3, <2>3, SamePlaces
    <3> QED BY <1>9, <2>4, <3>1, <3>2, TakeStep
  <2>6. LowIsTaskOnes'
    BY <2>1, <2>3, <2>4 DEF IInv, Shape, LowIsTaskOnes
  <2>7. Phase'
    <3>1. CASE pc' = "user"
      BY <3>1 DEF Phase, Freeing
    <3>2. CASE pc' = "copy" /\ next' = next + 1 /\ next' <= LastEntry
      <4>1. \A j \in Entry : j >= next' => page_tab'[D][j] = None
        BY <1>2, <2>2, <3>2, Sorts
      <4> QED BY <1>1, <1>3, <3>2, <4>1 DEF Phase, Freeing
    <3> QED BY <1>7, <1>9, <3>1, <3>2
  <2> QED BY <1>5, <1>6, <1>7, <1>9, <2>5, <2>6, <2>7 DEF IInv, Shape
<1>10. \/ AdvanceTo("user") /\ UNCHANGED mem_map /\ UNCHANGED page_tab
       \/ pc' = "undo" /\ next' = 0 /\ UNCHANGED mem_map /\ UNCHANGED page_tab
       \/ \E p \in FreeFrames :
            /\ Take(p) /\ AdvanceTo("user")
            /\ page_tab' = WithCopy(p)
  BY DEF CopyEntry
<1> QED BY <1>8, <1>9, <1>10

(* Who is taken down, and what the loop knows of it.                       *)
LEMMA Victims ==
  ASSUME IInv, Freeing
  PROVE  /\ Victim \in Slot /\ page_dir[Victim] \in Page /\ tasks_ptr[Victim] # None
         /\ Victim \notin dead /\ (pc = "undo" => Victim # 1) /\ (pc = "exit" => Victim = current)
         /\ \A j \in Entry : j < next => page_tab[page_dir[Victim]][j] = None
         /\ \A s \in Slot : s # Victim => page_dir[s] # page_dir[Victim]
<1>1. /\ Victim \in Slot /\ page_dir[Victim] \in Page /\ tasks_ptr[Victim] # None
      /\ Victim \notin dead /\ (pc = "undo" => Victim # 1) /\ (pc = "exit" => Victim = current)
      /\ \A j \in Entry : j < next => page_tab[page_dir[Victim]][j] = None
  BY DEF Freeing, Victim, IInv, MTypeOK, Shape, Phase
<1>2. ASSUME NEW s \in Slot, page_dir[s] = page_dir[Victim] PROVE s = Victim
  <2>1. Holds[<<s, TheTable>>] \in Page /\ Holds[<<s, TheTable>>] = Holds[<<Victim, TheTable>>]
    BY <1>1, <1>2, HoldsTable
  <2>2. <<s, TheTable>> = <<Victim, TheTable>>
    BY <1>1, <2>1, Places DEF IInv, OnePurpose
  <2> QED BY <2>2
<1> QED BY <1>1, <1>2

LEMMA FreeEntryStep == IInv /\ MTypeOK' /\ FreeEntry => IInv'
<1> SUFFICES ASSUME IInv, MTypeOK', FreeEntry PROVE IInv'
  OBVIOUS
<1> DEFINE V == Victim
           D == page_dir[Victim]
           x0 == <<Victim, next>>
<1>1. /\ V \in Slot /\ D \in Page /\ next \in Entry /\ pc \in {"undo", "exit"}
      /\ (pc = "undo" => V # 1) /\ (pc = "exit" => V = current)
      /\ \A s \in Slot : s # V => page_dir[s] # D
      /\ \A j \in Entry : j < next => page_tab[D][j] = None
  BY Victims DEF FreeEntry, Freeing, IInv, MTypeOK, Entry
<1>2. /\ x0 \in Place /\ Holds[x0] = Doomed /\ Doomed \in Low \cup Page \cup {None}
      /\ page_dir \in [Slot -> Page \cup {None}] /\ page_tab \in [Page -> Table]
  <2>1. page_dir[V] # None
    BY <1>1, Sorts
  <2>2. page_tab[D] \in Table
    BY <1>1 DEF IInv, MTypeOK
  <2> QED BY <1>1, <2>1, <2>2, Places, HoldsEntry DEF Doomed, Table, IInv, MTypeOK
<1>3. CASE Doomed # None /\ GiveFails(Doomed)
  <2>1. Doomed \notin Page
    <3> HIDE DEF x0
    <3> QED BY <1>2, <1>3, HeldInUse
  <2>2. Doomed \in Low
    BY <1>2, <1>3, <2>1
  <2>3. V = 1
    BY <1>1, <1>2, <2>2 DEF IInv, Shape, LowIsTaskOnes
  <2>4. current = 1
    BY <1>1, <2>3
  <2> QED BY <1>3, <2>1, <2>4, PanicStep DEF GiveFails, Panic
<1>4. ASSUME Doomed = None \/ Give(Doomed), Doomed = None => UNCHANGED mem_map,
             page_tab' = [page_tab EXCEPT ![page_dir[Victim]][next] = None], next' = next + 1,
             UNCHANGED <<tasks_ptr, page_dir, dead, current, child, pc>>
      PROVE  IInv'
  <2>1. /\ \A f \in Page : f # D => page_tab'[f] = page_tab[f]
        /\ page_tab'[D][next] = None
        /\ \A j \in Entry : j # next => page_tab'[D][j] = page_tab[D][j]
    <3>1. page_tab'[D] = [page_tab[D] EXCEPT ![next] = None] /\ page_tab[D] \in Table
      BY <1>1, <1>2, <1>4
    <3>2. page_tab'[D][next] = None /\ \A j \in Entry : j # next => page_tab'[D][j] = page_tab[D][j]
      BY <1>1, <3>1 DEF Table
    <3> QED BY <1>1, <1>2, <1>4, <3>2
  <2>2. UNCHANGED tasks_ptr /\ UNCHANGED page_dir /\ Victim' = Victim
    BY <1>4 DEF Victim
  <2>3. \A s \in Slot, j \in Entry : <<s, j>> # x0 => Holds'[<<s, j>>] = Holds[<<s, j>>]
    <3>1. ASSUME NEW s \in Slot, s # V PROVE \A j \in Entry : Holds'[<<s, j>>] = Holds[<<s, j>>]
      <4>1. page_dir[s] # None => page_tab'[page_dir[s]] = page_tab[page_dir[s]]
        BY <1>1, <1>2, <2>1, <3>1
      <4> QED BY <2>2, <4>1, SameEntries
    <3>2. \A j \in Entry : j # next => Holds'[<<V, j>>] = Holds[<<V, j>>]
      BY <1>1, <2>1, <2>2, HoldsEntry, Sorts
    <3> QED BY <3>1, <3>2
  <2>4. Holds'[x0] = None
    BY <1>1, <2>1, <2>2, HoldsEntry, Sorts
  <2>5. SameButAt(Holds, Holds', x0)
    BY <2>2, <2>3, SamePlaces
  <2>6. OnePurpose' /\ MapIsExact' /\ HeldAreMarked'
    <3>1. CASE Doomed = None
      <4>1. \A y \in Place : Holds'[y] = Holds[y] \/ (Holds[y] \notin Page /\ Holds'[y] \notin Page)
        BY <1>2, <2>4, <2>5, <3>1 DEF SameButAt
      <4> QED BY <1>4, <3>1, <4>1, KeepStep
    <3>2. CASE Give(Doomed)
      <4>1. x0 \in Place /\ Give(Holds[x0]) /\ Holds'[x0] \notin Page
        BY <1>2, <2>4, <3>2, Sorts
      <4> HIDE DEF x0
      <4> QED BY <2>5, <4>1, GiveStep
    <3> QED BY <1>4, <3>1, <3>2
  <2>7. LowIsTaskOnes'
    BY <2>3, <2>4, Sorts DEF IInv, Shape, LowIsTaskOnes
  <2>8. TaskOneFirst' /\ TablesHaveTasks' /\ DeadHaveTasks' /\ LiveHaveTables' /\ OnlyKnownPanics'
    BY <1>4 DEF IInv, Shape, TaskOneFirst, TablesHaveTasks, DeadHaveTasks, LiveHaveTables, Half, OnlyKnownPanics
  <2>9. \A j \in Entry : j < next' => page_tab'[page_dir[Victim]][j] = None
    BY <1>1, <1>4, <2>1, Sorts
  <2>10. Phase'
    BY <1>1, <1>4, <2>2, <2>9 DEF IInv, Shape, Phase
  <2> QED BY <2>6, <2>7, <2>8, <2>10 DEF IInv, Shape
<1> QED BY <1>3, <1>4 DEF FreeEntry

LEMMA FreeTableStep == IInv /\ MTypeOK' /\ FreeTable => IInv'
<1> SUFFICES ASSUME IInv, MTypeOK', FreeTable PROVE IInv'
  OBVIOUS
<1> DEFINE V == Victim
           x0 == <<Victim, TheTable>>
<1>1. /\ V \in Slot /\ page_dir[V] \in Page /\ pc \in {"undo", "exit"} /\ tasks_ptr[V] # None
      /\ (pc = "undo" => V = child) /\ (pc = "exit" => V = current)
      /\ \A j \in Entry : page_tab[page_dir[V]][j] = None
  BY Victims, Sorts DEF FreeTable, Freeing, Victim, Entry
<1>2. x0 \in Place /\ Holds[x0] = page_dir[V] /\ page_dir \in [Slot -> Page \cup {None}]
  BY <1>1, Places, HoldsTable DEF IInv, MTypeOK
<1>3. ~GiveFails(page_dir[Victim])
  <2> HIDE DEF x0
  <2> QED BY <1>1, <1>2, HeldInUse
<1>4. /\ Give(page_dir[Victim]) /\ page_dir' = [page_dir EXCEPT ![Victim] = None]
      /\ UNCHANGED <<tasks_ptr, page_tab, dead, current, child, pc>>
  BY <1>3 DEF FreeTable
<1>5. page_dir'[V] = None /\ \A s \in Slot : s # V => page_dir'[s] = page_dir[s]
  BY <1>1, <1>2, <1>4
<1>6. \A j \in Entry : Holds[<<V, j>>] = None /\ Holds'[<<V, j>>] = None
  BY <1>1, <1>5, HoldsEntry, HoldsNone, Sorts
<1>7. \A s \in Slot, j \in Entry : Holds'[<<s, j>>] = Holds[<<s, j>>]
  <2>1. \A s \in Slot \ {V}, j \in Entry : Holds'[<<s, j>>] = Holds[<<s, j>>]
    BY <1>4, <1>5, SameEntries
  <2> QED BY <1>6, <2>1
<1>8. OnePurpose' /\ MapIsExact' /\ HeldAreMarked'
  <2>1. SameButAt(Holds, Holds', x0)
    BY <1>4, <1>5, <1>7, SamePlaces
  <2>2. Holds'[x0] \notin Page /\ Give(Holds[x0])
    BY <1>1, <1>2, <1>4, <1>5, HoldsTable, Sorts
  <2> HIDE DEF x0
  <2> QED BY <1>2, <2>1, <2>2, GiveStep
<1>9. TaskOneFirst' /\ TablesHaveTasks' /\ DeadHaveTasks' /\ LowIsTaskOnes'
  BY <1>4, <1>5, <1>7 DEF IInv, Shape, TaskOneFirst, TablesHaveTasks, DeadHaveTasks, LowIsTaskOnes
<1>10. LiveHaveTables' /\ OnlyKnownPanics'
  BY <1>1, <1>4, <1>5 DEF IInv, Shape, LiveHaveTables, Half, Calls, OnlyKnownPanics
<1>11. Phase'
  <2>1. ~Freeing'
    BY <1>4, <1>5 DEF Freeing, Victim
  <2>2. pc = "undo" => current # V
    BY <1>1 DEF IInv, Shape, Phase
  <2> QED BY <1>1, <1>4, <1>5, <2>1, <2>2 DEF IInv, Shape, Phase
<1> QED BY <1>8, <1>9, <1>10, <1>11 DEF IInv, Shape

LEMMA FreeTaskStep == IInv /\ MTypeOK' /\ FreeTask => IInv'
<1> SUFFICES ASSUME IInv, MTypeOK', FreeTask PROVE IInv'
  OBVIOUS
<1> DEFINE x0 == <<child, TheTask>>
<1>1. /\ pc = "undo" /\ child \in Slot \ {1} /\ tasks_ptr[child] \in Page /\ page_dir[child] = None
      /\ child \notin dead /\ tasks_ptr \in [Slot -> Page \cup {None}]
  BY DEF FreeTask, IInv, MTypeOK, Shape, Phase
<1>2. x0 \in Place /\ Holds[x0] = tasks_ptr[child]
  BY <1>1, Places, HoldsTask
<1>3. ~GiveFails(tasks_ptr[child])
  <2> HIDE DEF x0
  <2> QED BY <1>1, <1>2, HeldInUse
<1>4. /\ Give(tasks_ptr[child]) /\ tasks_ptr' = [tasks_ptr EXCEPT ![child] = None] /\ pc' = "user"
      /\ UNCHANGED <<page_dir, page_tab, dead, current, child, next>>
  BY <1>3 DEF FreeTask
<1>5. tasks_ptr'[child] = None /\ \A s \in Slot : s # child => tasks_ptr'[s] = tasks_ptr[s]
  BY <1>1, <1>4
<1>6. \A s \in Slot, j \in Entry : Holds'[<<s, j>>] = Holds[<<s, j>>]
  BY <1>4, SameEntries
<1>7. OnePurpose' /\ MapIsExact' /\ HeldAreMarked'
  <2>1. SameButAt(Holds, Holds', x0)
    BY <1>4, <1>5, <1>6, SamePlaces
  <2>2. Holds'[x0] \notin Page /\ Give(Holds[x0])
    BY <1>1, <1>2, <1>4, <1>5, HoldsTask, Sorts
  <2> HIDE DEF x0
  <2> QED BY <1>2, <2>1, <2>2, GiveStep
<1>8. tasks_ptr[1] # None
  BY <1>1, Sorts DEF IInv, Shape, TaskOneFirst
<1>9. TaskOneFirst' /\ TablesHaveTasks' /\ DeadHaveTasks' /\ LowIsTaskOnes'
  BY <1>1, <1>4, <1>5, <1>6, <1>8, Sorts
     DEF IInv, Shape, TaskOneFirst, TablesHaveTasks, DeadHaveTasks, LowIsTaskOnes, MTypeOK
<1>10. LiveHaveTables' /\ OnlyKnownPanics' /\ Phase'
  BY <1>1, <1>4, <1>5 DEF IInv, Shape, LiveHaveTables, Half, Calls, OnlyKnownPanics, Phase, Freeing
<1> QED BY <1>7, <1>9, <1>10 DEF IInv, Shape

LEMMA ExitSteps ==
  ASSUME IInv, MTypeOK', EndExit \/ \E t \in Slot : Exit(t)
  PROVE  IInv'
<1>1. UNCHANGED mem_map /\ UNCHANGED tasks_ptr /\ UNCHANGED page_dir /\ UNCHANGED page_tab
  BY DEF EndExit, Exit
<1>2. Holds' = Holds
  BY <1>1, UnchangedPlaces
<1>3. OnePurpose' /\ MapIsExact' /\ HeldAreMarked'
  BY <1>1, <1>2, KeepStep
<1>4. TaskOneFirst' /\ TablesHaveTasks' /\ LowIsTaskOnes'
  BY <1>1, <1>2 DEF IInv, Shape, TaskOneFirst, TablesHaveTasks, LowIsTaskOnes
<1>5. CASE EndExit
  BY <1>1, <1>3, <1>4, <1>5
     DEF EndExit, IInv, Shape, DeadHaveTasks, LiveHaveTables, Half, Calls, Phase, Freeing, OnlyKnownPanics
<1>6. CASE \E t \in Slot : Exit(t)
  <2>1. PICK t \in Slot : Exit(t)
    BY <1>6
  <2>2. /\ pc = "user" /\ pc' = "exit" /\ current' = t /\ next' = 0 /\ UNCHANGED dead
        /\ t \notin dead /\ tasks_ptr[t] # None
    BY <2>1 DEF Exit, Runs, Slot
  <2>3. \A j \in Entry : ~(j < next')
    BY <2>2, Sorts
  <2>4. DeadHaveTasks' /\ LiveHaveTables' /\ Phase' /\ OnlyKnownPanics'
    BY <1>1, <2>2, <2>3
       DEF IInv, Shape, DeadHaveTasks, LiveHaveTables, Half, Calls, Phase, OnlyKnownPanics
  <2> QED BY <1>3, <1>4, <2>4 DEF IInv, Shape
<1> QED BY <1>5, <1>6

LEMMA MStep == IInv /\ [MNext]_memVars => IInv'
<1> SUFFICES ASSUME IInv, [MNext]_memVars PROVE IInv'
  OBVIOUS
<1>1. MTypeOK'
  BY MTypeStep
<1>2. CASE UNCHANGED memVars
  <2>1. Holds' = Holds /\ Victim' = Victim
    BY <1>2, UnchangedPlaces DEF memVars, Victim
  <2>2. OnePurpose' /\ MapIsExact' /\ HeldAreMarked'
    BY <1>2, <2>1, KeepStep DEF memVars
  <2>3. TaskOneFirst' /\ TablesHaveTasks' /\ DeadHaveTasks' /\ LowIsTaskOnes' /\ LiveHaveTables'
    BY <1>2, <2>1 DEF memVars, IInv, Shape, TaskOneFirst, TablesHaveTasks, DeadHaveTasks, LowIsTaskOnes,
       LiveHaveTables, Half
  <2>4. OnlyKnownPanics' /\ Phase'
    BY <1>2, <2>1 DEF memVars, IInv, Shape, OnlyKnownPanics, Phase, Freeing
  <2> QED BY <1>1, <2>2, <2>3, <2>4 DEF IInv, Shape
<1> QED BY <1>1, <1>2, ForkStep, Task1Step, CopyTableStep, CopyEntryStep, FreeEntryStep,
           FreeTableStep, FreeTaskStep, ExitSteps DEF MNext

-----------------------------------------------------------------------------
THEOREM MemoryInvariant == MSpec => []IInv
BY MInitIInv, MStep, PTL DEF MSpec

(* No two tasks share a page, and no page table is anybody's data.         *)
THEOREM PagesAreNotShared == MSpec => []OnePurpose
BY MemoryInvariant, PTL DEF IInv

(* Whichever page a fork fails at, mem_map counts what is in use.          *)
THEOREM NothingLeaks == MSpec => []MapIsExact
BY MemoryInvariant, PTL DEF IInv

(* Copying and freeing hit none of their own guards.                       *)
THEOREM GuardsAreNotHit == MSpec => []OnlyKnownPanics
BY MemoryInvariant, PTL DEF IInv

-----------------------------------------------------------------------------
(* Memory implements AddressSpaces.  Nothing of the abstract state depends *)
(* on what the call in progress has taken or has yet to give back: it is a *)
(* function of what the other places hold.                                 *)
Unborn(s) == InFork /\ s = child
Absent(s) == Unborn(s) \/ InExit(s)
Settled(x) == ~Unborn(x[1]) /\ ~(InExit(x[1]) /\ x[2] # TheTask)

Kept == [x \in Place |-> IF Settled(x) THEN Holds[x] ELSE None]
KeptTask(s) == IF Unborn(s) THEN None ELSE tasks_ptr[s]
KeptTable(s) == IF Absent(s) THEN None ELSE page_dir[s]
KeptEntry(s, j) == IF Absent(s) THEN None ELSE Holds[<<s, j>>]

(* The pages that no settled place holds.                                  *)
PoolOf(K) == {p \in Page : Marked(p) /\ \A x \in Place : K[x] # p}

(* What the steps of a call rely on to end as they promise.                *)
AloneAtFirst == pc = "task1" => \A s \in Slot \ {1} : tasks_ptr[s] = None
TaskOneStays ==
  page_dir[1] # None => Holds[<<1, 0>>] = 0 /\ (pc = "exit" /\ current = 1 => next = 0)
TablesAreUsed ==
  \A s \in Slot : Kept[<<s, TheTable>>] # None => \E j \in Entry : Kept[<<s, j>>] # None
CopiedSoFar ==
  pc = "copy" => \A j \in Entry : j < next => (Holds[<<child, j>>] = None <=> Holds[<<current, j>>] = None)

SInv == AloneAtFirst /\ TaskOneStays /\ TablesAreUsed /\ CopiedSoFar

-----------------------------------------------------------------------------
(* Counting pages.                                                         *)
LEMMA PoolFinite ==
  ASSUME NEW K
  PROVE  IsFiniteSet(PoolOf(K)) /\ Cardinality(PoolOf(K)) \in Nat
<1>1. IsFiniteSet(Page)
  BY MemAssumption, FS_Interval DEF Page
<1>2. PoolOf(K) \in SUBSET Page
  BY DEF PoolOf
<1> QED BY <1>1, <1>2, FS_Subset, FS_CardinalityType

(* The pages of the places X are taken out of the pool, one for each.      *)
LEMMA Drawn ==
  ASSUME NEW K, NEW L, NEW X \in SUBSET Place, IsFiniteSet(X),
         Single(L), \A x \in Place : L[x] \in Page => Marked(L[x]),
         \A x \in X : L[x] \in Page /\ K[x] \notin Page,
         \A x \in Place \ X : K[x] = L[x] \/ (K[x] \notin Page /\ L[x] \notin Page)
  PROVE  Cardinality(PoolOf(K)) = Cardinality(PoolOf(L)) + Cardinality(X)
<1> DEFINE G == {L[x] : x \in X}
           f == [x \in X |-> L[x]]
<1>1. f \in Bijection(X, G)
  <2>1. f \in [X -> G] /\ (\A x, y \in X : f[x] = f[y] => x = y) /\ (\A g \in G : \E x \in X : f[x] = g)
    BY DEF Single
  <2> HIDE DEF f, G
  <2> QED BY <2>1 DEF Bijection, Injection, Surjection, IsInjective
<1>2. Cardinality(G) = Cardinality(X) /\ IsFiniteSet(G)
  <2>1. ExistsBijection(X, G)
    BY <1>1 DEF ExistsBijection
  <2> HIDE DEF G
  <2> QED BY <2>1, FS_Bijection
<1>3. G \subseteq PoolOf(K)
  BY DEF PoolOf, Single
<1>4. PoolOf(L) = PoolOf(K) \ G
  BY DEF PoolOf, Single
<1> HIDE DEF G
<1>5. PoolOf(K) \cap G = G
  BY <1>3
<1>6. Cardinality(PoolOf(L)) = Cardinality(PoolOf(K)) - Cardinality(G)
  BY <1>4, <1>5, PoolFinite, FS_Difference
<1>7. Cardinality(G) \in Nat
  BY <1>2, FS_CardinalityType
<1> QED BY <1>2, <1>6, <1>7, PoolFinite

(* The places of a page table and of the entries M in it.                  *)
TableOf(c, M) == {<<c, TheTable>>} \cup {<<c, j>> : j \in M}

LEMMA EntriesFinite ==
  ASSUME NEW M \in SUBSET Entry
  PROVE  IsFiniteSet(M) /\ Cardinality(M) \in Nat
<1>1. IsFiniteSet(Entry)
  BY Sorts, FS_Interval DEF Entry
<1> QED BY <1>1, FS_Subset, FS_CardinalityType

LEMMA TableCount ==
  ASSUME NEW c \in Slot, NEW M \in SUBSET Entry
  PROVE  /\ TableOf(c, M) \subseteq Place /\ IsFiniteSet(TableOf(c, M))
         /\ Cardinality(TableOf(c, M)) = 1 + Cardinality(M)
         /\ <<c, TheTask>> \notin TableOf(c, M)
<1> DEFINE E == {<<c, j>> : j \in M}
           f == [j \in M |-> <<c, j>>]
<1>1. f \in Bijection(M, E)
  <2>1. f \in [M -> E] /\ (\A i, j \in M : f[i] = f[j] => i = j) /\ (\A e \in E : \E j \in M : f[j] = e)
    OBVIOUS
  <2> HIDE DEF f, E
  <2> QED BY <2>1 DEF Bijection, Injection, Surjection, IsInjective
<1>2. Cardinality(E) = Cardinality(M) /\ IsFiniteSet(E)
  <2>1. ExistsBijection(M, E)
    BY <1>1 DEF ExistsBijection
  <2> HIDE DEF E
  <2> QED BY <2>1, EntriesFinite, FS_Bijection
<1>3. <<c, TheTable>> \notin E /\ <<c, TheTask>> \notin E /\ TheTask # TheTable
  BY DEF TheTable, TheTask, Entry
<1>4. TableOf(c, M) = E \cup {<<c, TheTable>>}
  BY DEF TableOf
<1>5. E \subseteq Place
  BY Places
<1> HIDE DEF E
<1>6. IsFiniteSet(TableOf(c, M)) /\ Cardinality(TableOf(c, M)) = Cardinality(M) + 1
  BY <1>2, <1>3, <1>4, FS_AddElement
<1>7. <<c, TheTask>> \notin TableOf(c, M)
  BY <1>3, <1>4
<1> QED BY <1>4, <1>5, <1>6, <1>7, EntriesFinite, Places

(* Those and the page of the task.                                         *)
LEMMA TaskCount ==
  ASSUME NEW c \in Slot, NEW M \in SUBSET Entry
  PROVE  /\ TableOf(c, M) \cup {<<c, TheTask>>} \subseteq Place
         /\ IsFiniteSet(TableOf(c, M) \cup {<<c, TheTask>>})
         /\ Cardinality(TableOf(c, M) \cup {<<c, TheTask>>}) = 2 + Cardinality(M)
<1>1. Cardinality(TableOf(c, M) \cup {<<c, TheTask>>}) = Cardinality(TableOf(c, M)) + 1
      /\ IsFiniteSet(TableOf(c, M) \cup {<<c, TheTask>>})
  BY TableCount, FS_AddElement
<1>2. Cardinality(TableOf(c, M)) = 1 + Cardinality(M) /\ Cardinality(M) \in Nat
  BY TableCount, EntriesFinite
<1>3. Cardinality(TableOf(c, M) \cup {<<c, TheTask>>}) = 2 + Cardinality(M)
  BY <1>1, <1>2
<1>4. TableOf(c, M) \cup {<<c, TheTask>>} \subseteq Place
  BY TableCount, Places
<1> QED BY <1>1, <1>3, <1>4

-----------------------------------------------------------------------------
(* The abstract state, seen through the settled places.                    *)
LEMMA KeptNow ==
  \A s \in Slot :
    /\ Kept[<<s, TheTask>>] = KeptTask(s)
    /\ Kept[<<s, TheTable>>] = KeptTable(s)
    /\ \A j \in Entry : Kept[<<s, j>>] = KeptEntry(s, j)
<1> SUFFICES ASSUME NEW s \in Slot
             PROVE  /\ Kept[<<s, TheTask>>] = KeptTask(s)
                    /\ Kept[<<s, TheTable>>] = KeptTable(s)
                    /\ \A j \in Entry : Kept[<<s, j>>] = KeptEntry(s, j)
  OBVIOUS
<1>1. Kept[<<s, TheTask>>] = KeptTask(s)
  BY Places, HoldsNow DEF Kept, Settled, KeptTask
<1>2. Kept[<<s, TheTable>>] = KeptTable(s)
  BY Places, HoldsNow, Sorts DEF Kept, Settled, KeptTable, Absent
<1>3. ASSUME NEW j \in Entry PROVE Kept[<<s, j>>] = KeptEntry(s, j)
  <2>1. j # TheTask
    BY Sorts DEF TheTask
  <2> QED BY <2>1, Places DEF Kept, Settled, KeptEntry, Absent
<1> QED BY <1>1, <1>2, <1>3

LEMMA KeptThen ==
  (\A s \in Slot :
    /\ Kept[<<s, TheTask>>] = KeptTask(s)
    /\ Kept[<<s, TheTable>>] = KeptTable(s)
    /\ \A j \in Entry : Kept[<<s, j>>] = KeptEntry(s, j))'
BY KeptNow, PTL

LEMMA SameKept ==
  ASSUME \A s \in Slot : /\ KeptTask(s)' = KeptTask(s) /\ KeptTable(s)' = KeptTable(s)
                         /\ \A j \in Entry : KeptEntry(s, j)' = KeptEntry(s, j)
  PROVE  Kept' = Kept
<1>1. ASSUME NEW x \in Place PROVE Kept'[x] = Kept[x]
  <2>1. PICK s \in Slot : x = <<s, TheTask>> \/ x = <<s, TheTable>> \/ \E j \in Entry : x = <<s, j>>
    BY Places
  <2>2. CASE x = <<s, TheTask>>
    BY <2>2, KeptNow, KeptThen
  <2>3. CASE x = <<s, TheTable>>
    BY <2>3, KeptNow, KeptThen
  <2>4. CASE \E j \in Entry : x = <<s, j>>
    BY <2>4, KeptNow, KeptThen
  <2> QED BY <2>1, <2>2, <2>3, <2>4
<1>2. Kept = [x \in Place |-> Kept[x]] /\ Kept' = [x \in Place |-> Kept'[x]]
  BY DEF Kept
<1> QED BY <1>1, <1>2

LEMMA PoolIs ==
  IInv => FreeFrames \cup InFlight = PoolOf(Kept)
<1> SUFFICES ASSUME IInv PROVE FreeFrames \cup InFlight = PoolOf(Kept)
  OBVIOUS
<1>1. \A p \in Page : p \in FreeFrames <=> Marked(p) /\ \A x \in Place : Holds[x] # p
  BY DEF FreeFrames, IInv, MapIsExact, Shape, HeldAreMarked, NOT_EXIST
<1>2. \A p \in Page : p \in InFlight <=> \E x \in Place : ~Settled(x) /\ Holds[x] = p
  BY DEF InFlight, Settled, Unborn
<1>3. FreeFrames \subseteq Page /\ InFlight \subseteq Page /\ PoolOf(Kept) \subseteq Page
  BY DEF FreeFrames, InFlight, PoolOf
<1>4. \A x \in Place : Kept[x] = IF Settled(x) THEN Holds[x] ELSE None
  BY DEF Kept
<1>5. ASSUME NEW p \in Page PROVE p \in FreeFrames \/ p \in InFlight <=> p \in PoolOf(Kept)
  <2>1. p \in PoolOf(Kept) <=> Marked(p) /\ \A x \in Place : Kept[x] # p
    BY DEF PoolOf
  <2>2. \A x, y \in Place : Holds[x] = p /\ Holds[y] = p => x = y
    BY DEF IInv, OnePurpose
  <2>3. \A x \in Place : Holds[x] = p => Marked(p)
    BY DEF IInv, Shape, HeldAreMarked
  <2> QED BY <1>1, <1>2, <1>4, <2>1, <2>2, <2>3, Sorts
<1> QED BY <1>3, <1>5

(* The pages that the settled places hold are marked, and held once.       *)
LEMMA KeptSound ==
  IInv => Single(Kept) /\ \A x \in Place : Kept[x] \in Page => Marked(Kept[x])
<1>1. \A x \in Place : Kept[x] = Holds[x] \/ Kept[x] \notin Page
  BY Sorts DEF Kept
<1> QED BY <1>1 DEF IInv, OnePurpose, Shape, HeldAreMarked, Single

-----------------------------------------------------------------------------
(* The steps that the abstract state does not show.                        *)
LEMMA TablesApart ==
  ASSUME IInv, NEW r \in Slot, NEW s \in Slot, page_dir[r] # None, page_dir[s] = page_dir[r]
  PROVE  s = r
<1>1. page_dir[r] \in Page
  BY DEF IInv, MTypeOK
<1>2. <<s, TheTable>> = <<r, TheTable>>
  BY <1>1, HoldsTable, Places, ZenonT(40) DEF IInv, OnePurpose
<1> QED BY <1>2

LEMMA WithinCall ==
  ASSUME \A s \in Slot : (Unborn(s)' <=> Unborn(s)) /\ (InExit(s)' <=> InExit(s)),
         \A s \in Slot : Unborn(s) \/ tasks_ptr'[s] = tasks_ptr[s],
         \A s \in Slot : \/ Absent(s)
                         \/ /\ page_dir'[s] = page_dir[s]
                            /\ \A j \in Entry : Holds'[<<s, j>>] = Holds[<<s, j>>]
  PROVE  Kept' = Kept
BY SameKept DEF KeptTask, KeptTable, KeptEntry, Absent

LEMMA ForkHidden ==
  ASSUME IInv, SInv, NEW t \in {0} \cup Slot, NEW c \in Slot, Fork(t, c)
  PROVE  Kept' = Kept /\ AloneAtFirst' /\ TaskOneStays' /\ CopiedSoFar'
<1>1. /\ pc = "user" /\ tasks_ptr[c] = None /\ page_dir[c] = None /\ child' = c /\ UNCHANGED page_dir
      /\ tasks_ptr \in [Slot -> Page \cup {None}] /\ page_dir \in [Slot -> Page \cup {None}]
      /\ page_tab \in [Page -> Table]
  BY DEF Fork, IsNextSlot, IInv, MTypeOK, Shape, TablesHaveTasks
<1>2. \/ pc' = "page directory overwritten" /\ UNCHANGED <<tasks_ptr, page_tab>>
      \/ \E p \in FreeFrames : /\ tasks_ptr' = [tasks_ptr EXCEPT ![c] = p]
                               /\ page_tab' = [page_tab EXCEPT ![p] = Data]
                               /\ pc' = IF c = 1 THEN "task1" ELSE "table"
  BY DEF Fork
<1>3. \A s \in Slot : /\ s # c => tasks_ptr'[s] = tasks_ptr[s]
                      /\ page_dir[s] # None => page_tab'[page_dir[s]] = page_tab[page_dir[s]]
  BY <1>1, <1>2, FreeNotHeld
<1>4. \A s \in Slot, j \in Entry : Holds'[<<s, j>>] = Holds[<<s, j>>]
  BY <1>1, <1>3, SameEntries
<1>5. Kept' = Kept
  <2>1. ASSUME NEW s \in Slot, s # c
        PROVE  /\ KeptTask(s)' = KeptTask(s) /\ KeptTable(s)' = KeptTable(s)
               /\ \A j \in Entry : KeptEntry(s, j)' = KeptEntry(s, j)
    BY <1>1, <1>2, <1>3, <1>4, <2>1
       DEF KeptTask, KeptTable, KeptEntry, Absent, Unborn, InFork, InExit
  <2>2. /\ KeptTask(c) = None /\ KeptTable(c) = None
        /\ \A j \in Entry : KeptEntry(c, j) = None
    BY <1>1, HoldsNone DEF KeptTask, KeptTable, KeptEntry
  <2>3. /\ KeptTask(c)' = None /\ KeptTable(c)' = None
        /\ \A j \in Entry : KeptEntry(c, j)' = None
    BY <1>1, <1>2, HoldsNone DEF KeptTask, KeptTable, KeptEntry, Unborn, InFork
  <2> QED BY <2>1, <2>2, <2>3, SameKept
<1>6. AloneAtFirst'
  BY <1>1, <1>2, <1>3 DEF AloneAtFirst, IInv, Shape, TaskOneFirst
<1>7. TaskOneStays'
  BY <1>1, <1>2, <1>4, Sorts DEF TaskOneStays, SInv
<1>8. CopiedSoFar'
  BY <1>2 DEF CopiedSoFar
<1> QED BY <1>5, <1>6, <1>7, <1>8

LEMMA CopyTableHidden ==
  ASSUME IInv, IInv', SInv, CopyTable
  PROVE  Kept' = Kept /\ AloneAtFirst' /\ TaskOneStays' /\ CopiedSoFar'
<1>1. /\ pc = "table" /\ child \in Slot \ {1} /\ page_dir[child] = None /\ next = 0
      /\ UNCHANGED <<tasks_ptr, current, child, next>>
      /\ page_dir \in [Slot -> Page \cup {None}] /\ page_tab \in [Page -> Table]
  BY DEF CopyTable, IInv, Shape, Phase, MTypeOK, Panic
<1>2. \/ pc' = "undo" /\ UNCHANGED <<page_dir, page_tab>>
      \/ \E p \in FreeFrames : /\ page_dir' = [page_dir EXCEPT ![child] = p]
                               /\ page_tab' = [page_tab EXCEPT ![p] = Blank] /\ pc' = "copy"
  BY DEF CopyTable, Panic, IInv, OnlyKnownPanics
<1>3. \A s \in Slot \ {child} : /\ page_dir'[s] = page_dir[s]
                                /\ page_dir[s] # None => page_tab'[page_dir[s]] = page_tab[page_dir[s]]
  BY <1>1, <1>2, FreeNotHeld
<1>4. \A s \in Slot \ {child}, j \in Entry : Holds'[<<s, j>>] = Holds[<<s, j>>]
  BY <1>3, SameEntries
<1>5. Kept' = Kept
  BY <1>1, <1>2, <1>3, <1>4, WithinCall DEF Unborn, InFork, InExit, Absent
<1>6. AloneAtFirst' /\ TaskOneStays'
  BY <1>1, <1>2, <1>3, <1>4, Sorts DEF AloneAtFirst, TaskOneStays, SInv
<1>7. CopiedSoFar'
  <2>1. next' = 0 /\ \A j \in Entry : ~(j < 0)
    BY <1>1, Sorts
  <2> QED BY <2>1 DEF CopiedSoFar
<1> QED BY <1>5, <1>6, <1>7

(* What a turn of the copying loop does to the places.                     *)
LEMMA CopyEntryEffect ==
  ASSUME IInv, CopyEntry
  PROVE  /\ pc = "copy" /\ child \in Slot \ {1} /\ current \in Slot \ {child} /\ next \in Entry
         /\ page_dir[child] \in Page /\ page_dir[current] \in Page /\ tasks_ptr[child] \in Page
         /\ UNCHANGED <<tasks_ptr, page_dir, current, child>>
         /\ \A s \in Slot \ {child}, j \in Entry : Holds'[<<s, j>>] = Holds[<<s, j>>]
         /\ \A j \in Entry : j < next => Holds'[<<child, j>>] = Holds[<<child, j>>]
         /\ \/ pc' = "undo"
            \/ /\ AdvanceTo("user")
               /\ Holds'[<<child, next>>] = None <=> Holds[<<current, next>>] = None
<1>1. /\ pc = "copy" /\ child \in Slot \ {1} /\ current \in Slot \ {child} /\ next \in Entry
      /\ page_dir[child] \in Page /\ page_dir[current] \in Page /\ tasks_ptr[child] \in Page
      /\ UNCHANGED <<tasks_ptr, page_dir, current, child>>
      /\ page_dir \in [Slot -> Page \cup {None}] /\ page_tab \in [Page -> Table]
      /\ page_tab[page_dir[child]][next] = None
  BY DEF CopyEntry, IInv, Shape, Phase, MTypeOK, Entry
<1>2. /\ \A j \in Entry : Holds[<<child, j>>] = page_tab[page_dir[child]][j]
      /\ \A j \in Entry : Holds'[<<child, j>>] = page_tab'[page_dir[child]][j]
      /\ \A j \in Entry : Holds[<<current, j>>] = page_tab[page_dir[current]][j]
  BY <1>1, HoldsEntry, Sorts
<1>3. CASE UNCHANGED page_tab
  <2>1. \A s \in Slot, j \in Entry : Holds'[<<s, j>>] = Holds[<<s, j>>]
    BY <1>1, <1>3, UnchangedPlaces
  <2>2. \/ pc' = "undo"
        \/ AdvanceTo("user") /\ page_tab[page_dir[current]][next] = None
        \/ \E p \in FreeFrames : page_tab' = WithCopy(p)
    BY DEF CopyEntry
  <2>3. ASSUME NEW p \in FreeFrames, page_tab' = WithCopy(p)
        PROVE  FALSE
    <3>1. p \in Page /\ p # page_dir[child] /\ p # None
      BY <1>1, FreeNotHeld, Sorts
    <3>2. page_tab'[page_dir[child]] = [page_tab[page_dir[child]] EXCEPT ![next] = p]
      BY <1>1, <2>3, <3>1 DEF WithCopy
    <3>3. page_tab'[page_dir[child]][next] = p
      BY <1>1, <3>2 DEF Table
    <3> QED BY <1>1, <1>3, <3>1, <3>3
  <2> QED BY <1>1, <1>2, <2>1, <2>2, <2>3
<1>4. ASSUME NEW p \in FreeFrames, AdvanceTo("user"), page_tab[page_dir[current]][next] # None,
             page_tab' = WithCopy(p)
      PROVE  /\ \A s \in Slot \ {child}, j \in Entry : Holds'[<<s, j>>] = Holds[<<s, j>>]
             /\ \A j \in Entry : j < next => Holds'[<<child, j>>] = Holds[<<child, j>>]
             /\ Holds'[<<child, next>>] # None /\ Holds[<<current, next>>] # None
  <2>1. p \in Page /\ p # None /\ \A s \in Slot : page_dir[s] # p
    BY FreeNotHeld, Sorts
  <2>2. page_tab'[page_dir[child]] = [page_tab[page_dir[child]] EXCEPT ![next] = p]
    BY <1>1, <1>4, <2>1 DEF WithCopy
  <2>3. /\ page_tab'[page_dir[child]][next] = p
        /\ \A j \in Entry : j # next => page_tab'[page_dir[child]][j] = page_tab[page_dir[child]][j]
    BY <1>1, <2>2 DEF Table
  <2>4. \A j \in Entry : j < next => j # next
    BY <1>1, Sorts
  <2>5. \A s \in Slot \ {child} : page_dir[s] # None => page_tab'[page_dir[s]] = page_tab[page_dir[s]]
    BY <1>1, <1>4, <2>1, TablesApart, Sorts DEF WithCopy
  <2>6. \A s \in Slot \ {child}, j \in Entry : Holds'[<<s, j>>] = Holds[<<s, j>>]
    BY <1>1, <2>5, SameEntries
  <2> QED BY <1>1, <1>2, <1>4, <2>1, <2>3, <2>4, <2>6
<1> QED BY <1>1, <1>3, <1>4 DEF CopyEntry

LEMMA CopyEntryHidden ==
  ASSUME IInv, SInv, CopyEntry
  PROVE  /\ AloneAtFirst' /\ TaskOneStays' /\ CopiedSoFar'
         /\ pc' # "user" => Kept' = Kept
         /\ pc' = "user" => \A j \in Entry : Holds'[<<child, j>>] = None <=> Holds'[<<current, j>>] = None
<1>1. \/ pc' = "undo"
      \/ pc' = "copy" /\ next' = next + 1 /\ AdvanceTo("user")
      \/ pc' = "user" /\ next = LastEntry /\ AdvanceTo("user")
  BY CopyEntryEffect DEF AdvanceTo
<1>2. \A j \in Entry : j < next => (Holds'[<<child, j>>] = None <=> Holds'[<<current, j>>] = None)
  BY CopyEntryEffect DEF SInv, CopiedSoFar
<1>3. AdvanceTo("user") /\ pc' # "undo" => (Holds'[<<child, next>>] = None <=> Holds'[<<current, next>>] = None)
  BY CopyEntryEffect
<1>4. CopiedSoFar'
  <2>1. CASE pc' # "copy"
    BY <2>1 DEF CopiedSoFar
  <2>2. CASE pc' = "copy" /\ next' = next + 1 /\ AdvanceTo("user")
    <3>1. \A j \in Entry : j < next' => j < next \/ j = next
      <4>1. next \in Entry
        BY CopyEntryEffect
      <4>2. next \in Int /\ Entry \subseteq Int
        BY <4>1 DEF Entry
      <4> QED BY <2>2, <4>2
    <3> QED BY <1>2, <1>3, <2>2, <3>1, CopyEntryEffect DEF CopiedSoFar
  <2> QED BY <1>1, <2>1, <2>2
<1>5. pc' = "user" => \A j \in Entry : Holds'[<<child, j>>] = None <=> Holds'[<<current, j>>] = None
  <2>1. next = LastEntry => \A j \in Entry : j < next \/ j = next
    BY Sorts DEF Entry
  <2> QED BY <1>1, <1>2, <1>3, <2>1
<1>6. AloneAtFirst' /\ TaskOneStays'
  BY <1>1, CopyEntryEffect, Sorts DEF AloneAtFirst, TaskOneStays, SInv
<1>7. pc' # "user" => Kept' = Kept
  BY <1>1, CopyEntryEffect, WithinCall DEF Unborn, InFork, InExit, Absent
<1> QED BY <1>4, <1>5, <1>6, <1>7

(* Task 1 is not taken down: its exit panics at the first entry.           *)
LEMMA NotTaskOne ==
  ASSUME IInv, SInv, FreeEntry \/ FreeTable, Victim = 1
  PROVE  FreeEntry /\ pc = "exit" /\ current = 1 /\ GiveFails(Doomed)
<1>1. Freeing /\ page_dir[1] # None
  BY DEF FreeEntry, FreeTable, Freeing
<1>2. pc = "exit" /\ current = 1
  BY <1>1, Victims DEF Freeing
<1>3. next = 0 /\ Holds[<<1, 0>>] = 0
  BY <1>1, <1>2 DEF SInv, TaskOneStays
<1>4. FreeEntry
  BY <1>3, Sorts DEF FreeTable
<1>5. Doomed = 0
  <2>1. Doomed = page_tab[page_dir[1]][0]
    BY <1>3 DEF Doomed
  <2> QED BY <1>1, <1>3, <2>1, HoldsEntry, Sorts
<1>6. Doomed # None /\ ~Give(Doomed)
  <2>1. Doomed \notin Page /\ Doomed # None
    BY <1>5, Sorts
  <2> QED BY <2>1 DEF Give
<1>7. GiveFails(Doomed)
  BY <1>4, <1>6 DEF FreeEntry
<1> QED BY <1>2, <1>4, <1>7

LEMMA FreeEntryHidden ==
  ASSUME IInv, IInv', SInv, FreeEntry
  PROVE  Kept' = Kept /\ AloneAtFirst' /\ TaskOneStays' /\ CopiedSoFar'
<1>1. /\ Freeing /\ pc \in {"undo", "exit"} /\ Victim \in Slot /\ page_dir[Victim] \in Page
      /\ (pc = "undo" => Victim = child /\ Victim # 1) /\ (pc = "exit" => Victim = current)
      /\ \A s \in Slot : s # Victim => page_dir[s] # page_dir[Victim]
      /\ page_tab \in [Page -> Table] /\ page_dir \in [Slot -> Page \cup {None}] /\ next \in Entry
  BY Victims DEF FreeEntry, Freeing, Victim, IInv, MTypeOK, Entry
<1>2. CASE GiveFails(Doomed)
  <2>1. pc' = "free addr < 1MB" /\ UNCHANGED <<tasks_ptr, page_dir, page_tab, dead, current, child, next>>
    BY <1>2 DEF GiveFails, Panic, IInv, OnlyKnownPanics
  <2>2. Doomed \notin Page
    BY <1>2, <2>1 DEF GiveFails, Panic
  <2>3. Doomed \in Low
    <3>1. Doomed \in Low \cup Page \cup {None} /\ Doomed # None
      <4>1. page_tab[page_dir[Victim]] \in Table
        BY <1>1
      <4>2. Doomed \in Low \cup Page \cup {None}
        BY <1>1, <4>1 DEF Doomed, Table
      <4>3. GiveFails(Doomed) => pc' # pc
        BY <1>1 DEF GiveFails, Panic
      <4>4. Doomed # None
        BY <1>1, <1>2, <4>3 DEF FreeEntry
      <4> QED BY <4>2, <4>4
    <3> QED BY <2>2, <3>1
  <2>4. Victim = 1
    <3>1. Holds[<<Victim, next>>] = Doomed
      BY <1>1, HoldsEntry, Sorts DEF Doomed
    <3> QED BY <1>1, <2>3, <3>1 DEF IInv, Shape, LowIsTaskOnes
  <2>5. pc = "exit" /\ current = 1
    BY <1>1, <2>4
  <2>6. Holds' = Holds
    BY <2>1, UnchangedPlaces
  <2>7. Kept' = Kept
    BY <2>1, <2>5, <2>6, WithinCall DEF Unborn, InFork, InExit
  <2>8. AloneAtFirst' /\ TaskOneStays' /\ CopiedSoFar'
    BY <2>1, <2>6 DEF AloneAtFirst, TaskOneStays, CopiedSoFar, SInv
  <2> QED BY <2>7, <2>8
<1>3. CASE ~GiveFails(Doomed)
  <2>1. Victim # 1
    BY <1>3, NotTaskOne
  <2>2. page_tab' = [page_tab EXCEPT ![page_dir[Victim]][next] = None]
        /\ UNCHANGED <<tasks_ptr, page_dir, current, child, pc>>
    BY <1>3 DEF FreeEntry
  <2>3. \A s \in Slot : s # Victim /\ page_dir[s] # None => page_tab'[page_dir[s]] = page_tab[page_dir[s]]
    BY <1>1, <2>2
  <2>4. \A s \in Slot \ {Victim}, j \in Entry : Holds'[<<s, j>>] = Holds[<<s, j>>]
    BY <2>2, <2>3, SameEntries
  <2>5. Kept' = Kept
    BY <1>1, <2>1, <2>2, <2>4, WithinCall DEF Unborn, InFork, InExit, Absent
  <2>6. AloneAtFirst' /\ TaskOneStays' /\ CopiedSoFar'
    BY <1>1, <2>1, <2>2, <2>4, Sorts DEF AloneAtFirst, TaskOneStays, CopiedSoFar, SInv
  <2> QED BY <2>5, <2>6
<1> QED BY <1>2, <1>3

LEMMA FreeTableHidden ==
  ASSUME IInv, IInv', SInv, FreeTable
  PROVE  Kept' = Kept /\ AloneAtFirst' /\ TaskOneStays' /\ CopiedSoFar'
<1>1. /\ Freeing /\ pc \in {"undo", "exit"} /\ Victim \in Slot /\ page_dir[Victim] \in Page
      /\ (pc = "undo" => Victim = child) /\ (pc = "exit" => Victim = current)
      /\ page_dir \in [Slot -> Page \cup {None}]
  BY Victims DEF FreeTable, Freeing, Victim, IInv, MTypeOK
<1>2. ~GiveFails(page_dir[Victim])
  BY <1>1 DEF GiveFails, Panic, IInv, OnlyKnownPanics
<1>3. Victim # 1
  <2>1. FreeEntry => next <= LastEntry
    BY DEF FreeEntry
  <2>2. next = LastEntry + 1 /\ ~(LastEntry + 1 <= LastEntry)
    BY Sorts DEF FreeTable
  <2>3. ~FreeEntry
    BY <2>1, <2>2
  <2> QED BY <2>3, NotTaskOne
<1>4. page_dir' = [page_dir EXCEPT ![Victim] = None]
      /\ UNCHANGED <<tasks_ptr, page_tab, current, child, pc>>
  BY <1>2 DEF FreeTable
<1>5. \A s \in Slot \ {Victim} : page_dir'[s] = page_dir[s]
  BY <1>1, <1>4
<1>6. \A s \in Slot \ {Victim}, j \in Entry : Holds'[<<s, j>>] = Holds[<<s, j>>]
  BY <1>4, <1>5, SameEntries
<1>7. Kept' = Kept
  BY <1>1, <1>3, <1>4, <1>5, <1>6, WithinCall DEF Unborn, InFork, InExit, Absent
<1>8. AloneAtFirst' /\ TaskOneStays' /\ CopiedSoFar'
  BY <1>1, <1>3, <1>4, <1>5, <1>6, Sorts DEF AloneAtFirst, TaskOneStays, CopiedSoFar, SInv
<1> QED BY <1>7, <1>8

LEMMA FreeTaskHidden ==
  ASSUME IInv, IInv', SInv, FreeTask
  PROVE  Kept' = Kept /\ AloneAtFirst' /\ TaskOneStays' /\ CopiedSoFar'
<1>1. /\ pc = "undo" /\ child \in Slot \ {1} /\ tasks_ptr[child] \in Page /\ page_dir[child] = None
      /\ tasks_ptr \in [Slot -> Page \cup {None}]
  BY DEF FreeTask, IInv, MTypeOK, Shape, Phase
<1>2. ~GiveFails(tasks_ptr[child])
  BY <1>1 DEF GiveFails, Panic, IInv, OnlyKnownPanics
<1>3. tasks_ptr' = [tasks_ptr EXCEPT ![child] = None] /\ pc' = "user"
      /\ UNCHANGED <<page_dir, page_tab, current, child>>
  BY <1>2 DEF FreeTask
<1>4. tasks_ptr'[child] = None /\ \A s \in Slot : s # child => tasks_ptr'[s] = tasks_ptr[s]
  BY <1>1, <1>3
<1>5. \A s \in Slot, j \in Entry : Holds'[<<s, j>>] = Holds[<<s, j>>]
  BY <1>3, SameEntries
<1>6. Kept' = Kept
  <2>1. ASSUME NEW s \in Slot, s # child
        PROVE  /\ KeptTask(s)' = KeptTask(s) /\ KeptTable(s)' = KeptTable(s)
               /\ \A j \in Entry : KeptEntry(s, j)' = KeptEntry(s, j)
    BY <1>1, <1>3, <1>4, <1>5, <2>1
       DEF KeptTask, KeptTable, KeptEntry, Absent, Unborn, InFork, InExit
  <2>2. /\ KeptTask(child) = None /\ KeptTable(child) = None
        /\ \A j \in Entry : KeptEntry(child, j) = None
    BY <1>1, HoldsNone DEF KeptTask, KeptTable, KeptEntry, Unborn, InFork
  <2>3. /\ KeptTask(child)' = None /\ KeptTable(child)' = None
        /\ \A j \in Entry : KeptEntry(child, j)' = None
    BY <1>1, <1>3, <1>4, HoldsNone DEF KeptTask, KeptTable, KeptEntry, Unborn, InFork
  <2>4. ASSUME NEW s \in Slot
        PROVE  /\ KeptTask(s)' = KeptTask(s) /\ KeptTable(s)' = KeptTable(s)
               /\ \A j \in Entry : KeptEntry(s, j)' = KeptEntry(s, j)
    BY <1>3, <2>1, <2>2, <2>3
  <2> QED BY <2>4, SameKept
<1>7. AloneAtFirst' /\ TaskOneStays' /\ CopiedSoFar'
  BY <1>3, <1>5, Sorts DEF AloneAtFirst, TaskOneStays, CopiedSoFar, SInv
<1> QED BY <1>6, <1>7

LEMMA EndExitHidden ==
  ASSUME IInv, SInv, EndExit
  PROVE  Kept' = Kept /\ AloneAtFirst' /\ TaskOneStays' /\ CopiedSoFar'
<1>1. /\ pc = "exit" /\ pc' = "user" /\ page_dir[current] = None
      /\ UNCHANGED <<tasks_ptr, page_dir, page_tab, current, child>>
  BY DEF EndExit
<1>2. Holds' = Holds
  BY <1>1, UnchangedPlaces
<1>3. ASSUME NEW s \in Slot
      PROVE  /\ KeptTask(s)' = KeptTask(s) /\ KeptTable(s)' = KeptTable(s)
             /\ \A j \in Entry : KeptEntry(s, j)' = KeptEntry(s, j)
  BY <1>1, <1>2, HoldsNone DEF KeptTask, KeptTable, KeptEntry, Absent, Unborn, InFork, InExit
<1>4. Kept' = Kept
  BY <1>3, SameKept
<1>5. AloneAtFirst' /\ TaskOneStays' /\ CopiedSoFar'
  BY <1>1, <1>2 DEF AloneAtFirst, TaskOneStays, CopiedSoFar, SInv
<1> QED BY <1>4, <1>5

-----------------------------------------------------------------------------
(* The steps that it shows.                                                *)
LEMMA WholeTask ==
  ASSUME NEW K, NEW L, NEW c \in Slot, NEW M \in SUBSET Entry,
         Single(L), \A x \in Place : L[x] \in Page => Marked(L[x]),
         \A s \in Slot \ {c} : /\ K[<<s, TheTask>>] = L[<<s, TheTask>>]
                               /\ K[<<s, TheTable>>] = L[<<s, TheTable>>]
                               /\ \A j \in Entry : K[<<s, j>>] = L[<<s, j>>],
         K[<<c, TheTable>>] = None, \A j \in Entry : K[<<c, j>>] = None,
         L[<<c, TheTable>>] \in Page, \A j \in Entry : L[<<c, j>>] \in Page <=> j \in M
  PROVE  /\ K[<<c, TheTask>>] = None /\ L[<<c, TheTask>>] \in Page =>
              Cardinality(PoolOf(K)) = Cardinality(PoolOf(L)) + (2 + Cardinality(M))
         /\ K[<<c, TheTask>>] = L[<<c, TheTask>>] =>
              Cardinality(PoolOf(K)) = Cardinality(PoolOf(L)) + (1 + Cardinality(M))
<1>1. \A x \in TableOf(c, M) : L[x] \in Page /\ K[x] \notin Page
  BY Sorts DEF TableOf
<1>2. \A x \in Place \ (TableOf(c, M) \cup {<<c, TheTask>>}) :
        K[x] = L[x] \/ (K[x] \notin Page /\ L[x] \notin Page)
  <2> SUFFICES ASSUME NEW x \in Place, x \notin TableOf(c, M), x # <<c, TheTask>>
               PROVE  K[x] = L[x] \/ (K[x] \notin Page /\ L[x] \notin Page)
    OBVIOUS
  <2>1. PICK s \in Slot : x = <<s, TheTask>> \/ x = <<s, TheTable>> \/ \E j \in Entry : x = <<s, j>>
    BY Places
  <2>2. CASE s # c
    BY <2>1, <2>2
  <2>3. CASE s = c
    <3>1. PICK j \in Entry : x = <<c, j>>
      BY <2>1, <2>3 DEF TableOf
    <3>2. j \notin M
      BY <3>1 DEF TableOf
    <3> QED BY <3>1, <3>2, Sorts
  <2> QED BY <2>2, <2>3
<1>3. ASSUME K[<<c, TheTask>>] = None, L[<<c, TheTask>>] \in Page
      PROVE  Cardinality(PoolOf(K)) = Cardinality(PoolOf(L)) + (2 + Cardinality(M))
  <2> DEFINE X == TableOf(c, M) \cup {<<c, TheTask>>}
  <2>1. X \in SUBSET Place /\ IsFiniteSet(X) /\ Cardinality(X) = 2 + Cardinality(M)
    BY TaskCount
  <2>2. \A x \in X : L[x] \in Page /\ K[x] \notin Page
    BY <1>1, <1>3, Sorts
  <2>3. \A x \in Place \ X : K[x] = L[x] \/ (K[x] \notin Page /\ L[x] \notin Page)
    BY <1>2
  <2> HIDE DEF X
  <2>4. Cardinality(PoolOf(K)) = Cardinality(PoolOf(L)) + Cardinality(X)
    BY <2>1, <2>2, <2>3, Drawn
  <2> QED BY <2>1, <2>4
<1>4. ASSUME K[<<c, TheTask>>] = L[<<c, TheTask>>]
      PROVE  Cardinality(PoolOf(K)) = Cardinality(PoolOf(L)) + (1 + Cardinality(M))
  <2> DEFINE X == TableOf(c, M)
  <2>1. X \in SUBSET Place /\ IsFiniteSet(X) /\ Cardinality(X) = 1 + Cardinality(M)
    BY TableCount
  <2>2. \A x \in X : L[x] \in Page /\ K[x] \notin Page
    BY <1>1
  <2>3. \A x \in Place \ X : K[x] = L[x] \/ (K[x] \notin Page /\ L[x] \notin Page)
    BY <1>2, <1>4
  <2> HIDE DEF X
  <2>4. Cardinality(PoolOf(K)) = Cardinality(PoolOf(L)) + Cardinality(X)
    BY <2>1, <2>2, <2>3, Drawn
  <2> QED BY <2>1, <2>4
<1> QED BY <1>3, <1>4

LEMMA PlainSlot ==
  ASSUME NEW s \in Slot, ~InExit(s), ~InExit(s)', ~Unborn(s), ~Unborn(s)',
         tasks_ptr'[s] = tasks_ptr[s], page_dir'[s] = page_dir[s],
         \A j \in Entry : Holds'[<<s, j>>] = Holds[<<s, j>>]
  PROVE  /\ Kept[<<s, TheTask>>] = tasks_ptr[s] /\ Kept'[<<s, TheTask>>] = tasks_ptr[s]
         /\ Kept[<<s, TheTable>>] = page_dir[s] /\ Kept'[<<s, TheTable>>] = page_dir[s]
         /\ \A j \in Entry : Kept[<<s, j>>] = Holds[<<s, j>>] /\ Kept'[<<s, j>>] = Holds[<<s, j>>]
<1>1. KeptTask(s) = tasks_ptr[s] /\ KeptTable(s) = page_dir[s]
      /\ \A j \in Entry : KeptEntry(s, j) = Holds[<<s, j>>]
  BY DEF KeptTask, KeptTable, KeptEntry, Absent
<1>2. KeptTask(s)' = tasks_ptr[s] /\ KeptTable(s)' = page_dir[s]
      /\ \A j \in Entry : KeptEntry(s, j)' = Holds[<<s, j>>]
  BY DEF KeptTask, KeptTable, KeptEntry, Absent
<1>3. Kept[<<s, TheTask>>] = tasks_ptr[s] /\ Kept[<<s, TheTable>>] = page_dir[s]
      /\ \A j \in Entry : Kept[<<s, j>>] = Holds[<<s, j>>]
  BY <1>1, KeptNow
<1>4. Kept'[<<s, TheTask>>] = tasks_ptr[s] /\ Kept'[<<s, TheTable>>] = page_dir[s]
      /\ \A j \in Entry : Kept'[<<s, j>>] = Holds[<<s, j>>]
  BY <1>2, KeptThen
<1> QED BY <1>3, <1>4

LEMMA Task1Shown ==
  ASSUME IInv, IInv', SInv, InitTask1Paging
  PROVE  /\ AloneAtFirst' /\ TaskOneStays' /\ CopiedSoFar'
         /\ \/ Kept' = Kept
            \/ /\ \A s \in Slot \ {1} :
                    /\ Kept[<<s, TheTask>>] = None /\ Kept'[<<s, TheTask>>] = None
                    /\ Kept[<<s, TheTable>>] = Kept'[<<s, TheTable>>]
                    /\ \A j \in Entry : Kept[<<s, j>>] = Kept'[<<s, j>>]
               /\ Kept[<<1, TheTask>>] = None /\ Kept[<<1, TheTable>>] = None
               /\ \A j \in Entry : Kept[<<1, j>>] = None
               /\ Kept'[<<1, TheTask>>] \in Page /\ Kept'[<<1, TheTable>>] \in Page
               /\ \A j \in Entry : Kept'[<<1, j>>] = IF j \in Low THEN j ELSE None
<1>1. /\ pc = "task1" /\ child = 1 /\ page_dir[1] = None /\ tasks_ptr[1] \in Page
      /\ UNCHANGED <<tasks_ptr, current, child>>
      /\ page_dir \in [Slot -> Page \cup {None}] /\ page_tab \in [Page -> Table]
      /\ \A s \in Slot \ {1} : tasks_ptr[s] = None
  BY DEF InitTask1Paging, Panic, IInv, MTypeOK, Shape, Phase, SInv, AloneAtFirst
<1>2. CASE pc' = "init task1 failed" /\ UNCHANGED <<page_dir, page_tab>>
  <2>1. Holds' = Holds
    BY <1>1, <1>2, UnchangedPlaces
  <2>2. Kept' = Kept
    BY <1>1, <1>2, <2>1, WithinCall DEF Unborn, InFork, InExit
  <2>3. AloneAtFirst' /\ TaskOneStays' /\ CopiedSoFar'
    BY <1>1, <1>2 DEF AloneAtFirst, TaskOneStays, CopiedSoFar
  <2> QED BY <2>2, <2>3
<1>3. ASSUME NEW p \in FreeFrames, page_dir' = [page_dir EXCEPT ![1] = p],
             page_tab' = [page_tab EXCEPT ![p] = Identity], pc' = "user"
      PROVE  /\ AloneAtFirst' /\ TaskOneStays' /\ CopiedSoFar'
             /\ \A s \in Slot \ {1} :
                  /\ Kept[<<s, TheTask>>] = None /\ Kept'[<<s, TheTask>>] = None
                  /\ Kept[<<s, TheTable>>] = Kept'[<<s, TheTable>>]
                  /\ \A j \in Entry : Kept[<<s, j>>] = Kept'[<<s, j>>]
             /\ Kept[<<1, TheTask>>] = None /\ Kept[<<1, TheTable>>] = None
             /\ \A j \in Entry : Kept[<<1, j>>] = None
             /\ Kept'[<<1, TheTask>>] \in Page /\ Kept'[<<1, TheTable>>] \in Page
             /\ \A j \in Entry : Kept'[<<1, j>>] = IF j \in Low THEN j ELSE None
  <2>1. p \in Page /\ p # None /\ 1 \in Slot /\ \A s \in Slot : page_dir[s] # p
    BY FreeNotHeld, Sorts
  <2>2. page_dir'[1] = p /\ page_tab'[p] = Identity
        /\ \A s \in Slot \ {1} : page_dir'[s] = page_dir[s]
    BY <1>1, <1>3, <2>1
  <2>3. \A s \in Slot \ {1}, j \in Entry : Holds'[<<s, j>>] = Holds[<<s, j>>]
    <3>1. \A s \in Slot \ {1} : page_dir[s] # None => page_tab'[page_dir[s]] = page_tab[page_dir[s]]
      BY <1>1, <1>3, <2>1
    <3> QED BY <2>2, <3>1, SameEntries
  <2>4. \A j \in Entry : Holds'[<<1, j>>] = IF j \in Low THEN j ELSE None
    <3>1. \A j \in Entry : Holds'[<<1, j>>] = Identity[j]
      BY <2>1, <2>2, HoldsEntry
    <3> QED BY <3>1 DEF Identity
  <2>5. \A s \in Slot : ~InExit(s) /\ ~InExit(s)' /\ ~Unborn(s)' /\ (Unborn(s) <=> s = 1)
    BY <1>1, <1>3 DEF Unborn, InFork, InExit
  <2>6. \A s \in Slot \ {1} :
          /\ Kept[<<s, TheTask>>] = None /\ Kept'[<<s, TheTask>>] = None
          /\ Kept[<<s, TheTable>>] = Kept'[<<s, TheTable>>]
          /\ \A j \in Entry : Kept[<<s, j>>] = Kept'[<<s, j>>]
    <3> SUFFICES ASSUME NEW s \in Slot, s # 1
                 PROVE  /\ Kept[<<s, TheTask>>] = None /\ Kept'[<<s, TheTask>>] = None
                        /\ Kept[<<s, TheTable>>] = Kept'[<<s, TheTable>>]
                        /\ \A j \in Entry : Kept[<<s, j>>] = Kept'[<<s, j>>]
      OBVIOUS
    <3>1. tasks_ptr'[s] = tasks_ptr[s] /\ tasks_ptr[s] = None
      BY <1>1
    <3>2. page_dir'[s] = page_dir[s] /\ \A j \in Entry : Holds'[<<s, j>>] = Holds[<<s, j>>]
      BY <2>2, <2>3
    <3>3. ~InExit(s) /\ ~InExit(s)' /\ ~Unborn(s) /\ ~Unborn(s)'
      BY <2>5
    <3> QED BY <3>1, <3>2, <3>3, PlainSlot
  <2>7. /\ Kept[<<1, TheTask>>] = None /\ Kept[<<1, TheTable>>] = None
        /\ \A j \in Entry : Kept[<<1, j>>] = None
    BY <2>1, <2>5, KeptNow DEF KeptTask, KeptTable, KeptEntry, Absent
  <2>8. /\ Kept'[<<1, TheTask>>] = tasks_ptr[1] /\ Kept'[<<1, TheTable>>] = p
        /\ \A j \in Entry : Kept'[<<1, j>>] = Holds'[<<1, j>>]
    BY <1>1, <2>1, <2>2, <2>5, KeptThen DEF KeptTask, KeptTable, KeptEntry, Absent
  <2>9. AloneAtFirst' /\ TaskOneStays' /\ CopiedSoFar'
    BY <1>3, <2>4, Sorts DEF AloneAtFirst, TaskOneStays, CopiedSoFar
  <2> QED BY <1>1, <2>1, <2>4, <2>6, <2>7, <2>8, <2>9
<1> QED BY <1>1, <1>2, <1>3 DEF InitTask1Paging, Panic

(* The last turn of the copying loop: the child is there.                  *)
LEMMA CopyShown ==
  ASSUME IInv, IInv', SInv, CopyEntry, pc' = "user"
  PROVE  /\ child \in Slot /\ current \in Slot \ {child}
         /\ \A s \in Slot \ {child} :
              /\ Kept[<<s, TheTask>>] = Kept'[<<s, TheTask>>]
              /\ Kept[<<s, TheTable>>] = Kept'[<<s, TheTable>>]
              /\ \A j \in Entry : Kept[<<s, j>>] = Kept'[<<s, j>>]
         /\ Kept[<<child, TheTask>>] = None /\ Kept[<<child, TheTable>>] = None
         /\ \A j \in Entry : Kept[<<child, j>>] = None
         /\ Kept'[<<child, TheTask>>] \in Page /\ Kept'[<<child, TheTable>>] \in Page
         /\ \A j \in Entry : Kept'[<<child, j>>] = None <=> Kept[<<current, j>>] = None
         /\ \A j \in Entry : Kept'[<<child, j>>] \in Page \cup {None}
         /\ Kept[<<current, TheTask>>] # None /\ Kept[<<current, TheTable>>] # None
<1>1. /\ pc = "copy" /\ child \in Slot \ {1} /\ current \in Slot \ {child}
      /\ page_dir[child] \in Page /\ page_dir[current] \in Page /\ tasks_ptr[child] \in Page
      /\ UNCHANGED <<tasks_ptr, page_dir, current, child>>
  BY CopyEntryEffect
<1>2. \A s \in Slot \ {child}, j \in Entry : Holds'[<<s, j>>] = Holds[<<s, j>>]
  BY CopyEntryEffect
<1>3. \A j \in Entry : Holds'[<<child, j>>] = None <=> Holds[<<current, j>>] = None
  BY <1>1, <1>2, CopyEntryHidden
<1>4. \A s \in Slot : ~InExit(s) /\ ~InExit(s)' /\ ~Unborn(s)' /\ (Unborn(s) <=> s = child)
  BY <1>1 DEF Unborn, InFork, InExit
<1>5. \A s \in Slot \ {child} :
        /\ Kept[<<s, TheTask>>] = tasks_ptr[s] /\ Kept'[<<s, TheTask>>] = tasks_ptr[s]
        /\ Kept[<<s, TheTable>>] = page_dir[s] /\ Kept'[<<s, TheTable>>] = page_dir[s]
        /\ \A j \in Entry : Kept[<<s, j>>] = Holds[<<s, j>>] /\ Kept'[<<s, j>>] = Holds[<<s, j>>]
  BY <1>1, <1>2, <1>4, PlainSlot
<1>6. /\ Kept[<<child, TheTask>>] = None /\ Kept[<<child, TheTable>>] = None
      /\ \A j \in Entry : Kept[<<child, j>>] = None
  BY <1>1, <1>4, KeptNow DEF KeptTask, KeptTable, KeptEntry, Absent
<1>7. /\ Kept'[<<child, TheTask>>] = tasks_ptr[child] /\ Kept'[<<child, TheTable>>] = page_dir[child]
      /\ \A j \in Entry : Kept'[<<child, j>>] = Holds'[<<child, j>>]
  BY <1>1, <1>4, KeptThen DEF KeptTask, KeptTable, KeptEntry, Absent
<1>8. \A j \in Entry : Holds'[<<child, j>>] \in Page \cup {None}
  <2>1. ASSUME NEW j \in Entry PROVE Holds'[<<child, j>>] \in Low \cup Page \cup {None}
    <3>1. page_dir'[child] = page_dir[child] /\ page_tab' \in [Page -> Table]
      BY <1>1 DEF IInv, MTypeOK
    <3>2. page_tab'[page_dir[child]] \in Table
      BY <1>1, <3>1
    <3>3. Holds'[<<child, j>>] = page_tab'[page_dir[child]][j]
      BY <1>1, <3>1, HoldsEntry, Sorts
    <3> QED BY <3>2, <3>3 DEF Table
  <2> QED BY <1>1, <2>1 DEF IInv, Shape, LowIsTaskOnes
<1>9. tasks_ptr[current] # None
  BY <1>1, Sorts DEF IInv, Shape, TablesHaveTasks
<1>10. \A j \in Entry : Kept'[<<child, j>>] = None <=> Kept[<<current, j>>] = None
  BY <1>1, <1>3, <1>5, <1>7, ZenonT(40)
<1>11. \A s \in Slot \ {child} :
         /\ Kept[<<s, TheTask>>] = Kept'[<<s, TheTask>>]
         /\ Kept[<<s, TheTable>>] = Kept'[<<s, TheTable>>]
         /\ \A j \in Entry : Kept[<<s, j>>] = Kept'[<<s, j>>]
  BY <1>5
<1>12. Kept[<<current, TheTask>>] # None /\ Kept[<<current, TheTable>>] # None
  BY <1>1, <1>5, <1>9, Sorts
<1>13. \A j \in Entry : Kept'[<<child, j>>] \in Page \cup {None}
  BY <1>7, <1>8
<1> QED BY <1>1, <1>6, <1>7, <1>10, <1>11, <1>12, <1>13

LEMMA ExitShown ==
  ASSUME IInv, SInv, NEW t \in Slot, Exit(t)
  PROVE  /\ AloneAtFirst' /\ TaskOneStays' /\ CopiedSoFar'
         /\ t = 1 => Kept' = Kept
         /\ t # 1 =>
              /\ \A s \in Slot \ {t} :
                   /\ Kept'[<<s, TheTask>>] = Kept[<<s, TheTask>>]
                   /\ Kept'[<<s, TheTable>>] = Kept[<<s, TheTable>>]
                   /\ \A j \in Entry : Kept'[<<s, j>>] = Kept[<<s, j>>]
              /\ Kept[<<t, TheTask>>] # None /\ Kept'[<<t, TheTask>>] = Kept[<<t, TheTask>>]
              /\ Kept[<<t, TheTable>>] \in Page /\ Kept'[<<t, TheTable>>] = None
              /\ \A j \in Entry : Kept[<<t, j>>] \in Page \cup {None} /\ Kept'[<<t, j>>] = None
<1>1. /\ pc = "user" /\ pc' = "exit" /\ current' = t /\ next' = 0 /\ t \notin dead /\ tasks_ptr[t] # None
      /\ UNCHANGED <<tasks_ptr, page_dir, page_tab, child>>
  BY DEF Exit, Runs, Slot
<1>2. Holds' = Holds
  BY <1>1, UnchangedPlaces
<1>3. \A s \in Slot : ~InExit(s) /\ (InExit(s)' <=> s = t /\ t # 1) /\ ~Unborn(s)' /\ ~Unborn(s)
  BY <1>1 DEF Unborn, InFork, InExit
<1>4. AloneAtFirst' /\ TaskOneStays' /\ CopiedSoFar'
  BY <1>1, <1>2 DEF AloneAtFirst, TaskOneStays, CopiedSoFar, SInv
<1>5. t = 1 => Kept' = Kept
  BY <1>1, <1>2, <1>3, WithinCall
<1>6. ASSUME t # 1
      PROVE  /\ \A s \in Slot \ {t} :
                  /\ Kept'[<<s, TheTask>>] = Kept[<<s, TheTask>>]
                  /\ Kept'[<<s, TheTable>>] = Kept[<<s, TheTable>>]
                  /\ \A j \in Entry : Kept'[<<s, j>>] = Kept[<<s, j>>]
             /\ Kept[<<t, TheTask>>] # None /\ Kept'[<<t, TheTask>>] = Kept[<<t, TheTask>>]
             /\ Kept[<<t, TheTable>>] \in Page /\ Kept'[<<t, TheTable>>] = None
             /\ \A j \in Entry : Kept[<<t, j>>] \in Page \cup {None} /\ Kept'[<<t, j>>] = None
  <2>1. \A s \in Slot \ {t} :
          /\ Kept'[<<s, TheTask>>] = Kept[<<s, TheTask>>]
          /\ Kept'[<<s, TheTable>>] = Kept[<<s, TheTable>>]
          /\ \A j \in Entry : Kept'[<<s, j>>] = Kept[<<s, j>>]
    BY <1>1, <1>2, <1>3, PlainSlot, ZenonT(40)
  <2>2. /\ Kept[<<t, TheTask>>] = tasks_ptr[t] /\ Kept[<<t, TheTable>>] = page_dir[t]
        /\ \A j \in Entry : Kept[<<t, j>>] = Holds[<<t, j>>]
    BY <1>3, KeptNow DEF KeptTask, KeptTable, KeptEntry, Absent
  <2>3. /\ Kept'[<<t, TheTask>>] = tasks_ptr[t] /\ Kept'[<<t, TheTable>>] = None
        /\ \A j \in Entry : Kept'[<<t, j>>] = None
    BY <1>1, <1>3, <1>6, KeptThen DEF KeptTask, KeptTable, KeptEntry, Absent
  <2>4. page_dir[t] \in Page
    BY <1>1 DEF IInv, MTypeOK, Shape, LiveHaveTables, Half, Calls
  <2>5. ASSUME NEW j \in Entry PROVE Holds[<<t, j>>] \in Page \cup {None}
    <3>1. page_tab[page_dir[t]] \in Table
      BY <2>4 DEF IInv, MTypeOK
    <3>2. Holds[<<t, j>>] = page_tab[page_dir[t]][j]
      BY <2>4, HoldsEntry, Sorts
    <3>3. Holds[<<t, j>>] \in Low \cup Page \cup {None}
      BY <3>1, <3>2 DEF Table
    <3> QED BY <1>6, <3>3 DEF IInv, Shape, LowIsTaskOnes
  <2> QED BY <1>1, <2>1, <2>2, <2>3, <2>4, <2>5
<1> QED BY <1>4, <1>5, <1>6

-----------------------------------------------------------------------------
(* The refinement.                                                         *)
SpaceOf(K) == [s \in Slot |-> {j \in Entry : K[<<s, j>>] # None}]
PresentOf(K) == {s \in Slot : K[<<s, TheTask>>] # None}
FreeOf(K) == Cardinality(PoolOf(K))

LEMMA Seen ==
  IInv => /\ [s \in Slot |-> IF InExit(s) \/ (InFork /\ s = child) THEN {} ELSE Mapped(s)] = SpaceOf(Kept)
          /\ {s \in Slot : tasks_ptr[s] # None /\ ~(InFork /\ s = child)} = PresentOf(Kept)
          /\ Cardinality(FreeFrames \cup InFlight) = FreeOf(Kept)
<1> SUFFICES ASSUME IInv
             PROVE  /\ [s \in Slot |-> IF InExit(s) \/ (InFork /\ s = child) THEN {} ELSE Mapped(s)] = SpaceOf(Kept)
                    /\ {s \in Slot : tasks_ptr[s] # None /\ ~(InFork /\ s = child)} = PresentOf(Kept)
                    /\ Cardinality(FreeFrames \cup InFlight) = FreeOf(Kept)
  OBVIOUS
<1>1. ASSUME NEW s \in Slot
      PROVE  (IF InExit(s) \/ (InFork /\ s = child) THEN {} ELSE Mapped(s)) = {j \in Entry : Kept[<<s, j>>] # None}
  <2>1. \A j \in Entry : Kept[<<s, j>>] = KeptEntry(s, j)
    BY KeptNow
  <2>2. CASE Absent(s)
    BY <2>1, <2>2 DEF KeptEntry, Absent, Unborn
  <2>3. CASE ~Absent(s)
    BY <2>1, <2>3 DEF KeptEntry, Absent, Unborn, Mapped
  <2> QED BY <2>2, <2>3
<1>2. ASSUME NEW s \in Slot
      PROVE  tasks_ptr[s] # None /\ ~(InFork /\ s = child) <=> Kept[<<s, TheTask>>] # None
  BY KeptNow DEF KeptTask, Unborn
<1>3. Cardinality(FreeFrames \cup InFlight) = FreeOf(Kept)
  BY PoolIs DEF FreeOf
<1>4. [s \in Slot |-> IF InExit(s) \/ (InFork /\ s = child) THEN {} ELSE Mapped(s)] = SpaceOf(Kept)
  BY <1>1 DEF SpaceOf
<1>5. {s \in Slot : tasks_ptr[s] # None /\ ~(InFork /\ s = child)} = PresentOf(Kept)
  BY <1>2 DEF PresentOf
<1> QED BY <1>3, <1>4, <1>5

LEMMA SeenThen ==
  (IInv => /\ [s \in Slot |-> IF InExit(s) \/ (InFork /\ s = child) THEN {} ELSE Mapped(s)] = SpaceOf(Kept)
           /\ {s \in Slot : tasks_ptr[s] # None /\ ~(InFork /\ s = child)} = PresentOf(Kept)
           /\ Cardinality(FreeFrames \cup InFlight) = FreeOf(Kept))'
BY Seen, PTL

(* AddressSpaces takes its Cardinality from FiniteSets on its own.         *)
LEMMA SameCount == \A S : Spaces!Cardinality(S) = Cardinality(S)
BY Zenon DEF Spaces!Cardinality, Cardinality

LEMMA HiddenStep ==
  ASSUME IInv, IInv', Kept' = Kept
  PROVE  UNCHANGED Spaces!spaceVars
BY Seen, SeenThen, ZenonT(40) DEF Spaces!spaceVars, SpaceOf, PresentOf, FreeOf

LEMMA UsedStill ==
  ASSUME SInv, Kept' = Kept
  PROVE  TablesAreUsed'
BY DEF SInv, TablesAreUsed

Remapped(K, L, c, M) == SpaceOf(L) = [SpaceOf(K) EXCEPT ![c] = M]

LEMMA SpaceSet ==
  ASSUME NEW K, NEW L, NEW c \in Slot, NEW M \in SUBSET Entry,
         \A s \in Slot \ {c} : \A j \in Entry : K[<<s, j>>] = L[<<s, j>>],
         \A j \in Entry : L[<<c, j>>] # None <=> j \in M
  PROVE  Remapped(K, L, c, M)
<1>1. ASSUME NEW s \in Slot
      PROVE  {j \in Entry : L[<<s, j>>] # None} = IF s = c THEN M ELSE {j \in Entry : K[<<s, j>>] # None}
  OBVIOUS
<1> QED BY <1>1 DEF SpaceOf, Remapped

LEMMA PresentSet ==
  ASSUME NEW K, NEW L, NEW c \in Slot,
         \A s \in Slot \ {c} : K[<<s, TheTask>>] = L[<<s, TheTask>>],
         K[<<c, TheTask>>] = None, L[<<c, TheTask>>] # None
  PROVE  PresentOf(L) = PresentOf(K) \cup {c} /\ c \notin PresentOf(K)
BY DEF PresentOf

LEMMA FirstForkStep ==
  ASSUME IInv, IInv',
         \A s \in Slot \ {1} :
            /\ Kept[<<s, TheTask>>] = None /\ Kept'[<<s, TheTask>>] = None
            /\ Kept[<<s, TheTable>>] = Kept'[<<s, TheTable>>]
            /\ \A j \in Entry : Kept[<<s, j>>] = Kept'[<<s, j>>],
         Kept[<<1, TheTask>>] = None, Kept[<<1, TheTable>>] = None,
         \A j \in Entry : Kept[<<1, j>>] = None,
         Kept'[<<1, TheTask>>] \in Page, Kept'[<<1, TheTable>>] \in Page,
         \A j \in Entry : Kept'[<<1, j>>] = IF j \in Low THEN j ELSE None
  PROVE  Spaces!ForkFirst
<1> DEFINE K == Kept
           L == Kept'
<1>1. Single(L) /\ \A x \in Place : L[x] \in Page => Marked(L[x])
  <2>1. (IInv => Single(Kept) /\ \A x \in Place : Kept[x] \in Page => Marked(Kept[x]))'
    BY KeptSound, PTL
  <2> QED BY <2>1 DEF Single, Marked
<1>2. \A j \in Entry : L[<<1, j>>] \in Page <=> j \in {}
  BY Sorts
<1>3. FreeOf(K) = FreeOf(L) + (2 + Cardinality({}))
  <2> HIDE DEF K, L
  <2>1. /\ \A s \in Slot \ {1} : /\ K[<<s, TheTask>>] = L[<<s, TheTask>>]
                                 /\ K[<<s, TheTable>>] = L[<<s, TheTable>>]
                                 /\ \A j \in Entry : K[<<s, j>>] = L[<<s, j>>]
        /\ K[<<1, TheTask>>] = None /\ K[<<1, TheTable>>] = None
        /\ \A j \in Entry : K[<<1, j>>] = None
        /\ L[<<1, TheTask>>] \in Page /\ L[<<1, TheTable>>] \in Page
    BY DEF K, L
  <2> QED BY <1>1, <1>2, <2>1, Sorts, WholeTask DEF FreeOf
<1>4. FreeOf(K) \in Nat /\ FreeOf(L) \in Nat /\ Cardinality({}) = 0
  BY PoolFinite, FS_EmptySet DEF FreeOf
<1>5. FreeOf(K) >= 2 /\ FreeOf(L) = FreeOf(K) - 2
  <2> HIDE DEF K, L
  <2> QED BY <1>3, <1>4
<1>6. PresentOf(K) = {} /\ PresentOf(L) = {1}
  <2>1. /\ \A s \in Slot : K[<<s, TheTask>>] = None
        /\ \A s \in Slot \ {1} : K[<<s, TheTask>>] = L[<<s, TheTask>>]
        /\ L[<<1, TheTask>>] # None
    BY Sorts
  <2> HIDE DEF K, L
  <2>2. PresentOf(K) = {}
    BY <2>1 DEF PresentOf
  <2> QED BY <2>1, <2>2, Sorts, PresentSet
<1>7. SpaceOf(L) = [SpaceOf(K) EXCEPT ![1] = Low]
  <2>1. \A s \in Slot \ {1} : \A j \in Entry : K[<<s, j>>] = L[<<s, j>>]
    OBVIOUS
  <2>2. \A j \in Entry : L[<<1, j>>] # None <=> j \in Low
    BY Sorts, ZenonT(40)
  <2>3. 1 \in Slot /\ Low \in SUBSET Entry
    BY Sorts
  <2> HIDE DEF K, L
  <2>4. Remapped(K, L, 1, Low)
    BY <2>1, <2>2, <2>3, SpaceSet
  <2> QED BY <2>4 DEF Remapped
<1> HIDE DEF K, L
<1>8. /\ [s \in Slot |-> IF InExit(s) \/ (InFork /\ s = child) THEN {} ELSE Mapped(s)] = SpaceOf(K)
      /\ {s \in Slot : tasks_ptr[s] # None /\ ~(InFork /\ s = child)} = PresentOf(K)
      /\ Cardinality(FreeFrames \cup InFlight) = FreeOf(K)
  BY Seen DEF K
<1>9. /\ [s \in Slot |-> IF InExit(s) \/ (InFork /\ s = child) THEN {} ELSE Mapped(s)]' = SpaceOf(L)
      /\ {s \in Slot : tasks_ptr[s] # None /\ ~(InFork /\ s = child)}' = PresentOf(L)
      /\ Cardinality(FreeFrames \cup InFlight)' = FreeOf(L)
  BY SeenThen DEF L, SpaceOf, PresentOf, FreeOf, PoolOf, Marked
<1> QED BY <1>5, <1>6, <1>7, <1>8, <1>9 DEF Spaces!ForkFirst

LEMMA ForkEndStep ==
  ASSUME IInv, IInv', SInv, CopyEntry, pc' = "user",
         NEW t \in Slot, NEW c \in Slot, t = current, c = child
  PROVE  TablesAreUsed' /\ Spaces!Fork(t, c)
<1> DEFINE K == Kept
           L == Kept'
           M == {j \in Entry : Kept[<<current, j>>] # None}
<1>1. Single(L) /\ \A x \in Place : L[x] \in Page => Marked(L[x])
  <2>1. (IInv => Single(Kept) /\ \A x \in Place : Kept[x] \in Page => Marked(Kept[x]))'
    BY KeptSound, PTL
  <2> QED BY <2>1 DEF Single, Marked
<1>2. /\ child \in Slot /\ current \in Slot \ {child} /\ M \in SUBSET Entry
      /\ \A s \in Slot \ {child} :
           /\ K[<<s, TheTask>>] = L[<<s, TheTask>>]
           /\ K[<<s, TheTable>>] = L[<<s, TheTable>>]
           /\ \A j \in Entry : K[<<s, j>>] = L[<<s, j>>]
      /\ K[<<child, TheTask>>] = None /\ K[<<child, TheTable>>] = None
      /\ \A j \in Entry : K[<<child, j>>] = None
      /\ L[<<child, TheTask>>] \in Page /\ L[<<child, TheTable>>] \in Page
      /\ K[<<current, TheTask>>] # None /\ K[<<current, TheTable>>] # None
  BY CopyShown
<1>3. \A j \in Entry : /\ L[<<child, j>>] \in Page <=> j \in M
                       /\ L[<<child, j>>] # None <=> j \in M
                       /\ K[<<current, j>>] # None <=> j \in M
  BY CopyShown, Sorts
<1>4. M # {}
  BY <1>2 DEF SInv, TablesAreUsed
<1>5. TablesAreUsed'
  <2>1. ASSUME NEW s \in Slot, L[<<s, TheTable>>] # None PROVE \E j \in Entry : L[<<s, j>>] # None
    <3>1. CASE s = child
      <4> HIDE DEF K, L, M
      <4> QED BY <1>2, <1>3, <1>4, <3>1
    <3>2. CASE s # child
      <4>1. \E j \in Entry : K[<<s, j>>] # None
        BY <1>2, <2>1, <3>2 DEF SInv, TablesAreUsed
      <4> HIDE DEF K, L, M
      <4> QED BY <1>2, <3>2, <4>1
    <3> QED BY <3>1, <3>2
  <2> QED BY <2>1 DEF TablesAreUsed
<1>6. /\ SpaceOf(K) = [s \in Slot |-> IF InExit(s) \/ (InFork /\ s = child) THEN {} ELSE Mapped(s)]
      /\ PresentOf(K) = {s \in Slot : tasks_ptr[s] # None /\ ~(InFork /\ s = child)}
      /\ FreeOf(K) = Cardinality(FreeFrames \cup InFlight)
  BY Seen
<1>7. /\ SpaceOf(L) = [s \in Slot |-> IF InExit(s) \/ (InFork /\ s = child) THEN {} ELSE Mapped(s)]'
      /\ PresentOf(L) = {s \in Slot : tasks_ptr[s] # None /\ ~(InFork /\ s = child)}'
      /\ FreeOf(L) = Cardinality(FreeFrames \cup InFlight)'
  BY SeenThen DEF SpaceOf, PresentOf, FreeOf, PoolOf, Marked
<1>8. SpaceOf(K)[current] = M
  BY <1>2 DEF SpaceOf
<1> HIDE DEF K, L, M
<1>9. FreeOf(K) = FreeOf(L) + (2 + Cardinality(M))
  <2>1. \A j \in Entry : L[<<child, j>>] \in Page <=> j \in M
    BY <1>3
  <2> QED BY <1>1, <1>2, <2>1, WholeTask DEF FreeOf
<1>10. FreeOf(K) \in Nat /\ FreeOf(L) \in Nat /\ Cardinality(M) \in Nat
  BY <1>2, PoolFinite, EntriesFinite DEF FreeOf
<1>11. FreeOf(K) >= 2 + Cardinality(M) /\ FreeOf(L) = FreeOf(K) - (2 + Cardinality(M))
  BY <1>9, <1>10
<1>12. PresentOf(L) = PresentOf(K) \cup {child} /\ child \notin PresentOf(K)
  <2>1. \A s \in Slot \ {child} : K[<<s, TheTask>>] = L[<<s, TheTask>>]
    BY <1>2
  <2>2. L[<<child, TheTask>>] # None
    BY <1>2, Sorts
  <2> QED BY <1>2, <2>1, <2>2, PresentSet
<1>13. SpaceOf(L) = [SpaceOf(K) EXCEPT ![child] = M]
  <2>1. \A s \in Slot \ {child} : \A j \in Entry : K[<<s, j>>] = L[<<s, j>>]
    BY <1>2
  <2>2. \A j \in Entry : L[<<child, j>>] # None <=> j \in M
    BY <1>3
  <2>3. child \in Slot /\ M \in SUBSET Entry
    BY <1>2
  <2>4. Remapped(K, L, child, M)
    BY <2>1, <2>2, <2>3, SpaceSet
  <2> QED BY <2>4 DEF Remapped
<1>14. current \in PresentOf(K)
  BY <1>2 DEF PresentOf
<1>15. Spaces!Fork(t, c)
  <2> DEFINE space == [s \in Slot |-> IF InExit(s) \/ (InFork /\ s = child) THEN {} ELSE Mapped(s)]
             present == {s \in Slot : tasks_ptr[s] # None /\ ~(InFork /\ s = child)}
             free == Cardinality(FreeFrames \cup InFlight)
  <2>1. /\ space = SpaceOf(K) /\ space' = SpaceOf(L) /\ present = PresentOf(K) /\ present' = PresentOf(L)
        /\ free = FreeOf(K) /\ free' = FreeOf(L)
    BY <1>6, <1>7
  <2> HIDE DEF space, present, free
  <2>2. /\ t \in present /\ c \notin present /\ space[t] # {}
        /\ free >= 2 + Spaces!Cardinality(space[t])
        /\ present' = present \cup {c}
        /\ space' = [space EXCEPT ![c] = space[t]]
        /\ free' = free - (2 + Spaces!Cardinality(space[t]))
    BY <2>1, <1>4, <1>8, <1>11, <1>12, <1>13, <1>14, SameCount
  <2> QED BY <2>2, Zenon DEF Spaces!Fork, space, present, free
<1> QED BY <1>5, <1>15

LEMMA ExitStep ==
  ASSUME IInv, IInv', SInv, NEW t \in Slot \ {1}, Exit(t)
  PROVE  TablesAreUsed' /\ Spaces!Exit(t)
<1> DEFINE K == Kept
           L == Kept'
           M == {j \in Entry : Kept[<<t, j>>] # None}
<1>1. Single(K) /\ \A x \in Place : K[x] \in Page => Marked(K[x])
  BY KeptSound
<1>2. /\ t \in Slot /\ t # 1 /\ M \in SUBSET Entry
      /\ \A s \in Slot \ {t} :
           /\ L[<<s, TheTask>>] = K[<<s, TheTask>>]
           /\ L[<<s, TheTable>>] = K[<<s, TheTable>>]
           /\ \A j \in Entry : L[<<s, j>>] = K[<<s, j>>]
      /\ K[<<t, TheTask>>] # None /\ L[<<t, TheTask>>] = K[<<t, TheTask>>]
      /\ K[<<t, TheTable>>] \in Page /\ L[<<t, TheTable>>] = None
      /\ \A j \in Entry : L[<<t, j>>] = None
  BY ExitShown
<1>3. \A j \in Entry : /\ K[<<t, j>>] \in Page <=> j \in M
                       /\ K[<<t, j>>] # None <=> j \in M
  BY ExitShown, Sorts
<1>4. M # {}
  BY <1>2, Sorts DEF SInv, TablesAreUsed
<1>5. TablesAreUsed'
  <2>1. ASSUME NEW s \in Slot, L[<<s, TheTable>>] # None PROVE \E j \in Entry : L[<<s, j>>] # None
    <3>1. s # t
      <4> HIDE DEF K, L, M
      <4> QED BY <1>2, <2>1
    <3>2. \E j \in Entry : K[<<s, j>>] # None
      BY <1>2, <2>1, <3>1 DEF SInv, TablesAreUsed
    <3> HIDE DEF K, L, M
    <3> QED BY <1>2, <3>1, <3>2
  <2> QED BY <2>1 DEF TablesAreUsed
<1>6. /\ SpaceOf(K) = [s \in Slot |-> IF InExit(s) \/ (InFork /\ s = child) THEN {} ELSE Mapped(s)]
      /\ PresentOf(K) = {s \in Slot : tasks_ptr[s] # None /\ ~(InFork /\ s = child)}
      /\ FreeOf(K) = Cardinality(FreeFrames \cup InFlight)
  BY Seen
<1>7. /\ SpaceOf(L) = [s \in Slot |-> IF InExit(s) \/ (InFork /\ s = child) THEN {} ELSE Mapped(s)]'
      /\ PresentOf(L) = {s \in Slot : tasks_ptr[s] # None /\ ~(InFork /\ s = child)}'
      /\ FreeOf(L) = Cardinality(FreeFrames \cup InFlight)'
  BY SeenThen DEF SpaceOf, PresentOf, FreeOf, PoolOf, Marked
<1>8. SpaceOf(K)[t] = M
  BY <1>2 DEF SpaceOf
<1> HIDE DEF K, L, M
<1>9. FreeOf(L) = FreeOf(K) + (1 + Cardinality(M))
  <2>1. \A j \in Entry : K[<<t, j>>] \in Page <=> j \in M
    BY <1>3
  <2> QED BY <1>1, <1>2, <2>1, WholeTask DEF FreeOf
<1>10. FreeOf(K) \in Nat /\ Cardinality(M) \in Nat
  BY <1>2, PoolFinite, EntriesFinite DEF FreeOf
<1>11. FreeOf(L) = FreeOf(K) + 1 + Cardinality(M)
  BY <1>9, <1>10
<1>12. PresentOf(L) = PresentOf(K)
  BY <1>2 DEF PresentOf
<1>13. SpaceOf(L) = [SpaceOf(K) EXCEPT ![t] = {}]
  <2>1. \A s \in Slot \ {t} : \A j \in Entry : K[<<s, j>>] = L[<<s, j>>]
    BY <1>2
  <2>2. \A j \in Entry : L[<<t, j>>] # None <=> j \in {}
    BY <1>2
  <2>3. {} \in SUBSET Entry
    OBVIOUS
  <2>4. t \in Slot
    OBVIOUS
  <2>5. Remapped(K, L, t, {})
    BY <2>1, <2>2, <2>3, <2>4, SpaceSet
  <2> QED BY <2>5 DEF Remapped
<1>14. t \in PresentOf(K) \ {1}
  BY <1>2 DEF PresentOf
<1>15. Spaces!Exit(t)
  <2> DEFINE space == [s \in Slot |-> IF InExit(s) \/ (InFork /\ s = child) THEN {} ELSE Mapped(s)]
             present == {s \in Slot : tasks_ptr[s] # None /\ ~(InFork /\ s = child)}
             free == Cardinality(FreeFrames \cup InFlight)
  <2>1. /\ space = SpaceOf(K) /\ space' = SpaceOf(L) /\ present = PresentOf(K) /\ present' = PresentOf(L)
        /\ free = FreeOf(K) /\ free' = FreeOf(L)
    BY <1>6, <1>7
  <2> HIDE DEF space, present, free
  <2>2. /\ t \in present \ {1} /\ space[t] # {}
        /\ space' = [space EXCEPT ![t] = {}]
        /\ free' = free + 1 + Spaces!Cardinality(space[t])
        /\ present' = present
    BY <2>1, <1>4, <1>8, <1>11, <1>12, <1>13, <1>14, SameCount
  <2> QED BY <2>2, Zenon DEF Spaces!Exit, space, present, free
<1> QED BY <1>5, <1>15

LEMMA SpacesStep ==
  ASSUME IInv, IInv', SInv, [MNext]_memVars
  PROVE  SInv' /\ [Spaces!SpacesNext]_(Spaces!spaceVars)
<1>1. ASSUME Kept' = Kept, AloneAtFirst', TaskOneStays', CopiedSoFar'
      PROVE  SInv' /\ [Spaces!SpacesNext]_(Spaces!spaceVars)
  <2>1. TablesAreUsed' /\ UNCHANGED Spaces!spaceVars
    BY <1>1, UsedStill, HiddenStep
  <2> QED BY <1>1, <2>1 DEF SInv
<1>2. CASE UNCHANGED memVars
  <2>1. Holds' = Holds
    BY <1>2, UnchangedPlaces DEF memVars
  <2>2. Kept' = Kept
    BY <1>2, <2>1, WithinCall DEF memVars, Unborn, InFork, InExit
  <2>3. AloneAtFirst' /\ TaskOneStays' /\ CopiedSoFar'
    BY <1>2, <2>1 DEF memVars, SInv, AloneAtFirst, TaskOneStays, CopiedSoFar
  <2> QED BY <1>1, <2>2, <2>3
<1>3. ASSUME NEW t \in {0} \cup Slot, NEW c \in Slot, Fork(t, c)
      PROVE  SInv' /\ [Spaces!SpacesNext]_(Spaces!spaceVars)
  BY <1>1, <1>3, ForkHidden
<1>4. CASE InitTask1Paging
  <2>1. CASE Kept' = Kept
    BY <1>1, <1>4, <2>1, Task1Shown
  <2>2. CASE Kept' # Kept
    <3>1. /\ AloneAtFirst' /\ TaskOneStays' /\ CopiedSoFar'
          /\ \A s \in Slot \ {1} :
               /\ Kept[<<s, TheTask>>] = None /\ Kept'[<<s, TheTask>>] = None
               /\ Kept[<<s, TheTable>>] = Kept'[<<s, TheTable>>]
               /\ \A j \in Entry : Kept[<<s, j>>] = Kept'[<<s, j>>]
          /\ Kept[<<1, TheTask>>] = None /\ Kept[<<1, TheTable>>] = None
          /\ \A j \in Entry : Kept[<<1, j>>] = None
          /\ Kept'[<<1, TheTask>>] \in Page /\ Kept'[<<1, TheTable>>] \in Page
          /\ \A j \in Entry : Kept'[<<1, j>>] = IF j \in Low THEN j ELSE None
      BY <1>4, <2>2, Task1Shown
    <3>2. Spaces!ForkFirst
      BY <3>1, FirstForkStep
    <3>3. TablesAreUsed'
      <4>1. Kept'[<<1, 0>>] # None
        BY <3>1, Sorts
      <4>2. \A s \in Slot \ {1} : Kept'[<<s, TheTable>>] # None => \E j \in Entry : Kept'[<<s, j>>] # None
        BY <3>1 DEF SInv, TablesAreUsed
      <4> QED BY <4>1, <4>2, Sorts DEF TablesAreUsed
    <3> QED BY <3>1, <3>2, <3>3 DEF SInv, Spaces!SpacesNext
  <2> QED BY <2>1, <2>2
<1>5. CASE CopyTable
  BY <1>1, <1>5, CopyTableHidden
<1>6. CASE CopyEntry
  <2>1. AloneAtFirst' /\ TaskOneStays' /\ CopiedSoFar'
    BY <1>6, CopyEntryHidden
  <2>2. CASE pc' # "user"
    BY <1>1, <1>6, <2>1, <2>2, CopyEntryHidden
  <2>3. CASE pc' = "user"
    <3>1. PICK t \in Slot, c \in Slot : t = current /\ c = child
      BY <1>6, <2>3, CopyShown
    <3>2. TablesAreUsed' /\ Spaces!Fork(t, c)
      BY <1>6, <2>3, <3>1, ForkEndStep
    <3>3. Spaces!SpacesNext
      BY <3>2, Zenon DEF Spaces!SpacesNext
    <3> QED BY <2>1, <3>2, <3>3 DEF SInv
  <2> QED BY <2>2, <2>3
<1>7. CASE FreeEntry
  BY <1>1, <1>7, FreeEntryHidden
<1>8. CASE FreeTable
  BY <1>1, <1>8, FreeTableHidden
<1>9. CASE FreeTask
  BY <1>1, <1>9, FreeTaskHidden
<1>10. CASE EndExit
  BY <1>1, <1>10, EndExitHidden
<1>11. ASSUME NEW t \in Slot, Exit(t)
       PROVE  SInv' /\ [Spaces!SpacesNext]_(Spaces!spaceVars)
  <2>1. AloneAtFirst' /\ TaskOneStays' /\ CopiedSoFar'
    BY <1>11, ExitShown
  <2>2. CASE t = 1
    BY <1>1, <1>11, <2>1, <2>2, ExitShown
  <2>3. CASE t # 1
    <3>1. TablesAreUsed' /\ Spaces!Exit(t)
      BY <1>11, <2>3, ExitStep
    <3> QED BY <2>1, <3>1 DEF SInv, Spaces!SpacesNext
  <2> QED BY <2>2, <2>3
<1> QED BY <1>2, <1>3, <1>4, <1>5, <1>6, <1>7, <1>8, <1>9, <1>10, <1>11 DEF MNext

LEMMA SpacesStart == MInit => SInv /\ Spaces!SpacesInit
<1> SUFFICES ASSUME MInit PROVE SInv /\ Spaces!SpacesInit
  OBVIOUS
<1>1. IInv
  BY MInitIInv
<1>2. \A s \in Slot : tasks_ptr[s] = None /\ page_dir[s] = None /\ pc = "user"
  BY DEF MInit
<1>3. \A s \in Slot : Kept[<<s, TheTask>>] = None /\ Kept[<<s, TheTable>>] = None
                      /\ \A j \in Entry : Kept[<<s, j>>] = None
  BY <1>2, HoldsNone, KeptNow, ZenonT(40) DEF KeptTask, KeptTable, KeptEntry
<1>4. SInv
  BY <1>2, <1>3, Sorts DEF SInv, AloneAtFirst, TaskOneStays, TablesAreUsed, CopiedSoFar
<1>5. PresentOf(Kept) = {} /\ SpaceOf(Kept) = [s \in Slot |-> {}] /\ FreeOf(Kept) \in Nat
  BY <1>3, PoolFinite DEF PresentOf, SpaceOf, FreeOf
<1>6. Spaces!SpacesInit
  BY <1>1, <1>5, Seen DEF Spaces!SpacesInit
<1> QED BY <1>4, <1>6

(* Fork gives the child the parent's address space on pages of its own, or *)
(* changes nothing; exit gives back all but the page of the task.          *)
THEOREM SpacesImplemented == MSpec => ImplementsSpaces
<1>1. IInv /\ IInv' /\ SInv /\ [MNext]_memVars => SInv' /\ [Spaces!SpacesNext]_(Spaces!spaceVars)
  BY SpacesStep
<1> QED BY <1>1, SpacesStart, MemoryInvariant, PTL DEF MSpec, ImplementsSpaces, Spaces!SpacesSpec

=============================================================================
