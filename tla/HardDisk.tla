------------------------------ MODULE HardDisk ------------------------------
(***************************************************************************)
(* Block requests (driver/ll_rw_blk.c) and the driver of the hard disk     *)
(* (driver/hd.c): the request table, the queue, retries, resets.           *)
(*                                                                         *)
(* A buffer is named by the block it holds, and stands for the call that   *)
(* locked it.  The queue, a list linked by `next', is the sequence of the  *)
(* entries reached from req_q.  Sectors are counted from the start of the  *)
(* partition; the cylinder and head they come to are left out.  Interrupts *)
(* are disabled while the driver runs (pc = "repeat").                     *)
(***************************************************************************)
EXTENDS Integers, Sequences

CONSTANTS
  NUMBER_OF_REQUESTS,
  MAX_ERRORS,
  Buffer,    (* blocks that somebody reads or writes                       *)
  nr_sects   (* sectors of the partition                                   *)

ASSUME DiskAssumption ==
  /\ NUMBER_OF_REQUESTS \in Nat \ {0} /\ MAX_ERRORS \in Nat \ {0}
  /\ Buffer \subseteq Nat /\ Buffer # {} /\ nr_sects \in Nat

VARIABLES
  request,     (* the table: dev, cmd, errors, sector, nr_sector, bh, and  *)
               (* how many sectors `buffer' is into b_data                 *)
  req_q,       (* the queue                                                *)
  b_lock, b_uptodate, b_dirt,   (* of each buffer_head                     *)
  at,          (* where the call that locked a buffer is in make_request   *)
  rw,          (* what it is to do                                         *)
  reset, recalibrate, do_hd,
  pc,          (* "idle", "repeat" (in do_hd_request), or how it stopped   *)
  drive,       (* the command the controller is busy with                  *)
  prepared,    (* how much of reset and restore followed the last error    *)
  copied       (* the sectors moved for a buffer: on the disk, in b_data   *)

reqVars == <<request, req_q, b_lock, b_uptodate, at>>
ctlVars == <<reset, recalibrate, do_hd, pc, drive, prepared, copied>>
diskVars == <<reqVars, b_dirt, rw, ctlVars>>

Entries == 0 .. NUMBER_OF_REQUESTS - 1
Commands == {"READ", "WRITE"}
NoDrive == [op |-> "none", sector |-> 0, left |-> 0]

CURR_REQ == Head(req_q)
bh == request[CURR_REQ].bh

-----------------------------------------------------------------------------
(* make_request().  The lock is free when the call gets it; waiting for it *)
(* is in the module WaitQueue.  The kernel is not preempted: while one     *)
(* call looks through the table, no other does.                            *)
InKernel == pc = "idle" /\ \A b \in Buffer : at[b] \notin {"scan", "full"}

MakeRequest(b, cmd) ==
  /\ InKernel /\ ~b_lock[b]
  /\ IF cmd = "WRITE" THEN b_dirt[b] ELSE ~b_uptodate[b]
  /\ b_lock' = [b_lock EXCEPT ![b] = TRUE]
  /\ rw' = [rw EXCEPT ![b] = cmd]
  /\ at' = [at EXCEPT ![b] = "scan"]
  /\ UNCHANGED <<request, req_q, b_uptodate, b_dirt, ctlVars>>

Idle(e) == request[e].dev = -1

NewRequest(b, cmd) ==
  [dev |-> 0, cmd |-> cmd, errors |-> 0, sector |-> 2 * b, nr_sector |-> 2, bh |-> b, buffer |-> 0]

(* Wrong variant: the entry goes to the front, before the one in work.     *)
AddRequestFirst(b) ==
  /\ pc = "idle" /\ at[b] = "scan"
  /\ \E e \in Entries :
       /\ Idle(e) /\ \A f \in Entries : Idle(f) => f <= e
       /\ request' = [request EXCEPT ![e] = NewRequest(b, rw[b])]
       /\ req_q' = IF req_q = <<>> THEN req_q ELSE <<e>> \o req_q
  /\ b_dirt' = [b_dirt EXCEPT ![b] = FALSE]
  /\ at' = [at EXCEPT ![b] = "done"]
  /\ copied' = [copied EXCEPT ![b] = {}]
  /\ pc' = IF req_q = <<>> THEN "repeat" ELSE pc
  /\ UNCHANGED <<b_lock, b_uptodate, rw, reset, recalibrate, do_hd, drive, prepared>>

(* The entry is filled in, and add_request() puts it at the end of the     *)
(* queue; or, when the queue is empty, nowhere, and starts the driver.     *)
AddRequest(b) ==
  /\ pc = "idle" /\ at[b] = "scan"
  /\ \E e \in Entries :
       /\ Idle(e) /\ \A f \in Entries : Idle(f) => f <= e
       /\ request' = [request EXCEPT ![e] = NewRequest(b, rw[b])]
       /\ req_q' = IF req_q = <<>> THEN req_q ELSE Append(req_q, e)
  /\ b_dirt' = [b_dirt EXCEPT ![b] = FALSE]
  /\ at' = [at EXCEPT ![b] = "done"]
  /\ copied' = [copied EXCEPT ![b] = {}]
  /\ pc' = IF req_q = <<>> THEN "repeat" ELSE pc
  /\ UNCHANGED <<b_lock, b_uptodate, rw, reset, recalibrate, do_hd, drive, prepared>>

(* No entry is idle; sleep_on(&wait_for_request), with interrupts enabled  *)
(* up to the point where the task is on the queue; and the next try.       *)
NoEntry(b) ==
  /\ pc = "idle" /\ at[b] = "scan" /\ \A e \in Entries : ~Idle(e)
  /\ at' = [at EXCEPT ![b] = "full"]
  /\ UNCHANGED <<request, req_q, b_lock, b_uptodate, b_dirt, rw, ctlVars>>

SleepOn(b) ==
  /\ pc = "idle" /\ at[b] = "full"
  /\ at' = [at EXCEPT ![b] = "asleep"]
  /\ UNCHANGED <<request, req_q, b_lock, b_uptodate, b_dirt, rw, ctlVars>>

ScanAgain(b) ==
  /\ InKernel /\ at[b] = "woken"
  /\ at' = [at EXCEPT ![b] = "scan"]
  /\ UNCHANGED <<request, req_q, b_lock, b_uptodate, b_dirt, rw, ctlVars>>

(* Whoever uses the buffer changes the data in it.                         *)
Modify(b) ==
  /\ InKernel /\ ~b_lock[b] /\ b_uptodate[b] /\ ~b_dirt[b]
  /\ b_dirt' = [b_dirt EXCEPT ![b] = TRUE]
  /\ UNCHANGED <<reqVars, rw, ctlVars>>

-----------------------------------------------------------------------------
(* end_request(uptodate), the table being rq by then.  Each task woken     *)
(* from wait_for_request wakes the one behind it.                          *)

(* Wrong variant: the entry is not marked idle.                            *)
EndRequestKept(rq, uptodate) ==
  /\ request' = rq
  /\ b_uptodate' = [b_uptodate EXCEPT ![bh] = uptodate]
  /\ b_lock' = [b_lock EXCEPT ![bh] = FALSE]
  /\ at' = [b \in Buffer |-> IF at[b] = "asleep" THEN "woken" ELSE at[b]]
  /\ req_q' = Tail(req_q)

EndRequest(rq, uptodate) ==
  /\ request' = [rq EXCEPT ![CURR_REQ].dev = -1]
  /\ b_uptodate' = [b_uptodate EXCEPT ![bh] = uptodate]
  /\ b_lock' = [b_lock EXCEPT ![bh] = FALSE]
  /\ at' = [b \in Buffer |-> IF at[b] = "asleep" THEN "woken" ELSE at[b]]
  /\ req_q' = Tail(req_q)

OneMoreError == [request EXCEPT ![CURR_REQ].errors = @ + 1]

(* errors of whatever CURR_REQ is after end_request(): with an empty queue *)
(* it is read at address 8, an entry of the page directory.                *)
ErrorsOfNext == IF Tail(req_q) = <<>> THEN MAX_ERRORS ELSE request[Head(Tail(req_q))].errors

(* Wrong variant: the controller is never reset.                           *)
BadRwIntrNoReset ==
  /\ IF request[CURR_REQ].errors + 1 >= MAX_ERRORS
       THEN EndRequest(OneMoreError, FALSE)
       ELSE request' = OneMoreError /\ UNCHANGED <<req_q, b_lock, b_uptodate, at>>
  /\ prepared' = "no"
  /\ UNCHANGED reset

BadRwIntr ==
  /\ IF request[CURR_REQ].errors + 1 >= MAX_ERRORS
       THEN /\ EndRequest(OneMoreError, FALSE)
            /\ reset' = (reset \/ ErrorsOfNext > MAX_ERRORS \div 2)
       ELSE /\ request' = OneMoreError
            /\ reset' = (reset \/ request[CURR_REQ].errors + 1 > MAX_ERRORS \div 2)
            /\ UNCHANGED <<req_q, b_lock, b_uptodate, at>>
  /\ prepared' = "no"

-----------------------------------------------------------------------------
(* do_hd_request(), one turn of its loop.  It ends when the queue is empty *)
(* or the controller has a command that it will answer.                    *)
HdOut(op, sector, left, intr_addr) ==
  /\ drive' = [op |-> op, sector |-> sector, left |-> left]
  /\ do_hd' = intr_addr

(* The two panics at the top of the function are not there to be taken, as *)
(* the invariant BlocksAreLocked shows.                                    *)
Running == pc = "repeat" /\ req_q # <<>>

(* Wrong variant: one sector too early.                                    *)
OutOfRangeEarly == request[CURR_REQ].sector + 2 >= nr_sects

(* The minor of dev is that of a partition that the drives have; any other *)
(* minor is refused here as well.                                          *)
OutOfRange == request[CURR_REQ].sector + 2 > nr_sects

QueueEmpty ==
  /\ pc = "repeat" /\ req_q = <<>>
  /\ pc' = "idle"
  /\ UNCHANGED <<reqVars, b_dirt, rw, reset, recalibrate, do_hd, drive, prepared, copied>>

RefuseRequest ==
  /\ Running /\ OutOfRange
  /\ EndRequest(request, FALSE)
  /\ UNCHANGED <<b_dirt, rw, ctlVars>>

(* Every hd_out() below first waits for the controller, and gives up.      *)
NotReady ==
  /\ Running /\ ~OutOfRange
  /\ pc' = "HD controller not ready"
  /\ UNCHANGED <<reqVars, b_dirt, rw, reset, recalibrate, do_hd, drive, prepared, copied>>

ResetHd ==
  /\ Running /\ ~OutOfRange /\ reset
  /\ reset' = FALSE /\ recalibrate' = TRUE
  /\ HdOut("init", 0, 0, "recal_intr")
  /\ prepared' = "reset"
  /\ pc' = "idle"
  /\ UNCHANGED <<reqVars, b_dirt, rw, copied>>

Restore ==
  /\ Running /\ ~OutOfRange /\ ~reset /\ recalibrate
  /\ recalibrate' = FALSE
  /\ HdOut("restore", 0, 0, "recal_intr")
  /\ prepared' = IF prepared = "reset" THEN "restored" ELSE prepared
  /\ pc' = "idle"
  /\ UNCHANGED <<reqVars, b_dirt, rw, reset, copied>>

Transfers(cmd) ==
  Running /\ ~OutOfRange /\ ~reset /\ ~recalibrate /\ request[CURR_REQ].cmd = cmd

StartRead ==
  /\ Transfers("READ")
  /\ HdOut("READ", request[CURR_REQ].sector, request[CURR_REQ].nr_sector, "read_intr")
  /\ pc' = "idle"
  /\ UNCHANGED <<reqVars, b_dirt, rw, reset, recalibrate, prepared, copied>>

(* A sector goes from or to the place in b_data that `buffer' points at.   *)
Move(sector, buffer) == copied' = [copied EXCEPT ![bh] = @ \cup {<<sector, buffer>>}]

StartWrite ==
  /\ Transfers("WRITE")
  /\ HdOut("WRITE", request[CURR_REQ].sector, request[CURR_REQ].nr_sector, "write_intr")
  /\ Move(request[CURR_REQ].sector, request[CURR_REQ].buffer)
  /\ pc' = "idle"
  /\ UNCHANGED <<reqVars, b_dirt, rw, reset, recalibrate, prepared>>

(* The controller does not ask for the data.  It may still interrupt to    *)
(* say what was wrong, unless another command comes first.                 *)
NoDataRequest ==
  /\ Transfers("WRITE")
  /\ HdOut("late", 0, 0, "write_intr")
  /\ BadRwIntr
  /\ UNCHANGED <<b_dirt, rw, recalibrate, pc, copied>>

-----------------------------------------------------------------------------
(* The interrupt: do_hd is set to NULL and what it was is called.          *)
Interrupt(ops) == pc = "idle" /\ drive.op \in ops

(* Wrong variant: the handler returns without calling do_hd_request().     *)
CommandFailsForGood ==
  /\ Interrupt({"init", "restore", "READ", "WRITE"}) /\ do_hd # "NULL"
  /\ BadRwIntr
  /\ do_hd' = "NULL" /\ drive' = NoDrive
  /\ UNCHANGED <<b_dirt, rw, recalibrate, pc, copied>>

(* read_intr, write_intr and recal_intr when cmd_result() is bad.          *)
CommandFails ==
  /\ Interrupt({"init", "restore", "READ", "WRITE"}) /\ do_hd # "NULL"
  /\ BadRwIntr
  /\ do_hd' = "NULL" /\ drive' = NoDrive
  /\ pc' = "repeat"
  /\ UNCHANGED <<b_dirt, rw, recalibrate, copied>>

RecalIntr ==
  /\ Interrupt({"init", "restore"}) /\ do_hd = "recal_intr"
  /\ do_hd' = "NULL" /\ drive' = NoDrive
  /\ pc' = "repeat"
  /\ UNCHANGED <<reqVars, b_dirt, rw, reset, recalibrate, prepared, copied>>

(* One sector is over, with `rq' what is left of the request.              *)
NextSector(rq) ==
  /\ request' = rq
  /\ drive' = [drive EXCEPT !.sector = @ + 1, !.left = @ - 1]
  /\ UNCHANGED <<req_q, b_lock, b_uptodate, at, do_hd, pc>>

LastSector(rq) ==
  /\ EndRequest(rq, TRUE)
  /\ drive' = NoDrive
  /\ do_hd' = "NULL"
  /\ pc' = "repeat"

SectorRead ==
  LET r == request[CURR_REQ]
  IN  [request EXCEPT ![CURR_REQ] = [r EXCEPT !.errors = 0, !.buffer = r.buffer + 1,
                                              !.sector = r.sector + 1, !.nr_sector = r.nr_sector - 1]]

(* Wrong variant: do_hd stays NULL for the second sector.                  *)
ReadIntrOnce ==
  /\ Interrupt({"READ"}) /\ do_hd = "read_intr"
  /\ Move(drive.sector, request[CURR_REQ].buffer)
  /\ IF request[CURR_REQ].nr_sector > 1
       THEN /\ request' = SectorRead
            /\ drive' = [drive EXCEPT !.sector = @ + 1, !.left = @ - 1]
            /\ do_hd' = "NULL"
            /\ UNCHANGED <<req_q, b_lock, b_uptodate, at, pc>>
       ELSE LastSector(SectorRead)
  /\ UNCHANGED <<b_dirt, rw, reset, recalibrate, prepared>>

ReadIntr ==
  /\ Interrupt({"READ"}) /\ do_hd = "read_intr"
  /\ Move(drive.sector, request[CURR_REQ].buffer)
  /\ IF request[CURR_REQ].nr_sector > 1 THEN NextSector(SectorRead) ELSE LastSector(SectorRead)
  /\ UNCHANGED <<b_dirt, rw, reset, recalibrate, prepared>>

(* Wrong variant: the sector counts on, but the pointer does not.          *)
SectorWrittenInPlace ==
  [request EXCEPT ![CURR_REQ] =
     [@ EXCEPT !.nr_sector = @ - 1, !.sector = IF request[CURR_REQ].nr_sector > 1 THEN @ + 1 ELSE @]]

(* The pointer and the sector stay where they are after the last.          *)
SectorWritten ==
  LET r == request[CURR_REQ]
  IN  [request EXCEPT ![CURR_REQ] =
         IF r.nr_sector > 1
           THEN [r EXCEPT !.nr_sector = r.nr_sector - 1, !.sector = r.sector + 1, !.buffer = r.buffer + 1]
           ELSE [r EXCEPT !.nr_sector = r.nr_sector - 1]]

WriteIntr ==
  /\ Interrupt({"WRITE"}) /\ do_hd = "write_intr"
  /\ IF request[CURR_REQ].nr_sector > 1
       THEN /\ NextSector(SectorWritten)
            /\ Move(drive.sector + 1, SectorWritten[CURR_REQ].buffer)
       ELSE LastSector(SectorWritten) /\ UNCHANGED copied
  /\ UNCHANGED <<b_dirt, rw, reset, recalibrate, prepared>>

(* write_intr() finds no request: through CURR_REQ = NULL it writes to the *)
(* first page of memory, which is the page directory.                      *)
LateInterrupt ==
  /\ Interrupt({"late"}) /\ do_hd = "write_intr"
  /\ do_hd' = "NULL" /\ drive' = NoDrive
  /\ pc' = "page directory overwritten"
  /\ UNCHANGED <<reqVars, b_dirt, rw, reset, recalibrate, prepared, copied>>

-----------------------------------------------------------------------------
(* Either the machine as it starts, or with one request in the queue and   *)
(* the driver called for it, by whoever put it there.  add_request() never *)
(* does; but when the queue is not empty, it adds to it.                   *)
IdleEntry ==
  [dev |-> -1, cmd |-> "READ", errors |-> 0, sector |-> 0, nr_sector |-> 0,
   bh |-> CHOOSE b \in Buffer : TRUE, buffer |-> 0]

DInit ==
  /\ \/ /\ request = [e \in Entries |-> IdleEntry]
        /\ req_q = <<>>
        /\ b_lock = [b \in Buffer |-> FALSE]
        /\ at = [b \in Buffer |-> "done"]
        /\ pc = "idle"
     \/ \E b \in Buffer, cmd \in Commands :
          /\ request = [e \in Entries |-> IF e = NUMBER_OF_REQUESTS - 1 THEN NewRequest(b, cmd)
                                                                       ELSE IdleEntry]
          /\ req_q = <<NUMBER_OF_REQUESTS - 1>>
          /\ b_lock = [c \in Buffer |-> c = b]
          /\ at = [c \in Buffer |-> "done"]
          /\ pc = "repeat"
  /\ b_uptodate = [b \in Buffer |-> FALSE]
  /\ b_dirt = [b \in Buffer |-> FALSE]
  /\ rw = [b \in Buffer |-> "READ"]
  /\ reset = TRUE /\ recalibrate = TRUE /\ do_hd = "NULL"
  /\ drive = NoDrive
  /\ prepared = "no"
  /\ copied = [b \in Buffer |-> {}]

Driver ==
  \/ QueueEmpty \/ RefuseRequest \/ NotReady \/ ResetHd \/ Restore
  \/ StartRead \/ StartWrite \/ NoDataRequest

Answer == CommandFails \/ RecalIntr \/ ReadIntr \/ WriteIntr

DNext ==
  \/ \E b \in Buffer, cmd \in Commands : MakeRequest(b, cmd)
  \/ \E b \in Buffer : AddRequest(b) \/ NoEntry(b) \/ SleepOn(b) \/ ScanAgain(b) \/ Modify(b)
  \/ Driver \/ Answer \/ LateInterrupt

DSpec == DInit /\ [][DNext]_diskVars

(* The driver runs on, and the controller answers what it was told to do.  *)
FairDisk == DSpec /\ WF_diskVars(Driver) /\ WF_diskVars(Answer)

-----------------------------------------------------------------------------
Stops == {"HD controller not ready", "page directory overwritten"}

Queued == {req_q[i] : i \in 1 .. Len(req_q)}
InUse == {e \in Entries : ~Idle(e)}

(* Every entry in use has a locked buffer of its own, and what is queued   *)
(* is in use and queued once: the panics "request list destroyed" and      *)
(* "block not locked" of do_hd_request never happen, and a buffer is not   *)
(* unlocked under another request.                                         *)
BlocksAreLocked ==
  /\ \A e \in InUse : b_lock[request[e].bh]
  /\ \A e, f \in InUse : request[e].bh = request[f].bh => e = f
  /\ Queued \subseteq InUse
  /\ \A i, j \in 1 .. Len(req_q) : req_q[i] = req_q[j] => i = j

(* The sectors of a block, each with its place in b_data.                  *)
OfBlock(b) == {<<2 * b, 0>>, <<2 * b + 1, 1>>}

(* However often a request is retried, and from whichever sector: nothing  *)
(* is ever moved from or to a wrong place, and a buffer that is uptodate   *)
(* has been moved as a whole.                                              *)
MovedInPlace ==
  \A b \in Buffer :
    /\ copied[b] \subseteq OfBlock(b)
    /\ b_uptodate[b] /\ ~b_lock[b] => copied[b] = OfBlock(b)

(* Interrupts find a handler, and one that fits what the disk was told.    *)
InterruptsAreExpected ==
  /\ drive.op = "READ" => do_hd = "read_intr"
  /\ drive.op \in {"WRITE", "late"} => do_hd = "write_intr"
  /\ drive.op \in {"init", "restore"} => do_hd = "recal_intr"

(* A request that failed more than half of its tries is not tried again    *)
(* before the controller was reset and the heads restored.                 *)
ResetBeforeRetry ==
  drive.op \in Commands /\ request[CURR_REQ].errors > MAX_ERRORS \div 2 => prepared = "restored"

(* Every request that is in the queue ends, whatever fails on the way, if  *)
(* the disk answers.                                                       *)
QueuedRequestEnds == \A e \in Entries : e \in Queued ~> (e \notin Queued \/ pc \in Stops)

HalfOfLastBlock(e) == 2 * request[e].bh + 2 = nr_sects /\ request[e].nr_sector = 1

(* A request is given up only at MAX_ERRORS, if its block exists: no       *)
(* failure of another request, and no success in between, uses its tries   *)
(* up.  One case is different: once half of the last block has been moved, *)
(* a retry no longer passes the test against the end of the partition.     *)
TriedToTheEnd ==
  [][\A e \in Entries :
       /\ e \in Queued /\ e \notin Queued' /\ ~b_uptodate'[request[e].bh]
       /\ 2 * request[e].bh + 2 <= nr_sects /\ ~HalfOfLastBlock(e)
       => request'[e].errors >= MAX_ERRORS]_diskVars

-----------------------------------------------------------------------------
(* Where a sector came from or went to does not matter to the users of the *)
(* buffer, nor which entry its request is in.                              *)
Device == INSTANCE BlockDevice WITH
  Depth <- NUMBER_OF_REQUESTS,
  locked <- {b \in Buffer : b_lock[b]},
  calling <- {b \in Buffer : at[b] # "done"},
  line <- [i \in 1 .. Len(req_q) |-> request[req_q[i]].bh],
  uptodate <- {b \in Buffer : b_uptodate[b]},
  dirty <- {b \in Buffer : b_dirt[b]},
  moved <- [b \in Buffer |-> {x[2] : x \in copied[b]}]

(* Whatever fails and is retried, the requests are served as BlockDevice   *)
(* says: in order, each once, both sectors or not uptodate, and nobody     *)
(* but a request changes the buffer that is locked for it.                 *)
ImplementsDevice == Device!DeviceSpec

=============================================================================
