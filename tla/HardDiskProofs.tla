--------------------------- MODULE HardDiskProofs ---------------------------
(* Theorems of HardDisk, for any number of requests, tries and buffers:    *)
(* whatever fails and whenever, each request has its own locked buffer,    *)
(* moves the right sectors, is retried as it should be, and not given up   *)
(* before its tries are used up.                                           *)
EXTENDS HardDisk, FiniteSetTheorems, SequenceTheorems, TLAPS

Request ==
  [dev : {-1, 0}, cmd : Commands, errors : Nat, sector : Nat, nr_sector : Int,
   bh : Buffer, buffer : Nat]

Waiting == {"scan", "full", "asleep", "woken"}

TableTypes ==
  /\ request \in [Entries -> Request]
  /\ req_q \in Seq(Entries)
  /\ b_lock \in [Buffer -> BOOLEAN]
  /\ b_uptodate \in [Buffer -> BOOLEAN]
  /\ at \in [Buffer -> Waiting \cup {"done"}]
  /\ rw \in [Buffer -> Commands]

DriverTypes ==
  /\ reset \in BOOLEAN /\ recalibrate \in BOOLEAN
  /\ drive \in [op : {"none", "late", "init", "restore"} \cup Commands, sector : Nat, left : Int]
  /\ copied \in [Buffer -> SUBSET (Nat \X Nat)]

(* A call that waits for an entry has locked its buffer, and no request is *)
(* about that buffer yet.                                                  *)
WaitersInv ==
  \A b \in Buffer : at[b] \in Waiting => b_lock[b] /\ \A e \in InUse : request[e].bh # b

(* A request is as it was made until it is the first of the queue; then it *)
(* has a sector or two left, and what is over is over.                     *)
Fresh(r) == r.errors = 0 /\ r.buffer = 0 /\ r.sector = 2 * r.bh /\ r.nr_sector = 2

InWork(r, done) ==
  /\ r.buffer \in {0, 1} /\ r.sector = 2 * r.bh + r.buffer /\ r.nr_sector = 2 - r.buffer
  /\ r.buffer = 1 => <<2 * r.bh, 0>> \in done

IsFirst(e) == req_q # <<>> /\ e = req_q[1]

ProgressInv ==
  \A e \in InUse : IF IsFirst(e) THEN InWork(request[e], copied[request[e].bh]) ELSE Fresh(request[e])

(* What the controller does is what the first request of the queue needs,  *)
(* and while the driver runs it does nothing.                              *)
DriveInv ==
  /\ pc = "repeat" => drive.op \in {"none", "late"}
  /\ drive.op \notin {"none", "late"} => req_q # <<>>
  /\ drive.op \in Commands => ~reset /\ ~recalibrate /\ drive.sector = request[CURR_REQ].sector
  /\ drive.op = "WRITE" => <<request[CURR_REQ].sector, request[CURR_REQ].buffer>> \in copied[bh]

(* After too many errors a reset is due, or it is done and a restore due,  *)
(* or both are done.                                                       *)
PreparedInv ==
  req_q # <<>> /\ request[CURR_REQ].errors > MAX_ERRORS \div 2 =>
    reset \/ (prepared = "reset" /\ recalibrate) \/ prepared = "restored"

TableInv == TableTypes /\ BlocksAreLocked /\ WaitersInv /\ ProgressInv

DriverInv == DriverTypes /\ DriveInv /\ PreparedInv /\ InterruptsAreExpected

DiskInv == TableInv /\ DriverInv /\ MovedInPlace

-----------------------------------------------------------------------------
(* The queue.                                                              *)
LEMMA FirstOfQueue ==
  ASSUME TableInv, req_q # <<>>
  PROVE  /\ CURR_REQ = req_q[1] /\ CURR_REQ \in Entries /\ CURR_REQ \in Queued /\ IsFirst(CURR_REQ)
         /\ Tail(req_q) \in Seq(Entries) /\ Len(req_q) \in Nat /\ Len(Tail(req_q)) = Len(req_q) - 1
         /\ \A i \in 1 .. Len(req_q) - 1 : Tail(req_q)[i] = req_q[i + 1]
<1>1. req_q \in Seq(Entries)
  BY DEF TableInv, TableTypes
<1>2. CURR_REQ = req_q[1] /\ Len(req_q) \in Nat /\ Len(req_q) > 0 /\ CURR_REQ \in Entries
  BY <1>1 DEF CURR_REQ
<1>3. /\ Tail(req_q) \in Seq(Entries) /\ Len(Tail(req_q)) = Len(req_q) - 1
      /\ \A i \in 1 .. Len(req_q) - 1 : Tail(req_q)[i] = req_q[i + 1]
  BY <1>1
<1> QED BY <1>2, <1>3 DEF Queued, IsFirst

LEMMA FirstInUse ==
  ASSUME TableInv, req_q # <<>>
  PROVE  /\ CURR_REQ \in InUse /\ bh \in Buffer /\ b_lock[bh]
         /\ request[CURR_REQ] \in Request /\ request[CURR_REQ].dev = 0
         /\ InWork(request[CURR_REQ], copied[bh])
<1>1. CURR_REQ \in Entries /\ IsFirst(CURR_REQ) /\ CURR_REQ \in InUse
  BY FirstOfQueue DEF TableInv, BlocksAreLocked
<1>2. request[CURR_REQ] \in Request
  BY <1>1 DEF TableInv, TableTypes
<1>3. bh \in Buffer /\ b_lock[bh]
  BY <1>1, <1>2 DEF TableInv, BlocksAreLocked, bh, Request
<1>4. request[CURR_REQ].dev = 0
  BY <1>1, <1>2 DEF InUse, Idle, Request
<1>5. InWork(request[CURR_REQ], copied[bh])
  BY <1>1 DEF TableInv, ProgressInv, bh
<1> QED BY <1>1, <1>2, <1>3, <1>4, <1>5

(* What the handlers may do to the table: change the first request, but    *)
(* not its buffer.                                                         *)
Revised(rq) ==
  /\ rq \in [Entries -> Request]
  /\ rq[CURR_REQ].bh = bh
  /\ \A e \in Entries \ {CURR_REQ} : rq[e] = request[e]

LEMMA EndRequestKeeps ==
  ASSUME TableInv, req_q # <<>>, NEW rq, Revised(rq), NEW uptodate \in BOOLEAN,
         EndRequest(rq, uptodate), UNCHANGED rw
  PROVE  /\ TableInv'
         /\ b_uptodate'[bh] = uptodate /\ ~b_lock'[bh]
         /\ \A b \in Buffer \ {bh} : b_uptodate'[b] = b_uptodate[b] /\ b_lock'[b] = b_lock[b]
         /\ req_q' = Tail(req_q)
         /\ \A e \in Entries : request'[e].errors = rq[e].errors
         /\ req_q' # <<>> => request'[CURR_REQ'].errors = 0
<1> DEFINE c == CURR_REQ
<1>1. c \in Entries /\ c \in InUse /\ bh \in Buffer /\ request[c].bh = bh /\ IsFirst(c)
  BY FirstOfQueue, FirstInUse DEF bh
<1>2. /\ request' = [rq EXCEPT ![c].dev = -1]
      /\ b_uptodate' = [b_uptodate EXCEPT ![bh] = uptodate]
      /\ b_lock' = [b_lock EXCEPT ![bh] = FALSE]
      /\ at' = [b \in Buffer |-> IF at[b] = "asleep" THEN "woken" ELSE at[b]]
      /\ req_q' = Tail(req_q)
  BY DEF EndRequest
<1>3. rq \in [Entries -> Request] /\ \A e \in Entries \ {c} : rq[e] = request[e]
  BY DEF Revised
<1> HIDE DEF c
<1>4. /\ request' \in [Entries -> Request] /\ request'[c].dev = -1
      /\ \A e \in Entries \ {c} : request'[e] = request[e]
      /\ \A e \in Entries : request'[e].errors = rq[e].errors
  BY <1>1, <1>2, <1>3 DEF Request
<1>5. /\ b_uptodate' \in [Buffer -> BOOLEAN] /\ b_lock' \in [Buffer -> BOOLEAN]
      /\ b_uptodate'[bh] = uptodate /\ ~b_lock'[bh]
      /\ \A b \in Buffer \ {bh} : b_uptodate'[b] = b_uptodate[b] /\ b_lock'[b] = b_lock[b]
  BY <1>1, <1>2 DEF TableInv, TableTypes
<1>6. /\ at' \in [Buffer -> Waiting \cup {"done"}]
      /\ \A b \in Buffer : at'[b] \in Waiting <=> at[b] \in Waiting
  BY <1>2 DEF TableInv, TableTypes, Waiting
<1>7. TableTypes'
  BY <1>2, <1>4, <1>5, <1>6, FirstOfQueue DEF TableInv, TableTypes
<1>8. \A e : e \in InUse' <=> e \in InUse /\ e # c
  BY <1>1, <1>4 DEF InUse, Idle
<1>9. \A e \in InUse' : e \in Entries /\ request'[e] = request[e] /\ request[e].bh # bh
  BY <1>1, <1>4, <1>8 DEF TableInv, BlocksAreLocked, InUse
<1>10. BlocksAreLocked'
  <2>1. \A e \in InUse' : b_lock'[request'[e].bh]
    <3>1. \A e \in InUse' : request[e].bh \in Buffer /\ b_lock[request[e].bh]
      BY <1>8, <1>9 DEF TableInv, TableTypes, BlocksAreLocked, Request
    <3> QED BY <1>5, <1>9, <3>1
  <2>2. \A e, f \in InUse' : request'[e].bh = request'[f].bh => e = f
    BY <1>8, <1>9 DEF TableInv, BlocksAreLocked
  <2>3. \A i \in 1 .. Len(req_q') : i + 1 \in 1 .. Len(req_q) /\ req_q'[i] = req_q[i + 1]
    BY <1>2, FirstOfQueue
  <2>4. \A i, j \in 1 .. Len(req_q') : req_q'[i] = req_q'[j] => i = j
    BY <1>2, <2>3, FirstOfQueue DEF TableInv, BlocksAreLocked
  <2>5. ASSUME NEW i \in 1 .. Len(req_q') PROVE req_q'[i] \in InUse'
    <3>1. req_q[i + 1] \in InUse
      BY <2>3 DEF TableInv, BlocksAreLocked, Queued
    <3>2. c = req_q[1] /\ Len(req_q) \in Nat /\ Len(req_q) > 0
      BY FirstOfQueue DEF TableInv, TableTypes, c
    <3>3. req_q[i + 1] # c
      <4>1. i + 1 \in 1 .. Len(req_q) /\ 1 \in 1 .. Len(req_q) /\ i + 1 # 1
        BY <2>3, <3>2
      <4> QED BY <3>2, <4>1 DEF TableInv, BlocksAreLocked
    <3> QED BY <1>8, <2>3, <3>1, <3>3
  <2> QED BY <2>1, <2>2, <2>4, <2>5 DEF BlocksAreLocked, Queued
<1>11. WaitersInv'
  <2>1. ASSUME NEW b \in Buffer, at[b] \in Waiting PROVE b # bh /\ b_lock'[b]
    BY <1>1, <1>5, <2>1 DEF TableInv, WaitersInv
  <2> QED BY <1>6, <1>8, <1>9, <2>1 DEF TableInv, WaitersInv
<1>12. ProgressInv'
  <2>1. \A e \in InUse' : Fresh(request'[e])
    <3>1. \A e \in InUse' : ~IsFirst(e)
      BY <1>1, <1>8 DEF IsFirst
    <3> QED BY <1>8, <1>9, <3>1 DEF TableInv, ProgressInv
  <2>2. \A done : \A e \in InUse' : InWork(request'[e], done)
    <3>1. \A e \in InUse' : request'[e].bh \in Nat
      BY <1>8, <1>9, DiskAssumption DEF TableInv, TableTypes, Request, DiskAssumption
    <3> QED BY <2>1, <3>1 DEF InWork, Fresh
  <2> QED BY <2>1, <2>2 DEF ProgressInv
<1>13. TableInv'
  BY <1>7, <1>10, <1>11, <1>12 DEF TableInv
<1>14. ASSUME req_q' # <<>> PROVE request'[CURR_REQ'].errors = 0
  <2>1. CURR_REQ' \in InUse'
    <3>1. req_q' \in Seq(Entries) /\ req_q' # <<>>
      BY <1>7, <1>14 DEF TableTypes
    <3>2. 1 \in 1 .. Len(req_q') /\ CURR_REQ' = req_q'[1]
      BY <3>1 DEF CURR_REQ
    <3> QED BY <1>10, <3>2 DEF BlocksAreLocked, Queued
  <2>2. \A e \in InUse' : Fresh(request'[e])
    <3>1. \A e \in InUse' : ~IsFirst(e)
      BY <1>1, <1>8 DEF IsFirst
    <3> QED BY <1>8, <1>9, <3>1 DEF TableInv, ProgressInv
  <2> QED BY <2>1, <2>2 DEF Fresh
<1> QED BY <1>2, <1>4, <1>5, <1>13, <1>14

LEMMA ReviseKeeps ==
  ASSUME TableInv, req_q # <<>>, NEW rq, Revised(rq), rq[CURR_REQ].dev = 0,
         request' = rq, UNCHANGED <<req_q, b_lock, b_uptodate, at, rw>>,
         InWork(rq[CURR_REQ], copied'[bh])
  PROVE  TableInv'
<1> DEFINE c == CURR_REQ
<1>1. c \in Entries /\ c \in InUse /\ bh \in Buffer /\ request[c].bh = bh /\ c = req_q[1]
  BY FirstOfQueue, FirstInUse DEF bh
<1>2. /\ request' \in [Entries -> Request] /\ \A e \in Entries \ {c} : request'[e] = request[e]
      /\ request'[c].bh = bh /\ request'[c].dev = 0 /\ InWork(request'[c], copied'[bh])
  BY DEF Revised
<1> HIDE DEF c
<1>3. TableTypes'
  BY <1>2 DEF TableInv, TableTypes
<1>4. InUse' = InUse
  BY <1>1, <1>2 DEF InUse, Idle
<1>5. \A e \in InUse : request'[e].bh = request[e].bh
  BY <1>1, <1>2 DEF InUse
<1>6. BlocksAreLocked' /\ WaitersInv'
  BY <1>4, <1>5 DEF TableInv, BlocksAreLocked, WaitersInv, Queued
<1>7. ProgressInv'
  <2>1. ASSUME NEW e \in InUse
        PROVE  IF req_q # <<>> /\ e = req_q[1]
                 THEN InWork(request'[e], copied'[request'[e].bh]) ELSE Fresh(request'[e])
    <3>1. CASE e = c
      BY <1>1, <1>2, <3>1
    <3>2. CASE e # c
      BY <1>1, <1>2, <3>2 DEF TableInv, ProgressInv, IsFirst, InUse
    <3> QED BY <3>1, <3>2
  <2> QED BY <1>4, <2>1 DEF ProgressInv, IsFirst
<1> QED BY <1>3, <1>6, <1>7 DEF TableInv

(* Steps that leave the table as it is.                                    *)
LEMMA TableUnchanged ==
  ASSUME TableInv, UNCHANGED <<reqVars, rw>>, \A b \in Buffer : copied[b] \subseteq copied'[b]
  PROVE  TableInv'
<1>1. UNCHANGED <<request, req_q, b_lock, b_uptodate, at, rw>>
  BY DEF reqVars
<1>2. TableTypes' /\ BlocksAreLocked' /\ WaitersInv'
  BY <1>1 DEF TableInv, TableTypes, BlocksAreLocked, WaitersInv, InUse, Idle, Queued
<1>3. ProgressInv'
  <2>1. ASSUME NEW e \in InUse
        PROVE  IF IsFirst(e) THEN InWork(request[e], copied'[request[e].bh]) ELSE Fresh(request[e])
    <3>1. request[e].bh \in Buffer
      BY DEF InUse, TableInv, TableTypes, Request
    <3> QED BY <3>1 DEF TableInv, ProgressInv, InWork
  <2> QED BY <1>1, <2>1 DEF ProgressInv, InUse, Idle, IsFirst
<1> QED BY <1>2, <1>3 DEF TableInv

-----------------------------------------------------------------------------
(* make_request().                                                         *)
LEMMA DriverUnchanged ==
  ASSUME DriverInv, UNCHANGED <<request, req_q, ctlVars>>
  PROVE  DriverInv'
BY DEF DriverInv, DriverTypes, DriveInv, PreparedInv, InterruptsAreExpected, CURR_REQ, bh, ctlVars

LEMMA PlaceChanges ==
  ASSUME DiskInv, NEW b \in Buffer, NEW place \in Waiting, at[b] \in Waiting,
         at' = [at EXCEPT ![b] = place],
         UNCHANGED <<request, req_q, b_lock, b_uptodate, rw, ctlVars>>
  PROVE  DiskInv'
<1>1. DriverInv'
  BY DriverUnchanged DEF DiskInv
<1>2. MovedInPlace'
  BY DEF DiskInv, MovedInPlace, ctlVars
<1>3. at' \in [Buffer -> Waiting \cup {"done"}] /\ \A c \in Buffer : at'[c] \in Waiting <=> at[c] \in Waiting
  BY DEF DiskInv, TableInv, TableTypes
<1>4. TableTypes'
  BY <1>3 DEF DiskInv, TableInv, TableTypes
<1>5. InUse' = InUse /\ Queued' = Queued
  BY DEF InUse, Idle, Queued
<1>6. BlocksAreLocked'
  BY <1>5 DEF DiskInv, TableInv, BlocksAreLocked
<1>7. WaitersInv'
  BY <1>3, <1>5 DEF DiskInv, TableInv, WaitersInv
<1>8. ProgressInv'
  BY <1>5 DEF DiskInv, TableInv, ProgressInv, IsFirst, ctlVars
<1> QED BY <1>1, <1>2, <1>4, <1>6, <1>7, <1>8 DEF DiskInv, TableInv

LEMMA MakeRequestKeeps ==
  ASSUME DiskInv, NEW b \in Buffer, NEW cmd \in Commands, MakeRequest(b, cmd)
  PROVE  DiskInv'
<1>1. /\ ~b_lock[b] /\ b_lock' = [b_lock EXCEPT ![b] = TRUE]
      /\ rw' = [rw EXCEPT ![b] = cmd] /\ at' = [at EXCEPT ![b] = "scan"]
      /\ UNCHANGED <<request, req_q, b_uptodate, b_dirt, ctlVars>>
  BY DEF MakeRequest
<1>2. DriverInv'
  BY <1>1, DriverUnchanged DEF DiskInv
<1>3. /\ b_lock' \in [Buffer -> BOOLEAN] /\ b_lock'[b]
      /\ at' \in [Buffer -> Waiting \cup {"done"}]
      /\ \A c \in Buffer \ {b} : b_lock'[c] = b_lock[c] /\ at'[c] = at[c]
  BY <1>1 DEF DiskInv, TableInv, TableTypes, Waiting
<1>4. MovedInPlace'
  BY <1>1, <1>3 DEF DiskInv, MovedInPlace, ctlVars
<1>5. TableTypes'
  BY <1>1, <1>3 DEF DiskInv, TableInv, TableTypes
<1>6. InUse' = InUse /\ Queued' = Queued /\ \A e \in InUse : request[e].bh \in Buffer
  BY <1>1 DEF InUse, Idle, Queued, DiskInv, TableInv, TableTypes, Request
<1>7. BlocksAreLocked'
  BY <1>1, <1>3, <1>6 DEF DiskInv, TableInv, BlocksAreLocked
<1>8. WaitersInv'
  BY <1>1, <1>3, <1>6 DEF DiskInv, TableInv, WaitersInv, BlocksAreLocked
<1>9. ProgressInv'
  BY <1>1, <1>6 DEF DiskInv, TableInv, ProgressInv, IsFirst, ctlVars
<1> QED BY <1>2, <1>4, <1>5, <1>7, <1>8, <1>9 DEF DiskInv, TableInv

(* The entry found is not in the queue, since it is idle, and the buffer   *)
(* not in the table, since its call was waiting.                           *)
LEMMA AddRequestKeeps ==
  ASSUME DiskInv, NEW b \in Buffer, AddRequest(b)
  PROVE  DiskInv'
<1>1. PICK e \in Entries :
        /\ Idle(e)
        /\ request' = [request EXCEPT ![e] = NewRequest(b, rw[b])]
        /\ req_q' = IF req_q = <<>> THEN req_q ELSE Append(req_q, e)
  BY DEF AddRequest
<1>2. /\ pc = "idle" /\ at[b] = "scan"
      /\ at' = [at EXCEPT ![b] = "done"] /\ copied' = [copied EXCEPT ![b] = {}]
      /\ pc' = IF req_q = <<>> THEN "repeat" ELSE pc
      /\ UNCHANGED <<b_lock, b_uptodate, rw, reset, recalibrate, do_hd, drive, prepared>>
  BY DEF AddRequest
<1>3. /\ request \in [Entries -> Request] /\ req_q \in Seq(Entries)
      /\ copied \in [Buffer -> SUBSET (Nat \X Nat)]
      /\ b_lock[b] /\ \A f \in InUse : request[f].bh # b
  BY <1>2 DEF DiskInv, DriverInv, DriverTypes, TableInv, TableTypes, WaitersInv, Waiting
<1>4. /\ NewRequest(b, rw[b]) \in Request /\ NewRequest(b, rw[b]).dev = 0
      /\ NewRequest(b, rw[b]).bh = b /\ Fresh(NewRequest(b, rw[b]))
  <2>1. b \in Nat /\ rw[b] \in Commands
    BY DiskAssumption DEF DiskAssumption, DiskInv, TableInv, TableTypes
  <2> QED BY <2>1 DEF NewRequest, Request, Fresh
<1>5. /\ request' \in [Entries -> Request]
      /\ request'[e].dev = 0 /\ request'[e].bh = b /\ Fresh(request'[e])
      /\ \A f \in Entries \ {e} : request'[f] = request[f]
  BY <1>1, <1>3, <1>4
<1>6. \A f : f \in InUse' <=> f \in InUse \/ f = e
  BY <1>5 DEF InUse, Idle
<1>7. e \notin InUse /\ \A f \in InUse : f # e /\ request'[f] = request[f]
  BY <1>1, <1>5 DEF InUse
<1>8. req_q' \in Seq(Entries) /\ Len(req_q) \in Nat
  BY <1>1, <1>3
<1>9. req_q # <<>> => /\ Len(req_q') = Len(req_q) + 1 /\ req_q'[Len(req_q) + 1] = e
                      /\ \A i \in 1 .. Len(req_q) : req_q'[i] = req_q[i]
                      /\ Len(req_q) > 0 /\ req_q' # <<>> /\ req_q'[1] = req_q[1]
  BY <1>1, <1>3
<1>10. TableTypes'
  <2>1. at' \in [Buffer -> Waiting \cup {"done"}]
    BY <1>2 DEF DiskInv, TableInv, TableTypes
  <2> QED BY <1>2, <1>5, <1>8, <2>1 DEF DiskInv, TableInv, TableTypes
<1>11. BlocksAreLocked'
  <2>1. \A f \in InUse' : b_lock'[request'[f].bh]
    BY <1>2, <1>3, <1>5, <1>6, <1>7 DEF DiskInv, TableInv, BlocksAreLocked
  <2>2. \A f, g \in InUse' : request'[f].bh = request'[g].bh => f = g
    BY <1>3, <1>5, <1>6, <1>7 DEF DiskInv, TableInv, BlocksAreLocked
  <2>3. \A i \in 1 .. Len(req_q) : req_q[i] \in InUse /\ req_q[i] # e
    BY <1>7 DEF DiskInv, TableInv, BlocksAreLocked, Queued
  <2>4. CASE req_q = <<>>
    BY <1>1, <2>1, <2>2, <2>4 DEF BlocksAreLocked, Queued
  <2>5. CASE req_q # <<>>
    <3>1. \A i \in 1 .. Len(req_q') : i \in 1 .. Len(req_q) \/ i = Len(req_q) + 1
      BY <1>8, <1>9, <2>5
    <3>2. \A i \in 1 .. Len(req_q') : req_q'[i] \in InUse'
      BY <1>6, <1>9, <2>3, <2>5, <3>1
    <3>3. \A i, j \in 1 .. Len(req_q') : req_q'[i] = req_q'[j] => i = j
      BY <1>9, <2>3, <2>5, <3>1 DEF DiskInv, TableInv, BlocksAreLocked
    <3> QED BY <2>1, <2>2, <3>2, <3>3 DEF BlocksAreLocked, Queued
  <2> QED BY <2>4, <2>5
<1>12. WaitersInv'
  <2>1. \A c \in Buffer : at'[c] \in Waiting => at[c] \in Waiting /\ c # b
    BY <1>2 DEF DiskInv, TableInv, TableTypes, Waiting
  <2> QED BY <1>2, <1>5, <1>6, <1>7, <2>1 DEF DiskInv, TableInv, WaitersInv
<1>13. \A c \in Buffer \ {b} : copied'[c] = copied[c]
  BY <1>2, <1>3
<1>14. ProgressInv'
  <2>1. ASSUME NEW f \in InUse
        PROVE  /\ IsFirst(f) <=> req_q' # <<>> /\ f = req_q'[1]
               /\ copied'[request[f].bh] = copied[request[f].bh]
    <3>1. request[f].bh \in Buffer \ {b}
      BY <1>3 DEF InUse, Request
    <3>2. req_q = <<>> => req_q' = <<>>
      BY <1>1
    <3> QED BY <1>9, <1>13, <3>1, <3>2 DEF IsFirst
  <2>2. ~(req_q' # <<>> /\ e = req_q'[1])
    <3>1. CASE req_q = <<>>
      BY <1>1, <3>1
    <3>2. CASE req_q # <<>>
      <4>1. req_q[1] \in InUse
        BY <1>8, <1>9, <3>2 DEF DiskInv, TableInv, BlocksAreLocked, Queued
      <4> QED BY <1>7, <1>9, <3>2, <4>1
    <3> QED BY <3>1, <3>2
  <2> QED BY <1>5, <1>6, <1>7, <2>1, <2>2 DEF DiskInv, TableInv, ProgressInv, IsFirst
<1>15. copied' \in [Buffer -> SUBSET (Nat \X Nat)] /\ copied'[b] = {}
  BY <1>2, <1>3
<1>16. MovedInPlace'
  BY <1>2, <1>3, <1>13, <1>15 DEF DiskInv, MovedInPlace
<1>17. DriverInv'
  <2>1. DriverTypes' /\ InterruptsAreExpected'
    BY <1>2, <1>15 DEF DiskInv, DriverInv, DriverTypes, InterruptsAreExpected
  <2>2. CASE req_q = <<>>
    <3>1. drive.op \in {"none", "late"} /\ drive' = drive /\ req_q' = <<>>
      BY <1>1, <1>2, <2>2 DEF DiskInv, DriverInv, DriveInv
    <3> QED BY <2>1, <3>1 DEF DriverInv, DriveInv, PreparedInv, Commands
  <2>3. CASE req_q # <<>>
    <3>1. CURR_REQ' = CURR_REQ /\ CURR_REQ \in InUse
      <4>1. CURR_REQ \in InUse
        BY <2>3, FirstInUse DEF DiskInv
      <4>2. CURR_REQ = req_q[1]
        BY <2>3, FirstOfQueue DEF DiskInv
      <4>3. CURR_REQ' = req_q'[1]
        BY <1>8, <1>9, <2>3 DEF CURR_REQ
      <4> QED BY <1>9, <2>3, <4>1, <4>2, <4>3
    <3>2. request'[CURR_REQ'] = request[CURR_REQ]
      BY <1>7, <3>1
    <3>3. bh' = bh /\ bh \in Buffer \ {b}
      BY <1>3, <2>3, <3>1, <3>2, FirstInUse DEF bh, DiskInv
    <3>4. copied'[bh'] = copied[bh] /\ pc' = pc /\ req_q' # <<>>
      BY <1>2, <1>9, <1>13, <2>3, <3>3
    <3>5. DriveInv'
      BY <1>2, <2>3, <3>2, <3>4 DEF DiskInv, DriverInv, DriveInv
    <3>6. PreparedInv'
      BY <1>2, <2>3, <3>2 DEF DiskInv, DriverInv, PreparedInv
    <3> QED BY <2>1, <3>5, <3>6 DEF DriverInv
  <2> QED BY <2>2, <2>3
<1> QED BY <1>10, <1>11, <1>12, <1>14, <1>16, <1>17 DEF DiskInv, TableInv

-----------------------------------------------------------------------------
(* do_hd_request().                                                        *)
LEMMA TriesAreNatural == MAX_ERRORS \div 2 \in Nat
BY DiskAssumption DEF DiskAssumption

LEMMA QueueEmptyKeeps ==
  ASSUME DiskInv, QueueEmpty
  PROVE  DiskInv'
<1>1. UNCHANGED <<reqVars, b_dirt, rw, reset, recalibrate, do_hd, drive, prepared, copied>> /\ pc' = "idle"
  BY DEF QueueEmpty
<1>2. TableInv'
  BY <1>1, TableUnchanged DEF DiskInv
<1>3. DriverInv' /\ MovedInPlace'
  BY <1>1 DEF DiskInv, DriverInv, DriverTypes, DriveInv, PreparedInv, InterruptsAreExpected,
              MovedInPlace, CURR_REQ, bh, reqVars
<1> QED BY <1>2, <1>3 DEF DiskInv

LEMMA NotReadyKeeps ==
  ASSUME DiskInv, NotReady
  PROVE  DiskInv'
<1>1. /\ UNCHANGED <<reqVars, b_dirt, rw, reset, recalibrate, do_hd, drive, prepared, copied>>
      /\ pc' = "HD controller not ready"
  BY DEF NotReady
<1>2. TableInv'
  BY <1>1, TableUnchanged DEF DiskInv
<1>3. DriverInv' /\ MovedInPlace'
  BY <1>1 DEF DiskInv, DriverInv, DriverTypes, DriveInv, PreparedInv, InterruptsAreExpected,
              MovedInPlace, CURR_REQ, bh, reqVars
<1> QED BY <1>2, <1>3 DEF DiskInv

LEMMA RevisedItself ==
  ASSUME TableInv
  PROVE  Revised(request)
BY DEF Revised, TableInv, TableTypes, bh

LEMMA RefuseRequestKeeps ==
  ASSUME DiskInv, RefuseRequest
  PROVE  DiskInv'
<1>1. /\ pc = "repeat" /\ req_q # <<>> /\ EndRequest(request, FALSE)
      /\ UNCHANGED <<b_dirt, rw, ctlVars>>
  BY DEF RefuseRequest, Running
<1>2. Revised(request)
  BY RevisedItself DEF DiskInv
<1>3. /\ TableInv' /\ b_uptodate'[bh] = FALSE
      /\ \A b \in Buffer \ {bh} : b_uptodate'[b] = b_uptodate[b] /\ b_lock'[b] = b_lock[b]
      /\ req_q' # <<>> => request'[CURR_REQ'].errors = 0
  BY <1>1, <1>2, EndRequestKeeps DEF DiskInv
<1>4. MovedInPlace'
  BY <1>1, <1>3 DEF DiskInv, MovedInPlace, ctlVars
<1>5. drive.op \in {"none", "late"}
  BY <1>1 DEF DiskInv, DriverInv, DriveInv
<1>6. DriverTypes' /\ DriveInv' /\ InterruptsAreExpected'
  BY <1>1, <1>5 DEF DiskInv, DriverInv, DriverTypes, DriveInv, InterruptsAreExpected, ctlVars, Commands
<1>7. PreparedInv'
  BY <1>3, TriesAreNatural DEF PreparedInv
<1> QED BY <1>3, <1>4, <1>6, <1>7 DEF DiskInv, DriverInv

LEMMA ResetHdKeeps ==
  ASSUME DiskInv, ResetHd
  PROVE  DiskInv'
<1>1. /\ req_q # <<>> /\ reset' = FALSE /\ recalibrate' = TRUE
      /\ drive' = [op |-> "init", sector |-> 0, left |-> 0] /\ do_hd' = "recal_intr"
      /\ prepared' = "reset" /\ pc' = "idle"
      /\ UNCHANGED <<reqVars, b_dirt, rw, copied>>
  BY DEF ResetHd, Running, HdOut
<1>2. TableInv'
  BY <1>1, TableUnchanged DEF DiskInv
<1>3. /\ drive'.op = "init"
      /\ drive' \in [op : {"none", "late", "init", "restore"} \cup Commands, sector : Nat, left : Int]
  BY <1>1 DEF Commands
<1>4. DriverTypes'
  BY <1>1, <1>3 DEF DiskInv, DriverInv, DriverTypes
<1>5. DriveInv' /\ PreparedInv' /\ InterruptsAreExpected'
  BY <1>1, <1>3 DEF DriveInv, PreparedInv, InterruptsAreExpected, reqVars, Commands
<1>6. MovedInPlace'
  BY <1>1 DEF DiskInv, MovedInPlace, reqVars
<1> QED BY <1>2, <1>4, <1>5, <1>6 DEF DiskInv, DriverInv

LEMMA RestoreKeeps ==
  ASSUME DiskInv, Restore
  PROVE  DiskInv'
<1>1. /\ req_q # <<>> /\ ~reset /\ recalibrate' = FALSE
      /\ drive' = [op |-> "restore", sector |-> 0, left |-> 0] /\ do_hd' = "recal_intr"
      /\ prepared' = (IF prepared = "reset" THEN "restored" ELSE prepared) /\ pc' = "idle"
      /\ UNCHANGED <<reqVars, b_dirt, rw, reset, copied>>
  BY DEF Restore, Running, HdOut
<1>2. TableInv'
  BY <1>1, TableUnchanged DEF DiskInv
<1>3. /\ drive'.op = "restore"
      /\ drive' \in [op : {"none", "late", "init", "restore"} \cup Commands, sector : Nat, left : Int]
  BY <1>1 DEF Commands
<1>4. DriverTypes'
  BY <1>1, <1>3 DEF DiskInv, DriverInv, DriverTypes
<1>5. DriveInv' /\ InterruptsAreExpected'
  BY <1>1, <1>3 DEF DriveInv, InterruptsAreExpected, reqVars, Commands
<1>6. MovedInPlace'
  BY <1>1 DEF DiskInv, MovedInPlace, reqVars
<1>7. PreparedInv'
  BY <1>1 DEF DiskInv, DriverInv, PreparedInv, CURR_REQ, reqVars
<1> QED BY <1>2, <1>4, <1>5, <1>6, <1>7 DEF DiskInv, DriverInv

LEMMA StartReadKeeps ==
  ASSUME DiskInv, StartRead
  PROVE  DiskInv'
<1> DEFINE r == request[CURR_REQ]
<1>1. /\ req_q # <<>> /\ ~reset /\ ~recalibrate
      /\ drive' = [op |-> "READ", sector |-> r.sector, left |-> r.nr_sector] /\ do_hd' = "read_intr"
      /\ pc' = "idle"
      /\ UNCHANGED <<reqVars, b_dirt, rw, reset, recalibrate, prepared, copied>>
  BY DEF StartRead, Transfers, Running, HdOut
<1>2. TableInv'
  BY <1>1, TableUnchanged DEF DiskInv
<1>3. r.sector \in Nat /\ r.nr_sector \in Int
  BY <1>1, FirstInUse DEF DiskInv, Request
<1>4. r' = r
  BY <1>1 DEF CURR_REQ, reqVars
<1> HIDE DEF r
<1>5. drive'.op = "READ" /\ drive'.sector = r.sector
      /\ drive' \in [op : {"none", "late", "init", "restore"} \cup Commands, sector : Nat, left : Int]
  BY <1>1, <1>3 DEF Commands
<1>6. DriverTypes' /\ InterruptsAreExpected' /\ MovedInPlace'
  BY <1>1, <1>5 DEF DiskInv, DriverInv, DriverTypes, InterruptsAreExpected, MovedInPlace, reqVars
<1>7. DriveInv'
  BY <1>1, <1>4, <1>5 DEF DriveInv, reqVars, r
<1>8. PreparedInv'
  BY <1>1, <1>4 DEF DiskInv, DriverInv, PreparedInv, reqVars, r
<1> QED BY <1>2, <1>6, <1>7, <1>8 DEF DiskInv, DriverInv

(* What a transfer moves for the first request of the queue.               *)
LEMMA MoveInPlace ==
  ASSUME DiskInv, req_q # <<>>, NEW sector, NEW buffer, Move(sector, buffer),
         <<sector, buffer>> \in OfBlock(bh)
  PROVE  /\ copied' \in [Buffer -> SUBSET (Nat \X Nat)]
         /\ copied'[bh] = copied[bh] \cup {<<sector, buffer>>} /\ copied'[bh] \subseteq OfBlock(bh)
         /\ \A b \in Buffer \ {bh} : copied'[b] = copied[b]
         /\ \A b \in Buffer : copied[b] \subseteq copied'[b]
<1>1. bh \in Buffer /\ copied \in [Buffer -> SUBSET (Nat \X Nat)] /\ copied[bh] \subseteq OfBlock(bh)
  BY FirstInUse DEF DiskInv, DriverInv, DriverTypes, MovedInPlace
<1>2. OfBlock(bh) \subseteq Nat \X Nat
  <2>1. bh \in Nat
    BY <1>1, DiskAssumption DEF DiskAssumption
  <2> HIDE DEF bh
  <2> QED BY <2>1 DEF OfBlock
<1>3. copied' = [copied EXCEPT ![bh] = copied[bh] \cup {<<sector, buffer>>}]
  BY DEF Move
<1> HIDE DEF bh
<1> QED BY <1>1, <1>2, <1>3

LEMMA FirstSector ==
  ASSUME TableInv, req_q # <<>>
  PROVE  /\ <<request[CURR_REQ].sector, request[CURR_REQ].buffer>> \in OfBlock(bh)
         /\ request[CURR_REQ].sector \in Nat /\ request[CURR_REQ].nr_sector \in Int
         /\ bh \in Nat
<1>1. bh \in Nat /\ InWork(request[CURR_REQ], copied[bh]) /\ request[CURR_REQ] \in Request
      /\ request[CURR_REQ].bh = bh
  BY FirstInUse, DiskAssumption DEF DiskAssumption, bh
<1> QED BY <1>1 DEF InWork, OfBlock, Request

LEMMA StartWriteKeeps ==
  ASSUME DiskInv, StartWrite
  PROVE  DiskInv'
<1> DEFINE r == request[CURR_REQ]
<1>1. /\ req_q # <<>> /\ ~reset /\ ~recalibrate
      /\ drive' = [op |-> "WRITE", sector |-> r.sector, left |-> r.nr_sector] /\ do_hd' = "write_intr"
      /\ Move(r.sector, r.buffer) /\ pc' = "idle"
      /\ UNCHANGED <<reqVars, b_dirt, rw, reset, recalibrate, prepared>>
  BY DEF StartWrite, Transfers, Running, HdOut
<1>2. r.sector \in Nat /\ r.nr_sector \in Int /\ <<r.sector, r.buffer>> \in OfBlock(bh)
  BY <1>1, FirstSector DEF DiskInv
<1>3. /\ copied' \in [Buffer -> SUBSET (Nat \X Nat)]
      /\ copied'[bh] = copied[bh] \cup {<<r.sector, r.buffer>>} /\ copied'[bh] \subseteq OfBlock(bh)
      /\ \A b \in Buffer \ {bh} : copied'[b] = copied[b]
      /\ \A b \in Buffer : copied[b] \subseteq copied'[b]
  BY <1>1, <1>2, MoveInPlace
<1>4. TableInv'
  BY <1>1, <1>3, TableUnchanged DEF DiskInv
<1>5. r' = r /\ bh' = bh /\ b_lock[bh]
  BY <1>1, FirstInUse DEF CURR_REQ, bh, reqVars, DiskInv
<1> HIDE DEF r
<1>6. drive'.op = "WRITE" /\ drive'.sector = r.sector
      /\ drive' \in [op : {"none", "late", "init", "restore"} \cup Commands, sector : Nat, left : Int]
  BY <1>1, <1>2 DEF Commands
<1>7. DriverTypes' /\ InterruptsAreExpected'
  BY <1>1, <1>3, <1>6 DEF DiskInv, DriverInv, DriverTypes, InterruptsAreExpected
<1>8. MovedInPlace'
  BY <1>1, <1>3, <1>5 DEF DiskInv, MovedInPlace, reqVars
<1>9. DriveInv'
  BY <1>1, <1>3, <1>5, <1>6 DEF DriveInv, reqVars, r
<1>10. PreparedInv'
  BY <1>1, <1>5 DEF DiskInv, DriverInv, PreparedInv, reqVars, r
<1> QED BY <1>4, <1>7, <1>8, <1>9, <1>10 DEF DiskInv, DriverInv

-----------------------------------------------------------------------------
(* An error: one more for the first request, which ends if it was the      *)
(* last, and then the next one has had none.                               *)
LEMMA OneMoreErrorRevises ==
  ASSUME TableInv, req_q # <<>>
  PROVE  /\ Revised(OneMoreError) /\ OneMoreError[CURR_REQ].dev = 0
         /\ InWork(OneMoreError[CURR_REQ], copied[bh])
         /\ OneMoreError[CURR_REQ].errors = request[CURR_REQ].errors + 1
<1> DEFINE c == CURR_REQ
           r == request[c]
           one == [r EXCEPT !.errors = r.errors + 1]
<1>1. c \in Entries /\ request \in [Entries -> Request] /\ r.bh = bh
  BY FirstOfQueue DEF TableInv, TableTypes, bh
<1>2. r \in Request /\ r.dev = 0 /\ InWork(r, copied[bh])
  BY FirstInUse
<1>3. OneMoreError = [request EXCEPT ![c] = one]
  BY <1>1 DEF OneMoreError
<1> HIDE DEF c, r
<1>4. /\ one \in Request /\ one.dev = r.dev /\ one.bh = r.bh /\ one.errors = r.errors + 1
      /\ one.buffer = r.buffer /\ one.sector = r.sector /\ one.nr_sector = r.nr_sector
  BY <1>2 DEF Request
<1> HIDE DEF one
<1>5. OneMoreError \in [Entries -> Request] /\ OneMoreError[c] = one
      /\ \A e \in Entries \ {c} : OneMoreError[e] = request[e]
  BY <1>1, <1>3, <1>4
<1>6. InWork(one, copied[bh])
  BY <1>2, <1>4 DEF InWork
<1> QED BY <1>1, <1>2, <1>4, <1>5, <1>6 DEF Revised, c, r

LEMMA ErrorKeeps ==
  ASSUME DiskInv, req_q # <<>>, BadRwIntr, UNCHANGED <<rw, copied>>
  PROVE  TableInv' /\ PreparedInv' /\ MovedInPlace' /\ reset' \in BOOLEAN
<1> DEFINE c == CURR_REQ
           n == request[c].errors + 1
<1>1. /\ Revised(OneMoreError) /\ OneMoreError[c].dev = 0
      /\ InWork(OneMoreError[c], copied[bh]) /\ OneMoreError[c].errors = n
  BY OneMoreErrorRevises DEF DiskInv
<1>2. CASE n >= MAX_ERRORS
  <2>1. /\ EndRequest(OneMoreError, FALSE)
        /\ reset' = (reset \/ ErrorsOfNext > MAX_ERRORS \div 2)
    BY <1>2 DEF BadRwIntr
  <2>2. /\ TableInv' /\ b_uptodate'[bh] = FALSE
        /\ \A b \in Buffer \ {bh} : b_uptodate'[b] = b_uptodate[b] /\ b_lock'[b] = b_lock[b]
        /\ req_q' # <<>> => request'[CURR_REQ'].errors = 0
    BY <1>1, <2>1, EndRequestKeeps DEF DiskInv
  <2>3. MovedInPlace'
    BY <2>2 DEF DiskInv, MovedInPlace
  <2>4. PreparedInv'
    BY <2>2, TriesAreNatural DEF PreparedInv
  <2>5. reset' \in BOOLEAN
    BY <2>1
  <2> QED BY <2>2, <2>3, <2>4, <2>5
<1>3. CASE ~(n >= MAX_ERRORS)
  <2>1. /\ request' = OneMoreError /\ UNCHANGED <<req_q, b_lock, b_uptodate, at>>
        /\ reset' = (reset \/ n > MAX_ERRORS \div 2)
    BY <1>3 DEF BadRwIntr
  <2>2. TableInv'
    BY <1>1, <2>1, ReviseKeeps DEF DiskInv
  <2>3. MovedInPlace'
    BY <2>1 DEF DiskInv, MovedInPlace
  <2>4. CURR_REQ' = c /\ request'[CURR_REQ'].errors = n
    BY <1>1, <2>1 DEF CURR_REQ
  <2>5. PreparedInv'
    BY <2>1, <2>4 DEF PreparedInv
  <2>6. reset' \in BOOLEAN
    BY <2>1
  <2> QED BY <2>2, <2>3, <2>5, <2>6
<1> QED BY <1>2, <1>3

LEMMA NoDataRequestKeeps ==
  ASSUME DiskInv, NoDataRequest
  PROVE  DiskInv'
<1>1. /\ pc = "repeat" /\ req_q # <<>> /\ BadRwIntr
      /\ drive' = [op |-> "late", sector |-> 0, left |-> 0] /\ do_hd' = "write_intr"
      /\ UNCHANGED <<b_dirt, rw, recalibrate, pc, copied>>
  BY DEF NoDataRequest, Transfers, Running, HdOut
<1>2. TableInv' /\ PreparedInv' /\ MovedInPlace' /\ reset' \in BOOLEAN
  BY <1>1, ErrorKeeps
<1>3. /\ drive'.op = "late"
      /\ drive' \in [op : {"none", "late", "init", "restore"} \cup Commands, sector : Nat, left : Int]
  BY <1>1 DEF Commands
<1>4. DriverTypes'
  BY <1>1, <1>2, <1>3 DEF DiskInv, DriverInv, DriverTypes
<1>5. DriveInv' /\ InterruptsAreExpected'
  BY <1>1, <1>3 DEF DriveInv, InterruptsAreExpected, Commands
<1> QED BY <1>2, <1>4, <1>5 DEF DiskInv, DriverInv

LEMMA NoDriveIdle ==
  /\ NoDrive.op = "none"
  /\ NoDrive \in [op : {"none", "late", "init", "restore"} \cup Commands, sector : Nat, left : Int]
BY DEF NoDrive, Commands

LEMMA CommandFailsKeeps ==
  ASSUME DiskInv, CommandFails
  PROVE  DiskInv'
<1>1. /\ drive.op \in {"init", "restore", "READ", "WRITE"} /\ BadRwIntr
      /\ do_hd' = "NULL" /\ drive' = NoDrive /\ pc' = "repeat"
      /\ UNCHANGED <<b_dirt, rw, recalibrate, copied>>
  BY DEF CommandFails, Interrupt
<1>2. req_q # <<>>
  BY <1>1 DEF DiskInv, DriverInv, DriveInv
<1>3. TableInv' /\ PreparedInv' /\ MovedInPlace' /\ reset' \in BOOLEAN
  BY <1>1, <1>2, ErrorKeeps
<1>4. DriverTypes'
  BY <1>1, <1>3, NoDriveIdle DEF DiskInv, DriverInv, DriverTypes
<1>5. DriveInv' /\ InterruptsAreExpected'
  BY <1>1, NoDriveIdle DEF DriveInv, InterruptsAreExpected, Commands
<1> QED BY <1>3, <1>4, <1>5 DEF DiskInv, DriverInv

LEMMA RecalIntrKeeps ==
  ASSUME DiskInv, RecalIntr
  PROVE  DiskInv'
<1>1. /\ do_hd' = "NULL" /\ drive' = NoDrive /\ pc' = "repeat"
      /\ UNCHANGED <<reqVars, b_dirt, rw, reset, recalibrate, prepared, copied>>
  BY DEF RecalIntr
<1>2. TableInv'
  BY <1>1, TableUnchanged DEF DiskInv
<1>3. DriverTypes'
  BY <1>1, NoDriveIdle DEF DiskInv, DriverInv, DriverTypes
<1>4. DriveInv' /\ InterruptsAreExpected'
  BY <1>1, NoDriveIdle DEF DriveInv, InterruptsAreExpected, Commands
<1>5. MovedInPlace' /\ PreparedInv'
  BY <1>1 DEF DiskInv, DriverInv, MovedInPlace, PreparedInv, CURR_REQ, reqVars
<1> QED BY <1>2, <1>3, <1>4, <1>5 DEF DiskInv, DriverInv

LEMMA LateInterruptKeeps ==
  ASSUME DiskInv, LateInterrupt
  PROVE  DiskInv'
<1>1. /\ do_hd' = "NULL" /\ drive' = NoDrive /\ pc' = "page directory overwritten"
      /\ UNCHANGED <<reqVars, b_dirt, rw, reset, recalibrate, prepared, copied>>
  BY DEF LateInterrupt
<1>2. TableInv'
  BY <1>1, TableUnchanged DEF DiskInv
<1>3. DriverTypes'
  BY <1>1, NoDriveIdle DEF DiskInv, DriverInv, DriverTypes
<1>4. DriveInv' /\ InterruptsAreExpected'
  BY <1>1, NoDriveIdle DEF DriveInv, InterruptsAreExpected, Commands
<1>5. MovedInPlace' /\ PreparedInv'
  BY <1>1 DEF DiskInv, DriverInv, MovedInPlace, PreparedInv, CURR_REQ, reqVars
<1> QED BY <1>2, <1>3, <1>4, <1>5 DEF DiskInv, DriverInv

-----------------------------------------------------------------------------
(* The end of a transfer: all of the block has been moved.                 *)
LEMMA LastSectorKeeps ==
  ASSUME DiskInv, req_q # <<>>, NEW rq, Revised(rq), LastSector(rq),
         UNCHANGED <<b_dirt, rw, reset, recalibrate, prepared>>,
         copied' \in [Buffer -> SUBSET (Nat \X Nat)], copied'[bh] = OfBlock(bh),
         \A b \in Buffer \ {bh} : copied'[b] = copied[b]
  PROVE  DiskInv'
<1>1. EndRequest(rq, TRUE) /\ drive' = NoDrive /\ do_hd' = "NULL" /\ pc' = "repeat"
  BY DEF LastSector
<1>2. /\ TableInv'
      /\ \A b \in Buffer \ {bh} : b_uptodate'[b] = b_uptodate[b] /\ b_lock'[b] = b_lock[b]
      /\ req_q' # <<>> => request'[CURR_REQ'].errors = 0
  BY <1>1, EndRequestKeeps DEF DiskInv
<1>3. MovedInPlace'
  BY <1>2 DEF DiskInv, MovedInPlace
<1>4. PreparedInv'
  BY <1>2, TriesAreNatural DEF PreparedInv
<1>5. DriverTypes'
  BY <1>1, NoDriveIdle DEF DiskInv, DriverInv, DriverTypes
<1>6. DriveInv' /\ InterruptsAreExpected'
  BY <1>1, NoDriveIdle DEF DriveInv, InterruptsAreExpected, Commands
<1> QED BY <1>2, <1>3, <1>4, <1>5, <1>6 DEF DiskInv, DriverInv

(* The first of two sectors is over.                                       *)
LEMMA NextSectorKeeps ==
  ASSUME DiskInv, req_q # <<>>, drive.op \in Commands,
         NEW rq, Revised(rq), NextSector(rq), rq[CURR_REQ].dev = 0,
         InWork(rq[CURR_REQ], copied'[bh]),
         rq[CURR_REQ].sector = request[CURR_REQ].sector + 1,
         rq[CURR_REQ].errors \in {0, request[CURR_REQ].errors},
         drive.op = "WRITE" => <<rq[CURR_REQ].sector, rq[CURR_REQ].buffer>> \in copied'[bh],
         UNCHANGED <<b_dirt, rw, reset, recalibrate, prepared>>,
         copied' \in [Buffer -> SUBSET (Nat \X Nat)], copied'[bh] \subseteq OfBlock(bh),
         \A b \in Buffer \ {bh} : copied'[b] = copied[b]
  PROVE  DiskInv'
<1>1. /\ request' = rq /\ drive' = [drive EXCEPT !.sector = @ + 1, !.left = @ - 1]
      /\ UNCHANGED <<req_q, b_lock, b_uptodate, at, do_hd, pc>>
  BY DEF NextSector
<1>2. TableInv'
  BY <1>1, ReviseKeeps DEF DiskInv
<1>3. CURR_REQ' = CURR_REQ /\ bh' = bh /\ bh \in Buffer /\ b_lock[bh]
  BY <1>1, FirstInUse DEF DiskInv, CURR_REQ, bh, Revised
<1>4. /\ drive' \in [op : {"none", "late", "init", "restore"} \cup Commands, sector : Nat, left : Int]
      /\ drive'.op = drive.op /\ drive'.sector = drive.sector + 1
  <2>1. drive \in [op : {"none", "late", "init", "restore"} \cup Commands, sector : Nat, left : Int]
    BY DEF DiskInv, DriverInv, DriverTypes
  <2> DEFINE one == [drive EXCEPT !.sector = @ + 1]
  <2>2. /\ one \in [op : {"none", "late", "init", "restore"} \cup Commands, sector : Nat, left : Int]
        /\ one.op = drive.op /\ one.sector = drive.sector + 1 /\ one.left = drive.left
    BY <2>1
  <2>3. drive' = [one EXCEPT !.left = @ - 1]
    BY <1>1, <2>1
  <2> HIDE DEF one
  <2> QED BY <2>2, <2>3
<1>5. DriverTypes' /\ InterruptsAreExpected'
  BY <1>1, <1>4 DEF DiskInv, DriverInv, DriverTypes, InterruptsAreExpected
<1>6. DriveInv'
  <2>1. drive.sector = request[CURR_REQ].sector /\ pc # "repeat" /\ ~reset /\ ~recalibrate
    BY DEF DiskInv, DriverInv, DriveInv, Commands
  <2>2. request'[CURR_REQ'] = rq[CURR_REQ]
    BY <1>1, <1>3
  <2> QED BY <1>1, <1>3, <1>4, <2>1, <2>2 DEF DriveInv
<1>7. PreparedInv'
  <2>1. ~(0 > MAX_ERRORS \div 2)
    BY TriesAreNatural
  <2>2. request'[CURR_REQ'].errors \in {0, request[CURR_REQ].errors}
    BY <1>1, <1>3
  <2> QED BY <1>1, <2>1, <2>2 DEF DiskInv, DriverInv, PreparedInv
<1>8. MovedInPlace'
  BY <1>1, <1>3 DEF DiskInv, MovedInPlace
<1> QED BY <1>2, <1>5, <1>6, <1>7, <1>8 DEF DiskInv, DriverInv

(* What the two handlers leave of the first request.                       *)
LEMMA SectorReadRevises ==
  ASSUME TableInv, req_q # <<>>
  PROVE  /\ Revised(SectorRead) /\ SectorRead[CURR_REQ].dev = 0
         /\ SectorRead[CURR_REQ].errors = 0
         /\ SectorRead[CURR_REQ].buffer = request[CURR_REQ].buffer + 1
         /\ SectorRead[CURR_REQ].sector = request[CURR_REQ].sector + 1
         /\ SectorRead[CURR_REQ].nr_sector = request[CURR_REQ].nr_sector - 1
<1> DEFINE c == CURR_REQ
           r == request[c]
           r1 == [r EXCEPT !.errors = 0]
           r2 == [r1 EXCEPT !.buffer = r.buffer + 1]
           r3 == [r2 EXCEPT !.sector = r.sector + 1]
           r4 == [r3 EXCEPT !.nr_sector = r.nr_sector - 1]
<1>1. c \in Entries /\ request \in [Entries -> Request] /\ r.bh = bh
  BY FirstOfQueue DEF TableInv, TableTypes, bh
<1>2. r \in Request /\ r.dev = 0
  BY FirstInUse
<1>3. SectorRead = [request EXCEPT ![c] = r4]
  <2>1. SectorRead = [request EXCEPT ![c] = [r EXCEPT !.errors = 0, !.buffer = r.buffer + 1,
                                                      !.sector = r.sector + 1, !.nr_sector = r.nr_sector - 1]]
    BY DEF SectorRead
  <2>2. [r EXCEPT !.errors = 0, !.buffer = r.buffer + 1, !.sector = r.sector + 1,
                  !.nr_sector = r.nr_sector - 1] = r4
    BY <1>2 DEF Request
  <2> QED BY <2>1, <2>2
<1> HIDE DEF c, r
<1>4. /\ r1 \in Request /\ r1.errors = 0 /\ r1.dev = 0 /\ r1.bh = r.bh
  BY <1>2 DEF Request
<1> HIDE DEF r1
<1>5. /\ r2 \in Request /\ r2.errors = 0 /\ r2.dev = 0 /\ r2.bh = r.bh /\ r2.buffer = r.buffer + 1
  BY <1>2, <1>4 DEF Request
<1> HIDE DEF r2
<1>6. /\ r3 \in Request /\ r3.errors = 0 /\ r3.dev = 0 /\ r3.bh = r.bh /\ r3.buffer = r.buffer + 1
      /\ r3.sector = r.sector + 1
  BY <1>2, <1>5 DEF Request
<1> HIDE DEF r3
<1>7. /\ r4 \in Request /\ r4.errors = 0 /\ r4.dev = 0 /\ r4.bh = r.bh /\ r4.buffer = r.buffer + 1
      /\ r4.sector = r.sector + 1 /\ r4.nr_sector = r.nr_sector - 1
  BY <1>2, <1>6 DEF Request
<1> HIDE DEF r4
<1>8. /\ SectorRead \in [Entries -> Request] /\ SectorRead[c] = r4
      /\ \A e \in Entries \ {c} : SectorRead[e] = request[e]
  BY <1>1, <1>3, <1>7
<1> QED BY <1>1, <1>7, <1>8 DEF Revised, c, r

LEMMA SectorWrittenRevises ==
  ASSUME TableInv, req_q # <<>>
  PROVE  /\ Revised(SectorWritten) /\ SectorWritten[CURR_REQ].dev = 0
         /\ SectorWritten[CURR_REQ].errors = request[CURR_REQ].errors
         /\ request[CURR_REQ].nr_sector > 1 =>
              /\ SectorWritten[CURR_REQ].buffer = request[CURR_REQ].buffer + 1
              /\ SectorWritten[CURR_REQ].sector = request[CURR_REQ].sector + 1
              /\ SectorWritten[CURR_REQ].nr_sector = request[CURR_REQ].nr_sector - 1
<1> DEFINE c == CURR_REQ
           r == request[c]
           r1 == [r EXCEPT !.nr_sector = r.nr_sector - 1]
           r2 == [r1 EXCEPT !.sector = r.sector + 1]
           r3 == [r2 EXCEPT !.buffer = r.buffer + 1]
           s == IF r.nr_sector > 1 THEN r3 ELSE r1
<1>1. c \in Entries /\ request \in [Entries -> Request] /\ r.bh = bh
  BY FirstOfQueue DEF TableInv, TableTypes, bh
<1>2. r \in Request /\ r.dev = 0
  BY FirstInUse
<1>3. SectorWritten = [request EXCEPT ![c] = s]
  <2>1. SectorWritten =
          [request EXCEPT ![c] =
             IF r.nr_sector > 1
               THEN [r EXCEPT !.nr_sector = r.nr_sector - 1, !.sector = r.sector + 1, !.buffer = r.buffer + 1]
               ELSE [r EXCEPT !.nr_sector = r.nr_sector - 1]]
    BY DEF SectorWritten
  <2>2. [r EXCEPT !.nr_sector = r.nr_sector - 1, !.sector = r.sector + 1, !.buffer = r.buffer + 1] = r3
    BY <1>2 DEF Request
  <2> QED BY <2>1, <2>2
<1> HIDE DEF c, r
<1>4. /\ r1 \in Request /\ r1.errors = r.errors /\ r1.dev = 0 /\ r1.bh = r.bh
      /\ r1.nr_sector = r.nr_sector - 1
  BY <1>2 DEF Request
<1> HIDE DEF r1
<1>5. /\ r2 \in Request /\ r2.errors = r.errors /\ r2.dev = 0 /\ r2.bh = r.bh
      /\ r2.nr_sector = r.nr_sector - 1 /\ r2.sector = r.sector + 1
  BY <1>2, <1>4 DEF Request
<1> HIDE DEF r2
<1>6. /\ r3 \in Request /\ r3.errors = r.errors /\ r3.dev = 0 /\ r3.bh = r.bh
      /\ r3.nr_sector = r.nr_sector - 1 /\ r3.sector = r.sector + 1 /\ r3.buffer = r.buffer + 1
  BY <1>2, <1>5 DEF Request
<1> HIDE DEF r3
<1>7. /\ s \in Request /\ s.errors = r.errors /\ s.dev = 0 /\ s.bh = r.bh
      /\ r.nr_sector > 1 => s = r3
  BY <1>4, <1>6
<1> HIDE DEF s
<1>8. /\ SectorWritten \in [Entries -> Request] /\ SectorWritten[c] = s
      /\ \A e \in Entries \ {c} : SectorWritten[e] = request[e]
  BY <1>1, <1>3, <1>7
<1> QED BY <1>1, <1>6, <1>7, <1>8 DEF Revised, c, r

LEMMA ReadIntrKeeps ==
  ASSUME DiskInv, ReadIntr
  PROVE  DiskInv'
<1> DEFINE r == request[CURR_REQ]
<1>1. /\ drive.op = "READ" /\ Move(drive.sector, r.buffer)
      /\ IF r.nr_sector > 1 THEN NextSector(SectorRead) ELSE LastSector(SectorRead)
      /\ UNCHANGED <<b_dirt, rw, reset, recalibrate, prepared>>
  BY DEF ReadIntr, Interrupt
<1>2. req_q # <<>> /\ drive.sector = r.sector
  BY <1>1 DEF DiskInv, DriverInv, DriveInv, Commands
<1>3. /\ <<r.sector, r.buffer>> \in OfBlock(bh) /\ bh \in Nat
      /\ InWork(r, copied[bh]) /\ r.bh = bh
  BY <1>2, FirstSector, FirstInUse DEF DiskInv, bh
<1>4. /\ copied' \in [Buffer -> SUBSET (Nat \X Nat)]
      /\ copied'[bh] = copied[bh] \cup {<<r.sector, r.buffer>>} /\ copied'[bh] \subseteq OfBlock(bh)
      /\ \A b \in Buffer \ {bh} : copied'[b] = copied[b]
  BY <1>1, <1>2, <1>3, MoveInPlace
<1> DEFINE s == SectorRead[CURR_REQ]
<1>5. /\ Revised(SectorRead) /\ s.dev = 0 /\ s.errors = 0 /\ s.buffer = r.buffer + 1
      /\ s.sector = r.sector + 1 /\ s.nr_sector = r.nr_sector - 1
  BY <1>2, SectorReadRevises DEF DiskInv
<1>6. s.bh = bh
  BY <1>5 DEF Revised
<1> HIDE DEF r, s, bh
<1>7. CASE r.nr_sector > 1
  <2>1. r.buffer = 0 /\ r.sector = 2 * bh /\ r.nr_sector = 2
    BY <1>3, <1>7 DEF InWork
  <2>2. InWork(s, copied'[bh])
    BY <1>3, <1>4, <1>5, <1>6, <2>1 DEF InWork
  <2>3. NextSector(SectorRead) /\ drive.op \in Commands /\ drive.op # "WRITE"
    BY <1>1, <1>7 DEF Commands
  <2> QED BY <1>1, <1>2, <1>4, <1>5, <2>2, <2>3, NextSectorKeeps DEF r, s
<1>8. CASE ~(r.nr_sector > 1)
  <2>1. r.buffer = 1 /\ r.sector = 2 * bh + 1 /\ <<2 * bh, 0>> \in copied[bh]
    BY <1>3, <1>8 DEF InWork
  <2>2. copied'[bh] = OfBlock(bh)
    BY <1>4, <2>1 DEF OfBlock
  <2>3. LastSector(SectorRead)
    BY <1>1, <1>8
  <2> QED BY <1>1, <1>2, <1>4, <1>5, <2>2, <2>3, LastSectorKeeps
<1> QED BY <1>7, <1>8

LEMMA WriteIntrKeeps ==
  ASSUME DiskInv, WriteIntr
  PROVE  DiskInv'
<1> DEFINE r == request[CURR_REQ]
           s == SectorWritten[CURR_REQ]
<1>1. /\ drive.op = "WRITE"
      /\ IF r.nr_sector > 1
            THEN NextSector(SectorWritten) /\ Move(drive.sector + 1, s.buffer)
            ELSE LastSector(SectorWritten) /\ UNCHANGED copied
      /\ UNCHANGED <<b_dirt, rw, reset, recalibrate, prepared>>
  BY DEF WriteIntr, Interrupt
<1>2. req_q # <<>> /\ drive.sector = r.sector /\ <<r.sector, r.buffer>> \in copied[bh]
  BY <1>1 DEF DiskInv, DriverInv, DriveInv, Commands
<1>3. bh \in Nat /\ bh \in Buffer /\ InWork(r, copied[bh]) /\ r.bh = bh
  BY <1>2, FirstSector, FirstInUse DEF DiskInv, bh
<1>4. /\ Revised(SectorWritten) /\ s.dev = 0 /\ s.errors = r.errors
      /\ r.nr_sector > 1 => s.buffer = r.buffer + 1 /\ s.sector = r.sector + 1 /\ s.nr_sector = r.nr_sector - 1
  BY <1>2, SectorWrittenRevises DEF DiskInv
<1>5. s.bh = bh /\ copied \in [Buffer -> SUBSET (Nat \X Nat)] /\ copied[bh] \subseteq OfBlock(bh)
  BY <1>3, <1>4 DEF Revised, DiskInv, DriverInv, DriverTypes, MovedInPlace
<1> HIDE DEF r, s, bh
<1>6. CASE r.nr_sector > 1
  <2>1. r.buffer = 0 /\ r.sector = 2 * bh /\ r.nr_sector = 2
    BY <1>3, <1>6 DEF InWork
  <2>2. s.buffer = 1 /\ s.sector = 2 * bh + 1 /\ s.nr_sector = 1 /\ drive.sector + 1 = s.sector
    BY <1>2, <1>3, <1>4, <1>6, <2>1
  <2>3. /\ copied' \in [Buffer -> SUBSET (Nat \X Nat)]
        /\ copied'[bh] = copied[bh] \cup {<<s.sector, s.buffer>>} /\ copied'[bh] \subseteq OfBlock(bh)
        /\ \A b \in Buffer \ {bh} : copied'[b] = copied[b]
    <3>1. <<s.sector, s.buffer>> \in OfBlock(bh)
      BY <2>2 DEF OfBlock
    <3>2. Move(s.sector, s.buffer)
      BY <1>1, <1>6, <2>2
    <3> QED BY <1>2, <3>1, <3>2, MoveInPlace
  <2>4. InWork(s, copied'[bh])
    BY <1>2, <1>3, <1>5, <2>1, <2>2, <2>3 DEF InWork
  <2>5. NextSector(SectorWritten) /\ drive.op \in Commands
    BY <1>1, <1>6 DEF Commands
  <2>6. s.sector = r.sector + 1 /\ s.errors \in {0, r.errors} /\ <<s.sector, s.buffer>> \in copied'[bh]
    BY <1>4, <1>6, <2>3
  <2> QED BY <1>1, <1>2, <1>4, <2>3, <2>4, <2>5, <2>6, NextSectorKeeps DEF r, s
<1>7. CASE ~(r.nr_sector > 1)
  <2>1. r.buffer = 1 /\ r.sector = 2 * bh + 1 /\ <<2 * bh, 0>> \in copied[bh]
    BY <1>3, <1>7 DEF InWork
  <2>2. copied[bh] = OfBlock(bh)
    BY <1>2, <1>5, <2>1 DEF OfBlock
  <2>3. LastSector(SectorWritten) /\ copied' = copied
    BY <1>1, <1>7
  <2> QED BY <1>1, <1>2, <1>4, <1>5, <2>2, <2>3, LastSectorKeeps
<1> QED BY <1>6, <1>7

-----------------------------------------------------------------------------
LEMMA DiskStarts ==
  ASSUME DInit
  PROVE  DiskInv
<1> USE DiskAssumption DEF DiskAssumption
<1>1. PICK b0 \in Buffer : b0 = CHOOSE b \in Buffer : TRUE
  OBVIOUS
<1>2. b0 \in Nat /\ NUMBER_OF_REQUESTS - 1 \in Entries
  BY DEF Entries
<1>3. IdleEntry \in Request /\ IdleEntry.dev = -1
  BY <1>1 DEF IdleEntry, Request, Commands
<1>4. DriverTypes /\ drive.op = "none" /\ reset /\ \A b \in Buffer : copied[b] = {} /\ ~b_uptodate[b]
  BY NoDriveIdle DEF DInit, DriverTypes
<1>5. DriverInv /\ MovedInPlace
  BY <1>4 DEF DriverInv, DriveInv, PreparedInv, InterruptsAreExpected, MovedInPlace, Commands
<1>6. /\ b_uptodate \in [Buffer -> BOOLEAN] /\ rw \in [Buffer -> Commands]
      /\ at \in [Buffer -> Waiting \cup {"done"}] /\ \A b \in Buffer : at[b] = "done"
  BY DEF DInit, Commands
<1>7. WaitersInv
  BY <1>6 DEF WaitersInv, Waiting
<1>8. CASE /\ request = [e \in Entries |-> IdleEntry] /\ req_q = <<>>
           /\ b_lock = [b \in Buffer |-> FALSE]
  <2>1. InUse = {} /\ Queued = {}
    BY <1>3, <1>8 DEF InUse, Idle, Queued
  <2>2. TableTypes
    BY <1>3, <1>6, <1>8 DEF TableTypes
  <2>3. BlocksAreLocked /\ ProgressInv
    BY <1>8, <2>1 DEF BlocksAreLocked, ProgressInv
  <2> QED BY <1>5, <1>7, <2>2, <2>3 DEF DiskInv, TableInv
<1>9. ASSUME NEW b \in Buffer, NEW cmd \in Commands,
             request = [e \in Entries |-> IF e = NUMBER_OF_REQUESTS - 1 THEN NewRequest(b, cmd) ELSE IdleEntry],
             req_q = <<NUMBER_OF_REQUESTS - 1>>,
             b_lock = [c \in Buffer |-> c = b]
      PROVE  DiskInv
  <2> DEFINE e0 == NUMBER_OF_REQUESTS - 1
             new == NewRequest(b, cmd)
  <2>1. /\ new \in Request /\ new.dev = 0 /\ new.bh = b /\ Fresh(new) /\ InWork(new, {})
    BY DEF NewRequest, Request, Fresh, InWork
  <2>2. /\ request \in [Entries -> Request] /\ request[e0] = new
        /\ \A e \in Entries \ {e0} : request[e].dev = -1
    BY <1>2, <1>3, <1>9, <2>1
  <2> HIDE DEF new
  <2>3. InUse = {e0}
    BY <1>2, <2>1, <2>2 DEF InUse, Idle
  <2>4. req_q \in Seq(Entries) /\ Len(req_q) = 1 /\ req_q[1] = e0 /\ req_q # <<>>
    BY <1>2, <1>9
  <2>5. Queued = {e0}
    BY <2>4 DEF Queued
  <2>6. b_lock \in [Buffer -> BOOLEAN] /\ b_lock[b]
    BY <1>9
  <2>7. TableTypes
    BY <1>6, <2>2, <2>4, <2>6 DEF TableTypes
  <2>8. BlocksAreLocked
    BY <2>1, <2>2, <2>3, <2>4, <2>5, <2>6 DEF BlocksAreLocked
  <2>9. ProgressInv
    BY <1>4, <2>1, <2>2, <2>3, <2>4 DEF ProgressInv, IsFirst
  <2> QED BY <1>5, <1>7, <2>7, <2>8, <2>9 DEF DiskInv, TableInv
<1> QED BY <1>8, <1>9 DEF DInit

LEMMA DiskSteps ==
  ASSUME DiskInv, [DNext]_diskVars
  PROVE  DiskInv'
<1>1. ASSUME NEW b \in Buffer, NEW cmd \in Commands, MakeRequest(b, cmd) PROVE DiskInv'
  BY <1>1, MakeRequestKeeps
<1>2. ASSUME NEW b \in Buffer, AddRequest(b) PROVE DiskInv'
  BY <1>2, AddRequestKeeps
<1>3. ASSUME NEW b \in Buffer, NoEntry(b) \/ SleepOn(b) \/ ScanAgain(b) PROVE DiskInv'
  <2>1. PICK place \in Waiting : at' = [at EXCEPT ![b] = place]
    BY <1>3 DEF NoEntry, SleepOn, ScanAgain, Waiting
  <2>2. at[b] \in Waiting /\ UNCHANGED <<request, req_q, b_lock, b_uptodate, rw, ctlVars>>
    BY <1>3 DEF NoEntry, SleepOn, ScanAgain, Waiting
  <2> QED BY <2>1, <2>2, PlaceChanges
<1>4. ASSUME NEW b \in Buffer, Modify(b) PROVE DiskInv'
  <2>1. UNCHANGED <<reqVars, rw, ctlVars>>
    BY <1>4 DEF Modify
  <2>2. TableInv'
    BY <2>1, TableUnchanged DEF DiskInv, ctlVars
  <2>3. DriverInv' /\ MovedInPlace'
    BY <2>1, DriverUnchanged DEF DiskInv, MovedInPlace, reqVars, ctlVars
  <2> QED BY <2>2, <2>3 DEF DiskInv
<1>5. CASE Driver
  BY <1>5, QueueEmptyKeeps, RefuseRequestKeeps, NotReadyKeeps, ResetHdKeeps, RestoreKeeps,
     StartReadKeeps, StartWriteKeeps, NoDataRequestKeeps DEF Driver
<1>6. CASE Answer
  BY <1>6, CommandFailsKeeps, RecalIntrKeeps, ReadIntrKeeps, WriteIntrKeeps DEF Answer
<1>7. CASE LateInterrupt
  BY <1>7, LateInterruptKeeps
<1>8. CASE UNCHANGED diskVars
  <2>1. UNCHANGED <<reqVars, rw, ctlVars>>
    BY <1>8 DEF diskVars
  <2>2. TableInv'
    BY <2>1, TableUnchanged DEF DiskInv, ctlVars
  <2>3. DriverInv' /\ MovedInPlace'
    BY <2>1, DriverUnchanged DEF DiskInv, MovedInPlace, reqVars, ctlVars
  <2> QED BY <2>2, <2>3 DEF DiskInv
<1> QED BY <1>1, <1>2, <1>3, <1>4, <1>5, <1>6, <1>7, <1>8 DEF DNext

(* All of it holds in every state of the driver.                           *)
THEOREM DiskInvariant == DSpec => []DiskInv
<1>1. DInit => DiskInv
  BY DiskStarts
<1>2. DiskInv /\ [DNext]_diskVars => DiskInv'
  BY DiskSteps
<1> QED BY <1>1, <1>2, PTL DEF DSpec

(* Every request has a locked buffer of its own and is queued once: the    *)
(* panics of do_hd_request do not happen.                                  *)
THEOREM RequestsOwnBuffers == DSpec => []BlocksAreLocked
<1>1. DiskInv => BlocksAreLocked
  BY DEF DiskInv, TableInv
<1> QED BY <1>1, DiskInvariant, PTL

(* Nothing is moved from or to a wrong place, and all of a block has been  *)
(* moved before its buffer is uptodate, whatever the retries.              *)
THEOREM TransfersAreComplete == DSpec => []MovedInPlace
<1>1. DiskInv => MovedInPlace
  BY DEF DiskInv
<1> QED BY <1>1, DiskInvariant, PTL

(* do_hd is the handler of the command the controller works on.            *)
THEOREM HandlersFit == DSpec => []InterruptsAreExpected
<1>1. DiskInv => InterruptsAreExpected
  BY DEF DiskInv, DriverInv
<1> QED BY <1>1, DiskInvariant, PTL

(* After more than half of the tries, bad_rw_intr() has had the controller *)
(* reset and the heads restored before the next.                           *)
THEOREM ResetsPrecedeRetries == DSpec => []ResetBeforeRetry
<1>1. DiskInv => ResetBeforeRetry
  <2>1. SUFFICES ASSUME DiskInv, drive.op \in Commands, request[CURR_REQ].errors > MAX_ERRORS \div 2
                 PROVE  prepared = "restored"
    BY DEF ResetBeforeRetry
  <2>2. req_q # <<>> /\ ~reset /\ ~recalibrate
    BY <2>1 DEF DiskInv, DriverInv, DriveInv, Commands
  <2> QED BY <2>1, <2>2 DEF DiskInv, DriverInv, PreparedInv
<1> QED BY <1>1, DiskInvariant, PTL

-----------------------------------------------------------------------------
(* Only the first request of the queue leaves it, by end_request().        *)
LEMMA OthersStay ==
  ASSUME TableInv, NEW e \in Queued, e \notin Queued', req_q # <<>>, req_q' = Tail(req_q)
  PROVE  e = CURR_REQ
<1>1. PICK i \in 1 .. Len(req_q) : e = req_q[i]
  BY DEF Queued
<1>2. CASE i = 1
  BY <1>1, <1>2, FirstOfQueue
<1>3. CASE i # 1
  <2>1. i - 1 \in 1 .. Len(req_q) - 1 /\ Len(req_q') = Len(req_q) - 1 /\ req_q'[i - 1] = req_q[(i - 1) + 1]
    BY <1>3, FirstOfQueue
  <2>2. e = req_q'[i - 1] /\ i - 1 \in 1 .. Len(req_q')
    BY <1>1, <2>1
  <2> QED BY <2>2 DEF Queued
<1> QED BY <1>2, <1>3

LEMMA QueueKept ==
  ASSUME req_q' = req_q
  PROVE  Queued' = Queued
BY DEF Queued

LEMMA QueueGrows ==
  ASSUME DiskInv, NEW b \in Buffer, AddRequest(b)
  PROVE  Queued \subseteq Queued'
<1>1. req_q \in Seq(Entries) /\ Len(req_q) \in Nat
  BY DEF DiskInv, TableInv, TableTypes
<1>2. PICK e \in Entries : req_q' = IF req_q = <<>> THEN req_q ELSE Append(req_q, e)
  BY DEF AddRequest
<1>3. CASE req_q = <<>>
  BY <1>2, <1>3, QueueKept
<1>4. CASE req_q # <<>>
  <2>1. \A i \in 1 .. Len(req_q) : i \in 1 .. Len(req_q') /\ req_q'[i] = req_q[i]
    BY <1>1, <1>2, <1>4
  <2> QED BY <2>1 DEF Queued
<1> QED BY <1>3, <1>4

GivenUp(e) ==
  /\ e \in Queued /\ e \notin Queued' /\ ~b_uptodate'[request[e].bh]
  /\ 2 * request[e].bh + 2 <= nr_sects /\ ~HalfOfLastBlock(e)

(* A request that bad_rw_intr() ends has no more tries.                    *)
LEMMA ErrorsGiveUpLate ==
  ASSUME DiskInv, req_q # <<>>, BadRwIntr, UNCHANGED rw, NEW e \in Entries, GivenUp(e)
  PROVE  request'[e].errors >= MAX_ERRORS
<1> DEFINE n == request[CURR_REQ].errors + 1
<1>1. Revised(OneMoreError) /\ OneMoreError[CURR_REQ].errors = n
  BY OneMoreErrorRevises DEF DiskInv
<1>2. CASE n >= MAX_ERRORS
  <2>1. EndRequest(OneMoreError, FALSE)
    BY <1>2 DEF BadRwIntr
  <2>2. req_q' = Tail(req_q) /\ \A f \in Entries : request'[f].errors = OneMoreError[f].errors
    BY <1>1, <2>1, EndRequestKeeps DEF DiskInv
  <2>3. e = CURR_REQ
    BY <2>2, OthersStay DEF DiskInv, GivenUp
  <2> QED BY <1>1, <1>2, <2>2, <2>3
<1>3. CASE ~(n >= MAX_ERRORS)
  <2>1. req_q' = req_q
    BY <1>3 DEF BadRwIntr
  <2> QED BY <2>1, QueueKept DEF GivenUp
<1> QED BY <1>2, <1>3

LEMMA LastSectorIsUptodate ==
  ASSUME DiskInv, req_q # <<>>, NEW rq, Revised(rq), LastSector(rq), UNCHANGED rw,
         NEW e \in Entries, GivenUp(e)
  PROVE  FALSE
<1>1. EndRequest(rq, TRUE)
  BY DEF LastSector
<1>2. req_q' = Tail(req_q) /\ b_uptodate'[bh] = TRUE
  BY <1>1, EndRequestKeeps DEF DiskInv
<1>3. e = CURR_REQ
  BY <1>2, OthersStay DEF DiskInv, GivenUp
<1> QED BY <1>2, <1>3 DEF GivenUp, bh

LEMMA RefusedIsHalfDone ==
  ASSUME DiskInv, RefuseRequest, NEW e \in Entries, GivenUp(e)
  PROVE  FALSE
<1>1. req_q # <<>> /\ OutOfRange /\ req_q' = Tail(req_q)
  BY DEF RefuseRequest, Running, EndRequest
<1>2. e = CURR_REQ
  BY <1>1, OthersStay DEF DiskInv, GivenUp
<1> DEFINE r == request[e]
<1>3. r.sector + 2 > nr_sects /\ 2 * r.bh + 2 <= nr_sects
  BY <1>1, <1>2 DEF OutOfRange, GivenUp
<1>4. InWork(r, copied[bh]) /\ r.bh \in Nat /\ nr_sects \in Nat
  BY <1>1, <1>2, FirstInUse, FirstSector, DiskAssumption DEF DiskInv, DiskAssumption, bh
<1> HIDE DEF r
<1>5. 2 * r.bh + 2 = nr_sects /\ r.nr_sector = 1
  BY <1>3, <1>4 DEF InWork
<1> QED BY <1>5 DEF GivenUp, HalfOfLastBlock, r

LEMMA TriesAreUsedUp ==
  ASSUME DiskInv, [DNext]_diskVars, NEW e \in Entries, GivenUp(e)
  PROVE  request'[e].errors >= MAX_ERRORS
<1>1. req_q' # req_q
  BY QueueKept DEF GivenUp
<1>2. ASSUME NEW b \in Buffer, NEW cmd \in Commands, MakeRequest(b, cmd) PROVE FALSE
  BY <1>1, <1>2 DEF MakeRequest
<1>3. ASSUME NEW b \in Buffer, AddRequest(b) PROVE FALSE
  BY <1>3, QueueGrows DEF GivenUp
<1>4. ASSUME NEW b \in Buffer, NoEntry(b) \/ SleepOn(b) \/ ScanAgain(b) \/ Modify(b) PROVE FALSE
  BY <1>1, <1>4 DEF NoEntry, SleepOn, ScanAgain, Modify, reqVars
<1>5. CASE QueueEmpty \/ NotReady \/ ResetHd \/ Restore \/ StartRead \/ StartWrite \/ RecalIntr \/ LateInterrupt
  BY <1>1, <1>5 DEF QueueEmpty, NotReady, ResetHd, Restore, StartRead, StartWrite, RecalIntr,
                    LateInterrupt, reqVars
<1>6. CASE RefuseRequest
  BY <1>6, RefusedIsHalfDone
<1>7. CASE NoDataRequest
  <2>1. req_q # <<>> /\ BadRwIntr /\ UNCHANGED rw
    BY <1>7 DEF NoDataRequest, Transfers, Running
  <2> QED BY <2>1, ErrorsGiveUpLate
<1>8. CASE CommandFails
  <2>1. req_q # <<>> /\ BadRwIntr /\ UNCHANGED rw
    BY <1>8 DEF CommandFails, Interrupt, DiskInv, DriverInv, DriveInv
  <2> QED BY <2>1, ErrorsGiveUpLate
<1>9. CASE ReadIntr
  <2>1. drive.op = "READ" /\ (NextSector(SectorRead) \/ LastSector(SectorRead)) /\ UNCHANGED rw
    BY <1>9 DEF ReadIntr, Interrupt
  <2>2. req_q # <<>>
    BY <2>1 DEF DiskInv, DriverInv, DriveInv
  <2>3. ~NextSector(SectorRead)
    BY <1>1 DEF NextSector
  <2>4. Revised(SectorRead)
    BY <2>2, SectorReadRevises DEF DiskInv
  <2> QED BY <2>1, <2>2, <2>3, <2>4, LastSectorIsUptodate
<1>10. CASE WriteIntr
  <2>1. drive.op = "WRITE" /\ (NextSector(SectorWritten) \/ LastSector(SectorWritten)) /\ UNCHANGED rw
    BY <1>10 DEF WriteIntr, Interrupt
  <2>2. req_q # <<>>
    BY <2>1 DEF DiskInv, DriverInv, DriveInv
  <2>3. ~NextSector(SectorWritten)
    BY <1>1 DEF NextSector
  <2>4. Revised(SectorWritten)
    BY <2>2, SectorWrittenRevises DEF DiskInv
  <2> QED BY <2>1, <2>2, <2>3, <2>4, LastSectorIsUptodate
<1>11. CASE UNCHANGED diskVars
  BY <1>1, <1>11 DEF diskVars, reqVars
<1> QED BY <1>2, <1>3, <1>4, <1>5, <1>6, <1>7, <1>8, <1>9, <1>10, <1>11 DEF DNext, Driver, Answer

(* A request for a block of the partition is given up only when its own    *)
(* tries are used up, but for the second half of the last block.           *)
THEOREM NothingIsGivenUpEarly == DSpec => TriedToTheEnd
<1>1. DiskInv /\ [DNext]_diskVars =>
        [\A e \in Entries :
           /\ e \in Queued /\ e \notin Queued' /\ ~b_uptodate'[request[e].bh]
           /\ 2 * request[e].bh + 2 <= nr_sects /\ ~HalfOfLastBlock(e)
           => request'[e].errors >= MAX_ERRORS]_diskVars
  BY TriesAreUsedUp DEF GivenUp
<1> QED BY <1>1, DiskInvariant, PTL DEF DSpec, TriedToTheEnd

-----------------------------------------------------------------------------
(* HardDisk implements BlockDevice.  This is what the users of the buffers *)
(* see of a state.                                                         *)
Locked == {b \in Buffer : b_lock[b]}
Calling == {b \in Buffer : at[b] # "done"}
LineOf(rq, q) == [i \in 1 .. Len(q) |-> rq[q[i]].bh]
Line == LineOf(request, req_q)
Uptodate == {b \in Buffer : b_uptodate[b]}
Dirty == {b \in Buffer : b_dirt[b]}
Moved == [b \in Buffer |-> {x[2] : x \in copied[b]}]

(* A buffer that stays locked after the call has a request, and a call has *)
(* a buffer that is locked for it.                                         *)
AcceptedInv ==
  /\ b_dirt \in [Buffer -> BOOLEAN]
  /\ \A b \in Buffer : b_lock[b] /\ at[b] = "done" => \E e \in InUse : request[e].bh = b

LEMMA LineOfTypes ==
  ASSUME NEW rq \in [Entries -> Request], NEW q \in Seq(Entries)
  PROVE  /\ LineOf(rq, q) \in Seq(Buffer) /\ Len(LineOf(rq, q)) = Len(q)
         /\ \A i \in 1 .. Len(q) : LineOf(rq, q)[i] = rq[q[i]].bh /\ q[i] \in Entries
<1>1. Len(q) \in Nat /\ \A i \in 1 .. Len(q) : q[i] \in Entries
  OBVIOUS
<1>2. \A i \in 1 .. Len(q) : rq[q[i]].bh \in Buffer
  BY <1>1 DEF Request
<1> QED BY <1>1, <1>2 DEF LineOf

LEMMA LineOfTail ==
  ASSUME NEW rq \in [Entries -> Request], NEW rq2 \in [Entries -> Request],
         \A e \in Entries : rq2[e].bh = rq[e].bh,
         NEW q \in Seq(Entries), q # <<>>
  PROVE  LineOf(rq2, Tail(q)) = Tail(LineOf(rq, q))
<1> DEFINE t == Tail(q)
           a == LineOf(rq, q)
           b == LineOf(rq2, t)
<1>1. /\ t \in Seq(Entries) /\ Len(t) = Len(q) - 1 /\ Len(q) \in Nat
      /\ \A i \in 1 .. Len(t) : t[i] = q[i + 1]
  BY HeadTailProperties
<1> HIDE DEF t
<1>2. /\ a \in Seq(Buffer) /\ Len(a) = Len(q)
      /\ \A i \in 1 .. Len(q) : a[i] = rq[q[i]].bh /\ q[i] \in Entries
  BY LineOfTypes
<1>3. /\ b \in Seq(Buffer) /\ Len(b) = Len(t) /\ \A i \in 1 .. Len(t) : b[i] = rq2[t[i]].bh
  BY <1>1, LineOfTypes
<1> HIDE DEF a, b
<1>4. a # <<>>
  BY <1>2
<1>5. /\ Tail(a) \in Seq(Buffer) /\ Len(Tail(a)) = Len(q) - 1
      /\ \A i \in 1 .. Len(Tail(a)) : Tail(a)[i] = a[i + 1]
  BY <1>2, <1>4, HeadTailProperties
<1>6. ASSUME NEW i \in 1 .. Len(b) PROVE b[i] = Tail(a)[i]
  <2>1. i \in 1 .. Len(t) /\ i \in 1 .. Len(Tail(a)) /\ i + 1 \in 1 .. Len(q)
    BY <1>1, <1>3, <1>5
  <2>2. b[i] = rq2[q[i + 1]].bh
    BY <1>1, <1>3, <2>1
  <2>3. Tail(a)[i] = rq[q[i + 1]].bh /\ q[i + 1] \in Entries
    BY <1>2, <1>5, <2>1
  <2> QED BY <2>2, <2>3
<1>7. Len(b) = Len(Tail(a))
  BY <1>1, <1>3, <1>5
<1>8. b = Tail(a)
  BY <1>3, <1>5, <1>6, <1>7, SeqEqual
<1> QED BY <1>8 DEF a, b, t

LEMMA LineOfAppend ==
  ASSUME NEW rq \in [Entries -> Request], NEW rq2 \in [Entries -> Request],
         NEW q \in Seq(Entries), NEW e \in Entries, \A i \in 1 .. Len(q) : q[i] # e,
         \A f \in Entries \ {e} : rq2[f].bh = rq[f].bh
  PROVE  LineOf(rq2, Append(q, e)) = Append(LineOf(rq, q), rq2[e].bh)
<1> DEFINE t == Append(q, e)
           a == LineOf(rq, q)
           b == LineOf(rq2, t)
           n == Len(q)
<1>1. /\ t \in Seq(Entries) /\ Len(t) = n + 1 /\ n \in Nat
      /\ \A i \in 1 .. n : t[i] = q[i]
      /\ t[n + 1] = e
  BY AppendProperties
<1> HIDE DEF t
<1>2. a \in Seq(Buffer) /\ Len(a) = n /\ \A i \in 1 .. n : a[i] = rq[q[i]].bh /\ q[i] \in Entries
  BY LineOfTypes
<1>3. b \in Seq(Buffer) /\ Len(b) = n + 1 /\ \A i \in 1 .. n + 1 : b[i] = rq2[t[i]].bh
  BY <1>1, LineOfTypes
<1>4. rq2[e].bh \in Buffer
  BY DEF Request
<1> DEFINE x == rq2[e].bh
<1> HIDE DEF a, b, n, x
<1>5. /\ Append(a, x) \in Seq(Buffer) /\ Len(Append(a, x)) = n + 1
      /\ \A i \in 1 .. n : Append(a, x)[i] = a[i]
      /\ Append(a, x)[n + 1] = x
  BY <1>2, <1>4, AppendProperties DEF x
<1>6. ASSUME NEW i \in 1 .. n + 1 PROVE b[i] = Append(a, x)[i]
  <2>1. CASE i = n + 1
    BY <1>1, <1>3, <1>5, <2>1 DEF x
  <2>2. CASE i # n + 1
    <3>1. i \in 1 .. n
      BY <1>1, <2>2
    <3>2. b[i] = rq2[q[i]].bh /\ q[i] \in Entries \ {e} /\ Append(a, x)[i] = rq[q[i]].bh
      BY <1>1, <1>2, <1>3, <1>5, <3>1 DEF n
    <3> QED BY <3>2
  <2> QED BY <2>1, <2>2
<1>7. b = Append(a, x)
  BY <1>3, <1>5, <1>6, SeqEqual
<1> QED BY <1>7 DEF a, b, t, x

LEMMA LineTypes ==
  ASSUME TableInv
  PROVE  /\ Line \in Seq(Buffer) /\ Len(Line) = Len(req_q)
         /\ Line = <<>> <=> req_q = <<>>
         /\ req_q # <<>> => Head(Line) = bh
<1>1. req_q \in Seq(Entries) /\ request \in [Entries -> Request] /\ Len(req_q) \in Nat
  BY DEF TableInv, TableTypes
<1>2. /\ Line \in Seq(Buffer) /\ Len(Line) = Len(req_q)
      /\ \A i \in 1 .. Len(req_q) : Line[i] = request[req_q[i]].bh
  BY <1>1, LineOfTypes DEF Line
<1>3. Line = <<>> <=> req_q = <<>>
  BY <1>1, <1>2
<1>4. req_q # <<>> => Head(Line) = bh
  <2>1. req_q # <<>> => 1 \in 1 .. Len(req_q) /\ CURR_REQ = req_q[1]
    BY <1>1 DEF CURR_REQ
  <2>2. req_q # <<>> => Head(Line) = Line[1]
    BY <1>2, <1>3
  <2> QED BY <1>2, <2>1, <2>2 DEF bh
<1> QED BY <1>2, <1>3, <1>4

LEMMA LineKept ==
  ASSUME TableInv, req_q' = req_q, \A e \in Entries : request'[e].bh = request[e].bh
  PROVE  Line' = Line
<1>1. req_q \in Seq(Entries)
  BY DEF TableInv, TableTypes
<1>2. \A i \in 1 .. Len(req_q) : request'[req_q[i]].bh = request[req_q[i]].bh
  BY <1>1
<1> QED BY <1>2 DEF Line, LineOf

-----------------------------------------------------------------------------
(* The steps that the users of the buffers do not see.                     *)
LEMMA UnseenStep ==
  ASSUME Locked' = Locked, Calling' = Calling, Line' = Line, Uptodate' = Uptodate,
         Dirty' = Dirty, Moved' = Moved
  PROVE  UNCHANGED Device!deviceVars
BY Zenon DEF Device!deviceVars, Locked, Calling, Line, LineOf, Uptodate, Dirty, Moved

LEMMA UnseenDriverStep ==
  ASSUME TableInv, UNCHANGED <<req_q, b_lock, b_uptodate, at, b_dirt, copied>>,
         \A e \in Entries : request'[e].bh = request[e].bh
  PROVE  UNCHANGED Device!deviceVars
<1>1. Line' = Line
  BY LineKept
<1>2. Locked' = Locked /\ Calling' = Calling /\ Uptodate' = Uptodate /\ Dirty' = Dirty /\ Moved' = Moved
  BY DEF Locked, Calling, Uptodate, Dirty, Moved
<1> QED BY <1>1, <1>2, UnseenStep

LEMMA RevisedBuffers ==
  ASSUME TableInv, req_q # <<>>, NEW rq, Revised(rq)
  PROVE  \A e \in Entries : rq[e].bh = request[e].bh
BY DEF Revised, bh

(* end_request() takes the first buffer out of the line and unlocks it.    *)
LEMMA EndRequestLeaves ==
  ASSUME DiskInv, req_q # <<>>, NEW rq, Revised(rq), NEW up \in BOOLEAN, EndRequest(rq, up),
         UNCHANGED <<b_dirt, rw>>
  PROVE  /\ Device!LeaveLine
         /\ Uptodate' = IF up THEN Uptodate \cup {bh} ELSE Uptodate \ {bh}
<1>1. /\ request' = [rq EXCEPT ![CURR_REQ].dev = -1]
      /\ b_uptodate' = [b_uptodate EXCEPT ![bh] = up]
      /\ b_lock' = [b_lock EXCEPT ![bh] = FALSE]
      /\ at' = [b \in Buffer |-> IF at[b] = "asleep" THEN "woken" ELSE at[b]]
      /\ req_q' = Tail(req_q)
  BY DEF EndRequest
<1>2. TableTypes /\ bh \in Buffer /\ Line # <<>> /\ Head(Line) = bh
  BY FirstInUse, LineTypes DEF DiskInv, TableInv
<1>3. \A e \in Entries : request'[e].bh = request[e].bh
  <2>1. \A e \in Entries : rq[e].bh = request[e].bh
    BY RevisedBuffers DEF DiskInv
  <2>2. rq \in [Entries -> Request] /\ CURR_REQ \in Entries
    BY FirstOfQueue DEF DiskInv, Revised
  <2>3. \A e \in Entries : request'[e].bh = rq[e].bh
    BY <1>1, <2>2 DEF Request
  <2> QED BY <2>1, <2>3
<1>4. Line' = Tail(Line)
  <2>1. request' \in [Entries -> Request] /\ request \in [Entries -> Request] /\ req_q \in Seq(Entries)
    BY EndRequestKeeps DEF DiskInv, TableInv, TableTypes
  <2>2. LineOf(request', Tail(req_q)) = Tail(LineOf(request, req_q))
    BY <1>3, <2>1, LineOfTail
  <2> QED BY <1>1, <2>2 DEF Line
<1> HIDE DEF bh
<1>5. Locked' = Locked \ {bh}
  BY <1>1, <1>2 DEF TableTypes, Locked
<1>6. Calling' = Calling
  BY <1>1, <1>2 DEF TableTypes, Calling
<1>7. Uptodate' = IF up THEN Uptodate \cup {bh} ELSE Uptodate \ {bh}
  BY <1>1, <1>2 DEF TableTypes, Uptodate
<1>8. Dirty' = Dirty
  BY DEF Dirty
<1>9. Device!LeaveLine
  BY <1>2, <1>4, <1>5, <1>6, <1>8, Zenon
     DEF Device!LeaveLine, Device!First, Locked, Calling, Line, LineOf, Dirty
<1> QED BY <1>7, <1>9

LEMMA RequestGivenUp ==
  ASSUME DiskInv, req_q # <<>>, NEW rq, Revised(rq), EndRequest(rq, FALSE),
         UNCHANGED <<b_dirt, rw, copied>>
  PROVE  Device!GiveUp
<1>1. Device!LeaveLine /\ Uptodate' = Uptodate \ {bh}
  BY EndRequestLeaves
<1>2. Head(Line) = bh /\ Moved' = Moved
  BY LineTypes DEF DiskInv, Moved
<1> HIDE DEF bh
<1> QED BY <1>1, <1>2, Zenon DEF Device!GiveUp, Device!First, Uptodate, Line, LineOf, Moved

(* A transfer moves a sector of the first buffer: the first one, or, when  *)
(* that is over, the second.                                               *)
LEMMA MovedNow ==
  ASSUME DiskInv, req_q # <<>>, NEW sector, NEW buffer, Move(sector, buffer)
  PROVE  Moved' = [Moved EXCEPT ![bh] = Moved[bh] \cup {buffer}]
<1>1. bh \in Buffer /\ copied \in [Buffer -> SUBSET (Nat \X Nat)]
  BY FirstInUse DEF DiskInv, DriverInv, DriverTypes
<1>2. copied' = [copied EXCEPT ![bh] = copied[bh] \cup {<<sector, buffer>>}]
  BY DEF Move
<1> HIDE DEF bh
<1>3. copied'[bh] = copied[bh] \cup {<<sector, buffer>>} /\ \A b \in Buffer \ {bh} : copied'[b] = copied[b]
  BY <1>1, <1>2
<1>4. {x[2] : x \in copied'[bh]} = {x[2] : x \in copied[bh]} \cup {buffer}
  <2> DEFINE y == <<sector, buffer>>
  <2>1. y[2] = buffer
    OBVIOUS
  <2> HIDE DEF y
  <2>2. {x[2] : x \in copied[bh] \cup {y}} = {x[2] : x \in copied[bh]} \cup {buffer}
    BY <2>1, Zenon
  <2> QED BY <1>3, <2>2 DEF y
<1>5. Moved[bh] = {x[2] : x \in copied[bh]}
  BY <1>1 DEF Moved
<1>6. \A b \in Buffer : {x[2] : x \in copied'[b]} =
        IF b = bh THEN Moved[bh] \cup {buffer} ELSE {x[2] : x \in copied[b]}
  BY <1>3, <1>4, <1>5
<1> DEFINE moved == Moved[bh] \cup {buffer}
<1> HIDE DEF moved
<1> QED BY <1>1, <1>6, Zenon DEF Moved, moved

LEMMA SectorMoves ==
  ASSUME DiskInv, req_q # <<>>, NEW sector, NEW buffer \in {0, 1}, Move(sector, buffer),
         buffer = 1 => <<2 * bh, 0>> \in copied[bh],
         UNCHANGED <<req_q, b_lock, b_uptodate, at, b_dirt>>,
         \A e \in Entries : request'[e].bh = request[e].bh
  PROVE  \E s \in Device!Sectors : Device!MoveSector(s)
<1>1. Line' = Line /\ Line # <<>> /\ Head(Line) = bh /\ bh \in Buffer
  BY LineKept, LineTypes, FirstInUse DEF DiskInv
<1>2. Moved' = [Moved EXCEPT ![bh] = Moved[bh] \cup {buffer}]
  BY MovedNow
<1>3. buffer = 1 => 0 \in Moved[bh]
  BY <1>1 DEF Moved
<1>4. Locked' = Locked /\ Calling' = Calling /\ Uptodate' = Uptodate /\ Dirty' = Dirty
  BY DEF Locked, Calling, Uptodate, Dirty
<1> HIDE DEF bh
<1>5. Device!MoveSector(buffer)
  BY <1>1, <1>2, <1>3, <1>4, Zenon
     DEF Device!MoveSector, Device!First, Locked, Calling, Line, LineOf, Uptodate, Dirty, Moved
<1>6. buffer \in Device!Sectors
  BY DEF Device!Sectors
<1> QED BY <1>5, <1>6

(* A transfer ends when both sectors have been moved.                      *)
LEMMA TransferEnds ==
  ASSUME DiskInv, req_q # <<>>, NEW rq, Revised(rq), EndRequest(rq, TRUE),
         UNCHANGED <<b_dirt, rw>>,
         <<2 * bh, 0>> \in copied[bh], copied' \in [Buffer -> SUBSET (Nat \X Nat)],
         copied'[bh] = OfBlock(bh), \A b \in Buffer \ {bh} : copied'[b] = copied[b]
  PROVE  Device!Finish
<1>1. Device!LeaveLine /\ Uptodate' = Uptodate \cup {bh}
  BY EndRequestLeaves
<1>2. Head(Line) = bh /\ bh \in Buffer
  BY LineTypes, FirstInUse DEF DiskInv
<1> HIDE DEF bh
<1>3. 0 \in Moved[bh]
  BY <1>2 DEF Moved
<1>4. {x[2] : x \in OfBlock(bh)} = {0, 1}
  BY DEF OfBlock
<1>5. \A b \in Buffer : {x[2] : x \in copied'[b]} = IF b = bh THEN {0, 1} ELSE {x[2] : x \in copied[b]}
  BY <1>4
<1>6. Moved' = [Moved EXCEPT ![bh] = {0, 1}]
  BY <1>2, <1>5, Zenon DEF Moved
<1> QED BY <1>1, <1>2, <1>3, <1>6, Zenon
        DEF Device!Finish, Device!First, Device!Sectors, Uptodate, Line, LineOf, Moved

-----------------------------------------------------------------------------
(* make_request(): every request has an entry of its own, so that with one *)
(* idle there are fewer than NUMBER_OF_REQUESTS.                           *)
LEMMA RoomLeft ==
  ASSUME TableInv, AcceptedInv, NEW e \in Entries, Idle(e)
  PROVE  Cardinality(Locked \ Calling) < NUMBER_OF_REQUESTS
<1> DEFINE S == Locked \ Calling
           T == Entries \ {e}
           f == [b \in S |-> CHOOSE g \in InUse : request[g].bh = b]
<1>1. IsFiniteSet(Entries) /\ Cardinality(Entries) = NUMBER_OF_REQUESTS
  <2>1. NUMBER_OF_REQUESTS \in Nat \ {0}
    BY DiskAssumption DEF DiskAssumption
  <2>2. 0 \in Int /\ NUMBER_OF_REQUESTS - 1 \in Int /\ ~(0 > NUMBER_OF_REQUESTS - 1)
        /\ (NUMBER_OF_REQUESTS - 1) - 0 + 1 = NUMBER_OF_REQUESTS
    BY <2>1
  <2> QED BY <2>2, FS_Interval DEF Entries
<1>2. IsFiniteSet(T) /\ Cardinality(T) = NUMBER_OF_REQUESTS - 1
  BY <1>1, FS_RemoveElement
<1>3. \A b \in S : f[b] \in InUse /\ request[f[b]].bh = b
  BY DEF AcceptedInv, Locked, Calling
<1>4. InUse \subseteq T
  BY DEF InUse
<1> HIDE DEF f, S, T
<1>5. f \in [S -> T]
  <2>1. DOMAIN f = S /\ f = [b \in S |-> f[b]]
    BY DEF f
  <2> QED BY <1>3, <1>4, <2>1
<1>6. \A a, b \in S : f[a] = f[b] => a = b
  BY <1>3
<1>7. f \in Injection(S, T)
  BY <1>5, <1>6 DEF Injection, IsInjective
<1>8. IsFiniteSet(S) /\ Cardinality(S) <= Cardinality(T)
  BY <1>2, <1>7, FS_Injection
<1>9. Cardinality(S) \in Nat /\ NUMBER_OF_REQUESTS \in Nat
  BY <1>8, FS_CardinalityType, DiskAssumption DEF DiskAssumption
<1> QED BY <1>2, <1>8, <1>9 DEF S

(* BlockDevice takes its Cardinality from FiniteSets on its own.           *)
LEMMA DeviceCounts == \A S : Device!Cardinality(S) = Cardinality(S)
BY Zenon DEF Device!Cardinality, Cardinality

LEMMA CallStep ==
  ASSUME DiskInv, AcceptedInv, NEW b \in Buffer, NEW cmd \in Commands, MakeRequest(b, cmd)
  PROVE  Device!Call(b) /\ AcceptedInv'
<1>1. /\ ~b_lock[b] /\ (b_dirt[b] \/ ~b_uptodate[b])
      /\ b_lock' = [b_lock EXCEPT ![b] = TRUE] /\ at' = [at EXCEPT ![b] = "scan"]
      /\ UNCHANGED <<request, req_q, b_uptodate, b_dirt, copied>>
  BY DEF MakeRequest, ctlVars
<1>2. TableTypes
  BY DEF DiskInv, TableInv
<1>3. b \notin Locked /\ (b \in Dirty \/ b \notin Uptodate)
  BY <1>1 DEF Locked, Dirty, Uptodate
<1>4. Locked' = Locked \cup {b} /\ Calling' = Calling \cup {b}
  BY <1>1, <1>2 DEF TableTypes, Locked, Calling
<1>5. Line' = Line /\ Uptodate' = Uptodate /\ Dirty' = Dirty /\ Moved' = Moved
  BY <1>1 DEF Line, Uptodate, Dirty, Moved
<1>6. Device!Call(b)
  BY <1>3, <1>4, <1>5, Zenon DEF Device!Call, Locked, Calling, Line, LineOf, Uptodate, Dirty, Moved
<1>7. at'[b] = "scan" /\ \A c \in Buffer \ {b} : at'[c] = at[c] /\ b_lock'[c] = b_lock[c]
  BY <1>1, <1>2 DEF TableTypes
<1>8. AcceptedInv'
  BY <1>1, <1>7 DEF AcceptedInv, InUse, Idle
<1> QED BY <1>6, <1>8

LEMMA AcceptStep ==
  ASSUME DiskInv, AcceptedInv, NEW b \in Buffer, AddRequest(b)
  PROVE  Device!Accept(b) /\ AcceptedInv'
<1>1. PICK e \in Entries :
        /\ Idle(e)
        /\ request' = [request EXCEPT ![e] = NewRequest(b, rw[b])]
        /\ req_q' = IF req_q = <<>> THEN req_q ELSE Append(req_q, e)
  BY DEF AddRequest
<1>2. /\ at[b] = "scan"
      /\ b_dirt' = [b_dirt EXCEPT ![b] = FALSE]
      /\ at' = [at EXCEPT ![b] = "done"] /\ copied' = [copied EXCEPT ![b] = {}]
      /\ UNCHANGED <<b_lock, b_uptodate>>
  BY DEF AddRequest
<1>3. /\ TableTypes /\ b_dirt \in [Buffer -> BOOLEAN] /\ copied \in [Buffer -> SUBSET (Nat \X Nat)]
      /\ request' \in [Entries -> Request] /\ request \in [Entries -> Request] /\ req_q \in Seq(Entries)
  BY AddRequestKeeps DEF DiskInv, DriverInv, DriverTypes, TableInv, TableTypes, AcceptedInv
<1>4. /\ request'[e].bh = b /\ request'[e].dev = 0
      /\ \A f \in Entries \ {e} : request'[f] = request[f]
  BY <1>1, <1>3 DEF NewRequest
<1>5. Line' = IF Line = <<>> THEN Line ELSE Append(Line, b)
  <2>1. Line = <<>> <=> req_q = <<>>
    BY LineTypes DEF DiskInv
  <2>2. CASE req_q = <<>>
    <3>1. req_q' = req_q /\ Len(req_q) = 0
      BY <1>1, <1>3, <2>2
    <3>2. Line' = Line
      BY <3>1 DEF Line, LineOf
    <3> QED BY <2>1, <2>2, <3>2
  <2>3. CASE req_q # <<>>
    <3>1. \A i \in 1 .. Len(req_q) : req_q[i] # e
      BY <1>1 DEF DiskInv, TableInv, BlocksAreLocked, Queued, InUse
    <3>2. req_q' = Append(req_q, e)
      BY <1>1, <2>3
    <3>3. LineOf(request', Append(req_q, e)) = Append(Line, b)
      BY <1>3, <1>4, <3>1, LineOfAppend DEF Line
    <3> QED BY <2>1, <2>3, <3>2, <3>3 DEF Line
  <2> QED BY <2>2, <2>3
<1>6. Locked' = Locked /\ Uptodate' = Uptodate /\ b \in Calling /\ Calling' = Calling \ {b}
  BY <1>2, <1>3 DEF TableTypes, Locked, Uptodate, Calling
<1>7. Dirty' = Dirty \ {b}
  BY <1>2, <1>3 DEF Dirty
<1>8. Moved' = [Moved EXCEPT ![b] = {}]
  <2>1. \A c \in Buffer : copied'[c] = IF c = b THEN {} ELSE copied[c]
    BY <1>2, <1>3
  <2>2. \A c \in Buffer : {x[2] : x \in copied'[c]} = IF c = b THEN {} ELSE {x[2] : x \in copied[c]}
    BY <2>1
  <2> QED BY <2>2, Zenon DEF Moved
<1>9. Device!Cardinality(Locked \ Calling) < NUMBER_OF_REQUESTS
  BY <1>1, RoomLeft, DeviceCounts DEF DiskInv
<1>10. Device!Accept(b)
  BY <1>5, <1>6, <1>7, <1>8, <1>9, Zenon
     DEF Device!Accept, Locked, Calling, Line, LineOf, Uptodate, Dirty, Moved
<1>11. AcceptedInv'
  <2>1. b_dirt' \in [Buffer -> BOOLEAN]
    BY <1>2, <1>3
  <2>2. \A f \in InUse : f \in InUse' /\ request'[f] = request[f]
    BY <1>1, <1>4 DEF InUse, Idle
  <2>3. e \in InUse'
    BY <1>4 DEF InUse, Idle
  <2>4. \A c \in Buffer \ {b} : at'[c] = at[c] /\ b_lock'[c] = b_lock[c]
    BY <1>2, <1>3 DEF TableTypes
  <2> QED BY <1>4, <2>1, <2>2, <2>3, <2>4 DEF AcceptedInv
<1> QED BY <1>10, <1>11

LEMMA WaitStep ==
  ASSUME DiskInv, AcceptedInv, NEW b \in Buffer, NoEntry(b) \/ SleepOn(b) \/ ScanAgain(b)
  PROVE  UNCHANGED Device!deviceVars /\ AcceptedInv'
<1>1. PICK place \in Waiting : at' = [at EXCEPT ![b] = place]
  BY DEF NoEntry, SleepOn, ScanAgain, Waiting
<1>2. at[b] # "done" /\ UNCHANGED <<request, req_q, b_lock, b_uptodate, b_dirt, copied>>
  BY DEF NoEntry, SleepOn, ScanAgain, ctlVars
<1>3. \A c \in Buffer : at'[c] = "done" <=> at[c] = "done"
  BY <1>1, <1>2 DEF DiskInv, TableInv, TableTypes, Waiting
<1>4. /\ Locked' = Locked /\ Calling' = Calling /\ Line' = Line /\ Uptodate' = Uptodate
      /\ Dirty' = Dirty /\ Moved' = Moved
  BY <1>2, <1>3 DEF Locked, Calling, Line, Uptodate, Dirty, Moved
<1>5. AcceptedInv'
  BY <1>2, <1>3 DEF AcceptedInv, InUse, Idle
<1> QED BY <1>4, <1>5, UnseenStep

LEMMA ModifyStep ==
  ASSUME DiskInv, AcceptedInv, NEW b \in Buffer, Modify(b)
  PROVE  Device!Modify(b) /\ AcceptedInv'
<1>1. /\ ~b_lock[b] /\ b_uptodate[b] /\ b_dirt' = [b_dirt EXCEPT ![b] = TRUE]
      /\ UNCHANGED <<request, req_q, b_lock, b_uptodate, at, copied>>
  BY DEF Modify, reqVars, ctlVars
<1>2. b_dirt' \in [Buffer -> BOOLEAN] /\ Dirty' = Dirty \cup {b}
  BY <1>1 DEF AcceptedInv, Dirty
<1>3. /\ b \in Uptodate \ Locked
      /\ Locked' = Locked /\ Calling' = Calling /\ Line' = Line /\ Uptodate' = Uptodate /\ Moved' = Moved
  BY <1>1 DEF Locked, Calling, Line, Uptodate, Moved
<1>4. Device!Modify(b)
  BY <1>2, <1>3, Zenon DEF Device!Modify, Locked, Calling, Line, LineOf, Uptodate, Dirty, Moved
<1>5. AcceptedInv'
  BY <1>1, <1>2 DEF AcceptedInv, InUse, Idle
<1> QED BY <1>4, <1>5

(* A step of the driver leaves each locked buffer its request.             *)
LEMMA RequestsStay ==
  ASSUME AcceptedInv, UNCHANGED b_dirt,
         \A b \in Buffer : b_lock'[b] /\ at'[b] = "done" => b_lock[b] /\ at[b] = "done",
         \A e \in InUse : b_lock'[request[e].bh] => e \in InUse' /\ request'[e].bh = request[e].bh
  PROVE  AcceptedInv'
BY DEF AcceptedInv

LEMMA NothingEnds ==
  ASSUME TableInv, AcceptedInv, UNCHANGED <<b_lock, at, b_dirt>>,
         \A e \in Entries : request'[e].bh = request[e].bh /\ (request[e].dev = 0 => request'[e].dev = 0)
  PROVE  AcceptedInv'
<1>1. \A e \in InUse : e \in Entries /\ request[e].dev = 0
  BY DEF TableInv, TableTypes, InUse, Idle, Request
<1>2. \A e \in InUse : e \in InUse' /\ request'[e].bh = request[e].bh
  BY <1>1 DEF InUse, Idle
<1> QED BY <1>2, RequestsStay

LEMMA OneEnds ==
  ASSUME TableInv, AcceptedInv, req_q # <<>>, NEW rq, Revised(rq), NEW up, EndRequest(rq, up),
         UNCHANGED b_dirt
  PROVE  AcceptedInv'
<1>1. /\ request' = [rq EXCEPT ![CURR_REQ].dev = -1]
      /\ b_lock' = [b_lock EXCEPT ![bh] = FALSE]
      /\ at' = [b \in Buffer |-> IF at[b] = "asleep" THEN "woken" ELSE at[b]]
  BY DEF EndRequest
<1>2. bh \in Buffer /\ b_lock \in [Buffer -> BOOLEAN] /\ request[CURR_REQ].bh = bh
  BY FirstInUse DEF TableInv, TableTypes, bh
<1>3. rq \in [Entries -> Request] /\ \A e \in Entries \ {CURR_REQ} : rq[e] = request[e]
  BY DEF Revised
<1>4. \A e \in Entries \ {CURR_REQ} : request'[e] = request[e]
  BY <1>1, <1>3
<1> HIDE DEF bh
<1>5. ~b_lock'[bh] /\ \A b \in Buffer \ {bh} : b_lock'[b] = b_lock[b]
  BY <1>1, <1>2
<1>6. \A b \in Buffer : at'[b] = "done" => at[b] = "done"
  BY <1>1
<1>7. \A e \in InUse : b_lock'[request[e].bh] => e \in InUse' /\ request'[e].bh = request[e].bh
  BY <1>2, <1>4, <1>5 DEF InUse, Idle
<1>8. \A b \in Buffer : b_lock'[b] /\ at'[b] = "done" => b_lock[b] /\ at[b] = "done"
  BY <1>5, <1>6
<1> QED BY <1>7, <1>8, RequestsStay

-----------------------------------------------------------------------------
(* The driver.                                                             *)
Seen == [Device!DeviceNext]_(Device!deviceVars)

LEMMA ErrorStep ==
  ASSUME DiskInv, AcceptedInv, req_q # <<>>, BadRwIntr, UNCHANGED <<b_dirt, rw, copied>>
  PROVE  Seen /\ AcceptedInv'
<1>1. Revised(OneMoreError) /\ OneMoreError[CURR_REQ].dev = 0
  BY OneMoreErrorRevises DEF DiskInv
<1>2. CASE EndRequest(OneMoreError, FALSE)
  BY <1>1, <1>2, RequestGivenUp, OneEnds DEF DiskInv, Seen, Device!DeviceNext
<1>3. CASE request' = OneMoreError /\ UNCHANGED <<req_q, b_lock, b_uptodate, at>>
  <2>1. \A e \in Entries : request'[e].bh = request[e].bh
    BY <1>1, <1>3, RevisedBuffers DEF DiskInv
  <2>2. \A e \in Entries : request[e].dev = 0 => request'[e].dev = 0
    BY <1>1, <1>3 DEF Revised
  <2>3. AcceptedInv'
    BY <1>3, <2>1, <2>2, NothingEnds DEF DiskInv
  <2>4. UNCHANGED Device!deviceVars
    BY <1>3, <2>1, UnseenDriverStep DEF DiskInv
  <2> QED BY <2>3, <2>4 DEF Seen
<1> QED BY <1>2, <1>3 DEF BadRwIntr

LEMMA TableStays ==
  ASSUME DiskInv, AcceptedInv, UNCHANGED <<reqVars, b_dirt>>
  PROVE  AcceptedInv' /\ (UNCHANGED copied => Seen)
<1>1. UNCHANGED <<request, req_q, b_lock, b_uptodate, at>>
  BY DEF reqVars
<1>2. AcceptedInv'
  BY <1>1, NothingEnds DEF DiskInv
<1>3. UNCHANGED copied => UNCHANGED Device!deviceVars
  BY <1>1, UnseenDriverStep DEF DiskInv
<1> QED BY <1>2, <1>3 DEF Seen

LEMMA RefuseStep ==
  ASSUME DiskInv, AcceptedInv, RefuseRequest
  PROVE  Seen /\ AcceptedInv'
<1>1. req_q # <<>> /\ EndRequest(request, FALSE) /\ UNCHANGED <<b_dirt, rw, copied>>
  BY DEF RefuseRequest, Running, ctlVars
<1>2. Revised(request)
  BY RevisedItself DEF DiskInv
<1> QED BY <1>1, <1>2, RequestGivenUp, OneEnds DEF DiskInv, Seen, Device!DeviceNext

LEMMA StartWriteStep ==
  ASSUME DiskInv, AcceptedInv, StartWrite
  PROVE  Seen /\ AcceptedInv'
<1> DEFINE r == request[CURR_REQ]
<1>1. req_q # <<>> /\ Move(r.sector, r.buffer) /\ UNCHANGED <<reqVars, b_dirt>>
  BY DEF StartWrite, Transfers, Running
<1>2. AcceptedInv'
  BY <1>1, TableStays
<1>3. r.buffer \in {0, 1} /\ (r.buffer = 1 => <<2 * bh, 0>> \in copied[bh])
  BY <1>1, FirstInUse DEF DiskInv, InWork, bh
<1>4. UNCHANGED <<request, req_q, b_lock, b_uptodate, at, b_dirt>>
  BY <1>1 DEF reqVars
<1> HIDE DEF r
<1>5. \E s \in Device!Sectors : Device!MoveSector(s)
  BY <1>1, <1>3, <1>4, SectorMoves
<1> QED BY <1>2, <1>5 DEF Seen, Device!DeviceNext

LEMMA NextSectorStep ==
  ASSUME DiskInv, AcceptedInv, req_q # <<>>, NEW rq, Revised(rq), rq[CURR_REQ].dev = 0, NextSector(rq),
         UNCHANGED b_dirt, NEW sector, NEW buffer \in {0, 1}, Move(sector, buffer),
         buffer = 1 => <<2 * bh, 0>> \in copied[bh]
  PROVE  Seen /\ AcceptedInv'
<1>1. request' = rq /\ UNCHANGED <<req_q, b_lock, b_uptodate, at>>
  BY DEF NextSector
<1>2. \A e \in Entries : request'[e].bh = request[e].bh
  BY <1>1, RevisedBuffers DEF DiskInv
<1>3. \A e \in Entries : request[e].dev = 0 => request'[e].dev = 0
  BY <1>1 DEF Revised
<1>4. AcceptedInv'
  BY <1>1, <1>2, <1>3, NothingEnds DEF DiskInv
<1>5. \E s \in Device!Sectors : Device!MoveSector(s)
  BY <1>1, <1>2, SectorMoves
<1> QED BY <1>4, <1>5 DEF Seen, Device!DeviceNext

LEMMA ReadStep ==
  ASSUME DiskInv, AcceptedInv, ReadIntr
  PROVE  Seen /\ AcceptedInv'
<1> DEFINE r == request[CURR_REQ]
<1>1. /\ drive.op = "READ" /\ Move(drive.sector, r.buffer)
      /\ IF r.nr_sector > 1 THEN NextSector(SectorRead) ELSE LastSector(SectorRead)
      /\ UNCHANGED <<b_dirt, rw, reset, recalibrate, prepared>>
  BY DEF ReadIntr, Interrupt
<1>2. req_q # <<>> /\ drive.sector = r.sector
  BY <1>1 DEF DiskInv, DriverInv, DriveInv, Commands
<1>3. /\ <<r.sector, r.buffer>> \in OfBlock(bh) /\ bh \in Nat
      /\ InWork(r, copied[bh]) /\ r.bh = bh
  BY <1>2, FirstSector, FirstInUse DEF DiskInv, bh
<1>4. Revised(SectorRead) /\ SectorRead[CURR_REQ].dev = 0
  BY <1>2, SectorReadRevises DEF DiskInv
<1>5. r.buffer \in {0, 1} /\ (r.buffer = 1 => <<2 * bh, 0>> \in copied[bh])
  BY <1>3 DEF InWork
<1>6. CASE r.nr_sector > 1
  <2>1. NextSector(SectorRead)
    BY <1>1, <1>6
  <2> HIDE DEF r
  <2> QED BY <1>1, <1>2, <1>4, <1>5, <2>1, NextSectorStep
<1>7. CASE ~(r.nr_sector > 1)
  <2>1. EndRequest(SectorRead, TRUE)
    BY <1>1, <1>7 DEF LastSector
  <2>2. r.buffer = 1 /\ r.sector = 2 * bh + 1 /\ <<2 * bh, 0>> \in copied[bh]
    <3> HIDE DEF r, bh
    <3> QED BY <1>3, <1>7 DEF InWork
  <2>3. /\ copied' \in [Buffer -> SUBSET (Nat \X Nat)]
        /\ copied'[bh] = copied[bh] \cup {<<r.sector, r.buffer>>} /\ copied'[bh] \subseteq OfBlock(bh)
        /\ \A b \in Buffer \ {bh} : copied'[b] = copied[b]
    BY <1>1, <1>2, <1>3, MoveInPlace
  <2>4. copied'[bh] = OfBlock(bh)
    <3> HIDE DEF r, bh
    <3> QED BY <2>2, <2>3 DEF OfBlock
  <2>5. Device!Finish
    BY <1>1, <1>2, <1>4, <2>1, <2>2, <2>3, <2>4, TransferEnds
  <2>6. AcceptedInv'
    BY <1>1, <1>2, <1>4, <2>1, OneEnds DEF DiskInv
  <2> QED BY <2>5, <2>6 DEF Seen, Device!DeviceNext
<1> QED BY <1>6, <1>7

LEMMA WriteStep ==
  ASSUME DiskInv, AcceptedInv, WriteIntr
  PROVE  Seen /\ AcceptedInv'
<1> DEFINE r == request[CURR_REQ]
           s == SectorWritten[CURR_REQ]
<1>1. /\ drive.op = "WRITE"
      /\ IF r.nr_sector > 1
            THEN NextSector(SectorWritten) /\ Move(drive.sector + 1, s.buffer)
            ELSE LastSector(SectorWritten) /\ UNCHANGED copied
      /\ UNCHANGED <<b_dirt, rw, reset, recalibrate, prepared>>
  BY DEF WriteIntr, Interrupt
<1>2. req_q # <<>> /\ drive.sector = r.sector /\ <<r.sector, r.buffer>> \in copied[bh]
  BY <1>1 DEF DiskInv, DriverInv, DriveInv, Commands
<1>3. bh \in Nat /\ bh \in Buffer /\ InWork(r, copied[bh]) /\ r.bh = bh
  BY <1>2, FirstSector, FirstInUse DEF DiskInv, bh
<1>4. /\ Revised(SectorWritten) /\ s.dev = 0
      /\ r.nr_sector > 1 => s.buffer = r.buffer + 1
  BY <1>2, SectorWrittenRevises DEF DiskInv
<1>5. copied \in [Buffer -> SUBSET (Nat \X Nat)] /\ copied[bh] \subseteq OfBlock(bh)
  BY <1>3 DEF DiskInv, DriverInv, DriverTypes, MovedInPlace
<1>6. CASE r.nr_sector > 1
  <2>1. NextSector(SectorWritten) /\ Move(drive.sector + 1, s.buffer)
    BY <1>1, <1>6
  <2>2. s.buffer = 1 /\ <<2 * bh, 0>> \in copied[bh]
    <3> HIDE DEF r, s, bh
    <3> QED BY <1>2, <1>3, <1>4, <1>6 DEF InWork
  <2>3. s.buffer \in {0, 1}
    BY <2>2
  <2> DEFINE sector == drive.sector + 1
             buffer == s.buffer
  <2>4. Move(sector, buffer) /\ buffer \in {0, 1}
    BY <2>1, <2>3
  <2>5. SectorWritten[CURR_REQ].dev = 0
    BY <1>4
  <2> HIDE DEF s, r, sector, buffer
  <2> QED BY <1>1, <1>2, <1>4, <2>1, <2>2, <2>4, <2>5, NextSectorStep
<1>7. CASE ~(r.nr_sector > 1)
  <2>1. EndRequest(SectorWritten, TRUE) /\ copied' = copied
    BY <1>1, <1>7 DEF LastSector
  <2>2. r.buffer = 1 /\ r.sector = 2 * bh + 1 /\ <<2 * bh, 0>> \in copied[bh]
    <3> HIDE DEF r, bh
    <3> QED BY <1>3, <1>7 DEF InWork
  <2>3. copied[bh] = OfBlock(bh)
    <3> HIDE DEF r, bh
    <3> QED BY <1>2, <1>5, <2>2 DEF OfBlock
  <2>4. Device!Finish
    BY <1>1, <1>2, <1>4, <1>5, <2>1, <2>2, <2>3, TransferEnds
  <2>5. AcceptedInv'
    BY <1>1, <1>2, <1>4, <2>1, OneEnds DEF DiskInv
  <2> QED BY <2>4, <2>5 DEF Seen, Device!DeviceNext
<1> QED BY <1>6, <1>7

LEMMA DeviceStep ==
  ASSUME DiskInv, AcceptedInv, [DNext]_diskVars
  PROVE  Seen /\ AcceptedInv'
<1>1. ASSUME NEW b \in Buffer, NEW cmd \in Commands, MakeRequest(b, cmd) PROVE Seen /\ AcceptedInv'
  BY <1>1, CallStep DEF Seen, Device!DeviceNext
<1>2. ASSUME NEW b \in Buffer, AddRequest(b) PROVE Seen /\ AcceptedInv'
  BY <1>2, AcceptStep DEF Seen, Device!DeviceNext
<1>3. ASSUME NEW b \in Buffer, NoEntry(b) \/ SleepOn(b) \/ ScanAgain(b) PROVE Seen /\ AcceptedInv'
  BY <1>3, WaitStep DEF Seen
<1>4. ASSUME NEW b \in Buffer, Modify(b) PROVE Seen /\ AcceptedInv'
  BY <1>4, ModifyStep DEF Seen, Device!DeviceNext
<1>5. CASE QueueEmpty \/ NotReady \/ ResetHd \/ Restore \/ StartRead \/ RecalIntr \/ LateInterrupt
  <2>1. UNCHANGED <<reqVars, b_dirt, copied>>
    <3>1. CASE QueueEmpty \/ NotReady \/ ResetHd \/ Restore \/ StartRead
      BY <3>1, Zenon DEF QueueEmpty, NotReady, ResetHd, Restore, StartRead
    <3>2. CASE RecalIntr \/ LateInterrupt
      BY <3>2, Zenon DEF RecalIntr, LateInterrupt
    <3> QED BY <1>5, <3>1, <3>2
  <2> QED BY <2>1, TableStays
<1>6. CASE NoDataRequest
  <2>1. req_q # <<>> /\ BadRwIntr /\ UNCHANGED <<b_dirt, rw, copied>>
    BY <1>6 DEF NoDataRequest, Transfers, Running
  <2> QED BY <2>1, ErrorStep
<1>7. CASE CommandFails
  <2>1. req_q # <<>> /\ BadRwIntr /\ UNCHANGED <<b_dirt, rw, copied>>
    BY <1>7 DEF CommandFails, Interrupt, DiskInv, DriverInv, DriveInv
  <2> QED BY <2>1, ErrorStep
<1>8. CASE UNCHANGED diskVars
  <2>1. UNCHANGED <<reqVars, b_dirt, copied>>
    BY <1>8 DEF diskVars, ctlVars
  <2> QED BY <2>1, TableStays
<1> QED BY <1>1, <1>2, <1>3, <1>4, <1>5, <1>6, <1>7, <1>8, RefuseStep, StartWriteStep, ReadStep, WriteStep
        DEF DNext, Driver, Answer

LEMMA DeviceStart ==
  ASSUME DInit
  PROVE  Device!DeviceInit /\ AcceptedInv
<1>1. DiskInv
  BY DiskStarts
<1>2. /\ \A b \in Buffer : at[b] = "done" /\ ~b_uptodate[b] /\ ~b_dirt[b] /\ copied[b] = {}
      /\ b_dirt \in [Buffer -> BOOLEAN]
  BY DEF DInit
<1>3. Calling = {} /\ Uptodate = {} /\ Dirty = {}
  BY <1>2 DEF Calling, Uptodate, Dirty
<1>4. Moved = [b \in Buffer |-> {}]
  <2>1. \A b \in Buffer : {x[2] : x \in copied[b]} = {}
    BY <1>2
  <2> QED BY <2>1, Zenon DEF Moved
<1>5. CASE req_q = <<>> /\ b_lock = [b \in Buffer |-> FALSE]
  <2>1. Line = <<>> /\ Locked = {}
    BY <1>1, <1>5, LineTypes DEF DiskInv, Locked
  <2>2. Locked = {Line[i] : i \in 1 .. Len(Line)}
    BY <2>1
  <2>3. AcceptedInv
    BY <1>2, <1>5 DEF AcceptedInv
  <2>4. Device!DeviceInit
    BY <1>3, <1>4, <2>1, <2>2, Zenon
       DEF Device!DeviceInit, Locked, Calling, Line, LineOf, Uptodate, Dirty, Moved
  <2> QED BY <2>3, <2>4
<1>6. ASSUME NEW b \in Buffer, NEW cmd \in Commands,
             request = [e \in Entries |-> IF e = NUMBER_OF_REQUESTS - 1 THEN NewRequest(b, cmd) ELSE IdleEntry],
             req_q = <<NUMBER_OF_REQUESTS - 1>>, b_lock = [c \in Buffer |-> c = b]
      PROVE  Device!DeviceInit /\ AcceptedInv
  <2> DEFINE e0 == NUMBER_OF_REQUESTS - 1
  <2>1. e0 \in Entries
    BY DiskAssumption DEF DiskAssumption, Entries
  <2>2. request[e0].bh = b /\ request[e0].dev = 0
    BY <1>6, <2>1 DEF NewRequest
  <2>3. Len(req_q) = 1 /\ req_q[1] = e0
    BY <1>6
  <2>4. /\ Line \in Seq(Buffer) /\ Len(Line) = 1 /\ Line[1] = b
    <3>1. Line \in Seq(Buffer) /\ Len(Line) = Len(req_q)
      BY <1>1, LineTypes DEF DiskInv
    <3>2. Line[1] = request[req_q[1]].bh
      BY <2>3 DEF Line, LineOf
    <3> QED BY <2>2, <2>3, <3>1, <3>2
  <2>5. Line = <<b>>
    BY <2>4
  <2>6. Locked = {b}
    BY <1>6 DEF Locked
  <2>7. Locked = {Line[i] : i \in 1 .. Len(Line)}
    BY <2>4, <2>6
  <2>8. AcceptedInv
    <3>1. e0 \in InUse
      BY <2>1, <2>2 DEF InUse, Idle
    <3>2. \A c \in Buffer : b_lock[c] => c = b
      BY <1>6
    <3> QED BY <1>2, <2>2, <3>1, <3>2 DEF AcceptedInv
  <2>9. Device!DeviceInit
    BY <1>3, <1>4, <2>5, <2>7, Zenon
       DEF Device!DeviceInit, Locked, Calling, Line, LineOf, Uptodate, Dirty, Moved
  <2> QED BY <2>8, <2>9
<1> QED BY <1>5, <1>6 DEF DInit

(* Requests are served in the order in which they were accepted, each ends *)
(* once, with both sectors or not uptodate, and nothing else touches the   *)
(* buffer that is locked for it.                                           *)
THEOREM DeviceImplemented == DSpec => ImplementsDevice
<1>1. DInit => Device!DeviceInit /\ AcceptedInv
  BY DeviceStart
<1>2. DiskInv /\ AcceptedInv /\ [DNext]_diskVars =>
        AcceptedInv' /\ [Device!DeviceNext]_(Device!deviceVars)
  BY DeviceStep DEF Seen
<1> QED BY <1>1, <1>2, DiskInvariant, PTL DEF DSpec, ImplementsDevice, Device!DeviceSpec

=============================================================================
