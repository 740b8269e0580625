---------------------------- MODULE BufferCache ----------------------------
(***************************************************************************)
(* The buffer cache, fs/buffer.c: getblk, bread and brelse under several   *)
(* tasks, the hash chains and the free list pointer by pointer.            *)
(*                                                                         *)
(* The kernel is not preempted: a call runs until it sleeps.  In between   *)
(* the disk may interrupt and unlock a buffer.  A task that sleeps for the *)
(* lock of a buffer goes on when it finds it free (module WaitQueue).  A   *)
(* brelse() wakes the one task that buffer_wait points to, which has the   *)
(* sleeper it displaced in its local variable tmp, and wakes it when it    *)
(* runs itself.                                                            *)
(*                                                                         *)
(* b_dirt is left out: nothing in the kernel ever sets it.  A free buffer  *)
(* is never locked (invariant BusyIsHeld), so that getblk() takes the      *)
(* first free buffer it finds, without waiting for it.                     *)
(***************************************************************************)
EXTENDS Integers, FiniteSets

CONSTANTS
  Task,
  NUMBER_OF_BUFFERS,
  Block,      (* blocks that are read: b_dev and b_blocknr in one          *)
  NR_HASH,
  MaxHeld     (* bound: the references a task keeps                        *)

NULL == -1

ASSUME CacheAssumption ==
  /\ NUMBER_OF_BUFFERS \in Nat \ {0} /\ NR_HASH \in Nat \ {0} /\ MaxHeld \in Nat
  /\ Block \subseteq Nat \ {0} /\ Block # {}
  /\ NULL \notin Task

(* b_count is a byte, and nothing in the cache keeps it from wrapping: it  *)
(* is for the callers of bread() to have fewer references at a time.       *)
ASSUME ReferencesFit ==
  IsFiniteSet(Task) /\ Cardinality(Task) * (MaxHeld + 1) < 256

Buffer == 0 .. NUMBER_OF_BUFFERS - 1
NoBlock == 0                     \* b_dev = 0
hash(block) == block % NR_HASH
Hash == 0 .. NR_HASH - 1

VARIABLES
  b_block,                       (* b_dev and b_blocknr                    *)
  b_count, b_lock, b_uptodate,
  b_data,                        (* the block whose data the buffer has    *)
  sector,                        (* the block that a request in work reads *)
  queues,                        (* the links of all buffers, see below    *)
  buffer_wait,                   (* the task that slept last for a buffer  *)
  at,                            (* where each task is in a call           *)
  block, bh,                     (* the arguments and variables of it      *)
  tmp,                           (* sleep_on's variable, on its stack      *)
  held                           (* how often a task has got each buffer   *)

headVars == <<b_block, b_count, b_lock, b_uptodate, b_data, sector, queues>>
waitVars == <<buffer_wait, tmp>>
taskVars == <<at, block, bh, held>>
cacheVars == <<headVars, waitVars, taskVars>>

(* The places where a call sleeps: "none free" in the queue of buffer_wait *)
(* and "woken" out of it.  And two that a call passes with interrupts on:  *)
(* "repeat" before getblk() searches again, "got" on the way from getblk() *)
(* to the lock.                                                            *)
Place ==
  {"user", "hash", "none free", "woken", "repeat", "got", "lock", "io", "brelse"}

-----------------------------------------------------------------------------
(* The free list is a ring, the hash chains end in NULL.  Each function    *)
(* below gives the links that one C function leaves behind.                *)
(* An assignment that is made only through a pointer that is not NULL.     *)
Set(chain, b, value) == IF b = NULL THEN chain ELSE [chain EXCEPT ![b] = value]

(* Wrong variant: the head of the chain still points to the buffer.        *)
RemovedKeepingHead(q, b) ==
  [q EXCEPT
     !.prev_hash = Set(@, q.next_hash[b], q.prev_hash[b]),
     !.next_hash = Set(@, q.prev_hash[b], q.next_hash[b]),
     !.next_free[q.prev_free[b]] = q.next_free[b],
     !.prev_free[q.next_free[b]] = q.prev_free[b],
     !.free_list = IF @ = b THEN q.next_free[b] ELSE @]

(* remove_from_queues(bh), where bh has been filed under block k.          *)
Removed(q, b) ==
  [q EXCEPT
     !.prev_hash = Set(@, q.next_hash[b], q.prev_hash[b]),
     !.next_hash = Set(@, q.prev_hash[b], q.next_hash[b]),
     !.hash_table[hash(b_block[b])] = IF @ = b THEN q.next_hash[b] ELSE @,
     !.next_free[q.prev_free[b]] = q.next_free[b],
     !.prev_free[q.next_free[b]] = q.prev_free[b],
     !.free_list = IF @ = b THEN q.next_free[b] ELSE @]

(* insert_into_queues(bh): last of the free list, first of its chain.  The *)
(* buffer that was first gets its b_prev_hash without a look whether there *)
(* is one: for an empty chain that is the word at NULL->b_prev_hash, in    *)
(* the page directory, which nobody reads as a link.                       *)
Inserted(q, b, k) ==
  LET last  == q.prev_free[q.free_list]
      first == q.hash_table[hash(k)]
  IN  [q EXCEPT
         !.next_free = Set(Set(@, last, b), b, q.free_list),
         !.prev_free = Set(Set(@, q.free_list, b), b, last),
         !.next_hash[b] = first,
         !.hash_table[hash(k)] = b,
         !.prev_hash = Set(Set(@, b, NULL), first, b),
         !.at_null = IF first = NULL THEN b ELSE @]

(* Where a list leads, step by step, and the buffers on the way.           *)
Walk(links, first) ==
  LET w[i \in Buffer] == IF i = 0 THEN first ELSE IF w[i - 1] = NULL THEN NULL ELSE links[w[i - 1]]
  IN  w

Reached(links, first) == {Walk(links, first)[i] : i \in Buffer} \ {NULL}

(* find_buffer(); a chain that is in order has one buffer of a block.      *)
Found(k) ==
  {b \in Buffer \cap Reached(queues.next_hash, queues.hash_table[hash(k)]) : b_block[b] = k}

-----------------------------------------------------------------------------
Run(t, place) == at' = [at EXCEPT ![t] = place]

(* Nobody is in the kernel at a point where he does not sleep.             *)
CPUIsFree == \A t \in Task : at[t] \notin {"repeat", "got"}

(* A byte.                                                                 *)
UInt8(n) == n % 256

(* Wrong variant: it counts only when there is no wait.                    *)
InHashUncounted(t, k) ==
  \E b \in Found(k) :
    /\ b_count' = [b_count EXCEPT ![b] = IF b_lock[b] THEN @ ELSE UInt8(@ + 1)]
    /\ bh' = [bh EXCEPT ![t] = b]
    /\ Run(t, IF b_lock[b] THEN "hash" ELSE "got")
    /\ UNCHANGED <<b_block, b_lock, b_uptodate, b_data, sector, queues, held, waitVars>>

(* get_hash_table(): the buffer counts as in use before the wait for its   *)
(* lock.                                                                   *)
InHash(t, k) ==
  \E b \in Found(k) :
    /\ b_count' = [b_count EXCEPT ![b] = UInt8(@ + 1)]
    /\ bh' = [bh EXCEPT ![t] = b]
    /\ Run(t, IF b_lock[b] THEN "hash" ELSE "got")
    /\ UNCHANGED <<b_block, b_lock, b_uptodate, b_data, sector, queues, held, waitVars>>

(* The search from free_list for a buffer that nobody uses.                *)
FreeRing == Walk(queues.next_free, queues.free_list)

(* Wrong variant: a buffer in use is taken as long as nobody reads it.     *)
FirstUnlocked ==
  LET ring == FreeRing
  IN  {b \in Buffer : ~b_lock[b] /\ \E i \in Buffer :
         ring[i] = b /\ \A j \in 0 .. i - 1 : b_lock[ring[j]]}

FirstFree ==
  LET ring == FreeRing
  IN  {b \in Buffer : b_count[b] = 0 /\ \E i \in Buffer :
         ring[i] = b /\ \A j \in 0 .. i - 1 : b_count[ring[j]] > 0}

TakeFree(t, k) ==
  /\ Found(k) = {}
  /\ \E b \in FirstFree :
         /\ b_count' = [b_count EXCEPT ![b] = 1]
         /\ b_uptodate' = [b_uptodate EXCEPT ![b] = FALSE]
         /\ b_block' = [b_block EXCEPT ![b] = k]
         /\ queues' = Inserted(Removed(queues, b), b, k)
         /\ bh' = [bh EXCEPT ![t] = b]
  /\ Run(t, "got")
  /\ UNCHANGED <<b_lock, b_data, sector, held, waitVars>>

(* Task u is made runnable, if it is a task and sleeps on buffer_wait, and *)
(* t is at a place.                                                        *)
Rouse(u, t, place) ==
  at' = [v \in Task |->
           IF v = t THEN place
           ELSE IF v = u /\ at[v] = "none free" THEN "woken" ELSE at[v]]

(* sleep_on(&buffer_wait).  When schedule() finds nobody else to run it    *)
(* comes back at once: whom t displaced is woken, the search finds nothing *)
(* once more, and t sleeps behind itself.                                  *)
NoneFree(t, k) ==
  /\ Found(k) = {} /\ FirstFree = {}
  /\ buffer_wait' = t
  /\ \/ tmp' = [tmp EXCEPT ![t] = buffer_wait] /\ Run(t, "none free")
     \/ tmp' = [tmp EXCEPT ![t] = t] /\ Rouse(buffer_wait, t, "none free")
  /\ UNCHANGED <<headVars, bh, held>>

(* Wrong variant: the sleeper behind is forgotten.                         *)
WakeNobody(t) ==
  /\ at[t] = "woken"
  /\ Run(t, "repeat")
  /\ tmp' = [tmp EXCEPT ![t] = NULL]
  /\ UNCHANGED <<headVars, buffer_wait, block, bh, held>>

(* sleep_on() after schedule(): the sleeper behind is woken.               *)
WakeNext(t) ==
  /\ at[t] = "woken"
  /\ Rouse(tmp[t], t, "repeat")
  /\ tmp' = [tmp EXCEPT ![t] = NULL]
  /\ UNCHANGED <<headVars, buffer_wait, block, bh, held>>

References(t) == UNION {{b} \X (1 .. held[t][b]) : b \in Buffer}

(* getblk() from the start.                                                *)
Getblk(t) ==
  /\ at[t] = "user" /\ Cardinality(References(t)) < MaxHeld
  /\ \E k \in Block :
       /\ block' = [block EXCEPT ![t] = k]
       /\ InHash(t, k) \/ TakeFree(t, k) \/ NoneFree(t, k)

(* Wrong variant: after a sleep the hash chain is not searched again.      *)
TakeAfterSleep(t) ==
  /\ at[t] = "repeat"
  /\ \E b \in FirstFree :
       /\ b_count' = [b_count EXCEPT ![b] = 1]
       /\ b_uptodate' = [b_uptodate EXCEPT ![b] = FALSE]
       /\ b_block' = [b_block EXCEPT ![b] = block[t]]
       /\ queues' = Inserted(Removed(queues, b), b, block[t])
       /\ bh' = [bh EXCEPT ![t] = b]
  /\ Run(t, "got")
  /\ UNCHANGED <<b_lock, b_data, sector, held, block, waitVars>>

(* getblk() from `repeat'.                                                 *)
Repeat(t) ==
  /\ at[t] = "repeat"
  /\ InHash(t, block[t]) \/ TakeFree(t, block[t]) \/ NoneFree(t, block[t])
  /\ UNCHANGED block

(* get_hash_table() after the wait: if the buffer has changed its block,   *)
(* it is let go, and the search begins again.                              *)
HashWaited(t) ==
  /\ at[t] = "hash" /\ ~b_lock[bh[t]]
  /\ \/ /\ b_block[bh[t]] = block[t]
        /\ Run(t, "got")
        /\ UNCHANGED b_count
     \/ /\ b_block[bh[t]] # block[t]
        /\ b_count' = [b_count EXCEPT ![bh[t]] = UInt8(@ - 1)]
        /\ Run(t, "repeat")
  /\ UNCHANGED <<b_block, b_lock, b_uptodate, b_data, sector, queues, block, bh, held, waitVars>>

-----------------------------------------------------------------------------
(* bread() after getblk().  make_request() looks at b_uptodate once more   *)
(* when it has the lock.                                                   *)
Return(t) ==
  /\ held' = [held EXCEPT ![t][bh[t]] = @ + 1]
  /\ Run(t, "user")

Valid(t) ==
  /\ at[t] = "got" \/ (at[t] \in {"lock", "io"} /\ ~b_lock[bh[t]])
  /\ b_uptodate[bh[t]]
  /\ Return(t)
  /\ UNCHANGED <<headVars, waitVars, block, bh>>

(* Wrong variant: a buffer that is up to date is read once more.           *)
LockBufferAnyway(t) ==
  /\ at[t] \in {"got", "lock"}
  /\ \/ /\ b_lock[bh[t]] /\ at[t] = "got"
        /\ Run(t, "lock")
        /\ UNCHANGED <<b_lock, sector>>
     \/ /\ ~b_lock[bh[t]]
        /\ b_lock' = [b_lock EXCEPT ![bh[t]] = TRUE]
        /\ sector' = [sector EXCEPT ![bh[t]] = b_block[bh[t]]]
        /\ Run(t, "io")
  /\ UNCHANGED <<b_block, b_count, b_uptodate, b_data, queues, block, bh, held, waitVars>>

LockBuffer(t) ==
  /\ at[t] \in {"got", "lock"} /\ ~b_uptodate[bh[t]]
  /\ \/ /\ b_lock[bh[t]] /\ at[t] = "got"
        /\ Run(t, "lock")
        /\ UNCHANGED <<b_lock, sector>>
     \/ /\ ~b_lock[bh[t]]
        /\ b_lock' = [b_lock EXCEPT ![bh[t]] = TRUE]
        /\ sector' = [sector EXCEPT ![bh[t]] = b_block[bh[t]]]
        /\ Run(t, "io")
  /\ UNCHANGED <<b_block, b_count, b_uptodate, b_data, queues, block, bh, held, waitVars>>

(* brelse() after its wait, with wake_up(&buffer_wait).  It would panic at *)
(* a count of 0.                                                           *)
LetGo(t, b) ==
  /\ b_count' = [b_count EXCEPT ![b] = UInt8(@ - 1)]
  /\ Rouse(buffer_wait, t, "user")
  /\ buffer_wait' = NULL
  /\ UNCHANGED tmp

(* The read has failed.                                                    *)
ReadFailed(t) ==
  /\ at[t] = "io" /\ ~b_lock[bh[t]] /\ ~b_uptodate[bh[t]]
  /\ LetGo(t, bh[t])
  /\ UNCHANGED <<b_block, b_lock, b_uptodate, b_data, sector, queues, block, bh, held>>

(* brelse() by a task that is done with a buffer.                          *)
Brelse(t) ==
  /\ at[t] = "user"
  /\ \E b \in Buffer :
       /\ held[t][b] > 0
       /\ held' = [held EXCEPT ![t][b] = @ - 1]
       /\ bh' = [bh EXCEPT ![t] = b]
       /\ IF b_lock[b] THEN Run(t, "brelse") /\ UNCHANGED <<b_count, waitVars>> ELSE LetGo(t, b)
  /\ UNCHANGED <<b_block, b_lock, b_uptodate, b_data, sector, queues, block>>

BrelseWaited(t) ==
  /\ at[t] = "brelse" /\ ~b_lock[bh[t]]
  /\ LetGo(t, bh[t])
  /\ UNCHANGED <<b_block, b_lock, b_uptodate, b_data, sector, queues, block, bh, held>>

(* The disk has read the block it was asked for, or has given up.          *)
EndRequest(b, uptodate) ==
  /\ b_lock[b]
  /\ b_lock' = [b_lock EXCEPT ![b] = FALSE]
  /\ b_uptodate' = [b_uptodate EXCEPT ![b] = uptodate]
  /\ b_data' = [b_data EXCEPT ![b] = IF uptodate THEN sector[b] ELSE NoBlock]
  /\ UNCHANGED <<b_block, b_count, sector, queues, waitVars, taskVars>>

-----------------------------------------------------------------------------
(* buffer_init().                                                          *)
BInit ==
  /\ b_block = [b \in Buffer |-> NoBlock]
  /\ b_count = [b \in Buffer |-> 0]
  /\ b_lock = [b \in Buffer |-> FALSE]
  /\ b_uptodate = [b \in Buffer |-> FALSE]
  /\ b_data = [b \in Buffer |-> NoBlock]
  /\ sector = [b \in Buffer |-> NoBlock]
  /\ queues = [next_free |-> [b \in Buffer |-> (b + 1) % NUMBER_OF_BUFFERS],
               prev_free |-> [b \in Buffer |-> (b - 1) % NUMBER_OF_BUFFERS],
               next_hash |-> [b \in Buffer |-> NULL],
               prev_hash |-> [b \in Buffer |-> NULL],
               hash_table |-> [h \in Hash |-> NULL],
               free_list |-> 0,
               at_null |-> NULL]
  /\ buffer_wait = NULL
  /\ at = [t \in Task |-> "user"]
  /\ block = [t \in Task |-> CHOOSE k \in Block : TRUE]
  /\ bh = [t \in Task |-> 0]
  /\ tmp = [t \in Task |-> NULL]
  /\ held = [t \in Task |-> [b \in Buffer |-> 0]]

BNext ==
  \/ \E t \in Task :
       \/ CPUIsFree /\ (Getblk(t) \/ WakeNext(t) \/ HashWaited(t) \/ ReadFailed(t))
       \/ CPUIsFree /\ (Brelse(t) \/ BrelseWaited(t))
       \/ Repeat(t)
       \/ (CPUIsFree \/ at[t] = "got") /\ (Valid(t) \/ LockBuffer(t))
  \/ \E b \in Buffer, uptodate \in BOOLEAN : EndRequest(b, uptodate)

BSpec == BInit /\ [][BNext]_cacheVars

-----------------------------------------------------------------------------
(* No block is in two buffers, whoever slept while looking for it: two     *)
(* tasks that use a block use the same copy.  And b_uptodate says that its *)
(* data is that of the block the buffer is filed under: no read lands in a *)
(* buffer that was given to another block.                                 *)
OneBufferPerBlock ==
  \A b, c \in Buffer : b_block[b] # NoBlock /\ b_block[b] = b_block[c] => b = c

DataIsOfBlock == \A b \in Buffer : b_uptodate[b] => b_data[b] = b_block[b]

CopiesAreRight == OneBufferPerBlock /\ DataIsOfBlock

(* b_count is the number of tasks that use the buffer or are about to, so  *)
(* that brelse() never meets a count of 0, which makes it panic.           *)
Using(b) ==
  {t \in Task : at[t] \in {"hash", "got", "lock", "io", "brelse"} /\ bh[t] = b} \X {0}
    \cup UNION {{t} \X (1 .. held[t][b]) : t \in Task}

CountsAreExact == \A b \in Buffer : b_count[b] = Cardinality(Using(b))

(* A buffer in use keeps its block; and only a buffer that a task waits    *)
(* for is locked, so that no free one is.                                  *)
BusyIsHeld ==
  /\ \A t \in Task : at[t] \in {"hash", "got", "lock", "io"} => b_block[bh[t]] = block[t]
  /\ \A b \in Buffer : b_lock[b] => \E t \in Task : at[t] = "io" /\ bh[t] = b

(* The free list is one ring of all buffers, and each chain consists of    *)
(* the buffers whose block hashes to it.                                   *)
QueuesAreSound ==
  /\ Reached(queues.next_free, queues.free_list) = Buffer
  /\ \A b \in Buffer : queues.prev_free[queues.next_free[b]] = b
  /\ \A h \in Hash :
       Reached(queues.next_hash, queues.hash_table[h])
         = {b \in Buffer : b_block[b] # NoBlock /\ hash(b_block[b]) = h}
  /\ \A b, c \in Buffer :
       b_block[b] # NoBlock /\ queues.next_hash[b] = c => queues.prev_hash[c] = b

(* No wake-up of a brelse() is lost, nor a sleeper cut off: in every set   *)
(* of tasks that sleep for a buffer, one will be woken from outside.       *)
(* Either all buffers are in use and the next brelse() wakes it, or it is  *)
(* in the tmp of a task that is not of the set.  (So whoever sleeps while  *)
(* a buffer is free has a task before him that is awake.)                  *)
AllInUse == \A b \in Buffer : b_count[b] > 0

SleepersAreReached ==
  \A S \in SUBSET {t \in Task : at[t] = "none free"} :
    S # {} => \/ AllInUse /\ buffer_wait \in S
              \/ \E t \in Task \ S : at[t] \in {"none free", "woken"} /\ tmp[t] \in S

-----------------------------------------------------------------------------
(* What the tasks see of it: blocks, and no buffers.  A block is valid     *)
(* when its buffer says so and is right.                                   *)
Cached == {k \in Block : \E b \in Buffer : b_block[b] = k}
ValidBlocks == {k \in Block : \E b \in Buffer : b_block[b] = k /\ b_uptodate[b] /\ b_data[b] = k}
Reading == {k \in Block : \E b \in Buffer : b_block[b] = k /\ b_lock[b]}

Copy(k) == CHOOSE b \in Buffer : b_block[b] = k
HeldBlocks == [t \in Task |-> [k \in Block |-> IF k \in Cached THEN held[t][Copy(k)] ELSE 0]]

Doing(place, k) ==
  CASE place = "user" -> <<"idle", 0>>
    [] place \in {"none free", "woken", "repeat"} -> <<"wait", k>>
    [] place \in {"hash", "got", "lock"} -> <<"get", k>>
    [] place = "io" -> <<"read", k>>
    [] place = "brelse" -> <<"give back", k>>

Calls == [t \in Task |-> Doing(at[t], block[t])]

Cache == INSTANCE BlockCache WITH
  Client <- Task, Capacity <- NUMBER_OF_BUFFERS,
  cached <- Cached, valid <- ValidBlocks, reading <- Reading, refs <- HeldBlocks, call <- Calls

(* Whoever sleeps in between, the buffers, counts, locks and lists are a   *)
(* cache as BlockCache says: a block that a task has got is valid until it *)
(* gives it back, is read once for all who ask for it together, and makes  *)
(* room only when nobody uses it.                                          *)
ImplementsCache == Cache!CacheSpec

=============================================================================
