----------------------------- MODULE BlockCache -----------------------------
(***************************************************************************)
(* What bread and brelse (fs/buffer.c) promise the tasks that read blocks, *)
(* without buffers, counts, locks and lists.                               *)
(*                                                                         *)
(* There is one copy of a block, and room for Capacity of them.  A task    *)
(* that asks for a block gets it when its copy is valid, and has it until  *)
(* it gives it back: meanwhile the copy stays where it is, stays valid and *)
(* is not read again.  A block makes room for another only when nobody     *)
(* uses it, and a task waits for room only while all are in use.  To give  *)
(* a block back takes no wait.  BufferCache implements this.               *)
(***************************************************************************)
EXTENDS Integers, FiniteSets

CONSTANTS Client, (* the tasks                                             *)
          Block, Capacity

VARIABLES cached,  (* the blocks that have a copy                          *)
          valid,   (* those whose copy has their data                      *)
          reading, (* those that the disk reads                            *)
          refs,    (* how often each client has got each block             *)
          call     (* what each client is doing, with which block          *)

blockVars == <<cached, valid, reading, refs, call>>

Idle == <<"idle", 0>>

InUse(k) == \E c \in Client : refs[c][k] > 0 \/ call[c] \in {<<"get", k>>, <<"read", k>>}

Goes(c, what) == call' = [call EXCEPT ![c] = what]

(* All copies are of blocks in use, and there is no room for another.      *)
Wait(c, k) ==
  /\ call[c] = Idle /\ k \notin cached
  /\ Cardinality(cached) = Capacity /\ \A j \in cached : InUse(j)
  /\ Goes(c, <<"wait", k>>)
  /\ UNCHANGED <<cached, valid, reading, refs>>

(* The copy of k that there is, or a new one.                              *)
Find(c, k) ==
  /\ k \in cached
  /\ call[c] \in {Idle, <<"wait", k>>} /\ Goes(c, <<"get", k>>)
  /\ UNCHANGED <<cached, valid, reading, refs>>

Enter(c, k) ==
  /\ k \notin cached
  /\ call[c] \in {Idle, <<"wait", k>>} /\ Goes(c, <<"get", k>>)
  /\ \E out \in Block :
       /\ ~InUse(out)
       /\ cached' = (cached \ {out}) \cup {k}
       /\ valid' = valid \ {out}
  /\ Cardinality(cached') <= Capacity
  /\ UNCHANGED <<reading, refs>>

Read(c, k) ==
  /\ call[c] = <<"get", k>> /\ k \notin valid \cup reading
  /\ reading' = reading \cup {k}
  /\ Goes(c, <<"read", k>>)
  /\ UNCHANGED <<cached, valid, refs>>

Loaded(k) ==
  /\ k \in reading
  /\ reading' = reading \ {k}
  /\ valid' \in {valid, valid \cup {k}}
  /\ UNCHANGED <<cached, refs, call>>

Return(c, k) ==
  /\ call[c] \in {<<"get", k>>, <<"read", k>>} /\ k \in valid
  /\ refs' = [refs EXCEPT ![c][k] = @ + 1]
  /\ Goes(c, Idle)
  /\ UNCHANGED <<cached, valid, reading>>

Fail(c, k) ==
  /\ call[c] = <<"read", k>> /\ k \notin valid \cup reading
  /\ Goes(c, Idle)
  /\ UNCHANGED <<cached, valid, reading, refs>>

GiveBack(c, k) ==
  /\ call[c] = Idle /\ refs[c][k] > 0
  /\ refs' = [refs EXCEPT ![c][k] = @ - 1]
  /\ UNCHANGED <<cached, valid, reading, call>>

CacheInit ==
  /\ cached = {} /\ valid = {} /\ reading = {}
  /\ refs = [c \in Client |-> [k \in Block |-> 0]]
  /\ call = [c \in Client |-> Idle]

CacheNext ==
  \/ \E c \in Client, k \in Block :
       \/ Wait(c, k) \/ Find(c, k) \/ Enter(c, k)
       \/ Read(c, k) \/ Return(c, k) \/ Fail(c, k) \/ GiveBack(c, k)
  \/ \E k \in Block : Loaded(k)

CacheSpec == CacheInit /\ [][CacheNext]_blockVars

=============================================================================
