---------------------------- MODULE BufferLock -----------------------------
(***************************************************************************)
(* What lock_buffer, unlock_buffer and wait_on_buffer (fs/buffer.c)        *)
(* promise the tasks that use a buffer, without queues, scheduling or      *)
(* interrupts: a lock that a task takes and the disk may inherit, and      *)
(* tasks that wait only while it is held.  WaitQueue implements it.        *)
(***************************************************************************)
CONSTANTS Client, (* the tasks                                             *)
          Disk, Free

VARIABLES owner,   (* who holds the lock: a client, Disk or Free           *)
          waiting  (* the clients blocked in lock_buffer or wait_on_buffer *)

lockVars == <<owner, waiting>>

LockInit == owner = Free /\ waiting = {}

(* lock_buffer returns only when the lock was free.                        *)
Acquire(c) ==
  /\ owner = Free
  /\ owner' = c
  /\ waiting' = waiting \ {c}

(* lock_buffer and wait_on_buffer block only while somebody else holds it. *)
Block(c) ==
  /\ owner \notin {Free, c}
  /\ waiting' = waiting \cup {c}
  /\ UNCHANGED owner

(* wait_on_buffer returns after blocking only when the lock is free.       *)
Pass(c) ==
  /\ owner = Free /\ c \in waiting
  /\ waiting' = waiting \ {c}
  /\ UNCHANGED owner

(* The owner unlocks, or leaves that to the end of the transfer.           *)
Release == owner # Free /\ owner' = Free /\ UNCHANGED waiting
HandOver == owner \in Client /\ owner' = Disk /\ UNCHANGED waiting

LockNext ==
  \/ \E c \in Client : Acquire(c) \/ Block(c) \/ Pass(c)
  \/ Release \/ HandOver

LockSpec == LockInit /\ [][LockNext]_lockVars

=============================================================================
