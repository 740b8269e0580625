--------------------------- MODULE MCBufferCache ---------------------------
(* Instances of BufferCache for TLC.  Two blocks share a hash chain.        *)
EXTENDS BufferCache, TLC

MCBlock == {1, 2, 3}

Interchangeable == Permutations(Task)

(* A view without what nobody reads before it is written again: the        *)
(* variables of a call that is over, or has found no buffer yet, the data  *)
(* of a buffer that is not up to date, the sector of a request that ended, *)
(* the word at NULL.                                                       *)
Live ==
  <<b_block, b_count, b_lock, b_uptodate, at, held, buffer_wait, tmp,
    [queues EXCEPT !.at_null = NULL],
    [b \in Buffer |-> IF b_uptodate[b] THEN b_data[b] ELSE NoBlock],
    [b \in Buffer |-> IF b_lock[b] THEN sector[b] ELSE NoBlock],
    [t \in Task |-> IF at[t] = "user" THEN NoBlock ELSE block[t]],
    [t \in Task |->
       IF at[t] \in {"user", "none free", "woken", "repeat"} THEN NULL ELSE bh[t]]>>

=============================================================================
