----------------------------- MODULE MCHardDisk -----------------------------
(* Instances of HardDisk for TLC.  Two entries and three buffers, so that  *)
(* a call finds the table full; block 2 is the first beyond the partition. *)
EXTENDS HardDisk

MCBuffer == 0 .. 2

=============================================================================
