------------------------------ MODULE MCMemory ------------------------------
(* Instances of Memory for TLC.  A page is 32 bytes and a KB is a page, so *)
(* that 12 KB beyond LOW_MEM (two pages) are fewer than LOW_MEM in bytes,  *)
(* as the 12 to 64 thousand KB of a real machine are.                      *)
EXTENDS Memory

=============================================================================
