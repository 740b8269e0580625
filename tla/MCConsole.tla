----------------------------- MODULE MCConsole ------------------------------
(* Instances of Console for TLC: two lines of three columns, and a video   *)
(* memory of three lines and a cell, so that the window moves once before  *)
(* the text does.                                                          *)
EXTENDS Console

=============================================================================
