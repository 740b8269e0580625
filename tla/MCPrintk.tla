------------------------------ MODULE MCPrintk ------------------------------
(* An instance of Printk for TLC.                                          *)
EXTENDS Printk

(* Messages like those of main.c, which end with their only line feed.     *)
OneLine == {<<"char", "LF">>, <<"char", "char", "LF">>}

=============================================================================
