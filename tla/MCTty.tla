------------------------------- MODULE MCTty -------------------------------
(* An instance of Tty for TLC.                                             *)
EXTENDS Tty

(* One character for a key, or two.                                        *)
MCTyped ==
  {<<c>> : c \in Char} \cup {<<"KILL", "a">>, <<"DEL", "CTL">>, <<"a", "NL">>}

(* tty_table[0] as it is, with the bit of L_ICANON where it is looked for, *)
(* and two more.                                                           *)
MCTermios ==
  {Initializer,
   Initializer \cup {"L_ICANON"},
   {"L_ICANON", "I_NLCR", "I_UCLC", "L_ECHO"},
   {"L_ICANON", "I_IGNCR"}}

=============================================================================
