----------------------------- MODULE MCLibrary -----------------------------
(* An instance of Library for TLC.                                         *)
EXTENDS Library

MCChars == {1, -1}
MCNumbers == {-128, -127, -10, -1, 0, 1, 9, 10, 127}
MCWidths == {-7, -1, 0, 2, 7, 12}
MCPrecisions == {-1, 0, 1, 5}
MCConversions == {"d", "i", "u", "x", "X", "o", "p"}
MCAddresses == {<<0, 0, 0, 0>>, <<255, 1, 128, 64>>, <<16, 240, 0, 255>>}
MCTasks == {0, 1, 2, 29, 30, 31, 62, 63}

=============================================================================
