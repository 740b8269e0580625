---------------------------- MODULE MCWaitQueue ----------------------------
(* Instances of WaitQueue for TLC.                                         *)
EXTENDS WaitQueue

MCSig == {SIGKILL, SIGALRM, SIGCHLD}
NoIncrements == {}
NoSeconds == {}

=============================================================================
