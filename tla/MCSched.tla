------------------------------ MODULE MCSched ------------------------------
(* Instances of the scheduler for TLC.                                     *)
EXTENDS Sched

MCSig == {SIGKILL, SIGALRM, SIGCHLD}

(* Programs that raise and lower their priority, below zero too, and set   *)
(* alarms of 0, 1 and 2 seconds.                                           *)
NiceIncrements == {-1, 1}
LowestPriority == -1
AlarmSeconds == {0, 1, 2}

=============================================================================
