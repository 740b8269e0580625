----------------------------- MODULE MCSignals -----------------------------
(* An instance of Signals for TLC.                                         *)
EXTENDS Signals

MCSig == {SIGKILL, SIGALRM, SIGCHLD}
NoIncrements == {}
NoSeconds == {}
MCKillSigs == {SIGALRM}
MCCaught == {SIGALRM, SIGCHLD}
MCMasks == {{}, {SIGALRM}}
MCActions ==
  {[handler |-> "user", mask |-> {SIGKILL, SIGCHLD}, flags |-> {}],
   [handler |-> "user", mask |-> {SIGCHLD}, flags |-> {"NOMASK"}]}

(* A view for the runs whose programs set no alarm: alarm stays 0, and the *)
(* clock is then read by nobody.                                           *)
NoClock == <<current, state, ts, priority, signal, blocked, alarm, procVars, sigVars>>

=============================================================================
