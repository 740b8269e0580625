----------------------------- MODULE MCProcess -----------------------------
(* An instance of Process for TLC.                                         *)
EXTENDS Process

MCSig == {SIGKILL, SIGALRM, SIGCHLD}
NoIncrements == {}
NoSeconds == {}
MCMasks == {{}, {SIGALRM, SIGCHLD}}
AlarmSignal == {SIGALRM}

(* A view for a run whose programs set no alarm: alarm stays 0, and the    *)
(* clock is then read by nobody.                                           *)
NoClock == <<current, state, ts, priority, signal, blocked, alarm, procVars>>

=============================================================================
