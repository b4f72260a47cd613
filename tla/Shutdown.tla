------------------------------- MODULE Shutdown ------------------------------
(***************************************************************************)
(* Going down: power::execute(), stop_everything() and wait_for_silence(). *)
(* wait_for_silence() runs twice; caller tells the two calls apart.        *)
(***************************************************************************)
EXTENDS PidOne

\* stop_everything() has reaped.  Without children it returns at once, else the
\* session leaders of the table are read, to be hung up one by one.
Begin ==
  /\ pc = "harvested" /\ caller = "stop"
  /\ pc' = IF left THEN "hangup" ELSE "sync"
  /\ leaders' = IF left THEN session_leaders(table) ELSE {}
  /\ UNCHANGED <<kernelVars, caller, superviseVars, reapVars, action, deadline,
                 historyVars>>

HangUp(l) ==
  /\ pc = "hangup" /\ l \in leaders
  /\ hang_up(l)
  /\ leaders' = leaders \ {l}
  /\ missed' = IF Alive(l) /\ kind[l] = "prep" THEN missed \cup {l} ELSE missed
  /\ UNCHANGED <<elsewhere, controlVars, superviseVars, reapVars, action,
                 deadline, lastFork, attempts, since>>

Terminate ==
  /\ Goto("hangup", "continue")
  /\ leaders = {}
  /\ terminate_everyone
  /\ UNCHANGED <<elsewhere, caller, superviseVars, reapVars, shutdownVars,
                 historyVars>>

\* Variant for the mutation check: SIGCONT is left out.
ContinueNobody ==
  /\ Goto("continue", "arm")
  /\ caller' = "grace"
  /\ since' = Now
  /\ UNCHANGED <<kernelVars, superviseVars, reapVars, shutdownVars, lastFork,
                 attempts, missed>>

\* The last signal of the first round; wait_for_silence(GRACE_SECS) is next.
Continue ==
  /\ Goto("continue", "arm")
  /\ continue_everyone
  /\ caller' = "grace"
  /\ since' = Now
  /\ UNCHANGED <<elsewhere, superviseVars, reapVars, shutdownVars, lastFork,
                 attempts, missed>>

\* The second round; wait_for_silence(AFTER_KILL_SECS) is next.
Kill ==
  /\ Goto("kill", "arm")
  /\ kill_everyone
  /\ caller' = "afterkill"
  /\ since' = Now
  /\ UNCHANGED <<elsewhere, superviseVars, reapVars, shutdownVars, lastFork,
                 attempts, missed>>

\* Variant for the mutation check: the two waits share the shorter limit.
ArmShort ==
  /\ pc = "arm"
  /\ deadline' = sec + AFTER_KILL_SECS
  /\ CallReapAll(caller)
  /\ UNCHANGED <<kernelVars, superviseVars, table, newpid, left, action,
                 leaders, historyVars>>

\* wait_for_silence() reads the clock once for its deadline.
Arm ==
  /\ pc = "arm"
  /\ deadline' = sec + (IF caller = "grace" THEN GRACE_SECS ELSE AFTER_KILL_SECS)
  /\ CallReapAll(caller)
  /\ UNCHANGED <<kernelVars, superviseVars, table, newpid, left, action,
                 leaders, historyVars>>

AfterSilence == "sync"
\* Variant for the mutation check: out of time after SIGTERM, straight to reboot().
AfterTimeoutGiveUp == "sync"

AfterTimeout == IF caller = "grace" THEN "kill" ELSE "sync"

\* One round of wait_for_silence(): silence, too late, or wait for a signal.
CheckSilence ==
  /\ pc = "harvested" /\ caller \in {"grace", "afterkill"}
  /\ \/ ~left /\ pc' = AfterSilence
     \/ left /\ sec >= deadline /\ pc' = AfterTimeout
     \/ left /\ sec < deadline /\ pc' = "poll"
  /\ UNCHANGED <<kernelVars, caller, superviseVars, reapVars, shutdownVars,
                 historyVars>>

\* Variant for the mutation check: a request read on the way down is obeyed.
PollObeys ==
  /\ pc = "poll"
  /\ pend # {}
  /\ pend' = pend \ {NextSignal(pend)}
  /\ action' = IF classify(NextSignal(pend)) \in Actions
               THEN classify(NextSignal(pend)) ELSE action
  /\ CallReapAll(caller)
  /\ UNCHANGED <<procVars, elsewhere, superviseVars, table, newpid, left,
                 leaders, deadline, historyVars>>

\* Variant for the mutation check: the limit counts from the last signal.
PollRearms ==
  /\ Goto("poll", "arm")
  /\ \/ pend # {} /\ pend' = pend \ {NextSignal(pend)}
     \/ pend = {} /\ UNCHANGED pend
     \/ "poll" \in Faults /\ UNCHANGED pend
  /\ UNCHANGED <<procVars, elsewhere, caller, superviseVars, reapVars, shutdownVars,
                 historyVars>>

\* A signal is read and dropped, or CHECK_EVERY_MS pass without one, or the
\* call fails; whatever happens, the children are looked at again.
Poll ==
  /\ pc = "poll"
  /\ \/ pend # {} /\ pend' = pend \ {NextSignal(pend)}
     \/ pend = {} /\ UNCHANGED pend
     \/ "poll" \in Faults /\ UNCHANGED pend
  /\ CallReapAll(caller)
  /\ UNCHANGED <<procVars, elsewhere, superviseVars, table, newpid, left,
                 shutdownVars, historyVars>>

\* sync(), then reboot(), which does not return ...
HandOver ==
  /\ Goto("sync", "down")
  /\ machine' = action
  /\ UNCHANGED <<procVars, pend, clockVars, cad, asked, jobs, caller,
                 superviseVars, reapVars, shutdownVars, historyVars>>

\* ... unless the kernel refuses, and then main() parks.
HandOverRefused ==
  /\ Goto("sync", "park")
  /\ "reboot" \in Faults
  /\ UNCHANGED <<kernelVars, caller, superviseVars, reapVars, shutdownVars,
                 historyVars>>

ShutdownNext ==
  \/ Begin
  \/ \E l \in Pid : HangUp(l)
  \/ Terminate
  \/ Continue
  \/ Kill
  \/ Arm
  \/ CheckSilence
  \/ Poll
  \/ HandOver
  \/ HandOverRefused

==============================================================================
