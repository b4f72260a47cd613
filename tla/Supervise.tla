------------------------------- MODULE Supervise -----------------------------
(***************************************************************************)
(* Keeping a shell on the console: the first spawn in main(), the loop of  *)
(* supervise() and the verdicts of give_up_or_fall_back().                 *)
(***************************************************************************)
EXTENDS PidOne

\* proc::spawn(): fork().  The child is a process of Kernel from here on.
Fork(p) ==
  /\ Goto("fork", "track")
  /\ fork(p)
  /\ newpid' = p
  /\ lastFork' = Now
  /\ attempts' = attempts + 1
  /\ UNCHANGED <<elsewhere, caller, superviseVars, table, shortest, left,
                 shutdownVars, missed, since>>

\* fork() fails, for want of memory or because every pid is taken.
ForkFails ==
  /\ Goto("fork", "park")
  /\ "fork" \in Faults \/ \A p \in Pid : Exists(p)
  /\ UNCHANGED <<kernelVars, caller, superviseVars, reapVars, shutdownVars,
                 historyVars>>

\* Table::track() enters the child in the table with the time of the entry, not
\* of the fork.  A respawn continues to the wait with the idle it was decided
\* on; the first spawn of main() enters the loop.
Track ==
  /\ pc = "track"
  /\ pc' = IF idle THEN "wait" ELSE "loop"
  /\ table' = track(table, newpid, sec, TRUE)
  /\ newpid' = PID_ONE
  /\ UNCHANGED <<kernelVars, caller, superviseVars, shortest, left,
                 shutdownVars, historyVars>>

\* Variant for the mutation check: a shell is due whenever the backoff is over.
LoopIgnoresTheTable ==
  /\ pc = "loop"
  /\ idle' = (Running(table) = {})
  /\ pc' = IF sec >= respawnAt THEN "fork" ELSE "wait"
  /\ UNCHANGED <<kernelVars, caller, usable, rescue, respawnAt, reapVars,
                 shutdownVars, historyVars>>

\* Variant for the mutation check: the backoff is part of idle, so that the wait
\* during a backoff has no timeout.
LoopIdleOnlyWhenDue ==
  /\ pc = "loop"
  /\ idle' = (Running(table) = {} /\ sec >= respawnAt)
  /\ pc' = IF idle' THEN "fork" ELSE "wait"
  /\ UNCHANGED <<kernelVars, caller, usable, rescue, respawnAt, reapVars,
                 shutdownVars, historyVars>>

\* The top of the loop.
Loop ==
  /\ pc = "loop"
  /\ idle' = (Running(table) = {})
  /\ pc' = IF idle' /\ sec >= respawnAt THEN "fork" ELSE "wait"
  /\ UNCHANGED <<kernelVars, caller, usable, rescue, respawnAt, reapVars,
                 shutdownVars, historyVars>>

\* What each request does when it is read.
ChildChanged ==
  /\ CallReapAll("supervise")
  /\ UNCHANGED action

Reload ==
  /\ pc' = "loop"
  /\ UNCHANGED <<caller, shortest, action>>

Shutdown(a) ==
  /\ action' = a
  /\ CallReapAll("stop")

\* Variant for the mutation check: all pending signals are read at once, and the
\* first of them is dispatched.
WaitReturnsReadsAll ==
  /\ pc = "wait"
  /\ pend # {}
  /\ pend' = {}
  /\ LET s == NextSignal(pend) IN
       \/ classify(s) = "ChildChanged" /\ ChildChanged
       \/ classify(s) = "Reload" /\ Reload
       \/ classify(s) \in Actions /\ Shutdown(classify(s))
  /\ UNCHANGED <<procVars, elsewhere, superviseVars, table, newpid, left,
                 leaders, deadline, historyVars>>

\* signals.wait() returns the first pending signal and supervise() dispatches
\* on what it asks for.
WaitReturns ==
  /\ pc = "wait"
  /\ pend # {}
  /\ LET s == NextSignal(pend) IN
       /\ pend' = pend \ {s}
       /\ \/ classify(s) = "ChildChanged" /\ ChildChanged
          \/ classify(s) = "Reload" /\ Reload
          \/ classify(s) \in Actions /\ Shutdown(classify(s))
  /\ UNCHANGED <<procVars, elsewhere, superviseVars, table, newpid, left,
                 leaders, deadline, historyVars>>

\* BACKOFF_CHECK_MS pass without a signal; UNTIL_SOMETHING_ARRIVES never does.
WaitTimesOut ==
  /\ Goto("wait", "loop")
  /\ idle /\ pend = {}
  /\ UNCHANGED <<kernelVars, caller, superviseVars, reapVars, shutdownVars,
                 historyVars>>

\* poll() or read() fails: an interrupted call goes round the loop again, any
\* other error parks.
WaitFails ==
  /\ pc = "wait" /\ pc' \in {"loop", "park"}
  /\ "poll" \in Faults
  /\ UNCHANGED <<kernelVars, caller, superviseVars, reapVars, shutdownVars,
                 historyVars>>

Survived ==
  /\ rescue' = survived(rescue)
  /\ attempts' = 0
  /\ pc' = "loop"
  /\ UNCHANGED respawnAt

\* Variant for the mutation check: no backoff.
DiedEarlyNoBackoff ==
  /\ respawnAt' = sec
  /\ rescue' = failed(rescue, usable)
  /\ attempts' = IF verdict(rescue, usable) = "MovedOn" THEN 0 ELSE attempts
  /\ pc' = IF verdict(rescue, usable) = "OutOfOptions" THEN "park" ELSE "loop"

DiedEarly ==
  /\ respawnAt' = sec + RESPAWN_BACKOFF_SECS
  /\ rescue' = failed(rescue, usable)
  /\ attempts' = IF verdict(rescue, usable) = "MovedOn" THEN 0 ELSE attempts
  /\ pc' = IF verdict(rescue, usable) = "OutOfOptions" THEN "park" ELSE "loop"

\* Back in supervise() with the shortest life of the harvest.
Judge ==
  /\ pc = "harvested" /\ caller = "supervise"
  /\ \/ /\ shortest = NoLife
        /\ pc' = "loop"
        /\ UNCHANGED <<rescue, respawnAt, attempts>>
     \/ shortest >= RESPAWN_IS_TOO_FAST /\ Survived
     \/ shortest \in 0 .. RESPAWN_IS_TOO_FAST - 1 /\ DiedEarly
  /\ shortest' = NoLife
  /\ UNCHANGED <<kernelVars, caller, usable, idle, table, newpid, left,
                 shutdownVars, lastFork, missed, since>>

SuperviseNext ==
  \/ \E p \in Pid : Fork(p)
  \/ ForkFails
  \/ Track
  \/ Loop
  \/ WaitReturns
  \/ WaitTimesOut
  \/ WaitFails
  \/ Judge

==============================================================================
