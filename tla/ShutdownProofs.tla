---------------------------- MODULE ShutdownProofs ----------------------------
(***************************************************************************)
(* Theorems about going down: whom the two rounds of signals reach, who is *)
(* left when each of them is over, how long each of them had, and that     *)
(* there is no way back.  With them everything is known that Lifecycle     *)
(* promises: the last part shows that ZevInit implements it.               *)
(***************************************************************************)
EXTENDS ShellProofs

USE DEF Goto, CallReapAll, elsewhere, clockVars, procVars, controlVars,
        superviseVars, reapVars, shutdownVars, historyVars

-------------------------------------------------------------------------------
(***************************************************************************)
(* Whom the signals reach.                                                 *)
(***************************************************************************)

\* The first round of signals has been sent.
Signalled == caller \in {"grace", "afterkill"}

\* Time is up: the clock has moved since a round of signals ended, so whoever was
\* going to die of it has.
TimeIsUp ==
  \/ pc \in {"reap", "harvested", "poll"} /\ Signalled /\ sec >= deadline
  \/ pc = "kill"
  \/ pc \in {"sync", "down"} /\ left

\* Only the living are dying, and after the first round all of them can act on it.
DyingInv ==
  /\ \A p \in dying : Alive(p)
  /\ Signalled => \A p \in dying : st[p] = "live"
  /\ caller = "afterkill" => \A p \in Pid : Alive(p) => p \in dying
  /\ TimeIsUp => \A p \in dying : kind[p] = "stuck"

\* Every shell is going to be hung up, is dying, or was too young to be hung up.
HangUpInv ==
  /\ \A e \in table : e.owns_session
  /\ pc = "hangup" =>
       \A p \in Shells : Alive(p) => p \in leaders \cup dying \cup missed
  /\ pc = "continue" \/ Signalled =>
       \A p \in Shells : Alive(p) => p \in dying \cup missed

\* Where pid 1 is on the way down.
WayDown ==
  /\ Signalled => action \in Actions
  /\ pc \in {"hangup", "continue"} => caller = "stop"
  /\ pc = "kill" => caller = "grace"
  /\ pc \in {"sync", "down"} /\ left => caller = "afterkill"
  /\ pc = "down" => machine # "up" /\ (~left => Existing = {})

RoundInv == DyingInv /\ HangUpInv /\ WayDown

\* Marking an entry gone leaves it its session.
LEMMA ExitKeepsSession ==
  ASSUME NEW t \in SUBSET EntryType(Pid), NEW z \in Pid, \A e \in t : e.owns_session
  PROVE  \A e \in record_exit(t, z) : e.owns_session
<1>1. ASSUME NEW e \in EntryType(Pid)
      PROVE  [e EXCEPT !.state = "Gone"].owns_session = e.owns_session
  BY <1>1 DEF EntryType
<1>2. Found(t, z) \subseteq t
  BY DEF Found, Running
<1>3. QED
  BY <1>1, <1>2 DEF record_exit

\* What goes on around pid 1: the dying do not open sessions, start anything or
\* stop, and when everybody is dying nobody else does.
LEMMA KernelKeepsRound ==
  ASSUME TypeInv, RoundInv, KernelNext, UNCHANGED pidOneVars
  PROVE  RoundInv'
<1> USE KernelAssumption
    DEF RoundInv, DyingInv, HangUpInv, WayDown, Signalled, TimeIsUp, Shells, Spawned,
        Alive, TypeInv, TypeOK, KernelTypeOK, pidOneVars
<1>1. machine = "up" /\ pc # "down" /\ pc' # "down"
  BY DEF KernelNext
<1>2. ASSUME NEW p \in Pid, Ends(p)
      PROVE  RoundInv'
  BY <1>1, <1>2 DEF Ends
<1>3. ASSUME NEW p \in Pid, ShellQuits(p) \/ JobQuits(p) \/ Falls(p)
      PROVE  RoundInv'
  BY <1>2, <1>3 DEF ShellQuits, JobQuits, Falls
<1>4. ASSUME NEW p \in Pid, OpensSession(p) \/ BecomesShell(p) \/ Stops(p)
      PROVE  RoundInv'
  BY <1>1, <1>4 DEF OpensSession, BecomesShell, Stops
<1>5. ASSUME NEW p \in Pid, NEW c \in Pid, NEW k \in JobKinds, StartsJob(p, c, k)
      PROVE  RoundInv'
  BY <1>1, <1>5 DEF StartsJob
<1>6. ASSUME NEW p \in Pid, NEW c \in Pid, Collects(p, c)
      PROVE  RoundInv'
  BY <1>1, <1>6 DEF Collects
<1>7. ASSUME NEW s \in Requests, Asks(s)
      PROVE  RoundInv'
  BY <1>1, <1>7 DEF Asks
<1>8. CASE PressesCtrlAltDel
  BY <1>1, <1>8 DEF PressesCtrlAltDel
<1>9. QED
  BY <1>3, <1>4, <1>5, <1>6, <1>7, <1>8 DEF KernelNext

\* The clock only moves on when those who can die have: here time gets up.
LEMMA ClockKeepsRound ==
  ASSUME TypeInv, RoundInv, ClockNext
  PROVE  RoundInv'
<1>1. /\ machine = "up" /\ Prompt
      /\ UNCHANGED <<st, parent, kind, dying, machine, pidOneVars>>
  BY DEF ClockNext, Tick
<1>2. Signalled => \A p \in dying : kind[p] = "stuck"
  BY <1>1 DEF Prompt, RoundInv, DyingInv
<1>3. TimeIsUp' => TimeIsUp \/ Signalled
  BY <1>1 DEF TimeIsUp, Signalled, pidOneVars
<1>4. DyingInv'
  BY <1>1, <1>2, <1>3 DEF RoundInv, DyingInv, Signalled, Alive, pidOneVars
<1>5. HangUpInv'
  BY <1>1 DEF RoundInv, HangUpInv, Signalled, Alive, Shells, pidOneVars
<1>6. WayDown'
  BY <1>1 DEF RoundInv, WayDown, Signalled, Existing, Exists, pidOneVars
<1>7. QED
  BY <1>4, <1>5, <1>6 DEF RoundInv

\* Before pid 1 is told to go down no round of signals is under way.
LEMMA NotSignalledYet ==
  ASSUME TypeInv, RoundInv, action = "none"
  PROVE  /\ ~Signalled /\ ~TimeIsUp
         /\ pc \notin {"hangup", "continue", "arm", "poll", "kill", "sync", "down"}
  BY DEF TypeInv, FlowOK, RoundInv, WayDown, TimeIsUp, Signalled, Actions

\* Supervising, reaping and parking leave the dying alone; who is forked is not dying.
LEMMA SuperviseKeepsRound ==
  ASSUME TypeInv, ShellInv, RoundInv,
         Park \/ SuperviseNext \/ ReapDone \/ \E z \in Pid : ReapChild(z)
  PROVE  RoundInv'
<1> USE KernelAssumption
    DEF RoundInv, DyingInv, HangUpInv, WayDown, Signalled, TimeIsUp, Shells, Spawned,
        Alive, TypeInv, TypeOK, KernelTypeOK
<1>1. ASSUME NEW z \in Pid, ReapChild(z)
      PROVE  RoundInv'
  <2>1. \A e \in table' : e.owns_session
    BY <1>1, ExitKeepsSession DEF ReapChild, PidOneTypeOK
  <2>2. z \notin dying
    BY <1>1 DEF ReapChild, reap_one, Zombies, Children
  <2>3. QED
    BY <1>1, <2>1, <2>2 DEF ReapChild, reap_one
<1>2. CASE ReapDone
  <2>1. table' \subseteq table
    BY <1>2 DEF ReapDone, forget_finished, Running
  <2>2. /\ pc = "reap" /\ pc' = "harvested"
        /\ UNCHANGED <<kernelVars, caller, action, leaders, missed, deadline>>
    BY <1>2 DEF ReapDone
  <2>3. QED
    BY <2>1, <2>2 DEF kernelVars
<1>3. CASE Park
  <2>1. /\ pc = "park" /\ pc' = "parked"
        /\ UNCHANGED <<st, parent, kind, dying, sec, machine, caller, table, action,
                       leaders, missed, left, deadline>>
    BY <1>3 DEF Park
  <2>2. QED
    BY <2>1
<1>4. ASSUME SuperviseNext
      PROVE  action = "none"
  BY <1>4 DEF SuperviseNext, Fork, ForkFails, Track, Loop, WaitReturns, WaitTimesOut,
     WaitFails, Judge, FlowOK
<1>5. ASSUME NEW p \in Pid, Fork(p), action = "none"
      PROVE  RoundInv'
  <2>1. p \notin dying
    BY <1>5 DEF Fork, fork
  <2>2. QED
    BY <1>5, <2>1, NotSignalledYet DEF Fork, fork
<1>6. CASE Track /\ action = "none"
  <2>1. \A e \in table' : e.owns_session
    BY <1>6 DEF Track, track, Entry
  <2>2. /\ pc' \in {"wait", "loop"}
        /\ UNCHANGED <<kernelVars, caller, action, leaders, missed, left>>
    BY <1>6 DEF Track
  <2>3. QED
    BY <1>6, <2>1, <2>2, NotSignalledYet DEF kernelVars
<1>7. CASE WaitReturns /\ action = "none"
  <2>1. /\ pc' \in {"reap", "loop"} /\ caller' \in {caller, "supervise", "stop"}
        /\ UNCHANGED <<st, parent, kind, dying, sec, machine, table, leaders, missed,
                       left, deadline>>
    BY <1>7 DEF WaitReturns, ChildChanged, Reload, Shutdown
  <2>2. QED
    BY <1>7, <2>1, NotSignalledYet
<1>8. CASE action = "none"
           /\ (ForkFails \/ Loop \/ WaitTimesOut \/ WaitFails \/ Judge)
  <2>1. /\ pc' \in {"park", "fork", "wait", "loop"}
        /\ UNCHANGED <<kernelVars, caller, table, action, leaders, missed, left>>
    BY <1>8 DEF ForkFails, Loop, WaitTimesOut, WaitFails, Judge, Survived, DiedEarly
  <2>2. QED
    BY <1>8, <2>1, NotSignalledYet DEF kernelVars
<1>9. QED
  BY <1>1, <1>2, <1>3, <1>4, <1>5, <1>6, <1>7, <1>8 DEF SuperviseNext

\* The table names every shell, because one that is forked is tracked before pid 1
\* looks at its signals again.
LEMMA LeadersAreTheShells ==
  ASSUME TypeInv, ShellInv, RoundInv, pc # "track"
  PROVE  session_leaders(table) = Shells
<1>1. Shells = RunningPids
  BY DEF TypeInv, FlowOK, ShellInv
<1>2. {r \in Running(table) : r.owns_session} = Running(table)
  BY DEF RoundInv, HangUpInv, Running
<1>3. QED
  BY <1>1, <1>2 DEF session_leaders, RunningPids

\* The rounds themselves.
LEMMA ShutdownKeepsRound ==
  ASSUME TypeInv, ShellInv, RoundInv, Silence, ShutdownNext
  PROVE  RoundInv'
<1> USE KernelAssumption, PidOneAssumption
    DEF RoundInv, DyingInv, HangUpInv, WayDown, Signalled, TimeIsUp, Shells, Spawned,
        Alive, TypeInv, TypeOK, KernelTypeOK
<1>1. CASE Begin
  <2>1. /\ pc = "harvested" /\ caller = "stop" /\ pc' \in {"hangup", "sync"}
        /\ left => pc' = "hangup" /\ leaders' = Shells
        /\ ~left => pc' = "sync"
        /\ UNCHANGED <<kernelVars, caller, table, action, missed, left>>
    <3>1. session_leaders(table) = Shells
      BY <1>1, LeadersAreTheShells DEF Begin
    <3>2. QED
      BY <1>1, <3>1, Zenon DEF Begin, reapVars, historyVars
  <2>2. QED
    BY <2>1 DEF kernelVars
<1>2. ASSUME NEW l \in Pid, HangUp(l)
      PROVE  RoundInv'
  <2>1. /\ pc = "hangup" /\ pc' = "hangup" /\ ~Signalled /\ ~Signalled'
        /\ leaders' = leaders \ {l}
        /\ UNCHANGED <<st, parent, kind, sec, machine, caller, table, action, left>>
    BY <1>2 DEF HangUp, hang_up, FlowOK
  <2>2. Alive(l) /\ l \in Shells => l \in dying' \cup missed'
    BY <1>2 DEF HangUp, hang_up
  <2>3. dying \subseteq dying' /\ missed \subseteq missed'
        /\ \A p \in dying' \ dying : Alive(p)
    BY <1>2 DEF HangUp, hang_up
  <2>4. DyingInv' /\ WayDown'
    BY <2>1, <2>3
  <2>5. HangUpInv'
    BY <2>1, <2>2, <2>3
  <2>6. QED
    BY <2>4, <2>5
<1>3. CASE Terminate
  <2>1. /\ pc = "hangup" /\ pc' = "continue" /\ leaders = {}
        /\ dying \subseteq dying' /\ \A p \in dying' \ dying : Alive(p)
        /\ UNCHANGED <<st, parent, kind, sec, machine, caller, table, action, missed,
                       left>>
    BY <1>3 DEF Terminate, terminate_everyone
  <2>2. QED
    BY <2>1
<1>4. CASE Continue
  <2>1. /\ pc = "continue" /\ pc' = "arm" /\ caller' = "grace" /\ st' = Resumed
        /\ UNCHANGED <<parent, kind, dying, sec, machine, table, action, missed, left>>
    BY <1>4 DEF Continue, continue_everyone
  <2>2. \A p \in Pid : /\ Alive(p)' => Alive(p) /\ st'[p] = "live"
                       /\ Alive(p) => Alive(p)'
    BY <2>1 DEF Resumed
  <2>3. DyingInv'
    BY <2>1, <2>2
  <2>4. HangUpInv'
    <3>1. \A p \in Shells : Alive(p) => p \in dying \cup missed
      BY <2>1
    <3>2. Shells' = Shells
      BY <2>1
    <3>3. \A p \in Shells' : Alive(p)' => p \in dying' \cup missed'
      BY <2>1, <2>2, <3>1, <3>2
    <3>4. QED
      BY <2>1, <3>3
  <2>5. WayDown'
    BY <2>1 DEF FlowOK
  <2>6. QED
    BY <2>3, <2>4, <2>5
<1>5. CASE Kill
  <2>1. /\ pc = "kill" /\ pc' = "arm" /\ caller = "grace" /\ caller' = "afterkill"
        /\ st' = Resumed /\ dying' = dying \cup {p \in Pid : Alive(p)}
        /\ UNCHANGED <<parent, kind, sec, machine, table, action, missed, left>>
    BY <1>5 DEF Kill, kill_everyone
  <2>2. QED
    BY <2>1 DEF Resumed
<1>6. CASE Arm
  <2>1. /\ pc = "arm" /\ pc' = "reap" /\ ~(sec' >= deadline')
        /\ UNCHANGED <<kernelVars, caller, table, action, missed, left>>
    <3>1. /\ \E n \in Nat \ {0} : deadline' = sec + n
          /\ UNCHANGED <<kernelVars, caller, table, action, missed, left>>
          /\ pc = "arm" /\ pc' = "reap"
      BY <1>6 DEF Arm
    <3>2. ~(sec' >= deadline')
      BY <3>1 DEF kernelVars
    <3>3. QED
      BY <3>1, <3>2
  <2>2. QED
    BY <2>1 DEF kernelVars
<1>7. CASE CheckSilence
  <2>1. /\ pc = "harvested" /\ Signalled
        /\ \/ ~left /\ pc' = "sync"
           \/ left /\ sec >= deadline /\ caller = "grace" /\ pc' = "kill"
           \/ left /\ sec >= deadline /\ caller = "afterkill" /\ pc' = "sync"
           \/ pc' = "poll"
        /\ UNCHANGED <<kernelVars, caller, table, action, missed, left, deadline>>
    BY <1>7 DEF CheckSilence, AfterSilence, AfterTimeout
  <2>2. QED
    BY <2>1 DEF kernelVars
<1>8. CASE Poll
  <2>1. /\ pc = "poll" /\ pc' = "reap"
        /\ UNCHANGED <<st, parent, kind, dying, sec, machine, caller, table, action,
                       missed, left, deadline>>
    BY <1>8 DEF Poll
  <2>2. QED
    BY <2>1
<1>9. CASE HandOver
  <2>1. /\ pc = "sync" /\ pc' = "down" /\ machine' = action
        /\ UNCHANGED <<st, parent, kind, dying, sec, caller, table, action, missed,
                       left>>
    BY <1>9 DEF HandOver
  <2>2. machine' # "up"
    BY <2>1 DEF FlowOK, Actions
  <2>3. ~left' => Existing' = {}
    BY <2>1 DEF Silence, Existing, Exists
  <2>4. QED
    BY <2>1, <2>2, <2>3
<1>10. CASE HandOverRefused
  <2>1. /\ pc = "sync" /\ pc' = "park"
        /\ UNCHANGED <<kernelVars, caller, table, action, missed, left>>
    BY <1>10 DEF HandOverRefused
  <2>2. QED
    BY <2>1 DEF kernelVars
<1>11. QED
  BY <1>1, <1>2, <1>3, <1>4, <1>5, <1>6, <1>7, <1>8, <1>9, <1>10 DEF ShutdownNext

\* In every reachable state the signals have reached whom they should.
THEOREM RoundInvHolds == Spec => []RoundInv
<1>1. Init => RoundInv
  BY DEF Init, KernelInit, PidOneInit, RoundInv, DyingInv, HangUpInv, WayDown,
     Signalled, TimeIsUp
<1>2. TypeInv /\ ShellInv /\ Silence /\ RoundInv /\ [Next]_vars => RoundInv'
  <2> SUFFICES ASSUME TypeInv, ShellInv, Silence, RoundInv, [Next]_vars
               PROVE  RoundInv'
    OBVIOUS
  <2>1. CASE PidOneNext
    BY <2>1, SuperviseKeepsRound, ShutdownKeepsRound DEF PidOneNext
  <2>2. CASE ClockNext
    BY <2>2, ClockKeepsRound
  <2>3. CASE KernelNext /\ UNCHANGED pidOneVars
    BY <2>3, KernelKeepsRound
  <2>4. CASE UNCHANGED vars
    BY <2>4 DEF vars, kernelVars, pidOneVars, RoundInv, DyingInv, HangUpInv, WayDown,
       Signalled, TimeIsUp, Shells, Alive, Existing, Exists
  <2>5. QED
    BY <2>1, <2>2, <2>3, <2>4 DEF Next
<1>3. QED
  BY <1>1, <1>2, TypeInvHolds, ShellInvHolds, SilenceInvHolds, PTL DEF Spec

\* Whatever is alive when the kernel takes over is in uninterruptible sleep
\* (OnlyTheUnkillableRemain): the silence is real, or SIGKILL has reached everyone and
\* had its time.
THEOREM UnkillableRemain == Spec => []OnlyTheUnkillableRemain
<1>1. RoundInv /\ Silence => OnlyTheUnkillableRemain
  BY DEF RoundInv, DyingInv, WayDown, TimeIsUp, Silence, Existing, Exists, Alive,
     OnlyTheUnkillableRemain
<1>2. QED
  BY <1>1, RoundInvHolds, SilenceInvHolds, PTL

\* When SIGKILL is sent, whoever had taken the first round to heart is gone
\* (KillIsLastResort).
THEOREM KillComesLast == Spec => []KillIsLastResort
<1>1. RoundInv => KillIsLastResort
  BY DEF RoundInv, DyingInv, HangUpInv, WayDown, Signalled, TimeIsUp, Shells, Spawned,
     KillIsLastResort
<1>2. QED
  BY <1>1, RoundInvHolds, PTL

-------------------------------------------------------------------------------
(***************************************************************************)
(* How long each round had.  The deadline is a whole second, so what is    *)
(* known of the ticks is a product with TicksPerSec.                       *)
(***************************************************************************)

LEMMA ATickLater ==
  ASSUME TypeOK, Tick
  PROVE  Now' = Now + 1
<1>1. sec \in Nat /\ TicksPerSec \in Nat \ {0} /\ sub \in 0 .. TicksPerSec - 1
  BY KernelAssumption DEF TypeOK, KernelTypeOK
<1>2. (sec + 1) * TicksPerSec = sec * TicksPerSec + TicksPerSec
  BY <1>1, Distributes
<1>3. sec * TicksPerSec \in Nat
  BY <1>1
<1>4. CASE sub + 1 < TicksPerSec
  BY <1>1, <1>3, <1>4 DEF Now, Tick
<1>5. CASE ~(sub + 1 < TicksPerSec)
  <2>1. sub' = 0 /\ sec' = sec + 1 /\ sub + 1 = TicksPerSec
    BY <1>1, <1>5 DEF Tick
  <2>2. Now' = (sec + 1) * TicksPerSec
    BY <2>1, <1>1, <1>2, <1>3 DEF Now
  <2>3. QED
    BY <1>1, <1>2, <1>3, <2>1, <2>2 DEF Now
<1>6. QED
  BY <1>4, <1>5

\* How long the round that is under way has.
Limit == IF caller = "grace" THEN GRACE_SECS ELSE AFTER_KILL_SECS

\* The round ended before the second after the one in which the deadline was set.
InTime == since < (deadline - Limit + 1) * TicksPerSec

DeadlineInv ==
  /\ Signalled => since \in Nat /\ since <= Now
  /\ pc \in {"reap", "harvested", "poll"} /\ Signalled => InTime
  /\ pc = "kill" \/ (pc = "sync" /\ left) => InTime /\ sec >= deadline

\* Only the signals, the deadline and the clock matter.
LEMMA NextKeepsDeadlines ==
  ASSUME TypeInv, TypeInv', RoundInv, DeadlineInv, [Next]_vars
  PROVE  DeadlineInv'
<1> USE DEF DeadlineInv, Signalled
<1>1. CASE ClockNext
  <2>1. Now' = Now + 1 /\ Now \in Nat /\ sec' >= sec /\ UNCHANGED pidOneVars
    BY <1>1, ATickLater, NowIsInThisSecond DEF ClockNext, Tick, TypeInv, TypeOK,
       KernelTypeOK
  <2>2. sec \in Nat /\ sec' \in Nat /\ deadline \in Nat
    BY DEF TypeInv, TypeOK, KernelTypeOK, PidOneTypeOK
  <2>3. InTime' = InTime /\ UNCHANGED <<pc, caller, left, since, deadline>>
    BY <2>1 DEF InTime, Limit, pidOneVars
  <2>4. Signalled => since <= Now'
    BY <2>1
  <2>5. sec >= deadline => sec' >= deadline
    BY <2>1, <2>2
  <2>6. QED
    BY <2>3, <2>4, <2>5
<1>2. CASE (KernelNext /\ UNCHANGED pidOneVars) \/ UNCHANGED vars
  <2>1. UNCHANGED <<sec, sub, pc, caller, left, since, deadline>>
    BY <1>2 DEF KernelNext, ShellQuits, JobQuits, Falls, Ends, OpensSession,
       BecomesShell, Stops, StartsJob, Collects, Asks, PressesCtrlAltDel, pidOneVars,
       vars, kernelVars
  <2>2. QED
    BY <2>1 DEF InTime, Limit, Now
<1>3. CASE Continue \/ Kill
  <2>1. /\ since' = Now /\ pc' = "arm" /\ UNCHANGED <<sec, sub>>
    BY <1>3 DEF Continue, Kill
  <2>2. Now' = Now /\ Now \in Nat
    BY <2>1, NowIsInThisSecond DEF Now, TypeInv
  <2>3. QED
    BY <2>1, <2>2
<1>4. CASE Arm
  <2>1. /\ pc = "arm" /\ pc' = "reap" /\ Signalled /\ caller' = caller
        /\ UNCHANGED <<sec, sub, since>> /\ deadline' = sec + Limit
    BY <1>4 DEF Arm, kernelVars, Limit, TypeInv, FlowOK
  <2>2. sec \in Nat /\ Limit \in Nat /\ TicksPerSec \in Nat
    BY KernelAssumption, PidOneAssumption DEF Limit, TypeInv, TypeOK, KernelTypeOK
  <2>3. deadline' - Limit' + 1 = sec + 1
    BY <2>1, <2>2 DEF Limit
  <2>4. since \in Nat /\ since <= Now /\ Now \in Nat
        /\ Now < (sec + 1) * TicksPerSec /\ (sec + 1) * TicksPerSec \in Int
    BY <2>1, <2>2, NowIsInThisSecond DEF TypeInv
  <2>5. since < (sec + 1) * TicksPerSec
    BY <2>4
  <2>6. InTime'
    BY <2>1, <2>3, <2>5 DEF InTime
  <2>7. Now' = Now
    BY <2>1 DEF Now
  <2>8. QED
    BY <2>1, <2>4, <2>6, <2>7
<1>5. CASE CheckSilence
  <2>1. /\ pc = "harvested" /\ Signalled
        /\ UNCHANGED <<sec, sub, caller, left, since, deadline>>
        /\ pc' \in {"sync", "kill"} /\ left => sec >= deadline
        /\ pc' = "kill" => sec >= deadline
        /\ pc' \in {"sync", "kill", "poll"}
    BY <1>5 DEF CheckSilence, kernelVars, AfterSilence, AfterTimeout
  <2>2. InTime' = InTime /\ Now' = Now
    BY <2>1 DEF InTime, Limit, Now
  <2>3. QED
    BY <2>1, <2>2
<1>6. CASE Begin
  <2>1. /\ caller = "stop" /\ (pc' = "sync" => ~left)
        /\ pc' \in {"sync", "hangup"} /\ UNCHANGED <<caller, left>>
    BY <1>6, Zenon DEF Begin, reapVars
  <2>2. QED
    BY <2>1
<1>7. CASE ReapDone \/ Poll \/ \E z \in Pid : ReapChild(z)
  <2>1. /\ pc \in {"reap", "poll"} /\ pc' \in {"reap", "harvested"}
        /\ UNCHANGED <<sec, sub, caller, since, deadline>>
    BY <1>7 DEF ReapDone, Poll, ReapChild, kernelVars
  <2>2. QED
    BY <2>1 DEF InTime, Limit, Now
<1>8. CASE \/ Park \/ Terminate \/ HandOver \/ HandOverRefused
           \/ \E l \in Pid : HangUp(l)
  <2>1. /\ pc' \in {"parked", "continue", "down", "park", "hangup"}
        /\ UNCHANGED <<sec, sub, caller, since>>
    BY <1>8 DEF Park, Terminate, HandOver, HandOverRefused, HangUp, kernelVars
  <2>2. QED
    BY <2>1 DEF Now
<1>9. CASE SuperviseNext
  <2>1. pc \in {"fork", "track", "loop", "wait", "harvested"} /\ action = "none"
    BY <1>9 DEF SuperviseNext, Fork, ForkFails, Track, Loop, WaitReturns,
       WaitTimesOut, WaitFails, Judge, TypeInv, FlowOK
  <2>2. ~Signalled
    BY <2>1, NotSignalledYet
  <2>3. caller' \in {caller, "supervise", "stop"} /\ pc' \notin {"kill", "sync"}
    BY <1>9 DEF SuperviseNext, Fork, ForkFails, Track, Loop, WaitReturns,
       WaitTimesOut, WaitFails, Judge, Survived, DiedEarly, ChildChanged, Reload,
       Shutdown
  <2>4. QED
    BY <2>2, <2>3
<1>10. QED
  BY <1>1, <1>2, <1>3, <1>4, <1>5, <1>6, <1>7, <1>8, <1>9
     DEF Next, PidOneNext, ShutdownNext

\* In every reachable state the deadline is where it should be.
THEOREM DeadlineInvHolds == Spec => []DeadlineInv
<1>1. Init => DeadlineInv
  BY DEF Init, PidOneInit, DeadlineInv, Signalled
<1>2. QED
  BY <1>1, NextKeepsDeadlines, TypeInvHolds, RoundInvHolds, PTL DEF Spec

\* A deadline in whole seconds loses less than one of them.
LEMMA LessThanASecondLost ==
  ASSUME TypeInv, InTime, sec >= deadline, since \in Nat
  PROVE  Now - since > (Limit - 1) * TicksPerSec
<1> DEFINE T == TicksPerSec
<1>1. /\ sec \in Nat /\ deadline \in Nat /\ Limit \in Nat /\ T \in Nat
    BY KernelAssumption, PidOneAssumption
       DEF Limit, TypeInv, TypeOK, KernelTypeOK, PidOneTypeOK
<1>2. Now \in Nat /\ sec * T <= Now
  BY NowIsInThisSecond DEF TypeInv
<1>3. (Limit - 1) * T + (deadline - Limit + 1) * T = deadline * T
  <2>1. deadline = (Limit - 1) + (deadline - Limit + 1)
    BY <1>1
  <2>2. QED
    BY <1>1, <2>1, Distributes
<1>4. deadline * T <= sec * T
  BY <1>1, MoreSecondsMoreTicks
<1>5. /\ (Limit - 1) * T \in Int /\ (deadline - Limit + 1) * T \in Int
      /\ deadline * T \in Int /\ sec * T \in Int
  BY <1>1
<1>6. since < (deadline - Limit + 1) * T
  BY DEF InTime
<1> HIDE DEF T
<1>7. Now - since > (Limit - 1) * T
  BY <1>2, <1>3, <1>4, <1>5, <1>6
<1>8. QED
  BY <1>7 DEF T

\* SIGKILL does not come before the grace period is over, nor the end before SIGKILL
\* had its time, but for the fraction of a second a deadline loses (DeadlinesHonoured).
THEOREM DeadlinesAreHonoured == Spec => []DeadlinesHonoured
<1>1. TypeInv /\ RoundInv /\ DeadlineInv => DeadlinesHonoured
  <2> SUFFICES ASSUME TypeInv, RoundInv, DeadlineInv
               PROVE  DeadlinesHonoured
    OBVIOUS
  <2>1. pc = "kill" => caller = "grace"
    BY DEF RoundInv, WayDown
  <2>2. pc = "sync" /\ left => caller = "afterkill"
    BY DEF RoundInv, WayDown
  <2>3. pc = "kill" \/ (pc = "sync" /\ left) =>
          Now - since > (Limit - 1) * TicksPerSec
    BY <2>1, <2>2, LessThanASecondLost DEF DeadlineInv, Signalled
  <2>4. QED
    BY <2>1, <2>2, <2>3 DEF DeadlinesHonoured, Limit
<1>2. QED
  BY <1>1, TypeInvHolds, RoundInvHolds, DeadlineInvHolds, PTL

-------------------------------------------------------------------------------
(***************************************************************************)
(* There is no way back.                                                   *)
(***************************************************************************)

LEMMA OrderIs ==
  /\ DOMAIN Order = {"stop", "hangup", "continue", "grace", "kill", "afterkill", "sync",
                      "park", "parked", "down"}
  /\ Order["stop"] = 1 /\ Order["hangup"] = 2 /\ Order["continue"] = 3
  /\ Order["grace"] = 4 /\ Order["kill"] = 5 /\ Order["afterkill"] = 6
  /\ Order["sync"] = 7 /\ Order["park"] = 8 /\ Order["parked"] = 9 /\ Order["down"] = 9
  /\ \A w \in DOMAIN Order : Order[w] \in Nat
  BY DEF Order

\* A pid 1 that was asked to go down is somewhere on the way.
LEMMA OnTheWay ==
  ASSUME TypeInv, action # "none"
  PROVE  /\ Where \in DOMAIN Order /\ Order[Where] \in Nat
         /\ pc \notin {"fork", "track", "loop", "wait"}
         /\ pc \in {"reap", "harvested"} => caller \in {"stop", "grace", "afterkill"}
<1>1. /\ pc \in Steps /\ caller \in Callers
      /\ pc \notin {"fork", "track", "loop", "wait"}
      /\ pc \in {"reap", "harvested"} => caller # "supervise"
      /\ pc \in {"arm", "poll"} => caller \in {"grace", "afterkill"}
  BY DEF TypeInv, TypeOK, PidOneTypeOK, FlowOK
<1>2. Where \in {"stop", "hangup", "continue", "grace", "kill", "afterkill", "sync",
                 "park", "parked", "down"}
  BY <1>1 DEF Where, Steps, Callers
<1>3. QED
  BY <1>1, <1>2, OrderIs DEF Callers

\* Going down goes forward (NoWayBack): nothing that arrives takes pid 1 back to
\* supervising, to a round of signals it has sent, or to a new deadline.
THEOREM OnlyForward == Spec => NoWayBack
<1> DEFINE Forward ==
      action # "none" =>
        /\ Where' \in DOMAIN Order /\ Order[Where] <= Order[Where']
        /\ Where' = Where /\ pc # "arm" => pc' # "arm" /\ deadline' = deadline
<1>1. ASSUME TypeInv, [Next]_vars
      PROVE  Forward
  <2> SUFFICES ASSUME action # "none"
               PROVE  /\ Where' \in DOMAIN Order /\ Order[Where] <= Order[Where']
                      /\ Where' = Where /\ pc # "arm" => pc' # "arm" /\ deadline' = deadline
    OBVIOUS
  <2>1. /\ Where \in DOMAIN Order /\ Order[Where] \in Nat
        /\ pc \notin {"fork", "track", "loop", "wait"}
        /\ pc \in {"reap", "harvested"} => caller \in {"stop", "grace", "afterkill"}
        /\ pc \in {"arm", "poll"} => caller \in {"grace", "afterkill"}
    BY <1>1, OnTheWay DEF TypeInv, FlowOK
  <2>2. CASE UNCHANGED <<pc, caller, deadline>>
    <3>1. Where' = Where
      BY <2>2 DEF Where
    <3>2. QED
      BY <2>1, <2>2, <3>1
  <2>3. CASE ReapDone \/ Poll
    <3>1. Where' = Where /\ pc # "arm" /\ pc' # "arm" /\ UNCHANGED deadline
      BY <2>3 DEF ReapDone, Poll, Where
    <3>2. QED
      BY <2>1, <3>1
  <2>4. CASE Park
    <3>1. Where = "park" /\ Where' = "parked"
      BY <2>4 DEF Park, Where
    <3>2. QED
      BY <3>1, OrderIs
  <2>5. CASE Begin
    <3>1. Where = "stop" /\ Where' \in {"hangup", "sync"}
      BY <2>5 DEF Begin, Where
    <3>2. QED
      BY <3>1, OrderIs
  <2>6. CASE Terminate
    <3>1. Where = "hangup" /\ Where' = "continue"
      BY <2>6 DEF Terminate, Where
    <3>2. QED
      BY <3>1, OrderIs
  <2>7. CASE Continue
    <3>1. Where = "continue" /\ Where' = "grace"
      BY <2>7 DEF Continue, Where
    <3>2. QED
      BY <3>1, OrderIs
  <2>8. CASE Kill
    <3>1. Where = "kill" /\ Where' = "afterkill"
      BY <2>8 DEF Kill, Where
    <3>2. QED
      BY <3>1, OrderIs
  <2>9. CASE Arm
    <3>1. Where' = Where /\ pc = "arm"
      BY <2>9 DEF Arm, Where
    <3>2. QED
      BY <2>1, <3>1
  <2>10. CASE CheckSilence
    <3>1. /\ pc = "harvested" /\ caller \in {"grace", "afterkill"} /\ UNCHANGED deadline
          /\ pc' # "arm" /\ Where = caller
          /\ \/ Where' = Where \/ Where' = "sync" \/ (caller = "grace" /\ Where' = "kill")
      BY <2>10 DEF CheckSilence, AfterSilence, AfterTimeout, Where
    <3>2. CASE Where' = Where
      BY <2>1, <3>1, <3>2
    <3>3. CASE Where' # Where
      BY <3>1, <3>3, OrderIs
    <3>4. QED
      BY <3>2, <3>3
  <2>11. CASE HandOver \/ HandOverRefused
    <3>1. Where = "sync" /\ Where' \in {"down", "park"}
      BY <2>11 DEF HandOver, HandOverRefused, Where
    <3>2. QED
      BY <3>1, OrderIs
  <2>12. CASE \/ \E p \in Pid : ReapChild(p) \/ HangUp(p)
              \/ ClockNext \/ UNCHANGED pidOneVars \/ UNCHANGED vars
    <3>1. UNCHANGED <<pc, caller, deadline>>
      BY <2>12 DEF ReapChild, HangUp, ClockNext, pidOneVars, vars
    <3>2. QED
      BY <2>2, <3>1
  <2>13. CASE SuperviseNext
    <3>1. pc \in {"fork", "track", "loop", "wait"} \/ (pc = "harvested" /\ caller = "supervise")
      BY <2>13 DEF SuperviseNext, Fork, ForkFails, Track, Loop, WaitReturns,
         WaitTimesOut, WaitFails, Judge
    <3>2. QED
      BY <2>1, <3>1
  <2>14. QED
    BY <1>1, <2>3, <2>4, <2>5, <2>6, <2>7, <2>8, <2>9, <2>10, <2>11, <2>12, <2>13
       DEF Next, PidOneNext, ShutdownNext
<1>2. QED
  BY <1>1, TypeInvHolds, PTL DEF Spec, NoWayBack

-------------------------------------------------------------------------------
(***************************************************************************)
(* Pid 1 keeps the promise of Lifecycle: the initial states of ZevInit are *)
(* initial states of it, and every step is one of its steps or a stutter.  *)
(***************************************************************************)

\* The shell and the processes of Lifecycle, as ZevInit maps them.
TheShell == IF LivingShells = {} THEN PID_ONE ELSE CHOOSE p \in LivingShells : TRUE
Killable == {p \in Pid : Alive(p) /\ kind[p] # "stuck"}

\* Pid 1 does not get past the first fork without forking.
StartedInv == lastFork = Never => pc \in {"fork", "park", "parked"}

THEOREM StartedInvHolds == Spec => []StartedInv
<1>1. Init => StartedInv
  BY DEF Init, PidOneInit, StartedInv
<1>2. TypeInv /\ StartedInv /\ [Next]_vars => StartedInv'
  <2> SUFFICES ASSUME TypeInv, StartedInv, [Next]_vars
               PROVE  StartedInv'
    OBVIOUS
  <2>1. CASE UNCHANGED pidOneVars
    BY <2>1 DEF pidOneVars, StartedInv
  <2>2. ASSUME NEW p \in Pid, Fork(p)
        PROVE  StartedInv'
    <3>1. lastFork' = Now /\ Now \in Nat
      BY <2>2, NowIsInThisSecond DEF Fork, TypeInv
    <3>2. QED
      BY <3>1 DEF StartedInv, Never
  <2>3. CASE Park \/ ForkFails \/ HandOverRefused
    BY <2>3 DEF Park, ForkFails, HandOverRefused, StartedInv
  <2>4. CASE pc \notin {"fork", "park", "parked"} /\ UNCHANGED lastFork
    BY <2>4 DEF StartedInv
  <2>5. CASE \/ Track \/ Loop \/ WaitReturns \/ WaitTimesOut \/ WaitFails \/ Judge
             \/ ReapDone \/ \E z \in Pid : ReapChild(z)
    BY <2>4, <2>5 DEF Track, Loop, WaitReturns, WaitTimesOut, WaitFails, Judge,
       ReapDone, ReapChild
  <2>6. CASE \/ Begin \/ Terminate \/ Continue \/ Kill \/ Arm \/ CheckSilence
             \/ Poll \/ HandOver \/ \E l \in Pid : HangUp(l)
    BY <2>4, <2>6 DEF Begin, Terminate, Continue, Kill, Arm, CheckSilence, Poll,
       HandOver, HangUp
  <2>7. QED
    BY <2>1, <2>2, <2>3, <2>5, <2>6
       DEF Next, PidOneNext, SuperviseNext, ShutdownNext, ClockNext, vars
<1>3. QED
  BY <1>1, <1>2, TypeInvHolds, PTL DEF Spec

-------------------------------------------------------------------------------
(***************************************************************************)
(* The mapping.                                                            *)
(***************************************************************************)

\* There is one living shell at most, so the choice is no choice.
LEMMA TheShellIsTheShell ==
  ASSUME TypeInv, ShellInv
  PROVE  /\ \A p \in LivingShells : TheShell = p /\ p \in Killable
         /\ TheShell \in LivingShells \cup {PID_ONE}
         /\ TheShell = PID_ONE <=> LivingShells = {}
<1>1. \A p, q \in Shells : p = q
  BY DEF TypeInv, FlowOK, ShellInv, OneRunning, RunningPids
<1>2. LivingShells # {} => TheShell \in LivingShells
  BY DEF TheShell
<1>3. LivingShells = {} => TheShell = PID_ONE
  BY DEF TheShell
<1>4. LivingShells \subseteq Shells /\ PID_ONE \notin LivingShells
  BY KernelAssumption DEF LivingShells, Shells
<1>5. \A p \in LivingShells : p \in Killable
  BY DEF LivingShells, Shells, Spawned, Killable
<1>6. QED
  BY <1>1, <1>2, <1>3, <1>4, <1>5

\* What a step does not touch it leaves alone in Lifecycle.
LEMMA Stutters ==
  ASSUME LivingShells' = LivingShells, Killable' = Killable, Phase' = Phase,
         UNCHANGED <<action, machine, cad>>
  PROVE  UNCHANGED L!vars
  BY DEF L!vars, Killable

LEMMA Works ==
  ASSUME TypeInv, ShellInv, TypeInv', LivingShells' = LivingShells, Phase' = Phase, Phase # "down",
         ShellInv', UNCHANGED <<action, machine, cad>>
  PROVE  L!Work
<1>1. TheShell' = TheShell
  BY DEF TheShell
<1>2. Killable' \in SUBSET Pid
  BY DEF Killable
<1>3. TheShell' \in Killable' \cup {PID_ONE}
  BY TheShellIsTheShell, <1>1 DEF LivingShells, Shells, Spawned, Killable
<1>4. QED
  BY <1>1, <1>2, <1>3 DEF L!Work, TheShell, Killable

-------------------------------------------------------------------------------
(***************************************************************************)
(* Every step is a step of Lifecycle, or none.                             *)
(***************************************************************************)

\* Where pid 1 is on its way does not change around it.
LEMMA PhaseStays ==
  ASSUME UNCHANGED <<machine, action, lastFork>>,
         pc = "parked" <=> pc' = "parked"
  PROVE  Phase' = Phase
  BY DEF Phase

\* A process ends: the shell, or somebody else.
LEMMA EndIsDeathOrWork ==
  ASSUME TypeInv, ShellInv, TypeInv', ShellInv', machine = "up", UNCHANGED pidOneVars,
         NEW p \in Pid, Alive(p), kind[p] # "stuck", Ends(p)
  PROVE  L!ShellDies \/ L!Work
<1>1. /\ UNCHANGED <<kind, machine, cad, action, lastFork, pc>>
      /\ \A q \in Pid : st'[q] = IF q = p THEN "zombie" ELSE st[q]
  BY DEF Ends, pidOneVars, TypeInv, TypeOK, KernelTypeOK
<1>2. Phase' = Phase /\ Phase # "down"
  BY <1>1, PhaseStays DEF Phase
<1>3. Killable' = Killable \ {p} /\ LivingShells' = LivingShells \ {p}
  BY <1>1 DEF Killable, LivingShells, Shells, Alive
<1>4. CASE p \in LivingShells
  <2>1. TheShell = p /\ LivingShells \ {p} = {}
    BY <1>4, TheShellIsTheShell
  <2>2. TheShell' = PID_ONE /\ p # PID_ONE
    BY <2>1, <1>3, KernelAssumption DEF TheShell
  <2>3. L!ShellDies
    BY <1>1, <1>2, <1>3, <2>1, <2>2 DEF L!ShellDies, TheShell, Killable
  <2>4. QED
    BY <2>3
<1>5. CASE p \notin LivingShells
  BY <1>1, <1>2, <1>3, <1>5, Works
<1>6. QED
  BY <1>4, <1>5

LEMMA KernelKeepsThePromise ==
  ASSUME TypeInv, ShellInv, TypeInv', ShellInv', KernelNext, UNCHANGED pidOneVars
  PROVE  [L!Next]_(L!vars)
<1>1. /\ machine = "up" /\ UNCHANGED <<action, lastFork, pc>>
      /\ PID_ONE \notin Pid
  BY KernelAssumption DEF KernelNext, pidOneVars
<1> USE DEF Alive, LivingShells, Shells, Spawned, Killable, TypeInv, TypeOK,
        KernelTypeOK
<1>2. ASSUME NEW p \in Pid, ShellQuits(p) \/ JobQuits(p) \/ Falls(p)
      PROVE  L!Next
  <2>1. Alive(p) /\ kind[p] # "stuck" /\ Ends(p)
    BY <1>2 DEF ShellQuits, JobQuits, Falls
  <2>2. QED
    BY <1>1, <2>1, EndIsDeathOrWork DEF L!Next
<1>3. ASSUME NEW p \in Pid, OpensSession(p) \/ BecomesShell(p) \/ Stops(p)
      PROVE  UNCHANGED L!vars
  <2>1. UNCHANGED <<machine, cad>> /\ LivingShells' = LivingShells
        /\ Killable' = Killable
    BY <1>3 DEF OpensSession, BecomesShell, Stops
  <2>2. QED
    BY <1>1, <2>1, PhaseStays, Stutters
<1>4. ASSUME NEW p \in Pid, NEW c \in Pid, NEW k \in JobKinds, StartsJob(p, c, k)
      PROVE  L!Next
  <2>1. UNCHANGED <<machine, cad>> /\ LivingShells' = LivingShells
    BY <1>4, KernelAssumption DEF StartsJob
  <2>2. Phase' = Phase /\ Phase # "down"
    BY <1>1, <2>1, PhaseStays DEF Phase
  <2>3. QED
    BY <1>1, <2>1, <2>2, Works DEF L!Next
<1>5. ASSUME NEW p \in Pid, NEW c \in Pid, Collects(p, c)
      PROVE  UNCHANGED L!vars
  <2>1. UNCHANGED <<machine, cad>> /\ LivingShells' = LivingShells
        /\ Killable' = Killable
    BY <1>5 DEF Collects
  <2>2. QED
    BY <1>1, <2>1, PhaseStays, Stutters
<1>6. ASSUME NEW s \in Requests, Asks(s)
      PROVE  UNCHANGED L!vars
  <2>1. UNCHANGED <<machine, cad, st, kind>>
    BY <1>6 DEF Asks
  <2>2. QED
    BY <1>1, <2>1, PhaseStays, Stutters
<1>7. CASE PressesCtrlAltDel
  <2>1. UNCHANGED <<cad, st, kind>>
    BY <1>7 DEF PressesCtrlAltDel
  <2>2. CASE machine' = machine
    BY <1>1, <2>1, <2>2, PhaseStays, Stutters
  <2>3. CASE cad = "kernel" /\ machine' = "reboot"
    <3>1. Phase # "down" /\ Phase' = "down"
      BY <1>1, <2>3 DEF Phase
    <3>2. TheShell' = TheShell /\ Killable' = Killable
      BY <2>1 DEF TheShell
    <3>3. L!Reset
      BY <1>1, <2>1, <2>3, <3>1, <3>2 DEF L!Reset, TheShell
    <3>4. QED
      BY <3>3 DEF L!Next
  <2>4. QED
    BY <1>7, <2>2, <2>3 DEF PressesCtrlAltDel
<1>8. QED
  BY <1>2, <1>3, <1>4, <1>5, <1>6, <1>7 DEF KernelNext

\* Most of what pid 1 does nobody sees from outside.
LEMMA InsideIsInvisible ==
  ASSUME TypeInv, StartedInv, machine = "up",
         \/ ReapDone \/ \E z \in Pid : ReapChild(z)
         \/ ForkFails \/ Track \/ Loop \/ WaitTimesOut \/ WaitFails \/ Judge
         \/ Begin \/ Terminate \/ Continue \/ Kill \/ Arm \/ CheckSilence \/ Poll
         \/ HandOverRefused \/ \E l \in Pid : HangUp(l)
  PROVE  UNCHANGED L!vars
<1> USE DEF Alive, LivingShells, Shells, Spawned, Killable, TypeInv, TypeOK,
        KernelTypeOK
<1>1. ASSUME UNCHANGED <<action, machine, cad, lastFork>>,
             pc # "parked", pc' # "parked",
             \A p \in Pid : Alive(p)' <=> Alive(p),
             \A p \in Pid : Alive(p) => kind'[p] = kind[p]
      PROVE  UNCHANGED L!vars
  <2>1. LivingShells' = LivingShells /\ Killable' = Killable
    BY <1>1
  <2>2. QED
    BY <1>1, <2>1, PhaseStays, Stutters
<1>2. ASSUME NEW z \in Pid, ReapChild(z)
      PROVE  UNCHANGED L!vars
  BY <1>1, <1>2 DEF ReapChild, reap_one, Zombies
<1>3. CASE \/ ReapDone \/ ForkFails \/ Track \/ Loop \/ WaitTimesOut \/ WaitFails
           \/ Judge
  BY <1>1, <1>3 DEF ReapDone, ForkFails, Track, Loop, WaitTimesOut, WaitFails, Judge,
     Survived, DiedEarly, kernelVars
<1>4. CASE Begin \/ Arm \/ CheckSilence \/ Poll \/ HandOverRefused
  BY <1>1, <1>4 DEF Begin, Arm, CheckSilence, Poll, HandOverRefused, AfterSilence,
     AfterTimeout, kernelVars
<1>5. CASE Terminate \/ \E l \in Pid : HangUp(l)
  BY <1>1, <1>5 DEF Terminate, HangUp, terminate_everyone, hang_up
<1>6. CASE Continue \/ Kill
  BY <1>1, <1>6 DEF Continue, Kill, continue_everyone, kill_everyone, Resumed
<1>7. QED
  BY <1>2, <1>3, <1>4, <1>5, <1>6

\* A fork is the start of a shell where there is none.
LEMMA ForkStarts ==
  ASSUME TypeInv, ShellInv, machine = "up", NEW p \in Pid, Fork(p), TypeInv', ShellInv'
  PROVE  L!Start(p)
<1>1. /\ pc = "fork" /\ pc' = "track" /\ action = "none" /\ newpid = PID_ONE
      /\ lastFork' = Now /\ Now \in Nat
      /\ UNCHANGED <<machine, cad, action>>
  BY NowIsInThisSecond DEF Fork, TypeInv, FlowOK
<1>2. Phase \in {"booting", "up"} /\ Phase' = "up"
  BY <1>1 DEF Phase, Never
<1>3. Shells = {}
  BY <1>1 DEF ShellInv, OneRunning, RunningPids
<1>4. LivingShells = {} /\ LivingShells' = {p} /\ p \notin Killable
      /\ Killable' = Killable \cup {p}
  BY <1>3 DEF Fork, fork, LivingShells, Shells, Killable, Alive, Spawned, TypeInv,
     TypeOK, KernelTypeOK
<1>5. TheShell = PID_ONE /\ TheShell' = p
  BY <1>4 DEF TheShell
<1>6. QED
  BY <1>1, <1>2, <1>4, <1>5 DEF L!Start, TheShell, Killable

LEMMA PidOneKeepsThePromise ==
  ASSUME TypeInv, ShellInv, StartedInv, OnlyTheUnkillableRemain, TypeInv', ShellInv',
         PidOneNext
  PROVE  [L!Next]_(L!vars)
<1>1. machine = "up"
  BY DEF PidOneNext
<1>2. ASSUME NEW p \in Pid, Fork(p)
      PROVE  L!Next
  BY <1>1, <1>2, ForkStarts DEF L!Next
<1>3. CASE WaitReturns
  <2>1. /\ pc = "wait" /\ action = "none" /\ lastFork # Never
        /\ UNCHANGED <<st, kind, machine, cad, lastFork>>
        /\ pc' # "parked" /\ (action' = "none" \/ action' \in Actions)
    BY <1>3 DEF WaitReturns, ChildChanged, Reload, Shutdown, TypeInv, FlowOK, StartedInv
  <2>2. TheShell' = TheShell /\ Killable' = Killable /\ LivingShells' = LivingShells
    BY <2>1 DEF TheShell, Killable, LivingShells, Shells, Alive
  <2>3. CASE action' = "none"
    BY <2>1, <2>2, <2>3, PhaseStays, Stutters
  <2>4. CASE action' \in Actions
    <3>1. Phase = "up" /\ Phase' = "stopping"
      BY <1>1, <2>1, <2>4 DEF Phase, Actions
    <3>2. L!Obey(action')
      BY <2>1, <2>2, <3>1 DEF L!Obey, TheShell, Killable
    <3>3. QED
      BY <2>4, <3>2 DEF L!Next
  <2>5. QED
    BY <2>1, <2>3, <2>4
<1>4. CASE Park
  <2>1. /\ pc = "park" /\ pc' = "parked"
        /\ UNCHANGED <<st, kind, machine, action>>
        /\ cad' \in {"kernel"} \cup (IF "cad" \in Faults THEN {cad} ELSE {})
    BY <1>4 DEF Park
  <2>2. Phase \in {"booting", "up", "stopping"} /\ Phase' = "parked"
    BY <1>1, <2>1 DEF Phase
  <2>3. TheShell' = TheShell /\ Killable' = Killable
    BY <2>1 DEF TheShell, Killable, LivingShells, Shells, Alive
  <2>4. cad' = "kernel" \/ ("cad" \in Faults /\ cad' = cad)
    BY <2>1
  <2>5. L!GiveUp
    BY <2>1, <2>2, <2>3, <2>4 DEF L!GiveUp, TheShell, Killable
  <2>6. QED
    BY <2>5 DEF L!Next
<1>5. CASE HandOver
  <2>1. /\ pc = "sync" /\ action \in Actions /\ machine' = action
        /\ UNCHANGED <<st, kind, cad, action>>
    BY <1>5 DEF HandOver, TypeInv, FlowOK
  <2>2. Phase = "stopping" /\ Phase' = "down"
    BY <1>1, <2>1 DEF Phase, Actions
  <2>3. Killable = {} /\ Killable' = {}
    BY <2>1 DEF Killable, OnlyTheUnkillableRemain, Alive
  <2>4. TheShell' = TheShell
    BY <2>1 DEF TheShell, LivingShells, Shells, Alive
  <2>5. L!GoDown
    BY <2>1, <2>2, <2>3, <2>4 DEF L!GoDown, TheShell, Killable
  <2>6. QED
    BY <2>5 DEF L!Next
<1>6. QED
  BY <1>1, <1>2, <1>3, <1>4, <1>5, InsideIsInvisible
     DEF PidOneNext, SuperviseNext, ShutdownNext

\* Pid 1 keeps its promise (ImplementsLifecycle): every behaviour of main(),
\* supervise() and power::execute(), whatever goes on around them, is a behaviour
\* of Lifecycle.
THEOREM PromiseIsKept == Spec => ImplementsLifecycle
<1>1. TypeInv /\ ShellInv /\ Init => L!Init
  <2> SUFFICES ASSUME TypeInv, ShellInv, Init
               PROVE  L!Init
    OBVIOUS
  <2>1. \A p \in Pid : ~Alive(p)
    BY DEF Init, KernelInit, Alive
  <2>2. LivingShells = {} /\ Killable = {}
    BY <2>1 DEF LivingShells, Shells, Killable
  <2>3. /\ Phase = "booting" /\ action = "none" /\ machine = "up"
        /\ cad \in {"kernel", "pid1"}
    BY DEF Init, KernelInit, PidOneInit, Phase, Never
  <2>4. QED
    BY <2>2, <2>3 DEF L!Init, Killable
<1>2. ASSUME TypeInv, ShellInv, StartedInv, OnlyTheUnkillableRemain, TypeInv', ShellInv',
             [Next]_vars
      PROVE  [L!Next]_(L!vars)
  <2>1. CASE PidOneNext
    BY <1>2, <2>1, PidOneKeepsThePromise
  <2>2. CASE KernelNext /\ UNCHANGED pidOneVars
    BY <1>2, <2>2, KernelKeepsThePromise
  <2>3. CASE ClockNext \/ UNCHANGED vars
    <3>1. UNCHANGED <<st, kind, machine, cad, action, lastFork, pc>>
      BY <2>3 DEF ClockNext, Tick, vars, kernelVars, pidOneVars
    <3>2. LivingShells' = LivingShells /\ Killable' = Killable
      BY <3>1 DEF LivingShells, Shells, Killable, Alive
    <3>3. QED
      BY <3>1, <3>2, PhaseStays, Stutters
  <2>4. QED
    BY <1>2, <2>1, <2>2, <2>3 DEF Next
<1>3. QED
  BY <1>1, <1>2, TypeInvHolds, ShellInvHolds, StartedInvHolds, UnkillableRemain, PTL
     DEF Spec, ImplementsLifecycle, L!Spec

===============================================================================
