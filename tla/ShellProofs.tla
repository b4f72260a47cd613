------------------------------ MODULE ShellProofs ------------------------------
(***************************************************************************)
(* Theorems about the supervised shell: there is one at most, the table    *)
(* knows it, pid 1 never waits for ever without one, and every death of    *)
(* one is judged once.                                                     *)
(***************************************************************************)
EXTENDS ZevInitProofs, Encodings, FiniteSetTheorems

-------------------------------------------------------------------------------
(***************************************************************************)
(* The shell in the kernel and in the table.                               *)
(***************************************************************************)

RunningPids == {e.pid : e \in Running(table)}

\* What the kernel knows of shells.
ForkedByPidOne ==
  /\ \A p \in Pid : st[p] = "free" => kind[p] = "job"
  /\ \A p \in Shells : parent[p] = PID_ONE

\* What the table knows of them, and where in the loop there can be none.
OneRunning ==
  /\ \A e, f \in Running(table) : e = f
  /\ pc \in {"fork", "track"} => Running(table) = {}
  /\ pc = "wait" /\ ~idle => Running(table) # {}

ShellInv ==
  /\ ForkedByPidOne
  /\ OneRunning
  /\ Shells = RunningPids \cup ({newpid} \ {PID_ONE})

\* The entry of the child that is reaped stops running, and no other does.
LEMMA RunningAfterExit ==
  ASSUME NEW t \in SUBSET EntryType(Pid), NEW z \in Pid
  PROVE  Running(record_exit(t, z)) = Running(t) \ Found(t, z)
<1>1. ASSUME NEW e \in EntryType(Pid)
      PROVE  [e EXCEPT !.state = "Gone"].state = "Gone"
  BY <1>1 DEF EntryType
<1>2. Found(t, z) \subseteq EntryType(Pid)
  BY DEF Found, Running
<1>3. QED
  BY <1>1, <1>2 DEF record_exit, Running, Found

\* A shell becomes a leader, an interactive shell and a zombie, and nothing else
\* becomes a shell, without pid 1.
LEMMA KernelKeepsShells ==
  ASSUME TypeInv, ShellInv, KernelNext
  PROVE  ForkedByPidOne' /\ Shells' = Shells
<1> USE KernelAssumption
    DEF ShellInv, ForkedByPidOne, Shells, Spawned, TypeInv, TypeOK, KernelTypeOK
<1>1. ASSUME NEW p \in Pid, Exists(p), Ends(p)
      PROVE  ForkedByPidOne' /\ Shells' = Shells
  BY <1>1 DEF Ends, Exists
<1>2. ASSUME NEW p \in Pid, ShellQuits(p) \/ JobQuits(p) \/ Falls(p)
      PROVE  ForkedByPidOne' /\ Shells' = Shells
  BY <1>1, <1>2 DEF ShellQuits, JobQuits, Falls, Exists
<1>3. ASSUME NEW p \in Pid, OpensSession(p) \/ BecomesShell(p) \/ Stops(p)
      PROVE  ForkedByPidOne' /\ Shells' = Shells
  BY <1>3 DEF OpensSession, BecomesShell, Stops
<1>4. ASSUME NEW p \in Pid, NEW c \in Pid, NEW k \in JobKinds, StartsJob(p, c, k)
      PROVE  ForkedByPidOne' /\ Shells' = Shells
  BY <1>4 DEF StartsJob
<1>5. ASSUME NEW p \in Pid, NEW c \in Pid, Collects(p, c)
      PROVE  ForkedByPidOne' /\ Shells' = Shells
  BY <1>5 DEF Collects
<1>6. ASSUME NEW s \in Requests, Asks(s)
      PROVE  UNCHANGED <<st, parent, kind>>
  BY <1>6 DEF Asks, procVars
<1>7. CASE PressesCtrlAltDel
  BY <1>7 DEF PressesCtrlAltDel, procVars
<1>8. QED
  BY <1>2, <1>3, <1>4, <1>5, <1>6, <1>7 DEF KernelNext

\* Pid 1 enters what it forks in the table and takes out what it reaps.
LEMMA PidOneKeepsShells ==
  ASSUME TypeInv, ShellInv, PidOneNext
  PROVE  ShellInv'
<1> USE KernelAssumption
    DEF Goto, CallReapAll, elsewhere, clockVars, procVars, controlVars,
        superviseVars, reapVars, shutdownVars, historyVars, kernelVars,
        ShellInv, ForkedByPidOne, Shells, OneRunning, RunningPids,
        TypeInv, TypeOK, KernelTypeOK
<1>1. ASSUME NEW z \in Pid, ReapChild(z)
      PROVE  ShellInv'
  <2>1. Running(table') = Running(table) \ Found(table, z)
    BY <1>1, RunningAfterExit DEF ReapChild, PidOneTypeOK
  <2>2. Shells' = Shells \ {z} /\ ForkedByPidOne'
    BY <1>1 DEF ReapChild, reap_one, Spawned, Zombies, Children
  <2>3. newpid = PID_ONE /\ newpid' = PID_ONE /\ pc' = "reap"
    BY <1>1 DEF ReapChild, FlowOK
  <2>4. RunningPids' = RunningPids \ {z}
    BY <2>1 DEF Found
  <2>5. QED
    BY <2>1, <2>2, <2>3, <2>4
<1>2. ASSUME NEW p \in Pid, Fork(p)
      PROVE  ShellInv'
  <2>1. Shells' = Shells \cup {p} /\ ForkedByPidOne'
    BY <1>2 DEF Fork, fork, Spawned
  <2>2. newpid = PID_ONE /\ newpid' = p /\ pc = "fork" /\ pc' = "track"
        /\ table' = table
    BY <1>2 DEF Fork, FlowOK
  <2>3. QED
    BY <2>1, <2>2
<1>3. CASE Track
  <2>1. /\ newpid \in Pid /\ newpid' = PID_ONE
        /\ table' = table \cup {Entry(newpid, sec, TRUE)}
        /\ Running(table) = {}
        /\ UNCHANGED <<st, parent, kind, idle>>
    BY <1>3 DEF Track, track, FlowOK
  <2>2. Running(table') = {Entry(newpid, sec, TRUE)}
    BY <2>1 DEF Running, Entry
  <2>3. Entry(newpid, sec, TRUE).pid = newpid
    BY DEF Entry
  <2>4. pc' \in {"wait", "loop"}
    BY <1>3 DEF Track
  <2>5. OneRunning'
    BY <2>2, <2>4
  <2>6. RunningPids' = {newpid}
    <3>1. RunningPids' = {e.pid : e \in {Entry(newpid, sec, TRUE)}}
      BY <2>2, Zenon
    <3>2. QED
      BY <2>3, <3>1
  <2>7. Shells = {newpid}
    <3>1. RunningPids = {}
      BY <2>1
    <3>2. {newpid} \ {PID_ONE} = {newpid}
      BY <2>1
    <3>3. Shells = RunningPids \cup ({newpid} \ {PID_ONE})
      BY Zenon DEF ShellInv
    <3>4. QED
      BY <3>1, <3>2, <3>3
  <2>8. Shells' = Shells /\ ForkedByPidOne'
    BY <2>1
  <2>9. Shells' = RunningPids' \cup ({newpid'} \ {PID_ONE})
    <3>1. {newpid'} \ {PID_ONE} = {}
      BY <2>1
    <3>2. QED
      BY <2>6, <2>7, <2>8, <3>1, Zenon
  <2>10. QED
    BY <2>5, <2>8, <2>9, Zenon
<1>4. CASE Loop
  <2>1. /\ pc' = "wait" /\ ~idle' => Running(table) # {}
        /\ pc' = "fork" => Running(table) = {}
        /\ pc' \in {"wait", "fork"}
    BY <1>4, Zenon DEF Loop
  <2>2. UNCHANGED <<st, parent, kind, table, newpid>>
    BY <1>4 DEF Loop
  <2>3. QED
    BY <2>1, <2>2
<1>5. CASE ReapDone
  <2>1. Running(table') = Running(table)
    BY <1>5 DEF ReapDone, forget_finished, Running
  <2>2. UNCHANGED <<st, parent, kind, newpid>> /\ pc' = "harvested"
    BY <1>5 DEF ReapDone
  <2>3. QED
    BY <2>1, <2>2
<1>6. ASSUME UNCHANGED <<kind, parent, table, newpid>>,
             pc' \notin {"fork", "track", "wait"},
             \A p \in Pid : st'[p] = "free" => st[p] = "free"
      PROVE  ShellInv'
  BY <1>6
<1>7. CASE Park \/ ForkFails \/ WaitReturns \/ WaitTimesOut \/ WaitFails \/ Judge
  BY <1>6, <1>7 DEF Park, ForkFails, WaitReturns, WaitTimesOut, WaitFails, Judge,
     ChildChanged, Reload, Shutdown, Survived, DiedEarly
<1>8. ASSUME NEW l \in Pid, HangUp(l)
      PROVE  ShellInv'
  BY <1>6, <1>8 DEF HangUp, hang_up
<1>9. CASE Begin \/ Terminate \/ Arm \/ CheckSilence \/ Poll \/ HandOver
           \/ HandOverRefused
  BY <1>6, <1>9 DEF Begin, Terminate, Arm, CheckSilence, Poll, HandOver,
     HandOverRefused, terminate_everyone, AfterSilence, AfterTimeout
<1>10. CASE Continue \/ Kill
  BY <1>6, <1>10 DEF Continue, Kill, continue_everyone, kill_everyone, Resumed
<1>11. QED
  BY <1>1, <1>2, <1>3, <1>4, <1>5, <1>7, <1>8, <1>9, <1>10
     DEF PidOneNext, SuperviseNext, ShutdownNext

\* In every reachable state the shells are what the table says, and there is no
\* second one.
THEOREM ShellInvHolds == Spec => []ShellInv
<1>1. Init => ShellInv
  BY DEF Init, KernelInit, PidOneInit, ShellInv, ForkedByPidOne, OneRunning,
     RunningPids, Running, Shells, Spawned
<1>2. TypeInv /\ ShellInv /\ [Next]_vars => ShellInv'
  <2> SUFFICES ASSUME TypeInv, ShellInv, [Next]_vars
               PROVE  ShellInv'
    OBVIOUS
  <2>1. CASE PidOneNext
    BY <2>1, PidOneKeepsShells
  <2>2. CASE ClockNext \/ UNCHANGED vars
    BY <2>2 DEF ClockNext, Tick, vars, procVars, kernelVars, pidOneVars, controlVars,
       superviseVars, reapVars, ShellInv, ForkedByPidOne, OneRunning, RunningPids,
       Shells
  <2>3. CASE KernelNext /\ UNCHANGED pidOneVars
    BY <2>3, KernelKeepsShells DEF pidOneVars, controlVars, superviseVars, reapVars,
       ShellInv, OneRunning, RunningPids
  <2>4. QED
    BY <2>1, <2>2, <2>3 DEF Next
<1>3. QED
  BY <1>1, <1>2, TypeInvHolds, PTL DEF Spec

\* There is never a second shell (AtMostOneShell).
THEOREM OneShellOnly == Spec => []AtMostOneShell
<1>1. TypeInv /\ ShellInv => AtMostOneShell
  <2> SUFFICES ASSUME TypeInv, ShellInv
               PROVE  AtMostOneShell
    OBVIOUS
  <2> USE DEF AtMostOneShell
  <2>1. CASE Shells = {}
    BY <2>1, FS_EmptySet
  <2>2. CASE Shells # {}
    <3>1. PICK p \in Shells : TRUE
      BY <2>2
    <3>2. newpid # PID_ONE => Running(table) = {}
      BY DEF TypeInv, FlowOK, ShellInv, OneRunning
    <3>3. \A q \in Shells : q = p
      BY <3>1, <3>2 DEF ShellInv, OneRunning, RunningPids
    <3>4. Shells = {p}
      BY <3>1, <3>3
    <3>5. QED
      BY <3>4, FS_Singleton
  <2>3. QED
    BY <2>1, <2>2
<1>2. QED
  BY <1>1, TypeInvHolds, ShellInvHolds, PTL

\* The table claims no child it does not have and misses no shell
\* (TableMatchesKernel).
THEOREM TableIsRight == Spec => []TableMatchesKernel
<1>1. TypeInv /\ ShellInv => TableMatchesKernel
  BY DEF TypeInv, TypeOK, PidOneTypeOK, EntryType, ShellInv, ForkedByPidOne,
     RunningPids, Running, Shells, Spawned, Exists, TableMatchesKernel
<1>2. QED
  BY <1>1, TypeInvHolds, ShellInvHolds, PTL

\* Pid 1 never waits for ever while no shell is alive (NoSilentDeath): when it
\* waits without a timeout the table has an entry, so there is a shell, and a dead
\* one would have left a SIGCHLD.
THEOREM NoDeathIsSilent == Spec => []NoSilentDeath
<1>1. TypeInv /\ ShellInv /\ NoLostChild => NoSilentDeath
  <2> SUFFICES ASSUME TypeInv, ShellInv, NoLostChild,
                      pc = "wait", ~idle, pend = {}
               PROVE  \E p \in Shells : Alive(p)
    BY DEF NoSilentDeath
  <2>1. Running(table) # {}
    BY DEF ShellInv, OneRunning
  <2>2. PICK p \in Shells : TRUE
    BY <2>1 DEF ShellInv, RunningPids
  <2>3. p \in Pid /\ parent[p] = PID_ONE /\ Exists(p)
    BY <2>2 DEF ShellInv, ForkedByPidOne, Shells, Spawned, Exists
  <2>4. p \notin Zombies
    BY DEF NoLostChild
  <2>5. Alive(p)
    BY <2>3, <2>4 DEF Zombies, Children, Exists, Alive, TypeInv, TypeOK, KernelTypeOK
  <2>6. QED
    BY <2>2, <2>5
<1>2. QED
  BY <1>1, TypeInvHolds, ShellInvHolds, ChildrenNeverLost, PTL

-------------------------------------------------------------------------------
(***************************************************************************)
(* Strikes.  Every shell that was started and not forgiven is one of       *)
(* three: alive in the kernel and on its way to the table, running in the  *)
(* table, or reaped with its life in shortest; or else it has become a     *)
(* strike.  There is one shell at most, so no two lives are ever merged    *)
(* in one harvest.                                                         *)
(***************************************************************************)

Patient ==
  /\ attempts = rescue.strikes + Outstanding
  /\ rescue.strikes < STRIKES_BEFORE_MOVING_ON
  /\ rescue.at < usable

JudgeInv ==
  /\ Running(table) # {} => shortest = NoLife
  /\ action = "none" /\ pc \notin {"reap", "harvested"} => shortest = NoLife
  /\ action = "none" /\ pc \notin {"park", "parked"} => Patient

\* What each verdict says of the strikes.
LEMMA VerdictMeans ==
  ASSUME NEW r \in [at : Nat, strikes : Nat], NEW n \in Nat
  PROVE  /\ verdict(r, n) \in {"KeepTrying", "MovedOn", "OutOfOptions"}
         /\ verdict(r, n) = "KeepTrying" => r.strikes + 1 < STRIKES_BEFORE_MOVING_ON
         /\ verdict(r, n) = "MovedOn" => r.at + 1 < n
         /\ verdict(r, n) # "KeepTrying" =>
              ~(r.strikes + 1 < STRIKES_BEFORE_MOVING_ON)
<1> DEFINE again == r.strikes + 1 < STRIKES_BEFORE_MOVING_ON
           spent == r.strikes + 1 >= STRIKES_BEFORE_MOVING_ON
           more  == r.at + 1 < n
<1>1. verdict(r, n) = CASE again -> "KeepTrying"
                        [] spent /\ more -> "MovedOn"
                        [] OTHER -> "OutOfOptions"
  BY Zenon DEF verdict
<1>2. ~(again /\ spent)
  BY StrikesAssumption
<1> HIDE DEF again, spent, more
<1>3. CASE again
  <2>1. verdict(r, n) = "KeepTrying"
    BY Zenon, <1>1, <1>2, <1>3
  <2>2. QED
    BY <2>1, <1>3 DEF again
<1>4. CASE ~again /\ spent /\ more
  <2>1. verdict(r, n) = "MovedOn"
    BY Zenon, <1>1, <1>4
  <2>2. QED
    BY <2>1, <1>4 DEF again, more
<1>5. CASE ~again /\ ~(spent /\ more)
  <2>1. verdict(r, n) = "OutOfOptions"
    BY Zenon, <1>1, <1>5
  <2>2. QED
    BY <2>1, <1>5 DEF again
<1>6. QED
  BY <1>3, <1>4, <1>5

\* Judging a harvest turns the life in it into a strike, or forgives.
LEMMA JudgeKeepsJudgeInv ==
  ASSUME TypeInv, ShellInv, JudgeInv, Judge
  PROVE  JudgeInv'
<1> USE PidOneAssumption, StrikesAssumption
<1>1. /\ pc = "harvested" /\ action = "none" /\ action' = "none"
      /\ newpid = PID_ONE /\ newpid' = PID_ONE
      /\ table' = table /\ usable' = usable /\ shortest' = NoLife
      /\ rescue \in [at : Nat, strikes : Nat] /\ usable \in Nat
      /\ shortest \in Nat \cup {NoLife} /\ Patient
  <2>1. /\ pc = "harvested" /\ caller = "supervise" /\ shortest' = NoLife
        /\ UNCHANGED <<usable, table, newpid, action>>
    BY DEF Judge, shutdownVars
  <2>2. action = "none" /\ newpid = PID_ONE
    BY <2>1 DEF TypeInv, FlowOK
  <2>3. Patient
    BY <2>1, <2>2 DEF JudgeInv
  <2>4. /\ rescue \in [at : Nat, strikes : Nat] /\ usable \in Nat
        /\ shortest \in Nat \cup {NoLife}
    BY DEF TypeInv, TypeOK, PidOneTypeOK
  <2>5. QED
    BY <2>1, <2>2, <2>3, <2>4
<1>2. CASE shortest = NoLife
  <2>1. pc' = "loop" /\ UNCHANGED <<rescue, attempts>>
    BY <1>2 DEF Judge, Survived, DiedEarly, NoLife
  <2>2. Outstanding' = Outstanding
    BY <1>1, <1>2 DEF Outstanding
  <2>3. QED
    BY <1>1, <2>1, <2>2 DEF JudgeInv, Patient
<1>3. CASE shortest # NoLife
  <2>1. Running(table) = {}
    BY <1>3 DEF JudgeInv
  <2>2. Outstanding = 1 /\ Outstanding' = 0
    BY <1>1, <1>3, <2>1 DEF Outstanding
  <2>3. attempts = rescue.strikes + 1
    BY <1>1, <2>2 DEF Patient
  <2>4. CASE Survived
    <3>1. rescue' = [at |-> rescue.at, strikes |-> 0] /\ attempts' = 0
      BY <1>1, <2>4, RescueTyped DEF Survived
    <3>2. QED
      BY <1>1, <2>1, <2>2, <3>1 DEF JudgeInv, Patient
  <2>5. CASE DiedEarly
    <3>1. /\ rescue' = failed(rescue, usable)
          /\ attempts' = IF verdict(rescue, usable) = "MovedOn" THEN 0 ELSE attempts
          /\ pc' = IF verdict(rescue, usable) = "OutOfOptions" THEN "park" ELSE "loop"
      BY <2>5 DEF DiedEarly
    <3>2. CASE verdict(rescue, usable) = "MovedOn"
      <4>1. rescue' = [at |-> rescue.at + 1, strikes |-> 0] /\ attempts' = 0
        BY <1>1, <3>1, <3>2, RescueTyped
      <4>2. rescue.at + 1 < usable
        BY <1>1, <3>2, VerdictMeans
      <4>3. QED
        BY <1>1, <2>1, <2>2, <4>1, <4>2 DEF JudgeInv, Patient
    <3>3. CASE verdict(rescue, usable) = "KeepTrying"
      <4>1. rescue' = [at |-> rescue.at, strikes |-> rescue.strikes + 1]
            /\ attempts' = attempts
        BY <1>1, <3>1, <3>3, RescueTyped
      <4>2. rescue.strikes + 1 < STRIKES_BEFORE_MOVING_ON
        BY <1>1, <3>3, VerdictMeans
      <4>3. QED
        BY <1>1, <2>1, <2>2, <2>3, <4>1, <4>2 DEF JudgeInv, Patient
    <3>4. CASE verdict(rescue, usable) = "OutOfOptions"
      BY <1>1, <2>1, <3>1, <3>4 DEF JudgeInv
    <3>5. QED
      BY <1>1, <3>2, <3>3, <3>4, VerdictMeans
  <2>6. QED
    BY <1>3, <2>4, <2>5 DEF Judge
<1>4. QED
  BY <1>2, <1>3

\* The steps of pid 1 keep the count.
LEMMA PidOneKeepsJudgeInv ==
  ASSUME TypeInv, ShellInv, JudgeInv, PidOneNext
  PROVE  JudgeInv'
<1> USE KernelAssumption
    DEF Goto, CallReapAll, elsewhere, controlVars, superviseVars, reapVars,
        shutdownVars, historyVars
<1>1. ASSUME NEW z \in Pid, ReapChild(z)
      PROVE  JudgeInv'
  <2>1. Running(table') = Running(table) \ Found(table, z)
    BY <1>1, RunningAfterExit DEF ReapChild, TypeInv, TypeOK, PidOneTypeOK
  <2>2. /\ pc = "reap" /\ pc' = "reap"
        /\ UNCHANGED <<action, newpid, attempts, rescue, usable>>
    BY <1>1 DEF ReapChild
  <2>3. CASE Found(table, z) = {}
    <3>1. Running(table') = Running(table) /\ shortest' = shortest
      BY <1>1, <2>1, <2>3 DEF ReapChild
    <3>2. Outstanding' = Outstanding
      BY <2>2, <3>1 DEF Outstanding
    <3>3. QED
      BY <2>2, <3>1, <3>2 DEF JudgeInv, Patient
  <2>4. CASE Found(table, z) # {}
    <3>1. Running(table) # {} /\ Running(table') = {}
      BY <2>1, <2>4 DEF ShellInv, OneRunning, Found
    <3>2. PICK e \in Found(table, z) : shortest' = Shorter(ran_for(e, sec))
      BY <1>1, <2>4 DEF ReapChild
    <3>3. ran_for(e, sec) \in Nat
      BY DEF ran_for, Found, Running, TypeInv, TypeOK, KernelTypeOK, PidOneTypeOK,
         EntryType
    <3>4. shortest' \in Nat
      BY <3>1, <3>2, <3>3 DEF Shorter, JudgeInv
    <3>5. Outstanding = 1 /\ Outstanding' = 1
      BY <3>1, <3>4 DEF Outstanding, NoLife
    <3>6. QED
      BY <2>2, <3>1, <3>5 DEF JudgeInv, Patient
  <2>5. QED
    BY <2>3, <2>4
<1>2. ASSUME NEW p \in Pid, Fork(p)
      PROVE  JudgeInv'
  <2>1. /\ pc = "fork" /\ pc' = "track" /\ newpid = PID_ONE /\ newpid' = p
        /\ action = "none" /\ attempts' = attempts + 1
        /\ UNCHANGED <<table, shortest, rescue, usable, action>>
    BY <1>2 DEF Fork, TypeInv, FlowOK
  <2>2. Running(table) = {} /\ shortest = NoLife
    BY <2>1 DEF ShellInv, OneRunning, JudgeInv
  <2>3. Outstanding = 0 /\ Outstanding' = 1
    BY <2>1, <2>2 DEF Outstanding
  <2>4. Patient /\ rescue.strikes \in Nat
    BY <2>1 DEF JudgeInv, TypeInv, TypeOK, PidOneTypeOK
  <2>5. QED
    BY <2>1, <2>2, <2>3, <2>4 DEF JudgeInv, Patient
<1>3. CASE Track
  <2>1. /\ pc = "track" /\ pc' \in {"wait", "loop"}
        /\ newpid # PID_ONE /\ action = "none"
        /\ Entry(newpid, sec, TRUE) \in table'
        /\ UNCHANGED <<shortest, rescue, usable, action, attempts>>
    BY <1>3 DEF Track, track, TypeInv, FlowOK
  <2>2. shortest = NoLife
    BY <2>1 DEF JudgeInv
  <2>3. Running(table') # {}
    BY <2>1 DEF Running, Entry
  <2>4. Outstanding = 1 /\ Outstanding' = 1
    BY <2>1, <2>3 DEF Outstanding
  <2>5. QED
    BY <2>1, <2>2, <2>4 DEF JudgeInv, Patient
<1>4. CASE Judge
  BY <1>4, JudgeKeepsJudgeInv
<1>5. CASE ReapDone
  <2>1. Running(table') = Running(table)
    BY <1>5 DEF ReapDone, forget_finished, Running
  <2>2. /\ pc = "reap" /\ pc' = "harvested"
        /\ UNCHANGED <<shortest, newpid, rescue, usable, action, attempts>>
    BY <1>5 DEF ReapDone
  <2>3. Outstanding' = Outstanding
    BY <2>1, <2>2 DEF Outstanding
  <2>4. QED
    BY <2>1, <2>2, <2>3 DEF JudgeInv, Patient
<1>6. CASE Loop \/ WaitReturns \/ WaitTimesOut \/ WaitFails \/ ForkFails
  <2>1. /\ UNCHANGED <<table, newpid, rescue, usable, attempts>>
        /\ pc \in {"loop", "wait", "fork"}
    BY <1>6 DEF Loop, WaitReturns, WaitTimesOut, WaitFails, ForkFails
  <2>2. action = "none" /\ shortest = NoLife
    BY <2>1 DEF TypeInv, FlowOK, JudgeInv
  <2>3. shortest' \in {shortest, NoLife}
    BY <1>6 DEF Loop, WaitReturns, WaitTimesOut, WaitFails, ForkFails, ChildChanged,
       Reload, Shutdown
  <2>4. Outstanding' = Outstanding
    BY <2>1, <2>2, <2>3 DEF Outstanding
  <2>5. QED
    BY <2>1, <2>2, <2>3, <2>4 DEF JudgeInv, Patient
<1>7. CASE Park
  BY <1>7 DEF Park, JudgeInv
<1>8. ASSUME ShutdownNext
      PROVE  JudgeInv'
  <2>1. action \in Actions
    BY <1>8 DEF ShutdownNext, Begin, HangUp, Terminate, Continue, Kill, Arm,
       CheckSilence, Poll, HandOver, HandOverRefused, TypeInv, FlowOK
  <2>2. UNCHANGED <<action, table>> /\ shortest' \in {shortest, NoLife}
    BY <1>8 DEF ShutdownNext, Begin, HangUp, Terminate, Continue, Kill, Arm,
       CheckSilence, Poll, HandOver, HandOverRefused
  <2>3. QED
    BY <2>1, <2>2 DEF JudgeInv, Actions
<1>9. QED
  BY <1>1, <1>2, <1>3, <1>4, <1>5, <1>6, <1>7, <1>8 DEF PidOneNext, SuperviseNext

\* In every reachable state the count is right.
THEOREM JudgeInvHolds == Spec => []JudgeInv
<1>1. Init => JudgeInv
  <2> SUFFICES ASSUME Init
               PROVE  JudgeInv
    OBVIOUS
  <2>1. Running(table) = {} /\ shortest = NoLife /\ newpid = PID_ONE /\ attempts = 0
        /\ rescue.strikes = 0 /\ rescue.at = 0 /\ usable \in Nat
        /\ (pc = "park" \/ usable # 0)
    BY PidOneAssumption DEF Init, PidOneInit, NewRescue, Running
  <2>2. Outstanding = 0
    BY <2>1 DEF Outstanding
  <2>3. QED
    BY <2>1, <2>2, StrikesAssumption DEF JudgeInv, Patient
<1>2. TypeInv /\ ShellInv /\ JudgeInv /\ [Next]_vars => JudgeInv'
  <2> SUFFICES ASSUME TypeInv, ShellInv, JudgeInv, [Next]_vars
               PROVE  JudgeInv'
    OBVIOUS
  <2>1. CASE PidOneNext
    BY <2>1, PidOneKeepsJudgeInv
  <2>2. CASE UNCHANGED pidOneVars
    BY <2>2 DEF pidOneVars, controlVars, superviseVars, reapVars, shutdownVars,
       historyVars, JudgeInv, Patient, Outstanding
  <2>3. QED
    BY <2>1, <2>2 DEF Next, ClockNext, vars
<1>3. QED
  BY <1>1, <1>2, TypeInvHolds, ShellInvHolds, PTL DEF Spec

\* Each early death of a shell costs exactly one strike, and nothing else costs one
\* (EveryDeathJudgedOnce).
THEOREM DeathsAreJudgedOnce == Spec => []EveryDeathJudgedOnce
<1>1. JudgeInv => EveryDeathJudgedOnce
  BY DEF JudgeInv, Patient, EveryDeathJudgedOnce
<1>2. QED
  BY <1>1, JudgeInvHolds, PTL

\* A candidate is left only after as many early deaths in a row as there are
\* strikes, and the last one is never passed (PatientFallback).
THEOREM FallbackIsPatient == Spec => PatientFallback
<1> DEFINE Step ==
      /\ rescue'.at # rescue.at \/ (pc = "harvested" /\ pc' = "park") =>
           attempts = STRIKES_BEFORE_MOVING_ON /\ Shells = {}
      /\ pc' = "fork" => rescue.at < usable
<1> USE DEF Goto, CallReapAll, controlVars, superviseVars, reapVars, shutdownVars,
        historyVars
<1>1. ASSUME TypeInv, ShellInv, JudgeInv, [Next]_vars
      PROVE  Step
  <2>1. CASE Judge
    <3>1. pc = "harvested" /\ pc' \in {"loop", "park"} /\ newpid = PID_ONE
          /\ action = "none"
      BY <1>1, <2>1 DEF Judge, Survived, DiedEarly, TypeInv, FlowOK
    <3>2. rescue \in [at : Nat, strikes : Nat] /\ usable \in Nat
          /\ shortest \in Nat \cup {NoLife} /\ attempts \in Nat
      BY <1>1 DEF TypeInv, TypeOK, PidOneTypeOK
    <3>3. CASE shortest # NoLife /\ DiedEarly /\ verdict(rescue, usable) # "KeepTrying"
      <4>1. Running(table) = {}
        BY <1>1, <3>3 DEF JudgeInv
      <4>2. Shells = {}
        BY <1>1, <3>1, <4>1 DEF ShellInv, RunningPids
      <4>3. Patient /\ Outstanding = 1
        BY <1>1, <3>1, <3>3 DEF JudgeInv, Outstanding
      <4>4. ~(rescue.strikes + 1 < STRIKES_BEFORE_MOVING_ON)
        BY <3>2, <3>3, VerdictMeans
      <4>5. attempts = STRIKES_BEFORE_MOVING_ON
        BY <3>2, <4>3, <4>4, StrikesAssumption DEF Patient
      <4>6. QED
        BY <3>1, <4>2, <4>5
    <3>4. CASE shortest # NoLife /\ DiedEarly /\ verdict(rescue, usable) = "KeepTrying"
      <4>1. pc' = "loop" /\ rescue' = [at |-> rescue.at, strikes |-> rescue.strikes + 1]
        BY <3>2, <3>4, RescueTyped DEF DiedEarly
      <4>2. QED
        BY <4>1
    <3>5. CASE Survived
      <4>1. pc' = "loop" /\ rescue' = [at |-> rescue.at, strikes |-> 0]
        BY <3>2, <3>5, RescueTyped DEF Survived
      <4>2. QED
        BY <4>1
    <3>6. CASE shortest = NoLife
      <4>1. ~(shortest >= RESPAWN_IS_TOO_FAST)
            /\ shortest \notin 0 .. RESPAWN_IS_TOO_FAST - 1
        BY <3>6, PidOneAssumption DEF NoLife
      <4>2. rescue' = rescue /\ pc' = "loop"
        BY <2>1, <4>1 DEF Judge
      <4>3. QED
        BY <4>2
    <3>7. QED
      BY <2>1, <3>3, <3>4, <3>5, <3>6 DEF Judge
  <2>2. CASE Loop
    BY <1>1, <2>2 DEF Loop, TypeInv, FlowOK, JudgeInv, Patient
  <2>3. CASE \/ Park \/ ReapDone \/ \E z \in Pid : ReapChild(z)
             \/ \E p \in Pid : Fork(p)
             \/ ForkFails \/ Track \/ WaitReturns \/ WaitTimesOut \/ WaitFails
    BY <2>3 DEF Park, ReapDone, ReapChild, Fork, ForkFails, Track, WaitReturns,
       WaitTimesOut, WaitFails, ChildChanged, Reload, Shutdown
  <2>4. CASE ShutdownNext
    BY <2>4 DEF ShutdownNext, Begin, HangUp, Terminate, Continue, Kill, Arm,
       CheckSilence, Poll, HandOver, HandOverRefused, AfterSilence, AfterTimeout
  <2>5. CASE UNCHANGED pidOneVars
    BY <1>1, <2>5 DEF pidOneVars, TypeInv, FlowOK, JudgeInv, Patient
  <2>6. QED
    BY <1>1, <2>1, <2>2, <2>3, <2>4, <2>5
       DEF Next, PidOneNext, SuperviseNext, ClockNext, vars
<1>2. QED
  BY <1>1, TypeInvHolds, ShellInvHolds, JudgeInvHolds, PTL DEF Spec, PatientFallback

-------------------------------------------------------------------------------
(***************************************************************************)
(* Starts.  The second of the last fork is carried along: by the child     *)
(* that is not in the table yet, by started_at of its entry, by the life   *)
(* that was harvested, and then by the clock or by the backoff, whichever  *)
(* the verdict left to hold the next start back.                           *)
(***************************************************************************)

\* The last shell was forked before the clock read s seconds.
ForkedBefore(s) == lastFork < s * TicksPerSec

\* No shell is alive, on its way into the table, or waiting for its verdict.
NoneLeft ==
  /\ action = "none" /\ newpid = PID_ONE
  /\ Running(table) = {} /\ shortest = NoLife

StartInv ==
  /\ newpid # PID_ONE => ForkedBefore(sec + 1)
  /\ \A e \in Running(table) : e.started_at <= sec /\ ForkedBefore(e.started_at + 1)
  /\ action = "none" /\ shortest # NoLife => ForkedBefore(sec - shortest + 1)
  /\ NoneLeft => ForkedBefore(sec) \/ ForkedBefore(respawnAt)
  /\ pc = "fork" => ForkedBefore(sec)

LEMMA ForkedBeforeGrows ==
  ASSUME lastFork \in Int, NEW a \in Int, NEW b \in Int, a <= b, ForkedBefore(a)
  PROVE  ForkedBefore(b)
<1>1. TicksPerSec \in Nat
  BY KernelAssumption
<1>2. a * TicksPerSec <= b * TicksPerSec
  BY <1>1, MoreSecondsMoreTicks
<1>3. a * TicksPerSec \in Int /\ b * TicksPerSec \in Int
  BY <1>1
<1>4. QED
  BY <1>2, <1>3 DEF ForkedBefore

\* Time only pushes the last fork further into the past.
LEMMA ClockKeepsStarts ==
  ASSUME TypeInv, StartInv, sec' \in Nat, sec <= sec', UNCHANGED pidOneVars
  PROVE  StartInv'
<1>1. /\ UNCHANGED <<newpid, table, shortest, action, respawnAt, pc, lastFork>>
      /\ sec \in Nat /\ shortest \in Int /\ lastFork \in Int /\ respawnAt \in Int
      /\ \A e \in Running(table) : e.started_at \in Int
  BY DEF pidOneVars, controlVars, superviseVars, reapVars, shutdownVars, historyVars,
     TypeInv, TypeOK, KernelTypeOK, PidOneTypeOK, NoLife, Never, EntryType, Running
<1>2. ASSUME NEW s \in Int
      PROVE  ForkedBefore(s)' <=> lastFork < s * TicksPerSec
  BY <1>1 DEF ForkedBefore
<1>3. \A a, b \in Int : a <= b /\ ForkedBefore(a) => lastFork < b * TicksPerSec
  BY <1>1, ForkedBeforeGrows DEF ForkedBefore
<1>4. newpid' # PID_ONE => lastFork' < (sec' + 1) * TicksPerSec
  BY <1>1, <1>3 DEF StartInv
<1>5. \A e \in Running(table') :
        e.started_at <= sec' /\ lastFork' < (e.started_at + 1) * TicksPerSec
  BY <1>1 DEF StartInv, ForkedBefore
<1>6. action' = "none" /\ shortest' # NoLife =>
        lastFork' < (sec' - shortest' + 1) * TicksPerSec
  <2>1. sec - shortest + 1 <= sec' - shortest + 1
    <3>1. \A a, b, c \in Int : a <= b => a - c + 1 <= b - c + 1
      OBVIOUS
    <3>2. sec \in Int /\ sec' \in Int /\ shortest \in Int /\ sec <= sec'
      BY <1>1
    <3>3. QED
      BY <3>1, <3>2
  <2>2. sec - shortest + 1 \in Int /\ sec' - shortest + 1 \in Int
    BY <1>1
  <2>3. QED
    BY <1>1, <1>3, <2>1, <2>2 DEF StartInv
<1>7. NoneLeft' => lastFork' < sec' * TicksPerSec \/ lastFork' < respawnAt' * TicksPerSec
  <2>1. NoneLeft' => NoneLeft
    BY <1>1 DEF NoneLeft
  <2>2. ForkedBefore(sec) => lastFork' < sec' * TicksPerSec
    BY <1>1, <1>3
  <2>3. ForkedBefore(respawnAt) => lastFork' < respawnAt' * TicksPerSec
    BY <1>1 DEF ForkedBefore
  <2>4. QED
    BY <2>1, <2>2, <2>3 DEF StartInv
<1>8. pc' = "fork" => lastFork' < sec' * TicksPerSec
  BY <1>1, <1>3 DEF StartInv
<1>9. QED
  BY <1>4, <1>5, <1>6, <1>7, <1>8 DEF StartInv, ForkedBefore

\* Judging hands the last fork over to the clock or to the backoff.
LEMMA JudgeKeepsStarts ==
  ASSUME TypeInv, TypeInv', ShellInv, JudgeInv, StartInv, Judge
  PROVE  StartInv'
<1> USE PidOneAssumption
    DEF controlVars, superviseVars, reapVars, shutdownVars, historyVars
<1>1. /\ pc = "harvested" /\ action = "none" /\ newpid = PID_ONE
      /\ UNCHANGED <<sec, newpid, table, action, lastFork>>
      /\ shortest' = NoLife /\ pc' \in {"loop", "park"}
  BY DEF Judge, Survived, DiedEarly, TypeInv, FlowOK, kernelVars
<1>2. /\ sec \in Nat /\ shortest \in Nat \cup {NoLife} /\ lastFork \in Int
      /\ respawnAt' \in Nat /\ RESPAWN_IS_TOO_FAST \in Nat \ {0}
      /\ RESPAWN_BACKOFF_SECS \in Nat \ {0}
  BY DEF TypeInv, TypeOK, KernelTypeOK, PidOneTypeOK, Never, NoLife
<1>3. NoneLeft' => ForkedBefore(sec) \/ ForkedBefore(respawnAt')
  <2>1. CASE shortest = NoLife
    <3>1. respawnAt' = respawnAt
      BY <2>1 DEF Judge, Survived, DiedEarly, NoLife
    <3>2. NoneLeft' => NoneLeft
      BY <1>1, <2>1 DEF NoneLeft
    <3>3. QED
      BY <3>1, <3>2 DEF StartInv
  <2>2. CASE shortest # NoLife
    <3>1. ForkedBefore(sec - shortest + 1) /\ shortest \in Nat
      BY <1>1, <1>2, <2>2 DEF StartInv
    <3>2. CASE Survived /\ shortest >= RESPAWN_IS_TOO_FAST
      <4>1. sec - shortest + 1 <= sec /\ sec - shortest + 1 \in Int
        BY <1>2, <3>1, <3>2
      <4>2. QED
        BY <1>2, <3>1, <4>1, ForkedBeforeGrows
    <3>3. CASE DiedEarly
      <4>1. respawnAt' = sec + RESPAWN_BACKOFF_SECS
        BY <3>3 DEF DiedEarly
      <4>2. sec - shortest + 1 <= respawnAt' /\ sec - shortest + 1 \in Int
        BY <1>2, <3>1, <4>1
      <4>3. QED
        BY <1>2, <3>1, <4>2, ForkedBeforeGrows
    <3>4. QED
      BY <2>2, <3>2, <3>3 DEF Judge
  <2>3. QED
    BY <2>1, <2>2
<1>4. QED
  BY <1>1, <1>3 DEF StartInv, ForkedBefore

\* The other steps of pid 1: only a reaped shell and a tracked one pass it on.
LEMMA PidOneKeepsStarts ==
  ASSUME TypeInv, TypeInv', ShellInv, JudgeInv, StartInv, PidOneNext
  PROVE  StartInv'
<1> USE PidOneAssumption, KernelAssumption
    DEF Goto, CallReapAll, elsewhere, clockVars, controlVars, superviseVars, reapVars,
        shutdownVars, historyVars
<1>1. /\ sec \in Nat /\ shortest \in Nat \cup {NoLife} /\ lastFork \in Int
      /\ respawnAt \in Nat /\ table \in SUBSET EntryType(Pid)
  BY DEF TypeInv, TypeOK, KernelTypeOK, PidOneTypeOK, Never, NoLife
<1>2. ASSUME NEW z \in Pid, ReapChild(z)
      PROVE  StartInv'
  <2>1. Running(table') = Running(table) \ Found(table, z)
    BY <1>1, <1>2, RunningAfterExit DEF ReapChild
  <2>2. /\ pc = "reap" /\ pc' = "reap" /\ newpid = PID_ONE
        /\ UNCHANGED <<sec, action, newpid, lastFork, respawnAt>>
    BY <1>2 DEF ReapChild, TypeInv, FlowOK
  <2>3. CASE Found(table, z) = {}
    <3>1. Running(table') = Running(table) /\ shortest' = shortest
      BY <1>2, <2>1, <2>3 DEF ReapChild
    <3>2. QED
      BY <2>2, <3>1 DEF StartInv, NoneLeft, ForkedBefore
  <2>4. CASE Found(table, z) # {}
    <3>1. Running(table) # {} /\ Running(table') = {}
      BY <2>1, <2>4 DEF ShellInv, OneRunning, Found
    <3>2. PICK e \in Found(table, z) : shortest' = Shorter(ran_for(e, sec))
      BY <1>2, <2>4 DEF ReapChild
    <3>3. /\ e \in Running(table) /\ e.started_at \in Nat /\ e.started_at <= sec
          /\ ForkedBefore(e.started_at + 1)
      BY <1>1, <3>2 DEF Found, Running, EntryType, StartInv
    <3>4. shortest' = sec - e.started_at
      BY <1>1, <3>1, <3>2, <3>3 DEF Shorter, ran_for, JudgeInv
    <3>5. sec - shortest' + 1 = e.started_at + 1 /\ shortest' \in Nat
      BY <1>1, <3>3, <3>4
    <3>6. shortest' # NoLife
      BY <3>5 DEF NoLife
    <3>7. QED
      BY <2>2, <3>1, <3>3, <3>5, <3>6 DEF StartInv, NoneLeft, ForkedBefore
  <2>5. QED
    BY <2>3, <2>4
<1>3. ASSUME NEW p \in Pid, Fork(p)
      PROVE  StartInv'
  <2>1. /\ pc = "fork" /\ pc' = "track" /\ newpid = PID_ONE /\ newpid' = p
        /\ action = "none" /\ lastFork' = Now
        /\ UNCHANGED <<sec, table, shortest, action>>
    BY <1>3 DEF Fork, TypeInv, FlowOK
  <2>2. Running(table) = {} /\ shortest = NoLife
    BY <2>1 DEF ShellInv, OneRunning, JudgeInv
  <2>3. lastFork' < (sec + 1) * TicksPerSec
    BY <2>1, NowIsInThisSecond DEF TypeInv
  <2>4. QED
    BY <2>1, <2>2, <2>3 DEF StartInv, NoneLeft, ForkedBefore
<1>4. CASE Track
  <2>1. /\ pc = "track" /\ pc' \in {"wait", "loop"} /\ newpid # PID_ONE
        /\ newpid' = PID_ONE /\ action = "none"
        /\ table' = table \cup {Entry(newpid, sec, TRUE)}
        /\ UNCHANGED <<sec, shortest, action, lastFork>>
    BY <1>4 DEF Track, track, TypeInv, FlowOK, kernelVars
  <2>2. Running(table) = {} /\ shortest = NoLife
    BY <2>1 DEF ShellInv, OneRunning, JudgeInv
  <2>3. Running(table') = {Entry(newpid, sec, TRUE)}
    BY <2>1, <2>2 DEF Running, Entry
  <2>4. Entry(newpid, sec, TRUE).started_at = sec
    BY DEF Entry
  <2>5. ForkedBefore(sec + 1)
    BY <2>1 DEF StartInv
  <2>6. \A e \in Running(table') :
          e.started_at <= sec' /\ lastFork' < (e.started_at + 1) * TicksPerSec
    <3>1. \A e \in Running(table') : e.started_at = sec
      BY <2>3, <2>4
    <3>2. lastFork < (sec + 1) * TicksPerSec /\ sec <= sec
      BY <1>1, <2>5 DEF ForkedBefore
    <3>3. QED
      BY <2>1, <3>1, <3>2
  <2>7. newpid' = PID_ONE /\ shortest' = NoLife /\ pc' # "fork" /\ Running(table') # {}
    BY <2>1, <2>2, <2>3
  <2>8. QED
    BY <2>6, <2>7 DEF StartInv, NoneLeft, ForkedBefore
<1>5. CASE Loop
  <2>1. /\ pc = "loop" /\ action = "none" /\ newpid = PID_ONE
        /\ pc' \in {"fork", "wait"}
        /\ (pc' = "fork" => Running(table) = {} /\ sec >= respawnAt)
        /\ UNCHANGED <<sec, newpid, table, shortest, action, lastFork, respawnAt>>
    <3>1. pc' = "fork" => Running(table) = {} /\ sec >= respawnAt
      BY <1>5, Zenon DEF Loop
    <3>2. QED
      BY <1>5, <3>1 DEF Loop, TypeInv, FlowOK, kernelVars
  <2>2. shortest = NoLife
    BY <2>1 DEF JudgeInv
  <2>3. pc' = "fork" => ForkedBefore(sec)
    <3>1. SUFFICES ASSUME pc' = "fork"
                   PROVE  ForkedBefore(sec)
      OBVIOUS
    <3>2. ForkedBefore(sec) \/ ForkedBefore(respawnAt)
      BY <2>1, <2>2, <3>1 DEF StartInv, NoneLeft
    <3>3. respawnAt <= sec
      BY <1>1, <2>1, <3>1
    <3>4. QED
      BY <1>1, <3>2, <3>3, ForkedBeforeGrows
  <2>4. QED
    BY <2>1, <2>3 DEF StartInv, NoneLeft, ForkedBefore
<1>6. CASE Judge
  BY <1>6, JudgeKeepsStarts
<1>7. CASE WaitReturns \/ WaitTimesOut \/ WaitFails
  <2>1. /\ pc = "wait" /\ pc' # "fork" /\ action = "none"
        /\ UNCHANGED <<sec, newpid, table, lastFork, respawnAt>>
    BY <1>7 DEF WaitReturns, WaitTimesOut, WaitFails, ChildChanged, Reload, Shutdown,
       TypeInv, FlowOK, kernelVars
  <2>2. shortest = NoLife
    BY <2>1 DEF JudgeInv
  <2>3. shortest' = NoLife
    BY <1>7, <2>2 DEF WaitReturns, WaitTimesOut, WaitFails, ChildChanged, Reload,
       Shutdown
  <2>4. QED
    BY <2>1, <2>2, <2>3 DEF StartInv, NoneLeft, ForkedBefore
<1>8. CASE ReapDone
  <2>1. Running(table') = Running(table)
    BY <1>8 DEF ReapDone, forget_finished, Running
  <2>2. /\ pc' # "fork"
        /\ UNCHANGED <<sec, newpid, shortest, action, lastFork, respawnAt>>
    BY <1>8 DEF ReapDone, kernelVars
  <2>3. QED
    BY <2>1, <2>2 DEF StartInv, NoneLeft, ForkedBefore
<1>9. CASE Park \/ ForkFails
  BY <1>9 DEF Park, ForkFails, kernelVars, StartInv, NoneLeft, ForkedBefore
<1>10. CASE ShutdownNext
  <2>1. /\ action' = action /\ action \in Actions /\ pc' # "fork"
        /\ UNCHANGED <<sec, newpid, table, lastFork>>
    BY <1>10 DEF ShutdownNext, Begin, HangUp, Terminate, Continue, Kill, Arm,
       CheckSilence, Poll, HandOver, HandOverRefused, AfterSilence, AfterTimeout,
       TypeInv, FlowOK, kernelVars
  <2>2. action # "none"
    BY <2>1 DEF Actions
  <2>3. QED
    BY <2>1, <2>2 DEF StartInv, NoneLeft, ForkedBefore
<1>11. QED
  BY <1>2, <1>3, <1>4, <1>5, <1>6, <1>7, <1>8, <1>9, <1>10
     DEF PidOneNext, SuperviseNext

\* In every reachable state something holds the next start back.
THEOREM StartInvHolds == Spec => []StartInv
<1>1. Init => StartInv
  <2> SUFFICES ASSUME Init
               PROVE  StartInv
    OBVIOUS
  <2>1. /\ sec = 0 /\ newpid = PID_ONE /\ Running(table) = {} /\ shortest = NoLife
        /\ lastFork = -1
    BY DEF Init, KernelInit, PidOneInit, Running, Never
  <2>2. ForkedBefore(sec)
    BY <2>1, KernelAssumption DEF ForkedBefore
  <2>3. QED
    BY <2>1, <2>2 DEF StartInv
<1>2. TypeInv /\ TypeInv' /\ ShellInv /\ JudgeInv /\ StartInv /\ [Next]_vars => StartInv'
  <2> SUFFICES ASSUME TypeInv, TypeInv', ShellInv, JudgeInv, StartInv, [Next]_vars
               PROVE  StartInv'
    OBVIOUS
  <2>1. CASE PidOneNext
    BY <2>1, PidOneKeepsStarts
  <2>2. CASE UNCHANGED pidOneVars /\ (Tick \/ sec' = sec)
    <3>1. sec' \in Nat /\ sec <= sec'
      BY <2>2 DEF Tick, TypeInv, TypeOK, KernelTypeOK
    <3>2. QED
      BY <2>2, <3>1, ClockKeepsStarts
  <2>3. KernelNext => sec' = sec
    BY DEF KernelNext, ShellQuits, JobQuits, Falls, Ends, OpensSession, BecomesShell,
       Stops, StartsJob, Collects, Asks, PressesCtrlAltDel, clockVars
  <2>4. QED
    BY <2>1, <2>2, <2>3 DEF Next, ClockNext, vars, kernelVars
<1>3. QED
  BY <1>1, <1>2, TypeInvHolds, ShellInvHolds, JudgeInvHolds, PTL DEF Spec

\* No two shells are started in the same second of the clock
\* (StartsInDistinctSeconds).
THEOREM StartsAreApart == Spec => StartsInDistinctSeconds
<1>1. StartInv => \A p \in Pid : Fork(p) /\ lastFork # Never =>
                    lastFork < sec * TicksPerSec
  BY DEF StartInv, ForkedBefore, Fork, Goto
<1>2. QED
  BY <1>1, StartInvHolds, PTL DEF StartsInDistinctSeconds

-------------------------------------------------------------------------------
(***************************************************************************)
(* What waitpid() tells of a child that died.                              *)
(***************************************************************************)

\* A child that exited is never taken for one that was killed, and its code is right
\* (sys.rs:210-212, proc.rs:111-119).
THEOREM ExitIsTheOneThatHappened ==
  ASSUME NEW code \in 0 .. 255
  PROVE  state_from(ExitStatus(code)) = [is |-> "exited", code |-> code]
<1>1. exit_code(ExitStatus(code)) = code
  BY DEF exit_code, ExitStatus
<1>2. code # None
  BY DEF None
<1>3. QED
  BY <1>1, <1>2 DEF state_from

\* A child that was killed is never taken for one that exited, and the signal is right
\* with a core and without: the flag is not taken for a part of it (sys.rs:214-216,
\* proc.rs:111-119).
THEOREM DeathIsTheOneThatHappened ==
  ASSUME NEW signal \in 1 .. 64, NEW core \in BOOLEAN
  PROVE  state_from(KillStatus(signal, core)) = [is |-> "killed", signal |-> signal]
<1>1. KillStatus(signal, core) % 128 = signal
  BY DEF KillStatus
<1>2. exit_code(KillStatus(signal, core)) = None
  BY <1>1 DEF exit_code
<1>3. termination_signal(KillStatus(signal, core)) = signal /\ signal # None
  BY <1>1 DEF termination_signal, None
<1>4. QED
  BY <1>2, <1>3 DEF state_from
===============================================================================
