---------------------------- MODULE TerminalProofs ----------------------------
(***************************************************************************)
(* Theorems about the console: Ctrl+C reaches the job that a shell waits   *)
(* for, and never asks pid 1 for anything once there has been a shell.     *)
(***************************************************************************)
EXTENDS Terminal, TLAPS

USE TerminalAssumption DEF procs, tty

\* A shell has the console to itself: it has taken it before it was executed, and
\* loses it only by dying.
Before == {"stdio", "ctty", "block", "cad", "banner"}

ShellHasConsole ==
  /\ at \in Before => Living = {} /\ ~served
  /\ \A p \in Procs : kind[p] \in {"leader", "owner", "shell"} => group[p] = p
  /\ \A p \in Procs : kind[p] \in {"owner", "shell"} => owner = p

\* Only a child that pid 1 has just forked has its signals blocked, and a job only
\* if its shell had.
Unmasked ==
  /\ \A p \in Procs : kind[p] \in Preparing \cup {"shell"} /\ kind[p] # "forked" =>
       p \notin masked
  /\ masked \subseteq Living \cup {PID_ONE}

\* The shell that waits for a job is alive.
SomebodyWaits ==
  job # Nobody => /\ session[job] \in Procs /\ kind[session[job]] = "shell"
                  /\ group[job] = front /\ job \notin masked

\* Pid 1 has the console until a child takes it, and never again.
PidOneInFront ==
  /\ front = PID_ONE => owner = PID_ONE
  /\ served => owner # PID_ONE

TerminalInv ==
  /\ TypeOK
  /\ ShellHasConsole /\ Unmasked /\ SomebodyWaits /\ PidOneInFront

LEMMA PidOneKeepsTerminal ==
  ASSUME TerminalInv, PidOneNext \/ GiveUp
  PROVE  TerminalInv'
<1> USE DEF TerminalInv, TypeOK, ShellHasConsole, Unmasked, SomebodyWaits,
        PidOneInFront, Before, PidOneSteps, Preparing, Living, Children
<1>1. CASE AttachStdio \/ DisableCtrlAltDel \/ Banner \/ GoDown \/ Down \/ GiveUp
  BY <1>1 DEF AttachStdio, DisableCtrlAltDel, Banner, GoDown, Down, GiveUp
<1>2. CASE Park
  BY <1>2 DEF Park
<1>3. CASE TakeCtty
  <2>1. Living = {} /\ ~served /\ job = Nobody /\ at = "ctty" /\ at' = "block"
        /\ UNCHANGED <<kind, session, group, masked, job, held, cad, request, served>>
    BY <1>3 DEF TakeCtty
  <2>2. UNCHANGED <<owner, front>> \/ (owner' = PID_ONE /\ front' = PID_ONE)
    BY <1>3 DEF TakeCtty, set_ctty
  <2>3. QED
    BY <2>1, <2>2
<1>4. CASE Install
  BY <1>4 DEF Install
<1>5. ASSUME NEW p \in Procs, Fork(p)
      PROVE  TerminalInv'
  <2>1. /\ Children = {} /\ kind[p] = "gone" /\ at = "serve"
        /\ kind' = [kind EXCEPT ![p] = "forked"]
        /\ session' = [session EXCEPT ![p] = PID_ONE]
        /\ group' = [group EXCEPT ![p] = PID_ONE]
        /\ masked' = masked \cup {p}
        /\ UNCHANGED <<at, tty, held, cad, request, served>>
    BY <1>5 DEF Fork, Free
  <2>2. job = Nobody
    BY <2>1
  <2>3. QED
    BY <2>1, <2>2
<1>6. QED
  BY <1>1, <1>2, <1>3, <1>4, <1>5 DEF PidOneNext

LEMMA ChildKeepsTerminal ==
  ASSUME TerminalInv, ChildNext
  PROVE  TerminalInv'
<1> USE DEF TerminalInv, TypeOK, ShellHasConsole, Unmasked, SomebodyWaits,
        PidOneInFront, Before, PidOneSteps, Preparing, Living, Children, Becomes, Up
<1>1. ASSUME NEW p \in Procs, Unblock(p)
      PROVE  TerminalInv'
  BY <1>1 DEF Unblock
<1>2. ASSUME NEW p \in Procs, NewSession(p)
      PROVE  TerminalInv'
  BY <1>2 DEF NewSession
<1>3. ASSUME NEW p \in Procs, StealCtty(p)
      PROVE  TerminalInv'
  <2>1. /\ kind[p] = "leader" /\ kind' = [kind EXCEPT ![p] = "owner"]
        /\ owner' = p /\ front' = p
        /\ UNCHANGED <<at, session, group, masked, job, held, cad, request, served>>
    BY <1>3 DEF StealCtty, set_ctty
  <2>2. job = Nobody
    BY <2>1
  <2>3. QED
    BY <2>1, <2>2
<1>4. ASSUME NEW p \in Procs, Exec(p)
      PROVE  TerminalInv'
  BY <1>4 DEF Exec
<1>5. QED
  BY <1>1, <1>2, <1>3, <1>4 DEF ChildNext

\* When the processes of S die.
LEMMA DeathKeepsTerminal ==
  ASSUME TerminalInv, NEW S \in SUBSET Living, Up, Without(S), at' \in {at, "off"},
         request' \in {"none", "ctrl-c", "ctrl-alt-del", "command"},
         UNCHANGED <<held, cad, served>>
  PROVE  TerminalInv'
<1> USE DEF TerminalInv, TypeOK, ShellHasConsole, Unmasked, SomebodyWaits,
        PidOneInFront, Before, PidOneSteps, Preparing, Living, Children, Up
<1>1. /\ kind' = [p \in Procs |-> IF p \in S THEN "gone" ELSE kind[p]]
      /\ masked' = masked \ S /\ UNCHANGED <<session, group>>
  BY DEF Without
<1>2. CASE owner \in S
  <2>1. owner' = Nobody /\ front' = Nobody
    BY <1>2 DEF Without
  <2>2. job' = Nobody
    BY <1>2 DEF Without
  <2>3. QED
    BY <1>1, <1>2, <2>1, <2>2
<1>3. CASE owner \notin S
  <2>1. owner' = owner /\ front' = front
    BY <1>3 DEF Without
  <2>2. job' = Nobody \/ (job' = job /\ job \notin S)
    BY DEF Without
  <2>3. QED
    BY <1>1, <1>3, <2>1, <2>2
<1>4. QED
  BY <1>2, <1>3

LEMMA WorldKeepsTerminal ==
  ASSUME TerminalInv, WorldNext
  PROVE  TerminalInv'
<1> USE DEF TerminalInv, TypeOK, ShellHasConsole, Unmasked, SomebodyWaits,
        PidOneInFront, Before, PidOneSteps, Preparing, Living, Children, Up
<1>1. ASSUME NEW s \in Procs, NEW j \in Procs, StartsJob(s, j)
      PROVE  TerminalInv'
  <2>1. /\ kind[s] = "shell" /\ owner = s /\ s \notin masked /\ job = Nobody
        /\ kind[j] = "gone" /\ j # s /\ j \notin masked
        /\ \A q \in Living : j \notin {session[q], group[q]}
    BY <1>1 DEF StartsJob, Free
  <2>2. /\ kind' = [kind EXCEPT ![j] = "job"] /\ session' = [session EXCEPT ![j] = s]
        /\ masked' = masked /\ group' = [group EXCEPT ![j] = j]
        /\ UNCHANGED <<at, owner, held, cad, request, served>>
    BY <1>1, <2>1 DEF StartsJob
  <2>3. \/ job' = j /\ front' = j
        \/ job' = Nobody /\ front' = front
    <3>1. /\ job' = j \/ job' = Nobody
          /\ front' = IF owner = s /\ job' = j THEN j ELSE front
      BY <1>1 DEF StartsJob
    <3>2. Nobody # j
      OBVIOUS
    <3>3. QED
      BY <2>1, <3>1, <3>2, Zenon
  <2>4. QED
    BY <2>1, <2>2, <2>3
<1>2. ASSUME NEW s \in Procs, Prompts(s)
      PROVE  TerminalInv'
  BY <1>2 DEF Prompts
<1>3. ASSUME NEW j \in Procs, Detaches(j)
      PROVE  TerminalInv'
  BY <1>3 DEF Detaches
<1>4. ASSUME NEW j \in Procs, OpensConsole(j)
      PROVE  TerminalInv'
  BY <1>4 DEF OpensConsole
<1>5. ASSUME NEW p \in Procs, Dies(p)
      PROVE  TerminalInv'
  BY <1>5, DeathKeepsTerminal DEF Dies
<1>6. CASE CtrlC
  BY <1>6, DeathKeepsTerminal DEF CtrlC, Asked
<1>7. CASE CtrlAltDel \/ Command \/ HoldOrRelease
  <2>1. held' \in BOOLEAN
    BY <1>7 DEF CtrlAltDel, Command, HoldOrRelease
  <2>2. /\ request' \in {"none", "ctrl-c", "ctrl-alt-del", "command"}
        /\ at' \in {at, "off"}
    BY <1>7 DEF CtrlAltDel, Command, HoldOrRelease, Asked
  <2>3. UNCHANGED <<procs, tty, cad, served>>
    BY <1>7 DEF CtrlAltDel, Command, HoldOrRelease
  <2>4. QED
    BY <2>1, <2>2, <2>3
<1>8. QED
  BY <1>1, <1>2, <1>3, <1>4, <1>5, <1>6, <1>7 DEF WorldNext

\* In every reachable state who has the console is as it should be.
THEOREM TerminalInvHolds == Spec => []TerminalInv
<1>1. Init => TerminalInv
  BY DEF Init, TerminalInv, TypeOK, ShellHasConsole, Unmasked, SomebodyWaits,
     PidOneInFront, Before, PidOneSteps, Preparing, Living, Children
<1>2. TerminalInv /\ [Next]_vars => TerminalInv'
  <2>1. TerminalInv /\ UNCHANGED vars => TerminalInv'
    BY DEF vars, TerminalInv, TypeOK, ShellHasConsole, Unmasked, SomebodyWaits,
       PidOneInFront, Living, Children
  <2>2. QED
    BY <2>1, PidOneKeepsTerminal, ChildKeepsTerminal, WorldKeepsTerminal DEF Next
<1>3. QED
  BY <1>1, <1>2, PTL DEF Spec

\* Every variable of the console has its type (TypeOK).
THEOREM TypeCorrect == Spec => []TypeOK
<1>1. TerminalInv => TypeOK
  BY DEF TerminalInv
<1>2. QED
  BY <1>1, TerminalInvHolds, PTL

\* Ctrl+C reaches the job the shell waits for (CtrlCReachesTheJob).
THEOREM CtrlCReaches == Spec => []CtrlCReachesTheJob
<1>1. TerminalInv => CtrlCReachesTheJob
  BY DEF TerminalInv, SomebodyWaits, CtrlCReachesTheJob
<1>2. QED
  BY <1>1, TerminalInvHolds, PTL

\* Once there has been a shell Ctrl+C is no request to go down (CtrlCSparesPidOne).
THEOREM CtrlCSpares == Spec => CtrlCSparesPidOne
<1>1. TerminalInv /\ [Next]_vars =>
        (request' = "ctrl-c" /\ request # "ctrl-c" => ~served)
  <2> SUFFICES ASSUME TerminalInv, [Next]_vars, request' = "ctrl-c", request # "ctrl-c"
               PROVE  ~served
    OBVIOUS
  <2>1. CtrlC
    BY DEF Next, PidOneNext, GiveUp, ChildNext, WorldNext, AttachStdio, TakeCtty, Install,
       DisableCtrlAltDel, Banner, Fork, GoDown, Down, Park, Unblock, NewSession,
       StealCtty, Exec, StartsJob, Prompts, Detaches, OpensConsole, Dies, CtrlAltDel,
       Command, HoldOrRelease, Asked, vars
  <2>2. front = PID_ONE
    BY <2>1 DEF CtrlC
  <2>3. QED
    BY <2>2 DEF TerminalInv, PidOneInFront
<1>2. QED
  BY <1>1, TerminalInvHolds, PTL DEF Spec, CtrlCSparesPidOne

===============================================================================
