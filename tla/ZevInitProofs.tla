---------------------------- MODULE ZevInitProofs ----------------------------
(***************************************************************************)
(* Theorems about ZevInit, for every set of pids, every number of          *)
(* candidates and strikes, every limit and every set of faults.            *)
(***************************************************************************)
EXTENDS ZevInit, TLAPS

USE DEF Goto, CallReapAll, elsewhere, clockVars, procVars, controlVars,
        superviseVars, reapVars, shutdownVars, historyVars

-------------------------------------------------------------------------------
(***************************************************************************)
(* Type correctness.  TypeOK alone is not inductive: HandOver gives the    *)
(* machine the value of action, so it must be known that pid 1 is past     *)
(* supervise() there.                                                      *)
(***************************************************************************)

\* Where pid 1 is tells whether supervise() has returned, and to whom reap_all()
\* returns.
FlowOK ==
  /\ pc \in {"hangup", "continue", "arm", "poll", "kill", "sync", "down"} =>
       action \in Actions
  /\ pc \in {"reap", "harvested"} /\ caller # "supervise" => action \in Actions
  /\ pc \in {"fork", "track", "loop", "wait"} => action = "none"
  /\ pc \in {"reap", "harvested"} /\ caller = "supervise" => action = "none"
  /\ pc \in {"arm", "poll"} => caller \in {"grace", "afterkill"}
  /\ IF pc = "track" THEN newpid \in Pid ELSE newpid = PID_ONE

TypeInv == TypeOK /\ FlowOK

\* The steps of everything around pid 1 keep the kernel's variables typed.
LEMMA KernelActionsTyped ==
  ASSUME KernelTypeOK, KernelNext
  PROVE  KernelTypeOK'
<1> USE KernelAssumption DEF KernelTypeOK, Kinds, Spawned, WATCHED, Ends,
        SIGCHLD, SIGINT, SIGTERM, SIGHUP, SIGUSR1, SIGUSR2, SIGPWR, Actions
<1>1. ASSUME NEW p \in Pid, ShellQuits(p) \/ JobQuits(p) \/ Falls(p)
      PROVE  KernelTypeOK'
  BY <1>1 DEF ShellQuits, JobQuits, Falls
<1>2. ASSUME NEW p \in Pid, OpensSession(p) \/ BecomesShell(p) \/ Stops(p)
      PROVE  KernelTypeOK'
  BY <1>2 DEF OpensSession, BecomesShell, Stops
<1>3. ASSUME NEW p \in Pid, NEW c \in Pid, NEW k \in JobKinds, StartsJob(p, c, k)
      PROVE  KernelTypeOK'
  BY <1>3 DEF StartsJob
<1>4. ASSUME NEW p \in Pid, NEW c \in Pid, Collects(p, c)
      PROVE  KernelTypeOK'
  BY <1>4 DEF Collects
<1>5. ASSUME NEW s \in Requests, Asks(s)
      PROVE  KernelTypeOK'
  BY <1>5 DEF Asks
<1>6. ASSUME SIGINT \in Requests, PressesCtrlAltDel
      PROVE  KernelTypeOK'
  BY <1>6 DEF PressesCtrlAltDel
<1>7. QED
  BY <1>1, <1>2, <1>3, <1>4, <1>5, <1>6 DEF KernelNext

\* Marking an entry gone keeps the table a table.
LEMMA RecordExitTyped ==
  ASSUME NEW t \in SUBSET EntryType(Pid), NEW z \in Pid
  PROVE  record_exit(t, z) \in SUBSET EntryType(Pid)
<1>1. ASSUME NEW e \in EntryType(Pid)
      PROVE  [e EXCEPT !.state = "Gone"] \in EntryType(Pid)
  BY <1>1 DEF EntryType
<1>2. Found(t, z) \subseteq EntryType(Pid)
  BY DEF Found, Running
<1>3. QED
  BY <1>1, <1>2 DEF record_exit

\* A new entry fits in the table.
LEMMA EntryTyped ==
  ASSUME NEW p \in Pid, NEW now \in Nat
  PROVE  Entry(p, now, TRUE) \in EntryType(Pid)
  BY DEF Entry, EntryType

\* A verdict leaves struct Rescue a struct Rescue.
LEMMA RescueTyped ==
  ASSUME NEW r \in [at : Nat, strikes : Nat], NEW n \in Nat
  PROVE  /\ survived(r) = [at |-> r.at, strikes |-> 0]
         /\ failed(r, n) = IF verdict(r, n) = "MovedOn"
                           THEN [at |-> r.at + 1, strikes |-> 0]
                           ELSE [at |-> r.at, strikes |-> r.strikes + 1]
  BY DEF survived, failed

\* The steps of pid 1 keep the invariant.
LEMMA PidOneActionsTyped ==
  ASSUME TypeInv, PidOneNext
  PROVE  TypeInv'
<1> USE KernelAssumption, PidOneAssumption, StrikesAssumption
    DEF TypeInv, TypeOK, KernelTypeOK, PidOneTypeOK, FlowOK, Kinds, Spawned,
        Steps, Callers, NoLife, Never, EntryType
<1>1. ASSUME NEW z \in Pid, ReapChild(z)
      PROVE  TypeInv'
  BY <1>1, RecordExitTyped
     DEF ReapChild, reap_one, Found, Running, ran_for, Shorter
<1>2. CASE ReapDone
  BY <1>2 DEF ReapDone, kernelVars, forget_finished, Running
<1>3. CASE Park
  BY <1>3 DEF Park
<1>4. ASSUME NEW p \in Pid, Fork(p)
      PROVE  TypeInv'
  BY <1>4 DEF Fork, fork, Now
<1>5. CASE ForkFails \/ WaitTimesOut \/ WaitFails
  BY <1>5 DEF ForkFails, WaitTimesOut, WaitFails, kernelVars
<1>6. CASE Track
  <2>1. /\ pc = "track" /\ pc' \in {"wait", "loop"}
        /\ table' = table \cup {Entry(newpid, sec, TRUE)}
        /\ newpid' = PID_ONE
        /\ UNCHANGED <<kernelVars, caller, superviseVars, shortest, left,
                       shutdownVars, historyVars>>
    BY <1>6, Zenon DEF Track, track
  <2>2. Entry(newpid, sec, TRUE) \in EntryType(Pid)
    BY <2>1, EntryTyped
  <2>3. QED
    BY <2>1, <2>2 DEF kernelVars
<1>7. CASE Loop
  BY <1>7 DEF Loop, kernelVars
<1>8. CASE WaitReturns
  BY <1>8 DEF WaitReturns, ChildChanged, Reload, Shutdown
<1>9. CASE Judge
  BY <1>9, RescueTyped DEF Judge, kernelVars, Survived, DiedEarly
<1>10. CASE Begin
  BY <1>10 DEF Begin, kernelVars, session_leaders, Running
<1>11. ASSUME NEW l \in Pid, HangUp(l)
       PROVE  TypeInv'
  BY <1>11 DEF HangUp, hang_up
<1>12. CASE Terminate
  BY <1>12 DEF Terminate, terminate_everyone
<1>13. CASE Continue \/ Kill
  <2>1. Resumed \in [Pid -> {"free", "live", "stopped", "zombie"}]
    BY DEF Resumed
  <2>2. SIGCHLD \in WATCHED
    BY DEF WATCHED
  <2>3. QED
    BY <1>13, <2>1, <2>2
       DEF Continue, Kill, continue_everyone, kill_everyone, Now
<1>14. CASE Arm
  BY <1>14 DEF Arm, kernelVars
<1>15. CASE CheckSilence
  BY <1>15 DEF CheckSilence, kernelVars, AfterSilence, AfterTimeout
<1>16. CASE Poll
  BY <1>16 DEF Poll
<1>17. CASE HandOver \/ HandOverRefused
  BY <1>17 DEF HandOver, HandOverRefused, kernelVars
<1>18. QED
  BY <1>1, <1>2, <1>3, <1>4, <1>5, <1>6, <1>7, <1>8, <1>9, <1>10, <1>11, <1>12,
     <1>13, <1>14, <1>15, <1>16, <1>17
     DEF PidOneNext, SuperviseNext, ShutdownNext

\* Every reachable state is typed, and pid 1 knows what to do with the machine
\* whenever it is past supervise().
THEOREM TypeInvHolds == Spec => []TypeInv
<1>1. Init => TypeInv
  <2>1. Init => KernelTypeOK
    BY KernelAssumption DEF Init, KernelInit, KernelTypeOK, Kinds
  <2>2. Init => PidOneTypeOK
    <3>1. Init => idle \in BOOLEAN /\ left \in BOOLEAN
      BY Zenon DEF Init, PidOneInit
    <3>2. Init => rescue \in [at : Nat, strikes : Nat]
      BY DEF Init, PidOneInit, NewRescue
    <3>3. QED
      BY <3>1, <3>2, PidOneAssumption
         DEF Init, PidOneInit, PidOneTypeOK, Steps, Callers, NoLife, Never
  <2>3. Init => FlowOK
    BY DEF Init, PidOneInit, FlowOK
  <2>4. QED
    BY <2>1, <2>2, <2>3 DEF TypeInv, TypeOK
<1>2. TypeInv /\ [Next]_vars => TypeInv'
  <2> SUFFICES ASSUME TypeInv, [Next]_vars
               PROVE  TypeInv'
    OBVIOUS
  <2>1. CASE PidOneNext
    BY <2>1, PidOneActionsTyped
  <2>2. CASE ClockNext
    BY <2>2, KernelAssumption DEF ClockNext, Tick, pidOneVars, TypeInv, TypeOK,
       KernelTypeOK, PidOneTypeOK, FlowOK
  <2>3. CASE KernelNext /\ UNCHANGED pidOneVars
    BY <2>3, KernelActionsTyped DEF pidOneVars, TypeInv, TypeOK, PidOneTypeOK,
       FlowOK
  <2>4. CASE UNCHANGED vars
    BY <2>4 DEF vars, kernelVars, pidOneVars, TypeInv, TypeOK, KernelTypeOK,
       PidOneTypeOK, FlowOK
  <2>5. QED
    BY <2>1, <2>2, <2>3, <2>4 DEF Next
<1>3. QED
  BY <1>1, <1>2, PTL DEF Spec

\* The run's type invariant (TypeOK), for every value of the constants.
THEOREM TypeCorrect == Spec => []TypeOK
<1>1. TypeInv => TypeOK
  BY DEF TypeInv
<1>2. QED
  BY <1>1, TypeInvHolds, PTL

-------------------------------------------------------------------------------
(***************************************************************************)
(* The process tree.  A process whose parent ended belongs to pid 1, so    *)
(* parents are alive, and whoever exists has pid 1 among its ancestors.    *)
(***************************************************************************)

Existing == {p \in Pid : Exists(p)}

ParentAlive == \A q \in Existing : parent[q] # PID_ONE => Alive(parent[q])

\* Stated without recursion: every set of processes has a member whose parent is
\* outside of it.
Acyclic == \A S \in SUBSET Existing : S # {} => \E p \in S : parent[p] \notin S

TreeInv == ParentAlive /\ Acyclic

\* A step that creates no process and moves processes to pid 1 only, if at all,
\* keeps the tree acyclic.
LEMMA ShrinkingIsAcyclic ==
  ASSUME TypeOK, Acyclic, Existing' \subseteq Existing,
         \A q \in Existing' : parent'[q] \in {parent[q], PID_ONE}
  PROVE  Acyclic'
<1> SUFFICES ASSUME NEW S \in SUBSET Existing', S # {}
             PROVE  \E p \in S : parent'[p] \notin S
  BY DEF Acyclic
<1>1. PICK p \in S : parent[p] \notin S
  BY DEF Acyclic
<1>2. PID_ONE \notin S
  BY KernelAssumption DEF Existing
<1>3. QED
  BY <1>1, <1>2

\* A new process whose parent existed before keeps the tree acyclic.
LEMMA GrowingIsAcyclic ==
  ASSUME TypeOK, TreeInv, NEW c \in Pid, ~Exists(c), NEW d \in Existing \cup {PID_ONE},
         Existing' = Existing \cup {c}, parent' = [parent EXCEPT ![c] = d]
  PROVE  Acyclic'
<1> SUFFICES ASSUME NEW S \in SUBSET Existing', S # {}
             PROVE  \E p \in S : parent'[p] \notin S
  BY DEF Acyclic
<1>1. d # c /\ parent'[c] = d /\ \A q \in Existing : parent'[q] = parent[q]
  BY KernelAssumption DEF Existing, TypeOK, KernelTypeOK
<1>2. \A q \in Existing : parent[q] # c
  BY KernelAssumption DEF TreeInv, ParentAlive, Exists, Alive
<1>3. CASE S = {c}
  BY <1>1, <1>3
<1>4. CASE S # {c}
  <2>1. S \ {c} # {} /\ S \ {c} \in SUBSET Existing
    BY <1>4
  <2>2. PICK p \in S \ {c} : parent[p] \notin S \ {c}
    BY <2>1 DEF TreeInv, Acyclic
  <2>3. QED
    BY <1>1, <1>2, <2>1, <2>2
<1>5. QED
  BY <1>3, <1>4

\* Processes that start, end and are waited for elsewhere keep the tree a tree.
LEMMA KernelKeepsTree ==
  ASSUME TypeOK, TreeInv, KernelNext
  PROVE  TreeInv'
<1> USE KernelAssumption
    DEF TreeInv, ParentAlive, Existing, Exists, Alive, TypeOK, KernelTypeOK
<1>1. ASSUME NEW p \in Pid, Exists(p), Ends(p)
      PROVE  TreeInv'
  <2>1. Existing' \subseteq Existing
        /\ \A q \in Existing' : parent'[q] \in {parent[q], PID_ONE}
    BY <1>1 DEF Ends
  <2>2. ParentAlive'
    BY <1>1 DEF Ends
  <2>3. QED
    BY <2>1, <2>2, ShrinkingIsAcyclic
<1>2. ASSUME NEW p \in Pid, ShellQuits(p) \/ JobQuits(p) \/ Falls(p)
      PROVE  TreeInv'
  BY <1>1, <1>2 DEF ShellQuits, JobQuits, Falls
<1>3. ASSUME NEW p \in Pid, OpensSession(p) \/ BecomesShell(p) \/ Stops(p)
      PROVE  TreeInv'
  <2>1. Existing' \subseteq Existing
        /\ \A q \in Existing' : parent'[q] \in {parent[q], PID_ONE}
    BY <1>3 DEF OpensSession, BecomesShell, Stops
  <2>2. ParentAlive'
    BY <1>3 DEF OpensSession, BecomesShell, Stops
  <2>3. QED
    BY <2>1, <2>2, ShrinkingIsAcyclic
<1>4. ASSUME NEW p \in Pid, NEW c \in Pid, NEW k \in JobKinds, StartsJob(p, c, k)
      PROVE  TreeInv'
  <2>1. Existing' = Existing \cup {c} /\ ~Exists(c) /\ p \in Existing
        /\ parent' = [parent EXCEPT ![c] = p]
    BY <1>4 DEF StartsJob
  <2>2. ParentAlive'
    BY <1>4 DEF StartsJob
  <2>3. QED
    BY <2>1, <2>2, GrowingIsAcyclic
<1>5. ASSUME NEW p \in Pid, NEW c \in Pid, Collects(p, c)
      PROVE  TreeInv'
  <2>1. Existing' \subseteq Existing
        /\ \A q \in Existing' : parent'[q] \in {parent[q], PID_ONE}
    BY <1>5 DEF Collects
  <2>2. ParentAlive'
    BY <1>5 DEF Collects
  <2>3. QED
    BY <2>1, <2>2, ShrinkingIsAcyclic
<1>6. ASSUME NEW s \in Requests, Asks(s)
      PROVE  TreeInv'
  BY <1>6 DEF Asks, procVars, Acyclic
<1>7. CASE PressesCtrlAltDel
  BY <1>7 DEF PressesCtrlAltDel, procVars, Acyclic
<1>8. QED
  BY <1>2, <1>3, <1>4, <1>5, <1>6, <1>7 DEF KernelNext

\* Pid 1 creates processes in Fork only and removes them in ReapChild only; the
\* signals of a shutdown do not touch the tree.
LEMMA PidOneKeepsTree ==
  ASSUME TypeInv, TreeInv, PidOneNext
  PROVE  TreeInv'
<1> USE KernelAssumption
    DEF TreeInv, ParentAlive, Existing, Exists, Alive, TypeInv, TypeOK, KernelTypeOK
<1>1. ASSUME NEW z \in Pid, ReapChild(z)
      PROVE  TreeInv'
  <2>1. Existing' \subseteq Existing
        /\ \A q \in Existing' : parent'[q] \in {parent[q], PID_ONE}
    BY <1>1 DEF ReapChild, reap_one
  <2>2. ParentAlive'
    BY <1>1 DEF ReapChild, reap_one, Zombies, Children
  <2>3. QED
    BY <2>1, <2>2, ShrinkingIsAcyclic
<1>2. ASSUME NEW p \in Pid, Fork(p)
      PROVE  TreeInv'
  <2>1. Existing' = Existing \cup {p} /\ ~Exists(p)
        /\ parent' = [parent EXCEPT ![p] = PID_ONE]
    BY <1>2 DEF Fork, fork
  <2>2. ParentAlive'
    BY <1>2 DEF Fork, fork
  <2>3. QED
    BY <2>1, <2>2, GrowingIsAcyclic
<1>3. CASE Continue \/ Kill
  <2>1. Existing' \subseteq Existing
        /\ \A q \in Existing' : parent'[q] \in {parent[q], PID_ONE}
    BY <1>3 DEF Continue, Kill, continue_everyone, kill_everyone, Resumed
  <2>2. ParentAlive'
    BY <1>3 DEF Continue, Kill, continue_everyone, kill_everyone, Resumed
  <2>3. QED
    BY <2>1, <2>2, ShrinkingIsAcyclic
<1>4. ASSUME UNCHANGED <<st, parent>>
      PROVE  TreeInv'
  BY <1>4 DEF Acyclic
<1>5. ASSUME NEW l \in Pid, HangUp(l)
      PROVE  TreeInv'
  BY <1>4, <1>5 DEF HangUp, hang_up
<1>6. CASE Terminate
  BY <1>4, <1>6 DEF Terminate, terminate_everyone
<1>7. CASE ReapDone \/ Park \/ ForkFails \/ Track \/ Loop \/ WaitReturns
           \/ WaitTimesOut \/ WaitFails \/ Judge
  BY <1>4, <1>7 DEF ReapDone, Park, ForkFails, Track, Loop, WaitReturns,
     WaitTimesOut, WaitFails, Judge, kernelVars
<1>8. CASE Begin \/ Arm \/ CheckSilence \/ Poll \/ HandOver \/ HandOverRefused
  BY <1>4, <1>8 DEF Begin, Arm, CheckSilence, Poll, HandOver, HandOverRefused,
     kernelVars
<1>9. QED
  BY <1>1, <1>2, <1>3, <1>5, <1>6, <1>7, <1>8
     DEF PidOneNext, SuperviseNext, ShutdownNext

\* In every reachable state parents are alive and the tree has pid 1 at its root.
THEOREM TreeInvHolds == Spec => []TreeInv
<1>1. Init => TreeInv
  BY DEF Init, KernelInit, TreeInv, ParentAlive, Acyclic, Existing, Exists
<1>2. TypeInv /\ TreeInv /\ [Next]_vars => TreeInv'
  <2> SUFFICES ASSUME TypeInv, TreeInv, [Next]_vars
               PROVE  TreeInv'
    OBVIOUS
  <2>1. CASE PidOneNext
    BY <2>1, PidOneKeepsTree
  <2>2. CASE ClockNext \/ UNCHANGED vars
    BY <2>2 DEF ClockNext, Tick, vars, kernelVars, TreeInv, ParentAlive, Acyclic,
       Existing, Exists, Alive
  <2>3. CASE KernelNext /\ UNCHANGED pidOneVars
    BY <2>3, KernelKeepsTree DEF TypeInv
  <2>4. QED
    BY <2>1, <2>2, <2>3 DEF Next
<1>3. QED
  BY <1>1, <1>2, TypeInvHolds, PTL DEF Spec

-------------------------------------------------------------------------------
(***************************************************************************)
(* No child is lost.  Whatever makes a zombie of pid 1 sets SIGCHLD, and   *)
(* whatever takes SIGCHLD away enters reap_all(), which only leaves when   *)
(* there is no zombie.  The tree is needed for nobody being its own        *)
(* parent.                                                                 *)
(***************************************************************************)

\* A process that ends as, or leaves a zombie to, a child of pid 1 is announced.
LEMMA KernelKeepsChildren ==
  ASSUME TypeInv, TreeInv, NoLostChild, KernelNext, UNCHANGED pidOneVars
  PROVE  NoLostChild'
<1> USE DEF NoLostChild, Zombies, Children, Exists, TypeInv, TypeOK, KernelTypeOK,
            pidOneVars
<1>1. ASSUME NEW p \in Pid, st[p] # "free", st[p] # "zombie", Ends(p)
      PROVE  NoLostChild'
  <2>1. parent[p] # p
    <3>1. {p} \in SUBSET Existing
      BY <1>1 DEF Existing
    <3>2. \E q \in {p} : parent[q] \notin {p}
      BY <3>1 DEF TreeInv, Acyclic
    <3>3. QED
      BY <3>2
  <2>2. CASE parent[p] = PID_ONE \/ \E q \in Children(p) : st[q] = "zombie"
    BY <1>1, <2>2 DEF Ends
  <2>3. CASE ~(parent[p] = PID_ONE \/ \E q \in Children(p) : st[q] = "zombie")
    <3>1. \A q \in Pid : parent[q] = p /\ Exists(q) => st[q] # "zombie"
      BY <2>3
    <3>2. Zombies' \subseteq Zombies
      BY <1>1, <2>1, <2>3, <3>1 DEF Ends
    <3>3. QED
      BY <1>1, <2>3, <3>2 DEF Ends
  <2>4. QED
    BY <2>2, <2>3
<1>2. ASSUME NEW p \in Pid, ShellQuits(p) \/ JobQuits(p) \/ Falls(p)
      PROVE  NoLostChild'
  BY <1>1, <1>2 DEF ShellQuits, JobQuits, Falls
<1>3. ASSUME NEW p \in Pid, OpensSession(p) \/ BecomesShell(p) \/ Stops(p)
      PROVE  NoLostChild'
  BY <1>3 DEF OpensSession, BecomesShell, Stops
<1>4. ASSUME NEW p \in Pid, NEW c \in Pid, NEW k \in JobKinds, StartsJob(p, c, k)
      PROVE  NoLostChild'
  BY <1>4 DEF StartsJob
<1>5. ASSUME NEW p \in Pid, NEW c \in Pid, Collects(p, c)
      PROVE  NoLostChild'
  BY <1>5 DEF Collects
<1>6. ASSUME NEW s \in Requests, Asks(s)
      PROVE  NoLostChild'
  BY <1>6 DEF Asks
<1>7. ASSUME SIGINT \in Requests, PressesCtrlAltDel
      PROVE  NoLostChild'
  BY <1>7 DEF PressesCtrlAltDel
<1>8. QED
  BY <1>2, <1>3, <1>4, <1>5, <1>6, <1>7 DEF KernelNext

\* SIGCHLD asks for nothing but a look at the children.
LEMMA ChildChangedOnly == classify(SIGCHLD) = "ChildChanged"
  BY DEF classify, SIGCHLD, SIGTERM, SIGINT, SIGUSR1, SIGUSR2, SIGPWR, SIGHUP

\* Pid 1 takes SIGCHLD only on its way into reap_all(), and leaves that without a
\* zombie.
LEMMA PidOneKeepsChildren ==
  ASSUME TypeInv, NoLostChild, PidOneNext
  PROVE  NoLostChild'
<1> USE DEF NoLostChild, Zombies, Children, Exists, TypeInv, TypeOK, KernelTypeOK
<1>1. ASSUME NEW z \in Pid, ReapChild(z)
      PROVE  NoLostChild'
  BY <1>1 DEF ReapChild, reap_one, PidOneTypeOK
<1>2. CASE ReapDone
  BY <1>2 DEF ReapDone, kernelVars
<1>3. CASE Park
  BY <1>3 DEF Park
<1>4. ASSUME NEW p \in Pid, Fork(p)
      PROVE  NoLostChild'
  BY <1>4 DEF Fork, fork
<1>5. CASE ForkFails \/ WaitTimesOut \/ WaitFails
  BY <1>5 DEF ForkFails, WaitTimesOut, WaitFails, kernelVars
<1>6. CASE Track
  BY <1>6 DEF Track, kernelVars
<1>7. CASE Loop
  BY <1>7 DEF Loop, kernelVars
<1>8. CASE WaitReturns
  BY <1>8, ChildChangedOnly DEF WaitReturns, ChildChanged, Reload, Shutdown, Actions
<1>9. CASE Judge
  BY <1>9 DEF Judge, kernelVars
<1>10. CASE Begin
  BY <1>10 DEF Begin, kernelVars
<1>11. ASSUME NEW l \in Pid, HangUp(l)
       PROVE  NoLostChild'
  BY <1>11 DEF HangUp, hang_up
<1>12. CASE Terminate
  BY <1>12 DEF Terminate, terminate_everyone
<1>13. CASE Continue \/ Kill
  BY <1>13 DEF Continue, Kill, continue_everyone, kill_everyone, Resumed
<1>14. CASE Arm
  BY <1>14 DEF Arm, kernelVars
<1>15. CASE CheckSilence
  BY <1>15 DEF CheckSilence, kernelVars
<1>16. CASE Poll
  BY <1>16 DEF Poll
<1>17. CASE HandOver \/ HandOverRefused
  BY <1>17 DEF HandOver, HandOverRefused, kernelVars
<1>18. QED
  BY <1>1, <1>2, <1>3, <1>4, <1>5, <1>6, <1>7, <1>8, <1>9, <1>10, <1>11, <1>12,
     <1>13, <1>14, <1>15, <1>16, <1>17
     DEF PidOneNext, SuperviseNext, ShutdownNext

\* A dead child of pid 1 always has a SIGCHLD that will make pid 1 look, or pid 1
\* is looking.
THEOREM ChildrenNeverLost == Spec => []NoLostChild
<1>1. Init => NoLostChild
  BY DEF Init, KernelInit, NoLostChild, Zombies, Children, Exists
<1>2. TypeInv /\ TreeInv /\ NoLostChild /\ [Next]_vars => NoLostChild'
  <2> SUFFICES ASSUME TypeInv, TreeInv, NoLostChild, [Next]_vars
               PROVE  NoLostChild'
    OBVIOUS
  <2>1. CASE PidOneNext
    BY <2>1, PidOneKeepsChildren
  <2>2. CASE ClockNext \/ UNCHANGED vars
    BY <2>2 DEF ClockNext, Tick, vars, kernelVars, pidOneVars, NoLostChild, Zombies,
       Children, Exists
  <2>3. CASE KernelNext /\ UNCHANGED pidOneVars
    BY <2>3, KernelKeepsChildren
  <2>4. QED
    BY <2>1, <2>2, <2>3 DEF Next
<1>3. QED
  BY <1>1, <1>2, TypeInvHolds, TreeInvHolds, PTL DEF Spec

-------------------------------------------------------------------------------
(***************************************************************************)
(* Requests.  Only two steps of pid 1 take a signal out of the pending     *)
(* ones, and each of them takes one.                                       *)
(***************************************************************************)

\* Whatever happens around pid 1, nothing that is pending goes away.
LEMMA KernelKeepsPending ==
  ASSUME KernelNext
  PROVE  pend \subseteq pend'
<1>1. ASSUME NEW p \in Pid, Ends(p)
      PROVE  pend \subseteq pend'
  BY <1>1 DEF Ends
<1>2. ASSUME NEW p \in Pid, ShellQuits(p) \/ JobQuits(p) \/ Falls(p)
      PROVE  pend \subseteq pend'
  BY <1>1, <1>2 DEF ShellQuits, JobQuits, Falls
<1>3. ASSUME NEW p \in Pid, OpensSession(p) \/ BecomesShell(p) \/ Stops(p)
      PROVE  pend \subseteq pend'
  BY <1>3 DEF OpensSession, BecomesShell, Stops
<1>4. ASSUME NEW p \in Pid, NEW c \in Pid,
             Collects(p, c) \/ \E k \in JobKinds : StartsJob(p, c, k)
      PROVE  pend \subseteq pend'
  BY <1>4 DEF Collects, StartsJob
<1>5. CASE SIGINT \in Requests /\ PressesCtrlAltDel
  BY <1>5 DEF PressesCtrlAltDel
<1>6. ASSUME NEW s \in Requests, Asks(s)
      PROVE  pend \subseteq pend'
  BY <1>6 DEF Asks
<1>7. QED
  BY <1>2, <1>3, <1>4, <1>5, <1>6 DEF KernelNext

\* A request waits until it is obeyed, or another one has been (RequestsAreNotDropped,
\* signal.rs:66-71, main.rs:100-120).
THEOREM RequestsWait == Spec => RequestsAreNotDropped
<1> DEFINE Step ==
      \A s \in pend : classify(s) \in Actions /\ s \notin pend' /\ action = "none" =>
        action' = classify(s) /\ pc' = "reap" /\ caller' = "stop"
<1>1. ASSUME TypeInv, [Next]_vars
      PROVE  Step
  <2> SUFFICES ASSUME NEW s \in pend,
                      classify(s) \in Actions, s \notin pend', action = "none"
               PROVE  action' = classify(s) /\ pc' = "reap" /\ caller' = "stop"
    OBVIOUS
  <2>1. CASE WaitReturns
    <3>1. s = NextSignal(pend)
      BY <1>1, <2>1 DEF WaitReturns
    <3>2. classify(s) \notin {"ChildChanged", "Reload"}
      BY <1>1 DEF Actions
    <3>3. Shutdown(classify(s))
      BY <2>1, <3>1, <3>2 DEF WaitReturns
    <3>4. QED
      BY <3>3 DEF Shutdown
  <2>2. CASE ShutdownNext
    <3>1. pc \in {"hangup", "continue", "kill", "arm", "poll", "sync"}
          \/ (pc = "harvested" /\ caller # "supervise")
      BY <2>2 DEF ShutdownNext, Begin, HangUp, Terminate, Continue, Kill, Arm,
         CheckSilence, Poll, HandOver, HandOverRefused
    <3>2. action \in Actions
      BY <1>1, <3>1 DEF TypeInv, FlowOK
    <3>3. QED
      BY <1>1, <3>2 DEF Actions
  <2>3. CASE \/ \E z \in Pid : ReapChild(z) \/ Fork(z)
             \/ ReapDone \/ Park \/ ForkFails \/ Track \/ Loop \/ WaitTimesOut
             \/ WaitFails \/ Judge \/ ClockNext \/ UNCHANGED vars
    <3>1. UNCHANGED pend
      BY <2>3 DEF ReapChild, reap_one, Fork, fork, ReapDone, Park, ForkFails, Track,
         Loop, WaitTimesOut, WaitFails, Judge, ClockNext, Tick, vars, kernelVars
    <3>2. QED
      BY <1>1, <3>1
  <2>4. CASE KernelNext
    BY <1>1, <2>4, KernelKeepsPending
  <2>5. QED
    BY <1>1, <2>1, <2>2, <2>3, <2>4 DEF Next, PidOneNext, SuperviseNext
<1>2. QED
  BY <1>1, TypeInvHolds, PTL DEF Spec, RequestsAreNotDropped

-------------------------------------------------------------------------------
(***************************************************************************)
(* Seconds and ticks.  TicksPerSec is any number, so the products have to  *)
(* be compared by hand.                                                    *)
(***************************************************************************)

LEMMA Distributes ==
  ASSUME NEW a \in Int, NEW b \in Int, NEW t \in Int
  PROVE  (a + b) * t = a * t + b * t
  OBVIOUS

LEMMA MoreSecondsMoreTicks ==
  ASSUME NEW a \in Int, NEW b \in Int, NEW t \in Nat, a <= b
  PROVE  a * t <= b * t
<1>1. PICK d \in Nat : b = a + d
  BY a <= b, b - a \in Nat
<1>2. b * t = a * t + d * t
  BY <1>1, Distributes
<1>3. d * t \in Nat
  BY SMT
<1>4. a * t \in Int
  OBVIOUS
<1>5. QED
  BY <1>2, <1>3, <1>4

\* The clock in ticks: a second has TicksPerSec of them.
LEMMA NowIsInThisSecond ==
  ASSUME TypeOK
  PROVE  /\ Now \in Nat /\ sec * TicksPerSec <= Now
         /\ Now < (sec + 1) * TicksPerSec
<1>1. sec \in Nat /\ TicksPerSec \in Nat /\ sub \in 0 .. TicksPerSec - 1
  BY KernelAssumption DEF TypeOK, KernelTypeOK
<1>2. (sec + 1) * TicksPerSec = sec * TicksPerSec + TicksPerSec
  BY <1>1, Distributes
<1>3. sec * TicksPerSec \in Nat
  BY <1>1
<1>4. QED
  BY <1>1, <1>2, <1>3 DEF Now

-------------------------------------------------------------------------------
(***************************************************************************)
(* Silence.  reap_all() reports that no child is left only if the tree is  *)
(* empty, and nothing but pid 1 can put a process into an empty tree.      *)
(***************************************************************************)

Silence == pc \in {"harvested", "sync"} /\ ~left => Existing = {}

\* If pid 1 has no child there is no process: a tree without a root is empty.
LEMMA NoChildrenNobody ==
  ASSUME TypeOK, TreeInv, Children(PID_ONE) = {}
  PROVE  Existing = {}
<1> SUFFICES ASSUME Existing # {}
             PROVE  FALSE
  OBVIOUS
<1>1. PICK p \in Existing : parent[p] \notin Existing
  BY DEF TreeInv, Acyclic
<1>2. parent[p] \in Pid \cup {PID_ONE}
  BY DEF TypeOK, KernelTypeOK, Existing
<1>3. parent[p] # PID_ONE
  BY DEF Children, Existing
<1>4. Exists(parent[p])
  BY <1>1, <1>3 DEF TreeInv, ParentAlive, Alive, Exists
<1>5. QED
  BY <1>1, <1>2, <1>3, <1>4 DEF Existing

\* Whatever happens around pid 1 happens in or to a process that exists.
LEMMA NobodyStaysNobody ==
  ASSUME TypeOK, KernelNext, Existing = {}
  PROVE  Existing' = {}
<1> USE DEF Existing, Exists, TypeOK, KernelTypeOK
<1>1. ASSUME NEW p \in Pid, \/ ShellQuits(p) \/ JobQuits(p) \/ Falls(p)
                            \/ OpensSession(p) \/ BecomesShell(p) \/ Stops(p)
      PROVE  FALSE
  BY <1>1 DEF ShellQuits, JobQuits, Falls, OpensSession, BecomesShell, Stops
<1>2. ASSUME NEW p \in Pid, NEW c \in Pid, NEW k \in JobKinds, StartsJob(p, c, k)
      PROVE  FALSE
  BY <1>2 DEF StartsJob
<1>3. ASSUME NEW p \in Pid, NEW c \in Pid, Collects(p, c)
      PROVE  FALSE
  BY <1>3 DEF Collects
<1>4. ASSUME NEW s \in Requests, Asks(s)
      PROVE  UNCHANGED st
  BY <1>4 DEF Asks, procVars
<1>5. CASE PressesCtrlAltDel
  BY <1>5 DEF PressesCtrlAltDel, procVars
<1>6. QED
  BY <1>1, <1>2, <1>3, <1>4, <1>5 DEF KernelNext

\* Only the last round of reap_all() finds silence, and nothing pid 1 does before it
\* hands over to the kernel ends it.
LEMMA PidOneKeepsSilence ==
  ASSUME TypeInv, TreeInv, Silence, PidOneNext
  PROVE  Silence'
<1> USE DEF Silence
<1>1. CASE ReapDone
  <2>1. Existing' = Existing
    BY <1>1 DEF ReapDone, kernelVars, Existing, Exists
  <2>2. ~left' => Children(PID_ONE) = {}
    BY <1>1, Zenon DEF ReapDone
  <2>3. QED
    BY <2>1, <2>2, NoChildrenNobody DEF TypeInv
<1>2. CASE Begin
  <2>1. pc = "harvested" /\ (left => pc' = "hangup") /\ left' = left
    BY <1>2, Zenon DEF Begin, reapVars
  <2>2. Existing' = Existing
    BY <1>2 DEF Begin, kernelVars, Existing, Exists
  <2>3. QED
    BY <2>1, <2>2
<1>3. CASE CheckSilence
  <2>1. pc = "harvested" /\ left' = left
    BY <1>3 DEF CheckSilence
  <2>2. Existing' = Existing
    BY <1>3 DEF CheckSilence, kernelVars, Existing, Exists
  <2>3. QED
    BY <2>1, <2>2
<1>4. ASSUME NEW z \in Pid, ReapChild(z)
      PROVE  Silence'
  BY <1>4 DEF ReapChild
<1>5. ASSUME NEW p \in Pid, Fork(p) \/ HangUp(p)
      PROVE  Silence'
  BY <1>5 DEF Fork, HangUp
<1>6. CASE Park \/ ForkFails \/ Track \/ Loop \/ WaitReturns \/ WaitTimesOut
           \/ WaitFails \/ Judge
  BY <1>6 DEF Park, ForkFails, Track, Loop, WaitReturns, WaitTimesOut, WaitFails,
     Judge, Survived, DiedEarly, ChildChanged, Reload, Shutdown
<1>7. CASE Terminate \/ Continue \/ Kill \/ Arm \/ Poll \/ HandOver \/ HandOverRefused
  BY <1>7 DEF Terminate, Continue, Kill, Arm, Poll, HandOver, HandOverRefused
<1>8. QED
  BY <1>1, <1>2, <1>3, <1>4, <1>5, <1>6, <1>7
     DEF PidOneNext, SuperviseNext, ShutdownNext

\* In every reachable state silence is silence.
THEOREM SilenceInvHolds == Spec => []Silence
<1>1. Init => Silence
  BY DEF Init, PidOneInit, Silence
<1>2. TypeInv /\ TreeInv /\ Silence /\ [Next]_vars => Silence'
  <2> SUFFICES ASSUME TypeInv, TreeInv, Silence, [Next]_vars
               PROVE  Silence'
    OBVIOUS
  <2>1. CASE PidOneNext
    BY <2>1, PidOneKeepsSilence
  <2>2. CASE ClockNext \/ UNCHANGED vars
    BY <2>2 DEF ClockNext, Tick, vars, kernelVars, pidOneVars, Silence, Existing,
       Exists
  <2>3. CASE KernelNext /\ UNCHANGED pidOneVars
    BY <2>3, NobodyStaysNobody DEF pidOneVars, Silence, TypeInv
  <2>4. QED
    BY <2>1, <2>2, <2>3 DEF Next
<1>3. QED
  BY <1>1, <1>2, TypeInvHolds, TreeInvHolds, PTL DEF Spec

\* When pid 1 believes there are no children, no process exists at all (SilenceIsReal).
THEOREM SilenceHolds == Spec => []SilenceIsReal
<1>1. Silence => SilenceIsReal
  BY DEF Silence, SilenceIsReal, Existing
<1>2. QED
  BY <1>1, SilenceInvHolds, PTL

==============================================================================
