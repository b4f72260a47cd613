-------------------------------- MODULE ZevInit ------------------------------
(***************************************************************************)
(* zevinit on its kernel: supervision, shutdown, and everything around     *)
(* pid 1, interleaved.  The properties below are what zevinit promises.    *)
(***************************************************************************)
EXTENDS Supervise, Shutdown

Init == KernelInit /\ PidOneInit

\* A step of pid 1.  Nothing runs once the kernel has taken the machine down.
PidOneNext ==
  /\ machine = "up"
  /\ \/ \E z \in Pid : ReapChild(z)
     \/ ReapDone
     \/ Park
     \/ SuperviseNext
     \/ ShutdownNext

\* The bound on the clock: from MaxSec on it only runs while pid 1 is waiting
\* for a deadline of its own.
DeadlineRuns ==
  \/ pc \in {"loop", "wait"} /\ Running(table) = {} /\ sec < respawnAt
  \/ pc \in {"reap", "harvested", "poll"} /\ caller \in {"grace", "afterkill"}
     /\ sec < deadline

ClockNext ==
  /\ machine = "up"
  /\ sec < MaxSec \/ DeadlineRuns
  /\ Tick
  /\ UNCHANGED pidOneVars

FallsNext(p) ==
  /\ machine = "up"
  /\ Falls(p)
  /\ UNCHANGED pidOneVars

Next ==
  \/ PidOneNext
  \/ ClockNext
  \/ KernelNext /\ UNCHANGED pidOneVars

Spec == Init /\ [][Next]_vars

\* Pid 1 is a thread the kernel schedules, the clock goes on, and a process with
\* a fatal signal that can be delivered dies.  Nobody is obliged to exit, to
\* start anything or to send a signal.
Fairness ==
  /\ WF_vars(PidOneNext)
  /\ WF_vars(ClockNext)
  /\ \A p \in Pid : WF_vars(FallsNext(p))

FairSpec == Spec /\ Fairness

-------------------------------------------------------------------------------
(***************************************************************************)
(* Safety.                                                                 *)
(***************************************************************************)

Shells == {p \in Pid : kind[p] \in Spawned}

\* Every variable has its type.
TypeOK == KernelTypeOK /\ PidOneTypeOK

\* A dead child of pid 1 is never forgotten: as long as one is waiting to be
\* reaped, a SIGCHLD is still pending or pid 1 is in reap_all() already, parked or
\* going down included.  One SIGCHLD may stand for many deaths, and one that is
\* read and dropped by wait_for_silence() counts too (signal.rs:78-103,
\* power.rs:77-91).
NoLostChild == Zombies # {} => SIGCHLD \in pend \/ pc = "reap"

\* Pid 1 never sits in the endless poll() while no shell of its own is alive and
\* nothing is about to wake it (main.rs:87-105: the wait uses the idle that was
\* computed before the spawn).
NoSilentDeath ==
  pc = "wait" /\ ~idle /\ pend = {} => \E p \in Shells : Alive(p)

\* There is never more than one shell, dead or alive, on the console
\* (main.rs:87-92).
AtMostOneShell == Cardinality(Shells) <= 1

\* The table never claims a child it does not have: a running entry is a process
\* that pid 1 forked and did not reap, even though the kernel gives the pids of
\* the dead to strangers (proc.rs:84-97), and a shell that exists is in the table
\* or on its way into it.
TableMatchesKernel ==
  /\ \A e \in Running(table) :
       Exists(e.pid) /\ parent[e.pid] = PID_ONE /\ kind[e.pid] \in Spawned
  /\ Shells = {e.pid : e \in Running(table)} \cup ({newpid} \ {PID_ONE})

\* Each early death of a shell costs exactly one strike, and the death of
\* anything else costs none: the strikes are the shells started since they were
\* last cleared, less the one that is alive or not judged yet (signal.rs:87-102,
\* main.rs:108-115).
Outstanding ==
  IF newpid # PID_ONE \/ Running(table) # {} \/ shortest # NoLife THEN 1 ELSE 0

EveryDeathJudgedOnce ==
  action = "none" /\ pc \notin {"park", "parked"} =>
    attempts = rescue.strikes + Outstanding

\* A candidate is only left behind, and pid 1 only gives up on the last one,
\* when as many shells as there are strikes were started since the strikes were
\* last cleared and every one of them is dead and reaped; the fallback never goes
\* past the last candidate (shell.rs:59-70, main.rs:108-115).
PatientFallback ==
  [][/\ rescue'.at # rescue.at \/ (pc = "harvested" /\ pc' = "park") =>
          attempts = STRIKES_BEFORE_MOVING_ON /\ Shells = {}
     /\ pc' = "fork" => rescue.at < usable]_vars

\* Two shells never start in the same second of the clock (main.rs:88, 112).
StartsInDistinctSeconds ==
  [][\A p \in Pid : Fork(p) /\ lastFork # Never =>
       lastFork < sec * TicksPerSec]_vars

\* A request is obeyed or keeps waiting: until one of them has been read, none is lost
\* to a death, a hangup or another request that pid 1 reads before it, whatever it does
\* in between; and the one that is read is the one that is obeyed (signal.rs:66-71,
\* main.rs:100-120).
RequestsAreNotDropped ==
  [][\A s \in pend : classify(s) \in Actions /\ s \notin pend' /\ action = "none" =>
       action' = classify(s) /\ pc' = "reap" /\ caller' = "stop"]_vars

\* When waitpid() says there are no children, there is no process at all, so
\* nothing is left that could write to a filesystem (power.rs:50, 78).
SilenceIsReal ==
  pc = "sync" /\ ~left => \A p \in Pid : ~Exists(p)

\* Whatever is still alive when the kernel takes over is in uninterruptible
\* sleep (power.rs:68-71).
OnlyTheUnkillableRemain ==
  pc \in {"sync", "down"} => \A p \in Pid : Alive(p) => kind[p] = "stuck"

\* SIGKILL is the last resort: when it is sent, every process that had taken
\* SIGTERM or SIGHUP to heart is gone, and so is the shell, unless it had no
\* session yet when it was hung up (power.rs:55-60).
KillIsLastResort ==
  pc = "kill" => \A p \in Pid : Alive(p) =>
    /\ p \in dying => kind[p] = "stuck"
    /\ kind[p] \in Spawned => p \in missed

\* SIGKILL does not come before the grace period is over but for the fraction of
\* a second that the deadline loses, and the machine does not go down with
\* processes on it before SIGKILL had its time (power.rs:74-83).
DeadlinesHonoured ==
  /\ pc = "kill" => Now - since > (GRACE_SECS - 1) * TicksPerSec
  /\ pc = "sync" /\ left =>
       caller = "afterkill" /\ Now - since > (AFTER_KILL_SECS - 1) * TicksPerSec

\* Once it is going down pid 1 only moves forward, and never back to supervising: no
\* round of signals is sent twice, and a wait that has begun does not move its own
\* deadline, however many signals and deaths arrive, or are dropped, in the meantime
\* (power.rs:38-91).
Where == IF pc \in {"arm", "reap", "harvested", "poll"} THEN caller ELSE pc

Order ==
  [stop |-> 1, hangup |-> 2, continue |-> 3, grace |-> 4, kill |-> 5, afterkill |-> 6,
   sync |-> 7, park |-> 8, parked |-> 9, down |-> 9]

NoWayBack ==
  [][action # "none" =>
       /\ Where' \in DOMAIN Order /\ Order[Where] <= Order[Where']
       /\ Where' = Where /\ pc # "arm" => pc' # "arm" /\ deadline' = deadline]_vars

-------------------------------------------------------------------------------
(***************************************************************************)
(* What pid 1 promises.  The shell of Lifecycle is the one process that    *)
(* pid 1 forked itself and that is alive; main() is booting until the      *)
(* first fork, and parked when the key is back with the kernel.            *)
(***************************************************************************)

LivingShells == {p \in Shells : Alive(p)}

Phase ==
  IF machine # "up" THEN "down"
  ELSE IF pc = "parked" THEN "parked"
  ELSE IF action # "none" THEN "stopping"
  ELSE IF lastFork = Never THEN "booting" ELSE "up"

L == INSTANCE Lifecycle WITH
       Process <- Pid, NoShell <- PID_ONE, Orders <- Actions,
       KeyMayStick <- "cad" \in Faults,
       phase   <- Phase,
       shell   <- IF LivingShells = {} THEN PID_ONE ELSE CHOOSE p \in LivingShells : TRUE,
       running <- {p \in Pid : Alive(p) /\ kind[p] # "stuck"},
       order   <- action,
       power   <- machine,
       key     <- cad

\* Every step of pid 1, of the processes and of the person at the keyboard is a
\* step of an init that keeps its promise, or none at all: no second shell, no
\* shell after a request, nobody alive who could be killed when the kernel takes
\* over, the first request obeyed and no later one, the key back when pid 1 gives up
\* (main.rs:64-166, power.rs:38-93).
ImplementsLifecycle == L!Spec

-------------------------------------------------------------------------------
(***************************************************************************)
(* Liveness.                                                               *)
(***************************************************************************)

\* A dead shell is always replaced until pid 1 parks or goes down, and whatever
\* it was asked for comes to an end: the machine is down, or pid 1 has parked
\* (main.rs:86-126, power.rs:38-93).
KeepsServing == L!Serves /\ L!Obeys

\* Every zombie pid 1 has inherited or forked is reaped, unless pid 1 parks or
\* the machine goes down first (signal.rs:78-110).
EveryZombieReaped ==
  \A p \in Pid : p \in Zombies ~> p \notin Zombies \/ pc = "parked" \/ machine # "up"

\* A request to go down that pid 1 has not read yet takes the machine down, or
\* pid 1 parks and with that gives Ctrl+Alt+Del back to the kernel, unless the
\* kernel refuses; no process can hold the shutdown up (power.rs:38-93,
\* main.rs:153-166).
RequestHonoured ==
  (\E s \in pend : classify(s) \in Actions) ~>
    \/ machine # "up"
    \/ pc = "parked" /\ (cad = "kernel" \/ "cad" \in Faults)

-------------------------------------------------------------------------------

\* Claim of zevinit/README.md:24-25, "restarts it when it exits, no faster than
\* once a second": two starts are a second apart.  The code compares whole
\* seconds (sys.rs:263-267, main.rs:110), so a shell that is started late in one
\* second and dies early in the next has "survived" and is replaced at once.
RespawnNoFasterThanOnceASecond ==
  [][\A p \in Pid : Fork(p) /\ lastFork # Never => Now - lastFork >= TicksPerSec]_vars

==============================================================================
