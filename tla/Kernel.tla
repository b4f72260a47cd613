-------------------------------- MODULE Kernel -------------------------------
(***************************************************************************)
(* The part of Linux that pid 1 runs on: the process tree, the signals     *)
(* pending on pid 1, the monotonic clock, who owns Ctrl+Alt+Del, and the   *)
(* power state of the machine.  The first half is the environment, what    *)
(* processes, the clock and the person at the keyboard may do at any time. *)
(* The second half is the effect of the system calls of sys.rs, which the  *)
(* modules of pid 1 use in their actions.                                  *)
(*                                                                         *)
(* kind[p] says how far a process is from what pid 1 forked:               *)
(*   "prep"    forked by pid 1, still in the code before setsid();         *)
(*             watched signals are still blocked, then unblocked           *)
(*   "leader"  has its own session and default dispositions, before the    *)
(*             shell it executes has set up its own                        *)
(*   "shell"   an interactive shell: ignores SIGTERM, dies of SIGHUP       *)
(*   "job"     any other process with default dispositions                 *)
(*   "daemon"  a process that ignores every signal it can ignore           *)
(*   "stuck"   a process in uninterruptible sleep, deaf even to SIGKILL    *)
(***************************************************************************)
EXTENDS Signals, FiniteSets

CONSTANTS
  Pid,          \* the process ids the kernel hands out
  PID_ONE,      \* pid 1 itself, not a member of Pid
  JobKinds,     \* the kinds of process a shell or a job may start
  Requests,     \* the signals somebody may send to pid 1
  TicksPerSec,  \* resolution of the clock below the second
  MaxJobs,      \* bound: how many processes are started besides the shells
  LastCall,     \* bound: last second in which a shell leaves or a request is sent
  MaxSec        \* bound: the second from which the clock waits for pid 1

ASSUME KernelAssumption ==
  /\ PID_ONE \notin Pid
  /\ JobKinds \subseteq {"job", "daemon", "stuck"}
  /\ Requests \subseteq WATCHED \ {SIGCHLD}
  /\ TicksPerSec \in Nat \ {0}
  /\ MaxJobs \in Nat /\ LastCall \in Nat /\ MaxSec \in Nat

VARIABLES
  st,       \* Pid -> "free", "live", "stopped" or "zombie"
  parent,   \* Pid -> the parent, PID_ONE for free pids
  kind,     \* Pid -> see above, "job" for free pids
  dying,    \* processes with a fatal signal pending
  pend,     \* signals pending on pid 1, at most one of each number
  sec, sub, \* the monotonic clock: whole seconds and ticks within the second
  cad,      \* who handles Ctrl+Alt+Del: "kernel" or "pid1"
  machine,  \* "up", or what the kernel was told to do
  asked,    \* the request signals sent so far
  jobs      \* processes started so far, besides the shells

procVars   == <<st, parent, kind, dying>>
clockVars  == <<sec, sub>>
kernelVars == <<st, parent, kind, dying, pend, sec, sub, cad, machine, asked, jobs>>

Spawned == {"prep", "leader", "shell"}
Kinds   == Spawned \cup {"job", "daemon", "stuck"}

KernelTypeOK ==
  /\ st \in [Pid -> {"free", "live", "stopped", "zombie"}]
  /\ parent \in [Pid -> Pid \cup {PID_ONE}]
  /\ kind \in [Pid -> Kinds]
  /\ dying \subseteq Pid
  /\ pend \subseteq WATCHED
  /\ sec \in Nat /\ sub \in 0 .. TicksPerSec - 1
  /\ cad \in {"kernel", "pid1"}
  /\ machine \in {"up"} \cup Actions
  /\ asked \subseteq Requests
  /\ jobs \in 0 .. MaxJobs

\* The kernel when main() has just finished setting up: no process but pid 1.
\* RB_DISABLE_CAD may have been refused, and then the kernel keeps the key.
KernelInit ==
  /\ st = [p \in Pid |-> "free"]
  /\ parent = [p \in Pid |-> PID_ONE]
  /\ kind = [p \in Pid |-> "job"]
  /\ dying = {}
  /\ pend = {}
  /\ sec = 0 /\ sub = 0
  /\ cad \in {"pid1", "kernel"}
  /\ machine = "up"
  /\ asked = {}
  /\ jobs = 0

Exists(p)   == st[p] # "free"
Alive(p)    == st[p] \in {"live", "stopped"}
Children(q) == {p \in Pid : Exists(p) /\ parent[p] = q}
Zombies     == {p \in Children(PID_ONE) : st[p] = "zombie"}
Now         == sec * TicksPerSec + sub

-------------------------------------------------------------------------------
(***************************************************************************)
(* What happens around pid 1.                                              *)
(***************************************************************************)

\* A process ends.  Its children become children of pid 1, and pid 1 hears of
\* it when a child of its own ended or when it inherits a zombie.
Ends(p) ==
  /\ st' = [st EXCEPT ![p] = "zombie"]
  /\ parent' = [q \in Pid |-> IF parent[q] = p THEN PID_ONE ELSE parent[q]]
  /\ dying' = dying \ {p}
  /\ pend' = IF parent[p] = PID_ONE \/ \E q \in Children(p) : st[q] = "zombie"
             THEN pend \cup {SIGCHLD} ELSE pend
  /\ UNCHANGED <<kind, clockVars, cad, machine, asked, jobs>>

\* A shell exits, or the image a leader wants to execute cannot be executed and
\* the child leaves with 127.
ShellQuits(p) ==
  /\ st[p] = "live" /\ kind[p] \in {"leader", "shell"}
  /\ sec <= LastCall
  /\ Ends(p)

JobQuits(p) ==
  /\ st[p] = "live" /\ kind[p] \in {"job", "daemon"}
  /\ Ends(p)

\* A fatal signal takes effect.
Falls(p) ==
  /\ st[p] = "live" /\ p \in dying /\ kind[p] # "stuck"
  /\ Ends(p)

\* The child unblocks its signals, opens its session and takes the terminal.
\* A pending fatal signal is delivered by the unblocking instead.
OpensSession(p) ==
  /\ st[p] = "live" /\ kind[p] = "prep" /\ p \notin dying
  /\ kind' = [kind EXCEPT ![p] = "leader"]
  /\ UNCHANGED <<st, parent, dying, pend, clockVars, cad, machine, asked, jobs>>

BecomesShell(p) ==
  /\ st[p] = "live" /\ kind[p] = "leader" /\ p \notin dying
  /\ kind' = [kind EXCEPT ![p] = "shell"]
  /\ UNCHANGED <<st, parent, dying, pend, clockVars, cad, machine, asked, jobs>>

\* A process starts another one.  fork() does not return in a process that has
\* a signal to take first.
StartsJob(p, c, k) ==
  /\ st[p] = "live" /\ kind[p] \in {"shell", "job", "daemon"} /\ p \notin dying
  /\ st[c] = "free"
  /\ jobs < MaxJobs
  /\ st' = [st EXCEPT ![c] = "live"]
  /\ parent' = [parent EXCEPT ![c] = p]
  /\ kind' = [kind EXCEPT ![c] = k]
  /\ jobs' = jobs + 1
  /\ UNCHANGED <<dying, pend, clockVars, cad, machine, asked>>

\* A parent other than pid 1 waits for its child; the pid is free again.
Collects(p, c) ==
  /\ st[p] = "live" /\ st[c] = "zombie" /\ parent[c] = p
  /\ st' = [st EXCEPT ![c] = "free"]
  /\ parent' = [parent EXCEPT ![c] = PID_ONE]
  /\ kind' = [kind EXCEPT ![c] = "job"]
  /\ UNCHANGED <<dying, pend, clockVars, cad, machine, asked, jobs>>

\* A job is stopped.  Its parent gets a SIGCHLD for that too.
Stops(p) ==
  /\ st[p] = "live" /\ kind[p] \in {"job", "daemon"} /\ p \notin dying
  /\ st' = [st EXCEPT ![p] = "stopped"]
  /\ pend' = IF parent[p] = PID_ONE THEN pend \cup {SIGCHLD} ELSE pend
  /\ UNCHANGED <<parent, kind, dying, clockVars, cad, machine, asked, jobs>>

\* Assumption: a runnable process with a fatal signal is scheduled, and gone,
\* before the clock moves on by a tick.
Prompt == \A p \in dying : st[p] = "live" => kind[p] = "stuck"

Tick ==
  /\ Prompt
  /\ IF sub + 1 < TicksPerSec
     THEN sub' = sub + 1 /\ sec' = sec
     ELSE sub' = 0 /\ sec' = sec + 1
  /\ UNCHANGED <<procVars, pend, cad, machine, asked, jobs>>

\* Somebody sends a request to pid 1.  The bound: each number at most once.
Asks(s) ==
  /\ s \notin asked /\ s # SIGINT
  /\ sec <= LastCall
  /\ asked' = asked \cup {s}
  /\ pend' = pend \cup {s}
  /\ UNCHANGED <<procVars, clockVars, cad, machine, jobs>>

\* Ctrl+Alt+Del: the kernel resets the machine on the spot, or turns the key
\* into a SIGINT for pid 1.
PressesCtrlAltDel ==
  /\ sec <= LastCall
  /\ asked' = asked \cup {SIGINT}
  /\ \/ /\ cad = "kernel"
        /\ machine' = "reboot"
        /\ UNCHANGED pend
     \/ /\ cad = "pid1" /\ SIGINT \notin asked
        /\ pend' = pend \cup {SIGINT}
        /\ UNCHANGED machine
  /\ UNCHANGED <<procVars, clockVars, cad, jobs>>

KernelNext ==
  /\ machine = "up"
  /\ \/ \E p \in Pid : \/ ShellQuits(p) \/ JobQuits(p) \/ Falls(p)
                       \/ OpensSession(p) \/ BecomesShell(p) \/ Stops(p)
     \/ \E p, c \in Pid, k \in JobKinds : StartsJob(p, c, k)
     \/ \E p, c \in Pid : Collects(p, c)
     \/ \E s \in Requests : Asks(s)
     \/ SIGINT \in Requests /\ PressesCtrlAltDel

-------------------------------------------------------------------------------
(***************************************************************************)
(* The system calls of sys.rs, as seen from pid 1.                         *)
(***************************************************************************)

\* fork(): a copy of pid 1 under a pid that was free.
fork(p) ==
  /\ st[p] = "free"
  /\ st' = [st EXCEPT ![p] = "live"]
  /\ parent' = [parent EXCEPT ![p] = PID_ONE]
  /\ kind' = [kind EXCEPT ![p] = "prep"]
  /\ UNCHANGED <<dying, pend>>

\* reap_one() when it returns Child(z): waitpid(-1, WNOHANG) frees a pid.
reap_one(z) ==
  /\ z \in Zombies
  /\ st' = [st EXCEPT ![z] = "free"]
  /\ kind' = [kind EXCEPT ![z] = "job"]
  /\ UNCHANGED <<parent, dying, pend>>

\* signal_group(leader, SIGHUP).  The group exists once the leader has its
\* session; before that kill() fails and the code does not look.
hang_up(l) ==
  /\ dying' = IF Alive(l) /\ kind[l] \in {"leader", "shell"}
              THEN dying \cup {l} ELSE dying
  /\ UNCHANGED <<st, parent, kind, pend>>

\* signal_everyone(SIGTERM): everyone with the default disposition will end.
terminate_everyone ==
  /\ dying' = dying \cup {p \in Pid : Alive(p) /\ kind[p] \in {"prep", "leader", "job"}}
  /\ UNCHANGED <<st, parent, kind, pend>>

Resumed == [p \in Pid |-> IF st[p] = "stopped" THEN "live" ELSE st[p]]

\* signal_everyone(SIGCONT): everyone stopped runs again, which pid 1 hears of.
continue_everyone ==
  /\ st' = Resumed
  /\ pend' = IF \E p \in Children(PID_ONE) : st[p] = "stopped"
             THEN pend \cup {SIGCHLD} ELSE pend
  /\ UNCHANGED <<parent, kind, dying>>

\* signal_everyone(SIGKILL): nobody can refuse, and stopped processes run.
kill_everyone ==
  /\ dying' = dying \cup {p \in Pid : Alive(p)}
  /\ st' = Resumed
  /\ UNCHANGED <<parent, kind, pend>>

==============================================================================
