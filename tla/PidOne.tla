-------------------------------- MODULE PidOne -------------------------------
(***************************************************************************)
(* The state of pid 1 and the two subroutines that supervising and         *)
(* shutting down share: reap_all() (signal.rs) and park() (main.rs).       *)
(*                                                                         *)
(* Pid 1 is one thread.  pc names the next step; a step ends where the     *)
(* code enters the kernel or reads the clock, so that children, the clock  *)
(* and senders of signals can act between any two of them.  caller is the  *)
(* call site reap_all() returns to.                                        *)
(***************************************************************************)
EXTENDS Kernel, ProcTable, Rescue

CONSTANTS
  MaxCandidates,         \* length of CANDIDATES
  RESPAWN_IS_TOO_FAST,   \* a shorter life, in whole seconds, is an early death
  RESPAWN_BACKOFF_SECS,  \* pause after an early death
  GRACE_SECS,            \* how long SIGTERM and SIGHUP have to work
  AFTER_KILL_SECS,       \* how long SIGKILL has to work
  Faults                 \* the system calls that may fail

ASSUME PidOneAssumption ==
  /\ MaxCandidates \in Nat
  /\ RESPAWN_IS_TOO_FAST \in Nat \ {0} /\ RESPAWN_BACKOFF_SECS \in Nat \ {0}
  /\ GRACE_SECS \in Nat \ {0} /\ AFTER_KILL_SECS \in Nat \ {0}
  /\ Faults \subseteq {"fork", "poll", "reboot", "cad"}

VARIABLES
  pc, caller,          \* where pid 1 is
  usable,              \* how many candidate shells exist in the initramfs
  rescue,              \* struct Rescue
  idle, respawnAt,     \* locals of supervise()
  table,               \* struct Table
  newpid,              \* what fork() returned, until it is tracked
  shortest, left,      \* struct Harvest, as reap_all() builds it
  action,              \* what supervise() returned, "none" before
  leaders,             \* the session leaders still to be hung up
  deadline,            \* local of wait_for_silence()
  \* History, read by properties only:
  lastFork,            \* the tick of the last fork
  attempts,            \* shells started since the strikes were last cleared
  missed,              \* leaders hung up before they had a session to hang up
  since                \* the tick in which the last round of signals ended

controlVars   == <<pc, caller>>
superviseVars == <<usable, rescue, idle, respawnAt>>
reapVars      == <<table, newpid, shortest, left>>
shutdownVars  == <<action, leaders, deadline>>
historyVars   == <<lastFork, attempts, missed, since>>
pidOneVars    == <<controlVars, superviseVars, reapVars, shutdownVars, historyVars>>
vars          == <<kernelVars, pidOneVars>>

\* What only the clock, the firmware and other people change.
elsewhere == <<sec, sub, cad, machine, asked, jobs>>

NoLife  == -1   \* shortest_life is None
Never   == -1   \* nothing was forked or signalled yet
Callers == {"supervise", "stop", "grace", "afterkill"}
Steps   == {"fork", "track", "loop", "wait", "reap", "harvested", "hangup",
            "continue", "arm", "poll", "kill", "sync", "down",
            "park", "parked"}

PidOneTypeOK ==
  /\ pc \in Steps /\ caller \in Callers
  /\ usable \in 0 .. MaxCandidates
  /\ rescue \in [at : Nat, strikes : Nat]
  /\ idle \in BOOLEAN /\ respawnAt \in Nat
  /\ table \subseteq EntryType(Pid)
  /\ newpid \in Pid \cup {PID_ONE}
  /\ shortest \in Nat \cup {NoLife} /\ left \in BOOLEAN
  /\ action \in Actions \cup {"none"}
  /\ leaders \subseteq Pid /\ deadline \in Nat
  /\ lastFork \in Nat \cup {Never} /\ attempts \in Nat
  /\ missed \subseteq Pid /\ since \in Nat \cup {Never}

\* main() from Rescue::new() on: without a usable shell it parks, with one it
\* starts it.
PidOneInit ==
  /\ usable \in 0 .. MaxCandidates
  /\ pc = IF usable = 0 THEN "park" ELSE "fork"
  /\ caller = "supervise"
  /\ rescue = NewRescue
  /\ idle = FALSE /\ respawnAt = 0
  /\ table = {} /\ newpid = PID_ONE
  /\ shortest = NoLife /\ left = FALSE
  /\ action = "none" /\ leaders = {} /\ deadline = 0
  /\ lastFork = Never /\ attempts = 0 /\ missed = {} /\ since = Never

Goto(here, there) == pc = here /\ pc' = there

\* A call of reap_all().
CallReapAll(from) ==
  /\ pc' = "reap" /\ caller' = from
  /\ shortest' = NoLife

-------------------------------------------------------------------------------

Shorter(life) ==
  IF shortest = NoLife \/ life < shortest THEN life ELSE shortest

\* Variant for the mutation check: the death of an orphan counts as a life of 0.
ReapChildCountsOrphans(z) ==
  /\ pc = "reap"
  /\ reap_one(z)
  /\ table' = record_exit(table, z)
  /\ \/ /\ Found(table, z) = {}
        /\ shortest' = 0
     \/ \E e \in Found(table, z) : shortest' = Shorter(ran_for(e, sec))
  /\ UNCHANGED <<elsewhere, controlVars, superviseVars, newpid, left,
                 shutdownVars, historyVars>>

\* One round of reap_all(): waitpid() returns the zombie z.  If the table knows
\* z its life counts; if not, z was an orphan pid 1 inherited.
ReapChild(z) ==
  /\ pc = "reap"
  /\ reap_one(z)
  /\ table' = record_exit(table, z)
  /\ \/ /\ Found(table, z) = {}
        /\ UNCHANGED shortest
     \/ \E e \in Found(table, z) : shortest' = Shorter(ran_for(e, sec))
  /\ UNCHANGED <<elsewhere, controlVars, superviseVars, newpid, left,
                 shutdownVars, historyVars>>

\* Variant for the mutation check: one SIGCHLD, one waitpid().
ReapDoneEarly ==
  /\ Goto("reap", "harvested")
  /\ left' = (Children(PID_ONE) # {})
  /\ table' = forget_finished(table)
  /\ UNCHANGED <<kernelVars, caller, superviseVars, newpid, shortest,
                 shutdownVars, historyVars>>

\* Variant for the mutation check: the table is asked who is left, and it knows
\* nothing of orphans.
ReapDoneAsksTheTable ==
  /\ Goto("reap", "harvested")
  /\ Zombies = {}
  /\ left' = (Running(table) # {})
  /\ table' = forget_finished(table)
  /\ UNCHANGED <<kernelVars, caller, superviseVars, newpid, shortest,
                 shutdownVars, historyVars>>

\* The last round: no zombie is left, with or without living children.
ReapDone ==
  /\ Goto("reap", "harvested")
  /\ Zombies = {}
  /\ left' = (Children(PID_ONE) # {})
  /\ table' = forget_finished(table)
  /\ UNCHANGED <<kernelVars, caller, superviseVars, newpid, shortest,
                 shutdownVars, historyVars>>

\* Variant for the mutation check: the key stays with a pid 1 that sleeps.
ParkKeepsTheKey ==
  /\ Goto("park", "parked")
  /\ UNCHANGED <<kernelVars, caller, superviseVars, reapVars, shutdownVars,
                 historyVars>>

\* park() gives Ctrl+Alt+Del back to the kernel, unless the kernel refuses, and
\* then sleeps in pause() for good: there is no step out of "parked".
Park ==
  /\ Goto("park", "parked")
  /\ cad' \in {"kernel"} \cup (IF "cad" \in Faults THEN {cad} ELSE {})
  /\ UNCHANGED <<procVars, pend, clockVars, machine, asked, jobs, caller,
                 superviseVars, reapVars, shutdownVars, historyVars>>

==============================================================================
