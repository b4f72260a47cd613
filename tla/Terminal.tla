-------------------------------- MODULE Terminal -------------------------------
(***************************************************************************)
(* Who has the console: whose session owns it, which process group         *)
(* Ctrl+C goes to, and whether its output is held.  Pid 1 takes it first,  *)
(* the child it forks must take it over before it executes the shell, a    *)
(* shell that dies sets it free, a daemon that outlives its shell may have *)
(* taken it by the time of the next, and every line pid 1 writes to it     *)
(* waits while somebody holds the output.                                  *)
(*                                                                         *)
(* How strikes are counted, children reaped and processes stopped is in    *)
(* the other modules: here a process that died is gone at once, pid 1 may  *)
(* park at any time and goes down in one step.                             *)
(*                                                                         *)
(* Assumptions: the console is a terminal; nobody but pid 1's children     *)
(* takes a terminal away from the session that has it; the kernel does     *)
(* not refuse RB_ENABLE_CAD (for a kernel that does see Boot and PidOne).  *)
(***************************************************************************)
EXTENDS Integers

CONSTANTS
  Procs,     \* process ids the kernel hands out
  PID_ONE,   \* pid 1
  Nobody     \* no session, no group, no process

ASSUME TerminalAssumption == PID_ONE \notin Procs /\ Nobody \notin Procs \cup {PID_ONE}

VARIABLES
  at,       \* the next step of pid 1
  kind,     \* Procs -> what a process is, "gone" for a free id
  session,  \* Procs -> the leader of its session
  group,    \* Procs -> its process group
  masked,   \* the processes with the signals of WATCHED blocked, pid 1 among them
  owner,    \* the session whose controlling terminal the console is
  front,    \* the foreground group of the console
  job,      \* the process that a shell waits for at the console
  held,     \* whether output to the console is stopped (Ctrl+S)
  cad,      \* who handles Ctrl+Alt+Del
  request,  \* what first asked pid 1 to go down
  served    \* history: whether there has been a shell

procs == <<kind, session, group, masked>>
tty   == <<owner, front, job>>
vars  == <<at, procs, tty, held, cad, request, served>>

\* A child of pid 1 on its way to exec, by what it has done.
Preparing == {"forked", "unmasked", "leader", "owner"}
PidOneSteps ==
  {"stdio", "ctty", "block", "cad", "banner", "serve", "going", "park", "parking",
   "parked", "off"}

Living   == {p \in Procs : kind[p] # "gone"}
Children == {p \in Living : kind[p] \in Preparing \cup {"shell"}}
Up       == at # "off"

TypeOK ==
  /\ at \in PidOneSteps
  /\ kind \in [Procs -> Preparing \cup {"gone", "shell", "job"}]
  /\ session \in [Procs -> Procs \cup {PID_ONE}]
  /\ group \in [Procs -> Procs \cup {PID_ONE}]
  /\ masked \subseteq Procs \cup {PID_ONE}
  /\ owner \in Procs \cup {PID_ONE, Nobody} /\ front \in Procs \cup {PID_ONE, Nobody}
  /\ job \in Procs \cup {Nobody}
  /\ held \in BOOLEAN /\ cad \in {"kernel", "pid1"} /\ served \in BOOLEAN
  /\ request \in {"none", "ctrl-c", "ctrl-alt-del", "command"}
  /\ (owner = Nobody) = (front = Nobody)
  /\ job # Nobody => kind[job] = "job"
  /\ \A p, q \in Children : p = q

Init ==
  /\ at = "stdio"
  /\ kind = [p \in Procs |-> "gone"]
  /\ session = [p \in Procs |-> PID_ONE] /\ group = [p \in Procs |-> PID_ONE]
  /\ masked = {}
  /\ owner = Nobody /\ front = Nobody /\ job = Nobody
  /\ held = FALSE /\ cad = "kernel" /\ request = "none" /\ served = FALSE

\* An id is handed out when nothing is called by it any more.
Free(p) ==
  /\ p \notin Living /\ p \notin {owner, front}
  /\ \A q \in Living : p \notin {session[q], group[q]}
--------------------------------------------------------------------------------
(***************************************************************************)
(* Pid 1.                                                                  *)
(***************************************************************************)

\* Variant for the mutation check: the child takes the terminal as pid 1 did.
set_ctty_politely(p, g, steal) ==
  IF owner \in {p, Nobody}
  THEN owner' = p /\ front' = g
  ELSE UNCHANGED <<owner, front>>

\* TIOCSCTTY: a session leader takes the terminal if it is free, or by force, and
\* whoever had it has it no more.
set_ctty(p, g, steal) ==
  IF owner \in {p, Nobody} \/ steal
  THEN owner' = p /\ front' = g
  ELSE UNCHANGED <<owner, front>>

\* attach_stdio(): without a console of its own pid 1 carries on, and takes none.
AttachStdio ==
  /\ at = "stdio" /\ at' \in {"ctty", "block"}
  /\ UNCHANGED <<procs, tty, held, cad, request, served>>

\* take_ctty(): setsid(), then TIOCSCTTY without force, which may fail.
TakeCtty ==
  /\ at = "ctty" /\ at' = "block"
  /\ \/ set_ctty(PID_ONE, PID_ONE, FALSE)
     \/ UNCHANGED <<owner, front>>
  /\ UNCHANGED <<procs, job, held, cad, request, served>>

\* Signals::install(), or pid 1 parks.
Install ==
  /\ at = "block"
  /\ \/ at' = "cad" /\ masked' = masked \cup {PID_ONE}
     \/ at' = "park" /\ UNCHANGED masked
  /\ UNCHANGED <<kind, session, group, tty, held, cad, request, served>>

DisableCtrlAltDel ==
  /\ at = "cad" /\ at' = "banner" /\ cad' \in {"pid1", cad}
  /\ UNCHANGED <<procs, tty, held, request, served>>

\* to_console(): a write to a terminal whose output is held waits.
Banner ==
  /\ at = "banner" /\ at' = "serve" /\ ~held
  /\ UNCHANGED <<procs, tty, held, cad, request, served>>

\* Variant for the mutation check: a child that has not executed its shell yet does
\* not count.
ForkUnlessServed(p) ==
  /\ at = "serve" /\ ~(\E q \in Living : kind[q] = "shell") /\ Free(p)
  /\ kind' = [kind EXCEPT ![p] = "forked"]
  /\ session' = [session EXCEPT ![p] = PID_ONE]
  /\ group' = [group EXCEPT ![p] = PID_ONE]
  /\ masked' = masked \cup {p}
  /\ UNCHANGED <<at, tty, held, cad, request, served>>

\* Table::spawn() in the parent, whenever no child runs.
Fork(p) ==
  /\ at = "serve" /\ Children = {} /\ Free(p)
  /\ kind' = [kind EXCEPT ![p] = "forked"]
  /\ session' = [session EXCEPT ![p] = PID_ONE]
  /\ group' = [group EXCEPT ![p] = PID_ONE]
  /\ masked' = masked \cup {p}
  /\ UNCHANGED <<at, tty, held, cad, request, served>>

\* A request is read from the signalfd; "zevory is going down" is written.
GoDown ==
  /\ at = "serve" /\ request # "none" /\ at' = "going"
  /\ UNCHANGED <<procs, tty, held, cad, request, served>>

Down ==
  /\ at = "going" /\ ~held /\ at' = "off"
  /\ UNCHANGED <<procs, tty, held, cad, request, served>>

\* Whatever makes pid 1 give up: see Supervise and Shutdown.
GiveUp ==
  /\ at = "serve" /\ at' = "park"
  /\ UNCHANGED <<procs, tty, held, cad, request, served>>

\* Variant for the mutation check: it says that it is parked before it gives the key
\* back.
ParkSpeaksFirst ==
  /\ \/ at = "park" /\ ~held /\ at' = "parking" /\ UNCHANGED cad
     \/ at = "parking" /\ at' = "parked" /\ cad' = "kernel"
  /\ UNCHANGED <<procs, tty, held, request, served>>

\* park(): the key goes back to the kernel, then a line says so.
Park ==
  /\ \/ at = "park" /\ at' = "parking" /\ cad' = "kernel"
     \/ at = "parking" /\ ~held /\ at' = "parked" /\ UNCHANGED cad
  /\ UNCHANGED <<procs, tty, held, request, served>>

PidOneNext ==
  \/ AttachStdio \/ TakeCtty \/ Install \/ DisableCtrlAltDel \/ Banner
  \/ \E p \in Procs : Fork(p)
  \/ GoDown \/ Down \/ Park
--------------------------------------------------------------------------------
(***************************************************************************)
(* The child that pid 1 forked, up to exec.                                *)
(***************************************************************************)
Becomes(p, from, to) == Up /\ kind[p] = from /\ kind' = [kind EXCEPT ![p] = to]

\* Variant for the mutation check: the mask is left to whoever is executed.
UnblockNothing(p) ==
  /\ Becomes(p, "forked", "unmasked")
  /\ UNCHANGED <<at, session, group, masked, tty, held, cad, request, served>>

Unblock(p) ==
  /\ Becomes(p, "forked", "unmasked")
  /\ masked' = masked \ {p}
  /\ UNCHANGED <<at, session, group, tty, held, cad, request, served>>

NewSession(p) ==
  /\ Becomes(p, "unmasked", "leader")
  /\ session' = [session EXCEPT ![p] = p] /\ group' = [group EXCEPT ![p] = p]
  /\ UNCHANGED <<at, masked, tty, held, cad, request, served>>

StealCtty(p) ==
  /\ Becomes(p, "leader", "owner")
  /\ set_ctty(p, group[p], TRUE)
  /\ UNCHANGED <<at, session, group, masked, job, held, cad, request, served>>

\* execv(): the mask, the session and the terminal stay.  When it fails the child
\* leaves with 127, which is Dies below.
Exec(p) ==
  /\ Becomes(p, "owner", "shell")
  /\ served' = TRUE
  /\ UNCHANGED <<at, session, group, masked, tty, held, cad, request>>

ChildNext == \E p \in Procs : Unblock(p) \/ NewSession(p) \/ StealCtty(p) \/ Exec(p)
--------------------------------------------------------------------------------
(***************************************************************************)
(* The shell, its jobs, and the person at the keyboard.                    *)
(***************************************************************************)

\* A shell starts a job: in a group of its own, in front or behind, when the shell
\* has the terminal, and in the shell's group when it has no job control.
StartsJob(s, j) ==
  /\ Up /\ kind[s] = "shell" /\ job = Nobody /\ Free(j)
  /\ kind' = [kind EXCEPT ![j] = "job"]
  /\ session' = [session EXCEPT ![j] = s]
  /\ masked' = IF s \in masked THEN masked \cup {j} ELSE masked
  /\ group' = [group EXCEPT ![j] = IF owner = s THEN j ELSE group[s]]
  /\ job' \in {j, Nobody}
  /\ front' = IF owner = s /\ job' = j THEN j ELSE front
  /\ UNCHANGED <<at, owner, held, cad, request, served>>

\* The job the shell waited for is over, and the shell is in front again.
Prompts(s) ==
  /\ Up /\ kind[s] = "shell" /\ owner = s /\ front # s /\ job = Nobody
  /\ front' = s
  /\ UNCHANGED <<at, procs, owner, job, held, cad, request, served>>

\* A job becomes a daemon, with a session of its own and no terminal.
Detaches(j) ==
  /\ Up /\ kind[j] = "job" /\ session[j] # j /\ j # front
  /\ session' = [session EXCEPT ![j] = j] /\ group' = [group EXCEPT ![j] = j]
  /\ job' = IF job = j THEN Nobody ELSE job
  /\ UNCHANGED <<at, kind, masked, owner, front, held, cad, request, served>>

\* A daemon opens the console while no session has it.
OpensConsole(j) ==
  /\ Up /\ kind[j] = "job" /\ session[j] = j /\ owner = Nobody
  /\ owner' = j /\ front' = j
  /\ UNCHANGED <<at, procs, job, held, cad, request, served>>

\* What is left when the processes of S die: the terminal of a session leader is
\* free, and nobody waits for a job any more.
Without(S) ==
  /\ kind' = [p \in Procs |-> IF p \in S THEN "gone" ELSE kind[p]]
  /\ masked' = masked \ S
  /\ IF owner \in S THEN owner' = Nobody /\ front' = Nobody
                    ELSE UNCHANGED <<owner, front>>
  /\ job' = IF job # Nobody /\ {job, session[job]} \cap S # {} THEN Nobody ELSE job
  /\ UNCHANGED <<session, group>>

Dies(p) ==
  /\ Up /\ p \in Living /\ Without({p})
  /\ UNCHANGED <<at, held, cad, request, served>>

Asked(what) == request' = IF request = "none" THEN what ELSE request

\* Ctrl+C: SIGINT to the group in front.  A shell catches it, a job dies of it unless
\* it is blocked, a child that has not unblocked it yet dies when it does; pid 1 reads
\* it if it is blocked and is spared by the kernel if it is not.
CtrlC ==
  /\ Up /\ front # Nobody
  /\ Without({p \in Living : group[p] = front /\ ~(kind[p] = "shell")
                               /\ ~(kind[p] = "job" /\ p \in masked)})
  /\ IF front = PID_ONE /\ PID_ONE \in masked THEN Asked("ctrl-c") ELSE UNCHANGED request
  /\ UNCHANGED <<at, held, cad, served>>

CtrlAltDel ==
  /\ Up
  /\ \/ cad = "kernel" /\ at' = "off" /\ UNCHANGED request
     \/ cad = "pid1" /\ Asked("ctrl-alt-del") /\ UNCHANGED at
  /\ UNCHANGED <<procs, tty, held, cad, served>>

\* reboot, poweroff and halt, from a shell.
Command ==
  /\ Up /\ \E s \in Living : kind[s] = "shell"
  /\ Asked("command")
  /\ UNCHANGED <<at, procs, tty, held, cad, served>>

\* Ctrl+S and Ctrl+Q.
HoldOrRelease ==
  /\ Up /\ held' = ~held
  /\ UNCHANGED <<at, procs, tty, cad, request, served>>

WorldNext ==
  \/ \E s, j \in Procs : StartsJob(s, j)
  \/ \E p \in Procs : Prompts(p) \/ Detaches(p) \/ OpensConsole(p) \/ Dies(p)
  \/ CtrlC \/ CtrlAltDel \/ Command \/ HoldOrRelease

Next == PidOneNext \/ GiveUp \/ ChildNext \/ WorldNext

Spec == Init /\ [][Next]_vars

\* Pid 1 takes its next step when it can; nobody has to release the console.
FairSpec == Spec /\ WF_vars(PidOneNext)
--------------------------------------------------------------------------------
\* Ctrl+C reaches what the shell waits for: it is in the group in front and has
\* SIGINT unblocked, whoever had the terminal before its shell was started and in
\* whatever state pid 1 forked it.  These are the two lines of spawn() that
\* zevinit/README.md:127-137 calls unverified (proc.rs:125-129).
CtrlCReachesTheJob == job # Nobody => group[job] = front /\ job \notin masked

\* Once there has been a shell, Ctrl+C never asks pid 1 for a reboot again, not even
\* between two shells (proc.rs:126-129, sys.rs:105-113).
CtrlCSparesPidOne ==
  [][request' = "ctrl-c" /\ request # "ctrl-c" => ~served]_vars

\* Parking gives the key back even if what it then writes to the console has to wait
\* for ever (main.rs:153-166).
ParkingGivesTheKeyBack == at = "park" ~> cad = "kernel"

\* What zevinit/README.md:31-33 says of going down: once it has begun, the machine is
\* handed to the kernel.
GoingDownEnds == at = "going" ~> at = "off"
================================================================================
