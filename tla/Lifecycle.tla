------------------------------- MODULE Lifecycle ------------------------------
(***************************************************************************)
(* What an init promises, without a word on how: it comes up, keeps one    *)
(* shell on the console, goes down when it is asked to and takes every     *)
(* process along, or gives up and hands the key back.  Boot keeps this     *)
(* promise until the first shell is due, and ZevInit from then on.         *)
(***************************************************************************)
EXTENDS FiniteSets

CONSTANTS
  Process,       \* the processes there may be besides pid 1
  NoShell,       \* no member of Process
  Orders,        \* the ways to go down
  KeyMayStick    \* whether the kernel may refuse to take the key back

VARIABLES
  phase,    \* "booting", "up", "stopping", "down" or "parked"
  shell,    \* the shell on the console that is alive, or NoShell
  running,  \* the processes that are alive and would die of SIGKILL
  order,    \* what init was asked for, "none" before
  power,    \* "up", or what the machine was told to do
  key       \* who acts on Ctrl+Alt+Del, "kernel" or "pid1"

vars == <<phase, shell, running, order, power, key>>

Init ==
  /\ phase = "booting" /\ shell = NoShell /\ running = {}
  /\ order = "none" /\ power = "up"
  /\ key \in {"kernel", "pid1"}

\* Only an init that is coming up takes the key.
TakeKey ==
  /\ phase = "booting"
  /\ key' = "pid1"
  /\ UNCHANGED <<phase, shell, running, order, power>>

\* A shell is started only where there is none and only while nobody asked for a
\* shutdown.
Start(p) ==
  /\ phase \in {"booting", "up"} /\ shell = NoShell
  /\ p \notin running
  /\ phase' = "up" /\ shell' = p /\ running' = running \cup {p}
  /\ UNCHANGED <<order, power, key>>

ShellDies ==
  /\ phase # "down" /\ shell # NoShell
  /\ shell' = NoShell /\ running' = running \ {shell}
  /\ UNCHANGED <<phase, order, power, key>>

\* Everybody else comes and goes, in a machine that is up.
Work ==
  /\ phase # "down"
  /\ running' \in SUBSET Process
  /\ shell \in running' \cup {NoShell}
  /\ UNCHANGED <<phase, shell, order, power, key>>

\* The first request is the one that counts.
Obey(a) ==
  /\ phase = "up"
  /\ phase' = "stopping" /\ order' = a
  /\ UNCHANGED <<shell, running, power, key>>

\* The machine is left to the kernel when nothing that can be killed is alive.
GoDown ==
  /\ phase = "stopping" /\ running = {}
  /\ phase' = "down" /\ power' = order
  /\ UNCHANGED <<shell, running, order, key>>

GiveUp ==
  /\ phase \in {"booting", "up", "stopping"}
  /\ phase' = "parked"
  /\ key' = "kernel" \/ (KeyMayStick /\ key' = key)
  /\ UNCHANGED <<shell, running, order, power>>

\* Ctrl+Alt+Del while the kernel owns it.
Reset ==
  /\ phase # "down" /\ key = "kernel"
  /\ phase' = "down" /\ power' = "reboot"
  /\ UNCHANGED <<shell, running, order, key>>

Next ==
  \/ TakeKey
  \/ \E p \in Process : Start(p)
  \/ ShellDies
  \/ Work
  \/ \E a \in Orders : Obey(a)
  \/ GoDown
  \/ GiveUp
  \/ Reset

Spec == Init /\ [][Next]_vars

\* There is always a shell again, and a request always comes to an end.
Serves == phase = "up" /\ shell = NoShell ~> phase # "up" \/ shell # NoShell
Obeys  == phase = "stopping" ~> phase \in {"down", "parked"}

==============================================================================
