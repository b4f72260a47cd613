--------------------------------- MODULE Boot --------------------------------
(***************************************************************************)
(* Coming up: main() from its first line to the first spawn, where the     *)
(* module ZevInit takes over.  Filesystems, device nodes, console, log,    *)
(* the signals and Ctrl+Alt+Del change hands one system call at a time,    *)
(* any of them may fail, and the key may be pressed in between.            *)
(*                                                                         *)
(* Assumption: the kernel gave pid 1 a console as its standard streams.    *)
(* Without one there is no pid 1: the Rust runtime aborts, because it      *)
(* finds no /dev/null in this initramfs to put in their place.             *)
(***************************************************************************)
EXTENDS Integers, FiniteSets, Sequences

CONSTANTS
  MaxCandidates,  \* length of CANDIDATES
  MaxRefusals     \* bound: how often a /dev/kmsg that is there refuses a line

ASSUME BootAssumption == MaxCandidates \in Nat /\ MaxRefusals \in Nat

\* The filesystems in the order they are mounted.  Of proc and tmpfs every mount
\* is a new instance; of sysfs and devtmpfs there is one, and mounting it where
\* it is already mounted is refused with EBUSY.
TABLE   == <<"proc", "sys", "dev", "run", "tmp">>
Targets == {TABLE[i] : i \in 1 .. Len(TABLE)}
SingleInstance == {"sys", "dev"}

\* The device nodes in the order they are looked for.
NODES == <<"null", "console", "tty">>
Nodes == {NODES[i] : i \in 1 .. Len(NODES)}

VARIABLES
  at,       \* the next step of main()
  i,        \* index of the loops over TABLE and NODES
  before,   \* how many mounts each target had when pid 1 started
  depth,    \* how many mounts each target has
  failed,   \* what mount_all() counts
  nodes,    \* the nodes that exist in /dev, whoever made them
  kmsg,     \* the cached descriptor of /dev/kmsg: "unopened" or "open"
  lines,    \* what was logged, and where it went
  unlimited,\* whether the kernel stopped rate-limiting /dev/kmsg
  stdio,    \* "inherited" or "console"
  watched,  \* whether the signals are blocked: no request is lost from then on
  cad,      \* who handles Ctrl+Alt+Del
  stuck,    \* whether the kernel refused to take the key back
  key,      \* the presses of the key: "none", or "reset", "pending" or "lost"
  banner,   \* the number of filesystems the banner reports, or Silent
  usable    \* how many candidate shells exist

fs   == <<i, before, depth, failed, nodes>>
log  == <<kmsg, lines>>
rest == <<unlimited, stdio, banner, usable>>
keys == <<watched, cad, stuck, key>>
vars == <<at, fs, log, rest, keys>>

Silent == -1

Steps == {"start", "mount", "knob", "nodes", "stdio", "ctty", "block", "signalfd",
          "cad", "banner", "shells", "spawn", "exit", "park", "parked", "off"}

TypeOK ==
  /\ at \in Steps /\ i \in 1 .. Len(TABLE)
  /\ before \in [Targets -> 0 .. 1] /\ depth \in [Targets -> 0 .. 2]
  /\ failed \in 0 .. 5
  /\ nodes \subseteq Nodes
  /\ kmsg \in {"unopened", "open"} /\ unlimited \in BOOLEAN
  /\ lines \subseteq [about : Targets \cup Nodes \cup {"knob", "stdio", "ctty", "cad", "park"},
                      to : {"kmsg", "stderr"}, refused : BOOLEAN]
  /\ stdio \in {"inherited", "console"}
  /\ watched \in BOOLEAN
  /\ cad \in {"kernel", "pid1"} /\ stuck \in BOOLEAN
  /\ key \in {"none", "reset", "pending", "lost"}
  /\ banner \in 0 .. 5 \cup {Silent}
  /\ usable \in 0 .. MaxCandidates

\* A machine that just started pid 1, or one where something else has been pid 1
\* before and left filesystems mounted.
Init ==
  /\ at = "start" /\ i = 1
  /\ before \in [Targets -> 0 .. 1]
  /\ depth = before
  /\ nodes = IF before["dev"] > 0 THEN Nodes ELSE {"console"}
  /\ failed = 0
  /\ kmsg = "unopened" /\ lines = {} /\ unlimited = FALSE
  /\ stdio = "inherited"
  /\ watched = FALSE /\ cad = "kernel" /\ stuck = FALSE /\ key = "none"
  /\ banner = Silent
  /\ usable \in 0 .. MaxCandidates

-------------------------------------------------------------------------------

\* A line: what it is about, where it went, and whether it went there because the
\* kernel refused to open /dev/kmsg or to take it.
Line(about, to, refused) == [about |-> about, to |-> to, refused |-> refused]

\* Variant for the mutation check: the first attempt to open /dev/kmsg decides.
EmitTriesOnce(about) ==
  /\ kmsg' = IF kmsg # "unopened" THEN kmsg
             ELSE IF depth["dev"] > 0 THEN "open" ELSE "failed"
  /\ lines' = lines \cup
       {Line(about, IF kmsg' = "open" THEN "kmsg" ELSE "stderr", FALSE)}

\* open_append("/dev/kmsg"): the node is made by devtmpfs only.
open_append(known) == IF depth["dev"] > 0 THEN "open" ELSE known

\* log::emit(): /dev/kmsg is opened when it is first needed and there, and its
\* descriptor is kept; until then lines go to stderr, and so does each one whose own
\* open or write fails.
Emit(about) ==
  \/ /\ kmsg' = IF kmsg = "open" THEN kmsg ELSE open_append(kmsg)
     /\ lines' = lines \cup
          {Line(about, IF kmsg' = "open" THEN "kmsg" ELSE "stderr", FALSE)}
  \/ /\ depth["dev"] > 0 /\ Cardinality({l \in lines : l.refused}) < MaxRefusals
     /\ kmsg' \in {kmsg, "open"}
     /\ lines' = lines \cup {Line(about, "stderr", TRUE)}

Quiet == UNCHANGED log

\* main() refuses to be anything but pid 1.
Start(pid) ==
  /\ at = "start"
  /\ at' = IF pid = 1 THEN "mount" ELSE "exit"
  /\ Quiet
  /\ UNCHANGED <<fs, rest, keys>>

\* What mount() can return: EBUSY for the instance that is mounted there already, any
\* other error for every mount, which is a failure even then.
mount(t) ==
  {"error"} \cup IF t \in SingleInstance /\ depth[t] > 0 THEN {"EBUSY"} ELSE {"ok"}

\* Variant for the mutation check: the next loop starts where this one ended.
AfterRowNoReset(n, table, here, there) ==
  /\ i' = n + 1
  /\ at' = IF n < Len(table) THEN here ELSE there

AfterRow(n, table, here, there) ==
  IF n < Len(table) THEN at' = here /\ i' = n + 1 ELSE at' = there /\ i' = 1

\* One row of mount_all() that succeeds: the mount is new, or was there already.
Mounts ==
  /\ at = "mount"
  /\ LET t == TABLE[i] IN
       /\ depth' = IF "ok" \in mount(t) THEN [depth EXCEPT ![t] = @ + 1] ELSE depth
       /\ nodes' = IF t = "dev" THEN Nodes ELSE nodes
  /\ AfterRow(i, TABLE, "mount", "knob")
  /\ Quiet
  /\ UNCHANGED <<before, failed, rest, keys>>

\* Variant for the mutation check: every error of mount() is taken for EBUSY.
MountFailsUnnoticed ==
  /\ at = "mount"
  /\ "error" \in mount(TABLE[i])
  /\ AfterRow(i, TABLE, "mount", "knob")
  /\ Quiet
  /\ UNCHANGED <<before, depth, failed, nodes, rest, keys>>

\* One row that fails, in create_dir_all() or in mount().
MountFails ==
  /\ at = "mount"
  /\ "error" \in mount(TABLE[i])
  /\ failed' = failed + 1
  /\ Emit(TABLE[i])
  /\ AfterRow(i, TABLE, "mount", "knob")
  /\ UNCHANGED <<before, depth, nodes, rest, keys>>

\* keep_every_message(): the knob is under /proc.
KeepEveryMessage ==
  /\ at = "knob" /\ at' = "nodes"
  /\ \/ depth["proc"] > 0 /\ unlimited' = TRUE /\ Quiet
     \/ UNCHANGED unlimited /\ Emit("knob")
  /\ UNCHANGED <<fs, stdio, banner, usable, keys>>

\* mknod_char(): the node is made, or a line says that it is not.
mknod_char(n) ==
  \/ nodes' = nodes \cup {n} /\ Quiet
  \/ nodes' = nodes /\ Emit(n)

\* One row of ensure_nodes(), for a node that is not there.
EnsureNode ==
  /\ at = "nodes"
  /\ LET n == NODES[i] IN
       IF n \in nodes THEN UNCHANGED <<nodes, log>> ELSE mknod_char(n)
  /\ AfterRow(i, NODES, "nodes", "stdio")
  /\ UNCHANGED <<before, depth, failed, rest, keys>>

\* attach_stdio(): open /dev/console and put it in place of 0, 1 and 2, or carry
\* on with the streams pid 1 was given.
AttachStdio ==
  /\ at = "stdio"
  /\ \/ /\ "console" \in nodes
        /\ stdio' = "console" /\ at' = "ctty" /\ Quiet
     \/ /\ stdio' = stdio /\ at' = "block" /\ Emit("stdio")
  /\ UNCHANGED <<fs, unlimited, banner, usable, keys>>

\* take_ctty(): without a controlling terminal job control stays off.
TakeCtty ==
  /\ at = "ctty" /\ at' = "block"
  /\ Quiet \/ Emit("ctty")
  /\ UNCHANGED <<fs, rest, keys>>

\* Variant for the mutation check: a mask that cannot be set is carried on without,
\* as a console is.
BlockSignalsOrNot ==
  /\ at = "block" /\ at' = "signalfd"
  /\ \/ watched' = TRUE /\ Quiet
     \/ watched' = FALSE /\ Emit("park")
  /\ UNCHANGED <<fs, rest, cad, stuck, key>>

\* The first step of Signals::install(): the mask.
BlockSignals ==
  /\ at = "block"
  /\ \/ watched' = TRUE /\ at' = "signalfd"
     \/ watched' = FALSE /\ at' = "park"
  /\ Quiet
  /\ UNCHANGED <<fs, rest, cad, stuck, key>>

\* Variant for the mutation check: a boot that cannot watch for signals gives up
\* main() instead of parking.
OpenSignalFdOrLeave ==
  /\ at = "signalfd"
  /\ \/ at' = "cad" /\ Quiet
     \/ at' = "exit" /\ Emit("park")
  /\ UNCHANGED <<fs, rest, keys>>

\* The second step: the signalfd itself.
OpenSignalFd ==
  /\ at = "signalfd"
  /\ at' \in {"cad", "park"}
  /\ Quiet
  /\ UNCHANGED <<fs, rest, keys>>

\* RB_DISABLE_CAD, or a kernel that keeps the key.
DisableCtrlAltDel ==
  /\ at = "cad" /\ at' = "banner"
  /\ \/ cad' = "pid1" /\ Quiet
     \/ cad' = cad /\ Emit("cad")
  /\ UNCHANGED <<fs, rest, watched, stuck, key>>

Banner ==
  /\ at = "banner" /\ at' = "shells"
  /\ banner' = failed
  /\ Quiet
  /\ UNCHANGED <<fs, unlimited, stdio, usable, keys>>

\* Rescue::new(): on with the first spawn, or park.
FindShells ==
  /\ at = "shells"
  /\ at' = IF usable > 0 THEN "spawn" ELSE "park"
  /\ Quiet
  /\ UNCHANGED <<fs, rest, keys>>

\* Variant for the mutation check: the two constants for reboot() are swapped.
ParkTakesTheKey ==
  /\ at = "park" /\ at' = "parked"
  /\ cad' \in {"pid1", cad} /\ stuck' = (cad' = "pid1")
  /\ Emit("park")
  /\ UNCHANGED <<fs, rest, watched, key>>

\* park() before there was a shell: RB_ENABLE_CAD, or a kernel that refuses; then why.
Park ==
  /\ at = "park" /\ at' = "parked"
  /\ \/ cad' = "kernel" /\ UNCHANGED stuck
     \/ cad' = cad /\ stuck' = TRUE
  /\ Emit("park")
  /\ UNCHANGED <<fs, rest, watched, key>>

\* Ctrl+Alt+Del.  The kernel drops a signal for pid 1 that is neither blocked nor
\* handled, and one that is pending already stands for all further presses.
PressesCtrlAltDel ==
  /\ at \notin {"start", "exit", "spawn", "off"}
  /\ \/ cad = "kernel" /\ key' = "reset" /\ at' = "off"
     \/ /\ cad = "pid1" /\ key = "none"
        /\ key' = (IF watched THEN "pending" ELSE "lost") /\ at' = at
  /\ Quiet
  /\ UNCHANGED <<fs, rest, watched, cad, stuck>>

BootNext ==
  \/ \E pid \in 1 .. 2 : Start(pid)
  \/ Mounts \/ MountFails
  \/ KeepEveryMessage
  \/ EnsureNode
  \/ AttachStdio \/ TakeCtty
  \/ BlockSignals \/ OpenSignalFd
  \/ DisableCtrlAltDel
  \/ Banner
  \/ FindShells
  \/ Park

Next == BootNext \/ PressesCtrlAltDel

Spec == Init /\ [][Next]_vars

FairSpec == Spec /\ WF_vars(BootNext)

-------------------------------------------------------------------------------

\* Ctrl+Alt+Del works at every step, whatever failed before: the kernel acts on a
\* press or has a signal pending that pid 1 blocks, and never drops it.  Pid 1 reads
\* that signal once it has started a shell; if it parks instead, nobody ever will, and
\* then the key is the kernel's again, so that a second press resets the machine,
\* unless the kernel has refused that too (main.rs:51-60, 62-66, 153-166).
KeyKeepsWorking ==
  /\ key # "lost"
  /\ key = "pending" /\ at = "parked" => cad = "kernel" \/ stuck

\* What the banner says is true: a filesystem that is missing is always counted, each
\* one that is counted has a line in the log that names it ("look above for which"),
\* and on a machine where nothing was mounted before, only missing ones are counted.
\* Where something was, a mount that is refused with anything but EBUSY is counted
\* although the older one is still there (mount.rs:26-51, main.rs:144-151).
Missing == {t \in Targets : depth[t] = 0}
Named   == {t \in Targets : \E l \in lines : l.about = t}

BannerTellsTheTruth ==
  banner # Silent =>
    /\ Missing \subseteq Named
    /\ banner = Cardinality(Named)
    /\ (\A t \in Targets : before[t] = 0) => Named = Missing

\* A failure to reach /dev/kmsg is never remembered: once there is one, a line is on
\* stderr only because its own open or its own write was refused, or because it is from
\* before devtmpfs was mounted.  So the lines about the mounts that matter most, and
\* every line after a single refusal, are in the kernel's log (log.rs:52-81).
LogFindsKmsg ==
  depth["dev"] > 0 =>
    \A l \in lines : l.to = "stderr" => l.refused \/ l.about \in {"proc", "sys"}

\* An init that is coming up, and the machine that is reset meanwhile.
Phase == IF at = "off" THEN "down" ELSE IF at = "parked" THEN "parked" ELSE "booting"

L == INSTANCE Lifecycle WITH
       Process <- {}, NoShell <- "none", Orders <- {}, KeyMayStick <- TRUE,
       phase <- Phase, shell <- "none", running <- {}, order <- "none",
       power <- IF at = "off" THEN "reboot" ELSE "up", key <- cad

\* Whatever fails on the way up, each step of it is a step of an init that keeps its
\* promise: the key is taken while booting only, giving up does not take it, only the
\* kernel's own key resets the machine, and what is parked stays so until it does
\* (main.rs:36-72, 153-166).
ImplementsLifecycle == L!Spec

\* Pid 1 never returns from main() and never stops half way: every boot ends with
\* a shell to start, parked, or in a reset that somebody asked for; only a process
\* that is not pid 1 leaves (main.rs:36-40, 64-72).
BootEnds == (at = "mount") ~> (at \in {"spawn", "parked", "off"})

-------------------------------------------------------------------------------

\* Claim of zevinit/README.md:14-15: "treats an already-mounted filesystem as
\* success so a second run changes nothing".  EBUSY only comes from a filesystem
\* with a single instance: a tmpfs is mounted over the one that is there, and hides
\* what was in it.
SecondRunChangesNothing ==
  \A t \in Targets : before[t] > 0 => depth[t] = before[t]

==============================================================================
