# Verification of Zevory Linux

Zevory Linux is a small distribution: a kernel, busybox, the boot loader Limine,
and `zevinit`, a pid 1 written in Rust. Scripts fetch, configure, build and pack
the parts and boot them in QEMU. Its own logic is in two places, `zevinit/src`
and `scripts`. This directory holds TLA+ specifications of `zevinit`, from the
first line of `main()` to `reboot(2)`, with the kernel it runs on, of its console
and its log, and of the scripts that fetch, configure, build and pack; TLC
configurations that check them; and TLAPS proofs about them for every value of the
constants.

    tlc -workers 2 -config supervise.cfg MCZevInit     # one run, see "Runs"
    tlapm ZevInitProofs.tla                            # proofs, see "Proofs"

## 1. The system

### Components, their state and their operations

| component | source | state | operations |
|---|---|---|---|
| boot | `main.rs:36-72`, `mount.rs`, `console.rs` | mounts, device nodes, standard streams | mount five filesystems, lift the log limit, make nodes, take the console, block signals, take Ctrl+Alt+Del, banner |
| controlling terminal | `console.rs:25-34`, `proc.rs:121-133`, `sys.rs:105-113` | which session and group have the console, who has signals blocked | take it without force (pid 1), take it by force (each shell), write to it |
| log | `log.rs`, `sys.rs:269-280` | cached descriptor of `/dev/kmsg` | emit a line, in as many writes as it takes |
| signals | `signal.rs` | the signalfd | install, wait with or without a timeout, classify |
| process table | `proc.rs` | a vector of entries | spawn, track, record an exit, forget the finished, list the session leaders |
| reaping | `signal.rs:78-110` | a `Harvest` | `reap_all` |
| shell rescue | `shell.rs` | current candidate, strikes | survived, failed |
| supervision | `main.rs:74-142` | `idle`, `respawn_at` | the loop of `supervise()`, the verdict of `give_up_or_fall_back()` |
| parking | `main.rs:153-166` | none | `park` |
| shutdown | `power.rs` | a deadline | `execute`, `stop_everything`, `wait_for_silence` |
| system calls | `sys.rs` | none | one wrapper for each call; pack a device number, unpack a wait status |
| fetch scripts | `scripts/fetch-*.sh` | downloads and source trees | download, verify, extract |
| build scripts | `scripts/configure-*.sh`, `scripts/build-*.sh` | configurations, images, staging tree | configure, build, pack |
| tests, diagnosis | `scripts/test-*.sh`, `diagnose-boot.sh`, the CI workflow | none | boot in QEMU and search the log |
| configuration | `boot/limine`, `kernel`, `busybox` | data only | none |

### How they interact

Pid 1 is a single thread. It blocks seven signals, reads them from a signalfd, and
does everything else in answer: SIGCHLD makes it reap, a request makes it go down.
The other parties run concurrently with it and with each other: the children it
forked (before and after they have a session of their own), whatever these start,
the orphans that become its children, the clock, people who send it signals or
press Ctrl+Alt+Del, and a kernel that may refuse a call. They share the process
tree, the set of pending signals, the terminal and the ownership of the key. Boot
hands over to supervision at the first spawn; supervision hands over to shutdown through the
`Action` it returns; both use the table and `reap_all()`; any of them may end in
`park()`.

The scripts share files. Each takes what an earlier one left and decides by the
existence of a file or directory whether there is anything left to do.

### What is hard

- One pending SIGCHLD stands for any number of deaths, and a death can come
  between any two system calls of pid 1.
- Pids are reused as soon as a process has been reaped, and the processes pid 1
  did not start are reaped by it too. The table must not confuse the two.
- The child runs before its parent has entered it in the table; a shutdown may
  find it before it has a session.
- Respawning has three inputs which change independently: is a shell running, is
  the backoff over, what did the last deaths count for. `supervise()` computes
  `idle` before it spawns and uses it afterwards.
- Time is a truncated second, twice: lives and deadlines lose up to a second.
- A shutdown must end whatever the processes do, ignoring SIGTERM, being stopped
  or being in uninterruptible sleep, and must not be cut short before they had
  their time.
- Every step of the boot may fail and the boot goes on, or parks, with the key
  working.
- The console changes hands between pid 1, the child it forked and whatever a dead
  shell left behind, and Ctrl+C means a reboot in one hand and an interrupted job in
  the other. Somebody may hold its output, and then every line pid 1 writes waits.
- The build scripts see that a file is there, never whether it is finished or made
  from what is there now.

PROJECT.json lists these as hazards, each at its line and with the properties that
cover it.

### What makes each component correct

- Signals and reaping: no zombie of pid 1 without a pending SIGCHLD or a running
  `reap_all()`; every zombie is reaped in the end.
- Table: a running entry is a living or unreaped child that pid 1 forked itself,
  and every shell is in it.
- Rescue: a candidate is left only after three early deaths of its own, in a row;
  each death is judged once; orphans cost nothing.
- Supervision: never two shells, never an endless wait with no shell alive, a dead
  shell is always replaced.
- Shutdown: silence means that nothing is left; SIGKILL comes after the grace period
  and only for those who need it; nothing that can be killed is alive when the
  kernel takes over; the first request decides; the machine always goes down.
- Fetch scripts: only what upstream signed is extracted; a success means a complete
  tree; what is left over from a failed run does not spoil the next.
- Boot: it ends with a shell or parked; no press of the key is dropped, and none is left
  to a parked pid 1 with the key; the banner counts what the log names, and that includes
  every missing filesystem; the log finds `/dev/kmsg`.
- Terminal: Ctrl+C reaches the job that a shell waits for, and is no request to pid 1
  once there has been a shell; a parked pid 1 has given the key back.
- Log: a line lands once, in the kernel's log or on stderr, and whole or known not to be.
- Build scripts: a script that ran to its end after those it needs made the right
  thing, whatever was there before; what is built in order never has an older zevinit as
  its `/init` than the build began with.
- Encodings: pid 1 and the kernel read the same numbers out of `dev_t` and the wait
  status.
- All of pid 1 together: it is an init, as `Lifecycle` says in 90 lines.

## 2. The modules

    Signals   ProcTable   Rescue        pure operators
       |          |          |
     Kernel       |          |          everything around pid 1, and its system calls
       +----------+----------+
                PidOne                  state of pid 1, reap_all(), park()
              /        \
       Supervise      Shutdown          main.rs            power.rs
              \        /
               ZevInit -------------->  Lifecycle      refinement (INSTANCE ... WITH)
              /        \
       MCZevInit    ZevInitProofs       TLC                TLAPS
                          |
                     ShellProofs        (with the wait statuses of Encodings)
                          |
                   ShutdownProofs       going down, and the refinement

     Boot     --- BootProofs            the boot, and its refinement of Lifecycle
                                        (with the device numbers of Encodings)
     Terminal --- TerminalProofs        the console, from the boot to parking
     Fetch    --- FetchProofs           the scripts that fetch
     Pipeline --- PipelineProofs        the scripts that configure, build and pack
     Log      --- LogProofs             a line of the log
     Encodings                          numbers packed in bits

| module | models | correspondence |
|---|---|---|
| `Signals` | `signal.rs:9-36` | Signals keep their numbers: a signalfd returns the lowest pending one, and that decides between simultaneous requests. `classify` is the function of that name. |
| `ProcTable` | `proc.rs` | The `Vec<Entry>` as a set of records. Order is seen only by `find()`, which stops at the first running entry with a pid; `TableMatchesKernel` shows there is only one. `Exited` and `Killed` differ in a log line and are one state. |
| `Rescue` | `shell.rs` | A candidate is its index. `verdict` and `failed` are the two results of `Rescue::failed`. |
| `Kernel` | Linux, and `sys.rs` | External. Process tree with kinds of processes that differ in what kills them, pending signals as a set, the clock in seconds and ticks. First what others do (exit, start, stop, collect, send), then what the calls of `sys.rs` do. |
| `PidOne` | `signal.rs:78-110`, `main.rs:64-71`, `153-166` | `pc` is where pid 1 is; a step ends at a system call or a read of the clock. `ReapChild` is one round of the loop in `reap_all()`, `ReapDone` the last. `caller` is the call site. |
| `Supervise` | `main.rs:69-142`, `proc.rs:121-123` | `Fork`, `Track`, `Loop`, `WaitReturns`, `WaitTimesOut`, `WaitFails`, `Judge`: one action for each stretch of the loop between two system calls. |
| `Shutdown` | `power.rs` | `Begin`, `HangUp`, `Terminate`, `Continue`, `Arm`, `CheckSilence`, `Poll`, `Kill`, `HandOver`: each signal, each round of a wait. |
| `ZevInit` | all of it | `Init`, `Next`, fairness, and the properties. |
| `Lifecycle` | what an init promises | Abstract, and without a counterpart in the code: phase, shell, who is running, the order, the machine, the key. `ZevInit` gives each of them as a function of its own state; the shell is the one living process that pid 1 forked itself. `Boot` does the same for the time before the first shell. |
| `Boot` | `main.rs:36-72`, `mount.rs`, `console.rs`, `log.rs`, `signal.rs:38-56` | One action for each system call of the boot and one for its failure, with a press of Ctrl+Alt+Del in between. |
| `Fetch` | `scripts/fetch-*.sh` | A script is a sequence of commands (`KERNEL`, `BUSYBOX`, `LIMINE`); an action is one command, its failure, or an interruption during it. A file is missing, cut short, bad or good. |
| `Terminal` | `console.rs:25-34`, `proc.rs:121-133`, `main.rs:153-166`, `power.rs:39` | `owner` is the session and `front` the group of the console. The child goes through the four steps between fork and exec one at a time; people press Ctrl+C, Ctrl+S and Ctrl+Alt+Del in between. Strikes, zombies and the rounds of a shutdown are left to the other modules. |
| `Log` | `log.rs:52-69`, `sys.rs:269-280` | A line is a number of bytes, a write takes some of them; two processes write through one descriptor. |
| `Pipeline` | `scripts/configure-*.sh`, `scripts/build-*.sh` | A script is a sequence of commands, like in `Fetch`; what it makes is absent, unfit or fit. `init` is the version of the sources that the `/init` in the root, the image and the ISO was built from. `ListsInPart` is the one failure that `set -e` does not see. |
| `Encodings` | `sys.rs:22-29`, `proc.rs:109-119` | Pure functions, each with its inverse in the kernel. |
| `MCZevInit` | | Symmetry for TLC. |
| `*Proofs` | | Theorems and proofs. |

Definitions that begin with "Variant for the mutation check" are faulty versions of
a neighbour. No specification uses them. They show, for each property, a plausible
bug that it catches.

History, which no guard reads: `lastFork`, `attempts`, `missed` and `since` in
`ZevInit`, `served` in `Terminal`, `due`, `inOrder` and `unseen` in `Pipeline`.

## 3. Runs

TLC finishes each of these; times are for two workers.

| run | asks | instance | distinct states |
|---|---|---|---|
| `supervise` | `TypeOK`, `NoLostChild`, `NoSilentDeath`, `AtMostOneShell`, `TableMatchesKernel`, `EveryDeathJudgedOnce`, `PatientFallback`, `StartsInDistinctSeconds` | 3 pids, 2 jobs, 2 candidates with 2 strikes, SIGHUP, half-second ticks over 3 s, fork and poll may fail | 2.4 million, 1 min |
| `shutdown` | `SilenceIsReal`, `OnlyTheUnkillableRemain`, `KillIsLastResort`, `DeadlinesHonoured`, `NoWayBack`, `RequestsAreNotDropped`, `ImplementsLifecycle` | 3 pids, 2 jobs of all kinds, a request for a halt and Ctrl+Alt+Del, which asks for a reboot, half-second ticks, periods of 3 s and 2 s, every call that may fail may fail | 2.9 million, 1.5 min |
| `liveness` | `KeepsServing`, `EveryZombieReaped`, `RequestHonoured` | 2 pids, one job of any kind, a request, periods of 2 s and 1 s, fork and reboot may fail | 276 000, 1 min |
| `boot` | `TypeOK`, `KeyKeepsWorking`, `BannerTellsTheTruth`, `LogFindsKmsg`, `ImplementsLifecycle`, `BootEnds` | every subset of filesystems mounted beforehand, every subset of failing steps, one line refused by a `/dev/kmsg` that is there, one candidate | 1.6 million, 1 min |
| `terminal` | `TypeOK`, `CtrlCReachesTheJob`, `CtrlCSparesPidOne`, `ParkingGivesTheKeyBack` | 3 processes, no other bound | 54 000, 5 s |
| `log` | `TypeOK`, `LinesLandOnce` | 2 writers, 2 lines each, 2 bytes a line | 28 000, 2 s |
| `fetch` | `TypeOK`, `OnlySignedSources`, `OnlyACutExtractionFools`, `RunsRecover` | complete: any number of runs of each script | 645, 1 s |
| `pipeline` | `TypeOK`, `InitIsNeverStale`, `RightWhenRunInOrder` | five scripts, for busybox, the initramfs and the ISO, any number of runs of each, one edit of zevinit; the kernel is there | 2.0 million, 30 s |
| `respawn_rate` | violated: `RespawnNoFasterThanOnceASecond` | half-second ticks | |
| `second_run` | violated: `SecondRunChangesNothing` | | |
| `refetch` | violated: `DeletingIsEnough` | the kernel's script | |
| `held_output` | violated: `GoingDownEnds` | | |

The questions behind the newer ones:

- `ImplementsLifecycle`: is every step of pid 1, its children and the person at the
  keyboard a step of an init that starts a shell only where there is none, obeys the
  first request and no later one, and leaves nobody alive who could be killed? The
  spec it is compared with says nothing about tables, signals or deadlines. `Boot` is
  compared with the same spec, up to the first shell.
- `NoWayBack`: every death and every signal wakes a pid 1 that is going down. Can any
  of them make it send a round of signals again, move the deadline of a wait that has
  begun, or go back to supervising? With the clock going on, the answer (no) is what
  makes a shutdown end.
- `RequestsAreNotDropped`: the pending signals are one set, and a request may be in it
  together with deaths, a hangup and another request. Is it still there until one has
  been obeyed? The run has deaths and two different requests; hangups are in the theorem
  (`RequestsWait`) only.
- `KeyKeepsWorking`: a press of Ctrl+Alt+Del during the boot is acted on by the kernel or
  stays pending, because the signals are blocked before the key is taken. But a boot that
  finds no shell parks and never reads what is pending: is the key the kernel's again
  then, so that pressing it once more works?
- `BannerTellsTheTruth`: does the number on the banner agree with the lines it refers to
  ("look above for which")? It may be more than what is missing: where something was
  mounted before, an error other than EBUSY is counted although the old mount is there.
- `KeepsServing` is the fairness part of the same promise, `L!Serves /\ L!Obeys`.
- `CtrlCReachesTheJob`, `CtrlCSparesPidOne`: the two lines between fork and exec
  which `zevinit/README.md:127-137` says no test can see. Before the first shell
  Ctrl+C is a request to reboot, and the model has that.
- `RightWhenRunInOrder`: a script only tests that what it needs exists. Run too early,
  or after an interrupted run, it makes something unfit of it and says that it is done;
  this property says that running the scripts again in order is always enough. There is
  one exception, and the property names it: `busybox --list` in the words of a `for` loop
  (`build-initramfs-root.sh:24`) may fail without ending the script, which then ends well
  with applets missing. `unseen` is what was made in such a run, or of that.
- `InitIsNeverStale` is about the `/init` in what was built in order: the root, the image
  packed of it and the ISO made of that. A root left by a run that was interrupted may
  well have an older one, and so has an image that was not packed again.

### Four claims the code does not keep

`zevinit/README.md:24-25` says that a shell is restarted "no faster than once a
second". The code compares whole seconds. In `respawn_rate` a shell starts at
second 0 and a half, dies within the same half second on either side of the
boundary, has therefore lived "one second", counts as survived, sets no backoff and
is replaced at once. What the code does keep is weaker and is checked in
`supervise`: two starts are never in the same second of the clock
(`StartsInDistinctSeconds`). As a consequence such a shell never earns a strike,
although it lived for a moment only.

`zevinit/README.md:14-15` says that an already-mounted filesystem is a success "so a
second run changes nothing". The code takes EBUSY for a success, and EBUSY comes
from sysfs and devtmpfs, which have one instance. In `second_run` a tmpfs is
mounted over a tmpfs, and what was in the first is hidden.

`fetch-kernel.sh:27` says of a tree it finds "already there, delete it by hand to
re-fetch". In `refetch` an extraction fails; the next run finds the directory and
says so; the directory is deleted; and the run after that stops at `xz -dk`, because
the `.tar` of the first run is still in `sources/_dl`. `RunsRecover` says that this
is the only thing a left-over file can do to a later run, and that the other two
scripts do recover.

`zevinit/README.md:31-33` says of going down that pid 1 hangs up, terminates, "waits up
to five seconds while reaping", kills, syncs "and hands the machine to the kernel".
The first thing `execute()` does is to write a line to the console (`power.rs:39`), and
a terminal whose output is held makes the writer wait. In `held_output` somebody has
pressed Ctrl+S; a request is read; and pid 1 waits for ever before it has signalled
anybody. `park()` does the same
two things in the other order and is not affected (`ParkingGivesTheKeyBack`).

### Bounds

`MaxJobs`, `LastCall`, `MaxSec`, `MaxRefusals`, `MaxLines` and `MaxEdits` are bounds; the
strikes, periods and candidates are the code's constants, or smaller where a run says so.

- Pids: two are enough for a shell and an orphan with a recycled pid; the third lets
  two orphans die while a shell runs, or a daemon outlive a job that outlives the
  shell. When all pids are taken `fork()` fails, as it does in Linux.
- `MaxJobs`: how often something other than pid 1 forks.
- `LastCall`: the last second in which a shell leaves of its own accord or somebody
  sends a request. It bounds the respawns, and in the shutdown runs puts the request
  at the beginning; the states that matter follow it.
- `MaxSec`: from this second the clock only runs while a deadline of pid 1 is
  running, so the last backoff and both waits of a shutdown always run to their
  end. After it nothing that pid 1 does depends on time.
- Grace period: 3 s instead of 5 in `shutdown`. What differs between two lengths is
  whether the period is longer than one poll (it is, a poll ends at each signal) and
  longer than the fraction of a second that truncation loses; the proofs are for every
  length.
- Each signal is sent once. Pending signals are a set in Linux, so a second copy is
  lost before the first is read, and the first request that is read is the only one
  that counts afterwards.
- Ticks: two for each second tell "a fraction of a second" from "a second", which is
  all the properties about time distinguish.
- `CHECK_DEADLOCK FALSE`: a parked pid 1, a machine that is down and a shell that
  nobody leaves are states where the system may stop, and so is a terminal that is
  switched off, a log with all its lines written, and a set of scripts nobody runs.
  `KeepsServing`, `RequestHonoured`, `BootEnds` and `ParkingGivesTheKeyBack` say where
  the system may not stop.
- `Procs` in `terminal`: a shell, its job or daemon, and the next shell are the parties
  that can have the console. A fourth would be one more background job. `held_output`
  needs one.
- `Writers`, `Length`, `MaxLines` in `log`: two bytes are enough for a write that is cut
  short in the middle, two lines for one that mixes with its successor, and a third
  process never has the descriptors.
- `MaxRefusals` in `boot`: how many lines a `/dev/kmsg` that is there refuses to be opened
  for or to take. One is enough to see what is remembered of it; the theorems are for any
  number.
- `MaxCandidates` in `boot`: none or one to begin with; a boot does not tell one from
  more.
- `Scripts` in `pipeline`: the two scripts for the kernel are like the two for busybox and
  meet the others in the ISO only. What they make is there, as it is on a machine where
  they have been run. The theorems are for every set of scripts.
- `MaxEdits` in `pipeline`: one edit makes one binary older than another.

Symmetry over pids is used in the safety runs only.

### Fairness

Pid 1 is a thread that the kernel schedules (`WF` of its next step; it has no step
when it is parked or waits without anything to read, so this does not force a
signal to arrive). The clock goes on. A process with a fatal signal that can be
delivered dies. Nothing else is fair: no shell has to exit, no job has to stop, no
parent has to collect its children, nobody has to ask for anything.
In `liveness` poll() does not fail, since a poll() that is interrupted for ever would
be a kernel that never lets pid 1 run. So that run shows nothing about a pid 1 that parks
because poll() failed; `shutdown`, which has the fault, says that such a step is a step of
`Lifecycle`.

`Boot` and `Terminal` assume the same of pid 1 and nothing else. In `Terminal` nobody is
obliged to release the console, and giving up is left out of what must happen, since
what leads to it is in the other modules.

### Assumptions about the environment

- `Prompt`: a runnable process with a fatal signal pending is gone before the clock
  moves by one tick. This is what makes the deadlines of `power.rs` meaningful; it
  is used by `OnlyTheUnkillableRemain` and `KillIsLastResort`.
- Interactive shells ignore SIGTERM, die of SIGHUP, and are not stopped; daemons
  ignore every signal they can ignore; a process in uninterruptible sleep dies of
  nothing.
- A process does not fork while it has a signal to take.
- `Fetch` assumes that what a command has written stays written, that upstream's keys
  are upstream's, and that nobody runs one script twice at once.
- `Pipeline` assumes that the source trees are whole (that is `Fetch`), that a tool which
  exits 0 has done its work, and that no two scripts run at once.
- `Terminal` assumes that the console is a terminal, that only pid 1's children take it
  away from a session that has it, and that the kernel takes the key back when it is
  asked to; a kernel that refuses is in `Boot` and `PidOne`.
- `Log` assumes that `/dev/kmsg` takes a write whole or refuses it; any other file may
  take a part.
- `Boot` assumes that pid 1 was given standard streams. Without them the Rust
  runtime aborts before `main()`.

## 4. Proofs

    for m in ZevInitProofs ShellProofs ShutdownProofs BootProofs \
             TerminalProofs LogProofs FetchProofs PipelineProofs; do tlapm $m.tla; done

Everything below holds for every set of pids, every number of candidates and strikes,
every period and every set of faults; for every number of writers, lines and bytes in a
line; for every set of scripts and number of edits. The only assumptions are those on the
constants, each named in the module that declares them: `KernelAssumption`,
`PidOneAssumption` and `StrikesAssumption` for pid 1, `BootAssumption`,
`TerminalAssumption`, `LogAssumption`, `FetchAssumption` and `PipelineAssumption` for the
other modules. Every invariant and every action property of a run is a theorem, and so
are both refinements.

| module | theorem | says |
|---|---|---|
| `ZevInitProofs` | `TypeCorrect` | `Spec => []TypeOK` |
| | `TreeInvHolds` | parents are alive, and every process descends from pid 1 |
| | `ChildrenNeverLost` | `Spec => []NoLostChild` |
| | `RequestsWait` | `Spec => RequestsAreNotDropped` |
| | `SilenceHolds` | `Spec => []SilenceIsReal` |
| `ShellProofs` | `OneShellOnly` | `Spec => []AtMostOneShell` |
| | `TableIsRight` | `Spec => []TableMatchesKernel` |
| | `NoDeathIsSilent` | `Spec => []NoSilentDeath` |
| | `DeathsAreJudgedOnce` | `Spec => []EveryDeathJudgedOnce` |
| | `FallbackIsPatient` | `Spec => PatientFallback` |
| | `StartsAreApart` | `Spec => StartsInDistinctSeconds` |
| | `ExitIsTheOneThatHappened` | every exit comes out of a wait status as it went in |
| | `DeathIsTheOneThatHappened` | so does every death by signal |
| `ShutdownProofs` | `UnkillableRemain` | `Spec => []OnlyTheUnkillableRemain` |
| | `KillComesLast` | `Spec => []KillIsLastResort` |
| | `DeadlinesAreHonoured` | `Spec => []DeadlinesHonoured` |
| | `OnlyForward` | `Spec => NoWayBack` |
| | `PromiseIsKept` | `Spec => ImplementsLifecycle` |
| `BootProofs` | `TypeCorrect` | `Spec => []TypeOK` |
| | `KeyIsSafe` | `Spec => []KeyKeepsWorking` |
| | `LogIsFound` | `Spec => []LogFindsKmsg` |
| | `BannerIsTrue` | `Spec => []BannerTellsTheTruth` |
| | `BootKeepsThePromise` | `Spec => ImplementsLifecycle` |
| | `NodeIsTheOneAskedFor` | the kernel unpacks what `makedev()` packed |
| `TerminalProofs` | `TypeCorrect` | `Spec => []TypeOK` |
| | `CtrlCReaches` | `Spec => []CtrlCReachesTheJob` |
| | `CtrlCSpares` | `Spec => CtrlCSparesPidOne` |
| `LogProofs` | `TypeCorrect` | `Spec => []TypeOK` |
| | `EachLineLandsOnce` | `Spec => []LinesLandOnce` |
| `FetchProofs` | `TypeCorrect` | `Spec => []TypeOK` |
| | `SourcesAreSigned` | `Spec => []OnlySignedSources` |
| | `SuccessIsComplete` | `Spec => []OnlyACutExtractionFools` |
| | `LeftoversAreHarmless` | `Spec => []RunsRecover` |
| `PipelineProofs` | `TypeCorrect` | `Spec => []TypeOK` |
| | `InitIsFresh` | `Spec => []InitIsNeverStale` |
| | `OrderIsEnough` | `Spec => []RightWhenRunInOrder` |

### Pid 1

**Types.** `TypeOK` is not inductive: `HandOver` gives the machine the value of
`action`, so one has to know that `supervise()` has returned. `FlowOK` says for each
`pc` what `action`, `caller` and `newpid` may be, and `TypeOK /\ FlowOK` is
inductive. One step of `PidOneActionsTyped` for each action, one of
`KernelActionsTyped` for each thing others do.

**The tree.** `Acyclic` says without recursion that every nonempty set of processes
has a member whose parent is outside of the set. Two lemmas carry it:
a step that only removes processes or moves them to pid 1 keeps it
(`ShrinkingIsAcyclic`), and so does a new process below an existing one
(`GrowingIsAcyclic`). `ParentAlive` is needed with it: a free pid must not be
anybody's parent when it is handed out again.

**No child is lost.** Whatever makes a zombie of pid 1, by ending or by leaving one
behind, sets SIGCHLD; whatever takes SIGCHLD away enters `reap_all()`, which only
leaves without zombies. The tree is needed for one case: a process that ends is not
its own parent.

**No request is dropped.** Only two steps take a signal out of the pending ones, and each
takes the one it has read. The read in `supervise()` acts on it; the one in
`wait_for_silence()` drops it, and by `FlowOK` that is after a request has been obeyed.

**Silence.** `reap_all()` reports no child. A tree without a root is empty
(`NoChildrenNobody`: take the set of all processes in `Acyclic`), nothing happens in
an empty tree, and pid 1 does not fork on its way down.

**The shells.** `ShellInv` says what the table is worth at every `pc`: the running
entries and the child that `Fork` has returned and `Track` has not entered yet are
together the processes that pid 1 forked itself, alive or unreaped; there is one of
them at most; and there is none when pid 1 is about to fork, because `Loop` looked
and nothing but pid 1 adds a shell. The kernel's other steps leave the set of shells
alone (`KernelKeepsShells`): a process somebody else started is nobody's shell, even
when it becomes a child of pid 1 and has a pid that was in the table before. Then
`NoDeathIsSilent` follows with `ChildrenNeverLost`.

**The strikes.** `JudgeInv` says that `attempts`, the shells started for the current
candidate since it last proved itself, is the number of strikes plus the one shell
that is not judged yet: running, or reaped with its life in `shortest`. As there is
one shell at most, no harvest merges two lives, and a harvest with a life in it finds
the table empty. The strikes stay below the limit and the candidate in range
outside of `park()`, so the step that leaves a candidate makes the strikes complete.

**The starts.** `StartInv` follows the second of the last fork through the places where
the code keeps it: before `Track` it is this second or an earlier one, afterwards
`started_at`, after the death what `shortest` was computed from, and in the end either
it has passed (the shell survived) or `respawnAt` lies behind it (it did not). The
backoff being at least a second is what makes the last case work; it is an assumption
on the constant.

**Whom the signals reach.** `RoundInv` has three parts. `DyingInv`: after the first
round everybody with a fatal signal can act on it, after SIGKILL that is everybody
alive, and once the clock has moved on, which it must do for a deadline to pass, only
processes in uninterruptible sleep are left of them. `HangUpInv`: every shell has been
hung up, is dying, or had no session yet; this needs `ShellInv`, since only the shells
in the table are hung up. `WayDown`: how `caller` and `pc` go together.

**The deadlines.** `DeadlineInv`: a wait began before the second that comes after the one
its deadline was computed in, and it ends only when the clock has reached the deadline. The
difference is more than the period less a second (`LessThanASecondLost`, arithmetic
over products, in steps).

**No way back.** `Order` numbers the places between a request and the end. `OnTheWay`
takes from `FlowOK` that a pid 1 with a request is at one of them, and then each step
stays or goes to a later one. `arm` and the wait it begins have one number, so it is said
separately that a wait does not return to `arm`.

**The refinement.** Each step of `ZevInit` is a step of `Lifecycle` or leaves all six
mapped variables alone. `Stutters` and `Works` are the two common cases; a process
that ends is `ShellDies` if it is the shell and `Work` if not (`EndIsDeathOrWork`); a
fork is `Start` because `ShellInv` has no shell there; `HandOver` is `GoDown` because
`OnlyTheUnkillableRemain` leaves nobody running; giving up is `GiveUp`. The mapping
uses history: `main()` is booting until the first fork (`StartedInv`). This theorem is
where the others meet.

### The boot

`Visits` says that each row of the table is mounted at most once; types depend on it,
because `depth` grows. `KeyInv`: whoever sees the key belong to pid 1 finds the
signals blocked, so no press is dropped; and `park()` leaves the key with the kernel or has
been refused. `LinesInv`: a line goes to stderr for one of three reasons. There is no
devtmpfs yet, and then it is about `/proc` or `/sys`, since the loop over the table has
come no further; there will never be one; or the kernel refused this very line, and then
nothing is remembered of it (`EmitCases`, `EmitGoes`). `BannerInv`: the rows that failed
are those with a line that names them (`Counts`; `LineNames` shows that a line names
one subject); a row that has been tried is mounted or named, and on a machine that had
nothing mounted never both (`Explained`), since only a mount that was there already can
be there after an error.

The refinement (`BootKeepsThePromise`): until the first shell is due, `TakeKey`, `GiveUp` and
`Reset` are the only steps of `Lifecycle` there can be, and everything else the boot does
is a stutter. `ZevInit` starts where `Boot` ends with `at = "spawn"`, in the phase
"booting" and with the key as the boot left it.

### The terminal

A child has the console from the step before exec until it dies (`ShellHasConsole`),
because the console is only taken by force by a child, and there is one child. It has
unblocked its signals before that (`Unmasked`), so the job of a shell is in front and
not masked (`SomebodyWaits`). Pid 1 is in front only where it owns the console, and
never does once there has been a shell (`PidOneInFront`).

### The fetch scripts

`Places` turns the three sequences into step numbers. The invariant `Inv` then says
what a run knows at each step: until its extraction the tree is absent, because it
looked; from its verification on, what it is going to extract is good; and if nothing
went wrong, every file it made itself is good. One step of `StepKeepsInv` for each
command.

### The log

A line only changes while its writer is at it, so the invariant says of each line of each
writer, separately, what the two files hold of it (`LineInv`), and more of the line that
the writer is at (`CurrentInv`): at `/dev/kmsg` there is nothing on stderr yet, and the
record exists exactly if `done` is the whole line; at stderr there is no record, and the
pieces reach up to `done`, the last one ends there and none goes further (`HoldsUpTo`).
That is why the next piece continues the last, and why `write_fd()` is right when it says
that the line is whole. Two lemmas carry it: `Appended`, how the pieces of a line change
when one is appended to a file, and `OtherLinesStay`.

### The build scripts

`Programs` checks the seven sequences of commands once and for all: each ends by
finishing what it makes and does not read that, only `build-initramfs-root.sh` has to do
with zevinit, in the order remove, start, list, build, copy, and what has an `/init` takes
it with its first command. `NeedsAreKept`, `TypesAreKept`: what a script needs has been
there since it began, because nothing removes it but the script that makes it.

`InitIsKept` (`InitInv`): before the copy the binary is from a build in this run, which is
not older than the version the run began with (`due`), and after the copy so is `/init`;
the image and the ISO take over both the `/init` and the `due` of what they are made of.
This would not hold if a failed build did not end the run (`set -e`) or the copy came
first. `OthersKeepTheirs`: a step changes nothing of what other scripts have made.

`FitIsKept` (`FitInv`): as long as everything a run needs is fit and its list of applets
has not failed, what it has read is sound, and `Results` makes its product fit when it
ends. What the last command of a run adds to `inOrder` needs only what is there, fit by
the invariant or in `unseen`, and in the second case the script is in `unseen` too; a
script leaves `inOrder` when it begins, so that no member of it is being made.

### The encodings

Constant arithmetic in `Encodings`: no state and no run. The theorems are at the end of
`ShellProofs` and `BootProofs`. Masks and shifts are `%` and `\div`, as they
are for the unsigned numbers of the code. Each number is split into its fields, and the
fields are found again one by one.

### What is only model-checked

- Liveness under fairness (`KeepsServing`, `EveryZombieReaped`, `RequestHonoured`,
  `BootEnds`, `ParkingGivesTheKeyBack`), which is beyond this prover.
  What the safety theorems contribute to them: nothing waits without a waker
  (`NoDeathIsSilent`, `ChildrenNeverLost`), a request is not dropped (`RequestsWait`), and
  a shutdown has no loop but its two waits, whose deadlines stay (`OnlyForward`).

## 5. Not modelled

- The inside of make, cargo, cpio, xorriso, tar, gpg: a tool that exits 0 has done its
  work. Building Limine itself.
- The tests in QEMU, the diagnosis script and the CI workflow: drivers without a state
  of their own. They say what pid 1 should do, and were read for that. The
  configuration of the boot loader, the kernel and busybox: data.
- Wording of log lines and of the banner, the numbers of `Level`, environment and
  arguments of the shell, NUL bytes in paths (`cstr`; every path is a constant).
- Whether a line is dropped by the kernel's rate limit: that depends on when lines are
  written and on what the children write through the same descriptor. `Boot` has whether
  the limit was lifted. zevinit's own README says that a boot where the knob is missing may
  lose messages, and nothing here says otherwise.
- The clock going backwards or overflowing: it is CLOCK_MONOTONIC in 64 bits.
- A flood of children without end, which would keep pid 1 in `reap_all()`; the model
  starts a bounded number of processes.
- A parked pid 1 reaps nothing. That is what the code does, and `EveryZombieReaped`
  excludes it.
- Two scripts at once, and what a script makes of a fit input that changes while it is
  being read.
- Panics: zevinit logs one and aborts; no modelled statement was found that can panic.

## 6. What is left

Done: all of `zevinit/src`, the scripts that fetch, configure, build and pack; an abstract
specification and two refinements of it; theorems for every invariant, action property and
refinement that a run checks.

What could be added: a refinement of `Terminal`'s one-step shutdown by `Shutdown`, so that
what waits while output is held is seen at each line pid 1 writes and not at the first
only. `Terminal` would then implement `Lifecycle` too.
