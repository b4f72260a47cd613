------------------------------ MODULE BootProofs ------------------------------
(***************************************************************************)
(* Theorems about coming up: types, the key, where log lines go, the       *)
(* number in the banner, that it is the beginning of what Lifecycle        *)
(* promises, and the numbers of the device nodes.                          *)
(***************************************************************************)
EXTENDS Boot, Encodings, TLAPS, FiniteSetTheorems

USE DEF fs, log, rest, keys, Quiet

\* What the two tables say.
LEMMA Rows ==
  /\ Len(TABLE) = 5 /\ Len(NODES) = 3
  /\ TABLE[1] = "proc" /\ TABLE[2] = "sys" /\ TABLE[3] = "dev"
  /\ TABLE[4] = "run" /\ TABLE[5] = "tmp"
  /\ NODES[1] = "null" /\ NODES[2] = "console" /\ NODES[3] = "tty"
  /\ Targets = {"proc", "sys", "dev", "run", "tmp"}
  /\ Nodes = {"null", "console", "tty"}
<1>1. /\ Len(TABLE) = 5 /\ TABLE[1] = "proc" /\ TABLE[2] = "sys" /\ TABLE[3] = "dev"
      /\ TABLE[4] = "run" /\ TABLE[5] = "tmp"
  BY DEF TABLE
<1>2. Len(NODES) = 3 /\ NODES[1] = "null" /\ NODES[2] = "console" /\ NODES[3] = "tty"
  BY DEF NODES
<1>3. 1 .. 5 = {1, 2, 3, 4, 5} /\ 1 .. 3 = {1, 2, 3}
  OBVIOUS
<1>4. Targets = {TABLE[1], TABLE[2], TABLE[3], TABLE[4], TABLE[5]}
  BY <1>1, <1>3 DEF Targets
<1>5. Nodes = {NODES[1], NODES[2], NODES[3]}
  BY <1>2, <1>3 DEF Nodes
<1>6. QED
  BY <1>1, <1>2, <1>4, <1>5

-------------------------------------------------------------------------------
(***************************************************************************)
(* Types.  The counters stay in range because every row of the table is    *)
(* visited once.                                                           *)
(***************************************************************************)

\* The rows from i on are still to be mounted.
Visits ==
  /\ at = "start" => i = 1 /\ failed = 0 /\ depth = before
  /\ at = "mount" =>
       /\ failed < i
       /\ \A t \in Targets : depth[t] # before[t] => \E j \in 1 .. i - 1 : TABLE[j] = t
  /\ at = "nodes" => i \in 1 .. Len(NODES)
  /\ at \in {"knob", "stdio"} => i = 1
  /\ \A t \in Targets : before[t] <= depth[t] /\ depth[t] <= before[t] + 1

TypeInv == TypeOK /\ Visits

About == Targets \cup Nodes \cup {"knob", "stdio", "ctty", "cad", "park"}

Lines == [about : About, to : {"kmsg", "stderr"}, refused : BOOLEAN]

\* What a line can be, and where it goes.
LEMMA EmitCases ==
  ASSUME NEW a, Emit(a)
  PROVE  \/ kmsg' = "open" /\ lines' = lines \cup {Line(a, "kmsg", FALSE)}
         \/ kmsg' # "open" /\ lines' = lines \cup {Line(a, "stderr", FALSE)}
         \/ depth["dev"] > 0 /\ lines' = lines \cup {Line(a, "stderr", TRUE)}
<1>1. CASE lines' = lines \cup {Line(a, IF kmsg' = "open" THEN "kmsg" ELSE "stderr", FALSE)}
  <2>1. CASE kmsg' = "open"
    BY <1>1, <2>1
  <2>2. CASE kmsg' # "open"
    BY <1>1, <2>2
  <2>3. QED
    BY <2>1, <2>2
<1>2. QED
  BY <1>1 DEF Emit

LEMMA EmitTyped ==
  ASSUME TypeOK, NEW a \in About, Emit(a)
  PROVE  kmsg' \in {"unopened", "open"} /\ lines' \subseteq Lines
<1>1. kmsg' \in {"unopened", "open"}
  BY DEF Emit, open_append, TypeOK
<1>2. lines \subseteq Lines
  BY DEF TypeOK, About, Lines
<1>3. \A to \in {"kmsg", "stderr"}, refused \in BOOLEAN : Line(a, to, refused) \in Lines
  BY DEF Line, Lines
<1>4. QED
  BY <1>1, <1>2, <1>3, EmitCases

\* The row that is about to be mounted has not been visited yet.
LEMMA FreshRow ==
  ASSUME TypeInv, at = "mount"
  PROVE  /\ i \in 1 .. 5 /\ TABLE[i] \in Targets
         /\ depth[TABLE[i]] = before[TABLE[i]]
         /\ \A j \in 1 .. 5 : TABLE[j] = TABLE[i] => j = i
<1>1. i \in {1, 2, 3, 4, 5}
  BY Rows DEF TypeInv, TypeOK
<1>2. \A j \in 1 .. 5 : j \in {1, 2, 3, 4, 5}
  OBVIOUS
<1>3. \A j \in 1 .. 5 : TABLE[j] = TABLE[i] => j = i
  BY <1>1, <1>2, Rows
<1>4. TABLE[i] \in Targets
  BY <1>1, Rows
<1>5. ASSUME depth[TABLE[i]] # before[TABLE[i]]
      PROVE  FALSE
  <2>1. PICK j \in 1 .. i - 1 : TABLE[j] = TABLE[i]
    BY <1>4, <1>5 DEF TypeInv, Visits
  <2>2. j \in 1 .. 5 /\ j # i
    BY <1>1, <2>1
  <2>3. QED
    BY <1>3, <2>1, <2>2
<1>6. QED
  BY <1>1, <1>3, <1>4, <1>5

LEMMA MountTyped ==
  ASSUME TypeInv, Mounts \/ MountFails
  PROVE  TypeInv'
<1> DEFINE t == TABLE[i]
<1>1. /\ at = "mount" /\ i \in 1 .. 5 /\ t \in Targets /\ depth[t] = before[t]
      /\ \A u \in Targets : depth[u] # before[u] => \E j \in 1 .. i - 1 : TABLE[j] = u
      /\ failed \in Nat /\ failed < i
  BY FreshRow DEF Mounts, MountFails, TypeInv, TypeOK, Visits
<1>2. \/ i < 5 /\ at' = "mount" /\ i' = i + 1
      \/ i = 5 /\ at' = "knob" /\ i' = 1
  BY <1>1, Rows DEF Mounts, MountFails, AfterRow
<1>3. /\ \A u \in Targets \ {t} : depth'[u] = depth[u]
      /\ depth'[t] = depth[t] \/ depth'[t] = depth[t] + 1
      /\ depth' \in [Targets -> 0 .. 2]
      /\ before' = before
  <2>1. before \in [Targets -> 0 .. 1] /\ depth \in [Targets -> 0 .. 2]
    BY DEF TypeInv, TypeOK
  <2>2. depth' = depth \/ depth' = [depth EXCEPT ![t] = @ + 1]
    BY DEF Mounts, MountFails
  <2>3. depth[t] \in 0 .. 1
    BY <1>1, <2>1
  <2>4. before' = before
    BY DEF Mounts, MountFails
  <2>5. QED
    BY <1>1, <2>1, <2>2, <2>3, <2>4
<1>4. failed' \in {failed, failed + 1}
  BY DEF Mounts, MountFails
<1>5. Visits'
  <2>1. \A u \in Targets : before'[u] <= depth'[u] /\ depth'[u] <= before'[u] + 1
    <3>1. \A u \in Targets : before[u] \in 0 .. 1 /\ depth[u] \in 0 .. 2
      BY DEF TypeInv, TypeOK
    <3>2. \A u \in Targets : before[u] <= depth[u] /\ depth[u] <= before[u] + 1
      BY DEF TypeInv, Visits
    <3>3. QED
      BY <1>1, <1>3, <3>1, <3>2
  <2>2. at' = "mount" =>
          \A u \in Targets : depth'[u] # before'[u] => \E j \in 1 .. i' - 1 : TABLE[j] = u
    <3> SUFFICES ASSUME at' = "mount", NEW u \in Targets, depth'[u] # before'[u]
                 PROVE  \E j \in 1 .. i' - 1 : TABLE[j] = u
      OBVIOUS
    <3>1. i' = i + 1
      BY <1>2
    <3>2. CASE u = t
      BY <1>1, <3>1, <3>2
    <3>3. CASE u # t
      <4>1. PICK j \in 1 .. i - 1 : TABLE[j] = u
        BY <1>1, <1>3, <3>3
      <4>2. j \in 1 .. i' - 1
        BY <1>1, <3>1, <4>1
      <4>3. QED
        BY <4>1, <4>2
    <3>4. QED
      BY <3>2, <3>3
  <2>3. at' = "mount" => failed' < i'
    BY <1>1, <1>2, <1>4
  <2>4. QED
    BY <1>2, <2>1, <2>2, <2>3 DEF Visits
<1>6. nodes' \subseteq Nodes
  BY DEF Mounts, MountFails, TypeInv, TypeOK
<1>7. kmsg' \in {"unopened", "open"} /\ lines' \subseteq Lines
  BY <1>1, EmitTyped DEF Mounts, MountFails, TypeInv, TypeOK, About, Lines
<1>8. failed' \in 0 .. 5 /\ i' \in 1 .. 5
  BY <1>1, <1>2, <1>4
<1>9. UNCHANGED <<unlimited, stdio, watched, cad, stuck, key, banner, usable>>
  BY DEF Mounts, MountFails
<1>10. QED
  BY <1>2, <1>3, <1>5, <1>6, <1>7, <1>8, <1>9, Rows DEF TypeInv, TypeOK, About, Lines, Steps

LEMMA BootTyped ==
  ASSUME TypeInv, [Next]_vars
  PROVE  TypeInv'
<1> USE Rows DEF TypeInv, TypeOK, Visits, Steps
<1>1. ASSUME NEW pid \in 1 .. 2, Start(pid)
      PROVE  TypeInv'
  BY <1>1 DEF Start
<1>2. CASE Mounts \/ MountFails
  BY <1>2, MountTyped
<1>3. ASSUME NEW a \in About, Emit(a) \/ UNCHANGED log
      PROVE  kmsg' \in {"unopened", "open"} /\ lines' \subseteq Lines
  BY <1>3, EmitTyped DEF About, Lines
<1>4. CASE KeepEveryMessage
  <2>1. /\ at = "knob" /\ at' = "nodes" /\ "knob" \in About
        /\ UNCHANGED <<fs, stdio, banner, usable, keys>>
        /\ Emit("knob") \/ UNCHANGED log
    BY <1>4 DEF KeepEveryMessage, About
  <2>2. unlimited' \in BOOLEAN
    BY <1>4 DEF KeepEveryMessage
  <2>3. kmsg' \in {"unopened", "open"} /\ lines' \subseteq Lines
    BY <1>3, <2>1
  <2>4. QED
    BY <2>1, <2>2, <2>3 DEF About, Lines
<1>5. CASE EnsureNode
  <2>1. i \in 1 .. 3 /\ at = "nodes" /\ NODES[i] \in Nodes
    BY <1>5 DEF EnsureNode
  <2>2. \/ i < 3 /\ at' = "nodes" /\ i' = i + 1
        \/ i = 3 /\ at' = "stdio" /\ i' = 1
    BY <1>5, <2>1 DEF EnsureNode, AfterRow
  <2>3. kmsg' \in {"unopened", "open"} /\ lines' \subseteq Lines
    <3>1. (Emit(NODES[i]) \/ UNCHANGED log) /\ NODES[i] \in About
      BY <1>5, <2>1 DEF EnsureNode, mknod_char, About
    <3>2. QED
      BY <1>3, <3>1
  <2>4. nodes' \subseteq Nodes
    <3>1. nodes' = nodes \/ nodes' = nodes \cup {NODES[i]}
      BY <1>5, Zenon DEF EnsureNode, mknod_char
    <3>2. QED
      BY <2>1, <3>1
  <2>5. UNCHANGED <<before, depth, failed, unlimited, stdio, banner, usable, watched, cad, stuck, key>>
    BY <1>5 DEF EnsureNode
  <2>6. QED
    BY <2>2, <2>3, <2>4, <2>5 DEF About, Lines
<1>6. CASE AttachStdio \/ TakeCtty \/ BlockSignals \/ OpenSignalFd
  BY <1>3, <1>6 DEF AttachStdio, TakeCtty, BlockSignals, OpenSignalFd, About, Lines
<1>7. CASE DisableCtrlAltDel \/ Banner \/ FindShells \/ Park
  BY <1>3, <1>7 DEF DisableCtrlAltDel, Banner, FindShells, Park, About, Lines
<1>8. CASE PressesCtrlAltDel
  BY <1>8 DEF PressesCtrlAltDel
<1>9. CASE UNCHANGED vars
  BY <1>9 DEF vars
<1>10. QED
  BY <1>1, <1>2, <1>4, <1>5, <1>6, <1>7, <1>8, <1>9 DEF Next, BootNext

THEOREM TypeInvHolds == Spec => []TypeInv
<1>1. Init => TypeInv
  <2> SUFFICES ASSUME Init
               PROVE  TypeInv
    OBVIOUS
  <2>1. TypeOK
    <3>1. before \in [Targets -> 0 .. 1] /\ depth \in [Targets -> 0 .. 2]
      BY DEF Init
    <3>2. nodes \subseteq Nodes
      BY Rows DEF Init
    <3>3. kmsg \in {"unopened", "open"} /\ unlimited \in BOOLEAN /\ watched \in BOOLEAN
          /\ stuck \in BOOLEAN /\ lines = {}
      BY DEF Init
    <3>4. /\ at \in Steps /\ i \in 1 .. 5 /\ failed \in 0 .. 5
          /\ stdio \in {"inherited", "console"} /\ cad \in {"kernel", "pid1"}
          /\ key \in {"none", "reset", "pending", "lost"}
          /\ banner \in 0 .. 5 \cup {Silent} /\ usable \in 0 .. MaxCandidates
      BY DEF Init, Steps
    <3>5. QED
      BY <3>1, <3>2, <3>3, <3>4, Rows DEF TypeOK
  <2>2. \A t \in Targets : before[t] <= depth[t] /\ depth[t] <= before[t] + 1
    BY DEF Init
  <2>3. Visits
    BY <2>2 DEF Init, Visits
  <2>4. QED
    BY <2>1, <2>3 DEF TypeInv
<1>2. QED
  BY <1>1, BootTyped, PTL DEF Spec

\* Every variable of a boot has its type (TypeOK).
THEOREM TypeCorrect == Spec => []TypeOK
<1>1. TypeInv => TypeOK
  BY DEF TypeInv
<1>2. QED
  BY <1>1, TypeInvHolds, PTL

-------------------------------------------------------------------------------
(***************************************************************************)
(* The key.  Pid 1 takes it only after its signals are blocked.            *)
(***************************************************************************)

KeyInv ==
  /\ cad = "pid1" => watched
  /\ at \in {"start", "mount", "knob", "nodes", "stdio", "ctty", "block"} =>
       cad = "kernel"
  /\ at \in {"signalfd", "cad"} => watched
  /\ at = "parked" => cad = "kernel" \/ stuck
  /\ KeyKeepsWorking

\* At every step of the boot a press is acted on or pending, never dropped, and where
\* nobody is left to read it the next one resets the machine, unless the kernel has
\* refused to take the key back (KeyKeepsWorking).
THEOREM KeyIsSafe == Spec => []KeyKeepsWorking
<1>1. Init => KeyInv
  BY DEF Init, KeyInv, KeyKeepsWorking
<1>2. TypeInv /\ KeyInv /\ [Next]_vars => KeyInv'
  <2> SUFFICES ASSUME TypeInv, KeyInv, [Next]_vars
               PROVE  KeyInv'
    OBVIOUS
  <2> USE DEF KeyInv, KeyKeepsWorking
  <2>1. CASE BlockSignals
    <3>1. \/ watched' = TRUE /\ at' = "signalfd"
          \/ watched' = FALSE /\ at' = "park"
      BY <2>1 DEF BlockSignals
    <3>2. at = "block" /\ UNCHANGED <<cad, stuck, key>>
      BY <2>1 DEF BlockSignals
    <3>3. QED
      BY <3>1, <3>2
  <2>2. CASE PressesCtrlAltDel
    <3>1. cad = "pid1" => key' = "pending" /\ at' = at
      BY <2>2, Zenon DEF PressesCtrlAltDel, KeyInv
    <3>2. cad = "kernel" => key' = "reset"
      BY <2>2 DEF PressesCtrlAltDel
    <3>3. UNCHANGED <<watched, cad, stuck>> /\ at' \in {at, "off"} /\ at # "off"
      BY <2>2 DEF PressesCtrlAltDel
    <3>4. QED
      BY <3>1, <3>2, <3>3 DEF TypeInv, TypeOK
  <2>3. CASE DisableCtrlAltDel \/ Park
    BY <2>3 DEF DisableCtrlAltDel, Park
  <2>4. CASE OpenSignalFd \/ AttachStdio \/ TakeCtty \/ Banner \/ FindShells
    BY <2>4 DEF OpenSignalFd, AttachStdio, TakeCtty, Banner, FindShells
  <2>5. CASE Mounts \/ MountFails \/ EnsureNode \/ KeepEveryMessage
    <3>1. /\ at \in {"mount", "nodes", "knob"}
          /\ at' \in {"mount", "knob", "nodes", "stdio"}
      BY <2>5 DEF Mounts, MountFails, EnsureNode, KeepEveryMessage, AfterRow
    <3>2. UNCHANGED <<watched, cad, stuck, key>>
      BY <2>5 DEF Mounts, MountFails, EnsureNode, KeepEveryMessage
    <3>3. QED
      BY <3>1, <3>2
  <2>6. ASSUME NEW pid \in 1 .. 2, Start(pid)
        PROVE  KeyInv'
    BY <2>6 DEF Start
  <2>7. CASE UNCHANGED vars
    BY <2>7 DEF vars
  <2>8. QED
    BY <2>1, <2>2, <2>3, <2>4, <2>5, <2>6, <2>7 DEF Next, BootNext
<1>3. KeyInv => KeyKeepsWorking
  BY DEF KeyInv
<1>4. QED
  BY <1>1, <1>2, <1>3, TypeInvHolds, PTL DEF Spec

-------------------------------------------------------------------------------
(***************************************************************************)
(* The log.  /dev/kmsg is there exactly when devtmpfs is, and with it come *)
(* all the nodes.  What is tried again for every line is found then.       *)
(***************************************************************************)

HasDev == depth["dev"] > 0

LinesInv ==
  /\ kmsg = "open" => HasDev
  /\ HasDev => nodes = Nodes
  /\ at = "start" => lines = {}
  /\ at = "mount" /\ i <= 3 => \A l \in lines : l.about \in {"proc", "sys"}
  /\ LogFindsKmsg

\* Where a line goes: to /dev/kmsg if devtmpfs is mounted, unless it is refused itself.
LEMMA EmitGoes ==
  ASSUME TypeOK, LinesInv, NEW a, Emit(a)
  PROVE  /\ kmsg' = "open" => HasDev
         /\ \A l \in lines' \ lines :
              l.about = a /\ (l.to = "stderr" /\ HasDev => l.refused)
<1>1. kmsg \in {"unopened", "open"} /\ (kmsg = "open" => HasDev)
  BY DEF TypeOK, LinesInv
<1>2. kmsg' = "open" => HasDev
  BY <1>1 DEF Emit, open_append, HasDev
<1>3. HasDev /\ kmsg' # "open" => lines' = lines \cup {Line(a, "stderr", TRUE)}
  BY <1>1 DEF Emit, open_append, HasDev
<1>4. CASE kmsg' = "open" /\ lines' = lines \cup {Line(a, "kmsg", FALSE)}
  BY <1>2, <1>4 DEF Line
<1>5. CASE HasDev /\ lines' = lines \cup {Line(a, "stderr", TRUE)}
  BY <1>2, <1>5 DEF Line
<1>6. CASE ~HasDev /\ lines' = lines \cup {Line(a, "stderr", FALSE)}
  BY <1>2, <1>6 DEF Line
<1>7. QED
  BY <1>3, <1>4, <1>5, <1>6, EmitCases DEF HasDev

\* Writing a line, or none, with nothing else changing.
LEMMA LineKeepsLines ==
  ASSUME TypeOK, LinesInv, NEW a, Emit(a) \/ UNCHANGED log,
         at' = "mount" /\ i' <= 3 =>
           a \in {"proc", "sys"} /\ \A l \in lines : l.about \in {"proc", "sys"},
         at' # "start", UNCHANGED depth,
         HasDev => nodes' = Nodes
  PROVE  LinesInv'
<1>1. HasDev' <=> HasDev
  BY DEF HasDev
<1>2. CASE UNCHANGED log
  BY <1>1, <1>2 DEF HasDev, LinesInv, LogFindsKmsg
<1>3. CASE Emit(a)
  <2>1. /\ kmsg' = "open" => HasDev
        /\ \A l \in lines' \ lines :
             l.about = a /\ (l.to = "stderr" /\ HasDev => l.refused)
    BY <1>3, EmitGoes
  <2>2. QED
    BY <1>1, <2>1 DEF HasDev, LinesInv, LogFindsKmsg
<1>4. QED
  BY <1>2, <1>3

LEMMA MountKeepsLines ==
  ASSUME TypeInv, LinesInv, Mounts \/ MountFails
  PROVE  LinesInv'
<1> DEFINE t == TABLE[i]
<1>1. /\ at = "mount" /\ i \in {1, 2, 3, 4, 5} /\ t \in Targets
      /\ (i = 1 => t = "proc") /\ (i = 2 => t = "sys") /\ (i = 3 => t = "dev")
      /\ (i = 4 => t = "run") /\ (i = 5 => t = "tmp")
  BY FreshRow, Rows DEF Mounts, MountFails
<1>2. /\ at' # "start" /\ (at' = "mount" => i' = i + 1 /\ i < 5)
  BY <1>1, Rows DEF Mounts, MountFails, AfterRow
<1>3. TypeOK /\ depth \in [Targets -> 0 .. 2]
  BY DEF TypeInv, TypeOK
<1>4. CASE Mounts
  <2>1. UNCHANGED <<kmsg, lines>>
    BY <1>4 DEF Mounts
  <2>2. HasDev => HasDev'
    BY <1>1, <1>3, <1>4 DEF Mounts, HasDev
  <2>3. HasDev' => t = "dev" \/ HasDev
    BY <1>1, <1>3, <1>4, Rows DEF Mounts, HasDev
  <2>4. HasDev' => nodes' = Nodes
    <3>1. nodes' = IF t = "dev" THEN Nodes ELSE nodes
      BY <1>4 DEF Mounts
    <3>2. QED
      BY <2>3, <3>1 DEF LinesInv
  <2>5. t = "dev" => i = 3
    BY <1>1
  <2>6. at' = "mount" /\ i' <= 3 => i <= 3
    BY <1>1, <1>2
  <2>7. LogFindsKmsg'
    BY <1>1, <2>1, <2>3, <2>5 DEF LinesInv, LogFindsKmsg, HasDev
  <2>8. QED
    BY <1>1, <1>2, <2>1, <2>2, <2>4, <2>6, <2>7 DEF LinesInv
<1>5. CASE MountFails
  <2>1. Emit(t) /\ UNCHANGED <<depth, nodes>>
    BY <1>5 DEF MountFails
  <2>2. at' = "mount" /\ i' <= 3 =>
          t \in {"proc", "sys"} /\ \A l \in lines : l.about \in {"proc", "sys"}
    BY <1>1, <1>2 DEF LinesInv
  <2>3. HasDev => nodes' = Nodes
    BY <2>1 DEF LinesInv
  <2>4. QED
    BY <1>2, <1>3, <2>1, <2>2, <2>3, LineKeepsLines
<1>6. QED
  BY <1>4, <1>5

THEOREM LinesInvHolds == Spec => []LinesInv
<1>1. TypeInv /\ Init => LinesInv
  <2> SUFFICES ASSUME TypeInv, Init
               PROVE  LinesInv
    OBVIOUS
  <2>1. kmsg = "unopened" /\ lines = {}
    BY DEF Init
  <2>2. HasDev => nodes = Nodes
    BY DEF Init, HasDev
  <2>3. QED
    BY <2>1, <2>2 DEF LinesInv, LogFindsKmsg
<1>2. TypeInv /\ LinesInv /\ [Next]_vars => LinesInv'
  <2> SUFFICES ASSUME TypeInv, LinesInv, [Next]_vars
               PROVE  LinesInv'
    OBVIOUS
  <2> USE Rows
  <2>1. TypeOK
    BY DEF TypeInv
  <2>2. ASSUME NEW a \in {"knob", "stdio", "ctty", "cad", "park"},
               Emit(a) \/ UNCHANGED log, at' \notin {"start", "mount"},
               UNCHANGED <<depth, nodes>>
        PROVE  LinesInv'
    <3>1. HasDev => nodes' = Nodes
      BY <2>2 DEF LinesInv
    <3>2. QED
      BY <2>1, <2>2, <3>1, LineKeepsLines
  <2>3. CASE KeepEveryMessage
    BY <2>2, <2>3 DEF KeepEveryMessage
  <2>4. CASE AttachStdio \/ TakeCtty
    BY <2>2, <2>4 DEF AttachStdio, TakeCtty
  <2>5. CASE BlockSignals \/ OpenSignalFd
    BY <2>2, <2>5 DEF BlockSignals, OpenSignalFd
  <2>6. CASE DisableCtrlAltDel \/ FindShells \/ Park
    BY <2>2, <2>6 DEF DisableCtrlAltDel, FindShells, Park
  <2>7. CASE EnsureNode
    <3>1. /\ at = "nodes" /\ at' \in {"nodes", "stdio"} /\ depth' = depth
          /\ NODES[i] \in Nodes
      BY <2>7, Rows DEF EnsureNode, AfterRow, TypeInv, Visits
    <3>2. CASE NODES[i] \in nodes
      <4>1. UNCHANGED <<nodes, log>>
        BY <2>7, <3>2 DEF EnsureNode
      <4>2. QED
        BY <2>2, <3>1, <4>1
    <3>3. CASE NODES[i] \notin nodes
      <4>1. ~HasDev
        BY <3>1, <3>3 DEF LinesInv
      <4>2. Emit(NODES[i]) \/ UNCHANGED log
        BY <2>7, <3>3 DEF EnsureNode, mknod_char
      <4>3. QED
        BY <2>1, <3>1, <4>1, <4>2, LineKeepsLines
    <3>4. QED
      BY <3>2, <3>3
  <2>8. ASSUME UNCHANGED <<log, depth, nodes>>, at' \notin {"start", "mount"}
        PROVE  LinesInv'
    BY <2>2, <2>8
  <2>9. CASE Banner
    BY <2>8, <2>9 DEF Banner
  <2>10. CASE PressesCtrlAltDel
    <3>1. UNCHANGED <<log, depth, nodes, i>> /\ (at' = "off" \/ at' = at)
      BY <2>10 DEF PressesCtrlAltDel
    <3>2. QED
      BY <3>1 DEF LinesInv, LogFindsKmsg, HasDev
  <2>11. ASSUME NEW pid \in 1 .. 2, Start(pid)
         PROVE  LinesInv'
    BY <2>11 DEF Start, LinesInv, LogFindsKmsg, HasDev
  <2>12. CASE UNCHANGED vars
    BY <2>12 DEF vars, LinesInv, LogFindsKmsg, HasDev
  <2>13. QED
    BY <2>3, <2>4, <2>5, <2>6, <2>7, <2>9, <2>10, <2>11, <2>12, MountKeepsLines
       DEF Next, BootNext
<1>3. QED
  BY <1>1, <1>2, TypeInvHolds, PTL DEF Spec

\* Once devtmpfs is mounted a line is on stderr only if it is older or was refused
\* itself, whatever became of the lines before it (LogFindsKmsg).
THEOREM LogIsFound == Spec => []LogFindsKmsg
<1>1. LinesInv => LogFindsKmsg
  BY DEF LinesInv
<1>2. QED
  BY <1>1, LinesInvHolds, PTL

-------------------------------------------------------------------------------
(***************************************************************************)
(* The banner.  failed counts the rows with a line, which are the missing  *)
(* ones and those where an older mount is left.                            *)
(***************************************************************************)

\* A machine where nothing was mounted before.
Clean == \A t \in Targets : before[t] = 0

\* The first n rows have been tried.
Tried(n) == {t \in Targets : \E j \in 1 .. n : TABLE[j] = t}

Counts(n) == IsFiniteSet(Named) /\ Cardinality(Named) = n

Explained(S) ==
  /\ Missing \cap S \subseteq Named /\ Named \subseteq S
  /\ Clean => Named \subseteq Missing

BannerInv ==
  /\ at = "start" => Named = {}
  /\ at = "mount" => Counts(failed) /\ Explained(Tried(i - 1))
  /\ at \in {"knob", "nodes", "stdio", "ctty", "block", "signalfd", "cad", "banner"} =>
       Counts(failed) /\ Explained(Targets)
  /\ banner # Silent => Counts(banner) /\ Explained(Targets)
  /\ at \in {"start", "mount", "knob"} => banner = Silent

\* A line names what it is about, and nothing else.
LEMMA LineNames ==
  ASSUME NEW a, Emit(a)
  PROVE  Named' = IF a \in Targets THEN Named \cup {a} ELSE Named
<1>1. PICK l : lines' = lines \cup {l} /\ l.about = a
  <2>1. \A to, refused : Line(a, to, refused).about = a
    BY DEF Line
  <2>2. QED
    BY <2>1, EmitCases
<1>2. QED
  BY <1>1 DEF Named

\* A row is named when it fails, and not otherwise.
LEMMA MountCounts ==
  ASSUME TypeInv, BannerInv, Mounts \/ MountFails
  PROVE  /\ Counts(failed)'
         /\ Missing' \cap Tried(i) \subseteq Named' /\ Named' \subseteq Tried(i)
         /\ Clean => Named' \subseteq Missing'
<1> DEFINE t == TABLE[i]
<1>1. /\ at = "mount" /\ i \in 1 .. 5 /\ t \in Targets /\ depth[t] = before[t]
      /\ \A j \in 1 .. 5 : TABLE[j] = t => j = i
  BY FreshRow DEF Mounts, MountFails
<1>2. t \notin Tried(i - 1) /\ Tried(i) = Tried(i - 1) \cup {t}
  <2>1. t \notin Tried(i - 1)
    BY <1>1 DEF Tried
  <2>2. \A j \in 1 .. i : j \in 1 .. i - 1 \/ j = i
    BY <1>1
  <2>3. (\A j \in 1 .. i - 1 : j \in 1 .. i) /\ i \in 1 .. i
    BY <1>1
  <2>4. \A u \in Targets : (\E j \in 1 .. i : TABLE[j] = u) <=>
                             u = t \/ \E j \in 1 .. i - 1 : TABLE[j] = u
    BY <2>2, <2>3
  <2>5. QED
    BY <1>1, <2>1, <2>4 DEF Tried
<1>3. /\ IsFiniteSet(Named) /\ Cardinality(Named) = failed
      /\ Missing \cap Tried(i - 1) \subseteq Named /\ Named \subseteq Tried(i - 1)
      /\ Clean => Named \subseteq Missing
  BY <1>1 DEF BannerInv, Counts, Explained
<1>4. depth \in [Targets -> 0 .. 2]
  BY DEF TypeInv, TypeOK
<1>5. CASE Mounts
  <2>1. /\ failed' = failed /\ lines' = lines
        /\ depth' = IF "ok" \in mount(t) THEN [depth EXCEPT ![t] = @ + 1] ELSE depth
    BY <1>5 DEF Mounts
  <2>2. "ok" \in mount(t) \/ depth[t] > 0
    BY DEF mount
  <2>3. depth'[t] # 0 /\ \A u \in Targets \ {t} : depth'[u] = depth[u]
    BY <1>1, <1>4, <2>1, <2>2
  <2>4. Missing' = Missing \ {t}
    BY <1>1, <2>3 DEF Missing
  <2>5. Named' = Named
    BY <2>1 DEF Named
  <2>6. QED
    BY <1>2, <1>3, <2>1, <2>4, <2>5 DEF Counts
<1>6. CASE MountFails
  <2>1. failed' = failed + 1 /\ depth' = depth /\ Emit(t)
    BY <1>6 DEF MountFails
  <2>2. Named' = Named \cup {t} /\ t \notin Named
    BY <1>1, <1>2, <1>3, <2>1, LineNames
  <2>3. Missing' = Missing
    BY <2>1 DEF Missing
  <2>4. Counts(failed)'
    BY <1>3, <2>1, <2>2, FS_AddElement DEF Counts
  <2>5. Clean => t \in Missing
    BY <1>1 DEF Clean, Missing
  <2>6. QED
    BY <1>2, <1>3, <2>2, <2>3, <2>4, <2>5
<1>7. QED
  BY <1>5, <1>6

\* The steps after the mounts name no filesystem.
LEMMA NamesStay ==
  ASSUME NEW a, Emit(a) \/ UNCHANGED log, a \notin Targets
  PROVE  Named' = Named
<1>1. CASE Emit(a)
  BY <1>1, LineNames
<1>2. CASE UNCHANGED log
  BY <1>2 DEF Named
<1>3. QED
  BY <1>1, <1>2

THEOREM BannerInvHolds == Spec => []BannerInv
<1>1. Init => BannerInv
  BY DEF Init, BannerInv, Named
<1>2. TypeInv /\ BannerInv /\ [Next]_vars => BannerInv'
  <2> SUFFICES ASSUME TypeInv, BannerInv, [Next]_vars
               PROVE  BannerInv'
    OBVIOUS
  <2>1. Clean' = Clean
    <3>1. UNCHANGED before
      BY DEF Next, BootNext, Start, Mounts, MountFails, KeepEveryMessage, EnsureNode,
         AttachStdio, TakeCtty, BlockSignals, OpenSignalFd, DisableCtrlAltDel, Banner,
         FindShells, Park, PressesCtrlAltDel, vars
    <3>2. QED
      BY <3>1 DEF Clean
  <2>2. CASE Mounts \/ MountFails
    <3>1. /\ Counts(failed)'
          /\ Missing' \cap Tried(i) \subseteq Named' /\ Named' \subseteq Tried(i)
          /\ Clean => Named' \subseteq Missing'
          /\ i \in 1 .. 5 /\ banner = Silent
      BY <2>2, MountCounts, FreshRow DEF Mounts, MountFails, BannerInv
    <3>2. banner' = banner
      BY <2>2 DEF Mounts, MountFails
    <3>3. \/ i < 5 /\ at' = "mount" /\ i' = i + 1
          \/ i = 5 /\ at' = "knob" /\ i' = 1
      BY <2>2, <3>1, Rows DEF Mounts, MountFails, AfterRow
    <3>4. CASE at' = "mount"
      <4>1. i' - 1 = i
        BY <3>1, <3>3, <3>4
      <4>2. QED
        BY <2>1, <3>1, <3>2, <3>4, <4>1 DEF BannerInv, Explained, Tried
    <3>5. CASE at' = "knob"
      <4>1. Tried(5) = Targets
        <5>1. \A t \in Targets : \E j \in 1 .. 5 : TABLE[j] = t
          BY Rows
        <5>2. QED
          BY <5>1 DEF Tried
      <4>2. Explained(Targets)'
        BY <2>1, <3>1, <3>3, <3>5, <4>1 DEF Explained
      <4>3. QED
        BY <3>1, <3>2, <3>5, <4>2 DEF BannerInv
    <3>6. QED
      BY <3>3, <3>4, <3>5
  <2>3. ASSUME NEW pid \in 1 .. 2, Start(pid)
        PROVE  BannerInv'
    <3>1. /\ at = "start" /\ i = 1 /\ failed = 0 /\ banner = Silent /\ Named = {}
          /\ UNCHANGED <<i, failed, banner, lines>>
          /\ at' \in {"mount", "exit"}
      BY <2>3 DEF Start, TypeInv, Visits, BannerInv
    <3>2. Named' = {}
      BY <3>1 DEF Named
    <3>3. Tried(i - 1)' = {}
      <4>1. 1 .. i' - 1 = {}
        BY <3>1
      <4>2. QED
        BY <4>1 DEF Tried
    <3>4. IsFiniteSet({}) /\ Cardinality({}) = 0
      BY FS_EmptySet
    <3>5. QED
      BY <3>1, <3>2, <3>3, <3>4 DEF BannerInv, Counts, Explained
  <2>4. ASSUME Named' = Named, UNCHANGED depth
        PROVE  /\ Explained(Targets) => Explained(Targets)'
               /\ \A n : Counts(n) <=> IsFiniteSet(Named') /\ Cardinality(Named') = n
    BY <2>1, <2>4 DEF Explained, Counts, Missing
  <2>5. CASE Banner
    <3>1. Named' = Named /\ UNCHANGED <<depth, failed>> /\ banner' = failed
          /\ at = "banner" /\ at' = "shells"
      BY <2>5 DEF Banner, Named
    <3>2. QED
      BY <2>4, <3>1 DEF BannerInv, Counts
  <2>6. CASE PressesCtrlAltDel \/ UNCHANGED vars
    <3>1. at' \in {at, "off"} /\ UNCHANGED <<depth, i, failed, banner>> /\ Named' = Named
      BY <2>6 DEF PressesCtrlAltDel, vars, Named
    <3>2. Missing' = Missing /\ Tried(i - 1)' = Tried(i - 1)
      BY <3>1 DEF Missing, Tried
    <3>3. QED
      BY <2>1, <3>1, <3>2 DEF BannerInv, Counts, Explained
  <2>7. ASSUME NEW a, Emit(a) \/ UNCHANGED log, a \notin Targets,
               at \in {"knob", "nodes", "stdio", "ctty", "block", "signalfd", "cad"} \/
                 at' \notin {"knob", "nodes", "stdio", "ctty", "block", "signalfd", "cad", "banner"},
               at' \notin {"start", "mount", "knob"},
               UNCHANGED <<depth, failed, banner>>
        PROVE  BannerInv'
    <3>1. Named' = Named
      BY <2>7, NamesStay
    <3>2. QED
      BY <2>4, <2>7, <3>1 DEF BannerInv, Counts
  <2>8. "knob" \notin Targets /\ "stdio" \notin Targets /\ "ctty" \notin Targets
        /\ "cad" \notin Targets /\ "park" \notin Targets /\ Nodes \cap Targets = {}
    BY Rows
  <2>9. CASE KeepEveryMessage
    BY <2>7, <2>8, <2>9 DEF KeepEveryMessage
  <2>10. CASE EnsureNode
    <3>1. /\ at = "nodes" /\ at' \in {"nodes", "stdio"} /\ UNCHANGED <<depth, failed, banner>>
          /\ NODES[i] \notin Targets
      BY <2>8, <2>10, Rows DEF EnsureNode, AfterRow, TypeInv, Visits
    <3>2. Emit(NODES[i]) \/ UNCHANGED log
      BY <2>10 DEF EnsureNode, mknod_char
    <3>3. QED
      BY <2>7, <3>1, <3>2
  <2>11. CASE AttachStdio \/ TakeCtty
    BY <2>7, <2>8, <2>11 DEF AttachStdio, TakeCtty
  <2>12. CASE BlockSignals \/ OpenSignalFd
    BY <2>7, <2>8, <2>12 DEF BlockSignals, OpenSignalFd
  <2>13. CASE DisableCtrlAltDel \/ FindShells \/ Park
    BY <2>7, <2>8, <2>13 DEF DisableCtrlAltDel, FindShells, Park
  <2>14. QED
    BY <2>2, <2>3, <2>5, <2>6, <2>9, <2>10, <2>11, <2>12, <2>13 DEF Next, BootNext
<1>3. QED
  BY <1>1, <1>2, TypeInvHolds, PTL DEF Spec

\* Whatever fails and whatever was mounted before, what is missing is counted in the
\* banner, and what is counted has a line; on a fresh machine what is counted is
\* missing (BannerTellsTheTruth).
THEOREM BannerIsTrue == Spec => []BannerTellsTheTruth
<1>1. BannerInv => BannerTellsTheTruth
  <2> SUFFICES ASSUME BannerInv, banner # Silent
               PROVE  /\ Missing \subseteq Named /\ banner = Cardinality(Named)
                      /\ Clean => Named = Missing
    BY DEF BannerTellsTheTruth, Clean
  <2>1. Missing \subseteq Targets
    BY DEF Missing
  <2>2. QED
    BY <2>1 DEF BannerInv, Counts, Explained
<1>2. QED
  BY <1>1, BannerInvHolds, PTL

-------------------------------------------------------------------------------
(***************************************************************************)
(* The promise.  Until the first shell is due nothing of what Lifecycle    *)
(* speaks of changes but the key, and the phase where pid 1 parks or the   *)
(* kernel resets the machine.                                              *)
(***************************************************************************)

\* Whatever fails, the boot is the beginning of a behaviour of Lifecycle
\* (ImplementsLifecycle).
THEOREM BootKeepsThePromise == Spec => ImplementsLifecycle
<1>1. Init => L!Init
  BY DEF Init, L!Init, Phase
<1>2. TypeInv /\ [Next]_vars => [L!Next]_(L!vars)
  <2> SUFFICES ASSUME TypeInv, [Next]_vars
               PROVE  [L!Next]_(L!vars)
    OBVIOUS
  <2>1. CASE DisableCtrlAltDel
    <3>1. at = "cad" /\ at' = "banner" /\ cad' \in {"pid1", cad}
      BY <2>1 DEF DisableCtrlAltDel
    <3>2. CASE cad' = "pid1"
      <4>1. L!TakeKey
        BY <3>1, <3>2 DEF L!TakeKey, Phase
      <4>2. QED
        BY <4>1 DEF L!Next
    <3>3. CASE cad' = cad
      BY <3>1, <3>3 DEF L!vars, Phase
    <3>4. QED
      BY <3>1, <3>2, <3>3
  <2>2. CASE Park
    <3>1. at = "park" /\ at' = "parked" /\ cad' \in {"kernel", cad}
      BY <2>2 DEF Park
    <3>2. L!GiveUp
      BY <3>1 DEF L!GiveUp, Phase
    <3>3. QED
      BY <3>2 DEF L!Next
  <2>3. CASE PressesCtrlAltDel
    <3>1. at # "off" /\ UNCHANGED cad
      BY <2>3 DEF PressesCtrlAltDel
    <3>2. CASE cad = "kernel" /\ at' = "off"
      <4>1. L!Reset
        BY <3>1, <3>2 DEF L!Reset, Phase
      <4>2. QED
        BY <4>1 DEF L!Next
    <3>3. CASE at' = at
      BY <3>1, <3>3 DEF L!vars, Phase
    <3>4. QED
      BY <2>3, <3>2, <3>3 DEF PressesCtrlAltDel
  <2>4. CASE \/ \E pid \in 1 .. 2 : Start(pid)
             \/ Mounts \/ MountFails \/ KeepEveryMessage \/ EnsureNode \/ AttachStdio
             \/ TakeCtty \/ BlockSignals \/ OpenSignalFd \/ Banner \/ FindShells
    <3>1. at \notin {"off", "parked"} /\ at' \notin {"off", "parked"} /\ UNCHANGED cad
      BY <2>4 DEF Start, Mounts, MountFails, KeepEveryMessage, EnsureNode, AfterRow,
         AttachStdio, TakeCtty, BlockSignals, OpenSignalFd, Banner, FindShells
    <3>2. QED
      BY <3>1 DEF L!vars, Phase
  <2>5. CASE UNCHANGED vars
    BY <2>5 DEF vars, L!vars, Phase
  <2>6. QED
    BY <2>1, <2>2, <2>3, <2>4, <2>5 DEF Next, BootNext
<1>3. QED
  BY <1>1, <1>2, TypeInvHolds, PTL DEF Spec, ImplementsLifecycle, L!Spec

-------------------------------------------------------------------------------
\* The node that exists is the node that was asked for: the minor that is split around
\* the major comes together again, for every pair the kernel has bits for (sys.rs:22-29,
\* whose tests compare a few numbers).
THEOREM NodeIsTheOneAskedFor ==
  ASSUME NEW major \in 0 .. 4095, NEW minor \in Nat, minor < 1048576
  PROVE  Decoded(makedev(major, minor)) = [major |-> major, minor |-> minor]
<1> DEFINE high == minor \div 256
           low  == minor % 256
           dev  == makedev(major, minor)
<1>1. /\ high \in 0 .. 4095 /\ low \in 0 .. 255 /\ minor = high * 256 + low
      /\ major \div 4096 = 0 /\ major % 4096 = major
  <2>1. high \in 0 .. 4095 /\ low \in 0 .. 255
    OBVIOUS
  <2>2. minor = high * 256 + low
    BY SMT
  <2>3. major \div 4096 = 0 /\ major % 4096 = major
    OBVIOUS
  <2>4. QED
    BY <2>1, <2>2, <2>3
<1> HIDE DEF high, low
<1>2. dev = high * 1048576 + major * 256 + low
  BY <1>1 DEF makedev, high, low
<1> HIDE DEF dev
<1>3. dev \in Nat /\ dev < 4294967296
  BY <1>1, <1>2
<1>4. /\ dev % 4294967296 = dev
      /\ dev \div 1048576 = high
      /\ dev % 256 = low
  BY <1>1, <1>2, <1>3
<1>5. dev \div 256 = high * 4096 + major
  BY <1>1, <1>2, <1>3
<1>6. (dev \div 256) % 4096 = major
  BY <1>1, <1>5
<1>7. QED
  BY <1>1, <1>4, <1>6 DEF Decoded, dev
===============================================================================
