---------------------------- MODULE PipelineProofs ----------------------------
(***************************************************************************)
(* Theorems about the scripts that configure, build and pack, for every    *)
(* set of scripts people run, every order they run them in, every          *)
(* interruption and any number of edits of zevinit.                        *)
(***************************************************************************)
EXTENDS Pipeline, TLAPS

USE PipelineAssumption DEF None, Versions

-------------------------------------------------------------------------------
(***************************************************************************)
(* What the seven sequences of commands have in common.                    *)
(***************************************************************************)

Root == "build_initramfs_root"
Does == {"keep", "remove", "start", "list", "finish", "zevinit", "init"}

LEMMA AllScripts ==
  Made = {"configure_kernel", "build_kernel", "configure_busybox", "build_busybox",
          "build_initramfs_root", "build_initramfs", "build_iso"}
BY DEF Made, Program

\* A program ends by finishing what the script makes, and never reads that.
WellFormed(p, s) ==
  /\ Len(p) \in 1 .. 6
  /\ \A k \in 1 .. Len(p) : p[k].does \in Does /\ p[k].reads \subseteq Made \ {s}
  /\ p[Len(p)].does = "finish"

\* Only one script has to do with zevinit, in an order of its own.
InOrder(p, s) ==
  IF s = Root
  THEN /\ Len(p) = 6 /\ p[1].does = "remove" /\ p[2].does = "start"
       /\ p[3].does = "list" /\ p[4].does = "zevinit" /\ p[5].does = "init"
  ELSE \A k \in 1 .. Len(p) : p[k].does \in {"keep", "start", "finish"}

\* A thing with an /init is copied by two scripts only, each in its first command.
PacksFirst(p, s) ==
  /\ \A k \in 2 .. Len(p) : p[k].reads \cap Carriers = {}
  /\ p[1].reads \cap Carriers # {} <=> s \in Carriers \ {Root}

LEMMA Programs ==
  ASSUME NEW s \in Made
  PROVE  WellFormed(Program[s], s) /\ InOrder(Program[s], s) /\ PacksFirst(Program[s], s)
<1> USE DEF WellFormed, InOrder, PacksFirst, Carriers, Does, Command
<1>1. CASE s = "configure_kernel"
  <2>1. Program[s] = configure_kernel
    BY <1>1 DEF Program
  <2>2. QED
    BY <1>1, <2>1, AllScripts DEF configure_kernel, Root
<1>2. CASE s = "configure_busybox"
  <2>1. Program[s] = configure_busybox
    BY <1>2 DEF Program
  <2>2. QED
    BY <1>2, <2>1, AllScripts DEF configure_busybox, Root
<1>3. CASE s = "build_kernel"
  <2>1. Program[s] = build_kernel
    BY <1>3 DEF Program
  <2>2. QED
    BY <1>3, <2>1, AllScripts DEF build_kernel, Make, Root
<1>4. CASE s = "build_busybox"
  <2>1. Program[s] = build_busybox
    BY <1>4 DEF Program
  <2>2. QED
    BY <1>4, <2>1, AllScripts DEF build_busybox, Make, Root
<1>5. CASE s = "build_initramfs"
  <2>1. Program[s] = build_initramfs
    BY <1>5 DEF Program
  <2>2. QED
    BY <1>5, <2>1, AllScripts DEF build_initramfs, Make, Root
<1>6. CASE s = "build_iso"
  <2>1. Program[s] = build_iso
    BY <1>6 DEF Program
  <2>2. QED
    BY <1>6, <2>1, AllScripts DEF build_iso, Root
<1>7. CASE s = Root
  <2>1. Program[s] = build_initramfs_root
    BY <1>7 DEF Program, Root
  <2>2. QED
    BY <1>7, <2>1, AllScripts DEF build_initramfs_root, Root
<1>8. QED
  BY <1>1, <1>2, <1>3, <1>4, <1>5, <1>6, <1>7, AllScripts DEF Root

-------------------------------------------------------------------------------
(***************************************************************************)
(* The invariant.  Where a run is in its script; what it knows of zevinit  *)
(* between clearing the root and copying to it; and that it can only have  *)
(* read something unfit if that is still there.                            *)
(***************************************************************************)

\* How many commands a script has.
Last(s) == Len(Program[s])

StepInv == step <= Last(script)

InitInv ==
  /\ \A c \in Carriers : due[c] <= sources
  /\ script = Root /\ step = 5 => binary >= due[Root]
  /\ script = Root /\ step = 6 => init[Root] >= due[Root]
  /\ script \in Carriers \ {Root} /\ step > 1 /\ Needs(script) \subseteq inOrder =>
       init[script] >= due[script]
  /\ InitIsNeverStale

FitInv ==
  /\ step > 0 /\ script \notin unseen /\ (\A n \in Needs(script) : file[n] = "fit") =>
       sound
  /\ step > 0 => script \notin inOrder
  /\ RightWhenRunInOrder

Inv == TypeOK /\ StepInv /\ InitInv /\ FitInv

\* The command that comes next.
LEMMA ThisCommand ==
  ASSUME TypeOK, StepInv, step > 0
  PROVE  /\ step \in 1 .. Last(script) /\ Last(script) \in 1 .. 6
         /\ Now.does \in Does /\ Now.reads \subseteq Needs(script)
         /\ Needs(script) \subseteq Made \ {script}
         /\ step = Last(script) => Now.does = "finish"
         /\ script = Root => Last(script) = 6
         /\ script = Root /\ step < 6 =>
              Now.does = <<"remove", "start", "list", "zevinit", "init">>[step]
         /\ script # Root => Now.does \in {"keep", "start", "finish"}
         /\ Packs <=> step = 1 /\ script \in Carriers \ {Root}
<1>1. script \in Made /\ step \in 1 .. 6
  BY DEF TypeOK
<1>2. WellFormed(Program[script], script) /\ InOrder(Program[script], script)
      /\ PacksFirst(Program[script], script)
  BY <1>1, Programs
<1>3. step \in 1 .. Last(script) /\ Last(script) \in 1 .. 6
  BY <1>1, <1>2 DEF WellFormed, StepInv, Last
<1>4. Now.does \in Does
  BY <1>2, <1>3 DEF WellFormed, Now, Last
<1>5. Now.reads \subseteq Needs(script)
  BY <1>3 DEF Now, Needs, Last
<1>6. Needs(script) \subseteq Made \ {script}
  BY <1>2 DEF WellFormed, Needs
<1>7. step = Last(script) => Now.does = "finish"
  BY <1>2 DEF WellFormed, Now, Last
<1>8. script = Root => Last(script) = 6
  BY <1>2 DEF InOrder, Last
<1>9. script = Root /\ step < 6 =>
        Now.does = <<"remove", "start", "list", "zevinit", "init">>[step]
  <2> SUFFICES ASSUME script = Root, step < 6
               PROVE  Now.does = <<"remove", "start", "list", "zevinit", "init">>[step]
    OBVIOUS
  <2>1. step = 1 \/ step = 2 \/ step = 3 \/ step = 4 \/ step = 5
    BY <1>1
  <2>2. QED
    BY <2>1, <1>2 DEF InOrder, Now
<1>10. script # Root => Now.does \in {"keep", "start", "finish"}
  BY <1>2, <1>3 DEF InOrder, Now, Last
<1>11. Packs <=> step = 1 /\ script \in Carriers \ {Root}
  BY <1>2, <1>3 DEF PacksFirst, Packs, Now, Last
<1>12. QED
  BY <1>3, <1>4, <1>5, <1>6, <1>7, <1>8, <1>9, <1>10, <1>11

\* What is copied with its /init is a thing the script needs.
LEMMA PackedIsNeeded ==
  ASSUME TypeOK, StepInv, step > 0, Packs
  PROVE  Packed \in Needs(script) \cap Carriers /\ Packed # script
<1>1. Packed \in Now.reads \cap Carriers
  BY DEF Packs, Packed
<1>2. QED
  BY <1>1, ThisCommand

\* The /init that a command leaves is a version of zevinit or none.
LEMMA InitAfterTyped ==
  ASSUME TypeOK, StepInv, step > 0, script \in Carriers
  PROVE  InitAfter \in Versions
  BY PackedIsNeeded DEF InitAfter, TypeOK

\* What a command makes of the file is what was there or one of the three states,
\* and the last command of a sound run makes it fit.
LEMMA Results ==
  ASSUME TypeOK, StepInv, step > 0
  PROVE  /\ Result \in {"absent", "unfit", "fit"}
         /\ Remains \subseteq {"absent", "unfit", "fit"}
         /\ sound' /\ step = Last(script) => Result = "fit"
<1>1. Now.does \in Does /\ (step = Last(script) => Now.does = "finish")
  BY ThisCommand
<1>2. file[script] \in {"absent", "unfit", "fit"}
  BY DEF TypeOK
<1>3. Result \in {"absent", "unfit", "fit"}
  BY <1>1, <1>2 DEF Result, Does
<1>4. Remains \subseteq {"absent", "unfit", "fit"}
  BY <1>2 DEF Remains
<1>5. Now.does = "finish" /\ sound' => Result = "fit"
  BY DEF Result
<1>6. QED
  BY <1>1, <1>3, <1>4, <1>5

\* What this run makes is no part of what it needs, so that it cannot spoil that.
LEMMA NeedsAreKept ==
  ASSUME TypeOK, StepInv, step > 0, NEW f, file' = [file EXCEPT ![script] = f]
  PROVE  /\ \A n \in Needs(script) : file'[n] = file[n]
         /\ \A n \in Made \ {script} : file'[n] = file[n]
         /\ file'[script] = f
<1>1. Needs(script) \subseteq Made \ {script}
  BY ThisCommand
<1>2. DOMAIN file = Made /\ script \in Made
  BY DEF TypeOK
<1>3. QED
  BY <1>1, <1>2

-------------------------------------------------------------------------------
(***************************************************************************)
(* Each step keeps each part.                                              *)
(***************************************************************************)

LEMMA TypesAreKept ==
  ASSUME Inv, [Next]_vars
  PROVE  TypeOK' /\ StepInv'
<1> USE DEF Inv
<1>1. ASSUME NEW s \in Scripts, Begin(s)
      PROVE  TypeOK' /\ StepInv'
  <2>1. s \in Made /\ Last(s) \in 1 .. 6
    BY Programs DEF WellFormed, Last
  <2>2. CASE Enters(s) /\ \A n \in Needs(s) : file[n] # "absent"
    <3>1. /\ script' = s /\ step' = 1 /\ exit' = "none" /\ sound' = TRUE
          /\ inOrder' \subseteq Made /\ unseen' \subseteq Made
          /\ UNCHANGED <<file, sources, binary, init>>
      BY <1>1, <2>2 DEF Begin, Enters, TypeOK
    <3>2. due' \in [Carriers -> 0 .. MaxEdits]
      BY <2>2 DEF Enters, TypeOK
    <3>3. Needs(script)' = Needs(s) /\ Last(script') = Last(s)
      BY <3>1 DEF Needs
    <3>4. \A n \in Needs(script)' : file'[n] # "absent"
      BY <2>2, <3>1, <3>3
    <3>5. StepInv'
      BY <2>1, <3>1, <3>3 DEF StepInv
    <3>6. QED
      BY <2>1, <3>1, <3>2, <3>4, <3>5 DEF TypeOK
  <2>3. CASE exit' = "told" /\ UNCHANGED <<step, sound, due, inOrder, unseen>>
    <3>1. script' = s /\ step = 0 /\ UNCHANGED <<file, sources, binary, init>>
      BY <1>1 DEF Begin
    <3>2. QED
      BY <2>1, <2>3, <3>1 DEF TypeOK, StepInv
  <2>4. QED
    BY <1>1, <2>2, <2>3 DEF Begin
<1>2. ASSUME step > 0, GoOn, NEW f, f \in {"absent", "unfit", "fit"},
             file' = [file EXCEPT ![script] = f], UNCHANGED <<script, sources>>,
             sound' \in BOOLEAN, binary' \in Versions, init' \in [Carriers -> Versions],
             due' \in [Carriers -> 0 .. MaxEdits], unseen' \subseteq Made
      PROVE  TypeOK' /\ StepInv'
  <2>1. step \in 1 .. Last(script) /\ Last(script) \in 1 .. 6
    BY <1>2, ThisCommand
  <2>2. file' \in [Made -> {"absent", "unfit", "fit"}]
    BY <1>2 DEF TypeOK
  <2>3. \/ step < Last(script) /\ step' = step + 1 /\ UNCHANGED <<exit, inOrder>>
        \/ step' = 0 /\ exit' = "done" /\ inOrder' \subseteq Made
    BY <1>2 DEF GoOn, TypeOK, Last
  <2>4. Needs(script)' = Needs(script) /\ Last(script') = Last(script)
    BY <1>2 DEF Needs
  <2>5. \A n \in Needs(script) : file'[n] = file[n]
    BY <1>2, NeedsAreKept
  <2>6. (step > 0 => exit = "none" /\ \A n \in Needs(script) : file[n] # "absent")'
    BY <2>1, <2>3, <2>4, <2>5 DEF TypeOK
  <2>7. step' \in 0 .. 6 /\ StepInv'
    BY <2>1, <2>3, <2>4 DEF TypeOK, StepInv
  <2>8. QED
    BY <1>2, <2>2, <2>3, <2>6, <2>7 DEF TypeOK
<1>3. CASE Succeeds
  <2>1. step > 0 /\ GoOn /\ UNCHANGED <<script, sources>> /\ sound' \in BOOLEAN
        /\ file' = [file EXCEPT ![script] = Result]
    BY <1>3 DEF Succeeds, TypeOK
  <2>2. Result \in {"absent", "unfit", "fit"}
    BY <2>1, Results
  <2>3. binary' \in Versions /\ unseen' \subseteq Made
    BY <1>3 DEF Succeeds, TypeOK
  <2>4. init' \in [Carriers -> Versions]
    BY <1>3, <2>1, InitAfterTyped DEF Succeeds, TypeOK
  <2>5. due' \in [Carriers -> 0 .. MaxEdits]
    BY <1>3, <2>1, PackedIsNeeded DEF Succeeds, TypeOK
  <2>6. QED
    BY <1>2, <2>1, <2>2, <2>3, <2>4, <2>5
<1>4. CASE ListsInPart
  <2>1. /\ step > 0 /\ GoOn /\ sound' = FALSE /\ unseen' \subseteq Made
        /\ UNCHANGED <<script, file, sources, binary, init, due>>
    BY <1>4 DEF ListsInPart, TypeOK
  <2>2. file' = [file EXCEPT ![script] = file[script]]
        /\ file[script] \in {"absent", "unfit", "fit"}
    BY <2>1 DEF TypeOK
  <2>3. binary' \in Versions /\ init' \in [Carriers -> Versions]
        /\ due' \in [Carriers -> 0 .. MaxEdits]
    BY <2>1 DEF TypeOK
  <2>4. QED
    BY <1>2, <2>1, <2>2, <2>3
<1>5. CASE Stops
  <2>1. step > 0 /\ Last(script) \in 1 .. 6
    BY <1>5, ThisCommand DEF Stops
  <2>2. /\ step' = 0 /\ exit' = "stopped"
        /\ UNCHANGED <<script, sound, sources, due, inOrder, unseen>>
    BY <1>5 DEF Stops
  <2>3. PICK f \in Remains : file' = [file EXCEPT ![script] = f]
    BY <1>5 DEF Stops
  <2>4. file' \in [Made -> {"absent", "unfit", "fit"}]
    BY <2>1, <2>3, Results DEF TypeOK
  <2>5. binary' \in Versions
    BY <1>5 DEF Stops, TypeOK
  <2>6. init' \in [Carriers -> Versions]
    BY <1>5, <2>1, InitAfterTyped DEF Stops, TypeOK
  <2>7. QED
    BY <2>1, <2>2, <2>4, <2>5, <2>6 DEF TypeOK, StepInv
<1>6. CASE Edit
  <2>1. sources' = sources + 1 /\ sources < MaxEdits
        /\ UNCHANGED <<script, step, exit, file, sound, binary, init, due, inOrder, unseen>>
    BY <1>6 DEF Edit
  <2>2. Needs(script)' = Needs(script)
    BY <2>1 DEF Needs
  <2>3. QED
    BY <2>1, <2>2 DEF TypeOK, StepInv
<1>7. CASE UNCHANGED vars
  BY <1>7 DEF vars, TypeOK, StepInv, Needs
<1>8. QED
  BY <1>1, <1>3, <1>4, <1>5, <1>6, <1>7 DEF Next

\* A run touches the /init of what it makes only, and what it makes is not in order.
LEMMA OthersKeepTheirs ==
  ASSUME Inv, Succeeds \/ ListsInPart \/ Stops
  PROVE  /\ step > 0 /\ script \notin inOrder /\ UNCHANGED <<script, sources>>
         /\ \A c \in Carriers \ {script} : init'[c] = init[c] /\ due'[c] = due[c]
         /\ inOrder' \subseteq inOrder \cup {script}
  BY ThisCommand DEF Inv, FitInv, TypeOK, Succeeds, ListsInPart, Stops, GoOn

\* Zevinit is built after the run began, and copied after it was built; the image
\* and the ISO get the /init of what they are made of.
LEMMA InitIsKept ==
  ASSUME Inv, [Next]_vars
  PROVE  InitInv'
<1> USE DEF Inv
<1>1. ASSUME NEW s \in Scripts, Begin(s)
      PROVE  InitInv'
  <2>1. script' = s /\ step' \in {0, 1} /\ UNCHANGED <<sources, binary, init>>
        /\ inOrder' \subseteq inOrder
    BY <1>1 DEF Begin, Enters
  <2>2. \/ due' = due
        \/ due' = [due EXCEPT ![Root] = sources] /\ Root \notin inOrder'
    BY <1>1 DEF Begin, Enters, Root
  <2>3. \A c \in Carriers : due'[c] <= sources
    BY <2>2 DEF InitInv, TypeOK
  <2>4. \A c \in inOrder' \cap Carriers : due'[c] = due[c]
    BY <2>2 DEF TypeOK
  <2>5. QED
    BY <2>1, <2>3, <2>4 DEF InitInv, InitIsNeverStale
<1>2. CASE Succeeds \/ ListsInPart
  <2>1. /\ step > 0 /\ script \notin inOrder /\ UNCHANGED <<script, sources>>
        /\ \A c \in Carriers \ {script} : init'[c] = init[c] /\ due'[c] = due[c]
        /\ GoOn
    BY <1>2, OthersKeepTheirs DEF Succeeds, ListsInPart
  <2>2. /\ Last(script) \in 1 .. 6 /\ step \in 1 .. Last(script)
        /\ \/ step < Last(script) /\ step' = step + 1 /\ inOrder' = inOrder
           \/ /\ step = Last(script) /\ step' = 0
              /\ \/ inOrder' = inOrder
                 \/ inOrder' = inOrder \cup {script} /\ Needs(script) \subseteq inOrder
    BY <2>1, ThisCommand DEF GoOn, Last
  <2>3. Needs(script)' = Needs(script) /\ script \notin Needs(script)
    BY <2>1, ThisCommand DEF Needs
  <2>4. /\ sources \in Nat /\ (\A c \in Carriers : due[c] \in Nat /\ due'[c] \in Nat)
        /\ (\A c \in Carriers : init[c] \in Int) /\ binary \in Int
    BY TypesAreKept, <1>2 DEF TypeOK, Next
  <2>5. CASE script \notin Carriers
    <3>1. script # Root
      BY <2>5 DEF Root, Carriers
    <3>2. QED
      BY <2>1, <2>2, <2>5, <3>1 DEF InitInv, InitIsNeverStale
  <2>6. CASE script = Root
    <3>1. /\ Root \in Carriers /\ ~Packs /\ Last(script) = 6
          /\ step = 1 => Now.does = "remove"
          /\ step = 2 => Now.does = "start"
          /\ step = 3 => Now.does = "list"
          /\ step = 4 => Now.does = "zevinit"
          /\ step = 5 => Now.does = "init"
          /\ step = 6 => Now.does = "finish"
      BY <2>1, <2>2, <2>6, ThisCommand DEF Root, Carriers
    <3>2. due' = due
      BY <1>2, <3>1 DEF Succeeds, ListsInPart
    <3>3. CASE step \in 1 .. 3
      BY <2>1, <2>2, <2>6, <3>1, <3>2, <3>3 DEF InitInv, InitIsNeverStale
    <3>4. CASE step = 4
      <4>1. binary' = sources
        BY <1>2, <3>1, <3>4 DEF Succeeds, ListsInPart
      <4>2. QED
        BY <2>1, <2>2, <2>4, <2>6, <3>1, <3>2, <3>4, <4>1 DEF InitInv, InitIsNeverStale
    <3>5. CASE step = 5
      <4>1. init' = [init EXCEPT ![Root] = binary]
        BY <1>2, <2>6, <3>1, <3>5 DEF Succeeds, ListsInPart, InitAfter
      <4>2. init'[Root] = binary
        BY <3>1, <4>1 DEF TypeOK
      <4>3. QED
        BY <2>1, <2>2, <2>6, <3>1, <3>2, <3>5, <4>2 DEF InitInv, InitIsNeverStale
    <3>6. CASE step = 6
      <4>1. init' = [init EXCEPT ![Root] = init[Root]]
        BY <1>2, <2>6, <3>1, <3>6 DEF Succeeds, ListsInPart, InitAfter
      <4>2. init' = init
        BY <4>1 DEF TypeOK
      <4>3. QED
        BY <2>1, <2>2, <2>6, <3>1, <3>2, <3>6, <4>2 DEF InitInv, InitIsNeverStale
    <3>7. QED
      BY <2>2, <3>1, <3>3, <3>4, <3>5, <3>6
  <2>7. CASE script \in Carriers \ {Root}
    <3>1. Succeeds /\ (Packs <=> step = 1) /\ Now.does \in {"keep", "start", "finish"}
      BY <1>2, <2>1, <2>7, ThisCommand DEF ListsInPart
    <3>2. Needs(script) \subseteq inOrder => init'[script] >= due'[script]
      <4>1. CASE Packs
        <5>1. Packed \in Needs(script) \cap Carriers
          BY <2>1, <4>1, PackedIsNeeded
        <5>2. init' = [init EXCEPT ![script] = init[Packed]]
              /\ due' = [due EXCEPT ![script] = due[Packed]]
          BY <2>7, <3>1, <4>1 DEF Succeeds, InitAfter
        <5>3. init'[script] = init[Packed] /\ due'[script] = due[Packed]
          BY <2>7, <5>2 DEF TypeOK
        <5>4. QED
          BY <5>1, <5>3 DEF InitInv, InitIsNeverStale
      <4>2. CASE ~Packs
        <5>1. init' = [init EXCEPT ![script] = init[script]] /\ due' = due
          BY <2>7, <3>1, <4>2 DEF Succeeds, InitAfter
        <5>2. init' = init
          BY <5>1 DEF TypeOK
        <5>3. QED
          BY <2>2, <2>7, <3>1, <4>2, <5>1, <5>2 DEF InitInv
      <4>3. QED
        BY <4>1, <4>2
    <3>3. \A c \in Carriers : due'[c] <= sources
      <4>1. due' = due \/ (Packs /\ due' = [due EXCEPT ![script] = due[Packed]])
        BY <3>1 DEF Succeeds
      <4>2. QED
        BY <2>1, <4>1, PackedIsNeeded DEF InitInv, TypeOK
    <3>4. (Needs(script) \subseteq inOrder)' => Needs(script) \subseteq inOrder
      BY <2>2, <2>3
    <3>5. InitIsNeverStale'
      BY <2>1, <2>2, <3>2 DEF InitInv, InitIsNeverStale
    <3>6. QED
      BY <2>1, <2>7, <3>2, <3>3, <3>4, <3>5 DEF InitInv
  <2>8. QED
    BY <2>5, <2>6, <2>7
<1>3. CASE Stops
  <2>1. /\ step' = 0 /\ UNCHANGED <<script, sources, due, inOrder>> /\ script \notin inOrder
        /\ \A c \in Carriers \ {script} : init'[c] = init[c]
    BY <1>3, OthersKeepTheirs DEF Stops
  <2>2. QED
    BY <2>1 DEF InitInv, InitIsNeverStale
<1>4. CASE Edit
  <2>1. sources' = sources + 1 /\ UNCHANGED <<script, step, binary, init, due, inOrder>>
    BY <1>4 DEF Edit
  <2>2. Needs(script)' = Needs(script)
    BY <2>1 DEF Needs
  <2>3. \A c \in Carriers : due[c] <= sources'
    BY <2>1 DEF InitInv, TypeOK
  <2>4. QED
    BY <2>1, <2>2, <2>3 DEF InitInv, InitIsNeverStale
<1>5. CASE UNCHANGED vars
  BY <1>5 DEF vars, InitInv, InitIsNeverStale, Needs
<1>6. QED
  BY <1>1, <1>2, <1>3, <1>4, <1>5 DEF Next

\* A run cannot read something unfit without it being there at its end, because
\* nobody else runs; so what is finished after all it needs is fit.
LEMMA FitIsKept ==
  ASSUME Inv, [Next]_vars
  PROVE  FitInv'
<1> USE DEF Inv, FitInv, RightWhenRunInOrder
<1>1. ASSUME NEW s \in Scripts, Begin(s)
      PROVE  FitInv'
  BY <1>1 DEF Begin, Enters
<1>2. CASE Succeeds
  <2>1. /\ step > 0 /\ script \in Made /\ script \notin inOrder
        /\ Now.reads \subseteq Needs(script)
    BY <1>2, ThisCommand DEF Succeeds, TypeOK
  <2>2. /\ file' = [file EXCEPT ![script] = Result] /\ script' = script
        /\ sound' = (sound /\ \A r \in Now.reads : file[r] = "fit")
        /\ unseen \subseteq unseen' /\ unseen' \subseteq unseen \cup {script}
        /\ script \notin unseen' => Needs(script) \cap unseen = {}
    BY <1>2 DEF Succeeds
  <2>3. /\ \A n \in Needs(script) : file'[n] = file[n]
        /\ \A n \in Made \ {script} : file'[n] = file[n]
        /\ file'[script] = Result
    BY <2>1, <2>2, NeedsAreKept
  <2>4. script \notin unseen' /\ (\A n \in Needs(script) : file[n] = "fit") => sound'
    BY <2>1, <2>2
  <2>5. Needs(script)' = Needs(script)
    BY <2>2 DEF Needs
  <2>6. CASE step < Last(script)
    <3>1. inOrder' = inOrder /\ inOrder \subseteq Made
      BY <1>2, <2>6 DEF Succeeds, GoOn, Last, TypeOK
    <3>2. QED
      BY <2>1, <2>2, <2>3, <2>4, <2>5, <3>1
  <2>7. CASE step = Last(script)
    <3>1. step' = 0
      BY <1>2, <2>7 DEF Succeeds, GoOn, Last
    <3>2. inOrder' = IF Needs(script) \subseteq inOrder THEN inOrder \cup {script} ELSE inOrder
      BY <1>2, <2>7 DEF Succeeds, GoOn, Last
    <3>3. inOrder \subseteq Made
      BY DEF TypeOK
    <3>4. Needs(script) \subseteq inOrder /\ script \notin unseen' => Result = "fit"
      BY <2>1, <2>2, <2>4, <2>7, Results
    <3>5. \A n \in inOrder \ unseen : file'[n] = "fit"
      BY <2>1, <2>3, <3>3
    <3>6. QED
      BY <2>2, <2>3, <3>1, <3>2, <3>4, <3>5
  <2>8. QED
    BY <2>1, <2>6, <2>7, ThisCommand
<1>3. CASE ListsInPart
  <2>1. /\ step > 0 /\ script' = script /\ script \in unseen' /\ unseen \subseteq unseen'
        /\ file' = file /\ script \notin inOrder /\ Now.does = "list" /\ GoOn
    BY <1>3 DEF ListsInPart
  <2>2. step # Last(script)
    BY <2>1, ThisCommand
  <2>3. inOrder' = inOrder
    BY <2>1, <2>2, ThisCommand DEF GoOn, Last
  <2>4. QED
    BY <2>1, <2>3
<1>4. CASE Stops
  <2>1. /\ step > 0 /\ script \notin inOrder /\ inOrder \subseteq Made
        /\ step' = 0 /\ UNCHANGED <<inOrder, unseen>>
    BY <1>4 DEF Stops, TypeOK
  <2>2. PICK f \in Remains : file' = [file EXCEPT ![script] = f]
    BY <1>4 DEF Stops
  <2>3. \A n \in Made \ {script} : file'[n] = file[n]
    BY <2>1, <2>2, NeedsAreKept
  <2>4. QED
    BY <2>1, <2>3
<1>5. CASE Edit \/ UNCHANGED vars
  <2>1. UNCHANGED <<script, step, file, sound, inOrder, unseen>>
    BY <1>5 DEF Edit, vars
  <2>2. Needs(script)' = Needs(script)
    BY <2>1 DEF Needs
  <2>3. QED
    BY <2>1, <2>2
<1>6. QED
  BY <1>1, <1>2, <1>3, <1>4, <1>5 DEF Next

THEOREM InvHolds == Spec => []Inv
<1>1. Init => Inv
  <2> SUFFICES ASSUME Init
               PROVE  Inv
    OBVIOUS
  <2>1. script \in Made /\ Last(script) \in 1 .. 6
    BY Programs DEF Init, WellFormed, Last
  <2>2. TypeOK /\ StepInv
    BY <2>1 DEF Init, TypeOK, StepInv
  <2>3. InitInv
    BY DEF Init, InitInv, InitIsNeverStale
  <2>4. FitInv
    BY DEF Init, FitInv, RightWhenRunInOrder
  <2>5. QED
    BY <2>2, <2>3, <2>4 DEF Inv
<1>2. Inv /\ [Next]_vars => Inv'
  BY TypesAreKept, InitIsKept, FitIsKept DEF Inv
<1>3. QED
  BY <1>1, <1>2, PTL DEF Spec

-------------------------------------------------------------------------------

\* Every variable keeps its type, and a run that is under way has found what it
\* needs (TypeOK): nothing a script needs is taken away under it.
THEOREM TypeCorrect == Spec => []TypeOK
<1>1. Inv => TypeOK
  BY DEF Inv
<1>2. QED
  BY <1>1, InvHolds, PTL

\* The /init of a root, an image or an ISO that was built in order is never older than
\* the zevinit that was there when the run it comes from began, however often zevinit
\* is edited and wherever other runs are interrupted (InitIsNeverStale,
\* build-initramfs-root.sh).
THEOREM InitIsFresh == Spec => []InitIsNeverStale
<1>1. Inv => InitIsNeverStale
  BY DEF Inv, InitInv
<1>2. QED
  BY <1>1, InvHolds, PTL

\* A script that ran to its end after all it needs did has made a fit thing, for every
\* set of scripts and every history of interrupted and premature runs; but for what was
\* made with a list of applets that failed (RightWhenRunInOrder, the tests at the head
\* of the scripts).
THEOREM OrderIsEnough == Spec => []RightWhenRunInOrder
<1>1. Inv => RightWhenRunInOrder
  BY DEF Inv, FitInv
<1>2. QED
  BY <1>1, InvHolds, PTL
================================================================================
