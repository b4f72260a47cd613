-------------------------------- MODULE Pipeline -------------------------------
(***************************************************************************)
(* The scripts that configure, build and pack, from a .config to the ISO.  *)
(* Each makes one thing out of what earlier ones have made, begins with a  *)
(* test that this is there, and ends when it is interrupted or a command   *)
(* fails: every one but the list of applets, whose failure set -e does not *)
(* see in the words of a for loop.  People run them in any order, any      *)
(* number of times, and edit zevinit in between.                           *)
(*                                                                         *)
(* A script and what it makes have one name.  What it makes is absent, fit *)
(* (as a whole run over fit inputs makes it) or unfit: there, but not so.  *)
(*                                                                         *)
(* Assumptions: the source trees are whole (see Fetch), a tool that exits  *)
(* 0 has done its work, and no two scripts run at once.                    *)
(***************************************************************************)
EXTENDS Integers, Sequences

CONSTANTS
  Scripts,   \* the scripts people run; what the others make is there and fit
  MaxEdits   \* bound: how often zevinit is edited

\* A command of a script: what it does to the thing the script makes (keep it,
\* remove it, start it anew or finish it; list the applets for which it makes links;
\* or make the binary of zevinit, or copy it to /init), and what it reads of earlier
\* scripts.
Command(does, reads) == [does |-> does, reads |-> reads]

\* One command that reads the input and writes the output.
Make(input) == <<Command("finish", {input})>>

\* defconfig, merge_config.sh, olddefconfig.
configure_kernel ==
  <<Command("start", {}), Command("start", {}), Command("finish", {})>>

\* defconfig, the edits of the .config, silentoldconfig.
configure_busybox ==
  <<Command("start", {}), Command("start", {}), Command("finish", {})>>

build_kernel    == Make("configure_kernel")
build_busybox   == Make("configure_busybox")
build_initramfs == Make("build_initramfs_root")

\* Variant for the mutation check: the last binary that was built is good enough.
build_initramfs_root_builds_last ==
  <<Command("remove", {}), Command("start", {"build_busybox"}), Command("list", {}),
    Command("init", {}), Command("zevinit", {}), Command("finish", {})>>

\* rm -rf; the directories and busybox; the links to it; build-zevinit.sh; the copy to
\* /init; chmod.
build_initramfs_root ==
  <<Command("remove", {}), Command("start", {"build_busybox"}), Command("list", {}),
    Command("zevinit", {}), Command("init", {}), Command("finish", {})>>

\* The copies into iso-root; xorriso; limine bios-install.
build_iso ==
  <<Command("keep", {"build_kernel", "build_initramfs"}), Command("start", {}),
    Command("finish", {})>>

Program ==
  [configure_kernel |-> configure_kernel, build_kernel |-> build_kernel,
   configure_busybox |-> configure_busybox, build_busybox |-> build_busybox,
   build_initramfs_root |-> build_initramfs_root,
   build_initramfs |-> build_initramfs, build_iso |-> build_iso]

Made == DOMAIN Program

\* What a script looks for before it begins: [ -f ], [ -x ], [ -d ], [ -e ].
Needs(s) == UNION {Program[s][k].reads : k \in 1 .. Len(Program[s])}

\* What has an /init in it.
Carriers == {"build_initramfs_root", "build_initramfs", "build_iso"}

ASSUME PipelineAssumption == Scripts \subseteq Made /\ MaxEdits \in Nat

VARIABLES
  script, step,  \* the script that runs and its next command, 0 between two runs
  exit,          \* how the last run ended: "none", "done", "told" or "stopped"
  file,          \* what the scripts have made
  sound,         \* whether everything this run has read and listed was fit
  sources,       \* the version of zevinit's sources
  binary,        \* the version of the binary that was built last
  init,          \* the version that is /init in the root, the image and the ISO
  \* History, read by properties only:
  due,           \* the version when the run of build_initramfs_root that it is from began
  inOrder,       \* scripts whose last run was a success after those of all they need
  unseen         \* of these, the ones in which a failure was not seen, or in what they need

vars == <<script, step, exit, file, sound, sources, binary, init, due, inOrder, unseen>>

None == -1
Versions == {None} \cup 0 .. MaxEdits

TypeOK ==
  /\ script \in Made /\ step \in 0 .. 6
  /\ exit \in {"none", "done", "told", "stopped"}
  /\ file \in [Made -> {"absent", "unfit", "fit"}] /\ sound \in BOOLEAN
  /\ sources \in 0 .. MaxEdits /\ binary \in Versions
  /\ init \in [Carriers -> Versions] /\ due \in [Carriers -> 0 .. MaxEdits]
  /\ inOrder \subseteq Made /\ unseen \subseteq Made
  /\ step > 0 => exit = "none" /\ \A n \in Needs(script) : file[n] # "absent"

Init ==
  /\ script \in Scripts /\ step = 0 /\ exit = "none"
  /\ file = [s \in Made |-> IF s \in Scripts THEN "absent" ELSE "fit"]
  /\ sound = TRUE
  /\ sources = 0 /\ binary = None
  /\ init = [s \in Carriers |-> IF s \in Scripts THEN None ELSE 0]
  /\ due = [s \in Carriers |-> 0]
  /\ inOrder = Made \ Scripts /\ unseen = {}

\* A run begins: what the script made does not count until the run has ended.
Enters(s) ==
  /\ step' = 1 /\ exit' = "none" /\ sound' = TRUE
  /\ inOrder' = inOrder \ {s} /\ unseen' = unseen \ {s}
  /\ due' = IF s = "build_initramfs_root" THEN [due EXCEPT ![s] = sources] ELSE due

\* Variant for the mutation check: without the test.
BeginWithoutLooking(s) ==
  /\ step = 0
  /\ script' = s
  /\ Enters(s)
  /\ UNCHANGED <<file, sources, binary, init>>

\* Somebody runs a script, which first looks for what it needs.
Begin(s) ==
  /\ step = 0
  /\ script' = s
  /\ \/ (\A n \in Needs(s) : file[n] # "absent") /\ Enters(s)
     \/ /\ \E n \in Needs(s) : file[n] = "absent"
        /\ exit' = "told"
        /\ UNCHANGED <<step, sound, due, inOrder, unseen>>
  /\ UNCHANGED <<file, sources, binary, init>>

\* The command that comes next.
Now == Program[script][step]

\* What a command makes of the file when it succeeds, and when it does not: what
\* was there, or a part of what it writes.
Result ==
  [keep |-> file[script], list |-> file[script], zevinit |-> file[script],
   init |-> file[script], remove |-> "absent", start |-> "unfit",
   finish |-> IF sound' THEN "fit" ELSE "unfit"][Now.does]

Remains == {file[script]} \cup IF Now.does \in {"remove", "start", "finish"}
                               THEN {"unfit", "absent"} ELSE {}

\* Whether the command copies a thing with its /init, and which.
Packs  == Now.reads \cap Carriers # {}
Packed == CHOOSE c \in Now.reads \cap Carriers : TRUE

\* The /init of what the script makes, after the command; of the ISO, that of the tree
\* it will be made of.
InitAfter ==
  IF Now.does = "remove" THEN None
  ELSE IF Now.does = "init" THEN binary
  ELSE IF Packs THEN init[Packed] ELSE init[script]

\* After the last command the script is done.
GoOn ==
  IF step < Len(Program[script])
  THEN step' = step + 1 /\ UNCHANGED <<exit, inOrder>>
  ELSE /\ step' = 0 /\ exit' = "done"
       /\ inOrder' = IF Needs(script) \subseteq inOrder
                     THEN inOrder \cup {script} ELSE inOrder

\* A command succeeds.
Succeeds ==
  /\ step > 0
  /\ sound' = (sound /\ \A r \in Now.reads : file[r] = "fit")
  /\ file' = [file EXCEPT ![script] = Result]
  /\ binary' = IF Now.does = "zevinit" THEN sources ELSE binary
  /\ init' = IF script \in Carriers THEN [init EXCEPT ![script] = InitAfter] ELSE init
  /\ due' = IF Packs THEN [due EXCEPT ![script] = due[Packed]] ELSE due
  /\ unseen' = IF Needs(script) \cap unseen # {} THEN unseen \cup {script} ELSE unseen
  /\ GoOn
  /\ UNCHANGED <<script, sources>>

\* for applet in $(./busybox --list): the list fails, and the links are made for what
\* there is of it.
ListsInPart ==
  /\ step > 0 /\ Now.does = "list"
  /\ sound' = FALSE /\ unseen' = unseen \cup {script}
  /\ GoOn
  /\ UNCHANGED <<script, file, sources, binary, init, due>>

\* Variant for the mutation check: without set -e.
StopsNot ==
  /\ step > 0
  /\ \E f \in Remains : file' = [file EXCEPT ![script] = f]
  /\ GoOn
  /\ UNCHANGED <<script, sound, sources, binary, init, due, unseen>>

\* A command fails, or the run is interrupted in it: set -e ends the script there.
Stops ==
  /\ step > 0
  /\ step' = 0 /\ exit' = "stopped"
  /\ \E f \in Remains : file' = [file EXCEPT ![script] = f]
  /\ binary' \in {binary} \cup IF Now.does = "zevinit" THEN {sources} ELSE {}
  /\ \/ UNCHANGED init
     \/ /\ script \in Carriers /\ (Now.does \in {"remove", "init"} \/ Packs)
        /\ \E v \in {None, InitAfter} : init' = [init EXCEPT ![script] = v]
  /\ UNCHANGED <<script, sound, sources, due, inOrder, unseen>>

\* Somebody edits zevinit/, perhaps while a script runs.
Edit ==
  /\ sources < MaxEdits
  /\ sources' = sources + 1
  /\ UNCHANGED <<script, step, exit, file, sound, binary, init, due, inOrder, unseen>>

Next == (\E s \in Scripts : Begin(s)) \/ Succeeds \/ ListsInPart \/ Stops \/ Edit

Spec == Init /\ [][Next]_vars
--------------------------------------------------------------------------------
\* The /init of what was built in order, the initramfs root, the image packed of it
\* and the ISO made of that, is never older than the zevinit that was there when
\* build-initramfs-root.sh began the run it comes from: wherever earlier runs stopped
\* and whatever they left, that run builds before it copies (README.md:61 "a stale
\* /init in the image is the kind of thing you debug for an hour").
InitIsNeverStale == \A s \in inOrder \cap Carriers : init[s] >= due[s]

\* A script that ran to its end after successful last runs of all it needs has made
\* a fit thing, whatever interrupted and premature runs had left there before: what a
\* later script cannot see (it only tests that a file exists) no finished script
\* leaves behind.  The one exception is a list of applets that failed: that script ends
\* well with links missing (build-initramfs-root.sh:24), and so do those after it.
RightWhenRunInOrder == \A s \in inOrder \ unseen : file[s] = "fit"
================================================================================
