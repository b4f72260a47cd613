--------------------------------- MODULE Fetch ---------------------------------
(***************************************************************************)
(* The three scripts that bring sources onto the machine: download an      *)
(* archive and its signature, verify, extract.  A script is a sequence of  *)
(* commands; it ends at the first one that fails (set -e), may be          *)
(* interrupted during any of them, and is run again and again over what    *)
(* the earlier runs left behind.                                           *)
(*                                                                         *)
(* Assumptions: what a command has written stays written, the signing keys *)
(* are in upstream's hands, and nobody runs the same script twice at once. *)
(***************************************************************************)
EXTENDS Integers, Sequences

CONSTANT Scripts   \* which of "kernel", "busybox", "limine" are looked at

ASSUME FetchAssumption == Scripts \subseteq {"kernel", "busybox", "limine"}

VARIABLES
  script,   \* the script of this behaviour
  step,     \* index of its next command, 0 between two runs
  keys,     \* whether the signing keys are in the script's keyring
  archive, sig,  \* the two downloads in sources/_dl
  tar,      \* the unpacked archive in sources/_dl, of the kernel only
  tree,     \* the directory the script is there to make
  from,     \* the contents of what the tree was extracted from, if anything
  exit,     \* how the last run ended, "none" when there is nothing to tell
  \* History, read by properties only:
  trouble,  \* network, key server, disk or upstream failed this run
  cut,      \* an extraction into the tree that is there did not finish
  refetch   \* this run follows a deletion the run before asked for

files   == <<keys, archive, sig, tar, tree, from>>
history == <<trouble, cut, refetch>>
vars    == <<script, step, files, exit, history>>

\* A file: missing, cut short, not what upstream signed, or what it signed.
Contents == {"absent", "partial", "bad", "good"}
Exits    == {"none", "done", "there", "failed", "interrupted"}

\* Variant for the mutation check: the tree is extracted before it is verified.
KERNEL_verified_last ==
  <<"look", "keys", "archive", "sig", "unpack", "extract", "verify", "clean">>

\* The commands of the scripts, in order.  The kernel's signature is for the .tar,
\* which has to be unpacked from the .tar.xz first; Limine's archive has no
\* directory of its own and needs one made for it.
KERNEL  == <<"look", "keys", "archive", "sig", "unpack", "verify", "extract", "clean">>
BUSYBOX == <<"look", "keys", "archive", "sig", "verify", "extract", "clean">>

\* Variant for the mutation check: the directory is made with the others, first.
LIMINE_directory_first ==
  <<"look", "makedir", "keys", "archive", "sig", "verify", "extract", "clean">>

LIMINE ==
  <<"look", "keys", "archive", "sig", "verify", "makedir", "extract", "clean">>

Commands == [kernel |-> KERNEL, busybox |-> BUSYBOX, limine |-> LIMINE][script]

TypeOK ==
  /\ script \in Scripts
  /\ step \in 0 .. 8
  /\ keys \in BOOLEAN
  /\ archive \in Contents /\ sig \in Contents /\ tar \in Contents
  /\ tree \in {"absent", "partial", "whole"}
  /\ from \in Contents
  /\ exit \in Exits
  /\ trouble \in BOOLEAN /\ cut \in BOOLEAN /\ refetch \in BOOLEAN

\* A fresh clone.
Init ==
  /\ script \in Scripts
  /\ step = 0
  /\ keys = FALSE
  /\ archive = "absent" /\ sig = "absent" /\ tar = "absent"
  /\ tree = "absent" /\ from = "absent"
  /\ exit = "none"
  /\ trouble = FALSE /\ cut = FALSE /\ refetch = FALSE

At(command) == step > 0 /\ Commands[step] = command

Proceed == step' = step + 1 /\ UNCHANGED exit
End(e)  == step' = 0 /\ exit' = e

\* A command fails for a reason the script cannot help.
Fails == End("failed") /\ trouble' = TRUE

-------------------------------------------------------------------------------

\* Somebody runs the script.
Run ==
  /\ step = 0
  /\ step' = 1 /\ exit' = "none"
  /\ trouble' = FALSE
  /\ refetch' = (refetch /\ exit = "none")
  /\ UNCHANGED <<script, files, cut>>

\* A directory that is there is taken for a finished one.
Look ==
  /\ At("look")
  /\ IF tree # "absent" THEN End("there") ELSE Proceed
  /\ UNCHANGED <<script, files, history>>

\* The keys are imported and looked for by fingerprint.
ImportKeys ==
  /\ At("keys")
  /\ \/ Proceed /\ keys' = TRUE /\ UNCHANGED trouble
     \/ Fails /\ UNCHANGED keys
  /\ UNCHANGED <<script, archive, sig, tar, tree, from, cut, refetch>>

\* Variant for the mutation check: the download is added to what is there.
DownloadAppends(file) ==
  \/ /\ Proceed /\ UNCHANGED trouble
     /\ file' = IF file = "absent" THEN "good" ELSE "mixed"
  \/ Proceed /\ file' = "bad" /\ trouble' = TRUE
  \/ Fails /\ file' \in {file, "partial"}

\* curl -o writes over what is there.  It delivers the file, or something else
\* with its name, or gives up after its retries with a part of it, if anything.
Download(file) ==
  \/ Proceed /\ file' = "good" /\ UNCHANGED trouble
  \/ Proceed /\ file' = "bad" /\ trouble' = TRUE
  \/ Fails /\ file' \in {file, "partial"}

FetchArchive ==
  /\ At("archive")
  /\ Download(archive)
  /\ UNCHANGED <<script, keys, sig, tar, tree, from, cut, refetch>>

FetchSig ==
  /\ At("sig")
  /\ Download(sig)
  /\ UNCHANGED <<script, keys, archive, tar, tree, from, cut, refetch>>

\* xz -dk: does not write over a .tar that is there, removes it if it fails.
Unpack ==
  /\ At("unpack")
  /\ \/ tar # "absent" /\ End("failed") /\ UNCHANGED <<tar, trouble>>
     \/ tar = "absent" /\ Proceed /\ tar' = archive /\ UNCHANGED trouble
     \/ tar = "absent" /\ Fails /\ UNCHANGED tar
  /\ UNCHANGED <<script, keys, archive, sig, tree, from, cut, refetch>>

\* What the signature is checked against, and what is extracted.
Signed == IF script = "kernel" THEN tar ELSE archive

Verify ==
  /\ At("verify")
  /\ IF keys /\ sig = "good" /\ Signed = "good" THEN Proceed ELSE End("failed")
  /\ UNCHANGED <<script, files, history>>

\* mkdir -p "$OUT_DIR", before tar has put anything into it.
MakeDir ==
  /\ At("makedir")
  /\ Proceed
  /\ tree' = "partial"
  /\ UNCHANGED <<script, keys, archive, sig, tar, from, history>>

Extract ==
  /\ At("extract")
  /\ from' = Signed
  /\ \/ Proceed /\ tree' = "whole" /\ UNCHANGED <<trouble, cut>>
     \/ Fails /\ tree' = "partial" /\ cut' = TRUE
  /\ UNCHANGED <<script, keys, archive, sig, tar, refetch>>

\* rm -f.  The kernel's two downloads stay.
Clean ==
  /\ At("clean")
  /\ End("done")
  /\ \/ script = "kernel" /\ tar' = "absent" /\ UNCHANGED <<archive, sig>>
     \/ script # "kernel" /\ archive' = "absent" /\ sig' = "absent" /\ UNCHANGED tar
  /\ UNCHANGED <<script, keys, tree, from, history>>

\* The run is killed: before the command has had an effect, or with a part of what
\* the command writes.
Interrupted ==
  /\ step > 0
  /\ End("interrupted")
  /\ \/ UNCHANGED <<archive, sig, tar, tree, from>>
     \/ /\ At("archive") /\ archive' = "partial"
        /\ UNCHANGED <<sig, tar, tree, from>>
     \/ /\ At("sig") /\ sig' = "partial"
        /\ UNCHANGED <<archive, tar, tree, from>>
     \/ /\ At("unpack") /\ tar = "absent" /\ tar' = "partial"
        /\ UNCHANGED <<archive, sig, tree, from>>
     \/ /\ At("extract") /\ tree' = "partial" /\ from' = Signed
        /\ UNCHANGED <<archive, sig, tar>>
  /\ cut' = (cut \/ (At("extract") /\ tree' = "partial"))
  /\ UNCHANGED <<script, keys, trouble, refetch>>

\* Somebody does what the script says: "delete it by hand to re-fetch".
DeleteTree ==
  /\ step = 0
  /\ exit = "there" /\ tree # "absent"
  /\ tree' = "absent" /\ from' = "absent"
  /\ exit' = "none" /\ cut' = FALSE /\ refetch' = TRUE
  /\ UNCHANGED <<script, step, keys, archive, sig, tar, trouble>>

Next ==
  \/ Run
  \/ Look \/ ImportKeys \/ FetchArchive \/ FetchSig \/ Unpack \/ Verify \/ MakeDir
  \/ Extract \/ Clean
  \/ Interrupted
  \/ DeleteTree

Spec == Init /\ [][Next]_vars

-------------------------------------------------------------------------------

\* Nothing that upstream did not sign is ever extracted, whatever is left over from
\* earlier runs: a file that was there before is either written over or verified
\* with the rest (README.md:28, fetch-kernel.sh:46-53, fetch-busybox.sh:38-41).
OnlySignedSources == from \in {"absent", "good"}

\* A run that reports success leaves, or found, a complete tree, except after an
\* extraction that was cut short: no other failure leaves a directory that later
\* runs, and the scripts that build from it, take for a finished one
\* (fetch-kernel.sh:26, fetch-limine.sh:23, 40).
OnlyACutExtractionFools == exit \in {"done", "there"} => tree = "whole" \/ cut

\* A run in which network, key server, disk and upstream do their part does not
\* fail, whatever the earlier runs left behind.  The one exception is a .tar of the
\* kernel that a failed verification or an interruption left: xz stops at it in
\* every later run (fetch-kernel.sh:46).
RunsRecover ==
  exit = "failed" /\ ~trouble => script = "kernel" /\ tar # "absent"

\* Claim of fetch-kernel.sh:27, "already there, delete it by hand to re-fetch": a
\* run after that deletion only fails for reasons of its own.  The .tar of the run
\* that was interrupted is still there, and xz refuses to write over it.
DeletingIsEnough == exit = "failed" /\ refetch => trouble

==============================================================================
