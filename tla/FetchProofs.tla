------------------------------ MODULE FetchProofs ------------------------------
(***************************************************************************)
(* Theorems about Fetch, for every behaviour of the network, the disk and  *)
(* whoever runs and interrupts the scripts, however often.                 *)
(***************************************************************************)
EXTENDS Fetch, TLAPS

\* Where each command is: a table of the three sequences.
Place(command) ==
  /\ command = "look"    => step = 1
  /\ command = "keys"    => step = 2
  /\ command = "archive" => step = 3
  /\ command = "sig"     => step = 4
  /\ command = "unpack"  => script = "kernel" /\ step = 5
  /\ command = "verify"  => step = IF script = "kernel" THEN 6 ELSE 5
  /\ command = "makedir" => script = "limine" /\ step = 6
  /\ command = "extract" => step = IF script = "busybox" THEN 6 ELSE 7
  /\ command = "clean"   => step = IF script = "busybox" THEN 7 ELSE 8

Names == {"look", "keys", "archive", "sig", "unpack", "verify", "makedir", "extract",
          "clean"}

\* The step of a run is one of the script's.
StepOK == IF script = "busybox" THEN step \in 0 .. 7 ELSE step \in 0 .. 8

\* The sequences say what the table says.
LEMMA Places ==
  ASSUME TypeOK, StepOK, NEW c \in Names, At(c)
  PROVE  Place(c)
<1>1. script \in {"kernel", "busybox", "limine"}
  BY FetchAssumption DEF TypeOK
<1>2. step \in 1 .. 8
  BY DEF At, TypeOK
<1>3. CASE script = "kernel"
  <2>1. Commands = KERNEL
    BY <1>3 DEF Commands
  <2>2. QED
    BY <1>2, <1>3, <2>1 DEF At, Place, Names, KERNEL
<1>4. CASE script = "busybox"
  <2>1. Commands = BUSYBOX
    BY <1>4 DEF Commands
  <2>2. QED
    BY <1>2, <1>4, <2>1 DEF At, Place, Names, BUSYBOX, StepOK
<1>5. CASE script = "limine"
  <2>1. Commands = LIMINE
    BY <1>5 DEF Commands
  <2>2. QED
    BY <1>2, <1>5, <2>1 DEF At, Place, Names, LIMINE
<1>6. QED
  BY <1>1, <1>3, <1>4, <1>5

-------------------------------------------------------------------------------
(***************************************************************************)
(* The invariant.  What a run knows at each step: the tree was absent when *)
(* it looked, and has been touched by the extraction only; what it         *)
(* extracts has been verified; and as long as nothing went wrong, every    *)
(* file it has made is good.                                               *)
(***************************************************************************)

Last == IF script = "busybox" THEN 7 ELSE 8

Verified ==
  /\ script = "kernel" /\ step >= 7 => tar = "good"
  /\ script # "kernel" /\ step >= 6 => archive = "good"

TreeOK ==
  /\ step > 1 /\ step < Last =>
       tree = IF script = "limine" /\ step = 7 THEN "partial" ELSE "absent"
  /\ step = Last => tree = "whole"
  /\ step <= 1 /\ tree = "partial" => cut
  /\ exit \in {"done", "there"} => step = 0 /\ tree # "absent"

RunOK ==
  /\ step > 0 => exit = "none"
  /\ ~trouble =>
       /\ step > 2 => keys
       /\ step > 3 => archive = "good"
       /\ step > 4 => sig = "good"
       /\ script = "kernel" /\ step > 5 => tar = "good"

Inv ==
  /\ TypeOK /\ StepOK
  /\ Verified /\ OnlySignedSources
  /\ TreeOK
  /\ RunOK /\ RunsRecover

\* The four flags are flags.
LEMMA FlagsTyped ==
  ASSUME TypeOK, [Next]_vars
  PROVE  keys' \in BOOLEAN /\ trouble' \in BOOLEAN /\ cut' \in BOOLEAN
         /\ refetch' \in BOOLEAN
<1> USE DEF TypeOK, Proceed, End, Fails, files, history
<1>1. CASE Run \/ Look \/ ImportKeys \/ DeleteTree
  BY <1>1, Zenon DEF Run, Look, ImportKeys, DeleteTree
<1>2. CASE FetchArchive \/ FetchSig \/ Unpack \/ Verify
  BY <1>2, Zenon DEF FetchArchive, FetchSig, Unpack, Verify, Download
<1>3. CASE MakeDir \/ Extract \/ Clean
  BY <1>3, Zenon DEF MakeDir, Extract, Clean
<1>4. CASE Interrupted
  BY <1>4, Zenon DEF Interrupted
<1>5. CASE UNCHANGED vars
  BY <1>5, Zenon DEF vars
<1>6. QED
  BY <1>1, <1>2, <1>3, <1>4, <1>5 DEF Next

\* One command, or one interruption, or one thing between two runs keeps the
\* invariant.
LEMMA StepKeepsInv ==
  ASSUME Inv, [Next]_vars
  PROVE  Inv'
<1>1. script \in {"kernel", "busybox", "limine"}
  BY FetchAssumption DEF Inv, TypeOK
<1>2. \A c \in Names : At(c) => Place(c) /\ step > 0
  BY Places DEF Inv, At
<1>0. keys' \in BOOLEAN /\ trouble' \in BOOLEAN /\ cut' \in BOOLEAN
      /\ refetch' \in BOOLEAN
  BY FlagsTyped DEF Inv
<1> USE <1>1, <1>0 DEF Inv, TypeOK, StepOK, Verified, OnlySignedSources, TreeOK, RunOK,
        RunsRecover, Last, Contents, Exits, Proceed, End, Fails, files, history
<1>3. CASE Run
  BY <1>3 DEF Run
<1>4. CASE Look
  <2>1. step = 1
    BY <1>2, <1>4 DEF Look, Names, Place
  <2>2. QED
    BY <1>4, <2>1 DEF Look
<1>5. CASE ImportKeys
  <2>1. step = 2
    BY <1>2, <1>5 DEF ImportKeys, Names, Place
  <2>2. QED
    BY <1>5, <2>1 DEF ImportKeys
<1>6. CASE FetchArchive
  <2>1. step = 3
    BY <1>2, <1>6 DEF FetchArchive, Names, Place
  <2>2. QED
    BY <1>6, <2>1 DEF FetchArchive, Download
<1>7. CASE FetchSig
  <2>1. step = 4
    BY <1>2, <1>7 DEF FetchSig, Names, Place
  <2>2. QED
    BY <1>7, <2>1 DEF FetchSig, Download
<1>8. CASE Unpack
  <2>1. script = "kernel" /\ step = 5
    BY <1>2, <1>8 DEF Unpack, Names, Place
  <2>2. QED
    BY <1>8, <2>1 DEF Unpack
<1>9. CASE Verify
  <2>1. step = IF script = "kernel" THEN 6 ELSE 5
    BY <1>2, <1>9 DEF Verify, Names, Place
  <2>2. QED
    BY <1>9, <2>1 DEF Verify, Signed
<1>10. CASE MakeDir
  <2>1. script = "limine" /\ step = 6
    BY <1>2, <1>10 DEF MakeDir, Names, Place
  <2>2. QED
    BY <1>10, <2>1 DEF MakeDir
<1>11. CASE Extract
  <2>1. step = IF script = "busybox" THEN 6 ELSE 7
    BY <1>2, <1>11 DEF Extract, Names, Place
  <2>2. QED
    BY <1>11, <2>1 DEF Extract, Signed
<1>12. CASE Clean
  <2>1. step = Last
    BY <1>2, <1>12 DEF Clean, Names, Place
  <2>2. QED
    BY <1>12, <2>1 DEF Clean
<1>13. CASE Interrupted
  <2>1. At("extract") => step = IF script = "busybox" THEN 6 ELSE 7
    BY <1>2 DEF Names, Place
  <2>2. /\ step > 0 /\ step' = 0 /\ exit' = "interrupted"
        /\ UNCHANGED <<script, keys, trouble, refetch>>
        /\ cut => cut'
    BY <1>13, Zenon DEF Interrupted
  <2>3. \/ UNCHANGED <<archive, sig, tar, tree, from>>
        \/ archive' \in Contents /\ UNCHANGED <<sig, tar, tree, from>>
        \/ sig' \in Contents /\ UNCHANGED <<archive, tar, tree, from>>
        \/ tar' \in Contents /\ UNCHANGED <<archive, sig, tree, from>>
        \/ /\ At("extract") /\ tree' = "partial" /\ from' = Signed
           /\ UNCHANGED <<archive, sig, tar>>
    BY <1>13 DEF Interrupted
  <2>4. At("extract") /\ tree' = "partial" => cut'
    BY <1>13, Zenon DEF Interrupted
  <2>5. tree' = "partial" => cut'
    <3>1. script = "limine" /\ step = 7 => At("extract")
      BY DEF At, Commands, LIMINE
    <3>2. QED
      BY <2>1, <2>2, <2>3, <2>4, <3>1
  <2>6. At("extract") => Signed = "good"
    BY <2>1 DEF Signed
  <2>7. TypeOK' /\ OnlySignedSources'
    BY <2>2, <2>3, <2>6
  <2>8. StepOK' /\ Verified' /\ RunOK' /\ RunsRecover'
    BY <2>2
  <2>9. TreeOK'
    BY <2>2, <2>5
  <2>10. QED
    BY <2>7, <2>8, <2>9
<1>14. CASE DeleteTree
  BY <1>14 DEF DeleteTree
<1>15. CASE UNCHANGED vars
  BY <1>15 DEF vars
<1>16. QED
  BY <1>3, <1>4, <1>5, <1>6, <1>7, <1>8, <1>9, <1>10, <1>11, <1>12, <1>13, <1>14,
     <1>15 DEF Next

\* The invariant holds in every reachable state.
THEOREM InvHolds == Spec => []Inv
<1>1. Init => Inv
  <2>1. Init => keys \in BOOLEAN /\ trouble \in BOOLEAN /\ cut \in BOOLEAN
                /\ refetch \in BOOLEAN
    BY Zenon DEF Init
  <2>2. QED
    BY <2>1, FetchAssumption
       DEF Init, Inv, TypeOK, StepOK, Verified, OnlySignedSources, TreeOK, RunOK,
           RunsRecover, Last, Contents, Exits
<1>2. Inv /\ [Next]_vars => Inv'
  BY StepKeepsInv
<1>3. QED
  BY <1>1, <1>2, PTL DEF Spec

\* Every variable of a script and its files has its type (TypeOK).
THEOREM TypeCorrect == Spec => []TypeOK
<1>1. Inv => TypeOK
  BY DEF Inv
<1>2. QED
  BY <1>1, InvHolds, PTL

\* Nothing that upstream did not sign is ever extracted (OnlySignedSources).
THEOREM SourcesAreSigned == Spec => []OnlySignedSources
<1>1. Inv => OnlySignedSources
  BY DEF Inv
<1>2. QED
  BY <1>1, InvHolds, PTL

\* A successful run and a complete tree differ only after an extraction that was
\* cut short (OnlyACutExtractionFools).
THEOREM SuccessIsComplete == Spec => []OnlyACutExtractionFools
<1>1. Inv => OnlyACutExtractionFools
  BY DEF Inv, TreeOK, TypeOK, OnlyACutExtractionFools
<1>2. QED
  BY <1>1, InvHolds, PTL

\* A run without outside trouble fails at a leftover .tar of the kernel only
\* (RunsRecover).
THEOREM LeftoversAreHarmless == Spec => []RunsRecover
<1>1. Inv => RunsRecover
  BY DEF Inv
<1>2. QED
  BY <1>1, InvHolds, PTL

==============================================================================
