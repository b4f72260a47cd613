-------------------------------- MODULE Rescue -------------------------------
(***************************************************************************)
(* Which shell to start next (struct Rescue, shell.rs).  A candidate is    *)
(* its index in the list of usable shells; strikes counts the early deaths *)
(* of the current candidate since it was chosen or since it last survived. *)
(***************************************************************************)
EXTENDS Integers

CONSTANT STRIKES_BEFORE_MOVING_ON

ASSUME StrikesAssumption == STRIKES_BEFORE_MOVING_ON \in Nat \ {0}

NewRescue == [at |-> 0, strikes |-> 0]

survived(r) == [r EXCEPT !.strikes = 0]

\* What one more early death leads to, with n usable shells.
verdict(r, n) ==
  CASE r.strikes + 1 < STRIKES_BEFORE_MOVING_ON -> "KeepTrying"
    [] r.strikes + 1 >= STRIKES_BEFORE_MOVING_ON /\ r.at + 1 < n -> "MovedOn"
    [] OTHER -> "OutOfOptions"

\* Variant for the mutation check: the strikes follow to the next candidate.
failed_keeps_strikes(r, n) ==
  [at |-> IF verdict(r, n) = "MovedOn" THEN r.at + 1 ELSE r.at,
   strikes |-> r.strikes + 1]

failed(r, n) ==
  IF verdict(r, n) = "MovedOn"
  THEN [at |-> r.at + 1, strikes |-> 0]
  ELSE [r EXCEPT !.strikes = @ + 1]

==============================================================================
