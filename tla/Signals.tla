------------------------------- MODULE Signals -------------------------------
(***************************************************************************)
(* The signals pid 1 watches and what each of them asks for (signal.rs).   *)
(* Signals keep their numbers, because the kernel hands out the pending    *)
(* signal with the lowest number first and that order decides which of two *)
(* simultaneous requests wins.                                             *)
(***************************************************************************)
EXTENDS Integers, FiniteSetsExt

SIGHUP  == 1
SIGINT  == 2
SIGUSR1 == 10
SIGUSR2 == 12
SIGTERM == 15
SIGCHLD == 17
SIGPWR  == 30

\* Variant for the mutation check: the list forgets SIGCHLD.
WATCHED_without_SIGCHLD == {SIGTERM, SIGINT, SIGUSR1, SIGUSR2, SIGPWR, SIGHUP}

\* The set pid 1 blocks and reads from its signalfd.
WATCHED == {SIGCHLD, SIGTERM, SIGINT, SIGUSR1, SIGUSR2, SIGPWR, SIGHUP}

Actions == {"reboot", "poweroff", "halt"}

\* What a signal asks for: a verdict of classify().  Unknown(other) never comes
\* out of a signalfd that only watches WATCHED.
classify(s) ==
  CASE s = SIGCHLD              -> "ChildChanged"
    [] s \in {SIGTERM, SIGINT}  -> "reboot"
    [] s = SIGUSR2              -> "poweroff"
    [] s \in {SIGUSR1, SIGPWR}  -> "halt"
    [] s = SIGHUP               -> "Reload"

\* The signal a read of the signalfd returns when the set S is pending.
NextSignal(S) == Min(S)

==============================================================================
