------------------------------- MODULE Encodings -------------------------------
(***************************************************************************)
(* Two numbers that pid 1 and the kernel read bit by bit: the dev_t that   *)
(* pid 1 packs for mknod() and the kernel unpacks, and the wait status     *)
(* that the kernel packs for waitpid() and pid 1 unpacks.  Nothing here    *)
(* has a state; that both ways fit together is proved for every number.    *)
(*                                                                         *)
(* Fields are cut out by \div and %, which for natural numbers is what the *)
(* masks and shifts of the code do.                                        *)
(***************************************************************************)
EXTENDS Integers

\* makedev(): the low bits of major and minor where the kernel of old had them, the
\* others around them.
makedev(major, minor) ==
  (major \div 4096) * (4096 * 4294967296) + (minor \div 256) * 1048576
    + (major % 4096) * 256 + (minor % 256)

\* What mknod(2) makes of it: new_decode_dev() of the lower 32 bits.
Decoded(dev) ==
  LET low == dev % 4294967296 IN
    [major |-> (low \div 256) % 4096, minor |-> (low \div 1048576) * 256 + (low % 256)]

\* How the kernel tells that a child exited, or was killed, with a core or without.
ExitStatus(code)         == code * 256
KillStatus(signal, core) == signal + IF core THEN 128 ELSE 0

None == -1

\* sys::exit_code(): WIFEXITED, WEXITSTATUS.
exit_code(status) == IF status % 128 = 0 THEN (status \div 256) % 256 ELSE None

\* sys::termination_signal(): WIFSIGNALED, WTERMSIG.
termination_signal(status) ==
  IF status % 128 \notin {0, 127} THEN status % 128 ELSE None

\* state_from(): an exit, else a death by signal, else an exit that cannot be.
state_from(status) ==
  IF exit_code(status) # None THEN [is |-> "exited", code |-> exit_code(status)]
  ELSE IF termination_signal(status) # None
  THEN [is |-> "killed", signal |-> termination_signal(status)]
  ELSE [is |-> "exited", code |-> -1]
================================================================================
