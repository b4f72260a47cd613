------------------------------ MODULE ProcTable ------------------------------
(***************************************************************************)
(* Pid 1's own table of the children it started (struct Table, proc.rs).   *)
(*                                                                         *)
(* The code keeps a Vec<Entry>.  The order of the entries is never         *)
(* observed except by find(), which stops at the first Running entry with  *)
(* the pid; the table is a set here, and the invariant TableMatchesKernel  *)
(* shows that there is never a second Running entry to choose from.        *)
(* Exited(code) and Killed(signal) differ in the wording of a log line     *)
(* only and are both "Gone".                                               *)
(***************************************************************************)
EXTENDS Integers

\* One tracked child: its pid, whether it was asked to lead its own session,
\* and the whole second in which it was entered in the table.
Entry(p, now, owns) ==
  [pid |-> p, state |-> "Running", started_at |-> now, owns_session |-> owns]

EntryType(P) ==
  [pid : P, state : {"Running", "Gone"}, started_at : Nat, owns_session : BOOLEAN]

Running(table) == {e \in table : e.state = "Running"}

track(table, p, now, owns) == table \cup {Entry(p, now, owns)}

\* The entry record_exit(p) finds: a live one, never one that is already gone.
Found(table, p) == {e \in Running(table) : e.pid = p}

\* Variant for the mutation check: the entry is found but never marked.
record_exit_forgets(table, p) == table

record_exit(table, p) ==
  (table \ Found(table, p)) \cup {[e EXCEPT !.state = "Gone"] : e \in Found(table, p)}

\* The life of an entry in whole seconds, as record_exit reports it.  The
\* subtraction saturates.
ran_for(e, now) == IF now >= e.started_at THEN now - e.started_at ELSE 0

forget_finished(table) == Running(table)

session_leaders(table) == {e.pid : e \in {r \in Running(table) : r.owns_session}}

==============================================================================
