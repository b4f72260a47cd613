---------------------------------- MODULE Log ----------------------------------
(***************************************************************************)
(* A line of the log, from log::emit() to where it ends up.  Pid 1 and the *)
(* child that could not execute its shell write at the same time, through  *)
(* the same descriptors.  When /dev/kmsg takes the line that is all; when  *)
(* it does not, the line goes to stderr, as often as it takes to write it. *)
(*                                                                         *)
(* Assumption on the kernel: /dev/kmsg takes a write whole, as one record, *)
(* or refuses it; any other file may take a part.  Where the descriptor    *)
(* comes from is in Boot, what the console waits for in Terminal.          *)
(***************************************************************************)
EXTENDS Integers, Sequences

CONSTANTS
  Writers,   \* the processes that log
  Length,    \* the length of a line
  MaxLines   \* bound: how many lines each writes

ASSUME LogAssumption == Length \in Nat \ {0} /\ MaxLines \in Nat

VARIABLES
  pc,      \* Writers -> "idle", "kmsg" or "stderr": where write_fd() is in the loop
  done,    \* Writers -> how much of the line that descriptor has taken
  line,    \* Writers -> how many lines it has begun
  ended,   \* Writers -> what write_fd() returned last
  kmsg,    \* the records of the kernel's log
  stderr   \* the pieces on stderr

vars == <<pc, done, line, ended, kmsg, stderr>>

\* What a write carries: the bytes of a line from one place up to another.
Piece(w, from, to) == [by |-> w, line |-> line[w], from |-> from, to |-> to]

Pieces == [by : Writers, line : 1 .. MaxLines, from : 0 .. Length, to : 0 .. Length]

TypeOK ==
  /\ pc \in [Writers -> {"idle", "kmsg", "stderr"}]
  /\ done \in [Writers -> 0 .. Length]
  /\ line \in [Writers -> 0 .. MaxLines]
  /\ ended \in [Writers -> BOOLEAN]
  /\ kmsg \in Seq(Pieces) /\ stderr \in Seq(Pieces)
  /\ \A w \in Writers : pc[w] # "idle" => line[w] > 0

Init ==
  /\ pc = [w \in Writers |-> "idle"] /\ done = [w \in Writers |-> 0]
  /\ line = [w \in Writers |-> 0] /\ ended = [w \in Writers |-> TRUE]
  /\ kmsg = <<>> /\ stderr = <<>>

\* emit(): with a descriptor of /dev/kmsg, or without.
Emit(w) ==
  /\ pc[w] = "idle" /\ line[w] < MaxLines
  /\ line' = [line EXCEPT ![w] = @ + 1]
  /\ \E to \in {"kmsg", "stderr"} : pc' = [pc EXCEPT ![w] = to]
  /\ done' = [done EXCEPT ![w] = 0]
  /\ UNCHANGED <<ended, kmsg, stderr>>

\* write_fd() returns.  A line that /dev/kmsg did not take is for stderr.
Returns(w, whole) ==
  /\ ended' = [ended EXCEPT ![w] = whole]
  /\ done' = [done EXCEPT ![w] = 0]
  /\ pc' = [pc EXCEPT ![w] = IF pc[w] = "kmsg" /\ ~whole THEN "stderr" ELSE "idle"]

WritesKmsg(w) ==
  /\ pc[w] = "kmsg" /\ done[w] < Length
  /\ kmsg' = Append(kmsg, Piece(w, done[w], Length))
  /\ done' = [done EXCEPT ![w] = Length]
  /\ UNCHANGED <<pc, line, ended, stderr>>

\* Variant for the mutation check: after a short write the whole line goes again.
WritesStderrAgain(w) ==
  /\ pc[w] = "stderr" /\ done[w] < Length
  /\ \E n \in 1 .. Length - done[w] :
       /\ stderr' = Append(stderr, Piece(w, 0, n))
       /\ done' = [done EXCEPT ![w] = @ + n]
  /\ UNCHANGED <<pc, line, ended, kmsg>>

\* Variant for the mutation check: each write is given the length of the whole line.
WritesStderrPastTheEnd(w) ==
  /\ pc[w] = "stderr" /\ done[w] < Length
  /\ \E n \in 1 .. Length :
       /\ stderr' = Append(stderr, Piece(w, done[w], done[w] + n))
       /\ done' = [done EXCEPT ![w] = @ + n]
  /\ UNCHANGED <<pc, line, ended, kmsg>>

WritesStderr(w) ==
  /\ pc[w] = "stderr" /\ done[w] < Length
  /\ \E n \in 1 .. Length - done[w] :
       /\ stderr' = Append(stderr, Piece(w, done[w], done[w] + n))
       /\ done' = [done EXCEPT ![w] = @ + n]
  /\ UNCHANGED <<pc, line, ended, kmsg>>

\* write() returns nothing written, or an error.
WriteFails(w) ==
  /\ pc[w] # "idle" /\ done[w] < Length
  /\ Returns(w, FALSE)
  /\ UNCHANGED <<line, kmsg, stderr>>

WriteEnds(w) ==
  /\ pc[w] # "idle" /\ done[w] = Length
  /\ Returns(w, TRUE)
  /\ UNCHANGED <<line, kmsg, stderr>>

Logs(w) == WritesKmsg(w) \/ WritesStderr(w) \/ WriteFails(w) \/ WriteEnds(w)
Next    == \E w \in Writers : Emit(w) \/ Logs(w)

Spec == Init /\ [][Next]_vars
--------------------------------------------------------------------------------
At(seq, w, n) == {i \in DOMAIN seq : seq[i].by = w /\ seq[i].line = n}

\* A piece on stderr begins the line, or where the piece before it has ended.
ContinuesIn(E, i) ==
  \/ stderr[i].from = 0 /\ \A j \in E : i <= j
  \/ \E j \in E : /\ j < i /\ \A k \in E : k < i => k <= j
                 /\ stderr[i].from = stderr[j].to

\* A line is in the kernel's log once, or on stderr, where its pieces follow one
\* another without a gap or a repetition however often the write was cut short, or it
\* was refused; and write_fd() says which (sys.rs:269-280, log.rs:52-65).
LinesLandOnce ==
  \A w \in Writers, n \in 1 .. MaxLines :
    LET K == At(kmsg, w, n)  E == At(stderr, w, n) IN
      /\ K # {} => E = {} /\ \A i, j \in K : i = j
      /\ \A i \in E : ContinuesIn(E, i)
      /\ n = line[w] /\ pc[w] = "idle" =>
           (ended[w] <=> (K # {} \/ \E i \in E : stderr[i].to = Length))
================================================================================
