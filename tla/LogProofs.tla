------------------------------- MODULE LogProofs -------------------------------
(***************************************************************************)
(* Theorems about the log, for every number of processes that write, every *)
(* length of a line and every number of lines.                             *)
(***************************************************************************)
EXTENDS Log, TLAPS

USE LogAssumption

-------------------------------------------------------------------------------
(***************************************************************************)
(* A piece is appended.                                                    *)
(***************************************************************************)

\* The pieces of a line are the ones before, and the new one if it is of the line.
LEMMA Appended ==
  ASSUME NEW seq \in Seq(Pieces), NEW p \in Pieces,
         NEW w \in Writers, NEW n \in 1 .. MaxLines
  PROVE  /\ Append(seq, p) \in Seq(Pieces)
         /\ At(seq, w, n) \subseteq 1 .. Len(seq)
         /\ \A i \in 1 .. Len(seq) : Append(seq, p)[i] = seq[i]
         /\ Append(seq, p)[Len(seq) + 1] = p
         /\ Len(seq) \in Nat
         /\ At(Append(seq, p), w, n) =
              At(seq, w, n) \cup (IF p.by = w /\ p.line = n THEN {Len(seq) + 1} ELSE {})
<1> DEFINE new == Append(seq, p)
<1>1. /\ new \in Seq(Pieces) /\ Len(seq) \in Nat
      /\ DOMAIN seq = 1 .. Len(seq) /\ DOMAIN new = 1 .. Len(seq) + 1
  OBVIOUS
<1>2. /\ \A i \in 1 .. Len(seq) : new[i] = seq[i]
      /\ new[Len(seq) + 1] = p
  OBVIOUS
<1> HIDE DEF new
<1>3. At(seq, w, n) \subseteq 1 .. Len(seq)
  BY <1>1 DEF At
<1>4. At(new, w, n) = At(seq, w, n) \cup (IF p.by = w /\ p.line = n THEN {Len(seq) + 1} ELSE {})
  BY <1>1, <1>2 DEF At
<1>5. QED
  BY <1>1, <1>2, <1>3, <1>4 DEF new

\* A piece a writer makes of its line.
LEMMA PieceTyped ==
  ASSUME TypeOK, NEW w \in Writers, pc[w] # "idle",
         NEW from \in 0 .. Length, NEW to \in 0 .. Length
  PROVE  /\ Piece(w, from, to) \in Pieces
         /\ Piece(w, from, to).by = w /\ Piece(w, from, to).line = line[w]
         /\ Piece(w, from, to).from = from /\ Piece(w, from, to).to = to
  BY DEF TypeOK, Piece, Pieces

-------------------------------------------------------------------------------
(***************************************************************************)
(* Types.                                                                  *)
(***************************************************************************)

\* No descriptor takes more than there is of a line (TypeOK, sys.rs:269-280).
THEOREM TypeCorrect == Spec => []TypeOK
<1>1. Init => TypeOK
  BY DEF Init, TypeOK
<1>2. TypeOK /\ [Next]_vars => TypeOK'
  <2> SUFFICES ASSUME TypeOK, [Next]_vars
               PROVE  TypeOK'
    OBVIOUS
  <2>1. ASSUME NEW w \in Writers, Emit(w)
        PROVE  TypeOK'
    BY <2>1 DEF Emit, TypeOK
  <2>2. ASSUME NEW w \in Writers, WritesKmsg(w)
        PROVE  TypeOK'
    <3>0. done[w] \in 0 .. Length /\ Length \in 0 .. Length /\ pc[w] # "idle"
      BY <2>2 DEF WritesKmsg, TypeOK
    <3>1. Piece(w, done[w], Length) \in Pieces
      BY <3>0, PieceTyped
    <3>2. kmsg' \in Seq(Pieces)
      BY <2>2, <3>1 DEF WritesKmsg, TypeOK
    <3>3. QED
      BY <2>2, <3>2 DEF WritesKmsg, TypeOK
  <2>3. ASSUME NEW w \in Writers, WritesStderr(w)
        PROVE  TypeOK'
    <3>1. PICK n \in 1 .. Length - done[w] :
            /\ stderr' = Append(stderr, Piece(w, done[w], done[w] + n))
            /\ done' = [done EXCEPT ![w] = @ + n]
      BY <2>3 DEF WritesStderr
    <3>2. done[w] \in 0 .. Length /\ done[w] + n \in 0 .. Length
      BY DEF TypeOK
    <3>3. Piece(w, done[w], done[w] + n) \in Pieces
      BY <2>3, <3>2, PieceTyped DEF WritesStderr
    <3>4. stderr' \in Seq(Pieces)
      BY <3>1, <3>3 DEF TypeOK
    <3>5. done' \in [Writers -> 0 .. Length]
      BY <3>1, <3>2 DEF TypeOK
    <3>6. UNCHANGED <<pc, line, ended, kmsg>>
      BY <2>3 DEF WritesStderr
    <3>7. QED
      BY <3>4, <3>5, <3>6 DEF TypeOK
  <2>4. ASSUME NEW w \in Writers, WriteFails(w) \/ WriteEnds(w)
        PROVE  TypeOK'
    <3>1. PICK whole \in BOOLEAN : Returns(w, whole) /\ UNCHANGED <<line, kmsg, stderr>>
      BY <2>4 DEF WriteFails, WriteEnds
    <3>2. pc[w] # "idle"
      BY <2>4 DEF WriteFails, WriteEnds
    <3>3. /\ pc' \in [Writers -> {"idle", "kmsg", "stderr"}]
          /\ done' \in [Writers -> 0 .. Length] /\ ended' \in [Writers -> BOOLEAN]
      BY <3>1 DEF Returns, TypeOK
    <3>4. \A v \in Writers : pc'[v] # "idle" => line'[v] > 0
      BY <3>1, <3>2 DEF Returns, TypeOK
    <3>5. QED
      BY <3>1, <3>3, <3>4 DEF TypeOK
  <2>5. CASE UNCHANGED vars
    BY <2>5 DEF vars, TypeOK
  <2>6. QED
    BY <2>1, <2>2, <2>3, <2>4, <2>5 DEF Next, Logs
<1>3. QED
  BY <1>1, <1>2, PTL DEF Spec

-------------------------------------------------------------------------------
(***************************************************************************)
(* The invariant: what the files hold of each line, by what its writer is  *)
(* doing.  Only the line a writer is at can change.                        *)
(***************************************************************************)

\* stderr holds a line up to d: its last piece ends there, and none goes further.
HoldsUpTo(E, d) ==
  /\ d = 0 => E = {}
  /\ d > 0 => \E i \in E : stderr[i].to = d /\ \A k \in E : k <= i
  /\ \A i \in E : stderr[i].to <= d

\* The line that a writer is at.
CurrentInv(w, K, E) ==
  /\ pc[w] = "kmsg" => /\ E = {} /\ done[w] \in {0, Length}
                       /\ done[w] = 0 <=> K = {}
  /\ pc[w] = "stderr" => K = {} /\ HoldsUpTo(E, done[w])
  /\ pc[w] = "idle" =>
       (ended[w] <=> (K # {} \/ \E i \in E : stderr[i].to = Length))

LineInv(w, n, K, E) ==
  /\ n > line[w] => K = {} /\ E = {}
  /\ K # {} => E = {} /\ \A i, j \in K : i = j
  /\ \A i \in E : ContinuesIn(E, i)
  /\ n = line[w] => CurrentInv(w, K, E)

LogInv ==
  \A w \in Writers, n \in 1 .. MaxLines :
    LineInv(w, n, At(kmsg, w, n), At(stderr, w, n))

\* A line nobody is at stays as it is.
LEMMA OtherLinesStay ==
  ASSUME TypeOK, NEW w \in Writers, NEW n \in 1 .. MaxLines,
         LineInv(w, n, At(kmsg, w, n), At(stderr, w, n)),
         At(kmsg, w, n)' = At(kmsg, w, n), At(stderr, w, n)' = At(stderr, w, n),
         \A i \in At(stderr, w, n) : stderr'[i] = stderr[i],
         line'[w] = line[w],
         n = line[w] => pc'[w] = pc[w] /\ done'[w] = done[w] /\ ended'[w] = ended[w]
  PROVE  LineInv(w, n, At(kmsg, w, n), At(stderr, w, n))'
<1> DEFINE K == At(kmsg, w, n)
           E == At(stderr, w, n)
<1>1. K' = K /\ E' = E
  OBVIOUS
<1> HIDE DEF K, E
<1>2. \A i \in E : ContinuesIn(E, i)'
  BY <1>1 DEF LineInv, ContinuesIn, K, E
<1>3. n = line[w] => CurrentInv(w, K, E)'
  BY <1>1 DEF LineInv, CurrentInv, HoldsUpTo, K, E
<1>4. QED
  BY <1>1, <1>2, <1>3 DEF LineInv, K, E

LEMMA EmitKeepsLines ==
  ASSUME TypeOK, LogInv, NEW v \in Writers, Emit(v)
  PROVE  LogInv'
<1>1. /\ UNCHANGED <<ended, kmsg, stderr>> /\ pc[v] = "idle"
      /\ line' = [line EXCEPT ![v] = @ + 1] /\ done' = [done EXCEPT ![v] = 0]
      /\ pc'[v] \in {"kmsg", "stderr"} /\ \A w \in Writers \ {v} : pc'[w] = pc[w]
  BY DEF Emit, TypeOK
<1>2. ASSUME NEW w \in Writers, NEW n \in 1 .. MaxLines
      PROVE  LineInv(w, n, At(kmsg, w, n), At(stderr, w, n))'
  <2> DEFINE K == At(kmsg, w, n)
             E == At(stderr, w, n)
  <2>1. K' = K /\ E' = E
    BY <1>1 DEF At
  <2>2. LineInv(w, n, K, E)
    BY DEF LogInv
  <2>3. CASE w # v
    BY <1>1, <2>1, <2>2, <2>3, OtherLinesStay DEF TypeOK
  <2>4. CASE w = v
    <3>1. line[v] \in Nat /\ line'[v] = line[v] + 1 /\ done'[v] = 0
      BY <1>1 DEF TypeOK
    <3> HIDE DEF K, E
    <3>2. /\ K # {} => E = {} /\ \A i, j \in K : i = j
          /\ \A i \in E : ContinuesIn(E, i)'
      BY <1>1, <2>1, <2>2 DEF LineInv, ContinuesIn
    <3>3. n > line'[v] => K = {} /\ E = {}
      BY <2>2, <2>4, <3>1 DEF LineInv
    <3>4. ASSUME n = line'[v]
          PROVE  CurrentInv(w, K, E)'
      <4>1. K = {} /\ E = {}
        BY <2>2, <2>4, <3>1, <3>4 DEF LineInv
      <4>2. QED
        BY <1>1, <2>1, <2>4, <3>1, <4>1 DEF CurrentInv, HoldsUpTo
    <3>5. QED
      BY <2>1, <2>4, <3>2, <3>3, <3>4 DEF LineInv, K, E
  <2>5. QED
    BY <2>3, <2>4
<1>3. QED
  BY <1>2 DEF LogInv

\* /dev/kmsg takes the whole line that its writer is at, which it did not have yet.
LEMMA KmsgKeepsLines ==
  ASSUME TypeOK, LogInv, NEW v \in Writers, WritesKmsg(v)
  PROVE  LogInv'
<1> DEFINE p  == Piece(v, 0, Length)
<1>0. PICK at \in Nat : at = Len(kmsg) + 1
  BY DEF TypeOK
<1>1. /\ pc[v] = "kmsg" /\ line[v] \in 1 .. MaxLines /\ kmsg \in Seq(Pieces)
      /\ UNCHANGED <<pc, line, ended, stderr>>
      /\ done' = [done EXCEPT ![v] = Length]
  <2>1. pc[v] = "kmsg" /\ UNCHANGED <<pc, line, ended, stderr>>
        /\ done' = [done EXCEPT ![v] = Length]
    BY DEF WritesKmsg
  <2>2. line[v] \in 0 .. MaxLines /\ line[v] > 0 /\ kmsg \in Seq(Pieces)
    BY <2>1 DEF TypeOK
  <2>3. QED
    BY <2>1, <2>2
<1>2. done[v] = 0 /\ Length > 0 /\ 0 \in 0 .. Length /\ Length \in 0 .. Length
  BY <1>1 DEF WritesKmsg, LogInv, LineInv, CurrentInv, TypeOK
<1>1a. pc[v] # "idle"
  BY <1>1
<1>3. /\ p \in Pieces /\ p.by = v /\ p.line = line[v] /\ p.from = 0 /\ p.to = Length
  BY <1>1, <1>2, <1>1a, PieceTyped
<1>4. kmsg' = Append(kmsg, p)
  BY <1>2 DEF WritesKmsg
<1> HIDE DEF p
<1>5. ASSUME NEW w \in Writers, NEW n \in 1 .. MaxLines
      PROVE  LineInv(w, n, At(kmsg, w, n), At(stderr, w, n))'
  <2> DEFINE K == At(kmsg, w, n)
             E == At(stderr, w, n)
  <2>1. E' = E
    BY <1>1 DEF At
  <2>2. LineInv(w, n, K, E)
    BY DEF LogInv
  <2>3. K' = K \cup (IF v = w /\ line[v] = n THEN {at} ELSE {})
    BY <1>0, <1>1, <1>3, <1>4, Appended
  <2>4. CASE w = v /\ n = line[v]
    <3> HIDE DEF K, E
    <3>1. K = {} /\ E = {}
      BY <1>1, <1>2, <2>2, <2>4 DEF LineInv, CurrentInv
    <3>2. K' = {at}
      BY <2>3, <2>4, <3>1
    <3>3. pc'[w] = "kmsg" /\ done'[w] = Length /\ line'[w] = n
      BY <1>1, <2>4 DEF TypeOK
    <3>4. CurrentInv(w, K, E)'
      BY <1>2, <2>1, <3>1, <3>2, <3>3 DEF CurrentInv
    <3>5. QED
      BY <2>1, <3>1, <3>2, <3>3, <3>4 DEF LineInv, K, E
  <2>5. CASE ~(w = v /\ n = line[v])
    <3>1. K' = K
      BY <2>3, <2>5
    <3>2. n = line[w] => done'[w] = done[w]
      BY <1>1, <2>5 DEF TypeOK
    <3>3. QED
      BY <1>1, <2>1, <2>2, <3>1, <3>2, OtherLinesStay
  <2>6. QED
    BY <2>4, <2>5
<1>6. QED
  BY <1>5 DEF LogInv

\* stderr takes a piece that begins where the last one of the line has ended.
LEMMA StderrKeepsLines ==
  ASSUME TypeOK, LogInv, NEW v \in Writers, WritesStderr(v)
  PROVE  LogInv'
<1>0. PICK at \in Nat : at = Len(stderr) + 1
  BY DEF TypeOK
<1>1. /\ pc[v] = "stderr" /\ line[v] \in 1 .. MaxLines /\ stderr \in Seq(Pieces)
      /\ done[v] \in 0 .. Length
      /\ UNCHANGED <<pc, line, ended, kmsg>>
  <2>1. pc[v] = "stderr" /\ UNCHANGED <<pc, line, ended, kmsg>>
    BY DEF WritesStderr
  <2>2. /\ line[v] \in 0 .. MaxLines /\ line[v] > 0 /\ stderr \in Seq(Pieces)
        /\ done[v] \in 0 .. Length
    BY <2>1 DEF TypeOK
  <2>3. QED
    BY <2>1, <2>2
<1>2. PICK k \in 1 .. Length - done[v] :
        /\ stderr' = Append(stderr, Piece(v, done[v], done[v] + k))
        /\ done' = [done EXCEPT ![v] = @ + k]
  BY DEF WritesStderr
<1> DEFINE p == Piece(v, done[v], done[v] + k)
<1>1a. pc[v] # "idle" /\ done[v] + k \in 0 .. Length
  BY <1>1, <1>2
<1>3. /\ p \in Pieces /\ p.by = v /\ p.line = line[v]
      /\ p.from = done[v] /\ p.to = done[v] + k
  BY <1>1, <1>2, <1>1a, PieceTyped
<1>4. stderr' = Append(stderr, p)
  BY <1>2
<1> HIDE DEF p
<1>5. ASSUME NEW w \in Writers, NEW n \in 1 .. MaxLines
      PROVE  LineInv(w, n, At(kmsg, w, n), At(stderr, w, n))'
  <2> DEFINE K == At(kmsg, w, n)
             E == At(stderr, w, n)
  <2>1. K' = K
    BY <1>1 DEF At
  <2>2. LineInv(w, n, K, E)
    BY DEF LogInv
  <2>3. /\ E \subseteq 1 .. Len(stderr) /\ Len(stderr) \in Nat
        /\ \A i \in E : stderr'[i] = stderr[i]
        /\ stderr'[at] = p
        /\ E' = E \cup (IF v = w /\ line[v] = n THEN {at} ELSE {})
    BY <1>0, <1>1, <1>3, <1>4, Appended
  <2>4. CASE w = v /\ n = line[v]
    <3> HIDE DEF K, E
    <3>1. K = {} /\ HoldsUpTo(E, done[v])
      BY <1>1, <2>2, <2>4 DEF LineInv, CurrentInv
    <3>2. E' = E \cup {at} /\ \A i \in E : i < at /\ i \in Nat
      BY <1>0, <2>3, <2>4
    <3>3. pc'[w] = "stderr" /\ done'[w] = done[v] + k /\ line'[w] = n
      BY <1>1, <1>2, <2>4 DEF TypeOK
    <3>4. ContinuesIn(E, at)'
      <4>1. CASE done[v] = 0
        <5>1. E = {}
          BY <3>1, <4>1 DEF HoldsUpTo
        <5>2. stderr'[at].from = 0 /\ \A j \in E' : at <= j
          BY <1>3, <2>3, <3>2, <4>1, <5>1
        <5>3. QED
          BY <5>2 DEF ContinuesIn
      <4>2. CASE done[v] > 0
        <5>1. PICK j \in E : stderr[j].to = done[v] /\ \A i \in E : i <= j
          BY <3>1, <4>2 DEF HoldsUpTo
        <5>2. /\ j \in E' /\ j < at
              /\ \A i \in E' : i < at => i <= j
          BY <3>2, <5>1
        <5>3. stderr'[at].from = stderr'[j].to
          BY <1>3, <2>3, <5>1
        <5>4. QED
          BY <5>2, <5>3 DEF ContinuesIn
      <4>3. QED
        BY <1>1, <4>1, <4>2
    <3>5. ASSUME NEW i \in E
          PROVE  ContinuesIn(E, i)'
      <4>1. ContinuesIn(E, i) /\ i < at
        BY <2>2, <3>2 DEF LineInv
      <4>2. CASE stderr[i].from = 0 /\ \A j \in E : i <= j
        <5>1. stderr'[i].from = 0 /\ \A j \in E' : i <= j
          BY <2>3, <3>2, <4>1, <4>2
        <5>2. QED
          BY <5>1 DEF ContinuesIn
      <4>3. CASE \E j \in E : /\ j < i /\ \A h \in E : h < i => h <= j
                              /\ stderr[i].from = stderr[j].to
        <5>1. PICK j \in E : /\ j < i /\ \A h \in E : h < i => h <= j
                             /\ stderr[i].from = stderr[j].to
          BY <4>3
        <5>2. /\ j \in E' /\ \A h \in E' : h < i => h <= j
          BY <2>3, <3>2, <4>1, <5>1
        <5>3. stderr'[i].from = stderr'[j].to
          BY <2>3, <5>1
        <5>4. QED
          BY <5>1, <5>2, <5>3 DEF ContinuesIn
      <4>4. QED
        BY <4>1, <4>2, <4>3 DEF ContinuesIn
    <3>6. HoldsUpTo(E, done[w])'
      <4>1. \A i \in E : stderr'[i].to <= done[v] /\ stderr[i].to = stderr'[i].to
        BY <2>3, <3>1 DEF HoldsUpTo
      <4>2. stderr'[at].to = done[v] + k
        BY <1>3, <2>3
      <4>3. \A i \in E' : i <= at
        BY <2>3, <3>2
      <4>4. done[v] + k > 0
        BY <1>1, <1>2
      <4>5. \A i \in E' : stderr'[i].to <= done[v] + k
        <5>1. stderr'[at].to <= done[v] + k
          <6>1. done[v] + k \in Nat
            BY <1>1, <1>2
          <6>2. QED
            BY <4>2, <6>1
        <5>2. ASSUME NEW i \in E
              PROVE  stderr'[i].to <= done[v] + k
          <6>1. stderr[i] \in Pieces
            BY <1>1, <2>3
          <6>2. stderr'[i].to \in Nat /\ stderr'[i].to <= done[v]
            BY <4>1, <6>1 DEF Pieces
          <6>3. done[v] \in Nat /\ k \in Nat
            BY <1>1, <1>2
          <6>4. QED
            BY <6>2, <6>3
        <5>3. QED
          BY <3>2, <5>1, <5>2
      <4>6. QED
        BY <3>2, <3>3, <4>2, <4>3, <4>4, <4>5 DEF HoldsUpTo
    <3>7. CurrentInv(w, K, E)'
      BY <2>1, <3>1, <3>3, <3>6 DEF CurrentInv
    <3>8. QED
      <4>1. (\A i \in E : ContinuesIn(E, i))'
        BY <3>2, <3>4, <3>5
      <4>2. n = line'[w] /\ n \in Nat /\ K' = {}
        BY <2>1, <3>1, <3>3
      <4>3. QED
        BY <3>7, <4>1, <4>2 DEF LineInv, K, E
  <2>5. CASE ~(w = v /\ n = line[v])
    <3>1. E' = E
      BY <2>3, <2>5
    <3>2. n = line[w] => done'[w] = done[w]
      BY <1>1, <1>2, <2>5 DEF TypeOK
    <3>3. QED
      BY <1>1, <2>1, <2>2, <2>3, <3>1, <3>2, OtherLinesStay
  <2>6. QED
    BY <2>4, <2>5
<1>6. QED
  BY <1>5 DEF LogInv

\* write_fd() returns whether the whole line was taken, and the line is left at that.
LEMMA ReturnKeepsLines ==
  ASSUME TypeOK, LogInv, NEW v \in Writers, WriteFails(v) \/ WriteEnds(v)
  PROVE  LogInv'
<1>1. PICK whole \in BOOLEAN :
        /\ Returns(v, whole) /\ UNCHANGED <<line, kmsg, stderr>>
        /\ whole <=> done[v] = Length
  <2>1. CASE WriteFails(v)
    <3>1. Returns(v, FALSE) /\ UNCHANGED <<line, kmsg, stderr>> /\ done[v] < Length
      BY <2>1 DEF WriteFails
    <3>2. done[v] # Length
      BY <3>1 DEF TypeOK
    <3>3. QED
      BY <3>1, <3>2
  <2>2. CASE WriteEnds(v)
    BY <2>2 DEF WriteEnds
  <2>3. QED
    BY <2>1, <2>2
<1>2. /\ pc[v] \in {"kmsg", "stderr"} /\ ended'[v] = whole /\ done'[v] = 0
      /\ pc'[v] = IF pc[v] = "kmsg" /\ ~whole THEN "stderr" ELSE "idle"
  BY <1>1 DEF Returns, WriteFails, WriteEnds, TypeOK
<1>3. \A w \in Writers \ {v} : pc'[w] = pc[w] /\ done'[w] = done[w] /\ ended'[w] = ended[w]
  BY <1>1 DEF Returns, TypeOK
<1>4. ASSUME NEW w \in Writers, NEW n \in 1 .. MaxLines
      PROVE  LineInv(w, n, At(kmsg, w, n), At(stderr, w, n))'
  <2> DEFINE K == At(kmsg, w, n)
             E == At(stderr, w, n)
  <2>1. K' = K /\ E' = E
    BY <1>1 DEF At
  <2>2. LineInv(w, n, K, E)
    BY DEF LogInv
  <2>3. CASE ~(w = v /\ n = line[v])
    BY <1>1, <1>3, <2>1, <2>2, <2>3, OtherLinesStay
  <2>4. CASE w = v /\ n = line[v]
    <3>1. \A i \in E : stderr[i].to \in Nat
      <4>1. \A i \in E : i \in DOMAIN stderr
        BY DEF At
      <4>2. stderr \in Seq(Pieces)
        BY DEF TypeOK
      <4>3. \A i \in E : stderr[i] \in Pieces
        BY <4>1, <4>2
      <4>4. QED
        BY <4>3 DEF Pieces
    <3> HIDE DEF K, E
    <3>2. CurrentInv(w, K, E)
      BY <2>2, <2>4 DEF LineInv
    <3>3. /\ n > line'[w] => K = {} /\ E = {}
          /\ K # {} => E = {} /\ \A i, j \in K : i = j
          /\ \A i \in E : ContinuesIn(E, i)'
      BY <1>1, <2>1, <2>2 DEF LineInv, ContinuesIn
    <3>4. CurrentInv(w, K, E)'
      <4>1. CASE pc[v] = "kmsg" /\ ~whole
        <5>1. K = {} /\ E = {}
          BY <1>1, <2>4, <3>2, <4>1 DEF CurrentInv
        <5>2. pc'[w] = "stderr" /\ done'[w] = 0
          BY <1>2, <2>4, <4>1
        <5>3. QED
          BY <2>1, <5>1, <5>2 DEF CurrentInv, HoldsUpTo
      <4>2. CASE pc[v] = "kmsg" /\ whole
        <5>1. K # {}
          BY <1>1, <2>4, <3>2, <4>2 DEF CurrentInv
        <5>2. pc'[w] = "idle" /\ ended'[w]
          BY <1>2, <2>4, <4>2
        <5>3. QED
          BY <2>1, <5>1, <5>2 DEF CurrentInv
      <4>3. CASE pc[v] = "stderr"
        <5>1. K = {} /\ HoldsUpTo(E, done[v])
          BY <2>4, <3>2, <4>3 DEF CurrentInv
        <5>2. done[v] \in 0 .. Length
          BY DEF TypeOK
        <5>3. whole <=> \E i \in E : stderr[i].to = Length
          <6>1. CASE whole
            BY <1>1, <5>1, <5>2, <6>1 DEF HoldsUpTo
          <6>2. CASE ~whole
            <7>1. done[v] < Length
              BY <1>1, <5>2, <6>2
            <7>2. \A i \in E : stderr[i].to < Length
              BY <3>1, <5>1, <5>2, <7>1 DEF HoldsUpTo
            <7>3. QED
              BY <6>2, <7>2
          <6>3. QED
            BY <6>1, <6>2
        <5>4. pc'[w] = "idle" /\ ended'[w] = whole
          BY <1>2, <2>4, <4>3
        <5>5. QED
          BY <1>1, <2>1, <5>1, <5>3, <5>4 DEF CurrentInv
      <4>4. QED
        BY <1>2, <4>1, <4>2, <4>3
    <3>5. QED
      BY <2>1, <3>3, <3>4 DEF LineInv, K, E
  <2>5. QED
    BY <2>3, <2>4
<1>5. QED
  BY <1>4 DEF LogInv

THEOREM LogInvHolds == Spec => []LogInv
<1>1. Init => LogInv
  <2> SUFFICES ASSUME Init
               PROVE  LogInv
    OBVIOUS
  <2>1. DOMAIN kmsg = {} /\ DOMAIN stderr = {}
    BY DEF Init
  <2>2. \A w \in Writers, n \in 1 .. MaxLines :
          At(kmsg, w, n) = {} /\ At(stderr, w, n) = {}
    BY <2>1 DEF At
  <2>3. \A w \in Writers : line[w] = 0
    BY DEF Init
  <2>4. ASSUME NEW w \in Writers, NEW n \in 1 .. MaxLines
        PROVE  LineInv(w, n, {}, {})
    BY <2>3 DEF LineInv
  <2>5. QED
    BY <2>1, <2>2, <2>4 DEF LogInv
<1>2. TypeOK /\ LogInv /\ [Next]_vars => LogInv'
  <2> SUFFICES ASSUME TypeOK, LogInv, [Next]_vars
               PROVE  LogInv'
    OBVIOUS
  <2>1. CASE Next
    BY <2>1, EmitKeepsLines, KmsgKeepsLines, StderrKeepsLines, ReturnKeepsLines
    DEF Next, Logs
  <2>2. CASE UNCHANGED vars
    <3>1. ASSUME NEW w \in Writers, NEW n \in 1 .. MaxLines
          PROVE  LineInv(w, n, At(kmsg, w, n), At(stderr, w, n))'
      <4>1. /\ At(kmsg, w, n)' = At(kmsg, w, n) /\ At(stderr, w, n)' = At(stderr, w, n)
            /\ UNCHANGED <<pc, done, line, ended, stderr>>
        BY <2>2 DEF vars, At
      <4>2. LineInv(w, n, At(kmsg, w, n), At(stderr, w, n))
        BY DEF LogInv
      <4>3. QED
        BY <4>1, <4>2, OtherLinesStay
    <3>2. QED
      BY <3>1 DEF LogInv
  <2>3. QED
    BY <2>1, <2>2
<1>3. QED
  BY <1>1, <1>2, TypeCorrect, PTL DEF Spec

--------------------------------------------------------------------------------
\* Wherever a line lands it lands once, whole or up to where it was given up, and
\* write_fd() says which (LinesLandOnce, sys.rs:269-280, log.rs:52-65).
THEOREM EachLineLandsOnce == Spec => []LinesLandOnce
<1>1. LogInv => LinesLandOnce
  <2> SUFFICES ASSUME LogInv, NEW w \in Writers, NEW n \in 1 .. MaxLines
               PROVE  LET K == At(kmsg, w, n)  E == At(stderr, w, n) IN
                        /\ K # {} => E = {} /\ \A i, j \in K : i = j
                        /\ \A i \in E : ContinuesIn(E, i)
                        /\ n = line[w] /\ pc[w] = "idle" =>
                             (ended[w] <=> (K # {} \/ \E i \in E : stderr[i].to = Length))
    BY DEF LinesLandOnce
  <2>1. LineInv(w, n, At(kmsg, w, n), At(stderr, w, n))
    BY DEF LogInv
  <2>2. QED
    BY <2>1 DEF LineInv, CurrentInv
<1>2. QED
  BY <1>1, LogInvHolds, PTL
================================================================================
