----------------------------- MODULE FileProofs -----------------------------
(***************************************************************************)
(* Proofs about FileHandler: its type invariant, and that it implements    *)
(* AtomicFile, for every set of callers and commands, every capacity of    *)
(* the channel and any number of calls, failures and dropped futures.      *)
(***************************************************************************)
EXTENDS FileHandler, TLAPS

\* e was sent before f.
Before(e, f) == e.client = f.client => e.no < f.no

\* Two callers, or one that gave up on one of the two commands.
Apart(e, f) == e.wanted /\ f.wanted => e.client # f.client

\* The commands that were sent and have not taken effect.
Sent == (IF Busy THEN {cur} ELSE {}) \cup {queue[i] : i \in 1 .. Len(queue)}

\* Call numbers tell the commands apart, and the commands of one caller are
\* served, queued and asked for in their order.
Ordered ==
  /\ \A i, j \in 1 .. Len(queue) : i < j => Before(queue[i], queue[j]) /\ Apart(queue[i], queue[j])
  /\ Busy => \A i \in 1 .. Len(queue) : Before(cur, queue[i]) /\ Apart(cur, queue[i])
  /\ \A c \in Client : phase[c] = "sending" =>
       /\ request[c] # Nobody /\ request[c].client = c /\ request[c].wanted
       /\ request[c].no <= cmds
       /\ \A e \in Sent : Before(e, request[c])
  /\ \A e \in Sent : e.no <= cmds

\* A caller waits for a command exactly while its answer is wanted, and holds
\* an answer exactly until it picks it up.
Attended ==
  /\ \A e \in Sent : e.wanted => phase[e.client] = "waiting"
  /\ \A c \in Client : phase[c] = "waiting" => \E e \in Sent : e.client = c /\ e.wanted
  /\ \A c \in Client : reply[c] # NoAnswer <=> phase[c] = "answered"

\* How far the task is with the command it serves.
Served ==
  /\ Busy => done = 0 \/ (IsWrite(cur.cmd) /\ done <= Len(cur.cmd.data))
  /\ task = "seek" => file = base /\ done = 0
  /\ task = "work" /\ IsWrite(cur.cmd) =>
       start = WriteStart(cur.cmd, base) /\ file = Written(cur.cmd, base, done)
  /\ task = "work" /\ ~ IsWrite(cur.cmd) => start = 0 /\ file = base
  /\ ~ Busy => done = 0

FileInv == Ordered /\ Attended /\ Served

-----------------------------------------------------------------------------
(***************************************************************************)
(* What commands do to a file.                                             *)
(***************************************************************************)

\* The parts of each kind of command.
LEMMA CommandTypes ==
  ASSUME NEW cmd \in Command
  PROVE  /\ cmd.op \in {"append", "write_at", "set_len", "sync_all", "read_all"}
         /\ IsWrite(cmd) => cmd.data \in Seq(Byte)
         /\ cmd.op = "write_at" => cmd.pos \in Nat
         /\ cmd.op = "set_len" => cmd.len \in Nat
BY CommandAssumption DEF IsWrite

\* set_len leaves a file.
LEMMA ResizeType ==
  ASSUME NEW f \in Seq(Byte), NEW n \in Nat
  PROVE  Resize(f, n) \in Seq(Byte)
<1>1. \A i \in 1 .. n : (IF i <= Len(f) THEN f[i] ELSE Zero) \in Byte
  BY ByteAssumption
<1> QED
  BY <1>1 DEF Resize

\* The length and the bytes of a file that was written to.
LEMMA OverwriteType ==
  ASSUME NEW f \in Seq(Byte), NEW pos \in Nat, NEW data \in Seq(Byte)
  PROVE  /\ Overwrite(f, pos, data) \in Seq(Byte)
         /\ Len(Overwrite(f, pos, data)) =
              IF pos + Len(data) > Len(f) THEN pos + Len(data) ELSE Len(f)
         /\ \A i \in 1 .. Len(Overwrite(f, pos, data)) :
              Overwrite(f, pos, data)[i] =
                IF i \in pos + 1 .. pos + Len(data) THEN data[i - pos]
                ELSE IF i <= Len(f) THEN f[i] ELSE Zero
<1> DEFINE end == pos + Len(data)
           n == IF end > Len(f) THEN end ELSE Len(f)
           b(i) == IF i \in pos + 1 .. end THEN data[i - pos]
                   ELSE IF i <= Len(f) THEN f[i] ELSE Zero
<1>1. n \in Nat /\ end \in Nat
  OBVIOUS
<1>2. \A i \in 1 .. n : b(i) \in Byte
  BY ByteAssumption
<1>3. Overwrite(f, pos, data) = [i \in 1 .. n |-> b(i)]
  BY DEF Overwrite
<1> HIDE DEF n, b
<1>4. [i \in 1 .. n |-> b(i)] \in Seq(Byte) /\ Len([i \in 1 .. n |-> b(i)]) = n
  BY <1>1, <1>2
<1> QED
  BY <1>3, <1>4 DEF n, b

\* Where a write begins, and that it leaves a file, however far it got.
LEMMA WrittenType ==
  ASSUME NEW cmd \in Command, IsWrite(cmd), NEW f \in Seq(Byte), NEW n \in 0 .. Len(cmd.data)
  PROVE  WriteStart(cmd, f) \in Nat /\ Written(cmd, f, n) \in Seq(Byte)
<1>1. WriteStart(cmd, f) \in Nat
  BY CommandTypes DEF WriteStart, IsWrite
<1>2. SubSeq(cmd.data, 1, n) \in Seq(Byte)
  BY CommandTypes
<1> QED
  BY <1>1, <1>2, OverwriteType DEF Written

\* One more byte, written behind the first n, makes it n + 1 bytes: write_all
\* may go through its data in pieces of any size.
LEMMA WrittenStep ==
  ASSUME NEW cmd \in Command, IsWrite(cmd), NEW f \in Seq(Byte),
         NEW n \in Nat, n < Len(cmd.data)
  PROVE  Overwrite(Written(cmd, f, n), WriteStart(cmd, f) + n, <<cmd.data[n + 1]>>)
           = Written(cmd, f, n + 1)
<1> DEFINE s == WriteStart(cmd, f)
           d == cmd.data
           dn == SubSeq(d, 1, n)
           dm == SubSeq(d, 1, n + 1)
           one == <<d[n + 1]>>
           g == Written(cmd, f, n)
           sn == s + n
           L == Overwrite(g, sn, one)
           R == Overwrite(f, s, dm)
<1>1. s \in Nat /\ d \in Seq(Byte) /\ g \in Seq(Byte) /\ sn \in Nat /\ sn = s + n
  BY WrittenType, CommandTypes
<1>2. one \in Seq(Byte) /\ Len(one) = 1 /\ one[1] = d[n + 1]
  BY <1>1
<1>3. dm \in Seq(Byte) /\ Len(dm) = n + 1 /\ \A i \in 1 .. n + 1 : dm[i] = d[i]
  BY <1>1
<1>4. dn \in Seq(Byte) /\ Len(dn) = n /\ \A i \in 1 .. n : dn[i] = d[i]
  BY <1>1
<1>5. Written(cmd, f, n + 1) = R
  BY DEF Written
<1>6. n > 0 => g = Overwrite(f, s, dn)
  BY DEF Written
<1>7. n = 0 => g = f
  BY DEF Written
<1> HIDE DEF s, d, dn, dm, one, g, sn, L, R
<1>8. /\ Len(g) = IF n > 0 /\ s + n > Len(f) THEN s + n ELSE Len(f)
      /\ \A i \in 1 .. Len(g) : i \in s + 1 .. s + n => g[i] = d[i - s]
      /\ \A i \in 1 .. Len(g) : i \notin s + 1 .. s + n =>
           g[i] = IF i <= Len(f) THEN f[i] ELSE Zero
  <2>1. CASE n = 0
    BY <2>1, <1>1, <1>7
  <2>2. CASE n > 0
    <3>1. /\ Len(g) = IF s + Len(dn) > Len(f) THEN s + Len(dn) ELSE Len(f)
          /\ \A i \in 1 .. Len(g) :
               g[i] = IF i \in s + 1 .. s + Len(dn) THEN dn[i - s]
                      ELSE IF i <= Len(f) THEN f[i] ELSE Zero
      <4> DEFINE h == Overwrite(f, s, dn)
      <4>1. dn \in Seq(Byte) /\ s \in Nat /\ g = h
        BY <2>2, <1>1, <1>4, <1>6
      <4>2. /\ Len(h) = IF s + Len(dn) > Len(f) THEN s + Len(dn) ELSE Len(f)
            /\ \A i \in 1 .. Len(h) :
                 h[i] = IF i \in s + 1 .. s + Len(dn) THEN dn[i - s]
                        ELSE IF i <= Len(f) THEN f[i] ELSE Zero
        BY <4>1, OverwriteType, Zenon
      <4> QED BY <4>1, <4>2, Zenon
    <3>2. \A i \in s + 1 .. s + n : i - s \in 1 .. n
      BY <1>1
    <3>3. \A i \in s + 1 .. s + n : dn[i - s] = d[i - s]
      BY <3>2, <1>4
    <3> QED BY <3>1, <3>3, <2>2, <1>1, <1>4
  <2> QED BY <2>1, <2>2
<1>9. /\ L \in Seq(Byte)
      /\ Len(L) = IF s + n + 1 > Len(g) THEN s + n + 1 ELSE Len(g)
      /\ \A i \in 1 .. Len(L) : i = s + n + 1 => L[i] = d[n + 1]
      /\ \A i \in 1 .. Len(L) : i # s + n + 1 => L[i] = IF i <= Len(g) THEN g[i] ELSE Zero
  <2>1. /\ L \in Seq(Byte)
        /\ Len(L) = IF sn + Len(one) > Len(g) THEN sn + Len(one) ELSE Len(g)
        /\ \A i \in 1 .. Len(L) :
             L[i] = IF i \in sn + 1 .. sn + Len(one) THEN one[i - sn]
                    ELSE IF i <= Len(g) THEN g[i] ELSE Zero
    <3>1. g \in Seq(Byte) /\ sn \in Nat /\ one \in Seq(Byte)
      BY <1>1, <1>2
    <3> QED BY <3>1, OverwriteType, Zenon DEF L
  <2>2. Len(L) = IF s + n + 1 > Len(g) THEN s + n + 1 ELSE Len(g)
    BY <2>1, <1>1, <1>2
  <2>3. ASSUME NEW i \in 1 .. Len(L), i = s + n + 1 PROVE L[i] = d[n + 1]
    <3>1. i \in sn + 1 .. sn + Len(one) /\ i - sn = 1
      BY <2>3, <1>1, <1>2
    <3> QED BY <3>1, <2>1, <1>2
  <2>4. ASSUME NEW i \in 1 .. Len(L), i # s + n + 1
        PROVE  L[i] = IF i <= Len(g) THEN g[i] ELSE Zero
    <3>1. i \notin sn + 1 .. sn + Len(one)
      BY <2>4, <1>1, <1>2
    <3> QED BY <3>1, <2>1, Zenon
  <2> QED BY <2>1, <2>2, <2>3, <2>4
<1>10. /\ R \in Seq(Byte)
       /\ Len(R) = IF s + n + 1 > Len(f) THEN s + n + 1 ELSE Len(f)
       /\ \A i \in 1 .. Len(R) : i \in s + 1 .. s + n + 1 => R[i] = d[i - s]
       /\ \A i \in 1 .. Len(R) : i \notin s + 1 .. s + n + 1 =>
            R[i] = IF i <= Len(f) THEN f[i] ELSE Zero
  <2>1. /\ R \in Seq(Byte)
        /\ Len(R) = IF s + Len(dm) > Len(f) THEN s + Len(dm) ELSE Len(f)
        /\ \A i \in 1 .. Len(R) :
             R[i] = IF i \in s + 1 .. s + Len(dm) THEN dm[i - s]
                    ELSE IF i <= Len(f) THEN f[i] ELSE Zero
    <3>1. s \in Nat /\ dm \in Seq(Byte)
      BY <1>1, <1>3
    <3> QED BY <3>1, OverwriteType, Zenon DEF R
  <2>2. \A i \in s + 1 .. s + n + 1 : i - s \in 1 .. n + 1
    BY <1>1
  <2>3. \A i \in s + 1 .. s + n + 1 : dm[i - s] = d[i - s]
    BY <2>2, <1>3
  <2> QED BY <2>1, <2>3, <1>1, <1>3
<1>11. Len(L) = Len(R)
  BY <1>1, <1>8, <1>9, <1>10
<1>12. ASSUME NEW i \in 1 .. Len(R) PROVE L[i] = R[i]
  <2>1. CASE i = s + n + 1
    <3>0. i \in 1 .. Len(L) /\ i \in s + 1 .. s + n + 1
      BY <2>1, <1>1, <1>11
    <3>1. L[i] = d[n + 1] /\ R[i] = d[i - s]
      BY <3>0, <2>1, <1>9, <1>10, Zenon
    <3>2. i - s = n + 1
      BY <2>1, <1>1
    <3> QED BY <3>1, <3>2
  <2>2. CASE i \in s + 1 .. s + n
    <3>1. i <= Len(g) /\ L[i] = g[i] /\ g[i] = d[i - s]
      <4>1. i \in 1 .. Len(g) /\ i # s + n + 1
        BY <2>2, <1>1, <1>8
      <4>2. L[i] = IF i <= Len(g) THEN g[i] ELSE Zero
        BY <4>1, <1>9, <1>11
      <4> QED BY <4>1, <4>2, <2>2, <1>1, <1>8
    <3>2. i \in s + 1 .. s + n + 1
      BY <2>2, <1>1
    <3>3. R[i] = d[i - s]
      BY <3>2, <1>10, Zenon
    <3> QED BY <3>1, <3>3
  <2>3. CASE i # s + n + 1 /\ i \notin s + 1 .. s + n
    <3>0. i \notin s + 1 .. s + n + 1
      BY <2>3, <1>1
    <3>1. R[i] = IF i <= Len(f) THEN f[i] ELSE Zero
      BY <3>0, <1>10, Zenon
    <3>2. L[i] = IF i <= Len(g) THEN g[i] ELSE Zero
      BY <2>3, <1>1, <1>9, <1>11
    <3>3. i <= Len(g) => g[i] = IF i <= Len(f) THEN f[i] ELSE Zero
      BY <2>3, <1>1, <1>8
    <3>4. i > Len(g) => i > Len(f)
      BY <1>1, <1>8
    <3> QED BY <3>1, <3>2, <3>3, <3>4, <1>1
  <2> QED BY <2>1, <2>2, <2>3
<1>13. L = R
  BY <1>9, <1>10, <1>11, <1>12
<1> QED
  BY <1>5, <1>13 DEF L, g, s, sn, one, d

-----------------------------------------------------------------------------
(***************************************************************************)
(* Types.                                                                  *)
(***************************************************************************)

\* The task serves a real command.
LEMMA Serving ==
  ASSUME TypeOK, Busy
  PROVE  /\ cur \in Entry /\ cur.client \in Client /\ cur.cmd \in Command /\ cur.no \in Nat
         /\ cur.wanted \in BOOLEAN
BY DEF TypeOK, Entry

\* An idle task serves nobody, and nobody is not a command.
LEMMA NobodyElse == Nobody \notin Entry
BY NoAnswerAssumption DEF Nobody, Entry

\* Giving up on an entry leaves an entry.
LEMMA UnwantedType ==
  ASSUME NEW e \in Entry, NEW c \in Client
  PROVE  /\ Unwanted(e, c) \in Entry /\ Unwanted(e, c).client = e.client
         /\ Unwanted(e, c).no = e.no /\ Unwanted(e, c).cmd = e.cmd
         /\ Unwanted(e, c).wanted <=> e.wanted /\ e.client # c
BY DEF Unwanted, Entry

\* Nobody has nothing to give up.
LEMMA UnwantedNobody ==
  ASSUME NEW c \in Client
  PROVE  Unwanted(Nobody, c) = Nobody
BY NoAnswerAssumption DEF Unwanted, Nobody

\* An answer keeps the types.
LEMMA ReplyType ==
  ASSUME TypeOK, Busy, NEW a \in Replies, Reply(a),
         file' \in Seq(Byte), synced' \in Seq(Byte)
  PROVE  TypeOK'
<1>1. /\ reply' \in [Client -> Replies \cup {NoAnswer}]
      /\ phase' \in [Client -> {"idle", "sending", "waiting", "answered"}]
  BY Serving DEF Reply, TypeOK
<1>2. cur' = Nobody /\ task' = "recv" /\ start' = 0 /\ done' = 0 /\ base' = <<>>
      /\ queue' = queue /\ request' = request /\ open' = open /\ cmds' = cmds
  BY DEF Reply
<1> QED
  BY <1>1, <1>2 DEF TypeOK, Busy

\* The first state.
LEMMA TypeInit == Init => TypeOK
BY HandlerAssumption DEF Init, TypeOK, Busy

\* Every step of the task and of its callers keeps the types; that a file has
\* no negative position and an answer no negative offset is part of it.
LEMMA TypeStep == TypeOK /\ Ordered /\ [Next]_vars => TypeOK'
<1> SUFFICES ASSUME TypeOK, Ordered, [Next]_vars PROVE TypeOK'
  OBVIOUS
<1> USE DEF fileVars, taskVars, callerVars
<1>1. CASE UNCHANGED vars
  BY <1>1 DEF vars, TypeOK, Busy
<1>2. CASE Recv
  <2>1. Head(queue) \in Entry /\ Tail(queue) \in Seq(Entry) /\ Len(Tail(queue)) <= Capacity
    BY <1>2, HandlerAssumption DEF Recv, TypeOK
  <2>2. Head(queue) # Nobody
    BY <2>1, NobodyElse
  <2> QED BY <1>2, <2>1, <2>2 DEF Recv, TypeOK, Busy
<1>3. CASE Seek
  <2>1. Busy /\ cur.cmd \in Command
    BY <1>3, Serving DEF Seek, Busy
  <2>2. IsWrite(cur.cmd) => WriteStart(cur.cmd, file) \in Nat
    BY <2>1, CommandTypes DEF WriteStart, IsWrite, TypeOK
  <2>3. start' \in Nat
    BY <1>3, <2>2 DEF Seek
  <2> QED BY <1>3, <2>1, <2>3 DEF Seek, TypeOK, Busy
<1>4. CASE WritePiece
  <2>1. Busy /\ cur.cmd \in Command /\ cur.cmd.data \in Seq(Byte)
    BY <1>4, Serving, CommandTypes DEF WritePiece, Busy
  <2>2. <<cur.cmd.data[done + 1]>> \in Seq(Byte) /\ start + done \in Nat
    BY <1>4, <2>1 DEF WritePiece, TypeOK
  <2>3. file' \in Seq(Byte)
    BY <1>4, <2>2, OverwriteType DEF WritePiece, TypeOK
  <2> QED BY <1>4, <2>1, <2>3 DEF WritePiece, TypeOK, Busy
<1>5. CASE FinishWrite
  <2>1. PICK a \in Replies : Reply(a)
    <3>1. (IF cur.cmd.op = "append" THEN [op |-> "append", at |-> start] ELSE [op |-> "write_at"])
            \in Replies
      BY DEF Replies, TypeOK
    <3> QED BY <1>5, <3>1 DEF FinishWrite
  <2> QED BY <1>5, <2>1, ReplyType DEF FinishWrite, Busy, TypeOK
<1>6. CASE FinishReadAll
  <2>1. SubSeq(file, start + 1, Len(file)) \in Seq(Byte)
    BY DEF TypeOK
  <2>2. [op |-> "read_all", content |-> SubSeq(file, start + 1, Len(file))] \in Replies
    BY <2>1 DEF Replies
  <2> QED BY <1>6, <2>2, ReplyType DEF FinishReadAll, Busy, TypeOK
<1>7. CASE FinishSetLen
  <2>1. Busy /\ cur.cmd.len \in Nat
    BY <1>7, Serving, CommandTypes DEF FinishSetLen, Busy
  <2>2. file' \in Seq(Byte)
    BY <1>7, <2>1, ResizeType DEF FinishSetLen, TypeOK
  <2>3. [op |-> "set_len"] \in Replies
    BY DEF Replies
  <2> QED BY <1>7, <2>1, <2>2, <2>3, ReplyType DEF FinishSetLen, TypeOK
<1>8. CASE FinishSyncAll
  <2>1. [op |-> "sync_all"] \in Replies
    BY DEF Replies
  <2> QED BY <1>8, <2>1, ReplyType DEF FinishSyncAll, Busy, TypeOK
<1>9. CASE CommandError
  <2>1. Err \in Replies
    BY DEF Replies
  <2> QED BY <1>9, <2>1, ReplyType DEF CommandError, TypeOK
<1>10. CASE Stop \/ DropHandle \/ Over
  BY <1>10 DEF Stop, DropHandle, Over, vars, TypeOK, Busy
<1>11. ASSUME NEW c \in Client, NEW cmd \in Command, Call(c, cmd) PROVE TypeOK'
  <2>1. [client |-> c, no |-> cmds + 1, cmd |-> cmd, wanted |-> TRUE] \in Entry
    BY DEF TypeOK, Entry
  <2> QED BY <1>11, <2>1 DEF Call, TypeOK, Busy
<1>12. ASSUME NEW c \in Client, Send(c) PROVE TypeOK'
  <2>1. request[c] \in Entry
    BY <1>12 DEF Send, Ordered, TypeOK
  <2>2. queue' \in Seq(Entry) /\ Len(queue') <= Capacity
    BY <1>12, <2>1, HandlerAssumption DEF Send, TypeOK
  <2> QED BY <1>12, <2>2 DEF Send, TypeOK, Busy
<1>13. ASSUME NEW c \in Client, Return(c) PROVE TypeOK'
  BY <1>13 DEF Return, TypeOK, Busy
<1>14. ASSUME NEW c \in Client, Cancel(c) PROVE TypeOK'
  <2>1. queue' \in Seq(Entry) /\ Len(queue') = Len(queue)
    <3>1. \A i \in 1 .. Len(queue) : Unwanted(queue[i], c) \in Entry
      BY UnwantedType DEF TypeOK
    <3>2. queue' = [i \in 1 .. Len(queue) |-> Unwanted(queue[i], c)]
      BY <1>14 DEF Cancel, TypeOK
    <3> QED BY <3>1, <3>2 DEF TypeOK
  <2>2. cur' \in Entry \cup {Nobody} /\ (cur' = Nobody <=> cur = Nobody)
    <3>1. CASE cur = Nobody
      BY <1>14, <3>1, UnwantedNobody DEF Cancel
    <3>2. CASE cur # Nobody
      BY <1>14, <3>2, UnwantedType, NobodyElse DEF Cancel, TypeOK
    <3> QED BY <3>1, <3>2
  <2> QED BY <1>14, <2>1, <2>2 DEF Cancel, TypeOK, Busy
<1> QED
  BY <1>1, <1>2, <1>3, <1>4, <1>5, <1>6, <1>7, <1>8, <1>9, <1>10, <1>11, <1>12, <1>13, <1>14
     DEF Next, TaskStep, CallerStep

-----------------------------------------------------------------------------
(***************************************************************************)
(* The order of the commands, and who waits for them.                      *)
(***************************************************************************)

\* Entries that were sent are entries.
LEMMA SentType == TypeOK => Sent \subseteq Entry
BY DEF Sent, TypeOK

\* No two entries that were sent are alike, and at most one of each caller is
\* wanted.
LEMMA SentApart ==
  ASSUME TypeOK, Ordered, NEW e \in Sent, NEW f \in Sent, e # f
  PROVE  Apart(e, f)
<1>1. CASE Busy /\ e = cur
  BY <1>1 DEF Sent, Ordered
<1>2. CASE Busy /\ f = cur
  BY <1>2 DEF Sent, Ordered, Apart
<1>3. CASE \E i, j \in 1 .. Len(queue) : e = queue[i] /\ f = queue[j]
  <2>1. PICK i, j \in 1 .. Len(queue) : e = queue[i] /\ f = queue[j]
    BY <1>3
  <2>2. i < j \/ j < i
    BY <2>1
  <2> QED BY <2>1, <2>2 DEF Ordered, Apart
<1> QED
  BY <1>1, <1>2, <1>3 DEF Sent

\* A step that leaves the channel, the task and the callers' phases alone.
LEMMA QuietOrder ==
  ASSUME TypeOK, Ordered, Attended, UNCHANGED <<queue, cur, phase, request, reply, cmds>>, Busy' = Busy
  PROVE  (Ordered /\ Attended)'
<1>1. Sent' = Sent
  BY DEF Sent
<1> QED
  BY <1>1 DEF Ordered, Attended

\* A call asks for a place with the largest number so far.
LEMMA CallOrder ==
  ASSUME TypeOK, Ordered, Attended, NEW c \in Client, NEW cmd \in Command, Call(c, cmd)
  PROVE  (Ordered /\ Attended)'
<1> USE DEF fileVars, taskVars, callerVars
<1>1. Sent' = Sent /\ queue' = queue /\ cur' = cur /\ Busy' = Busy /\ reply' = reply
  BY DEF Call, Sent, Busy
<1>2. /\ cmds \in Nat /\ cmds' = cmds + 1
      /\ \A d \in Client : phase'[d] = (IF d = c THEN "sending" ELSE phase[d])
      /\ \A d \in Client : d # c => request'[d] = request[d]
      /\ request'[c] = [client |-> c, no |-> cmds + 1, cmd |-> cmd, wanted |-> TRUE]
      /\ phase[c] = "idle"
  BY DEF Call, TypeOK
<1>3. \A e \in Sent : e.no \in Nat
  BY SentType DEF Entry
<1>4. request'[c] # Nobody
  <2>1. request'[c] \in Entry
    BY <1>2 DEF Entry
  <2> QED BY <2>1, NobodyElse
<1>5. ASSUME NEW d \in Client, phase'[d] = "sending"
      PROVE  /\ request'[d] # Nobody /\ request'[d].client = d /\ request'[d].wanted
             /\ request'[d].no <= cmds'
             /\ \A e \in Sent : Before(e, request'[d])
  <2>1. CASE d = c
    <3>1. request'[c].client = c /\ request'[c].no = cmds + 1 /\ request'[c].wanted
      BY <1>2
    <3>2. \A e \in Sent : e.no < request'[c].no
      BY <3>1, <1>2, <1>3 DEF Ordered
    <3> QED BY <2>1, <3>1, <3>2, <1>2, <1>4 DEF Before
  <2>2. CASE d # c
    <3>1. phase[d] = "sending" /\ request'[d] = request[d]
      BY <1>2, <1>5, <2>2
    <3>2. request[d] # Nobody /\ request[d].client = d /\ request[d].wanted
          /\ request[d].no <= cmds /\ \A e \in Sent : Before(e, request[d])
      BY <3>1 DEF Ordered
    <3>3. request[d].no \in Nat
      BY <3>2 DEF TypeOK, Entry
    <3> QED BY <3>1, <3>2, <3>3, <1>2
  <2> QED BY <2>1, <2>2
<1>6. \A e \in Sent : e.no <= cmds'
  BY <1>2, <1>3 DEF Ordered
<1>7. Ordered'
  BY <1>1, <1>5, <1>6 DEF Ordered
<1>8. Attended'
  <2>1. ASSUME NEW e \in Sent, e.wanted PROVE phase'[e.client] = "waiting"
    <3>1. e.client \in Client /\ phase[e.client] = "waiting"
      BY <2>1, SentType DEF Attended, Entry
    <3> QED BY <3>1, <1>2
  <2>2. \A d \in Client : phase'[d] = "waiting" => phase[d] = "waiting"
    BY <1>2
  <2>3. \A d \in Client : phase'[d] = "answered" <=> phase[d] = "answered"
    BY <1>2
  <2> QED BY <1>1, <2>1, <2>2, <2>3 DEF Attended
<1> QED
  BY <1>7, <1>8

\* What was asked for goes to the end of the channel.
LEMMA SendOrder ==
  ASSUME TypeOK, Ordered, Attended, NEW c \in Client, Send(c)
  PROVE  (Ordered /\ Attended)'
<1> USE DEF fileVars, taskVars, callerVars
<1> DEFINE r == request[c]
           n == Len(queue)
<1>1. /\ cur' = cur /\ Busy' = Busy /\ reply' = reply /\ cmds' = cmds
      /\ phase[c] = "sending"
      /\ \A d \in Client : phase'[d] = (IF d = c THEN "waiting" ELSE phase[d])
      /\ \A d \in Client : d # c => request'[d] = request[d]
  BY DEF Send, TypeOK, Busy
<1>2. r \in Entry /\ r.client = c /\ r.wanted /\ r.no <= cmds /\ \A e \in Sent : Before(e, r)
  BY <1>1 DEF Ordered, TypeOK
<1> HIDE DEF r
<1>3. /\ n \in Nat /\ Len(queue') = n + 1 /\ queue'[n + 1] = r
      /\ \A i \in 1 .. n : queue'[i] = queue[i]
  BY DEF Send, TypeOK, r
<1> HIDE DEF n
<1>4. \A i \in 1 .. n : queue[i] \in Sent
  BY DEF Sent, n
<1>5. Sent' = Sent \cup {r}
  <2>1. {queue'[i] : i \in 1 .. n + 1} = {queue[i] : i \in 1 .. n} \cup {r}
    BY <1>3
  <2> QED BY <1>1, <1>3, <2>1 DEF Sent, n
<1>6. \A e \in Sent : Apart(e, r)
  BY <1>1, <1>2 DEF Attended, Apart
<1>7. ASSUME NEW i \in 1 .. n + 1, NEW j \in 1 .. n + 1, i < j
      PROVE  Before(queue'[i], queue'[j]) /\ Apart(queue'[i], queue'[j])
  <2>1. i \in 1 .. n
    BY <1>3, <1>7
  <2>2. CASE j = n + 1
    BY <2>1, <2>2, <1>2, <1>3, <1>4, <1>6
  <2>3. CASE j # n + 1
    <3>1. j \in 1 .. n
      BY <2>3, <1>3
    <3> QED BY <2>1, <3>1, <1>3, <1>7 DEF Ordered, n
  <2> QED BY <2>2, <2>3
<1>8. ASSUME Busy, NEW i \in 1 .. n + 1
      PROVE  Before(cur, queue'[i]) /\ Apart(cur, queue'[i])
  <2>1. CASE i = n + 1
    BY <2>1, <1>2, <1>3, <1>6, <1>8 DEF Sent
  <2>2. CASE i # n + 1
    <3>1. i \in 1 .. n
      BY <2>2, <1>3
    <3> QED BY <3>1, <1>3, <1>8 DEF Ordered, n
  <2> QED BY <2>1, <2>2
<1>9. ASSUME NEW d \in Client, phase'[d] = "sending"
      PROVE  /\ request'[d] # Nobody /\ request'[d].client = d /\ request'[d].wanted
             /\ request'[d].no <= cmds'
             /\ \A e \in Sent' : Before(e, request'[d])
  <2>1. d # c /\ phase[d] = "sending" /\ request'[d] = request[d]
    BY <1>1, <1>9
  <2>2. request[d] # Nobody /\ request[d].client = d /\ request[d].wanted
        /\ request[d].no <= cmds /\ \A e \in Sent : Before(e, request[d])
    BY <2>1 DEF Ordered
  <2> QED BY <2>1, <2>2, <1>1, <1>2, <1>5 DEF Before
<1>10. \A e \in Sent' : e.no <= cmds'
  BY <1>1, <1>2, <1>5 DEF Ordered
<1>11. Ordered'
  BY <1>1, <1>3, <1>7, <1>8, <1>9, <1>10 DEF Ordered
<1>12. Attended'
  <2>1. ASSUME NEW e \in Sent', e.wanted PROVE phase'[e.client] = "waiting"
    <3>1. CASE e = r
      BY <3>1, <1>1, <1>2
    <3>2. CASE e \in Sent
      <4>1. e.client \in Client /\ phase[e.client] = "waiting"
        BY <2>1, <3>2, SentType DEF Attended, Entry
      <4> QED BY <4>1, <1>1
    <3> QED BY <3>1, <3>2, <1>5
  <2>2. ASSUME NEW d \in Client, phase'[d] = "waiting"
        PROVE  \E e \in Sent' : e.client = d /\ e.wanted
    <3>1. CASE d = c
      BY <3>1, <1>2, <1>5
    <3>2. CASE d # c
      BY <2>2, <3>2, <1>1, <1>5 DEF Attended
    <3> QED BY <3>1, <3>2
  <2>3. \A d \in Client : phase'[d] = "answered" <=> phase[d] = "answered"
    BY <1>1
  <2> QED BY <1>1, <2>1, <2>2, <2>3 DEF Attended
<1> QED
  BY <1>11, <1>12

\* The task takes the oldest command.
LEMMA RecvOrder ==
  ASSUME TypeOK, Ordered, Attended, Recv
  PROVE  (Ordered /\ Attended)' /\ Sent' = Sent
<1> USE DEF fileVars, taskVars, callerVars
<1> DEFINE n == Len(queue)
<1>1. /\ ~ Busy /\ Busy' /\ phase' = phase /\ request' = request /\ reply' = reply /\ cmds' = cmds
      /\ queue # <<>>
  BY DEF Recv, Busy
<1>2. n \in Nat /\ n >= 1 /\ cur' = queue[1]
  BY <1>1 DEF Recv, TypeOK
<1>3. Len(queue') = n - 1 /\ \A i \in 1 .. n - 1 : queue'[i] = queue[i + 1]
  BY <1>1, <1>2 DEF Recv, TypeOK
<1>4. Sent' = Sent
  <2>1. Sent = {queue[i] : i \in 1 .. n}
    BY <1>1 DEF Sent
  <2>2. Sent' = {queue[1]} \cup {queue'[i] : i \in 1 .. n - 1}
    BY <1>1, <1>2, <1>3 DEF Sent
  <2> HIDE DEF n
  <2>3. {queue'[i] : i \in 1 .. n - 1} = {queue[i + 1] : i \in 1 .. n - 1}
    BY <1>2, <1>3
  <2>4. ASSUME NEW i \in 1 .. n PROVE queue[i] \in {queue[1]} \cup {queue[j + 1] : j \in 1 .. n - 1}
    <3>1. CASE i = 1
      BY <3>1
    <3>2. CASE i # 1
      <4>1. i - 1 \in 1 .. n - 1 /\ i = (i - 1) + 1
        BY <3>2, <1>2
      <4> QED BY <4>1
    <3> QED BY <3>1, <3>2
  <2>5. \A i \in 1 .. n - 1 : i + 1 \in 1 .. n
    BY <1>2
  <2>6. 1 \in 1 .. n
    BY <1>2
  <2> QED BY <2>1, <2>2, <2>3, <2>4, <2>5, <2>6
<1> HIDE DEF n
<1>5. \A i \in 1 .. n - 1 : i + 1 \in 1 .. n /\ 1 < i + 1
  BY <1>2
<1>6. \A i, j \in 1 .. n - 1 : i < j => Before(queue'[i], queue'[j]) /\ Apart(queue'[i], queue'[j])
  <2>1. \A i, j \in 1 .. n - 1 : i < j => i + 1 < j + 1
    BY <1>2
  <2> QED BY <2>1, <1>3, <1>5 DEF Ordered, n
<1>7. \A i \in 1 .. n - 1 : Before(cur', queue'[i]) /\ Apart(cur', queue'[i])
  <2>1. 1 \in 1 .. n
    BY <1>2
  <2> QED BY <2>1, <1>2, <1>3, <1>5 DEF Ordered, n
<1>8. Ordered'
  BY <1>1, <1>3, <1>4, <1>6, <1>7 DEF Ordered
<1>9. Attended'
  BY <1>1, <1>4 DEF Attended
<1> QED
  BY <1>4, <1>8, <1>9

\* An answer goes to the call it belongs to, or to nobody.
LEMMA ReplyOrder ==
  ASSUME TypeOK, Ordered, Attended, Busy, NEW a \in Replies, Reply(a)
  PROVE  /\ (Ordered /\ Attended)'
         /\ Sent = Sent' \cup {cur} /\ cur \notin Sent'
<1>1. /\ ~ Busy' /\ queue' = queue /\ request' = request /\ cmds' = cmds
      /\ cur \in Entry /\ cur.client \in Client /\ cur.no \in Nat
  BY Serving DEF Reply, Busy
<1>2. Sent' = {queue[i] : i \in 1 .. Len(queue)} /\ Sent = Sent' \cup {cur}
  BY <1>1 DEF Sent
<1>3. \A e \in Sent' : Before(cur, e) /\ Apart(cur, e)
  BY <1>2 DEF Ordered
<1>4. cur \notin Sent'
  BY <1>1, <1>3 DEF Before
<1>5. CASE cur.wanted
  <2>1. /\ \A d \in Client : phase'[d] = (IF d = cur.client THEN "answered" ELSE phase[d])
        /\ \A d \in Client : reply'[d] = (IF d = cur.client THEN a ELSE reply[d])
        /\ phase[cur.client] = "waiting" /\ a # NoAnswer
    BY <1>1, <1>2, <1>5, NoAnswerAssumption DEF Reply, TypeOK, Attended
  <2>2. Ordered'
    <3>1. \A d \in Client : phase'[d] = "sending" => phase[d] = "sending"
      BY <2>1
    <3> QED BY <1>1, <1>2, <3>1 DEF Ordered
  <2>3. Attended'
    <3>1. ASSUME NEW e \in Sent', e.wanted PROVE phase'[e.client] = "waiting"
      <4>1. e.client \in Client /\ phase[e.client] = "waiting"
        BY <3>1, <1>2, SentType DEF Attended, Entry
      <4>2. e.client # cur.client
        BY <3>1, <1>3, <1>5 DEF Apart
      <4> QED BY <4>1, <4>2, <2>1
    <3>2. ASSUME NEW d \in Client, phase'[d] = "waiting"
          PROVE  \E e \in Sent' : e.client = d /\ e.wanted
      <4>1. d # cur.client /\ phase[d] = "waiting"
        BY <3>2, <2>1
      <4> QED BY <4>1, <1>2 DEF Attended
    <3>3. ASSUME NEW d \in Client PROVE reply'[d] # NoAnswer <=> phase'[d] = "answered"
      BY <2>1 DEF Attended
    <3> QED BY <3>1, <3>2, <3>3 DEF Attended
  <2> QED BY <1>2, <1>4, <2>2, <2>3
<1>6. CASE ~ cur.wanted
  <2>1. phase' = phase /\ reply' = reply
    BY <1>6 DEF Reply
  <2>2. Ordered'
    BY <1>1, <1>2, <2>1 DEF Ordered
  <2>3. Attended'
    BY <1>2, <1>6, <2>1 DEF Attended
  <2> QED BY <1>2, <1>4, <2>2, <2>3
<1> QED
  BY <1>5, <1>6

\* Picking up an answer changes no command.
LEMMA ReturnOrder ==
  ASSUME TypeOK, Ordered, Attended, NEW c \in Client, Return(c)
  PROVE  (Ordered /\ Attended)' /\ Sent' = Sent
<1> USE DEF fileVars, taskVars, callerVars
<1>1. Sent' = Sent /\ queue' = queue /\ cur' = cur /\ Busy' = Busy /\ request' = request /\ cmds' = cmds
  BY DEF Return, Sent, Busy
<1>2. /\ phase[c] = "answered"
      /\ \A d \in Client : phase'[d] = (IF d = c THEN "idle" ELSE phase[d])
      /\ \A d \in Client : reply'[d] = (IF d = c THEN NoAnswer ELSE reply[d])
  BY DEF Return, TypeOK
<1>3. \A d \in Client : phase'[d] = "sending" => phase[d] = "sending"
  BY <1>2
<1>4. Ordered'
  BY <1>1, <1>3 DEF Ordered
<1>5. ASSUME NEW e \in Sent, e.wanted PROVE phase'[e.client] = "waiting"
  <2>1. e.client \in Client /\ phase[e.client] = "waiting"
    BY <1>5, SentType DEF Attended, Entry
  <2> QED BY <2>1, <1>2
<1>6. \A d \in Client : phase'[d] = "waiting" => phase[d] = "waiting"
  BY <1>2
<1>7. \A d \in Client : reply'[d] # NoAnswer <=> phase'[d] = "answered"
  BY <1>2 DEF Attended
<1>8. Attended'
  BY <1>1, <1>5, <1>6, <1>7 DEF Attended
<1> QED
  BY <1>1, <1>4, <1>8

\* A dropped future takes back its wish for an answer and nothing else.
LEMMA CancelOrder ==
  ASSUME TypeOK, Ordered, Attended, NEW c \in Client, Cancel(c)
  PROVE  (Ordered /\ Attended)' /\ Sent' = {Unwanted(e, c) : e \in Sent}
<1> USE DEF fileVars, taskVars, callerVars
<1>1. /\ Busy' = Busy /\ cmds' = cmds /\ cur' = Unwanted(cur, c)
      /\ \A d \in Client : phase'[d] = (IF d = c THEN "idle" ELSE phase[d])
      /\ \A d \in Client : reply'[d] = (IF d = c THEN NoAnswer ELSE reply[d])
      /\ \A d \in Client : d # c => request'[d] = request[d]
  BY DEF Cancel, TypeOK, Busy
<1>2. Len(queue') = Len(queue) /\ \A i \in 1 .. Len(queue) : queue'[i] = Unwanted(queue[i], c)
  <2>1. queue' = [i \in 1 .. Len(queue) |-> Unwanted(queue[i], c)]
    BY DEF Cancel, TypeOK
  <2> QED BY <2>1 DEF TypeOK
<1>3. Sent' = {Unwanted(e, c) : e \in Sent}
  <2>1. {queue'[i] : i \in 1 .. Len(queue)} = {Unwanted(queue[i], c) : i \in 1 .. Len(queue)}
    BY <1>2
  <2> QED BY <1>1, <1>2, <2>1 DEF Sent
<1>4. \A e \in Sent : /\ Unwanted(e, c).client = e.client /\ Unwanted(e, c).no = e.no
                      /\ Unwanted(e, c).wanted <=> e.wanted /\ e.client # c
  BY SentType, UnwantedType
<1>5. \A i \in 1 .. Len(queue) : queue[i] \in Sent
  BY DEF Sent
<1>6. Busy => cur \in Sent
  BY DEF Sent
<1>7. \A i, j \in 1 .. Len(queue) :
        i < j => Before(queue'[i], queue'[j]) /\ Apart(queue'[i], queue'[j])
  BY <1>2, <1>4, <1>5 DEF Ordered, Before, Apart
<1>8. Busy => \A i \in 1 .. Len(queue) : Before(cur', queue'[i]) /\ Apart(cur', queue'[i])
  BY <1>1, <1>2, <1>4, <1>5, <1>6 DEF Ordered, Before, Apart
<1>9. ASSUME NEW d \in Client, phase'[d] = "sending"
      PROVE  /\ request'[d] # Nobody /\ request'[d].client = d /\ request'[d].wanted
             /\ request'[d].no <= cmds'
             /\ \A e \in Sent' : Before(e, request'[d])
  <2>1. d # c /\ phase[d] = "sending" /\ request'[d] = request[d]
    BY <1>1, <1>9
  <2>2. request[d] # Nobody /\ request[d].client = d /\ request[d].wanted
        /\ request[d].no <= cmds /\ \A e \in Sent : Before(e, request[d])
    BY <2>1 DEF Ordered
  <2>3. \A e \in Sent' : Before(e, request[d])
    BY <2>2, <1>3, <1>4 DEF Before
  <2> QED BY <2>1, <2>2, <2>3, <1>1
<1>10. \A e \in Sent' : e.no <= cmds'
  BY <1>1, <1>3, <1>4 DEF Ordered
<1>11. Ordered'
  BY <1>1, <1>2, <1>7, <1>8, <1>9, <1>10 DEF Ordered
<1>12. ASSUME NEW e \in Sent', e.wanted PROVE phase'[e.client] = "waiting"
  <2>1. PICK f \in Sent : e = Unwanted(f, c)
    BY <1>3
  <2>2. f.wanted /\ f.client # c /\ e.client = f.client /\ f.client \in Client
    BY <2>1, <1>4, <1>12, SentType DEF Entry
  <2> QED BY <2>2, <1>1 DEF Attended
<1>13. ASSUME NEW d \in Client, phase'[d] = "waiting"
       PROVE  \E e \in Sent' : e.client = d /\ e.wanted
  <2>1. d # c /\ phase[d] = "waiting"
    BY <1>1, <1>13
  <2>2. PICK f \in Sent : f.client = d /\ f.wanted
    BY <2>1 DEF Attended
  <2>3. Unwanted(f, c) \in Sent' /\ Unwanted(f, c).client = d /\ Unwanted(f, c).wanted
    BY <2>1, <2>2, <1>3, <1>4
  <2> QED BY <2>3
<1>14. \A d \in Client : reply'[d] # NoAnswer <=> phase'[d] = "answered"
  BY <1>1 DEF Attended
<1>15. Attended'
  BY <1>12, <1>13, <1>14 DEF Attended
<1> QED
  BY <1>3, <1>11, <1>15

-----------------------------------------------------------------------------
(***************************************************************************)
(* The invariant.                                                          *)
(***************************************************************************)

\* What the task answers is an answer.
LEMMA AnswersTyped ==
  ASSUME TypeOK
  PROVE  /\ Err \in Replies
         /\ [op |-> "append", at |-> start] \in Replies
         /\ [op |-> "write_at"] \in Replies
         /\ [op |-> "set_len"] \in Replies
         /\ [op |-> "sync_all"] \in Replies
         /\ [op |-> "read_all", content |-> SubSeq(file, start + 1, Len(file))] \in Replies
<1>1. SubSeq(file, start + 1, Len(file)) \in Seq(Byte)
  BY DEF TypeOK
<1> QED
  BY <1>1 DEF Replies, TypeOK

\* The steps that answer, seen together.
Answering == FinishWrite \/ FinishReadAll \/ FinishSetLen \/ FinishSyncAll \/ CommandError

\* Each of them gives one answer.
LEMMA AnsweringReplies ==
  ASSUME TypeOK, Answering
  PROVE  Busy /\ \E a \in Replies : Reply(a)
<1>1. CASE FinishWrite
  BY <1>1, AnswersTyped DEF FinishWrite, Busy
<1>2. CASE FinishReadAll
  BY <1>2, AnswersTyped DEF FinishReadAll, Busy
<1>3. CASE FinishSetLen
  BY <1>3, AnswersTyped DEF FinishSetLen, Busy
<1>4. CASE FinishSyncAll
  BY <1>4, AnswersTyped DEF FinishSyncAll, Busy
<1>5. CASE CommandError
  BY <1>5, AnswersTyped DEF CommandError, Busy
<1> QED
  BY <1>1, <1>2, <1>3, <1>4, <1>5 DEF Answering

\* Any step leaves the task where the file says it is.
LEMMA ServedStep ==
  ASSUME TypeOK, Served, [Next]_vars
  PROVE  Served'
<1> USE DEF fileVars, taskVars, callerVars
<1>1. CASE UNCHANGED vars
  BY <1>1 DEF vars, Served, Busy
<1>2. CASE Recv
  BY <1>2 DEF Recv, Served, Busy
<1>3. CASE Seek
  <2>1. /\ task = "seek" /\ task' = "work" /\ cur' = cur /\ done' = done /\ file' = file /\ base' = base
        /\ file = base /\ done = 0
        /\ start' = IF IsWrite(cur.cmd) THEN WriteStart(cur.cmd, file) ELSE 0
    BY <1>3 DEF Seek, Served
  <2> QED BY <2>1 DEF Served, Busy, Written
<1>4. CASE WritePiece
  <2>1. /\ task = "work" /\ IsWrite(cur.cmd) /\ done < Len(cur.cmd.data) /\ done \in Nat
        /\ task' = "work" /\ cur' = cur /\ base' = base /\ start' = start /\ done' = done + 1
        /\ start = WriteStart(cur.cmd, base) /\ file = Written(cur.cmd, base, done)
    BY <1>4 DEF WritePiece, Served, TypeOK
  <2>2. cur.cmd \in Command /\ cur.cmd.data \in Seq(Byte) /\ base \in Seq(Byte)
    BY <2>1, Serving, CommandTypes DEF Busy, TypeOK
  <2>3. file' = Written(cur.cmd, base, done + 1)
    BY <1>4, <2>1, <2>2, WrittenStep DEF WritePiece
  <2>4. done + 1 <= Len(cur.cmd.data)
    BY <2>1, <2>2
  <2> QED BY <2>1, <2>3, <2>4 DEF Served, Busy
<1>5. CASE Answering
  <2>1. task' = "recv" /\ done' = 0
    BY <1>5, AnsweringReplies DEF Reply
  <2> QED BY <2>1 DEF Served, Busy
<1>6. CASE Stop \/ DropHandle \/ Over
  BY <1>6 DEF Stop, DropHandle, Over, vars, Served, Busy
<1>7. ASSUME NEW c \in Client, (\E cmd \in Command : Call(c, cmd)) \/ Send(c) \/ Return(c) PROVE Served'
  BY <1>7 DEF Call, Send, Return, Served, Busy
<1>8. ASSUME NEW c \in Client, Cancel(c) PROVE Served'
  <2>1. task' = task /\ start' = start /\ done' = done /\ base' = base /\ file' = file
        /\ cur' = Unwanted(cur, c)
    BY <1>8 DEF Cancel
  <2>2. Busy => cur'.cmd = cur.cmd
    BY <2>1, Serving, UnwantedType
  <2> QED BY <2>1, <2>2 DEF Served, Busy
<1> QED
  BY <1>1, <1>2, <1>3, <1>4, <1>5, <1>6, <1>7, <1>8 DEF Next, TaskStep, CallerStep, Answering

\* Commands keep their order and callers their answers in every step.
LEMMA OrderStep ==
  ASSUME TypeOK, Ordered, Attended, [Next]_vars
  PROVE  (Ordered /\ Attended)'
<1> USE DEF fileVars, taskVars, callerVars
<1>1. CASE UNCHANGED vars
  BY <1>1, QuietOrder DEF vars, Busy
<1>2. CASE Seek \/ WritePiece \/ Stop \/ DropHandle \/ Over
  <2>1. UNCHANGED <<queue, cur, phase, request, reply, cmds>> /\ Busy' = Busy
    BY <1>2 DEF Seek, WritePiece, Stop, DropHandle, Over, vars, Busy
  <2> QED BY <2>1, QuietOrder
<1>3. CASE Answering
  <2>1. PICK a \in Replies : Busy /\ Reply(a)
    BY <1>3, AnsweringReplies
  <2> QED BY <2>1, ReplyOrder
<1> QED
  BY <1>1, <1>2, <1>3, RecvOrder, CallOrder, SendOrder, ReturnOrder, CancelOrder
     DEF Next, TaskStep, CallerStep, Answering

\* An empty channel and idle callers.
LEMMA FileInit == Init => FileInv
<1> SUFFICES ASSUME Init PROVE FileInv
  OBVIOUS
<1>1. ~ Busy /\ Sent = {} /\ Len(queue) = 0
  BY DEF Init, Sent, Busy
<1> QED
  BY <1>1 DEF Init, FileInv, Ordered, Attended, Served

\* Types and positions: the file, the channel, the answers and every caller's
\* place stay what they are declared to be, and Busy says exactly when the
\* task holds a command (FileHandler::spawn).
THEOREM FileTypeCorrect == Spec => []TypeOK
<1>1. Init => TypeOK /\ FileInv
  BY TypeInit, FileInit
<1>2. (TypeOK /\ FileInv) /\ [Next]_vars => (TypeOK /\ FileInv)'
  BY TypeStep, ServedStep, OrderStep DEF FileInv
<1> QED
  BY <1>1, <1>2, PTL DEF Spec

\* The commands of a caller are served in the order of its calls, a caller
\* waits exactly while a command of its own that was sent is to be answered,
\* and between two pieces of a write the file is what the pieces so far make
\* of the file the task found.
THEOREM FileCorrect == Spec => []FileInv
<1>1. Init => TypeOK /\ FileInv
  BY TypeInit, FileInit
<1>2. (TypeOK /\ FileInv) /\ [Next]_vars => (TypeOK /\ FileInv)'
  BY TypeStep, ServedStep, OrderStep DEF FileInv
<1> QED
  BY <1>1, <1>2, PTL DEF Spec

-----------------------------------------------------------------------------
(***************************************************************************)
(* The handler implements the atomic file.                                 *)
(***************************************************************************)

\* Both specifications mean the same by a command.
LEMMA SameCommands ==
  ASSUME NEW cmd, NEW f
  PROVE  /\ Atomic!Effect(cmd, f) = Effect(cmd, f)
         /\ Atomic!Answer(cmd, f) = Answer(cmd, f)
         /\ Atomic!PartialEffects(cmd, f) = PartialEffects(cmd, f)
BY DEF Effect, Answer, PartialEffects, Written, Overwrite, Resize, WriteStart, IsWrite,
       Atomic!Effect, Atomic!Answer, Atomic!PartialEffects, Atomic!Written, Atomic!Overwrite,
       Atomic!Resize, Atomic!WriteStart, Atomic!IsWrite

\* The requests that wait for a place in the channel.
Asking == {request[c] : c \in {d \in Client : phase[d] = "sending"}}

\* What has not taken effect was sent or waits for a place.
LEMMA UnservedParts ==
  Unserved = Sent \cup Asking /\ Unserved' = Sent' \cup Asking'
BY DEF Unserved, Sent, Asking

\* A step that callers cannot tell from none.
LEMMA Unnoticed ==
  ASSUME Unserved' = Unserved, UNCHANGED <<synced, reply, cmds>>,
         (IF Busy THEN base ELSE file)' = (IF Busy THEN base ELSE file)
  PROVE  UNCHANGED Atomic!vars
BY DEF Atomic!vars

\* The answer the task gives is that of the command on the file it found.
LEMMA AnswerIsTrue ==
  ASSUME TypeOK, Served, task = "work"
  PROVE  /\ IsWrite(cur.cmd) =>
              (IF cur.cmd.op = "append" THEN [op |-> "append", at |-> start] ELSE [op |-> "write_at"])
                = Answer(cur.cmd, base)
         /\ cur.cmd.op = "read_all" =>
              [op |-> "read_all", content |-> SubSeq(file, start + 1, Len(file))]
                = Answer(cur.cmd, base)
         /\ cur.cmd.op = "set_len" => [op |-> "set_len"] = Answer(cur.cmd, base)
         /\ cur.cmd.op = "sync_all" => [op |-> "sync_all"] = Answer(cur.cmd, base)
<1>1. IsWrite(cur.cmd) =>
        (IF cur.cmd.op = "append" THEN [op |-> "append", at |-> start] ELSE [op |-> "write_at"])
          = Answer(cur.cmd, base)
  BY DEF Served, Answer, IsWrite, WriteStart
<1>2. ASSUME cur.cmd.op = "read_all"
      PROVE  [op |-> "read_all", content |-> SubSeq(file, start + 1, Len(file))]
                = Answer(cur.cmd, base)
  <2>1. start = 0 /\ file = base /\ base \in Seq(Byte)
    BY <1>2 DEF Served, IsWrite, TypeOK
  <2>2. SubSeq(base, 1, Len(base)) = base
    BY <2>1
  <2> QED BY <1>2, <2>1, <2>2 DEF Answer
<1> QED
  BY <1>1, <1>2 DEF Answer

\* The served command comes before the others of its caller, and answering it
\* takes it, and only it, out of those that have not taken effect.
LEMMA ServedInTurn ==
  ASSUME TypeOK, FileInv, Busy, NEW a \in Replies, Reply(a)
  PROVE  /\ cur \in Unserved /\ Atomic!InTurn(cur)
         /\ Unserved' = Unserved \ {cur}
         /\ Atomic!Tell(cur, a)
<1>1. Sent = Sent' \cup {cur} /\ cur \notin Sent'
  BY ReplyOrder DEF FileInv
<1>2. /\ cur \in Entry /\ cur.client \in Client /\ cur.no \in Nat
      /\ cur.wanted => phase[cur.client] = "waiting"
  BY Serving, <1>1 DEF FileInv, Attended
<1>3. \A c \in Client : phase'[c] = "sending" <=> phase[c] = "sending"
  BY <1>2 DEF Reply, TypeOK
<1>4. Asking' = Asking
  <2>1. request' = request
    BY DEF Reply
  <2> QED BY <1>3, <2>1 DEF Asking
<1>5. \A e \in Asking : Before(cur, e)
  BY <1>1 DEF FileInv, Ordered, Asking
<1>6. cur \notin Asking
  BY <1>2, <1>5 DEF Before
<1>7. Unserved' = Unserved \ {cur} /\ cur \in Unserved
  BY <1>1, <1>4, <1>6, UnservedParts
<1>8. ASSUME NEW e \in Unserved, e.client = cur.client PROVE cur.no <= e.no
  <2>1. CASE e = cur
    BY <2>1, <1>2
  <2>2. CASE e # cur
    <3>1. Before(cur, e)
      <4>1. CASE e \in Asking
        BY <4>1, <1>5
      <4>2. CASE e \in Sent
        BY <4>2, <2>2 DEF FileInv, Ordered, Sent
      <4> QED BY <4>1, <4>2, UnservedParts
    <3>2. e.no \in Nat
      <4>1. CASE e \in Sent
        BY <4>1, SentType DEF Entry
      <4>2. CASE e \in Asking
        BY <4>2 DEF Asking, FileInv, Ordered, TypeOK, Entry
      <4> QED BY <4>1, <4>2, UnservedParts
    <3> QED BY <3>1, <3>2, <1>2, <1>8 DEF Before
  <2> QED BY <2>1, <2>2
<1>9. Atomic!InTurn(cur)
  BY <1>8 DEF Atomic!InTurn
<1>10. Atomic!Tell(cur, a)
  BY DEF Reply, Atomic!Tell
<1> QED
  BY <1>7, <1>9, <1>10

\* A command that ends well takes effect, all of it, when it is answered.
LEMMA PerformStep ==
  ASSUME TypeOK, FileInv, FinishWrite \/ FinishReadAll \/ FinishSetLen \/ FinishSyncAll
  PROVE  Atomic!Perform(cur) /\ cur \in Unserved
<1> USE DEF fileVars
<1>1. /\ task = "work" /\ Busy /\ ~ Busy' /\ cmds' = cmds
      /\ Reply(Answer(cur.cmd, base)) /\ Answer(cur.cmd, base) \in Replies
  <2>1. task = "work" /\ Busy
    BY DEF FinishWrite, FinishReadAll, FinishSetLen, FinishSyncAll, Busy
  <2>2. Reply(Answer(cur.cmd, base)) /\ Answer(cur.cmd, base) \in Replies
    <3>1. CASE FinishWrite
      BY <2>1, <3>1, AnswerIsTrue, AnswersTyped DEF FinishWrite, FileInv
    <3>2. CASE FinishReadAll
      BY <2>1, <3>2, AnswerIsTrue, AnswersTyped DEF FinishReadAll, FileInv
    <3>3. CASE FinishSetLen
      BY <2>1, <3>3, AnswerIsTrue, AnswersTyped DEF FinishSetLen, FileInv
    <3>4. CASE FinishSyncAll
      BY <2>1, <3>4, AnswerIsTrue, AnswersTyped DEF FinishSyncAll, FileInv
    <3> QED BY <3>1, <3>2, <3>3, <3>4
  <2> QED BY <2>1, <2>2 DEF Reply, Busy
<1>2. /\ cur \in Unserved /\ Atomic!InTurn(cur)
      /\ Unserved' = Unserved \ {cur}
      /\ Atomic!Tell(cur, Answer(cur.cmd, base))
  BY <1>1, ServedInTurn
<1>3. file' = Effect(cur.cmd, base)
  <2>1. CASE FinishWrite
    BY <1>1, <2>1 DEF FinishWrite, FileInv, Served, Effect
  <2>2. CASE FinishReadAll
    BY <1>1, <2>2 DEF FinishReadAll, FileInv, Served, Effect, IsWrite
  <2>3. CASE FinishSetLen
    BY <1>1, <2>3 DEF FinishSetLen, FileInv, Served, Effect, IsWrite
  <2>4. CASE FinishSyncAll
    BY <1>1, <2>4 DEF FinishSyncAll, FileInv, Served, Effect, IsWrite
  <2> QED BY <2>1, <2>2, <2>3, <2>4
<1>4. synced' = IF cur.cmd.op = "sync_all" THEN base ELSE synced
  BY <1>1 DEF FinishWrite, FinishReadAll, FinishSetLen, FinishSyncAll, FileInv, Served, IsWrite
<1> QED
  BY <1>1, <1>2, <1>3, <1>4, SameCommands DEF Atomic!Perform

\* A command that fails may leave part of its data behind.
LEMMA FailStep ==
  ASSUME TypeOK, FileInv, CommandError
  PROVE  Atomic!Fail(cur) /\ cur \in Unserved
<1> USE DEF fileVars
<1>1. Busy /\ ~ Busy' /\ cmds' = cmds /\ Reply(Err) /\ Err \in Replies
      /\ file' = file /\ synced' = synced
  BY AnswersTyped DEF CommandError, Reply, Busy
<1>2. /\ cur \in Unserved /\ Atomic!InTurn(cur)
      /\ Unserved' = Unserved \ {cur}
      /\ Atomic!Tell(cur, Err)
  BY <1>1, ServedInTurn
<1>3. file \in PartialEffects(cur.cmd, base)
  <2>1. cur.cmd \in Command /\ base \in Seq(Byte) /\ done \in Nat
    BY <1>1, Serving DEF TypeOK
  <2>2. CASE IsWrite(cur.cmd)
    <3>1. file = Written(cur.cmd, base, done) /\ done <= Len(cur.cmd.data)
      BY <1>1, <2>1, <2>2, CommandTypes DEF FileInv, Served, Busy, Written
    <3>2. done \in 0 .. Len(cur.cmd.data)
      BY <2>1, <2>2, <3>1, CommandTypes
    <3> QED BY <2>2, <3>1, <3>2 DEF PartialEffects
  <2>3. CASE ~ IsWrite(cur.cmd)
    BY <1>1, <2>3 DEF FileInv, Served, Busy, PartialEffects
  <2> QED BY <2>2, <2>3
<1> QED
  BY <1>1, <1>2, <1>3, SameCommands DEF Atomic!Fail

\* A call issues its command.
LEMMA InvokeStep ==
  ASSUME TypeOK, FileInv, NEW c \in Client, NEW cmd \in Command, Call(c, cmd)
  PROVE  Atomic!Invoke(c, cmd)
<1> USE DEF fileVars, taskVars, callerVars
<1> DEFINE r == [client |-> c, no |-> cmds + 1, cmd |-> cmd, wanted |-> TRUE]
<1>1. /\ Sent' = Sent /\ Busy' = Busy /\ base' = base /\ file' = file /\ synced' = synced
      /\ reply' = reply /\ cmds' = cmds + 1 /\ phase[c] = "idle"
  BY DEF Call, Sent, Busy
<1>2. /\ \A d \in Client : phase'[d] = (IF d = c THEN "sending" ELSE phase[d])
      /\ \A d \in Client : request'[d] = (IF d = c THEN r ELSE request[d])
  BY DEF Call, TypeOK
<1> HIDE DEF r
<1>3. Asking' = Asking \cup {r}
  <2>1. ASSUME NEW e \in Asking' PROVE e \in Asking \cup {r}
    <3>1. PICK d \in Client : phase'[d] = "sending" /\ e = request'[d]
      BY DEF Asking
    <3>2. CASE d = c
      BY <3>1, <3>2, <1>2
    <3>3. CASE d # c
      BY <3>1, <3>3, <1>2 DEF Asking
    <3> QED BY <3>2, <3>3
  <2>2. ASSUME NEW e \in Asking PROVE e \in Asking'
    <3>1. PICK d \in Client : phase[d] = "sending" /\ e = request[d]
      BY DEF Asking
    <3>2. d # c
      BY <3>1, <1>1
    <3>3. phase'[d] = "sending" /\ e = request'[d]
      BY <3>1, <3>2, <1>2
    <3> QED BY <3>3 DEF Asking
  <2>3. r \in Asking'
    BY <1>2 DEF Asking
  <2> QED BY <2>1, <2>2, <2>3
<1>4. Unserved' = Unserved \cup {r}
  BY <1>1, <1>3, UnservedParts
<1>5. ~ Atomic!Waiting(c)
  <2> SUFFICES ASSUME NEW e \in Unserved, e.client = c, e.wanted PROVE FALSE
    BY DEF Atomic!Waiting
  <2>1. CASE e \in Sent
    BY <2>1, <1>1 DEF FileInv, Attended
  <2>2. CASE e \in Asking
    BY <2>2, <1>1 DEF Asking, FileInv, Ordered
  <2> QED BY <2>1, <2>2, UnservedParts
<1>6. reply[c] = NoAnswer
  BY <1>1 DEF FileInv, Attended
<1> QED
  BY <1>1, <1>4, <1>5, <1>6 DEF Atomic!Invoke, r

\* A request that was sent is still one that has not taken effect.
LEMMA SendUnserved ==
  ASSUME TypeOK, FileInv, NEW c \in Client, Send(c)
  PROVE  Unserved' = Unserved
<1> USE DEF fileVars, taskVars, callerVars
<1> DEFINE r == request[c]
           n == Len(queue)
<1>1. /\ cur' = cur /\ Busy' = Busy /\ phase[c] = "sending"
      /\ \A d \in Client : phase'[d] = (IF d = c THEN "waiting" ELSE phase[d])
      /\ \A d \in Client : d # c => request'[d] = request[d]
  BY DEF Send, TypeOK, Busy
<1>2. r \in Entry
  BY <1>1 DEF FileInv, Ordered, TypeOK
<1> HIDE DEF r
<1>3. /\ n \in Nat /\ Len(queue') = n + 1 /\ queue'[n + 1] = r
      /\ \A i \in 1 .. n : queue'[i] = queue[i]
  BY <1>2 DEF Send, TypeOK, r
<1> HIDE DEF n
<1>4. Sent' = Sent \cup {r}
  <2>1. {queue'[i] : i \in 1 .. n + 1} = {queue[i] : i \in 1 .. n} \cup {r}
    BY <1>3
  <2> QED BY <1>1, <1>3, <2>1 DEF Sent, n
<1>5. Asking \subseteq Asking' \cup {r} /\ Asking' \subseteq Asking /\ r \in Asking
  <2>1. ASSUME NEW e \in Asking' PROVE e \in Asking
    <3>1. PICK d \in Client : phase'[d] = "sending" /\ e = request'[d]
      BY DEF Asking
    <3>2. d # c /\ phase[d] = "sending" /\ request'[d] = request[d]
      BY <3>1, <1>1
    <3> QED BY <3>1, <3>2 DEF Asking
  <2>2. ASSUME NEW e \in Asking PROVE e \in Asking' \cup {r}
    <3>1. PICK d \in Client : phase[d] = "sending" /\ e = request[d]
      BY DEF Asking
    <3>2. CASE d = c
      BY <3>1, <3>2 DEF r
    <3>3. CASE d # c
      <4>1. phase'[d] = "sending" /\ e = request'[d]
        BY <3>1, <3>3, <1>1
      <4> QED BY <4>1 DEF Asking
    <3> QED BY <3>2, <3>3
  <2>3. r \in Asking
    BY <1>1 DEF Asking, r
  <2> QED BY <2>1, <2>2, <2>3
<1> QED
  BY <1>4, <1>5, UnservedParts

\* Picking up an answer.
LEMMA PickUpStep ==
  ASSUME TypeOK, FileInv, NEW c \in Client, Return(c)
  PROVE  Atomic!PickUp(c)
<1> USE DEF fileVars, taskVars, callerVars
<1>1. /\ Sent' = Sent /\ Busy' = Busy /\ base' = base /\ file' = file /\ synced' = synced
      /\ cmds' = cmds /\ request' = request
      /\ phase[c] = "answered" /\ reply' = [reply EXCEPT ![c] = NoAnswer]
      /\ \A d \in Client : phase'[d] = (IF d = c THEN "idle" ELSE phase[d])
  BY DEF Return, Sent, Busy, TypeOK
<1>2. Asking' = Asking
  <2>1. \A d \in Client : phase'[d] = "sending" <=> phase[d] = "sending"
    BY <1>1
  <2> QED BY <1>1, <2>1 DEF Asking
<1>3. Unserved' = Unserved
  BY <1>1, <1>2, UnservedParts
<1>4. reply[c] # NoAnswer
  BY <1>1 DEF FileInv, Attended
<1> QED
  BY <1>1, <1>3, <1>4 DEF Atomic!PickUp

\* Giving up changes no entry that is not wanted.
LEMMA UnwantedSame ==
  ASSUME NEW e \in Entry, NEW c, ~ (e.wanted /\ e.client = c)
  PROVE  Unwanted(e, c) = e
<1>1. CASE e.client = c
  <2>1. e.wanted = FALSE
    BY <1>1 DEF Entry
  <2> QED BY <1>1, <2>1 DEF Unwanted, Entry
<1>2. CASE e.client # c
  BY <1>2 DEF Unwanted
<1> QED
  BY <1>1, <1>2

\* A future is dropped: while it waits for a place, its command is never
\* executed; while it waits for the answer, the answer is dropped; once there
\* is an answer, it goes with it.
LEMMA GiveUpStep ==
  ASSUME TypeOK, FileInv, NEW c \in Client, Cancel(c)
  PROVE  (\E e \in Unserved : Atomic!GiveUp(e)) \/ Atomic!PickUp(c)
<1> USE DEF fileVars, taskVars, callerVars
<1>1. /\ Busy' = Busy /\ cmds' = cmds /\ base' = base /\ file' = file /\ synced' = synced
      /\ reply' = [reply EXCEPT ![c] = NoAnswer]
      /\ \A d \in Client : phase'[d] = (IF d = c THEN "idle" ELSE phase[d])
      /\ \A d \in Client : d # c => request'[d] = request[d]
      /\ phase[c] # "idle"
  BY DEF Cancel, TypeOK, Busy
<1>2. Sent' = {Unwanted(e, c) : e \in Sent}
  BY CancelOrder DEF FileInv
<1>3. \A e \in Sent : /\ e \in Entry
                      /\ ~ (e.wanted /\ e.client = c) => Unwanted(e, c) = e
                      /\ e.wanted /\ e.client = c => Unwanted(e, c) = [e EXCEPT !.wanted = FALSE]
  BY SentType, UnwantedSame DEF Unwanted
<1>4. \A e \in Asking : \E d \in Client : phase[d] = "sending" /\ e = request[d] /\ e.client = d
  BY DEF Asking, FileInv, Ordered
<1>5. phase[c] # "sending" => Asking' = Asking
  <2> SUFFICES ASSUME phase[c] # "sending" PROVE Asking' = Asking
    OBVIOUS
  <2>1. \A d \in Client : phase'[d] = "sending" <=> phase[d] = "sending"
    BY <1>1
  <2>2. \A d \in Client : phase[d] = "sending" => request'[d] = request[d]
    BY <1>1
  <2> QED BY <2>1, <2>2 DEF Asking
<1>6. phase[c] # "answered" => reply' = reply
  BY <1>1 DEF FileInv, Attended, TypeOK
<1>7. CASE phase[c] = "sending"
  <2>1. \A e \in Sent : ~ (e.wanted /\ e.client = c)
    BY <1>7 DEF FileInv, Attended
  <2>2. Sent' = Sent
    BY <2>1, <1>2, <1>3
  <2>3. request[c] \in Asking /\ request[c].wanted /\ request[c].no \in Nat
        /\ \A e \in Sent : Before(e, request[c])
    BY <1>7 DEF Asking, FileInv, Ordered, TypeOK, Entry
  <2>4. request[c] \notin Sent
    BY <2>3 DEF Before
  <2>5. Asking' = Asking \ {request[c]}
    <3>1. ASSUME NEW e \in Asking' PROVE e \in Asking \ {request[c]}
      <4>1. PICK d \in Client : phase'[d] = "sending" /\ e = request'[d]
        BY DEF Asking
      <4>2. d # c /\ phase[d] = "sending" /\ e = request[d]
        BY <4>1, <1>1
      <4>3. e.client = d /\ request[c].client = c
        BY <4>2, <1>7 DEF FileInv, Ordered
      <4> QED BY <4>2, <4>3 DEF Asking
    <3>2. ASSUME NEW e \in Asking, e # request[c] PROVE e \in Asking'
      <4>1. PICK d \in Client : phase[d] = "sending" /\ e = request[d]
        BY DEF Asking
      <4>2. phase'[d] = "sending" /\ e = request'[d]
        BY <4>1, <3>2, <1>1
      <4> QED BY <4>2 DEF Asking
    <3> QED BY <3>1, <3>2
  <2>6. Unserved' = Unserved \ {request[c]} /\ request[c] \in Unserved
    BY <2>2, <2>3, <2>4, <2>5, UnservedParts
  <2>7. Atomic!GiveUp(request[c])
    BY <1>1, <1>6, <1>7, <2>3, <2>6 DEF Atomic!GiveUp
  <2> QED BY <2>6, <2>7
<1>8. CASE phase[c] = "waiting"
  <2>1. PICK e \in Sent : e.client = c /\ e.wanted
    BY <1>8 DEF FileInv, Attended
  <2>2. \A f \in Sent : f # e => ~ (f.wanted /\ f.client = c)
    BY <2>1, SentApart DEF FileInv, Apart
  <2> DEFINE u == [e EXCEPT !.wanted = FALSE]
  <2>3. Unwanted(e, c) = u
    BY <1>3, <2>1
  <2>4. \A f \in Sent : f # e => Unwanted(f, c) = f
    BY <1>3, <2>2
  <2> HIDE DEF u
  <2>5. Sent' = (Sent \ {e}) \cup {u}
    <3>1. ASSUME NEW f \in Sent' PROVE f \in (Sent \ {e}) \cup {u}
      BY <1>2, <2>3, <2>4
    <3>2. ASSUME NEW f \in (Sent \ {e}) \cup {u} PROVE f \in Sent'
      BY <1>2, <2>1, <2>3, <2>4
    <3> QED BY <3>1, <3>2
  <2>6. e \notin Asking
    BY <1>4, <1>8, <2>1
  <2>7. Unserved' = (Unserved \ {e}) \cup {u} /\ e \in Unserved
    BY <1>5, <1>8, <2>1, <2>5, <2>6, UnservedParts
  <2>8. Atomic!GiveUp(e)
    BY <1>1, <1>6, <1>8, <2>1, <2>7 DEF Atomic!GiveUp, u
  <2> QED BY <2>7, <2>8
<1>9. CASE phase[c] = "answered"
  <2>1. \A e \in Sent : ~ (e.wanted /\ e.client = c)
    BY <1>9 DEF FileInv, Attended
  <2>2. Sent' = Sent
    BY <2>1, <1>2, <1>3
  <2>3. Unserved' = Unserved
    BY <2>2, <1>5, <1>9, UnservedParts
  <2>4. reply[c] # NoAnswer
    BY <1>9 DEF FileInv, Attended
  <2> QED BY <1>1, <2>3, <2>4 DEF Atomic!PickUp
<1> QED
  BY <1>1, <1>7, <1>8, <1>9 DEF TypeOK

\* Each step of the task or of a caller is a step of the atomic file or none.
LEMMA AtomicStep ==
  ASSUME TypeOK, FileInv, [Next]_vars
  PROVE  [Atomic!Next]_(Atomic!vars)
<1> USE DEF fileVars, taskVars, callerVars
<1>1. CASE UNCHANGED vars \/ Seek \/ WritePiece \/ Stop \/ DropHandle \/ Over
  <2>1. UNCHANGED <<queue, cur, phase, request, reply, cmds, synced>> /\ Busy' = Busy
    BY <1>1 DEF Seek, WritePiece, Stop, DropHandle, Over, vars, Busy
  <2>2. Unserved' = Unserved
    BY <2>1 DEF Unserved
  <2>3. (IF Busy THEN base ELSE file)' = (IF Busy THEN base ELSE file)
    BY <1>1, <2>1 DEF Seek, WritePiece, Stop, DropHandle, Over, vars, Busy
  <2> QED BY <2>1, <2>2, <2>3, Unnoticed
<1>2. CASE Recv
  <2>1. Sent' = Sent
    BY <1>2, RecvOrder DEF FileInv
  <2>2. Asking' = Asking
    BY <1>2 DEF Recv, Asking
  <2>3. (IF Busy THEN base ELSE file)' = (IF Busy THEN base ELSE file)
    BY <1>2 DEF Recv, Busy
  <2>4. UNCHANGED <<synced, reply, cmds>>
    BY <1>2 DEF Recv
  <2> QED BY <2>1, <2>2, <2>3, <2>4, UnservedParts, Unnoticed
<1>3. CASE FinishWrite \/ FinishReadAll \/ FinishSetLen \/ FinishSyncAll
  BY <1>3, PerformStep DEF Atomic!Next
<1>4. CASE CommandError
  BY <1>4, FailStep DEF Atomic!Next
<1>5. ASSUME NEW c \in Client, NEW cmd \in Command, Call(c, cmd) PROVE Atomic!Next
  BY <1>5, InvokeStep DEF Atomic!Next
<1>6. ASSUME NEW c \in Client, Send(c) PROVE UNCHANGED Atomic!vars
  <2>1. Unserved' = Unserved
    BY <1>6, SendUnserved
  <2>2. UNCHANGED <<synced, reply, cmds>>
    BY <1>6 DEF Send
  <2>3. (IF Busy THEN base ELSE file)' = (IF Busy THEN base ELSE file)
    BY <1>6 DEF Send, Busy
  <2> QED BY <2>1, <2>2, <2>3, Unnoticed
<1>7. ASSUME NEW c \in Client, Return(c) PROVE Atomic!Next
  BY <1>7, PickUpStep DEF Atomic!Next
<1>8. ASSUME NEW c \in Client, Cancel(c) PROVE Atomic!Next
  BY <1>8, GiveUpStep DEF Atomic!Next
<1> QED
  BY <1>1, <1>2, <1>3, <1>4, <1>5, <1>6, <1>7, <1>8 DEF Next, TaskStep, CallerStep

\* The first states correspond.
LEMMA AtomicInit == Init => Atomic!Init
<1> SUFFICES ASSUME Init PROVE Atomic!Init
  OBVIOUS
<1>1. ~ Busy /\ Unserved = {}
  BY DEF Init, Busy, Unserved
<1> QED
  BY <1>1 DEF Init, Atomic!Init

\* Whatever its callers do, and whichever commands fail, the handler is an
\* atomic file: FileHandler::spawn serves one command at a time, and its
\* channel keeps the commands of a caller in order.
THEOREM AtomicCorrect == Spec => ImplementsAtomicFile
<1>1. Init => Atomic!Init
  BY AtomicInit
<1>2. TypeOK /\ FileInv /\ [Next]_vars => [Atomic!Next]_(Atomic!vars)
  BY AtomicStep
<1> QED
  BY <1>1, <1>2, FileTypeCorrect, FileCorrect, PTL DEF Spec, ImplementsAtomicFile, Atomic!Spec

=============================================================================
