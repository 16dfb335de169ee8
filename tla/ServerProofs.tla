---------------------------- MODULE ServerProofs ----------------------------
(***************************************************************************)
(* For any number of connections, keys and fields, whatever the clients    *)
(* do: the server uses the store as Store allows, what its readers see is  *)
(* durable, and each answer goes to the request it answers.                *)
(***************************************************************************)
EXTENDS Server, TLAPS

StoreInv == StoreTypeOK /\ VisibleIsDurable

\* The type of the abstract store is kept by its steps.
LEMMA StoreTypeStep == StoreTypeOK /\ [StoreNext]_storeVars => StoreTypeOK'
<1> SUFFICES ASSUME StoreTypeOK, [StoreNext]_storeVars PROVE StoreTypeOK'
  OBVIOUS
<1> USE DEF StoreTypeOK, Write, NoWrite
<1>1. ASSUME NEW t \in Task, NEW k \in Key, NEW v \in Value \cup {None}, Begin(t, k, v)
      PROVE  StoreTypeOK'
  <2>1. \A w \in Pending(k) : pend[w].val \in Value \cup {None}
    BY DEF Pending
  <2>2. {pend[w].val : w \in Pending(k)} \subseteq Value \cup {None}
    BY <2>1
  <2>3. rivals' \in [Task -> SUBSET (Value \cup {None})]
    BY <1>1, <2>2 DEF Begin
  <2> QED
    BY <1>1, <2>3 DEF Begin
<1>2. ASSUME NEW t \in Task, Finish(t) PROVE StoreTypeOK'
  <2>1. pend[t] \in Write
    BY <1>2 DEF Finish, End
  <2>2. \A w \in Pending(pend[t].key) : pend[w].val \in Value \cup {None}
    BY DEF Pending
  <2>3. {pend[u].val : u \in Pending(pend[t].key)} \subseteq Value \cup {None}
    BY <2>2
  <2>4. may' \in [Key -> SUBSET (Value \cup {None})]
    BY <1>2, <2>1, <2>3 DEF Finish
  <2> QED
    BY <1>2, <2>1, <2>4 DEF Finish, End
<1>3. ASSUME NEW t \in Task, Fail(t) PROVE StoreTypeOK'
  <2>1. pend[t] \in Write
    BY <1>3 DEF Fail, End
  <2> QED
    BY <1>3, <2>1 DEF Fail, End
<1>4. CASE Crash
  <2>1. PICK logged \in SUBSET {t \in Task : pend[t] # NoWrite} :
          may' = [k \in Key |-> may[k] \cup {pend[t].val : t \in logged \cap Pending(k)}]
    BY <1>4 DEF Crash
  <2>2. \A t \in logged : pend[t].val \in Value \cup {None}
    BY <2>1
  <2>3. may' \in [Key -> SUBSET (Value \cup {None})]
    BY <2>1, <2>2
  <2> QED
    BY <1>4, <2>3 DEF Crash, NoData, NobodyWrites
<1>5. CASE Restart
  BY <1>5 DEF Restart
<1>6. CASE UNCHANGED storeVars
  BY <1>6 DEF storeVars
<1> QED
  BY <1>1, <1>2, <1>3, <1>4, <1>5, <1>6 DEF StoreNext

\* Each step of the abstract store keeps what is visible durable: a write is
\* visible only when it is also among the fields its key may have later.
LEMMA VisibleStep ==
  StoreInv /\ [StoreNext]_storeVars => VisibleIsDurable'
<1> SUFFICES ASSUME StoreInv, [StoreNext]_storeVars PROVE VisibleIsDurable'
  OBVIOUS
<1> USE DEF StoreInv, StoreTypeOK, VisibleIsDurable
<1>1. ASSUME NEW t \in Task, NEW k \in Key, NEW v \in Value \cup {None}, Begin(t, k, v)
      PROVE  VisibleIsDurable'
  BY <1>1 DEF Begin
<1>2. ASSUME NEW t \in Task, Finish(t) PROVE VisibleIsDurable'
  <2>1. pend[t] # NoWrite /\ pend[t].key \in Key
    BY <1>2 DEF Finish, End, Write
  <2>2. t \in Pending(pend[t].key)
    BY <2>1 DEF Pending
  <2>3. data'[pend[t].key] \in may'[pend[t].key]
    BY <1>2, <2>1, <2>2 DEF Finish
  <2>4. \A k \in Key \ {pend[t].key} : data'[k] = data[k] /\ may'[k] = may[k]
    BY <1>2 DEF Finish
  <2> QED
    BY <1>2, <2>3, <2>4 DEF Finish
<1>3. ASSUME NEW t \in Task, Fail(t) PROVE VisibleIsDurable'
  <2>1. \A k \in Key : may[k] \subseteq may'[k]
    BY <1>3 DEF Fail
  <2> QED
    BY <1>3, <2>1 DEF Fail
<1>4. CASE Crash
  BY <1>4 DEF Crash
<1>5. CASE Restart
  BY <1>5 DEF Restart
<1>6. CASE UNCHANGED storeVars
  BY <1>6 DEF storeVars
<1> QED
  BY <1>1, <1>2, <1>3, <1>4, <1>5, <1>6 DEF StoreNext

\* Both hold at the start and for ever.
LEMMA StoreInvariant == StoreSpec => []StoreInv
<1>1. StoreInit => StoreInv
  BY DEF StoreInit, StoreInv, StoreTypeOK, VisibleIsDurable, NoData, NobodyWrites
<1>2. StoreInv /\ [StoreNext]_storeVars => StoreInv'
  BY StoreTypeStep, VisibleStep DEF StoreInv
<1> QED
  BY <1>1, <1>2, PTL DEF StoreSpec

\* Whatever the callers of the store do, its readers see only durable fields:
\* set and delete log and sync before they change the map.
THEOREM StoreDurable == StoreSpec => []VisibleIsDurable
BY StoreInvariant, PTL DEF StoreInv

-----------------------------------------------------------------------------
(***************************************************************************)
(* The connections.                                                        *)
(***************************************************************************)

\* The frames of a connection.
LEMMA FrameAt ==
  ASSUME NEW x \in ConnType, NEW i \in 1 .. Len(x.sent)
  PROVE  x.sent[i].id \in Nat /\ x.sent[i].req \in Requests
<1>1. x.sent \in Seq(FrameType)
  BY DEF ConnType
<1>2. x.sent[i] \in FrameType
  BY <1>1
<1> QED
  BY <1>2 DEF FrameType

\* A step that changes one connection, for a coherent one.
LEMMA OneConn ==
  ASSUME TypeOK, NEW c \in Conn, NEW x \in ConnType,
         conn' = [conn EXCEPT ![c] = x],
         Coherent(x, pend'[c] # NoWrite, Len(writes')), x.link = "open" => up,
         StoreTypeOK', up' = up, \A d \in Conn \ {c} : pend'[d] = pend[d],
         writes' \in Seq([key : Key, val : Value \cup {None}, before : SUBSET Nat]),
         Len(writes) <= Len(writes'), acked' \subseteq ended', ended' \subseteq 1 .. Len(writes'),
         frames' \in Nat, faults' \in Nat
  PROVE  TypeOK'
<1>1. conn' \in [Conn -> ConnType]
  BY DEF TypeOK
<1>2. conn'[c] = x /\ \A d \in Conn \ {c} : conn'[d] = conn[d]
  BY DEF TypeOK
<1>3. ASSUME NEW d \in Conn, d # c
      PROVE  Coherent(conn'[d], pend'[d] # NoWrite, Len(writes'))
  <2>1. Coherent(conn[d], pend[d] # NoWrite, Len(writes)) /\ conn[d] \in ConnType
        /\ Len(writes) \in Nat /\ Len(writes') \in Nat
    BY DEF TypeOK
  <2>2. \A i \in 1 .. Len(conn[d].sent) : conn[d].sent[i].id \in Nat
    BY <2>1, FrameAt
  <2> QED
    BY <1>2, <1>3, <2>1, <2>2 DEF Coherent
<1>4. \A d \in Conn : conn'[d].link = "open" => up'
  BY <1>2 DEF TypeOK, IsOpen
<1> QED
  BY <1>1, <1>2, <1>3, <1>4 DEF TypeOK, IsOpen

\* The same for a step that leaves the store and the history alone.
LEMMA QuietConn ==
  ASSUME TypeOK, NEW c \in Conn, NEW x \in ConnType,
         conn' = [conn EXCEPT ![c] = x],
         Coherent(x, pend[c] # NoWrite, Len(writes)), x.link = "open" => up,
         UNCHANGED <<storeVars, writes, ended, acked>>, frames' \in Nat, faults' \in Nat
  PROVE  TypeOK'
<1>1. StoreTypeOK' /\ up' = up /\ pend' = pend
  BY DEF TypeOK, StoreTypeOK, storeVars, Write, NoWrite
<1>2. /\ writes' \in Seq([key : Key, val : Value \cup {None}, before : SUBSET Nat])
      /\ Len(writes) <= Len(writes') /\ acked' \subseteq ended' /\ ended' \subseteq 1 .. Len(writes')
      /\ writes' = writes
  BY DEF TypeOK
<1> QED
  BY <1>1, <1>2, OneConn

\* No connection at all is a coherent one.
LEMMA NoConnOk == NoConn \in ConnType /\ \A n \in Nat : Coherent(NoConn, FALSE, n)
BY DEF NoConn, ConnType, AnswerType, NoAnswer, Answer, Coherent

\* The record of a connection whose stream is dropped, field by field.
LEMMA DroppedFields ==
  ASSUME NEW x \in ConnType, NEW s \in Seq(AnswerType)
  PROVE  LET y == [x EXCEPT !.link = "shut", !.task = "idle", !.reply = NoAnswer, !.answers = s]
         IN /\ y \in ConnType
            /\ y.link = "shut" /\ y.task = "idle" /\ y.reply = NoAnswer /\ y.answers = s
            /\ y.sent = x.sent /\ y.taken = x.taken /\ y.heard = x.heard
<1>1. NoAnswer \in AnswerType
  BY DEF NoAnswer, Answer, AnswerType
<1> QED
  BY <1>1 DEF ConnType

\* A connection whose stream is dropped is coherent if its task is in no call.
LEMMA ShutOk ==
  ASSUME TypeOK, NEW c \in Conn, NEW reset \in BOOLEAN, NEW x \in Shut(c, reset)
  PROVE  x \in ConnType /\ x.link # "open" /\ Coherent(x, FALSE, Len(writes))
<1> DEFINE y(n) == [conn[c] EXCEPT !.link = "shut", !.task = "idle", !.reply = NoAnswer,
                                   !.answers = SubSeq(@, 1, n)]
<1>1. conn[c] \in ConnType /\ Coherent(conn[c], pend[c] # NoWrite, Len(writes)) /\ Len(writes) \in Nat
  BY DEF TypeOK
<1>2. /\ conn[c].heard \in Nat /\ conn[c].answers \in Seq(AnswerType)
      /\ Len(conn[c].answers) \in conn[c].heard .. Len(conn[c].answers)
  BY <1>1 DEF ConnType, Coherent
<1>3. \E n \in conn[c].heard .. Len(conn[c].answers) : x = Settled(y(n))
  <2>1. PICK n \in (IF reset THEN conn[c].heard .. Len(conn[c].answers) ELSE {Len(conn[c].answers)}) :
               x = Settled(y(n))
    BY Zenon DEF Shut
  <2> QED
    BY <2>1, <1>2, Zenon
<1>4. PICK n \in conn[c].heard .. Len(conn[c].answers) : x = Settled(y(n))
  BY <1>3
<1> DEFINE s == SubSeq(conn[c].answers, 1, n)
<1>5. s \in Seq(AnswerType) /\ Len(s) = n
  BY <1>2, <1>4
<1> HIDE DEF s
<1>6. /\ y(n) \in ConnType
      /\ y(n).link = "shut" /\ y(n).task = "idle" /\ y(n).reply = NoAnswer /\ y(n).answers = s
      /\ y(n).sent = conn[c].sent /\ y(n).taken = conn[c].taken /\ y(n).heard = conn[c].heard
  BY <1>1, <1>5, DroppedFields, Zenon DEF s
<1> HIDE DEF y
<1>7. Coherent(y(n), FALSE, Len(writes))
  BY <1>1, <1>4, <1>5, <1>6, <1>2 DEF Coherent
<1>8. NoConn.link = "none"
  BY DEF NoConn
<1> QED
  BY <1>1, <1>4, <1>6, <1>7, <1>8, NoConnOk DEF Settled

\* Closing a connection whose task is in no call keeps the invariant.
LEMMA CloseOk ==
  ASSUME TypeOK, NEW c \in Conn, Close(c), pend[c] = NoWrite, UNCHANGED <<storeVars, history>>
  PROVE  TypeOK'
<1>1. PICK x \in Shut(c, conn[c].taken < Len(conn[c].sent)) : conn' = [conn EXCEPT ![c] = x]
  BY DEF Close
<1>2. x \in ConnType /\ x.link # "open" /\ Coherent(x, FALSE, Len(writes))
  <2>1. (conn[c].taken < Len(conn[c].sent)) \in BOOLEAN
    OBVIOUS
  <2> QED
    BY <1>1, <2>1, ShutOk
<1>3. frames' \in Nat /\ faults' \in Nat /\ UNCHANGED <<storeVars, writes, ended, acked>>
  BY DEF history, TypeOK
<1> QED
  BY <1>1, <1>2, <1>3, QuietConn

\* A task that has taken a frame, or whose call has returned, has an answer.
LEMMA ReplyingOk ==
  ASSUME TypeOK, NEW c \in Conn, NEW taken \in Nat, taken <= Len(conn[c].sent),
         NEW a \in AnswerType, a # NoAnswer, conn[c].link = "open", Replying(c, taken, a),
         StoreTypeOK', up' = up, pend'[c] = NoWrite, \A d \in Conn \ {c} : pend'[d] = pend[d],
         UNCHANGED history
  PROVE  TypeOK'
<1> DEFINE x == [conn[c] EXCEPT !.taken = taken, !.task = "reply", !.reply = a]
<1>1. conn[c] \in ConnType /\ Coherent(conn[c], pend[c] # NoWrite, Len(writes)) /\ up
  BY DEF TypeOK, IsOpen
<1>2. conn' = [conn EXCEPT ![c] = x]
  BY DEF Replying, TypeOK
<1>3. /\ x \in ConnType /\ x.task = "reply" /\ x.taken = taken /\ x.reply = a
      /\ x.link = "open" /\ x.sent = conn[c].sent /\ x.answers = conn[c].answers /\ x.heard = conn[c].heard
  BY <1>1 DEF ConnType
<1> HIDE DEF x
<1>4. Coherent(x, pend'[c] # NoWrite, Len(writes'))
  BY <1>1, <1>3 DEF Coherent, history
<1>5. /\ writes' \in Seq([key : Key, val : Value \cup {None}, before : SUBSET Nat])
      /\ Len(writes) <= Len(writes') /\ acked' \subseteq ended' /\ ended' \subseteq 1 .. Len(writes')
      /\ frames' \in Nat /\ faults' \in Nat
  BY DEF TypeOK, history
<1> QED
  BY <1>1, <1>2, <1>3, <1>4, <1>5, OneConn

\* A frame the task takes is one a client sent.
LEMMA TakeOk ==
  ASSUME TypeOK, NEW c \in Conn, NEW cmds, Take(c, cmds)
  PROVE  /\ conn[c].taken + 1 \in 1 .. Len(conn[c].sent) /\ conn[c].taken \in Nat
         /\ conn[c].link = "open" /\ conn[c].task = "read" /\ pend[c] = NoWrite
         /\ conn[c].sent[conn[c].taken + 1].req \in Requests
         /\ conn[c].sent[conn[c].taken + 1].req.cmd \in cmds
<1>1. conn[c] \in ConnType /\ Coherent(conn[c], pend[c] # NoWrite, Len(writes))
  BY DEF TypeOK
<1>2. conn[c].taken + 1 \in 1 .. Len(conn[c].sent) /\ conn[c].taken \in Nat
  BY <1>1 DEF Take, ConnType
<1>3. conn[c].link = "open" /\ pend[c] = NoWrite
  BY <1>1 DEF Take, Coherent
<1> QED
  BY <1>1, <1>2, <1>3, FrameAt DEF Take

\* Nothing changes in the store.
LEMMA StoreStays ==
  ASSUME TypeOK, UNCHANGED storeVars
  PROVE  StoreTypeOK' /\ up' = up /\ pend' = pend
BY DEF TypeOK, StoreTypeOK, storeVars, Write, NoWrite

\* The answers the server has for a request.
LEMMA LookType ==
  ASSUME StoreTypeOK, NEW r \in Requests, r.cmd \in {"Ping", "Get", "Keys"}
  PROVE  Look(r) \in AnswerType /\ Look(r) # NoAnswer
<1>1. r.key \in Key
  BY ServerAssumption
<1>2. data[r.key] \in Value \cup {None}
  BY <1>1 DEF StoreTypeOK
<1>3. CASE r.cmd = "Ping"
  BY <1>3 DEF Look, Answer, AnswerType, NoAnswer
<1>4. CASE r.cmd = "Get"
  BY <1>2, <1>4 DEF Look, Answer, AnswerType, NoAnswer
<1>5. CASE r.cmd = "Keys"
  <2>1. Look(r) = Answer("Keys", {k \in Key : data[k] # None})
    BY <1>5 DEF Look
  <2>2. {k \in Key : data[k] # None} \in SUBSET Key
    OBVIOUS
  <2> QED
    BY <2>1, <2>2 DEF Answer, AnswerType, NoAnswer
<1> QED
  BY <1>3, <1>4, <1>5

\* The steps of a task that take a frame.
LEMMA TypeTake ==
  ASSUME TypeOK, NEW c \in Conn, Refuse(c) \/ Panic(c) \/ HandleRead(c)
  PROVE  TypeOK'
<1>1. CASE Refuse(c)
  <2>1. Take(c, {"Bad"}) /\ Replying(c, conn[c].taken + 1, Answer("InvalidRequest", None))
        /\ UNCHANGED <<storeVars, history>>
    BY <1>1 DEF Refuse
  <2>2. Answer("InvalidRequest", None) \in AnswerType /\ Answer("InvalidRequest", None) # NoAnswer
    BY DEF Answer, AnswerType, NoAnswer
  <2> QED
    BY <2>1, <2>2, TakeOk, StoreStays, ReplyingOk
<1>2. CASE Panic(c)
  <2>1. Take(c, {"Unreadable"})
    BY <1>2 DEF Panic
  <2> QED
    BY <1>2, <2>1, TakeOk, CloseOk DEF Panic
<1>3. CASE HandleRead(c)
  <2> DEFINE r == conn[c].sent[conn[c].taken + 1].req
  <2>1. Take(c, {"Ping", "Get", "Keys"}) /\ Replying(c, conn[c].taken + 1, Look(r))
        /\ UNCHANGED <<storeVars, history>>
    BY <1>3 DEF HandleRead
  <2>2. r \in Requests /\ r.cmd \in {"Ping", "Get", "Keys"}
    BY <2>1, TakeOk
  <2>3. Look(r) \in AnswerType /\ Look(r) # NoAnswer
    BY <2>2, LookType DEF TypeOK
  <2> HIDE DEF r
  <2> QED
    BY <2>1, <2>3, TakeOk, StoreStays, ReplyingOk
<1> QED
  BY <1>1, <1>2, <1>3

\* A frame taken for a write begins a call the store allows.
LEMMA WriteBegins ==
  ASSUME TypeOK, NEW c \in Conn, HandleWrite(c)
  PROVE  \E k \in Key : \E v \in Value \cup {None} : Begin(c, k, v)
<1> DEFINE r == conn[c].sent[conn[c].taken + 1].req
<1>1. Take(c, {"Set", "Del"}) /\ Begin(c, r.key, r.val)
  BY DEF HandleWrite
<1>2. r \in Requests
  BY <1>1, TakeOk
<1>3. r.key \in Key /\ r.val \in Value \cup {None}
  BY <1>2, ServerAssumption
<1> QED
  BY <1>1, <1>3

\* The history and the bounds when they do not change.
LEMMA HistoryStays ==
  ASSUME TypeOK, UNCHANGED history
  PROVE  /\ writes' \in Seq([key : Key, val : Value \cup {None}, before : SUBSET Nat])
         /\ Len(writes) <= Len(writes') /\ acked' \subseteq ended' /\ ended' \subseteq 1 .. Len(writes')
         /\ frames' \in Nat /\ faults' \in Nat /\ writes' = writes
BY DEF TypeOK, history

\* The record of a connection whose task enters a call, field by field.
LEMMA RunFields ==
  ASSUME NEW x \in ConnType, NEW n \in Nat
  PROVE  LET y == [x EXCEPT !.taken = n, !.task = "run"]
         IN /\ y \in ConnType
            /\ y.task = "run" /\ y.taken = n /\ y.reply = x.reply
            /\ y.link = x.link /\ y.sent = x.sent /\ y.answers = x.answers /\ y.heard = x.heard
BY DEF ConnType

\* The steps of a task that begin or end a call.
LEMMA TypeCall ==
  ASSUME TypeOK, NEW c \in Conn, HandleWrite(c) \/ FinishWrite(c) \/ FailWrite(c)
  PROVE  TypeOK'
<1> USE DEF Conn
<1>1. CASE HandleWrite(c)
  <2> DEFINE x == [conn[c] EXCEPT !.taken = @ + 1, !.task = "run"]
  <2>1. PICK k \in Key, v \in Value \cup {None} : Begin(c, k, v)
    BY <1>1, WriteBegins
  <2>2. StoreTypeOK'
    BY <2>1, StoreTypeStep DEF StoreNext, TypeOK
  <2>3. Take(c, {"Set", "Del"}) /\ UNCHANGED history /\ conn' = [conn EXCEPT ![c] = x]
    BY <1>1 DEF HandleWrite, TypeOK
  <2>4. /\ conn[c].taken + 1 \in 1 .. Len(conn[c].sent) /\ conn[c].taken \in Nat
        /\ conn[c].link = "open" /\ conn[c].task = "read"
    BY <2>3, TakeOk
  <2>5. conn[c] \in ConnType /\ Coherent(conn[c], pend[c] # NoWrite, Len(writes)) /\ up
    BY <2>4 DEF TypeOK, IsOpen
  <2>6. /\ x \in ConnType /\ x.task = "run" /\ x.taken = conn[c].taken + 1 /\ x.reply = conn[c].reply
        /\ x.link = "open" /\ x.sent = conn[c].sent /\ x.answers = conn[c].answers /\ x.heard = conn[c].heard
    <3>1. conn[c].taken + 1 \in Nat
      BY <2>4
    <3> QED
      BY <2>4, <2>5, <3>1, RunFields, Zenon
  <2> HIDE DEF x
  <2>7. pend'[c] # NoWrite /\ up' = up /\ \A d \in Conn \ {c} : pend'[d] = pend[d]
    <3>1. pend'[c] = [key |-> k, val |-> v] /\ up' = up /\ \A d \in Conn \ {c} : pend'[d] = pend[d]
      BY <2>1 DEF Begin, TypeOK, StoreTypeOK
    <3>2. k # None
      BY NoneAssumption
    <3> QED
      BY <3>1, <3>2 DEF NoWrite
  <2>8. Coherent(x, pend'[c] # NoWrite, Len(writes'))
    BY <2>3, <2>4, <2>5, <2>6, <2>7, HistoryStays DEF Coherent
  <2> QED
    BY <2>2, <2>3, <2>5, <2>6, <2>7, <2>8, HistoryStays, OneConn
<1>2. ASSUME NEW a \in {Answer("Ok", None), Answer("ServerError", None)},
             Finish(c) \/ Fail(c), Replying(c, conn[c].taken, a), UNCHANGED history
      PROVE  TypeOK'
  <2>1. StoreTypeOK'
    BY <1>2, StoreTypeStep DEF StoreNext, TypeOK
  <2>2. /\ pend[c] # NoWrite /\ up' = up
        /\ pend'[c] = NoWrite /\ \A d \in Conn \ {c} : pend'[d] = pend[d]
    BY <1>2 DEF Finish, Fail, End, TypeOK, StoreTypeOK
  <2>3. a \in AnswerType /\ a # NoAnswer
    BY <1>2 DEF Answer, AnswerType, NoAnswer
  <2>4. conn[c] \in ConnType /\ Coherent(conn[c], pend[c] # NoWrite, Len(writes))
    BY DEF TypeOK
  <2>5. conn[c].taken \in Nat /\ conn[c].taken <= Len(conn[c].sent) /\ conn[c].link = "open"
    BY <2>2, <2>4 DEF Coherent, ConnType
  <2> QED
    BY <1>2, <2>1, <2>2, <2>3, <2>5, ReplyingOk
<1>3. CASE FinishWrite(c)
  BY <1>2, <1>3 DEF FinishWrite
<1>4. CASE FailWrite(c)
  BY <1>2, <1>4 DEF FailWrite
<1> QED
  BY <1>1, <1>3, <1>4

\* The record of a connection to which its answer was written, field by field.
LEMMA ToldFields ==
  ASSUME NEW x \in ConnType, NEW task \in {"read", "idle"}, NEW link \in {"open", "shut"}
  PROVE  LET y == Told(x, task, link)
         IN /\ y \in ConnType
            /\ y.task = task /\ y.link = link /\ y.reply = NoAnswer
            /\ y.answers = Append(x.answers, x.reply) /\ Len(y.answers) = Len(x.answers) + 1
            /\ y.taken = x.taken /\ y.sent = x.sent /\ y.heard = x.heard /\ y.peer = x.peer
<1>1. NoAnswer \in AnswerType
  BY DEF NoAnswer, Answer, AnswerType
<1> DEFINE s == Append(x.answers, x.reply)
<1>2. s \in Seq(AnswerType) /\ Len(s) = Len(x.answers) + 1
  BY DEF ConnType
<1>3. Told(x, task, link) = [x EXCEPT !.answers = s, !.reply = NoAnswer, !.task = task, !.link = link]
  BY DEF Told
<1> HIDE DEF s
<1>4. LET y == [x EXCEPT !.answers = s, !.reply = NoAnswer, !.task = task, !.link = link]
      IN /\ y \in ConnType
         /\ y.task = task /\ y.link = link /\ y.reply = NoAnswer
         /\ y.answers = s /\ Len(y.answers) = Len(x.answers) + 1
         /\ y.taken = x.taken /\ y.sent = x.sent /\ y.heard = x.heard /\ y.peer = x.peer
  BY <1>1, <1>2 DEF ConnType
<1> QED
  BY <1>3, <1>4, Zenon DEF s

\* The bounds when nothing but the connections changes.
LEMMA QuietStep ==
  ASSUME TypeOK, UNCHANGED <<storeVars, history>>
  PROVE  UNCHANGED <<storeVars, writes, ended, acked>> /\ frames' \in Nat /\ faults' \in Nat
BY DEF TypeOK, history

\* The steps of a task that write an answer, or find that nobody will read it.
LEMMA TypeAnswer ==
  ASSUME TypeOK, NEW c \in Conn, WriteAnswer(c) \/ WriteInVain(c) \/ Lost(c)
  PROVE  TypeOK'
<1>1. /\ conn[c] \in ConnType /\ Coherent(conn[c], pend[c] # NoWrite, Len(writes))
      /\ conn[c].link = "open" => up
  BY DEF TypeOK, IsOpen
<1>2. CASE WriteAnswer(c)
  <2>1. PICK task \in {"read", "idle"}, link \in {"open", "shut"} :
          /\ conn' = [conn EXCEPT ![c] = Told(conn[c], task, link)]
          /\ task # "idle" <=> link = "open"
    BY <1>2 DEF WriteAnswer
  <2>2. conn[c].task \in {"reply", "farewell"} /\ UNCHANGED <<storeVars, history>>
    BY <1>2 DEF WriteAnswer
  <2> DEFINE x == Told(conn[c], task, link)
  <2>3. /\ x \in ConnType
        /\ x.task = task /\ x.link = link /\ x.reply = NoAnswer /\ Len(x.answers) = Len(conn[c].answers) + 1
        /\ x.taken = conn[c].taken /\ x.sent = conn[c].sent /\ x.heard = conn[c].heard
    BY <1>1, <2>1, ToldFields
  <2> HIDE DEF x
  <2>4. conn[c].link = "open" /\ pend[c] = NoWrite
    BY <1>1, <2>2 DEF Coherent
  <2>5. Coherent(x, pend[c] # NoWrite, Len(writes))
    <3>1. x.heard <= Len(x.answers)
      BY <1>1, <2>3 DEF Coherent, ConnType
    <3>2. x.task \notin {"run", "reply", "farewell"}
      BY <2>1, <2>3
    <3> QED
      BY <1>1, <2>1, <2>3, <2>4, <3>1, <3>2 DEF Coherent
  <2> QED
    BY <1>1, <2>1, <2>2, <2>3, <2>4, <2>5, QuietStep, QuietConn DEF x
<1>3. CASE WriteInVain(c)
  <2> DEFINE x == [conn[c] EXCEPT !.task = "read", !.reply = NoAnswer]
  <2>1. conn[c].task = "reply" /\ UNCHANGED <<storeVars, history>> /\ conn' = [conn EXCEPT ![c] = x]
    BY <1>3 DEF WriteInVain, TypeOK
  <2>2. NoAnswer \in AnswerType
    BY DEF NoAnswer, Answer, AnswerType
  <2>3. /\ x \in ConnType /\ x.task = "read" /\ x.link = conn[c].link /\ x.reply = NoAnswer
        /\ x.answers = conn[c].answers /\ x.taken = conn[c].taken /\ x.sent = conn[c].sent /\ x.heard = conn[c].heard
    BY <1>1, <2>2 DEF ConnType
  <2> HIDE DEF x
  <2>4. Coherent(x, pend[c] # NoWrite, Len(writes))
    BY <1>1, <2>1, <2>3 DEF Coherent
  <2> QED
    BY <1>1, <2>1, <2>3, <2>4, QuietStep, QuietConn
<1>4. CASE Lost(c)
  <2>1. pend[c] = NoWrite
    BY <1>1, <1>4 DEF Lost, Coherent
  <2> QED
    BY <1>4, <2>1, CloseOk DEF Lost
<1> QED
  BY <1>2, <1>3, <1>4

\* The ends of a connection, and its beginning.
LEMMA TypeEnds ==
  ASSUME TypeOK, NEW c \in Conn, ReadEnd(c) \/ ReadCut(c) \/ Vanish(c) \/ Accept(c)
  PROVE  TypeOK'
<1>1. /\ conn[c] \in ConnType /\ Coherent(conn[c], pend[c] # NoWrite, Len(writes))
      /\ conn[c].link = "open" => up
      /\ faults \in Nat /\ frames \in Nat
  BY DEF TypeOK, IsOpen
<1>2. CASE ReadEnd(c)
  <2>1. pend[c] = NoWrite
    BY <1>1, <1>2 DEF ReadEnd, AtEnd, Coherent
  <2> QED
    BY <1>2, <2>1, CloseOk DEF ReadEnd
<1>3. CASE ReadCut(c)
  <2> DEFINE a == Answer("ServerError", None)
             x == [conn[c] EXCEPT !.task = "farewell", !.reply = a, !.peer = "cut"]
  <2>1. /\ conn[c].task = "read" /\ conn' = [conn EXCEPT ![c] = x]
        /\ UNCHANGED <<storeVars, writes, ended, acked>> /\ frames' \in Nat /\ faults' \in Nat
    BY <1>1, <1>3 DEF ReadCut, AtEnd, TypeOK
  <2>2. a \in AnswerType /\ a # NoAnswer
    BY DEF NoAnswer, Answer, AnswerType
  <2> HIDE DEF a
  <2>3. /\ x \in ConnType /\ x.task = "farewell" /\ x.link = conn[c].link /\ x.reply = a
        /\ x.answers = conn[c].answers /\ x.taken = conn[c].taken /\ x.sent = conn[c].sent /\ x.heard = conn[c].heard
    BY <1>1, <2>2 DEF ConnType
  <2> HIDE DEF x
  <2>4. Coherent(x, pend[c] # NoWrite, Len(writes))
    BY <1>1, <2>1, <2>2, <2>3 DEF Coherent
  <2> QED
    BY <1>1, <2>1, <2>3, <2>4, QuietConn
<1>4. CASE Vanish(c)
  <2> DEFINE x == [conn[c] EXCEPT !.peer = "gone"]
  <2>1. /\ conn' = [conn EXCEPT ![c] = x]
        /\ UNCHANGED <<storeVars, writes, ended, acked>> /\ frames' \in Nat /\ faults' \in Nat
    BY <1>1, <1>4 DEF Vanish, TypeOK
  <2>2. /\ x \in ConnType /\ x.task = conn[c].task /\ x.link = conn[c].link /\ x.reply = conn[c].reply
        /\ x.answers = conn[c].answers /\ x.taken = conn[c].taken /\ x.sent = conn[c].sent /\ x.heard = conn[c].heard
    BY <1>1 DEF ConnType
  <2> HIDE DEF x
  <2>3. Coherent(x, pend[c] # NoWrite, Len(writes))
    BY <1>1, <2>2 DEF Coherent
  <2> QED
    BY <1>1, <2>1, <2>2, <2>3, QuietConn
<1>5. CASE Accept(c)
  <2> DEFINE x == [conn[c] EXCEPT !.link = "open", !.task = "read"]
  <2>1. /\ up /\ conn[c].link = "none" /\ conn' = [conn EXCEPT ![c] = x]
        /\ UNCHANGED <<storeVars, history>>
    BY <1>5 DEF Accept, TypeOK
  <2>2. /\ x \in ConnType /\ x.task = "read" /\ x.link = "open" /\ x.reply = conn[c].reply
        /\ x.answers = conn[c].answers /\ x.taken = conn[c].taken /\ x.sent = conn[c].sent /\ x.heard = conn[c].heard
    BY <1>1 DEF ConnType
  <2> HIDE DEF x
  <2>3. Coherent(x, pend[c] # NoWrite, Len(writes))
    BY <1>1, <2>1, <2>2 DEF Coherent
  <2> QED
    BY <1>1, <2>1, <2>2, <2>3, QuietStep, QuietConn
<1> QED
  BY <1>2, <1>3, <1>4, <1>5

\* The record of a connection with one more frame, and with one more answer
\* read, field by field.
LEMMA ClientFields ==
  ASSUME NEW x \in ConnType, NEW f \in FrameType, NEW n \in Nat
  PROVE  /\ LET y == [x EXCEPT !.sent = Append(@, f)]
            IN /\ y \in ConnType /\ y.sent = Append(x.sent, f)
               /\ y.taken = x.taken /\ y.heard = x.heard /\ y.answers = x.answers
               /\ y.task = x.task /\ y.link = x.link /\ y.reply = x.reply /\ y.peer = x.peer
         /\ LET y == [x EXCEPT !.heard = n]
            IN /\ y \in ConnType /\ y.heard = n
               /\ y.taken = x.taken /\ y.sent = x.sent /\ y.answers = x.answers
               /\ y.task = x.task /\ y.link = x.link /\ y.reply = x.reply /\ y.peer = x.peer
<1> DEFINE s == Append(x.sent, f)
<1>1. s \in Seq(FrameType)
  BY DEF ConnType
<1>2. [x EXCEPT !.sent = Append(@, f)] = [x EXCEPT !.sent = s]
  OBVIOUS
<1> HIDE DEF s
<1>3. LET y == [x EXCEPT !.sent = s]
      IN /\ y \in ConnType /\ y.sent = s
         /\ y.taken = x.taken /\ y.heard = x.heard /\ y.answers = x.answers
         /\ y.task = x.task /\ y.link = x.link /\ y.reply = x.reply /\ y.peer = x.peer
  BY <1>1 DEF ConnType
<1>4. LET y == [x EXCEPT !.heard = n]
      IN /\ y \in ConnType /\ y.heard = n
         /\ y.taken = x.taken /\ y.sent = x.sent /\ y.answers = x.answers
         /\ y.task = x.task /\ y.link = x.link /\ y.reply = x.reply /\ y.peer = x.peer
  BY DEF ConnType
<1> QED
  BY <1>2, <1>3, <1>4, Zenon DEF s

\* A client sends a frame.
LEMMA TypeSend ==
  ASSUME TypeOK, NEW c \in Conn, NEW r \in Requests, Send(c, r)
  PROVE  TypeOK'
<1> DEFINE id == IF IsWrite(r) THEN Len(writes) + 1 ELSE 0
           mine == {conn[c].sent[i].id : i \in 1 .. Len(conn[c].sent)} \ {0}
           f == [req |-> r, id |-> id, after |-> acked]
           w == [key |-> r.key, val |-> r.val, before |-> ended \cup mine]
           x == [conn[c] EXCEPT !.sent = Append(@, f)]
           W == [key : Key, val : Value \cup {None}, before : SUBSET Nat]
<1>1. /\ conn[c] \in ConnType /\ Coherent(conn[c], pend[c] # NoWrite, Len(writes))
      /\ Len(writes) \in Nat /\ writes \in Seq(W) /\ ended \subseteq 1 .. Len(writes) /\ acked \subseteq ended
      /\ faults \in Nat /\ frames \in Nat
  BY DEF TypeOK
<1>2. id \in Nat /\ id <= Len(writes) + 1 /\ (id # 0 => id = Len(writes) + 1)
  BY <1>1
<1>3. /\ IsOpen(c) /\ conn' = [conn EXCEPT ![c] = x]
      /\ writes' = IF id = 0 THEN writes ELSE Append(writes, w)
      /\ frames' = frames + 1 /\ UNCHANGED <<storeVars, ended, acked>>
  BY DEF Send, TypeOK
<1>4. faults' \in Nat
  BY <1>1 DEF Send
<1>5. mine \subseteq Nat
  BY <1>1, FrameAt
<1>6. w \in W /\ f \in FrameType
  <2> HIDE DEF id, mine
  <2>1. r.key \in Key /\ r.val \in Value \cup {None}
    BY ServerAssumption
  <2>2. ended \subseteq Nat /\ acked \subseteq Nat
    BY <1>1
  <2>3. ended \cup mine \subseteq Nat
    BY <2>2, <1>5
  <2> QED
    BY <1>2, <2>1, <2>2, <2>3 DEF FrameType
<1>7. f.id = id
  OBVIOUS
<1> HIDE DEF id, mine, w, f
<1>8. writes' \in Seq(W) /\ Len(writes) <= Len(writes') /\ id <= Len(writes')
  <2> HIDE DEF W
  <2>1. CASE id = 0
    BY <1>1, <1>2, <1>3, <2>1
  <2>2. CASE id # 0
    <3>1. writes' = Append(writes, w) /\ id = Len(writes) + 1
      BY <1>2, <1>3, <2>2
    <3>2. Append(writes, w) \in Seq(W) /\ Len(Append(writes, w)) = Len(writes) + 1
      BY <1>1, <1>6
    <3> QED
      BY <1>1, <3>1, <3>2
  <2> QED
    BY <2>1, <2>2
<1>9. /\ x \in ConnType /\ x.sent = Append(conn[c].sent, f)
      /\ x.taken = conn[c].taken /\ x.heard = conn[c].heard /\ x.answers = conn[c].answers
      /\ x.task = conn[c].task /\ x.link = conn[c].link /\ x.reply = conn[c].reply
  BY <1>1, <1>6, ClientFields, Zenon
<1> HIDE DEF x
<1>10. /\ Len(x.sent) = Len(conn[c].sent) + 1 /\ x.taken \in Nat
       /\ \A i \in 1 .. Len(x.sent) : x.sent[i].id <= Len(writes')
  <2>1. conn[c].sent \in Seq(FrameType) /\ conn[c].taken \in Nat
    BY <1>1 DEF ConnType
  <2>2. \A i \in 1 .. Len(conn[c].sent) : conn[c].sent[i].id \in Nat /\ conn[c].sent[i].id <= Len(writes)
    BY <1>1, FrameAt DEF Coherent
  <2>3. Len(writes') \in Nat /\ Len(conn[c].sent) \in Nat
    BY <1>8, <2>1
  <2>4. /\ Len(x.sent) = Len(conn[c].sent) + 1 /\ x.sent[Len(conn[c].sent) + 1] = f
        /\ \A i \in 1 .. Len(conn[c].sent) : x.sent[i] = conn[c].sent[i]
    BY <1>6, <1>9, <2>1
  <2>5. \A i \in 1 .. Len(conn[c].sent) : x.sent[i].id <= Len(writes')
    <3> SUFFICES ASSUME NEW i \in 1 .. Len(conn[c].sent) PROVE x.sent[i].id <= Len(writes')
      OBVIOUS
    <3>1. x.sent[i].id \in Nat /\ x.sent[i].id <= Len(writes)
      BY <2>2, <2>4
    <3>2. Len(writes) \in Nat /\ Len(writes) <= Len(writes')
      BY <1>1, <1>8
    <3> QED
      BY <2>3, <3>1, <3>2
  <2>6. x.sent[Len(conn[c].sent) + 1].id <= Len(writes')
    BY <1>7, <1>8, <2>4
  <2> QED
    BY <1>9, <2>1, <2>3, <2>4, <2>5, <2>6
<1>11. Coherent(x, pend[c] # NoWrite, Len(writes'))
  <2>1. x.taken <= Len(x.sent)
    BY <1>1, <1>9, <1>10 DEF Coherent, ConnType
  <2> QED
    BY <1>1, <1>9, <1>10, <2>1 DEF Coherent
<1>12. ended' \subseteq 1 .. Len(writes') /\ acked' \subseteq ended' /\ frames' \in Nat
  BY <1>1, <1>3, <1>8
<1>13. StoreTypeOK' /\ up' = up /\ pend' = pend /\ up
  BY <1>3, StoreStays DEF TypeOK
<1> QED
  BY <1>3, <1>4, <1>8, <1>9, <1>11, <1>12, <1>13, OneConn

\* A client reads an answer.
LEMMA TypeHear ==
  ASSUME TypeOK, NEW c \in Conn, Hear(c)
  PROVE  TypeOK'
<1> DEFINE n == conn[c].heard + 1
           id == conn[c].sent[n].id
           y == [conn[c] EXCEPT !.heard = n]
           x == Settled(y)
<1>1. /\ conn[c] \in ConnType /\ Coherent(conn[c], pend[c] # NoWrite, Len(writes))
      /\ Len(writes) \in Nat /\ ended \subseteq 1 .. Len(writes) /\ acked \subseteq ended
      /\ faults \in Nat /\ frames \in Nat /\ (conn[c].link = "open" => up)
      /\ writes \in Seq([key : Key, val : Value \cup {None}, before : SUBSET Nat])
  BY DEF TypeOK, IsOpen
<1>2. n \in Nat /\ n <= Len(conn[c].answers) /\ conn' = [conn EXCEPT ![c] = x]
      /\ UNCHANGED <<storeVars, writes, frames, faults>>
  BY <1>1 DEF Hear, ConnType
<1>3. ended' \subseteq 1 .. Len(writes) /\ acked' \subseteq ended'
  <2>1. CASE n > Len(conn[c].sent) \/ id = 0
    BY <1>1, <2>1 DEF Hear
  <2>2. CASE ~ (n > Len(conn[c].sent) \/ id = 0)
    <3>1. n \in 1 .. Len(conn[c].sent)
      BY <1>1, <2>2 DEF ConnType
    <3>2. id \in 1 .. Len(writes)
      <4>1. id \in Nat
        BY <1>1, <3>1, FrameAt
      <4>2. id <= Len(writes)
        BY <1>1, <3>1 DEF Coherent
      <4> QED
        BY <1>1, <2>2, <4>1, <4>2
    <3>3. ended' = ended \cup {id} /\ acked' \in {acked, acked \cup {id}}
      BY <2>2 DEF Hear
    <3> HIDE DEF id
    <3> QED
      BY <1>1, <3>2, <3>3
  <2> QED
    BY <2>1, <2>2
<1>4. /\ y \in ConnType /\ y.heard = n
      /\ y.taken = conn[c].taken /\ y.sent = conn[c].sent /\ y.answers = conn[c].answers
      /\ y.task = conn[c].task /\ y.link = conn[c].link /\ y.reply = conn[c].reply
  BY <1>1, <1>2 DEF ConnType
<1> HIDE DEF n, y
<1>5. Coherent(y, pend[c] # NoWrite, Len(writes))
  BY <1>1, <1>2, <1>4 DEF Coherent
<1>6. /\ x \in ConnType /\ Coherent(x, pend[c] # NoWrite, Len(writes))
      /\ x.link = "open" => up
  <2>1. CASE x = y
    BY <1>1, <1>4, <1>5, <2>1
  <2>2. CASE x = NoConn /\ y.link = "shut"
    <3>1. pend[c] = NoWrite
      BY <1>5, <1>4, <2>2 DEF Coherent, ConnType
    <3>2. NoConn.link # "open"
      BY DEF NoConn
    <3> QED
      BY <1>1, <2>2, <3>1, <3>2, NoConnOk
  <2> QED
    BY <2>1, <2>2 DEF Settled
<1> HIDE DEF x
<1>7. StoreTypeOK' /\ up' = up /\ pend' = pend
  BY <1>2, StoreStays
<1>8. /\ writes' \in Seq([key : Key, val : Value \cup {None}, before : SUBSET Nat])
      /\ Len(writes) <= Len(writes') /\ acked' \subseteq ended' /\ ended' \subseteq 1 .. Len(writes')
      /\ frames' \in Nat /\ faults' \in Nat /\ Coherent(x, pend'[c] # NoWrite, Len(writes'))
  BY <1>1, <1>2, <1>3, <1>6, <1>7
<1> QED
  BY <1>2, <1>6, <1>7, <1>8, OneConn

\* The server stops: every connection is dropped, and no call is left.
LEMMA TypeStop ==
  ASSUME TypeOK, Stop
  PROVE  TypeOK'
<1>1. StoreTypeOK' /\ up' = FALSE /\ pend' = NobodyWrites
  BY StoreTypeStep DEF Stop, Crash, StoreNext, TypeOK
<1>2. \A c \in Conn : conn'[c] \in ConnType /\ conn'[c].link # "open" /\ Coherent(conn'[c], FALSE, Len(writes))
  <2> SUFFICES ASSUME NEW c \in Conn
               PROVE  conn'[c] \in ConnType /\ conn'[c].link # "open" /\ Coherent(conn'[c], FALSE, Len(writes))
    OBVIOUS
  <2>1. IF IsOpen(c) THEN conn'[c] \in Shut(c, TRUE) ELSE conn'[c] = conn[c]
    BY DEF Stop
  <2>2. CASE IsOpen(c)
    BY <2>1, <2>2, ShutOk
  <2>3. CASE ~ IsOpen(c)
    BY <2>1, <2>3 DEF TypeOK, IsOpen, Coherent
  <2> QED
    BY <2>2, <2>3
<1>3. conn' \in [Conn -> ConnType]
  <2>1. conn' = [c \in Conn |-> conn'[c]]
    BY DEF Stop
  <2> QED
    BY <1>2, <2>1
<1>4. \A c \in Conn : pend'[c] = NoWrite
  BY <1>1 DEF NobodyWrites, Conn
<1>5. /\ writes' = writes /\ acked' \subseteq ended' /\ ended' \subseteq 1 .. Len(writes')
      /\ frames' \in Nat /\ faults' \in Nat
  BY DEF Stop, TypeOK
<1>6. writes' \in Seq([key : Key, val : Value \cup {None}, before : SUBSET Nat])
  BY <1>5 DEF TypeOK
<1>7. \A c \in Conn : Coherent(conn'[c], pend'[c] # NoWrite, Len(writes')) /\ (conn'[c].link = "open" => up')
  BY <1>2, <1>4, <1>5
<1> QED
  BY <1>1, <1>3, <1>5, <1>6, <1>7 DEF TypeOK, IsOpen

\* Every step of the server and its clients keeps the invariant.
LEMMA TypeStep == TypeOK /\ [Next]_vars => TypeOK'
<1> SUFFICES ASSUME TypeOK, [Next]_vars PROVE TypeOK'
  OBVIOUS
<1>1. ASSUME NEW c \in Conn, ClientStep(c) PROVE TypeOK'
  BY <1>1, TypeSend, TypeHear, TypeEnds DEF ClientStep
<1>2. ASSUME NEW c \in Conn, TaskStep(c) PROVE TypeOK'
  BY <1>2, TypeTake, TypeCall, TypeAnswer DEF TaskStep
<1>3. ASSUME NEW c \in Conn, Accept(c) PROVE TypeOK'
  BY <1>3, TypeEnds
<1>4. CASE Stop
  BY <1>4, TypeStop
<1>5. CASE Start
  <2>1. StoreTypeOK' /\ up' = TRUE /\ pend' = pend /\ UNCHANGED <<conn, history>>
    BY <1>5, StoreTypeStep DEF Start, StoreNext, TypeOK, Restart
  <2> QED
    BY <2>1 DEF TypeOK, history, IsOpen
<1>6. CASE UNCHANGED vars
  <2>1. UNCHANGED <<storeVars, conn, history>>
    BY <1>6 DEF vars
  <2> QED
    BY <2>1, StoreStays DEF TypeOK, history, IsOpen
<1> QED
  BY <1>1, <1>2, <1>3, <1>4, <1>5, <1>6 DEF Next

\* Nobody is connected at first.
LEMMA TypeInit == Init => TypeOK
<1> SUFFICES ASSUME Init PROVE TypeOK
  OBVIOUS
<1>1. StoreTypeOK /\ pend = NobodyWrites
  BY DEF Init, StoreInit, StoreTypeOK, NoData, NobodyWrites
<1>2. conn \in [Conn -> ConnType] /\ \A c \in Conn : conn[c] = NoConn /\ pend[c] = NoWrite
  BY <1>1, NoConnOk DEF Init, NobodyWrites, Conn
<1>3. \A c \in Conn : Coherent(conn[c], pend[c] # NoWrite, 0) /\ ~ IsOpen(c)
  <2>1. Coherent(NoConn, FALSE, 0) /\ NoConn.link # "open"
    <3>1. NoConn.link # "open"
      BY DEF NoConn
    <3> QED
      BY <3>1, NoConnOk
  <2> QED
    BY <1>2, <2>1 DEF IsOpen
<1> QED
  BY <1>1, <1>2, <1>3 DEF Init, TypeOK

\* For any number of connections, keys and frames: a connection's task is in a
\* call of the store exactly while the store has a write of it, and no
\* connection outlives the server.
THEOREM ServerTypeCorrect == Spec => []TypeOK
BY TypeInit, TypeStep, PTL DEF Spec

-----------------------------------------------------------------------------
(***************************************************************************)
(* The server uses the store as Store allows.                              *)
(***************************************************************************)

\* A step of the server is a step of the store, or leaves the store alone.
LEMMA StepUsesStore == TypeOK /\ [Next]_vars => [StoreNext]_storeVars
<1> SUFFICES ASSUME TypeOK, [Next]_vars PROVE [StoreNext]_storeVars
  OBVIOUS
<1>1. ASSUME NEW c \in Conn, ClientStep(c) \/ Accept(c) PROVE UNCHANGED storeVars
  BY <1>1 DEF ClientStep, Accept, Send, Vanish, ReadEnd, ReadCut, Hear
<1>2. ASSUME NEW c \in Conn, TaskStep(c) PROVE [StoreNext]_storeVars
  <2>1. CASE HandleWrite(c)
    BY <2>1, WriteBegins DEF StoreNext, Conn
  <2>2. CASE FinishWrite(c) \/ FailWrite(c)
    BY <2>2 DEF FinishWrite, FailWrite, StoreNext, Conn
  <2>3. CASE Refuse(c) \/ Panic(c) \/ HandleRead(c) \/ WriteAnswer(c) \/ WriteInVain(c) \/ Lost(c)
    BY <2>3 DEF Refuse, Panic, HandleRead, WriteAnswer, WriteInVain, Lost
  <2> QED
    BY <1>2, <2>1, <2>2, <2>3 DEF TaskStep
<1>3. CASE Stop
  BY <1>3 DEF Stop, StoreNext
<1>4. CASE Start
  BY <1>4 DEF Start, StoreNext
<1>5. CASE UNCHANGED vars
  BY <1>5 DEF vars
<1> QED
  BY <1>1, <1>2, <1>3, <1>4, <1>5 DEF Next

\* The server, with any clients, is a correct user of the store: what is
\* proved of StoreSpec holds of the store behind the server.
THEOREM ServerUsesStore == Spec => StoreSpec
<1>1. Init => StoreInit
  BY DEF Init
<1> QED
  BY <1>1, StepUsesStore, ServerTypeCorrect, PTL DEF Spec, StoreSpec

\* Whatever the clients send, and however often the server stops, what a get or
\* keys request is answered with was durable when it was looked up.
THEOREM ServerDurable == Spec => []VisibleIsDurable
BY ServerUsesStore, StoreDurable, PTL

-----------------------------------------------------------------------------
(***************************************************************************)
(* Answers.  AnswersInOrder is not inductive: what the task is about to    *)
(* write has to fit too.  Owed says what the task of a connection still    *)
(* owes its client in each phase.  Once the client is gone nothing more is *)
(* written, and the answers there are stay as they were.                   *)
(***************************************************************************)

Owed(x) ==
  x.link = "open" /\ x.peer # "gone" =>
    /\ x.task \in {"read", "run", "reply"} => x.peer = "here"
    /\ x.task = "read" => Len(x.answers) = x.taken
    /\ x.task = "run" => Len(x.answers) + 1 = x.taken /\ IsWrite(x.sent[x.taken].req)
    /\ x.task = "reply" => Len(x.answers) + 1 = x.taken /\ Fits(x.sent[x.taken].req, x.reply)
    /\ x.task = "farewell" => /\ Len(x.answers) = x.taken /\ x.taken = Len(x.sent)
                              /\ x.peer = "cut" /\ x.reply = Answer("ServerError", None)

Orderly(x) == InOrder(x) /\ Owed(x) /\ (x.link = "none" => x = NoConn)

\* The inductive invariant.
OrderInv == TypeOK /\ \A c \in Conn : Orderly(conn[c])

\* What the types and OrderInv say of one connection.
LEMMA ConnFacts ==
  ASSUME OrderInv, NEW c \in Conn
  PROVE  /\ conn[c] \in ConnType /\ Orderly(conn[c])
         /\ Coherent(conn[c], pend[c] # NoWrite, Len(writes))
         /\ conn[c].sent \in Seq(FrameType) /\ conn[c].answers \in Seq(AnswerType)
         /\ conn[c].taken \in 0 .. Len(conn[c].sent) /\ conn[c].heard \in 0 .. Len(conn[c].answers)
         /\ Len(conn[c].sent) \in Nat /\ Len(conn[c].answers) \in Nat
<1>1. conn[c] \in ConnType /\ Orderly(conn[c]) /\ Coherent(conn[c], pend[c] # NoWrite, Len(writes))
  BY DEF OrderInv, TypeOK
<1> QED
  BY <1>1 DEF ConnType, Coherent

\* A step that changes one connection, for an orderly one.
LEMMA OrderOne ==
  ASSUME OrderInv, NEW c \in Conn, NEW x, conn' = [conn EXCEPT ![c] = x], Orderly(x), TypeOK'
  PROVE  OrderInv'
<1>1. conn'[c] = x /\ \A d \in Conn \ {c} : conn'[d] = conn[d]
  BY DEF OrderInv, TypeOK
<1>2. \A d \in Conn : Orderly(conn'[d])
  BY <1>1 DEF OrderInv
<1> QED
  BY <1>2 DEF OrderInv

\* No connection at all is orderly.
LEMMA NoConnOrderly == Orderly(NoConn)
BY DEF Orderly, InOrder, Owed, NoConn

\* A connection that only forgets its last answers, or is not written to any
\* more, stays in order.
LEMMA FewerAnswers ==
  ASSUME NEW x \in ConnType, NEW y \in ConnType, InOrder(x),
         y.sent = x.sent, y.peer = x.peer \/ y.peer = "gone", y.link # "open" \/ y.peer = "gone",
         Len(y.answers) <= Len(x.answers), y.link # "none",
         \A n \in 1 .. Len(y.answers) : y.answers[n] = x.answers[n]
  PROVE  Orderly(y)
<1>1. Len(x.answers) \in Nat /\ Len(y.answers) \in Nat
  BY DEF ConnType
<1>2. InOrder(y)
  BY <1>1 DEF InOrder
<1> QED
  BY <1>2 DEF Orderly, Owed

\* A connection whose stream is dropped is orderly.
LEMMA ShutOrderly ==
  ASSUME OrderInv, NEW c \in Conn, NEW reset \in BOOLEAN, NEW x \in Shut(c, reset)
  PROVE  Orderly(x)
<1> DEFINE y(n) == [conn[c] EXCEPT !.link = "shut", !.task = "idle", !.reply = NoAnswer,
                                   !.answers = SubSeq(@, 1, n)]
<1>1. /\ conn[c] \in ConnType /\ InOrder(conn[c])
      /\ conn[c].heard \in 0 .. Len(conn[c].answers) /\ conn[c].answers \in Seq(AnswerType)
      /\ Len(conn[c].answers) \in 0 .. Len(conn[c].answers)
  BY ConnFacts DEF Orderly
<1>2. \E n \in 0 .. Len(conn[c].answers) : x = Settled(y(n))
  <2>1. PICK n \in (IF reset THEN conn[c].heard .. Len(conn[c].answers) ELSE {Len(conn[c].answers)}) :
               x = Settled(y(n))
    BY Zenon DEF Shut
  <2>2. conn[c].heard .. Len(conn[c].answers) \subseteq 0 .. Len(conn[c].answers)
    BY <1>1
  <2> QED
    BY <1>1, <2>1, <2>2, Zenon
<1>3. PICK n \in 0 .. Len(conn[c].answers) : x = Settled(y(n))
  BY <1>2
<1> DEFINE s == SubSeq(conn[c].answers, 1, n)
<1>4. s \in Seq(AnswerType) /\ Len(s) = n /\ \A i \in 1 .. n : s[i] = conn[c].answers[i]
  BY <1>1, <1>3
<1> HIDE DEF s
<1>5. /\ y(n) \in ConnType
      /\ y(n).link = "shut" /\ y(n).task = "idle" /\ y(n).reply = NoAnswer /\ y(n).answers = s
      /\ y(n).sent = conn[c].sent /\ y(n).taken = conn[c].taken /\ y(n).heard = conn[c].heard
  BY <1>1, <1>4, DroppedFields, Zenon DEF s
<1>6. y(n).peer = conn[c].peer
  BY <1>1 DEF ConnType
<1> HIDE DEF y
<1>7. Orderly(y(n))
  <2>1. Len(y(n).answers) <= Len(conn[c].answers) /\ \A i \in 1 .. Len(y(n).answers) : y(n).answers[i] = conn[c].answers[i]
    BY <1>1, <1>3, <1>4, <1>5
  <2> QED
    BY <1>1, <1>5, <1>6, <2>1, FewerAnswers
<1> QED
  BY <1>3, <1>7, NoConnOrderly DEF Settled

\* Closing a connection keeps the order of the others, and of what it was told.
LEMMA CloseOrderly ==
  ASSUME OrderInv, TypeOK', NEW c \in Conn, Close(c)
  PROVE  OrderInv'
<1>1. PICK x \in Shut(c, conn[c].taken < Len(conn[c].sent)) : conn' = [conn EXCEPT ![c] = x]
  BY DEF Close
<1>2. (conn[c].taken < Len(conn[c].sent)) \in BOOLEAN
  OBVIOUS
<1> QED
  BY <1>1, <1>2, ShutOrderly, OrderOne

\* The answer a task has for its frame keeps its connection orderly.
LEMMA ReplyingOrderly ==
  ASSUME OrderInv, TypeOK', NEW c \in Conn, NEW taken \in Nat, NEW a \in AnswerType,
         Replying(c, taken, a), conn[c].link = "open", conn[c].task \in {"read", "run"},
         conn[c].task = "read" => taken = conn[c].taken + 1,
         conn[c].task = "run" => taken = conn[c].taken,
         Fits(conn[c].sent[taken].req, a)
  PROVE  OrderInv'
<1> DEFINE x == [conn[c] EXCEPT !.taken = taken, !.task = "reply", !.reply = a]
<1>1. conn[c] \in ConnType /\ Orderly(conn[c]) /\ Len(conn[c].answers) \in Nat
  BY ConnFacts
<1>2. conn' = [conn EXCEPT ![c] = x]
  BY DEF Replying, OrderInv, TypeOK
<1>3. /\ x \in ConnType /\ x.task = "reply" /\ x.taken = taken /\ x.reply = a /\ x.peer = conn[c].peer
      /\ x.link = "open" /\ x.sent = conn[c].sent /\ x.answers = conn[c].answers
  BY <1>1 DEF ConnType
<1> HIDE DEF x
<1>4. InOrder(x)
  BY <1>1, <1>3 DEF Orderly, InOrder
<1>5. Owed(x)
  BY <1>1, <1>3 DEF Orderly, Owed
<1> QED
  BY <1>2, <1>3, <1>4, <1>5, OrderOne DEF Orderly

\* What a task looks up fits the request.
LEMMA LookFits ==
  ASSUME NEW r, r.cmd \in {"Ping", "Get", "Keys"}
  PROVE  Fits(r, Look(r))
<1>1. CASE r.cmd = "Ping"
  BY <1>1 DEF Look, Fits
<1>2. CASE r.cmd = "Get"
  BY <1>2 DEF Look, Fits, Answer
<1>3. CASE r.cmd = "Keys"
  BY <1>3 DEF Look, Fits, Answer
<1> QED
  BY <1>1, <1>2, <1>3

\* The steps of a task that take a frame.
LEMMA OrderTake ==
  ASSUME OrderInv, TypeOK', NEW c \in Conn, Refuse(c) \/ Panic(c) \/ HandleRead(c) \/ HandleWrite(c)
  PROVE  OrderInv'
<1> DEFINE n == conn[c].taken + 1
           r == conn[c].sent[n].req
<1>1. TypeOK
  BY DEF OrderInv
<1>2. ASSUME NEW cmds, Take(c, cmds)
      PROVE  /\ n \in Nat /\ conn[c].link = "open" /\ conn[c].task = "read"
             /\ r \in Requests /\ r.cmd \in cmds
  BY <1>1, <1>2, TakeOk
<1>3. CASE Refuse(c)
  <2> DEFINE a == Answer("InvalidRequest", None)
  <2>1. Take(c, {"Bad"}) /\ Replying(c, n, a)
    BY <1>3 DEF Refuse
  <2>2. a \in AnswerType
    BY DEF Answer, AnswerType
  <2>3. Fits(r, a)
    BY <1>2, <2>1 DEF Fits
  <2>4. n \in Nat /\ conn[c].link = "open" /\ conn[c].task = "read"
    BY <1>2, <2>1
  <2> HIDE DEF a
  <2> QED
    BY <2>1, <2>2, <2>3, <2>4, ReplyingOrderly
<1>4. CASE Panic(c)
  BY <1>4, CloseOrderly DEF Panic
<1>5. CASE HandleRead(c)
  <2>1. Take(c, {"Ping", "Get", "Keys"}) /\ Replying(c, n, Look(r))
    BY <1>5 DEF HandleRead
  <2>2. n \in Nat /\ conn[c].link = "open" /\ conn[c].task = "read" /\ r \in Requests
        /\ r.cmd \in {"Ping", "Get", "Keys"}
    BY <1>2, <2>1
  <2>3. Look(r) \in AnswerType /\ Fits(r, Look(r))
    BY <1>1, <2>2, LookType, LookFits DEF TypeOK
  <2> HIDE DEF n
  <2>4. ASSUME NEW a, a = Look(r) PROVE OrderInv'
    BY <2>1, <2>2, <2>3, <2>4, ReplyingOrderly DEF n
  <2> QED
    BY <2>4
<1>6. CASE HandleWrite(c)
  <2> DEFINE x == [conn[c] EXCEPT !.taken = n, !.task = "run"]
  <2>1. Take(c, {"Set", "Del"}) /\ conn' = [conn EXCEPT ![c] = x]
    BY <1>1, <1>6 DEF HandleWrite, TypeOK
  <2>2. n \in Nat /\ conn[c].link = "open" /\ conn[c].task = "read" /\ r.cmd \in {"Set", "Del"}
    BY <1>2, <2>1
  <2>3. conn[c] \in ConnType /\ Orderly(conn[c]) /\ Len(conn[c].answers) \in Nat
    BY ConnFacts
  <2>4. /\ x.task = "run" /\ x.taken = n /\ x.peer = conn[c].peer
        /\ x.link = "open" /\ x.sent = conn[c].sent /\ x.answers = conn[c].answers
    BY <2>2, <2>3 DEF ConnType
  <2> HIDE DEF x
  <2>5. InOrder(x)
    BY <2>3, <2>4 DEF Orderly, InOrder
  <2>6. Owed(x)
    BY <2>2, <2>3, <2>4 DEF Orderly, Owed, IsWrite
  <2> QED
    BY <2>1, <2>4, <2>5, <2>6, OrderOne DEF Orderly
<1> QED
  BY <1>3, <1>4, <1>5, <1>6

\* The steps of a task whose call returns.
LEMMA OrderReturn ==
  ASSUME OrderInv, TypeOK', NEW c \in Conn, FinishWrite(c) \/ FailWrite(c)
  PROVE  OrderInv'
<1>1. PICK a \in {Answer("Ok", None), Answer("ServerError", None)} :
         (Finish(c) \/ Fail(c)) /\ Replying(c, conn[c].taken, a)
  BY DEF FinishWrite, FailWrite
<1>2. pend[c] # NoWrite
  BY <1>1 DEF Finish, Fail, End
<1>3. conn[c] \in ConnType /\ Orderly(conn[c]) /\ Coherent(conn[c], pend[c] # NoWrite, Len(writes))
  BY ConnFacts
<1>4. conn[c].task = "run" /\ conn[c].link = "open" /\ conn[c].taken \in Nat
  BY <1>2, <1>3 DEF Coherent, ConnType
<1>5. a \in AnswerType
  BY <1>1 DEF Answer, AnswerType
<1>6. CASE conn[c].peer = "gone"
  <2> DEFINE x == [conn[c] EXCEPT !.taken = conn[c].taken, !.task = "reply", !.reply = a]
  <2>1. conn' = [conn EXCEPT ![c] = x]
    BY <1>1 DEF Replying, OrderInv, TypeOK
  <2>2. x \in ConnType /\ x.sent = conn[c].sent /\ x.peer = "gone" /\ x.link = "open" /\ x.answers = conn[c].answers
    BY <1>3, <1>4, <1>5, <1>6 DEF ConnType
  <2> HIDE DEF x
  <2>3. Orderly(x)
    BY <1>3, <2>2 DEF Orderly, InOrder, Owed
  <2> QED
    BY <2>1, <2>3, OrderOne
<1>7. CASE conn[c].peer # "gone"
  <2>1. IsWrite(conn[c].sent[conn[c].taken].req)
    BY <1>3, <1>4, <1>7 DEF Orderly, Owed
  <2>2. Fits(conn[c].sent[conn[c].taken].req, a)
    BY <1>1, <2>1 DEF Fits
  <2> QED
    BY <1>1, <1>4, <1>5, <2>2, ReplyingOrderly
<1> QED
  BY <1>6, <1>7

\* An orderly connection after its task wrote the answer it had.
LEMMA ToldOrderly ==
  ASSUME NEW x \in ConnType, Orderly(x), x.link = "open", x.peer # "gone",
         x.taken <= Len(x.sent),
         NEW task \in {"read", "idle"}, NEW link \in {"open", "shut"},
         \/ x.task = "reply" /\ task = "read" /\ link = "open"
         \/ x.task = "farewell" /\ task = "idle" /\ link = "shut"
  PROVE  Orderly(Told(x, task, link))
<1> DEFINE y == Told(x, task, link)
<1>1. /\ y.task = task /\ y.link = link
      /\ y.answers = Append(x.answers, x.reply) /\ Len(y.answers) = Len(x.answers) + 1
      /\ y.taken = x.taken /\ y.sent = x.sent /\ y.peer = x.peer
  BY ToldFields
<1> HIDE DEF y
<1>2. /\ x.answers \in Seq(AnswerType) /\ x.reply \in AnswerType
      /\ Len(x.answers) \in Nat /\ Len(x.sent) \in Nat /\ x.taken \in Nat
  BY DEF ConnType
<1>3. /\ \A n \in 1 .. Len(x.answers) : y.answers[n] = x.answers[n]
      /\ y.answers[Len(x.answers) + 1] = x.reply
  BY <1>1, <1>2
<1>4. \A n \in 1 .. Len(x.answers) :
        IF n <= Len(x.sent) THEN Fits(x.sent[n].req, y.answers[n])
        ELSE n = Len(x.sent) + 1 /\ x.peer # "here" /\ y.answers[n] = Answer("ServerError", None)
  BY <1>3 DEF Orderly, InOrder
<1> DEFINE m == Len(x.answers) + 1
<1>5. IF m <= Len(x.sent) THEN Fits(x.sent[m].req, x.reply)
      ELSE m = Len(x.sent) + 1 /\ x.peer # "here" /\ x.reply = Answer("ServerError", None)
  <2>1. CASE x.task = "reply"
    BY <1>2, <2>1 DEF Orderly, Owed
  <2>2. CASE x.task = "farewell"
    BY <1>2, <2>2 DEF Orderly, Owed
  <2> QED
    BY <2>1, <2>2
<1>6. InOrder(y)
  BY <1>1, <1>2, <1>3, <1>4, <1>5 DEF InOrder
<1>7. Owed(y)
  BY <1>1, <1>2 DEF Orderly, Owed
<1> QED
  BY <1>1, <1>6, <1>7 DEF Orderly, y

\* The steps of a task that write an answer, or find that nobody will read it.
LEMMA OrderAnswer ==
  ASSUME OrderInv, TypeOK', NEW c \in Conn, WriteAnswer(c) \/ WriteInVain(c) \/ Lost(c)
  PROVE  OrderInv'
<1>1. /\ conn[c] \in ConnType /\ Orderly(conn[c]) /\ conn[c].taken <= Len(conn[c].sent)
      /\ conn[c].task # "idle" <=> conn[c].link = "open"
  BY ConnFacts DEF Coherent
<1>2. CASE WriteAnswer(c)
  <2>1. PICK task \in {"read", "idle"}, link \in {"open", "shut"} :
          /\ conn' = [conn EXCEPT ![c] = Told(conn[c], task, link)]
          /\ \/ conn[c].task = "reply" /\ task = "read" /\ link = "open"
             \/ conn[c].task = "farewell" /\ task = "idle" /\ link = "shut"
    BY <1>2 DEF WriteAnswer
  <2>2. conn[c].peer # "gone" /\ conn[c].link = "open"
    BY <1>1, <1>2 DEF WriteAnswer
  <2>3. Orderly(Told(conn[c], task, link))
    BY <1>1, <2>1, <2>2, ToldOrderly
  <2> QED
    BY <2>1, <2>3, OrderOne
<1>3. CASE WriteInVain(c)
  <2> DEFINE x == [conn[c] EXCEPT !.task = "read", !.reply = NoAnswer]
  <2>1. conn' = [conn EXCEPT ![c] = x] /\ conn[c].peer = "gone" /\ conn[c].link = "open"
    BY <1>1, <1>3 DEF WriteInVain, OrderInv, TypeOK
  <2>2. x.sent = conn[c].sent /\ x.peer = "gone" /\ x.link = "open" /\ x.answers = conn[c].answers
    BY <1>1, <2>1 DEF ConnType
  <2> HIDE DEF x
  <2>3. Orderly(x)
    BY <1>1, <2>1, <2>2 DEF Orderly, InOrder, Owed
  <2> QED
    BY <2>1, <2>3, OrderOne
<1>4. CASE Lost(c)
  BY <1>4, CloseOrderly DEF Lost
<1> QED
  BY <1>2, <1>3, <1>4

\* The ends of a connection, and its beginning.
LEMMA OrderEnds ==
  ASSUME OrderInv, TypeOK', NEW c \in Conn, ReadEnd(c) \/ ReadCut(c) \/ Vanish(c) \/ Accept(c)
  PROVE  OrderInv'
<1>1. /\ conn[c] \in ConnType /\ Orderly(conn[c]) /\ Coherent(conn[c], pend[c] # NoWrite, Len(writes))
      /\ Len(conn[c].sent) \in Nat /\ Len(conn[c].answers) \in Nat
  BY ConnFacts
<1>2. CASE ReadEnd(c)
  BY <1>2, CloseOrderly DEF ReadEnd
<1>3. CASE ReadCut(c)
  <2> DEFINE a == Answer("ServerError", None)
             x == [conn[c] EXCEPT !.task = "farewell", !.reply = a, !.peer = "cut"]
  <2>1. AtEnd(c) /\ conn' = [conn EXCEPT ![c] = x] /\ conn[c].link = "open"
    BY <1>1, <1>3 DEF ReadCut, AtEnd, OrderInv, TypeOK, Coherent
  <2>2. /\ x.task = "farewell" /\ x.reply = a /\ x.peer = "cut" /\ x.link = "open"
        /\ x.sent = conn[c].sent /\ x.answers = conn[c].answers /\ x.taken = conn[c].taken
    BY <1>1, <2>1 DEF ConnType
  <2> HIDE DEF x
  <2>3. InOrder(x)
    BY <1>1, <2>1, <2>2 DEF Orderly, InOrder
  <2>4. Owed(x)
    BY <1>1, <2>1, <2>2 DEF Orderly, Owed, AtEnd
  <2> QED
    BY <2>1, <2>2, <2>3, <2>4, OrderOne DEF Orderly
<1>4. CASE Vanish(c)
  <2> DEFINE x == [conn[c] EXCEPT !.peer = "gone"]
  <2>1. conn' = [conn EXCEPT ![c] = x] /\ conn[c].link = "open"
    BY <1>4 DEF Vanish, IsOpen, OrderInv, TypeOK
  <2>2. x \in ConnType /\ x.sent = conn[c].sent /\ x.peer = "gone" /\ x.link = "open" /\ x.answers = conn[c].answers
    BY <1>1, <2>1 DEF ConnType
  <2> HIDE DEF x
  <2>3. InOrder(conn[c])
    BY <1>1 DEF Orderly
  <2>4. Orderly(x)
    BY <1>1, <2>2, <2>3, FewerAnswers
  <2> QED
    BY <2>1, <2>4, OrderOne
<1>5. CASE Accept(c)
  <2> DEFINE x == [conn[c] EXCEPT !.link = "open", !.task = "read"]
  <2>1. conn' = [conn EXCEPT ![c] = x] /\ conn[c] = NoConn
    BY <1>1, <1>5 DEF Accept, Orderly, OrderInv, TypeOK
  <2>2. /\ x.answers = <<>> /\ x.taken = 0 /\ x.peer = "here" /\ x.link = "open" /\ x.task = "read"
    BY <2>1 DEF NoConn
  <2> HIDE DEF x
  <2>3. Orderly(x)
    BY <2>2 DEF Orderly, InOrder, Owed
  <2> QED
    BY <2>1, <2>3, OrderOne
<1> QED
  BY <1>2, <1>3, <1>4, <1>5

\* A frame sent is one more to be answered.
LEMMA OrderSend ==
  ASSUME OrderInv, TypeOK', NEW c \in Conn, NEW r \in Requests, Send(c, r)
  PROVE  OrderInv'
<1> DEFINE id == IF IsWrite(r) THEN Len(writes) + 1 ELSE 0
           f == [req |-> r, id |-> id, after |-> acked]
           x == [conn[c] EXCEPT !.sent = Append(@, f)]
<1>1. /\ conn[c] \in ConnType /\ Orderly(conn[c]) /\ conn[c].sent \in Seq(FrameType)
      /\ conn[c].taken \in 0 .. Len(conn[c].sent)
      /\ Coherent(conn[c], pend[c] # NoWrite, Len(writes))
      /\ Len(conn[c].sent) \in Nat /\ Len(conn[c].answers) \in Nat
  BY ConnFacts
<1>2. /\ conn[c].link = "open" /\ conn[c].peer = "here" /\ conn' = [conn EXCEPT ![c] = x]
  BY DEF Send, IsOpen, OrderInv, TypeOK
<1>3. f \in FrameType
  <2>1. Len(writes) \in Nat /\ acked \subseteq Nat
    BY DEF OrderInv, TypeOK
  <2>2. id \in Nat
    BY <2>1
  <2> HIDE DEF id
  <2> QED
    BY <2>1, <2>2 DEF FrameType
<1> HIDE DEF f
<1>4. /\ x.sent = Append(conn[c].sent, f) /\ x.taken = conn[c].taken /\ x.answers = conn[c].answers
      /\ x.task = conn[c].task /\ x.link = "open" /\ x.reply = conn[c].reply /\ x.peer = "here"
  <2>1. 0 \in Nat
    OBVIOUS
  <2> QED
    BY <1>1, <1>2, <1>3, <2>1, ClientFields, Zenon
<1> HIDE DEF x
<1>5. /\ Len(x.sent) = Len(conn[c].sent) + 1
      /\ \A n \in 1 .. Len(conn[c].sent) : x.sent[n] = conn[c].sent[n]
  BY <1>1, <1>3, <1>4
<1>6. \A n \in 1 .. Len(conn[c].answers) : n \in 1 .. Len(conn[c].sent) /\ Fits(conn[c].sent[n].req, conn[c].answers[n])
  BY <1>1, <1>2 DEF Orderly, InOrder
<1>7. InOrder(x)
  BY <1>1, <1>4, <1>5, <1>6 DEF InOrder
<1>8. conn[c].task \in {"run", "reply"} => conn[c].taken \in 1 .. Len(conn[c].sent)
  BY <1>1, <1>2 DEF Orderly, Owed
<1>9. Owed(x)
  BY <1>1, <1>2, <1>4, <1>5, <1>8 DEF Orderly, Owed
<1> QED
  BY <1>2, <1>4, <1>7, <1>9, OrderOne DEF Orderly

\* Reading an answer changes none.
LEMMA OrderHear ==
  ASSUME OrderInv, TypeOK', NEW c \in Conn, Hear(c)
  PROVE  OrderInv'
<1> DEFINE n == conn[c].heard + 1
           y == [conn[c] EXCEPT !.heard = n]
<1>1. conn[c] \in ConnType /\ Orderly(conn[c]) /\ n \in Nat
  BY ConnFacts
<1>2. conn' = [conn EXCEPT ![c] = Settled(y)] /\ conn[c].link # "none"
  <2>1. conn' = [conn EXCEPT ![c] = Settled(y)] /\ n <= Len(conn[c].answers)
    BY DEF Hear, OrderInv, TypeOK
  <2>2. conn[c].link = "none" => Len(conn[c].answers) = 0 /\ conn[c].heard = 0
    BY <1>1 DEF Orderly, NoConn
  <2> QED
    BY <2>1, <2>2
<1> HIDE DEF n
<1>3. /\ y.taken = conn[c].taken /\ y.sent = conn[c].sent /\ y.answers = conn[c].answers
      /\ y.task = conn[c].task /\ y.link = conn[c].link /\ y.reply = conn[c].reply /\ y.peer = conn[c].peer
  BY <1>1 DEF ConnType
<1> HIDE DEF y
<1>4. InOrder(y)
  BY <1>1, <1>3 DEF Orderly, InOrder
<1>5. Owed(y)
  BY <1>1, <1>3 DEF Orderly, Owed
<1>6. Orderly(Settled(y))
  BY <1>2, <1>3, <1>4, <1>5, NoConnOrderly DEF Settled, Orderly
<1> QED
  BY <1>2, <1>6, OrderOne

\* Every step keeps the order.
LEMMA OrderStep == OrderInv /\ [Next]_vars => OrderInv'
<1> SUFFICES ASSUME OrderInv, [Next]_vars PROVE OrderInv'
  OBVIOUS
<1>1. TypeOK'
  BY TypeStep DEF OrderInv
<1>2. ASSUME NEW c \in Conn, ClientStep(c) PROVE OrderInv'
  BY <1>1, <1>2, OrderSend, OrderHear, OrderEnds DEF ClientStep
<1>3. ASSUME NEW c \in Conn, TaskStep(c) PROVE OrderInv'
  BY <1>1, <1>3, OrderTake, OrderReturn, OrderAnswer DEF TaskStep
<1>4. ASSUME NEW c \in Conn, Accept(c) PROVE OrderInv'
  BY <1>1, <1>4, OrderEnds
<1>5. CASE Stop
  <2>1. ASSUME NEW c \in Conn PROVE Orderly(conn'[c])
    <3>1. IF IsOpen(c) THEN conn'[c] \in Shut(c, TRUE) ELSE conn'[c] = conn[c]
      BY <1>5 DEF Stop
    <3>2. CASE IsOpen(c)
      BY <3>1, <3>2, ShutOrderly
    <3>3. CASE ~ IsOpen(c)
      BY <3>1, <3>3 DEF OrderInv
    <3> QED
      BY <3>2, <3>3
  <2> QED
    BY <1>1, <2>1 DEF OrderInv
<1>6. CASE Start \/ UNCHANGED vars
  <2>1. conn' = conn
    BY <1>6 DEF Start, vars
  <2> QED
    BY <1>1, <2>1 DEF OrderInv
<1> QED
  BY <1>2, <1>3, <1>4, <1>5, <1>6 DEF Next

\* The n-th answer a client is sent is the answer to its n-th frame: for any
\* number of connections and of requests sent ahead, with malformed frames,
\* truncated messages, failing writes and stops of the server.
THEOREM AnswersCorrect == Spec => []AnswersInOrder
<1>1. Init => OrderInv
  <2> SUFFICES ASSUME Init PROVE OrderInv
    OBVIOUS
  <2>1. \A c \in Conn : conn[c] = NoConn
    BY DEF Init
  <2> QED
    BY <2>1, TypeInit, NoConnOrderly DEF OrderInv
<1>2. OrderInv => AnswersInOrder
  BY DEF OrderInv, Orderly, AnswersInOrder
<1> QED
  BY <1>1, <1>2, OrderStep, PTL DEF Spec

=============================================================================
