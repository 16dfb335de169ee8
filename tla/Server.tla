------------------------------- MODULE Server -------------------------------
(***************************************************************************)
(* The TCP server: src/server/server.rs, one task per connection over one  *)
(* Database.                                                               *)
(*                                                                         *)
(* A connection is a caller of Store, the abstraction that Database        *)
(* implements when nothing calls flush, as here.  Frames and answers are   *)
(* messages (their bytes are in Protocol).  Clients may send many requests *)
(* before they read, stop in the middle of a message, close or vanish.     *)
(***************************************************************************)
EXTENDS Store, Sequences, SequencesExt

CONSTANTS
  Requests,  \* the frames clients send: [cmd, key, val]
  MaxSent,   \* bound on the frames of one connection
  MaxFrames, \* bound on the frames ever sent
  Window,    \* answers a client that does not read can be sent
  MaxFaults  \* bound on malformed frames, broken connections and stops

Conn == Task
Cmds == {"Ping", "Get", "Keys", "Set", "Del",
         "Bad",         \* decode_request returns Err
         "Unreadable"}  \* decode_request panics

ASSUME ServerAssumption ==
  /\ Requests \subseteq [cmd : Cmds, key : Key, val : Value \cup {None}]
  /\ \A r \in Requests : r.cmd = "Set" <=> r.val # None
  /\ Window \in Nat \ {0}

VARIABLES
  conn,    \* the connections
  writes,  \* history: the sets and deletes sent, in that order
  ended,   \* history: those whose answer was read, or that a stop cut off
  acked,   \* history: those whose Ok was read
  frames,  \* how many frames were sent
  faults   \* how many malformed frames, broken connections and stops

history == <<writes, ended, acked, frames, faults>>
vars == <<storeVars, conn, history>>

Answer(status, val) == [status |-> status, val |-> val]
NoAnswer == Answer("none", None)

\* link:  "none", "open", "shut" (by the server, with answers left to read)
\* task:  "idle", "read", "run" (in a set or delete), "reply", "farewell"
\* peer:  "here", "cut" (it stopped in the middle of a message), "gone" (reset)
\* sent:  the frames, each with its place in writes (0 for none) and with the
\*        writes acknowledged before; taken of them were read by the task
\* answers: what the task wrote; heard of them were read by the client
NoConn == [link |-> "none", task |-> "idle", peer |-> "here", sent |-> <<>>, taken |-> 0,
           reply |-> NoAnswer, answers |-> <<>>, heard |-> 0]

IsWrite(r) == r.cmd \in {"Set", "Del"}
IsOpen(c) == conn[c].link = "open"

AnswerType == [status : {"none", "Ok", "NotFound", "Keys", "ServerError", "InvalidRequest"},
               val : Value \cup {None} \cup SUBSET Key]
FrameType == [req : Requests, id : Nat, after : SUBSET Nat]
ConnType == [link : {"none", "open", "shut"}, task : {"idle", "read", "run", "reply", "farewell"},
             peer : {"here", "cut", "gone"}, sent : Seq(FrameType), taken : Nat,
             reply : AnswerType, answers : Seq(AnswerType), heard : Nat]

\* A connection fits together, and with the store: its task is in a call exactly
\* while the store has a pending write of it.
Coherent(x, calling, n) ==
  /\ x.taken <= Len(x.sent) /\ x.heard <= Len(x.answers)
  /\ \A i \in 1 .. Len(x.sent) : x.sent[i].id <= n
  /\ x.task # "idle" <=> x.link = "open"
  /\ x.task = "run" <=> calling
  /\ x.task \in {"reply", "farewell"} <=> x.reply # NoAnswer

\* The type invariant; a connection is open only while the server is up, and
\* a write of a client that is gone stays a call of its task until it returns.
TypeOK ==
  /\ StoreTypeOK
  /\ conn \in [Conn -> ConnType]
  /\ \A c \in Conn : Coherent(conn[c], pend[c] # NoWrite, Len(writes)) /\ (IsOpen(c) => up)
  /\ writes \in Seq([key : Key, val : Value \cup {None}, before : SUBSET Nat])
  /\ acked \subseteq ended /\ ended \subseteq 1 .. Len(writes)
  /\ frames \in Nat /\ faults \in Nat

Init ==
  /\ StoreInit
  /\ conn = [c \in Conn |-> NoConn]
  /\ writes = <<>> /\ ended = {} /\ acked = {}
  /\ frames = 0 /\ faults = 0

-----------------------------------------------------------------------------
(***************************************************************************)
(* The clients.                                                            *)
(***************************************************************************)

\* A bound on the inputs: each write sent differs from the one before, so that
\* what is read tells the two apart.
Differs(r) == IsWrite(r) => r.val # (IF writes = <<>> THEN None ELSE Last(writes).val)

\* send_request.  A write comes after the earlier writes of its connection and
\* after those that had ended.
Send(c, r) ==
  LET id == IF IsWrite(r) THEN Len(writes) + 1 ELSE 0
      mine == {conn[c].sent[i].id : i \in 1 .. Len(conn[c].sent)} \ {0}
  IN /\ IsOpen(c) /\ conn[c].peer = "here" /\ Differs(r)
     /\ Len(conn[c].sent) < MaxSent /\ frames < MaxFrames
     /\ conn' = [conn EXCEPT ![c].sent = Append(@, [req |-> r, id |-> id, after |-> acked])]
     /\ writes' = IF id = 0 THEN writes
                  ELSE Append(writes, [key |-> r.key, val |-> r.val, before |-> ended \cup mine])
     /\ frames' = frames + 1
     /\ faults' = faults + (IF r.cmd \in {"Bad", "Unreadable"} THEN 1 ELSE 0) /\ faults' <= MaxFaults
     /\ UNCHANGED <<storeVars, ended, acked>>

\* The client resets the connection.
Vanish(c) ==
  /\ IsOpen(c) /\ conn[c].peer # "gone" /\ faults < MaxFaults
  /\ conn' = [conn EXCEPT ![c].peer = "gone"]
  /\ faults' = faults + 1
  /\ UNCHANGED <<storeVars, writes, ended, acked, frames>>

\* A client that has read all there is finds its connection closed.
Settled(x) == IF x.link = "shut" /\ (x.peer = "gone" \/ x.heard = Len(x.answers)) THEN NoConn ELSE x

\* read_response.
Hear(c) ==
  LET n == conn[c].heard + 1
      id == conn[c].sent[n].id
  IN /\ conn[c].peer # "gone" /\ n <= Len(conn[c].answers)
     /\ conn' = [conn EXCEPT ![c] = Settled([@ EXCEPT !.heard = n])]
     /\ IF n > Len(conn[c].sent) \/ id = 0 THEN UNCHANGED <<ended, acked>>
        ELSE /\ ended' = ended \cup {id}
             /\ acked' = IF conn[c].answers[n].status = "Ok" THEN acked \cup {id} ELSE acked
     /\ UNCHANGED <<storeVars, writes, frames, faults>>

-----------------------------------------------------------------------------
(***************************************************************************)
(* The server.                                                             *)
(***************************************************************************)

\* What becomes of a connection whose stream is dropped.  Closing it with
\* frames unread resets it, and the client may lose answers.
Shut(c, reset) ==
  {Settled([conn[c] EXCEPT !.link = "shut", !.task = "idle", !.reply = NoAnswer,
                           !.answers = SubSeq(@, 1, n)]) :
     n \in IF reset THEN conn[c].heard .. Len(conn[c].answers) ELSE {Len(conn[c].answers)}}

Close(c) ==
  \E shut \in Shut(c, conn[c].taken < Len(conn[c].sent)) : conn' = [conn EXCEPT ![c] = shut]

\* run: a client connects and gets a task.
Accept(c) ==
  /\ up /\ conn[c].link = "none"
  /\ conn' = [conn EXCEPT ![c].link = "open", ![c].task = "read"]
  /\ UNCHANGED <<storeVars, history>>

\* run returns the error of accept and main ends with it, or the process is
\* killed: every task is dropped at its await, and no client will be answered.
Stop ==
  /\ faults < MaxFaults
  /\ Crash
  /\ conn' \in {s \in [Conn -> UNION {{conn[c]} \cup Shut(c, TRUE) : c \in Conn}] :
                  \A c \in Conn : IF IsOpen(c) THEN s[c] \in Shut(c, TRUE) ELSE s[c] = conn[c]}
  /\ ended' = 1 .. Len(writes)
  /\ faults' = faults + 1
  /\ UNCHANGED <<writes, acked, frames>>

\* main: Database::open, then run.
Start == Restart /\ UNCHANGED <<conn, history>>

\* Mutated form: no task of its own; a connection waits until the first is closed.
TakeInTurn(c, cmds) ==
  /\ LET first == CHOOSE d \in Conn : TRUE IN c = first \/ ~ IsOpen(first)
  /\ conn[c].task = "read" /\ conn[c].taken < Len(conn[c].sent)
  /\ conn[c].sent[conn[c].taken + 1].req.cmd \in cmds

\* The task has read a whole frame with this command.
Take(c, cmds) ==
  /\ conn[c].task = "read" /\ conn[c].taken < Len(conn[c].sent)
  /\ conn[c].sent[conn[c].taken + 1].req.cmd \in cmds

Replying(c, taken, answer) ==
  conn' = [conn EXCEPT ![c].taken = taken, ![c].task = "reply", ![c].reply = answer]

\* Mutated form: a frame that cannot be decoded is skipped.
RefuseSilently(c) ==
  /\ Take(c, {"Bad"})
  /\ conn' = [conn EXCEPT ![c].taken = @ + 1]
  /\ UNCHANGED <<storeVars, history>>

\* decode_request returned an error: InvalidRequest, and the next frame.
Refuse(c) ==
  /\ Take(c, {"Bad"})
  /\ Replying(c, conn[c].taken + 1, Answer("InvalidRequest", None))
  /\ UNCHANGED <<storeVars, history>>

\* decode_request panicked: the task ends without a word.
Panic(c) ==
  /\ Take(c, {"Unreadable"})
  /\ Close(c)
  /\ UNCHANGED <<storeVars, history>>

\* handle_request for Ping, Get and Keys.
Look(r) ==
  CASE r.cmd = "Ping" -> Answer("Ok", None)
    [] r.cmd = "Get" -> IF data[r.key] = None THEN Answer("NotFound", None) ELSE Answer("Ok", data[r.key])
    [] r.cmd = "Keys" -> Answer("Keys", {k \in Key : data[k] # None})

HandleRead(c) ==
  /\ Take(c, {"Ping", "Get", "Keys"})
  /\ Replying(c, conn[c].taken + 1, Look(conn[c].sent[conn[c].taken + 1].req))
  /\ UNCHANGED <<storeVars, history>>

\* handle_request calls set or delete, and waits for it.
HandleWrite(c) ==
  LET r == conn[c].sent[conn[c].taken + 1].req
  IN /\ Take(c, {"Set", "Del"})
     /\ Begin(c, r.key, r.val)
     /\ conn' = [conn EXCEPT ![c].taken = @ + 1, ![c].task = "run"]
     /\ UNCHANGED history

\* Mutated form: the task of a client that is gone does not wait for the call.
FinishWriteUnlessGone(c) ==
  IF conn[c].peer = "gone" /\ conn[c].task = "run"
  THEN Close(c) /\ UNCHANGED <<storeVars, history>>
  ELSE Finish(c) /\ Replying(c, conn[c].taken, Answer("Ok", None)) /\ UNCHANGED history

\* Mutated form: every call is answered with Ok.
FailWriteOk(c) ==
  /\ Fail(c)
  /\ Replying(c, conn[c].taken, Answer("Ok", None))
  /\ UNCHANGED history

\* The call returned: Ok(None) also for a delete of a key that is not there.
FinishWrite(c) == Finish(c) /\ Replying(c, conn[c].taken, Answer("Ok", None)) /\ UNCHANGED history
FailWrite(c) == Fail(c) /\ Replying(c, conn[c].taken, Answer("ServerError", None)) /\ UNCHANGED history

\* write_all(framed), once the client has left room for it.
Told(x, task, link) ==
  [x EXCEPT !.answers = Append(@, x.reply), !.reply = NoAnswer, !.task = task, !.link = link]

WriteAnswer(c) ==
  /\ conn[c].peer # "gone" /\ Len(conn[c].answers) - conn[c].heard < Window
  /\ \/ conn[c].task = "reply" /\ conn' = [conn EXCEPT ![c] = Told(@, "read", "open")]
     \/ conn[c].task = "farewell" /\ conn' = [conn EXCEPT ![c] = Told(@, "idle", "shut")]
  /\ UNCHANGED <<storeVars, history>>

\* To a client that is gone the task may still write, nobody will read it.
WriteInVain(c) ==
  /\ conn[c].peer = "gone" /\ conn[c].task = "reply"
  /\ conn' = [conn EXCEPT ![c].task = "read", ![c].reply = NoAnswer]
  /\ UNCHANGED <<storeVars, history>>

\* A write to, or a read from, a client that is gone: the loop is left.
Lost(c) ==
  /\ conn[c].peer = "gone" /\ conn[c].task \in {"read", "reply", "farewell"}
  /\ Close(c)
  /\ UNCHANGED <<storeVars, history>>

\* The client has closed its side: before a message or in its length, and the
\* loop is left; in the message, and it is left after an answer.
AtEnd(c) == conn[c].task = "read" /\ conn[c].taken = Len(conn[c].sent) /\ conn[c].peer = "here"

ReadEnd(c) ==
  /\ AtEnd(c)
  /\ Close(c)
  /\ UNCHANGED <<storeVars, history>>

ReadCut(c) ==
  /\ AtEnd(c) /\ faults < MaxFaults
  /\ conn' = [conn EXCEPT ![c] = [@ EXCEPT !.task = "farewell", !.reply = Answer("ServerError", None),
                                           !.peer = "cut"]]
  /\ faults' = faults + 1
  /\ UNCHANGED <<storeVars, writes, ended, acked, frames>>

-----------------------------------------------------------------------------
ClientStep(c) ==
  \/ \E r \in Requests : Send(c, r)
  \/ Vanish(c) \/ ReadEnd(c) \/ ReadCut(c)
  \/ Hear(c)

TaskStep(c) ==
  \/ Refuse(c) \/ Panic(c) \/ HandleRead(c) \/ HandleWrite(c)
  \/ FinishWrite(c) \/ FailWrite(c)
  \/ WriteAnswer(c) \/ WriteInVain(c) \/ Lost(c)

Next ==
  \/ \E c \in Conn : ClientStep(c) \/ Accept(c) \/ TaskStep(c)
  \/ Stop \/ Start

\* tokio runs every task that can go on, a set or delete returns (Database,
\* CallsReturn), and a client reads what it is sent.
Fairness == \A c \in Conn : WF_vars(TaskStep(c)) /\ WF_vars(Hear(c))

Spec == Init /\ [][Next]_vars /\ Fairness

-----------------------------------------------------------------------------
(***************************************************************************)
(* Properties.                                                             *)
(***************************************************************************)

\* The answers that fit a request.
Fits(r, a) ==
  \/ r.cmd = "Ping" /\ a = Answer("Ok", None)
  \/ r.cmd = "Get" /\ ((a.status = "Ok" /\ a.val # None) \/ a = Answer("NotFound", None))
  \/ r.cmd = "Keys" /\ a.status = "Keys"
  \/ IsWrite(r) /\ a \in {Answer("Ok", None), Answer("ServerError", None)}
  \/ r.cmd = "Bad" /\ a = Answer("InvalidRequest", None)

\* The n-th answer fits the n-th frame; one more is the last, and a complaint.
InOrder(x) ==
  \A n \in 1 .. Len(x.answers) :
    IF n <= Len(x.sent) THEN Fits(x.sent[n].req, x.answers[n])
    ELSE n = Len(x.sent) + 1 /\ x.peer # "here" /\ x.answers[n] = Answer("ServerError", None)

\* The n-th answer on a connection is the answer to its n-th frame, also after
\* frames that could not be decoded and when requests are sent ahead; one answer
\* more, the last one, tells a client that it stopped in the middle of a message.
AnswersInOrder == \A c \in Conn : InOrder(conn[c])

\* The writes a client knows to come before its n-th request: those it or any
\* client had acknowledged when it was sent, and its own earlier ones.
Known(c, n) ==
  conn[c].sent[n].after
    \cup {conn[c].sent[i].id : i \in {j \in 1 .. n - 1 : IsWrite(conn[c].sent[j].req)
                                                         /\ conn[c].answers[j].status = "Ok"}}

\* A write explains what was read when none of the known writes of its key is
\* later than it; that there never was a write explains that there is no field.
Explains(k, v, known) ==
  LET later == {w \in known : writes[w].key = k}
  IN \/ v = None /\ later = {}
     \/ \E w \in 1 .. Len(writes) :
          /\ writes[w].key = k /\ writes[w].val = v
          /\ \A l \in later : w \notin writes[l].before

\* What a client reads, on any connection and across restarts of the server,
\* was written, and not before a write of that key that was acknowledged when
\* the client asked, nor before one it sent earlier itself.
ReadsRegular ==
  \A c \in Conn : \A n \in 1 .. Len(conn[c].answers) :
    LET r == conn[c].sent[n].req
        a == conn[c].answers[n]
    IN n <= Len(conn[c].sent) =>
         CASE r.cmd = "Get" -> Explains(r.key, a.val, Known(c, n))
           [] r.cmd = "Keys" ->
                \A k \in Key : IF k \in a.val THEN \E v \in Value : Explains(k, v, Known(c, n))
                               ELSE Explains(k, None, Known(c, n))
           [] OTHER -> TRUE

\* Every frame is answered, and the answer read, or the client finds its
\* connection closed: no other connection, and nothing a client sends, can keep
\* a client waiting.
Answered ==
  \A c \in Conn :
    (IsOpen(c) /\ conn[c].heard < Len(conn[c].sent)) ~> (conn[c].heard = Len(conn[c].sent))

=============================================================================
