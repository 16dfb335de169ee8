----------------------------- MODULE FileHandler -----------------------------
(***************************************************************************)
(* FileHandler (src/db/file.rs): one spawned task owns the file and serves *)
(* commands from a bounded mpsc channel; each command carries a oneshot    *)
(* sender for its answer.  A caller awaits a place in the channel, then    *)
(* the answer, and its future may be dropped at either point.  When the    *)
(* handle is dropped the task drains the channel and ends.                 *)
(***************************************************************************)
EXTENDS FileCommands

CONSTANTS
  Client,     \* tasks that share the handle
  Command,    \* the commands they use
  NoAnswer,   \* no answer to pick up
  Capacity,   \* capacity of the channel (32 in the code)
  IoErrors,   \* seeks, writes, set_len and syncs may fail
  MaxCmds     \* bound on the number of commands

ASSUME HandlerAssumption ==
  /\ Capacity \in Nat \ {0}
  /\ IoErrors \in BOOLEAN
  /\ MaxCmds \in Nat

\* The commands of enum FileCmd, and the answers to them.
ASSUME CommandAssumption ==
  \A cmd \in Command : \/ cmd \in [op : {"append"}, data : Seq(Byte)]
                       \/ cmd \in [op : {"write_at"}, pos : Nat, data : Seq(Byte)]
                       \/ cmd \in [op : {"set_len"}, len : Nat]
                       \/ cmd \in [op : {"sync_all", "read_all"}]

Replies ==
  {Err} \cup [op : {"read_all"}, content : Seq(Byte)]
        \cup [op : {"append"}, at : Nat]
        \cup [op : {"write_at", "set_len", "sync_all"}]

ASSUME NoAnswerAssumption == NoAnswer \notin Client /\ NoAnswer \notin Replies

VARIABLES
  file,     \* content of the file
  synced,   \* its content at the last sync_all
  queue,    \* the channel: [client, no, cmd, wanted], no the number of the call
  task,     \* the handler task: "recv", "seek", "work" or "stopped"
  cur,      \* the command it serves
  start,    \* the file position after its seek
  done,     \* bytes of its data written so far
  base,     \* history: the file when it was received
  phase,    \* per caller: "idle", "sending", "waiting" or "answered"
  request,  \* per caller: what it is about to send
  reply,    \* per caller: the answer in its oneshot channel
  open,     \* the handle exists
  cmds      \* number of calls made

fileVars   == <<file, synced>>
taskVars   == <<task, cur, start, done, base>>
callerVars == <<phase, request, reply>>
vars == <<fileVars, queue, taskVars, callerVars, open, cmds>>

NoCmd == [op |-> "none"]
Nobody == [client |-> NoAnswer, no |-> 0, cmd |-> NoCmd, wanted |-> FALSE]
Entry == [client : Client, no : Nat, cmd : Command, wanted : BOOLEAN]
Busy == task \in {"seek", "work"}

TypeOK ==
  /\ file \in Seq(Byte) /\ synced \in Seq(Byte) /\ base \in Seq(Byte)
  /\ queue \in Seq(Entry) /\ Len(queue) <= Capacity
  /\ task \in {"recv", "seek", "work", "stopped"}
  /\ cur \in Entry \cup {Nobody} /\ (Busy <=> cur # Nobody)
  /\ start \in Nat /\ done \in Nat
  /\ phase \in [Client -> {"idle", "sending", "waiting", "answered"}]
  /\ request \in [Client -> Entry \cup {Nobody}]
  /\ reply \in [Client -> Replies \cup {NoAnswer}]
  /\ open \in BOOLEAN /\ cmds \in Nat

Init ==
  /\ file = <<>> /\ synced = <<>>
  /\ queue = <<>>
  /\ task = "recv" /\ cur = Nobody /\ start = 0 /\ done = 0 /\ base = <<>>
  /\ phase = [c \in Client |-> "idle"]
  /\ request = [c \in Client |-> Nobody]
  /\ reply = [c \in Client |-> NoAnswer]
  /\ open = TRUE /\ cmds = 0

-----------------------------------------------------------------------------
(***************************************************************************)
(* Callers.                                                                *)
(***************************************************************************)

Call(c, cmd) ==
  /\ open /\ phase[c] = "idle" /\ cmds < MaxCmds
  /\ phase' = [phase EXCEPT ![c] = "sending"]
  /\ cmds' = cmds + 1
  /\ request' = [request EXCEPT
                   ![c] = [client |-> c, no |-> cmds + 1, cmd |-> cmd, wanted |-> TRUE]]
  /\ UNCHANGED <<fileVars, queue, taskVars, reply, open>>

\* tx.send waits for a place in the channel.
Send(c) ==
  /\ phase[c] = "sending"
  /\ Len(queue) < Capacity
  /\ queue' = Append(queue, request[c])
  /\ phase' = [phase EXCEPT ![c] = "waiting"]
  /\ request' = [request EXCEPT ![c] = Nobody]
  /\ UNCHANGED <<fileVars, taskVars, reply, open, cmds>>

Return(c) ==
  /\ phase[c] = "answered"
  /\ phase' = [phase EXCEPT ![c] = "idle"]
  /\ reply' = [reply EXCEPT ![c] = NoAnswer]
  /\ UNCHANGED <<fileVars, queue, taskVars, request, open, cmds>>

\* Its oneshot receiver is gone: nobody wants the answer any more.
Unwanted(e, c) == IF e.client = c THEN [e EXCEPT !.wanted = FALSE] ELSE e

\* The future of the call is dropped.
Cancel(c) ==
  /\ phase[c] # "idle"
  /\ phase' = [phase EXCEPT ![c] = "idle"]
  /\ request' = [request EXCEPT ![c] = Nobody]
  /\ reply' = [reply EXCEPT ![c] = NoAnswer]
  /\ queue' = [i \in DOMAIN queue |-> Unwanted(queue[i], c)]
  /\ cur' = Unwanted(cur, c)
  /\ UNCHANGED <<fileVars, task, start, done, base, open, cmds>>

DropHandle ==
  /\ open
  /\ \A c \in Client : phase[c] = "idle"
  /\ open' = FALSE
  /\ UNCHANGED <<fileVars, queue, taskVars, callerVars, cmds>>

-----------------------------------------------------------------------------
(***************************************************************************)
(* The task.                                                               *)
(***************************************************************************)

\* Mutated form: the newest command first.
RecvNewest ==
  /\ task = "recv" /\ queue # <<>>
  /\ cur' = queue[Len(queue)]
  /\ queue' = SubSeq(queue, 1, Len(queue) - 1)
  /\ base' = file
  /\ task' = "seek"
  /\ UNCHANGED <<fileVars, start, done, callerVars, open, cmds>>

Recv ==
  /\ task = "recv" /\ queue # <<>>
  /\ cur' = Head(queue)
  /\ queue' = Tail(queue)
  /\ base' = file
  /\ task' = "seek"
  /\ UNCHANGED <<fileVars, start, done, callerVars, open, cmds>>

\* Mutated form: a position counted from the other side of the end.
SeekBeforeEnd ==
  /\ task = "seek"
  /\ start' = IF IsWrite(cur.cmd) THEN WriteStart(cur.cmd, file) - 1 ELSE 0
  /\ task' = "work"
  /\ UNCHANGED <<fileVars, queue, cur, done, base, callerVars, open, cmds>>

\* SeekFrom::Start(pos), SeekFrom::End(0); set_len and sync_all do not seek.
Seek ==
  /\ task = "seek"
  /\ start' = IF IsWrite(cur.cmd) THEN WriteStart(cur.cmd, file) ELSE 0
  /\ task' = "work"
  /\ UNCHANGED <<fileVars, queue, cur, done, base, callerVars, open, cmds>>

\* write_all goes through the data piece by piece.
WritePiece ==
  /\ task = "work" /\ IsWrite(cur.cmd) /\ done < Len(cur.cmd.data)
  /\ file' = Overwrite(file, start + done, <<cur.cmd.data[done + 1]>>)
  /\ done' = done + 1
  /\ UNCHANGED <<synced, queue, task, cur, start, base, callerVars, open, cmds>>

\* Mutated form: the task ends when an answer cannot be delivered.
ReplyOrDie(a) ==
  /\ IF cur.wanted
     THEN /\ reply' = [reply EXCEPT ![cur.client] = a]
          /\ phase' = [phase EXCEPT ![cur.client] = "answered"]
          /\ task' = "recv"
     ELSE task' = "stopped" /\ UNCHANGED <<reply, phase>>
  /\ cur' = Nobody /\ start' = 0 /\ done' = 0 /\ base' = <<>>
  /\ UNCHANGED <<queue, request, open, cmds>>

\* let _ = resp.send(res): an answer nobody waits for is dropped.
Reply(a) ==
  /\ task' = "recv"
  /\ IF cur.wanted
     THEN /\ reply' = [reply EXCEPT ![cur.client] = a]
          /\ phase' = [phase EXCEPT ![cur.client] = "answered"]
     ELSE UNCHANGED <<reply, phase>>
  /\ cur' = Nobody /\ start' = 0 /\ done' = 0 /\ base' = <<>>
  /\ UNCHANGED <<queue, request, open, cmds>>

FinishWrite ==
  /\ task = "work" /\ IsWrite(cur.cmd) /\ done = Len(cur.cmd.data)
  /\ Reply(IF cur.cmd.op = "append" THEN [op |-> "append", at |-> start] ELSE [op |-> "write_at"])
  /\ UNCHANGED fileVars

FinishReadAll ==
  /\ task = "work" /\ cur.cmd.op = "read_all"
  /\ Reply([op |-> "read_all", content |-> SubSeq(file, start + 1, Len(file))])
  /\ UNCHANGED fileVars

FinishSetLen ==
  /\ task = "work" /\ cur.cmd.op = "set_len"
  /\ file' = Resize(file, cur.cmd.len)
  /\ Reply([op |-> "set_len"])
  /\ UNCHANGED synced

FinishSyncAll ==
  /\ task = "work" /\ cur.cmd.op = "sync_all"
  /\ synced' = file
  /\ Reply([op |-> "sync_all"])
  /\ UNCHANGED file

\* Any await of the command fails; what was written stays.
CommandError ==
  /\ IoErrors /\ Busy
  /\ Reply(Err)
  /\ UNCHANGED fileVars

\* Mutated form: the task ends as soon as the handle is gone.
StopAtOnce ==
  /\ task = "recv" /\ ~ open
  /\ task' = "stopped"
  /\ UNCHANGED <<fileVars, queue, cur, start, done, base, callerVars, open, cmds>>

\* rx.recv returns None: no sender is left and the channel is empty.
Stop ==
  /\ task = "recv" /\ ~ open /\ queue = <<>>
  /\ task' = "stopped"
  /\ UNCHANGED <<fileVars, queue, cur, start, done, base, callerVars, open, cmds>>

-----------------------------------------------------------------------------
TaskStep ==
  Recv \/ Seek \/ WritePiece \/ FinishWrite \/ FinishReadAll \/ FinishSetLen \/ FinishSyncAll \/ Stop

CallerStep(c) ==
  (\E cmd \in Command : Call(c, cmd)) \/ Send(c) \/ Return(c) \/ Cancel(c)

\* The task has ended and nobody can call it any more.
Over == task = "stopped" /\ UNCHANGED vars

Next == TaskStep \/ CommandError \/ (\E c \in Client : CallerStep(c)) \/ DropHandle \/ Over

Spec == Init /\ [][Next]_vars

\* The runtime keeps polling the task and the callers; the channel hands out
\* its places in the order they were asked for.
Fairness == WF_vars(TaskStep) /\ \A c \in Client : SF_vars(Send(c)) /\ WF_vars(Return(c))

FairSpec == Spec /\ Fairness

-----------------------------------------------------------------------------
(***************************************************************************)
(* Properties.                                                             *)
(***************************************************************************)

\* The commands that have not taken effect: the one being served, those in
\* the channel, those waiting for a place.
Unserved ==
  (IF Busy THEN {cur} ELSE {})
    \cup {queue[i] : i \in 1 .. Len(queue)}
    \cup {request[c] : c \in {d \in Client : phase[d] = "sending"}}

Atomic == INSTANCE AtomicFile WITH
  content <- IF Busy THEN base ELSE file,
  durable <- synced,
  issued  <- Unserved,
  answer  <- reply,
  calls   <- cmds

\* Seen by its callers the handler is an atomic file: no command sees part of
\* another one, append returns where its data went, an abandoned command is
\* still ordered before the caller's later ones, and an answer never reaches
\* a later call.
ImplementsAtomicFile == Atomic!Spec

\* Every call is answered, also while other callers keep the channel full or
\* abandon theirs.
CallsAnswered ==
  \A c \in Client : phase[c] \in {"sending", "waiting"} ~> phase[c] \in {"answered", "idle"}

\* After the handle is dropped every command sent is still executed and the
\* task ends, which closes the file.
DrainsAndStops == ~ open ~> (task = "stopped" /\ queue = <<>> /\ cur = Nobody)

=============================================================================
