------------------------------ MODULE Database ------------------------------
(***************************************************************************)
(* The storage engine of PeachDB: Database (src/db/db.rs) with its         *)
(* write-ahead log (src/db/wal.rs), seen as concurrent callers of set,     *)
(* delete and flush over three files, with crashes in between.             *)
(*                                                                         *)
(* Files.  FileHandler gives each file one task that executes whole        *)
(* commands in order, so a command is one atomic step here.  Each file has *)
(* two images: ...File, what a read returns and what a killed process      *)
(* leaves behind, and ...Synced, what the last sync_all made durable.      *)
(* The .db file is a sequence of records and an offset is a position in    *)
(* it: a tombstone has the size of the record it covers, so the positions  *)
(* of later records never move.                                            *)
(*                                                                         *)
(* Locks.  The state RwLock is only ever held between two awaits, so each  *)
(* section it protects is one step.  The wal Mutex is held across file     *)
(* commands and is the variable walLock.                                   *)
(*                                                                         *)
(* Left out: get and keys change nothing (they read fields), and the       *)
(* record count in the .db header is written but never read back, so       *)
(* update_record_count is a step without data.                             *)
(***************************************************************************)
EXTENDS Records

CONSTANTS
  Task,        \* concurrent callers of one open Database
  NoTask,      \* nobody holds the wal Mutex
  Calls,       \* the operations callers use, from {"set", "delete", "flush"}
  Faults,      \* from {"kill", "kill_synced", "powerloss", "torn", "ioerr", "cancel"}
  FlushAlone,  \* callers run flush only while no other call is in progress
  Created,     \* the .db header was made durable before the run starts
  MaxCalls     \* bound on the number of calls

ASSUME ParameterAssumption ==
  /\ NoTask \notin Task
  /\ FlushAlone \in BOOLEAN
  /\ Created \in BOOLEAN
  /\ MaxCalls \in Nat

VARIABLES
  dbFile, dbSynced,    \* .db: [header, recs]
  idxFile, idxSynced,  \* .dbidx: a sequence of rows
  walFile, walSynced,  \* .wal: a sequence of entries
  status,              \* "down", "up" (a Database exists) or "failed" (open returned Err)
  fields,              \* State::fields
  index,               \* State::index
  entries,             \* Wal::entries
  walLock,             \* the task holding Mutex<Wal>
  pc,                  \* where each task is in its call
  call,                \* the write each task is making
  todo,                \* flush: entries of net not yet written
  plan,                \* flush: delete_plan
  fresh,               \* flush: indexes, the entries of the records it appended
  rows,                \* rebuild_index: the encoded index
  allowed,             \* history: the fields a reader of a key may be shown
  rivals,              \* history: fields of writes that overlap a task's write
  calls                \* number of calls made

files  == <<dbFile, dbSynced, idxFile, idxSynced, walFile, walSynced>>
memory == <<status, fields, index, entries>>
locals == <<call, todo, plan, fresh, rows>>
ghosts == <<allowed, rivals, calls>>
vars   == <<files, memory, walLock, pc, locals, ghosts>>

NoCall == [key |-> None, val |-> None]
NoIndex == [k \in Key |-> NoEntry]
NoFields == [k \in Key |-> None]

WritePcs == {"append", "append_sync", "apply"}
FlushPcs == {"pop", "plan", "write", "index", "count", "clone",
             "idx_trunc", "idx_write", "idx_sync", "checkpoint", "checkpoint_sync"}
FileImage == [header : {"none", "torn", "ok"}, recs : Seq(Record \cup {Torn})]

TypeOK ==
  /\ dbFile \in FileImage /\ dbSynced \in FileImage
  /\ idxFile \in Seq(IndexRow \cup {Torn}) /\ idxSynced \in Seq(IndexRow \cup {Torn})
  /\ walFile \in Seq(WalEntry \cup {Torn}) /\ walSynced \in Seq(WalEntry \cup {Torn})
  /\ status \in {"down", "up", "failed"}
  /\ fields \in [Key -> Value \cup {None}]
  /\ index \in [Key -> IndexEntry]
  /\ entries \in Seq(WalEntry)
  /\ walLock \in Task \cup {NoTask}
  /\ pc \in [Task -> {"idle"} \cup WritePcs \cup FlushPcs]
  /\ call \in [Task -> WalEntry \cup {NoCall}]
  /\ \A t \in Task : pc[t] \in WritePcs => call[t] \in WalEntry
  /\ todo \in [Task -> SUBSET WalEntry]
  /\ plan \in [Task -> [Key -> IndexEntry]]
  /\ fresh \in [Task -> [Key -> IndexEntry]]
  /\ rows \in [Task -> Seq(IndexRow)]
  /\ allowed \in [Key -> SUBSET (Value \cup {None})]
  /\ rivals \in [Task -> SUBSET (Value \cup {None})]
  /\ calls \in Nat

-----------------------------------------------------------------------------
(***************************************************************************)
(* Common parts of the actions.                                            *)
(***************************************************************************)

InFlight(k) == {t \in Task : pc[t] \in WritePcs /\ call[t].key = k}
Flushing == {t \in Task : pc[t] \in FlushPcs}
Goto(t, label) == pc' = [pc EXCEPT ![t] = label]

\* The call of t returns: its local variables go away.
Return(t) ==
  /\ Goto(t, "idle")
  /\ call'   = [call EXCEPT ![t] = NoCall]
  /\ todo'   = [todo EXCEPT ![t] = {}]
  /\ plan'   = [plan EXCEPT ![t] = NoIndex]
  /\ fresh'  = [fresh EXCEPT ![t] = NoIndex]
  /\ rows'   = [rows EXCEPT ![t] = <<>>]
  /\ rivals' = [rivals EXCEPT ![t] = {}]

\* No Database exists any more: all of memory goes away.
Forget ==
  /\ fields' = NoFields /\ index' = NoIndex /\ entries' = <<>>
  /\ walLock' = NoTask
  /\ pc'     = [t \in Task |-> "idle"]
  /\ call'   = [t \in Task |-> NoCall]
  /\ todo'   = [t \in Task |-> {}]
  /\ plan'   = [t \in Task |-> NoIndex]
  /\ fresh'  = [t \in Task |-> NoIndex]
  /\ rows'   = [t \in Task |-> <<>>]
  /\ rivals' = [t \in Task |-> {}]

Image(created) == [header |-> IF created THEN "ok" ELSE "none", recs |-> <<>>]

Init ==
  /\ dbFile = Image(Created) /\ dbSynced = Image(Created)
  /\ idxFile = <<>> /\ idxSynced = <<>>
  /\ walFile = <<>> /\ walSynced = <<>>
  /\ status = "down"
  /\ fields = NoFields /\ index = NoIndex /\ entries = <<>>
  /\ walLock = NoTask
  /\ pc     = [t \in Task |-> "idle"]
  /\ call   = [t \in Task |-> NoCall]
  /\ todo   = [t \in Task |-> {}]
  /\ plan   = [t \in Task |-> NoIndex]
  /\ fresh  = [t \in Task |-> NoIndex]
  /\ rows   = [t \in Task |-> <<>>]
  /\ allowed = [k \in Key |-> {None}]
  /\ rivals  = [t \in Task |-> {}]
  /\ calls = 0

-----------------------------------------------------------------------------
(***************************************************************************)
(* Database::open.  Wal::open decodes the log first; then an empty .db     *)
(* file goes to Database::new and any other to Database::init.             *)
(***************************************************************************)

\* Database::new writes the header without syncing it and starts from empty
\* maps: the entries of the log are loaded but not applied.
OpenNew ==
  /\ status = "down"
  /\ Intact(walFile)
  /\ dbFile.header = "none"
  /\ status' = "up"
  /\ dbFile' = [header |-> "ok", recs |-> <<>>]
  /\ fields' = NoFields
  /\ index' = NoIndex
  /\ entries' = walFile
  /\ UNCHANGED <<dbSynced, idxFile, idxSynced, walFile, walSynced, walLock, pc, locals, ghosts>>

\* What DBDecoder and the index decoders need of the files to return Ok.
Decodable ==
  /\ dbFile.header = "ok"
  /\ Intact(dbFile.recs)
  /\ IF idxFile = <<>> THEN NoEmptyKey(dbFile.recs) ELSE Intact(idxFile)

OpenInit ==
  /\ status = "down"
  /\ Intact(walFile)
  /\ Decodable
  /\ status' = "up"
  /\ fields' = Replay(DecodeDbFile(dbFile.recs), walFile)
  /\ index' = IF idxFile = <<>> THEN IndexFromDb(dbFile.recs) ELSE IndexFromRows(idxFile)
  /\ entries' = walFile
  /\ UNCHANGED <<files, walLock, pc, locals, ghosts>>

\* open returns Err and changes nothing, so it does so every time.
OpenFails ==
  /\ status \in {"down", "failed"}
  /\ ~ Intact(walFile) \/ (dbFile.header # "none" /\ ~ Decodable)
  /\ status' = "failed"
  /\ UNCHANGED <<files, fields, index, entries, walLock, pc, locals, ghosts>>

\* The last handle is dropped.  Nothing is flushed.
Close ==
  /\ status = "up"
  /\ \A t \in Task : pc[t] = "idle"
  /\ status' = "down"
  /\ Forget
  /\ UNCHANGED <<files, allowed, calls>>

-----------------------------------------------------------------------------
(***************************************************************************)
(* Database::set and Database::delete (v is None).                         *)
(***************************************************************************)

Op(v) == IF v = None THEN "delete" ELSE "set"

CallWrite(t, k, v) ==
  /\ status = "up" /\ pc[t] = "idle" /\ calls < MaxCalls
  /\ Op(v) \in Calls
  /\ FlushAlone => Flushing = {}
  /\ Goto(t, "append")
  /\ call' = [call EXCEPT ![t] = [key |-> k, val |-> v]]
  /\ rivals' = [u \in Task |->
                  IF u = t THEN {call[w].val : w \in InFlight(k)}
                  ELSE IF u \in InFlight(k) THEN rivals[u] \cup {v}
                  ELSE rivals[u]]
  /\ calls' = calls + 1
  /\ UNCHANGED <<files, memory, walLock, todo, plan, fresh, rows, allowed>>

\* Wal::append_entry up to the sync: take the lock, append, push.
AppendEntry(t) ==
  /\ pc[t] = "append"
  /\ walLock = NoTask
  /\ walLock' = t
  /\ walFile' = Append(walFile, call[t])
  /\ entries' = Append(entries, call[t])
  /\ Goto(t, "append_sync")
  /\ UNCHANGED <<dbFile, dbSynced, idxFile, idxSynced, walSynced, status, fields, index,
                 locals, ghosts>>

\* The append fails: nothing, or part of the entry, is in the file.
AppendEntryError(t) ==
  /\ "ioerr" \in Faults
  /\ pc[t] = "append"
  /\ walLock = NoTask
  /\ \/ UNCHANGED walFile
     \/ "torn" \in Faults /\ walFile' = Append(walFile, Torn)
  /\ Return(t)
  /\ UNCHANGED <<dbFile, dbSynced, idxFile, idxSynced, walSynced, memory, walLock,
                 allowed, calls>>

\* Mutated form: append_entry returns without sync_all.
AppendEntryNoSync(t) ==
  /\ pc[t] = "append_sync"
  /\ walLock' = NoTask
  /\ Goto(t, "apply")
  /\ UNCHANGED <<files, memory, locals, ghosts>>

\* Mutated form: the guard of the wal Mutex outlives append_entry.
AppendEntryKeepLock(t) ==
  /\ pc[t] = "append_sync"
  /\ walSynced' = walFile
  /\ Goto(t, "apply")
  /\ UNCHANGED <<dbFile, dbSynced, idxFile, idxSynced, walFile, memory, walLock, locals, ghosts>>

AppendEntrySync(t) ==
  /\ pc[t] = "append_sync"
  /\ walSynced' = walFile
  /\ walLock' = NoTask
  /\ Goto(t, "apply")
  /\ UNCHANGED <<dbFile, dbSynced, idxFile, idxSynced, walFile, memory, locals, ghosts>>

\* sync_all fails: the caller gets an error, but the entry stays in the log.
AppendEntrySyncError(t) ==
  /\ "ioerr" \in Faults
  /\ pc[t] = "append_sync"
  /\ walLock' = NoTask
  /\ allowed' = [allowed EXCEPT ![call[t].key] = @ \cup {call[t].val}]
  /\ Return(t)
  /\ UNCHANGED <<files, memory, calls>>

\* The write is in memory and acknowledged.  Afterwards a reader may be shown
\* it, or a write that overlapped it and was not overwritten meanwhile.
ApplyWrite(t) ==
  LET k == call[t].key
      pending == {call[u].val : u \in InFlight(k)}
  IN /\ pc[t] = "apply"
     /\ fields' = [fields EXCEPT ![k] = call[t].val]
     /\ allowed' = [allowed EXCEPT ![k] = pending \cup (@ \cap rivals[t])]
     /\ Return(t)
     /\ UNCHANGED <<files, status, index, entries, walLock, calls>>

-----------------------------------------------------------------------------
(***************************************************************************)
(* Database::flush.                                                        *)
(***************************************************************************)

CallFlush(t) ==
  /\ status = "up" /\ pc[t] = "idle" /\ calls < MaxCalls
  /\ "flush" \in Calls
  /\ FlushAlone => \A u \in Task : pc[u] = "idle"
  /\ Goto(t, "pop")
  /\ calls' = calls + 1
  /\ UNCHANGED <<files, memory, walLock, locals, allowed, rivals>>

\* pop_uncommited_entries copies the entries; it removes nothing.
PopUncommitted(t) ==
  /\ pc[t] = "pop"
  /\ walLock = NoTask
  /\ todo' = [todo EXCEPT ![t] = Net(entries)]
  /\ Goto(t, "plan")
  /\ UNCHANGED <<files, memory, walLock, call, plan, fresh, rows, ghosts>>

FlushPlan(t) ==
  /\ pc[t] = "plan"
  /\ plan' = [plan EXCEPT ![t] =
                [k \in Key |-> IF [key |-> k, val |-> None] \in todo[t] THEN index[k] ELSE NoEntry]]
  /\ Goto(t, "write")
  /\ UNCHANGED <<files, memory, walLock, call, todo, fresh, rows, ghosts>>

\* Mutated form: overwriting a key also tombstones its old record, at once.
FlushSetOverOld(t, e) ==
  /\ pc[t] = "write"
  /\ e \in todo[t] /\ e.val # None
  /\ LET old == IF index[e.key] = NoEntry THEN dbFile.recs
                ELSE TombstoneOver(dbFile.recs, index[e.key])
     IN dbFile' = [dbFile EXCEPT !.recs = Append(old, [key |-> e.key, val |-> e.val, live |-> TRUE])]
  /\ fresh' = [fresh EXCEPT ![t][e.key] =
                 [offset |-> Len(dbFile.recs) + 1, field_len |-> FieldLen[e.val]]]
  /\ todo' = [todo EXCEPT ![t] = @ \ {e}]
  /\ UNCHANGED <<dbSynced, idxFile, idxSynced, walFile, walSynced, memory, walLock, pc,
                 call, plan, rows, ghosts>>

\* Mutated form: field_len without the byte of the type tag.
FlushSetShortLength(t, e) ==
  /\ pc[t] = "write"
  /\ e \in todo[t] /\ e.val # None
  /\ dbFile' = [dbFile EXCEPT !.recs = Append(@, [key |-> e.key, val |-> e.val, live |-> TRUE])]
  /\ fresh' = [fresh EXCEPT ![t][e.key] =
                 [offset |-> Len(dbFile.recs) + 1, field_len |-> FieldLen[e.val] - 1]]
  /\ todo' = [todo EXCEPT ![t] = @ \ {e}]
  /\ UNCHANGED <<dbSynced, idxFile, idxSynced, walFile, walSynced, memory, walLock, pc,
                 call, plan, rows, ghosts>>

\* HashMap iteration: the entries of net come in any order.
FlushSet(t, e) ==
  /\ pc[t] = "write"
  /\ e \in todo[t] /\ e.val # None
  /\ dbFile' = [dbFile EXCEPT !.recs = Append(@, [key |-> e.key, val |-> e.val, live |-> TRUE])]
  /\ fresh' = [fresh EXCEPT ![t][e.key] =
                 [offset |-> Len(dbFile.recs) + 1, field_len |-> FieldLen[e.val]]]
  /\ todo' = [todo EXCEPT ![t] = @ \ {e}]
  /\ UNCHANGED <<dbSynced, idxFile, idxSynced, walFile, walSynced, memory, walLock, pc,
                 call, plan, rows, ghosts>>

\* A deleted key without an index entry is skipped.
FlushDelete(t, e) ==
  /\ pc[t] = "write"
  /\ e \in todo[t] /\ e.val = None
  /\ dbFile' = IF plan[t][e.key] = NoEntry THEN dbFile
               ELSE [dbFile EXCEPT !.recs = TombstoneOver(@, plan[t][e.key])]
  /\ todo' = [todo EXCEPT ![t] = @ \ {e}]
  /\ UNCHANGED <<dbSynced, idxFile, idxSynced, walFile, walSynced, memory, walLock, pc,
                 call, plan, fresh, rows, ghosts>>

\* A write of the loop fails, perhaps half way.
FlushWriteError(t, e) ==
  /\ "ioerr" \in Faults
  /\ pc[t] = "write"
  /\ e \in todo[t] /\ (e.val # None \/ plan[t][e.key] # NoEntry)
  /\ \/ UNCHANGED dbFile
     \/ /\ "torn" \in Faults /\ e.val # None
        /\ dbFile' = [dbFile EXCEPT !.recs = Append(@, Torn)]
     \/ /\ "torn" \in Faults /\ e.val = None
        /\ plan[t][e.key].offset \in 1 .. Len(dbFile.recs)
        /\ dbFile' = [dbFile EXCEPT !.recs[plan[t][e.key].offset] = Torn]
  /\ Return(t)
  /\ UNCHANGED <<dbSynced, idxFile, idxSynced, walFile, walSynced, memory, walLock,
                 allowed, calls>>

\* Mutated form: flush goes on without sync_all.
FlushNoSync(t) ==
  /\ pc[t] = "write" /\ todo[t] = {}
  /\ Goto(t, "index")
  /\ UNCHANGED <<files, memory, walLock, locals, ghosts>>

FlushSync(t) ==
  /\ pc[t] = "write" /\ todo[t] = {}
  /\ dbSynced' = dbFile
  /\ Goto(t, "index")
  /\ UNCHANGED <<dbFile, idxFile, idxSynced, walFile, walSynced, memory, walLock, locals, ghosts>>

\* One section of the state lock: insert the new entries, then remove the
\* planned keys, from the index and from the fields.
FlushIndex(t) ==
  /\ pc[t] = "index"
  /\ index' = [k \in Key |-> IF plan[t][k] # NoEntry THEN NoEntry
                             ELSE IF fresh[t][k] # NoEntry THEN fresh[t][k] ELSE index[k]]
  /\ fields' = [k \in Key |-> IF plan[t][k] # NoEntry THEN None ELSE fields[k]]
  /\ plan' = [plan EXCEPT ![t] = NoIndex]
  /\ fresh' = [fresh EXCEPT ![t] = NoIndex]
  /\ Goto(t, "count")
  /\ UNCHANGED <<files, status, entries, walLock, call, todo, rows, ghosts>>

\* Overwrites the header's record count, which init ignores.
UpdateRecordCount(t) ==
  /\ pc[t] = "count"
  /\ Goto(t, "clone")
  /\ UNCHANGED <<files, memory, walLock, locals, ghosts>>

\* rebuild_index clones and encodes the index, in HashMap order.
IndexClone(t) ==
  /\ pc[t] = "clone"
  /\ \E s \in SetToSeqs({[key |-> k, offset |-> index[k].offset, field_len |-> index[k].field_len] :
                          k \in {x \in Key : index[x] # NoEntry}}) :
       rows' = [rows EXCEPT ![t] = s]
  /\ Goto(t, "idx_trunc")
  /\ UNCHANGED <<files, memory, walLock, call, todo, plan, fresh, ghosts>>

IndexTrunc(t) ==
  /\ pc[t] = "idx_trunc"
  /\ idxFile' = <<>>
  /\ Goto(t, "idx_write")
  /\ UNCHANGED <<dbFile, dbSynced, idxSynced, walFile, walSynced, memory, walLock, locals, ghosts>>

IndexWrite(t) ==
  /\ pc[t] = "idx_write"
  /\ idxFile' = Overlay(idxFile, rows[t])
  /\ rows' = [rows EXCEPT ![t] = <<>>]
  /\ Goto(t, "idx_sync")
  /\ UNCHANGED <<dbFile, dbSynced, idxSynced, walFile, walSynced, memory, walLock,
                 call, todo, plan, fresh, ghosts>>

IndexSync(t) ==
  /\ pc[t] = "idx_sync"
  /\ idxSynced' = idxFile
  /\ Goto(t, "checkpoint")
  /\ UNCHANGED <<dbFile, dbSynced, idxFile, walFile, walSynced, memory, walLock, locals, ghosts>>

\* A sync, the header write or a step of rebuild_index fails.
FlushStepError(t) ==
  /\ "ioerr" \in Faults
  /\ \/ pc[t] = "write" /\ todo[t] = {}
     \/ pc[t] \in {"count", "idx_trunc", "idx_write", "idx_sync"}
  /\ \/ UNCHANGED idxFile
     \/ /\ "torn" \in Faults /\ pc[t] = "idx_write"
        /\ \E n \in 0 .. Len(rows[t]) - 1 :
             idxFile' = Overlay(idxFile, Append(SubSeq(rows[t], 1, n), Torn))
  /\ Return(t)
  /\ UNCHANGED <<dbFile, dbSynced, idxSynced, walFile, walSynced, memory, walLock,
                 allowed, calls>>

\* Wal::checkpoint: every entry of the log goes, whatever flush popped.
Checkpoint(t) ==
  /\ pc[t] = "checkpoint"
  /\ walLock = NoTask
  /\ walLock' = t
  /\ entries' = <<>>
  /\ walFile' = <<>>
  /\ Goto(t, "checkpoint_sync")
  /\ UNCHANGED <<dbFile, dbSynced, idxFile, idxSynced, walSynced, status, fields, index,
                 locals, ghosts>>

\* set_len fails: the entries are gone from memory and not from the file.
CheckpointError(t) ==
  /\ "ioerr" \in Faults
  /\ pc[t] = "checkpoint"
  /\ walLock = NoTask
  /\ entries' = <<>>
  /\ Return(t)
  /\ UNCHANGED <<files, status, fields, index, walLock, allowed, calls>>

CheckpointSync(t) ==
  /\ pc[t] = "checkpoint_sync"
  /\ \/ walSynced' = walFile
     \/ "ioerr" \in Faults /\ UNCHANGED walSynced
  /\ walLock' = NoTask
  /\ Return(t)
  /\ UNCHANGED <<dbFile, dbSynced, idxFile, idxSynced, walFile, memory, allowed, calls>>

-----------------------------------------------------------------------------
(***************************************************************************)
(* Dropped futures.  The caller gives up at an await: the local variables  *)
(* and the guard of the Mutex go away, and of the command the call was     *)
(* about to send or was waiting for, the file task executes all or nothing *)
(* (before any later command on that file).                                *)
(***************************************************************************)

\* While it waits for a lock, or before its next command is sent.
CancelWaiting(t) ==
  /\ "cancel" \in Faults
  /\ pc[t] \in (FlushPcs \cup {"append"}) \ {"checkpoint_sync"}
  /\ Return(t)
  /\ UNCHANGED <<files, memory, walLock, allowed, calls>>

\* set or delete after its entry was sent: the entry is in the file, in
\* entries only once the append was answered, and never in fields.
CancelWrite(t) ==
  /\ "cancel" \in Faults
  /\ \/ /\ pc[t] = "append" /\ walLock = NoTask
        /\ walFile' = Append(walFile, call[t])
        /\ UNCHANGED <<walSynced, walLock>>
     \/ /\ pc[t] = "append_sync"
        /\ walSynced' \in {walSynced, walFile}
        /\ walLock' = NoTask
        /\ UNCHANGED walFile
     \/ pc[t] = "apply" /\ UNCHANGED <<walFile, walSynced, walLock>>
  /\ allowed' = [allowed EXCEPT ![call[t].key] = @ \cup {call[t].val}]
  /\ Return(t)
  /\ UNCHANGED <<dbFile, dbSynced, idxFile, idxSynced, memory, calls>>

\* flush after a write of its loop was sent.
CancelLoop(t, e) ==
  /\ "cancel" \in Faults
  /\ pc[t] = "write"
  /\ e \in todo[t]
  /\ dbFile' = IF e.val # None
               THEN [dbFile EXCEPT !.recs = Append(@, [key |-> e.key, val |-> e.val, live |-> TRUE])]
               ELSE IF plan[t][e.key] = NoEntry THEN dbFile
               ELSE [dbFile EXCEPT !.recs = TombstoneOver(@, plan[t][e.key])]
  /\ Return(t)
  /\ UNCHANGED <<dbSynced, idxFile, idxSynced, walFile, walSynced, memory, walLock,
                 allowed, calls>>

\* flush after the sync of .db or a command of rebuild_index was sent.
CancelRebuild(t) ==
  /\ "cancel" \in Faults
  /\ \/ pc[t] = "write" /\ todo[t] = {} /\ dbSynced' = dbFile /\ UNCHANGED <<idxFile, idxSynced>>
     \/ pc[t] = "idx_trunc" /\ idxFile' = <<>> /\ UNCHANGED <<dbSynced, idxSynced>>
     \/ pc[t] = "idx_write" /\ idxFile' = Overlay(idxFile, rows[t]) /\ UNCHANGED <<dbSynced, idxSynced>>
     \/ pc[t] = "idx_sync" /\ idxSynced' = idxFile /\ UNCHANGED <<dbSynced, idxFile>>
  /\ Return(t)
  /\ UNCHANGED <<dbFile, walFile, walSynced, memory, walLock, allowed, calls>>

\* checkpoint clears entries before its first await.
CancelCheckpoint(t) ==
  /\ "cancel" \in Faults
  /\ \/ /\ pc[t] = "checkpoint" /\ walLock = NoTask
        /\ entries' = <<>>
        /\ walFile' \in {walFile, <<>>}
        /\ UNCHANGED <<walSynced, walLock>>
     \/ /\ pc[t] = "checkpoint_sync"
        /\ walSynced' \in {walSynced, walFile}
        /\ walLock' = NoTask
        /\ UNCHANGED <<walFile, entries>>
  /\ Return(t)
  /\ UNCHANGED <<dbFile, dbSynced, idxFile, idxSynced, status, fields, index, allowed, calls>>

-----------------------------------------------------------------------------
(***************************************************************************)
(* Crashes.                                                                *)
(***************************************************************************)

\* A write that has reached the log may take effect after the crash.
AllowedAfterCrash ==
  [k \in Key |-> allowed[k] \cup {call[t].val : t \in {u \in InFlight(k) : pc[u] # "append"}}]

\* "kill": at any time.  "kill_synced": only while a flush is between the
\* sync of .db and the checkpoint.
MayDie ==
  \/ "kill" \in Faults
  \/ "kill_synced" \in Faults /\ \E t \in Task :
       pc[t] \in {"index", "count", "clone", "idx_trunc", "idx_write", "idx_sync", "checkpoint"}

\* The process dies; the operating system keeps the files.
Kill ==
  /\ MayDie
  /\ status = "up"
  /\ status' = "down"
  /\ Forget
  /\ allowed' = AllowedAfterCrash
  /\ UNCHANGED <<files, calls>>

\* Writes since the last sync survive a power failure in any combination: n
\* records are there, those of D were reached by their overwrite, and those
\* of T were only partly written.
DbSurvives(n, D, T) ==
  [header |-> dbFile.header,
   recs   |-> [i \in 1 .. n |->
                 IF i \in T THEN Torn
                 ELSE IF i \in DOMAIN dbSynced.recs \ D THEN dbSynced.recs[i]
                 ELSE dbFile.recs[i]]]

Overwritten == {i \in DOMAIN dbSynced.recs : dbFile.recs[i] # dbSynced.recs[i]}

TornSets(n) ==
  IF "torn" \in Faults THEN SUBSET (Overwritten \cup (Len(dbSynced.recs) + 1 .. n)) ELSE {{}}

DbSurvivorsOf(n) == {DbSurvives(n, D, T) : D \in SUBSET Overwritten, T \in TornSets(n)}

TornHeaders ==
  IF "torn" \in Faults /\ dbSynced.header # dbFile.header
  THEN {[header |-> "torn", recs |-> <<>>]} ELSE {}

DbSurvivors ==
  {dbSynced} \cup TornHeaders
  \cup UNION {DbSurvivorsOf(n) : n \in Len(dbSynced.recs) .. Len(dbFile.recs)}

\* An appended or truncated file: the synced image, or as much of the present
\* one as reached the disk.
Cuts(file) ==
  {SubSeq(file, 1, n) : n \in 0 .. Len(file)}
  \cup {Append(SubSeq(file, 1, n), Torn) :
          n \in {m \in 0 .. Len(file) - 1 : "torn" \in Faults}}

Survivors(file, synced) ==
  {synced} \cup (IF IsPrefix(synced, file)
                 THEN {s \in Cuts(file) : Len(s) >= Len(synced) /\ IsPrefix(synced, s)}
                 ELSE Cuts(file))

PowerLoss ==
  /\ "powerloss" \in Faults
  /\ status \in {"up", "down"}
  /\ status' = "down"
  /\ Forget
  /\ allowed' = AllowedAfterCrash
  /\ \E img \in DbSurvivors : dbFile' = img /\ dbSynced' = img
  /\ \E s \in Survivors(idxFile, idxSynced) : idxFile' = s /\ idxSynced' = s
  /\ \E s \in Survivors(walFile, walSynced) : walFile' = s /\ walSynced' = s
  /\ UNCHANGED calls

-----------------------------------------------------------------------------
LockSteps(t) == AppendEntry(t) \/ PopUncommitted(t) \/ Checkpoint(t)

OtherSteps(t) ==
  \/ AppendEntrySync(t) \/ ApplyWrite(t)
  \/ FlushPlan(t)
  \/ \E e \in todo[t] : FlushSet(t, e) \/ FlushDelete(t, e)
  \/ FlushSync(t) \/ FlushIndex(t) \/ UpdateRecordCount(t)
  \/ IndexClone(t) \/ IndexTrunc(t) \/ IndexWrite(t) \/ IndexSync(t)
  \/ CheckpointSync(t)

ErrorSteps(t) ==
  \/ AppendEntryError(t) \/ AppendEntrySyncError(t)
  \/ \E e \in todo[t] : FlushWriteError(t, e)
  \/ FlushStepError(t) \/ CheckpointError(t)

CancelSteps(t) ==
  \/ CancelWaiting(t) \/ CancelWrite(t)
  \/ \E e \in todo[t] : CancelLoop(t, e)
  \/ CancelRebuild(t) \/ CancelCheckpoint(t)

Call(t) ==
  \/ \E k \in Key : \E v \in Value \cup {None} : CallWrite(t, k, v)
  \/ CallFlush(t)

\* What the program does while it runs.
Program ==
  \E t \in Task : Call(t) \/ LockSteps(t) \/ OtherSteps(t) \/ ErrorSteps(t) \/ CancelSteps(t)

Next == OpenNew \/ OpenInit \/ OpenFails \/ Close \/ Program \/ Kill \/ PowerLoss

Spec == Init /\ [][Next]_vars

\* The runtime keeps polling every task, the FileHandler task answers every
\* command, and the wal Mutex serves its waiters in order.
Fairness ==
  \A t \in Task : WF_vars(OtherSteps(t)) /\ SF_vars(LockSteps(t))

FairSpec == Spec /\ Fairness

-----------------------------------------------------------------------------
(***************************************************************************)
(* Properties.                                                             *)
(***************************************************************************)

\* Whatever was acknowledged is what a reader sees: the field of a key is the
\* one of the last acknowledged write, or of a write that overlapped it or
\* failed after reaching the log.  (set, delete: log first, then memory.)
ReadsExplained == status = "up" => \A k \in Key : fields[k] \in allowed[k]

\* The same for keys that must have a field: an acknowledged set is never
\* lost or replaced by an older field.
AckedSetsKept ==
  status = "up" => \A k \in Key : None \notin allowed[k] => fields[k] \in allowed[k]

\* A key whose last acknowledged write is a delete has no field.
DeletedKeysGone ==
  status = "up" => \A k \in Key : allowed[k] = {None} => fields[k] = None

\* With no call in progress, reopening would give the fields now in memory.
QuiescentAgreement ==
  (status = "up" /\ \A t \in Task : pc[t] = "idle") =>
    Replay(DecodeDbFile(dbFile.recs), walFile) = fields

\* open never fails on files that the program itself left behind.
Reopenable == status # "failed"

\* When the log is truncated, flush's last step, the durable .db file alone
\* explains what every key that must have a field will be shown.
CheckpointOnlyDurable ==
  [][(status = "up" /\ status' = "up" /\ Len(walFile') < Len(walFile)) =>
       \A k \in Key : None \notin allowed[k] =>
         DecodeDbFile(dbSynced.recs)[k] \in allowed[k]]_vars

\* The program destroys a live record of the .db file only for a delete of
\* that record's key which a flush is carrying out.
TombstoneOnlyDeleted ==
  [][(status = "up" /\ status' = "up") =>
       \A i \in 1 .. Len(dbFile.recs) :
         (dbFile.recs[i] # Torn /\ dbFile.recs[i].live /\
            (i > Len(dbFile'.recs) \/ dbFile'.recs[i] # dbFile.recs[i])) =>
           \E t \in Task : pc[t] = "write" /\
                           [key |-> dbFile.recs[i].key, val |-> None] \in todo[t]]_vars

\* Without flush, Database is the durable map the server relies on: fields
\* changes only when a write is acknowledged, and every open, after any crash,
\* failed write or dropped call, shows each key a field Store allows it.
DurableMap == INSTANCE Store WITH
  up <- status = "up", data <- fields, may <- allowed, rivals <- rivals,
  pend <- [t \in Task |-> IF pc[t] \in WritePcs THEN call[t] ELSE NoCall]

ImplementsStore == DurableMap!StoreSpec

\* Every call of set, delete and flush returns.
CallsReturn == \A t \in Task : pc[t] # "idle" ~> pc[t] = "idle"

-----------------------------------------------------------------------------
(***************************************************************************)
(* The index.                                                              *)
(***************************************************************************)

\* Entry e may be used to overwrite a record of k in recs.
PointsTo(recs, k, e) ==
  /\ e.offset \in 1 .. Len(recs)
  /\ recs[e.offset] # Torn =>
       recs[e.offset].key = k /\ FieldLen[recs[e.offset].val] = e.field_len

EntriesPointInto(recs, idx) == \A k \in Key : idx[k] # NoEntry => PointsTo(recs, k, idx[k])

RowsPointInto(recs, s) == \A i \in 1 .. Len(s) : s[i] # Torn => PointsTo(recs, s[i].key, s[i])

\* The index in memory, and every copy of it a running flush holds, points at
\* records of its own keys, with their lengths: a tombstone written through it
\* covers exactly the record it is meant for.
IndexSound ==
  status = "up" =>
    /\ EntriesPointInto(dbFile.recs, index)
    /\ \A t \in Task : EntriesPointInto(dbFile.recs, plan[t]) /\ EntriesPointInto(dbFile.recs, fresh[t])

\* Every row of the .dbidx file, on disk or in the cache, points into the
\* durable part of the .db file: rebuild_index runs after the sync of .db.
RowsDurable ==
  /\ RowsPointInto(dbSynced.recs, idxFile) /\ RowsPointInto(dbSynced.recs, idxSynced)
  /\ \A t \in Task : RowsPointInto(dbSynced.recs, rows[t])

\* new holds the records of old, some of them now tombstones or torn.
Covers(old, new) ==
  /\ Len(old) <= Len(new)
  /\ \A i \in 1 .. Len(old) :
       \/ new[i] = Torn
       \/ old[i] # Torn /\ new[i].key = old[i].key /\ new[i].val = old[i].val

\* The durable records are those of the file, but for tombstones and torn
\* overwrites still to be synced: records are never moved or replaced.
SyncedBelow == Covers(dbSynced.recs, dbFile.recs)

\* An open database has a header, and an image without one has no records.
HeaderFirst ==
  /\ status = "up" => dbFile.header = "ok"
  /\ dbFile.header # "ok" => dbFile.recs = <<>> /\ dbSynced.recs = <<>>
  /\ dbSynced.header # "ok" => dbSynced.recs = <<>>

\* Once a flush is past its sync the whole index points into durable records.
AfterSync == {"index", "count", "clone"}

IndexDurable ==
  \A t \in Task :
    /\ pc[t] \in AfterSync => EntriesPointInto(dbSynced.recs, index)
    /\ pc[t] = "index" => EntriesPointInto(dbSynced.recs, fresh[t])

\* A call is in progress only in an open database, and leaves nothing behind.
CallsNeedOpen ==
  \A t \in Task :
    /\ status # "up" => pc[t] = "idle"
    /\ pc[t] = "idle" => plan[t] = NoIndex /\ fresh[t] = NoIndex

\* The inductive invariant behind IndexSound: whatever crash or error ends a
\* flush, the next index is sound too.
IndexInv == IndexSound /\ RowsDurable /\ SyncedBelow /\ HeaderFirst /\ IndexDurable /\ CallsNeedOpen

=============================================================================
