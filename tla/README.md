# PeachDB in TLA+

TLA+ models of PeachDB, an asynchronous key/value store written in Rust on
Tokio, with the TLC runs that check them on small instances and TLAPS proofs of
the properties that matter most for every instance. Source paths below are
relative to the repository (`src/db/db.rs`, ...); `PROJECT.json` maps every
definition to the lines it models.

## 1. The system

| Part | State | Operations | Interacts with |
|---|---|---|---|
| `db::db` `Database` | `fields` and `index` maps behind one `RwLock`; `Mutex<Wal>`; two `FileHandler`s (.db, .dbidx) | `open` (`new`/`init`), `get`, `set`, `delete`, `keys`, `flush`, `update_record_count`, `rebuild_index` | called concurrently by connections; calls `Wal` under the Mutex and the file tasks |
| `db::wal` `Wal` | `entries`, the .wal file | `open`/`replay`, `append_entry`, `pop_uncommited_entries`, `checkpoint` | its own `FileHandler`; every caller holds the Mutex |
| `db::file` `FileHandler` | a task that owns the file, an mpsc channel of 32 places, a oneshot per command | `read_all`, `write_at`, `append`, `set_len`, `sync_all` | commands from any number of callers, whose futures may be dropped |
| `db::codec` | none (encoders and decoders) | records with CRC, tombstones, log entries, index rows, header | used by `Database` and `Wal` |
| `dtypes` | none | `bytes_from_field`, `field_from_bytes` and parts | used by `codec` and `protocol` |
| `server::protocol` | none | encode and decode requests, responses, frames | used by `server` and the CLI |
| `server::server` | an `Arc<Database>`, one task per connection | `run`, `handle_connection`, `handle_request` | calls `get`, `set`, `delete`, `keys`; never `flush` |
| `error`, `main`, examples | none | | |

What is hard about it:

- **Durability is spread over three files** that are synced at different
  moments: every write syncs the log, `flush` syncs .db, then .dbidx, then
  truncates and syncs the log, and the header of a new .db is not synced at all.
  A crash may fall between any two of these, and power failure may keep any part
  of what was not synced.
- **Two locks.** The log order is decided under the wal Mutex and the memory
  order under the state lock, and neither is held across the other. `flush`
  takes the Mutex twice, to copy the entries and to truncate the log, with all
  its writes in between.
- **Offsets are used after the lock they were read under is gone**: `flush`
  copies index entries into `delete_plan` and overwrites bytes at those offsets
  later, with other flushes running.
- **Partial failure.** Each `?` in `append_entry`, `flush`, `rebuild_index` and
  `checkpoint` leaves earlier effects in place.
- **Dropped futures** leave their commands in the file task's channel and give
  up the Mutex half way through an operation.
- **Length-prefixed bytes everywhere**, little-endian in files and big-endian on
  the wire, with lengths cut to 16 or 32 bits; some decoders report an error for a
  short buffer and some panic.
- **Connections break at any byte**, also between a write and its response, and
  clients may send requests ahead of the answers.

What makes each part correct: a reader sees the last acknowledged write of a
key or one that overlapped it; acknowledged writes survive every crash; reopening
gives what was in memory; `open` succeeds on every state of the files the
program can leave; the log is truncated only over durable records; the index
points at the records of its keys, so that a tombstone destroys exactly the
record it is meant for; every call returns; the file task is an atomic file;
decoding inverts encoding; whatever set request is accepted can be replayed; each
answer goes to the request it answers; every request is answered or its connection
closed.
`PROJECT.json` lists the hazards by line, with the property that would catch each.

## 2. Modules

```
FileCommands        what a file command does
  AtomicFile        abstract: each command takes effect at one instant
  FileHandler       the task, the channel, the callers;  implements AtomicFile
    MCFileHandler   instance for TLC
    FileProofs      types; it implements AtomicFile        (TLAPS)
Store               abstract: a durable map with concurrent, failing writers
Records             records, log entries, index rows: decoding, replay, tombstones
  Database          engine and log over three files, with crashes and dropped
                    futures;  implements Store when nothing calls flush
    MCDatabase      instances for TLC
    DatabaseProofs  types, the index invariant, tombstones (TLAPS)
      StoreProofs   without flush it implements Store      (TLAPS)
        DurabilityProofs  what survives flush: reopening,
                    acknowledged sets                      (TLAPS)
FieldCodec          fields and their bytes
  Protocol          requests, responses, frames as bytes
  RecordCodec       the three file formats as bytes
    CodecProofs     decoding inverts encoding              (TLAPS)
    RecordFile      files as bytes (RecordCodec) beside files as items (Records)
      MCRecordFile  instance for TLC
      RecordFileProofs  (with CodecProofs) files decode, the index
                    points at records, requests and answers, torn
                    writes (TLAPS)
Server              one task per connection over Store, and the clients
  MCServer          instance for TLC
  ServerProofs      types; the server uses Store correctly;
                    answers go to their requests           (TLAPS)
    RegularProofs   reads are regular                      (TLAPS)
```

How they fit together: `FileHandler` justifies that a file command is one step of
`Database`; `RecordFile` justifies that `Database` may treat files as sequences of
items and offsets as positions; `Database` implements `Store`; and `Server` is
written over `Store`, so that a connection needs one step where the engine has five.

### Database

*State.* `fields`, `index`, `entries` and `walLock` are the fields of `State`,
`Wal` and the Mutex. Each file has two images: `dbFile`, `idxFile`, `walFile` are
what a read returns and what a killed process leaves, and `dbSynced`,
`idxSynced`, `walSynced` are what the last `sync_all` made durable. The .db
file is a header and a sequence of records; since a tombstone has the size of the
record it covers (`DBDeleter` keeps both lengths), positions in that sequence
stand for byte offsets (`RecordFile` checks it). `Torn` stands for bytes no decoder accepts. `pc`, `call`,
`todo`, `plan`, `fresh` and `rows` are each caller's place in the code and local
variables (`net`, `delete_plan`, `indexes`, the encoded index). `allowed` and
`rivals` are history: which fields a reader of a key may be shown.

*Steps.* A step is what the code does between two points where another task can
interfere: a file command (atomic, because `FileHandler` serialises commands;
section *FileHandler* below shows it), a section of the state lock (never held
across an await), or an operation under the wal Mutex up to its next file
command. Sections that hold the Mutex across several commands take it
(`AppendEntry`, `Checkpoint`) and release it in the step that ends them.

| Code | Actions |
|---|---|
| `open`, `new`, `init` | `OpenNew`, `OpenInit`, `OpenFails`; `Close` for the last handle dropped |
| `set`, `delete` | `CallWrite`, `AppendEntry`, `AppendEntrySync`, `ApplyWrite`, and `...Error` |
| `flush` | `CallFlush`, `PopUncommitted`, `FlushPlan`, `FlushSet`, `FlushDelete`, `FlushSync`, `FlushIndex`, `UpdateRecordCount` |
| `rebuild_index` | `IndexClone`, `IndexTrunc`, `IndexWrite`, `IndexSync` |
| `checkpoint` | `Checkpoint`, `CheckpointSync` |
| each `?` | `FlushWriteError`, `FlushStepError`, `CheckpointError`, a disjunct of `CheckpointSync` |
| a future dropped at an await | `CancelWaiting`, `CancelWrite`, `CancelLoop`, `CancelRebuild`, `CancelCheckpoint` |
| process or power dies | `Kill`, `PowerLoss` (external) |

A dropped future releases the Mutex and forgets its local variables; the command it
was about to send or was waiting for is executed or not, before any later command
on that file (a queued command stays in the channel, and `FileHandler` serves it in
order).

`HashMap` iteration orders are choices (`FlushSet`/`FlushDelete` take any entry
of `todo`; `IndexClone` writes the rows in any order). `PowerLoss` keeps, of
each file, the synced image plus any part of what came later: appended items up
to any point, overwritten records in any combination, and with `"torn"` also
half-written ones.

*Parameters.* `Calls` and `Faults` choose the operations and failures of an
instance; `FlushAlone` is a condition on the callers, not on the code: some
properties hold only under it, and the runs without it show that.

### Store

What the server may rely on, without files, log or locks: `data` is what `get` and
`keys` show, `pend` the writes in progress, and `may` the fields a key can have
after a restart. `Finish` makes a write visible and, but for writes it overlapped,
the only possible outcome; `Fail` and `Crash` leave it open whether a write
happened. `ImplementsStore` maps `fields` to `data`, the history variable `allowed`
to `may`, and a caller between the entry of `set` or `delete` and its return to
`pend`.

### FileHandler

`Call`, `Send`, `Return` and `Cancel` are a caller's steps; `Recv`, `Seek`,
`WritePiece`, `Finish...`, `CommandError` and `Stop` are the task's. `write_all`
goes byte by byte, so that a failure or a wrong interleaving would show.
The refinement mapping shows the file as it was when the current command was
received (`base`) until the command is answered, and the commands that have not
taken effect (`Unserved`). Each has the number of its call, which stands for the
oneshot channel of that call; `AtomicFile` lets a command take effect only when
no earlier one of its caller is left (`InTurn`).

### FieldCodec, Protocol, RecordCodec, RecordFile

The first three are pure operators, one per encoder or decoder of `dtypes.rs`,
`protocol.rs` and `codec.rs`, over sequences of bytes. A decoder returns a value
and the position after it, `Err` for a `PeachDbError`, or `Panic` where the code
indexes past the end of a slice. A byte is a number below `Radix`, and the widths
of the integers are constants (`W16`, `W32`, `W64`): with 12 byte values and widths
1, 2 and 3 the longest key has 11 bytes, so the largest value of a length field is
within reach of TLC. Nothing in the code depends on the widths being 2, 4 and 8
except that a longer one holds more, which `WidthAssumption` states. The CRC is a
weighted sum that depends on every byte and its place.

`RecordFile` writes every record, tombstone, log entry and index row twice, as
bytes and as items, and compares what the decoders find. `Receive` collects the
field bytes of a set request one by one, so that every payload over `Alphabet` up to
`MaxPayload` bytes is tried on `DecodeRequest`. `update_record_count` writes the size of
a map this module does not keep, so any number of `Counts`; the instance has one whose
bytes differ, so that writing it can be cut short. `New` writes the header; what a crash
in the middle of any of these writes leaves is the subject of `TornWritesFound`, an
action property: it compares the file before and after each step with every part of
the write between them.

### Server

`conn[c]` is one connection: the frames the client has sent, how many the task has
taken, what the task is doing, the answers it wrote and how many the client read.
A frame carries its command; `Bad` stands for bytes `decode_request` rejects and
`Unreadable` for bytes on which it panics (the task ends and the stream is dropped).

| Code | Actions |
|---|---|
| `main`, `run` | `Start`, `Accept`, `Stop` (`accept` failed, or the process was killed) |
| `handle_connection` | `Refuse`, `Panic`, `ReadEnd`, `ReadCut`, `Lost`, `WriteAnswer`, `WriteInVain` |
| `handle_request` | `HandleRead`, `HandleWrite`, `FinishWrite`, `FailWrite` |
| the client (`send_request`, `read_response`) | `Send`, `Hear`, `Vanish` |

`Shut` is what TCP does to a client whose connection the server drops: it still
reads the answers that were written, unless frames of it were left unread, when the
connection is reset and it may lose some. `Window` is how many answers fit into the
buffers of a client that does not read: then `write_all` waits. `writes`, `ended`
and `acked` are history for `ReadsRegular`.

## 3. Runs

All with TLC, symmetry only over callers and keys and never for liveness.
`flush_races` identifies states that differ only in the history variables `allowed`
and `rivals` (`VIEW`): no guard reads them, and of its properties only `TypeOK`
mentions them.

| Run | Checks | Instance | Shows |
|---|---|---|---|
| `server` | `ReadsExplained`, `ImplementsStore` | 2 keys, 2 fields, 2 callers, 4 writes; no flush, as in the server; kill, power loss, I/O errors, dropped futures | reads are explained by acknowledged, overlapping or failed writes, across crashes; the engine is the durable map `Store` |
| `flush_serial` | `AckedSetsKept`, `Reopenable`, `CheckpointOnlyDurable` | 1 key, 2 fields of different lengths, 2 callers, 5 calls, flush alone; kill, power loss, I/O errors, dropped futures | no acknowledged set is lost at any step of a flush |
| `flush_races` | `TypeOK`, `IndexInv`, `TombstoneOnlyDeleted` | 2 keys, 1 field, 2 callers, 4 calls, flush concurrent with everything; power loss, I/O errors, torn writes, a .db not yet durable | the index and .dbidx stay sound |
| `liveness` | `CallsReturn` | 1 key, 2 callers, 3 calls; kill, I/O errors, dropped futures | no deadlock or starvation on the wal Mutex, also when a holder is dropped |
| `file_handler` | `TypeOK`, `ImplementsAtomicFile`, `CallsAnswered`, `DrainsAndStops` | 2 callers, 3 commands out of 6, 2 places, failing and abandoned commands | the task is an atomic file |
| `codec` | `TypeOK`, `FilesDecode`, `IndexPointsAtRecords`, `TornWritesFound`, `AcceptedReplayable`, `AnswersArrive` | the empty, a short and the longest key, an integer and an array field, up to 3 log entries and records; payloads of up to 5 bytes | the byte formats do what the item level assumes |
| `connections` | `TypeOK`, `VisibleIsDurable`, `AnswersInOrder`, `ReadsRegular`, `Answered` | 2 connections, 1 key, 3 frames, 1 fault | answers in order, reads regular, nobody waits for ever |

What some of the properties say:

- `FilesDecode`: every file decodes to the items it stands for, and the index
  rebuilt from .db is the one `Records` describes, or an error exactly when a live
  record has the empty key (`index_push`; `set` accepts that key).
- `TornWritesFound`: part of a record, header or log entry is an error, zeros after
  the log are an error, and zeros after .db (which decode as tombstones of nothing)
  or part of a tombstone or record count never show a record that was not there.
- `AcceptedReplayable`: whatever bytes a set request carries, if `decode_request` accepts
  it then its log entry, its record and the answer to a get decode to the same field.
- `ReadsRegular`: what a client reads was written, and not before a write of that key
  acknowledged to anybody when the client asked, nor before its own earlier writes.
- `Answered`: a frame on an open connection is answered, and the answer read, or the
  connection ends.

*Why the bounds are enough to be of interest.* Two callers are needed for every
race on the two locks and two flushes on .dbidx; a third adds no new pair of
steps. Four writes give two per caller, or two keys with an overwrite each; five
calls allow set, flush, overwrite, flush, delete. Two fields of different encoded
lengths make a stale length visible. The channel of two places fills with two
callers because abandoned commands stay in it (three commands). In the engine runs
no fault is bounded in number: crashes, errors and dropped futures may come at every
step. `flush_races` leaves dropped futures out to stay small; the theorems about its
properties include them. In `connections`, `MaxFaults` counts malformed frames,
broken connections and stops together; one of them at any point, with three frames
on two connections that may be sent ahead, gives each recovery path once, and failing writes are not
counted. `Differs` (a write sent differs from the one before it) only spares
instances in which a read could not tell two writes apart. In `codec`, payloads of five
bytes over seven byte values spell every type tag, an invalid one, the largest
length, and strings that are not UTF-8.

*Runs that end in a violation* record where the code and what the repository
says of it disagree (`findings` in `PROJECT.json` quotes the lines):

| Run | Property | What happens |
|---|---|---|
| `deleted_reappears` | `DeletedKeysGone` | set, flush, set, flush, delete, flush, reopen: the first record is still live |
| `replay_duplicates` | `DeletedKeysGone` | a kill between the sync of .db and the checkpoint duplicates a record; a delete removes one copy |
| `checkpoint_loses_set` | `AckedSetsKept` | a set acknowledged during a flush is truncated from the log |
| `log_order` | `QuiescentAgreement` | overlapping sets of a key are logged and applied in different orders |
| `torn_log` | `Reopenable` | a half-written last log entry makes open fail for good |

Each of these is the reason for a condition of a passing run: deletes and
flushes are why `flush_serial` states `AckedSetsKept` and not `ReadsExplained`,
`checkpoint_loses_set` is why it has `FlushAlone`, `log_order` is why `Store` lets
overlapping writes come out either way after a restart, and `torn_log` is why the torn
writes are in `flush_races` only. `Created` (the header is durable when a run starts)
excludes that power fails before the header of a new .db file reached the disk:
`open` then takes `new`, as documented, which does not apply the log, and
`AckedSetsKept` fails.

The repository's README (line 225) says `Del` of a missing key returns NotFound;
`Database::delete` never reports it, `handle_request` answers Ok, and the server's own
tests expect that, so `FinishWrite` answers Ok.

*Fairness.* `Database`: weak fairness of each caller's steps (Tokio polls a ready
task again, and every file command is answered, `CallsAnswered`), strong
fairness of the three steps that take the wal Mutex (Tokio's Mutex is a FIFO
queue, so a waiter is served although the lock is taken in between). New calls
and faults are not fair. `FileHandler`: weak fairness of the task and of a caller
picking up its answer, strong fairness of `Send` (places in an mpsc channel are
handed out in FIFO order). `Server`: weak fairness of each connection's task (Tokio
runs a task that can go on, and a call of `set` or `delete` returns, which is
`CallsReturn`) and of each client reading what it was sent; a client that never
reads holds up its own task, and `Answered` says nothing of it. Nothing makes a client
send, the server stop, or a stopped server start again.

## 4. Proofs

Every invariant, refinement and action property the runs check is also proved. The
proofs hold for every finite set of keys, every set of fields, callers, connections
and commands, any number of calls, and every combination of faults, dropped futures
included. Where a theorem has a hypothesis on how the program is used, it is named
below; it is no stronger than the setting of the run that checks the property, and
section 3 says which disagreement makes it necessary.

*Engine.* Assumed: `SentinelAssumption` (model values that stand for "none" are not
data), `RecordAssumption` and `ParameterAssumption` (types).

- `TypeCorrect`: `Spec => []TypeOK`. Not vacuous: it needs that a log is accepted
  only when every entry decodes (`IntactType`).
- `IndexCorrect`: `Spec => []IndexInv`. What one wants is `IndexSound`: entries in
  memory, and the copies a running flush holds, point at records of their own keys
  with the right lengths. It is not inductive: after a crash the index comes from
  a .dbidx image, perhaps a mix of two flushes, next to whatever survived of .db.
  `IndexInv` adds
  - `RowsDurable`: every .dbidx image points into the *synced* part of .db, true
    because `rebuild_index` runs after the sync of .db;
  - `IndexDurable`: what makes the previous one true, namely that between the
    sync and the clone of the index all of it points into synced records, also
    when another flush changes the index meanwhile;
  - `SyncedBelow`: the file *covers* its synced image (`Covers`: the same records
    at the same positions, some of them tombstoned or torn). Covering is
    reflexive, transitive, kept by appends and tombstones and by every surviving
    image of a power failure, and pointing into a file carries over to every file
    that covers it; that is the whole argument;
  - `HeaderFirst` and `CallsNeedOpen`: `new` finds no records to lose, and no call
    outlives a crash.
- `TombstoneCorrect`: `Spec => TombstoneOnlyDeleted`, from `IndexInv`: the entry a
  plan holds points at a record of the deleted key, so nothing else is overwritten.
- `DurableCorrect`, `ReadsCorrect`, `StoreCorrect`: under `ServerUse` (nothing calls
  flush, as in `server.rs`, and the header is durable), `[]DurableInv`,
  `[]ReadsExplained` and `ImplementsStore`. `ReadsExplained` speaks of memory only and
  says nothing of what a crash leaves. `DurableInv` adds `LogExplained`: the last
  entry of a key in *every* image of the log that a crash may leave holds a field the
  key may be shown, or the field of a write that has reached the log and not returned.
  To keep it when a write is acknowledged (and older fields are no longer allowed)
  `WritesLogged` says where in the log that write is and that what follows it are its
  rivals, and `RivalsKnown` that overlapping writes know of each other. Replay is
  connected to the last entry by the least-number principle (`WFMin`).
- `IntactCorrect`, `ReopenCorrect`: under `WholeWrites` (no torn writes, no empty
  key), `[]FilesIntact` and `[]Reopenable`, with flushes that race. No step writes
  what a decoder rejects; the one that could is a tombstone of another length than
  its record's, which `IndexInv` excludes.
- `AckedCorrect`, `AckedSetsCorrect`, `CheckpointCorrect`: under `SerialUse` (flush
  runs alone, and the header is durable; torn writes are allowed), `[]AckedInv`,
  `[]AckedSetsKept` and `CheckpointOnlyDurable`. `AckedInv` follows a set from the log
  to the .db file: `SetsSafe` says that a key that must have a field has an entry in
  every image of the log (`LogHolds`) or a live record, followed by allowed fields
  only, in every image of .db (`DbShows`); `FlushProgress` says what a flush has done
  at each of its steps, so that it is in .db when the checkpoint takes it from the
  log; `LogImages` and `EntriesExplained` are `LogExplained` for a log that is
  truncated, and whose truncation may fail to reach the disk.

*FileHandler.* For every set of callers and commands, any capacity of the channel,
from `ByteAssumption`, `HandlerAssumption`, `CommandAssumption` and
`NoAnswerAssumption` (types, and that no answer is not an answer):

- `FileTypeCorrect`: `Spec => []TypeOK`.
- `FileCorrect`: `Spec => []FileInv`: the commands of a caller are in the channel in
  the order of its calls, and none is after one it is about to send (`Ordered`); a
  caller waits exactly while the task has to answer it (`Attended`); in the middle of
  a write the file is `base` with the first `done` bytes written (`Served`).
- `AtomicCorrect`: `Spec => ImplementsAtomicFile`, the refinement, step by step. Its
  key lemma is `WrittenStep`: one more byte behind the first n makes n + 1, so that
  `write_all` may write in pieces of any size.

*Server.* For any requests, and any number of frames and faults, from `NoneAssumption` and `ServerAssumption` (types):

- `StoreDurable`: `StoreSpec => []VisibleIsDurable`. A write becomes visible in the step
  that makes it a possible outcome of a restart, and no other write takes it away
  while it is visible.
- `ServerTypeCorrect`: `Spec => []TypeOK`. Its core is `Coherent`: a task is in a call
  exactly while the store has a pending write of that connection, also when its client
  is gone and when the server stops.
- `ServerUsesStore`: `Spec => StoreSpec`, a refinement with the identity mapping: each
  step of a task or client is a step of the store or leaves it alone. It needs
  `TypeOK`, for the key and field of the request a call begins with.
- `ServerDurable`: from these two, `VisibleIsDurable` behind the server.
- `AnswersCorrect`: `Spec => []AnswersInOrder`. The order of the answers written so far
  is not inductive; `Owed` adds what the task still owes in each phase: as many
  answers as frames taken, or one less and an answer (or a call) that fits the last
  frame taken. Once the client is gone nothing is owed, because nothing more is
  written. `NoConn` for every connection that is not open or shut makes a new
  connection start from nothing.

- `RegularCorrect`: `Spec => []ReadsRegular`. The property compares what was read
  with the order of writes that clients can observe (`before`: whose answer was read
  when this one was sent). The store knows a finer order, which calls were over when
  a call began, and no variable keeps it; so `RegularInv` says that *there is* a past
  that explains the state: the writes that are out, those of them that returned Ok,
  for each write what was out when it began (`prec`), and the write each connection
  is making. `StorePast` says that every field in `may` was written by a write that no
  acknowledged one comes after; when a call returns, the fields that stay in `may`
  are those of writes that overlapped it, and `Overlapped` is what makes one of the
  two candidate writes explain each. `ConnPast` says that what a client was told is true
  and that the frames a task has not taken come after the ones it has. Each step is
  shown to extend the past; what is read is in `may` by `VisibleIsDurable`.

*Codecs and files.* For every radix, all widths with `W16 < W32 < W64`, any magic number
that is not zeros and any header keys of one length, from `WidthAssumption` and
`FormatAssumption`; about the files also from `FileAssumption` (keys and fields are ones
a client can send) and `SizeAssumption` (no answer and no file outgrows the width of its
length: the code casts to `u32` and `u64` without a check).

- `FieldRoundTrip`, `FieldSound`, `RequestRoundTrip`, `ResponseRoundTrip`, and lemmas of
  the same kind for records, tombstones, log entries and index rows: a decoder at the
  position where an encoding stands (`Holds`) returns what was encoded and the position
  after it. `FieldSound` is the other direction: what is accepted is a field, of exactly
  as many bytes as were read, which is why it can be stored again.
- All decoding loops are one operator, `DecodeAll`. `Advances` (each turn that succeeds
  moves the cursor forward, so the loop ends) is proved of every decoder and makes
  `DecodeAllStep` its unfolding at any position; `DecodeAllWalk` follows it from item to
  item. The induction is by the smallest member of a set of counterexamples (`Induction`,
  `InductionDown`), since the induction theorems of the library take an operator. For the
  same reason powers are a function (`Pow`) and repeated concatenation is `FlattenSeq`,
  whose defining equations are `FlattenDef`.
- `FilesAlwaysStand`: `Spec => []FilesStand`, the inductive invariant of `RecordFile`: .db
  is a header with some count and the encodings of `recs` (`DbGood`), .wal the encodings
  of `ents`, .dbidx rows that point at records of `recs` (`IdxIs`), and so does the index
  in memory (`IndexWell`). `DbAppend`, `DbCover` and `DbCount` are its steps: an append, a
  tombstone over exactly one record (`WriteBehind`: a write of as many bytes as it
  replaces moves nothing), a count in the header. `Extends` says that records never move
  or change their lengths, so an index stays good, however old its file is (`IdxKept`);
  offsets name one record each (`StartInjective`), none outgrows its width (`StartBound`).
- `RecordFileTypes`, `FilesAlwaysDecode`, `IndexAlwaysPoints`: from it `[]TypeOK`,
  `[]FilesDecode` and `[]IndexPointsAtRecords`.
- `AcceptedAlwaysReplayable`, `AnswersAlwaysArrive`: `[]AcceptedReplayable` and
  `[]AnswersArrive`, from `FieldSound` and the round trips.
- `TornAlwaysFound`: `Spec => TornWritesFound`, one lemma per write. Behind whole records
  the loop of the decoder reaches the tail whatever it is (`DbTailFails`, `WalTailFails`),
  and a part of a record or entry is not one, because a length it announces is missing or
  leads past the end (`TornRecord`, `TornSet`, `TornDelete`); zeros decode as tombstones
  of nothing until they end (`ZerosDecode`). A write in place leaves a mix of old and new
  bytes (`PartlyReplaced`): a mix of a record and its tombstone has the magic number of
  the record only if nothing of it changed; if it has zeros there it is a tombstone, since
  both announce the same lengths, and with anything else it is an error
  (`TornTombstone`, `DbTornCover`). Any mix of two counts is a count (`DbTornCount`). No property of the
  checksum is used.

Together: the handler is an atomic file, files of bytes are files of items, the engine over atomic files is the durable
map `Store` when it is used as the server uses it, the server uses it that way
(`ServerUsesStore`), and over that map its answers are in order and its reads regular.

*Only model-checked:* liveness (`CallsReturn`, `CallsAnswered`, `DrainsAndStops`,
`Answered`), which TLAPS does not handle.

## 5. Limits

- Keys are model values of one encoded length in `Database`; different lengths are
  in `RecordFile`. Keys of more than 65535 bytes, which only a caller of the library
  can pass, are outside: their lengths wrap and their records do not decode.
- `Torn` in `Database` is always rejected; `TornWritesFound` shows for which partial
  writes that is true of the bytes.
- A field built through the library whose array items do not have the declared type
  is not a field of the models; decoding never produces one.
- `Kill` keeps everything that was written; a write still in Tokio's blocking
  pool when the process dies may be lost, which `PowerLoss` covers.
- Tokio may report a failed write on a later command; `CommandError` reports it on
  its own.
- `get` and `keys` change nothing: what they return is `fields`, which the
  properties speak of.
- Memory is unlimited in the models: the growth of the log without flush and the
  buffers reserved for announced lengths are not limited.

Not modelled: `error` (an enumeration), the benchmark (timing), and the arguments,
type guessing and printing of the command line client; they keep no state.

## 6. Plan

Done: the engine with dropped futures and its refinement of `Store`, `FileHandler`
and `AtomicFile`, the byte formats of files and wire, the server with its clients,
and the theorems of section 4: every safety invariant, refinement and action property
that a passing run checks.

Left: nothing of what was planned. Worth adding is what a change of the code calls for:
if `flush` takes a lock against writers, `FlushAlone` can go from `SerialUse`; if the
index keeps all records of a key, `ReadsExplained` can be stated with flush.
