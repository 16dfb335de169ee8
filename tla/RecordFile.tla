----------------------------- MODULE RecordFile -----------------------------
(***************************************************************************)
(* PeachDB's three files as bytes, beside the items they stand for.        *)
(*                                                                         *)
(* Module Database treats a file as a sequence of records, entries or rows *)
(* and an offset as a position in it.  Here each write is done twice, on   *)
(* the bytes (RecordCodec) and on the items (Records), and the properties  *)
(* compare the two: what the decoders find, where the index points, and    *)
(* what a write that was only partly done leaves to be decoded.  A field   *)
(* arrives as the bytes of a set request (Protocol).                       *)
(***************************************************************************)
EXTENDS RecordCodec, Protocol

CONSTANTS
  Keys,        \* keys, as byte sequences
  Fields,      \* the fields written to files
  Alphabet,    \* bytes of which field payloads are made
  MaxPayload,  \* bound on the length of a field payload
  MaxItems,    \* bound on log entries and .db records together
  Counts       \* numbers of keys in memory a flush may find (others than Keys too)

ASSUME FileAssumption ==
  /\ IsFiniteSet(Keys) /\ Keys \subseteq Seq(Byte) /\ \A k \in Keys : Len(k) < Pow[W16]
  /\ \A f \in Fields : IsField(f)
  /\ Alphabet \subseteq Byte /\ Counts \subseteq Nat /\ MaxItems \in Nat

\* Nothing outgrows the width of its length: a response with a field or with
\* all keys is shorter than Pow[W32], a .db file than Pow[W64].
ASSUME SizeAssumption ==
  /\ \A f \in Fields : 1 + W32 + Len(BytesFromField(f)) < Pow[W32]
  /\ \A S \in SUBSET Keys : \A keys \in SetToSeqs(S) : 1 + W32 + Len(KeyList(keys)) < Pow[W32]
  /\ \A k \in Keys, f \in Fields :
       HeaderLen + MaxItems * (RecordHead + Len(k) + Len(BytesFromField(f))) < Pow[W64]

VARIABLES
  db, wal, idx,   \* the bytes of the files
  recs, ents,     \* the records of .db and the entries of .wal
  index,          \* State::index: an IndexEntry for some keys
  payload         \* the bytes a client sends for a field

vars == <<db, wal, idx, recs, ents, index, payload>>

None == NoFieldEntry
Torn == [kind |-> "torn"]

R == INSTANCE Records WITH
  Key <- Keys, Value <- Fields, None <- None, Torn <- Torn, EmptyKey <- <<>>,
  FieldLen <- [f \in Fields |-> Len(BytesFromField(f))]

NoIndexEntry == [key_len |-> 0, field_len |-> 0, offset |-> 0]
EmptyIndex == [k \in Keys |-> NoIndexEntry]
Indexed == {k \in Keys : index[k] # NoIndexEntry}

\* A decoded index: the last row of a key counts (HashMap::insert).
IndexOf(items) ==
  [k \in Keys |->
     LET of == {i \in 1 .. Len(items) : items[i].live /\ items[i].key = k}
         r == items[R!LastOf(of)]
     IN IF of = {} THEN NoIndexEntry
        ELSE [key_len |-> r.key_len, field_len |-> r.field_len, offset |-> r.offset]]

TypeOK ==
  /\ db \in Seq(Byte) /\ wal \in Seq(Byte) /\ idx \in Seq(Byte)
  /\ recs \in Seq(R!Record) /\ ents \in Seq(R!WalEntry)
  /\ index \in [Keys -> [key_len : Nat, field_len : Nat, offset : Nat]]
  /\ payload \in Seq(Alphabet)

Init ==
  /\ db = <<>> /\ wal = <<>> /\ idx = <<>>
  /\ recs = <<>> /\ ents = <<>>
  /\ index = EmptyIndex
  /\ payload = <<>>

-----------------------------------------------------------------------------
(***************************************************************************)
(* Actions.                                                                *)
(***************************************************************************)

\* Database::new writes the header of an empty .db file.
New ==
  /\ db = <<>>
  /\ db' = Header(0)
  /\ UNCHANGED <<wal, idx, recs, ents, index, payload>>

\* One more byte of the field of a set request.
Receive(x) ==
  /\ db # <<>> /\ recs = <<>> /\ ents = <<>> /\ Len(payload) < MaxPayload
  /\ payload' = Append(payload, x)
  /\ UNCHANGED <<db, wal, idx, recs, ents, index>>

\* The server has answered that request.
Answer ==
  /\ payload # <<>>
  /\ payload' = <<>>
  /\ UNCHANGED <<db, wal, idx, recs, ents, index>>

\* A request crosses the wire and its entry is appended to the log.
Log(request, key, val) ==
  LET r == DecodeRequest(EncodeRequest(request))
  IN /\ db # <<>> /\ payload = <<>> /\ Len(ents) + Len(recs) < MaxItems
     /\ r.out = "ok"
     /\ wal' = wal \o EncodeEntry([key |-> r.val.key, field |-> r.val.field])
     /\ ents' = Append(ents, [key |-> key, val |-> val])
     /\ UNCHANGED <<db, idx, recs, index, payload>>

Set(k, f) == Log(Request("Set", k, f), k, f)
Delete(k) == Log(Request("Del", k, NoField), k, None)

Logged(k, v) == \E i \in 1 .. Len(ents) : ents[i] = [key |-> k, val |-> v]

\* Mutated form: the offset is where the file ends after the append.
FlushSetEndOffset(k, f) ==
  /\ Logged(k, f) /\ Len(ents) + Len(recs) < MaxItems
  /\ db' = db \o Encode(k, f)
  /\ recs' = Append(recs, [key |-> k, val |-> f, live |-> TRUE])
  /\ index' = [index EXCEPT ![k] = [key_len |-> Len(k) % Pow[W16],
                                    field_len |-> Len(BytesFromField(f)), offset |-> Len(db')]]
  /\ UNCHANGED <<wal, idx, ents, payload>>

\* flush: a record at the end of .db, and its entry in the index.
FlushSet(k, f) ==
  /\ Logged(k, f) /\ Len(ents) + Len(recs) < MaxItems
  /\ db' = db \o Encode(k, f)
  /\ recs' = Append(recs, [key |-> k, val |-> f, live |-> TRUE])
  /\ index' = [index EXCEPT ![k] = [key_len |-> Len(k) % Pow[W16],
                                    field_len |-> Len(BytesFromField(f)), offset |-> Len(db)]]
  /\ UNCHANGED <<wal, idx, ents, payload>>

\* write_at: the data replaces what was there and may extend the file.
WriteAt(file, offset, data) ==
  SubSeq(file, 1, offset) \o data \o SubSeq(file, offset + Len(data) + 1, Len(file))

\* The position of a record, from the offset of its first byte.
RecordSize(r) == RecordHead + Len(r.key) + Len(BytesFromField(r.val))
Start(i) ==
  LET start[n \in 1 .. i] == IF n = 1 THEN HeaderLen ELSE start[n - 1] + RecordSize(recs[n - 1])
  IN start[i]
PositionOf(offset) == {i \in 1 .. Len(recs) : Start(i) = offset}

TombstoneOf(k) == Tombstone(index[k].key_len, index[k].field_len)

\* flush: a tombstone over the record the index names.
FlushDelete(k) ==
  /\ Logged(k, None) /\ k \in Indexed
  /\ db' = WriteAt(db, index[k].offset, TombstoneOf(k))
  /\ recs' = LET i == CHOOSE i \in PositionOf(index[k].offset) : TRUE
             IN R!TombstoneOver(recs, [offset |-> i, field_len |-> index[k].field_len])
  /\ index' = [index EXCEPT ![k] = NoIndexEntry]
  /\ UNCHANGED <<wal, idx, ents, payload>>

\* update_record_count writes how many keys have a field in memory, a map
\* this module does not keep: any of Counts.
UpdateRecordCount(n) ==
  /\ recs # <<>>
  /\ db' = WriteAt(db, RecordCountOffset, LE(n, W64))
  /\ UNCHANGED <<wal, idx, recs, ents, index, payload>>

IndexBytes(keys) ==
  FlattenSeq([i \in 1 .. Len(keys) |->
    EncodeRow([key |-> keys[i], key_len |-> index[keys[i]].key_len,
               field_len |-> index[keys[i]].field_len, offset |-> index[keys[i]].offset])])

\* rebuild_index, in the order of the HashMap.
RebuildIndex ==
  /\ Indexed # {}
  /\ \E keys \in SetToSeqs(Indexed) : idx' = IndexBytes(keys)
  /\ UNCHANGED <<db, wal, recs, ents, index, payload>>

\* A crash after rebuild_index emptied .dbidx, or before it wrote anything.
LoseIndex ==
  /\ idx # <<>>
  /\ idx' = <<>>
  /\ UNCHANGED <<db, wal, recs, ents, index, payload>>

\* Database::init decodes .db, then the index from .dbidx, even an old one, or
\* from .db.
Reopen ==
  LET rows == IF idx = <<>> THEN DecodeIndexFromDb(db) ELSE DecodeIndex(idx)
  IN /\ DecodeDb(db).out = "ok" /\ rows.out = "ok"
     /\ index' = IndexOf(rows.val)
     /\ UNCHANGED <<db, wal, idx, recs, ents, payload>>

Checkpoint ==
  /\ ents # <<>>
  /\ wal' = <<>> /\ ents' = <<>>
  /\ UNCHANGED <<db, idx, recs, index, payload>>

Next ==
  \/ New \/ (\E x \in Alphabet : Receive(x)) \/ Answer
  \/ \E k \in Keys :
       \/ \E f \in Fields : Set(k, f) \/ FlushSet(k, f)
       \/ Delete(k) \/ FlushDelete(k)
  \/ \E n \in Counts : UpdateRecordCount(n)
  \/ RebuildIndex \/ LoseIndex \/ Reopen \/ Checkpoint

Spec == Init /\ [][Next]_vars

-----------------------------------------------------------------------------
(***************************************************************************)
(* Properties.                                                             *)
(***************************************************************************)

\* What DBDecoder must find: the records, without what tombstones hide.
Shown(r) == IF r.live THEN [live |-> TRUE, key |-> r.key, field |-> r.val] ELSE [live |-> FALSE]
ShownRecords == [i \in 1 .. Len(recs) |-> Shown(recs[i])]

\* The index Records describes, with offsets counted in bytes.
InBytes(entry, k) ==
  IF entry = R!NoEntry THEN NoIndexEntry
  ELSE [key_len |-> Len(k), field_len |-> entry.field_len, offset |-> Start(entry.offset)]

\* Every file the program wrote decodes to the items it stands for, whatever
\* was appended, overwritten, counted or checkpointed before; and the index
\* rebuilt from .db is the one Records describes, or an error exactly when a
\* live record has the empty key (index_push).
FilesDecode ==
  /\ IF db = <<>> THEN DecodeDb(db) = Err ELSE DecodeDb(db) = Ok(ShownRecords, Len(db))
  /\ DecodeWal(wal) = Ok([i \in 1 .. Len(ents) |-> [key |-> ents[i].key, field |-> ents[i].val]], Len(wal))
  /\ LET rebuilt == DecodeIndexFromDb(db)
     IN IF R!NoEmptyKey(recs)
        THEN rebuilt.out = "ok" /\ IndexOf(rebuilt.val) = [k \in Keys |-> InBytes(R!IndexFromDb(recs)[k], k)]
        ELSE rebuilt = Err

PointsWell(i) ==
  \A k \in Keys : i[k] # NoIndexEntry =>
    \E n \in PositionOf(i[k].offset) :
      recs[n].key = k /\ i[k].key_len = Len(k) /\ i[k].field_len = Len(BytesFromField(recs[n].val))

\* The index in memory and the one .dbidx decodes to, also one older than the
\* .db file, point at the first byte of a record of their key with its lengths:
\* the tombstone flush writes there covers that record and nothing else.
IndexPointsAtRecords ==
  /\ PointsWell(index)
  /\ LET rows == DecodeIndex(idx) IN rows.out = "ok" /\ PointsWell(IndexOf(rows.val))

\* The live records a decoder finds, by their place among the items.
LiveItems(items) == [i \in {j \in 1 .. Len(items) : items[j].live} |-> items[i]]

\* Decoding file fails, or finds these live records.
FailsOrShows(file, allowed) ==
  LET found == DecodeDb(file)
  IN found = Err \/ (found.out = "ok" /\ LiveItems(found.val) \in allowed)

\* What a crash in the middle of a write leaves of it.
PartlyWritten(old, new) ==
  {SubSeq(new, 1, n) \o SubSeq(old, n + 1, Len(old)) : n \in 1 .. Len(new) - 1} \ {old, new}

\* What is left of an append when the file has grown and the data is missing.
Unwritten(old, new) == {old \o Zeros(n) : n \in 1 .. Len(new) - Len(old)}

\* A write to .db, and one to the log, of which a crash leaves a part.
FoundInDb ==
  LET before == LiveItems(ShownRecords)
  IN /\ \A file \in PartlyWritten(db, db') :
          IF Len(db') > Len(db) THEN DecodeDb(file) = Err
          ELSE FailsOrShows(file, {before, LiveItems(ShownRecords)'})
     /\ \A file \in Unwritten(db, db') : FailsOrShows(file, {before})
FoundInLog ==
  \A file \in PartlyWritten(wal, wal') \cup Unwritten(wal, wal') : DecodeWal(file) = Err

\* A write that a crash cuts short is found out or does no harm: part of the
\* header, of a record or of a log entry is an error, and so are zeros after
\* the log; zeros after .db, and any part of a tombstone or of the record count,
\* are an error or show the live records of before or after the write.
TornWritesFound == [][FoundInDb /\ FoundInLog]_vars

\* A set request the server accepts is one it can live with: whatever bytes the
\* field was decoded from, its log entry, its record and the answer to a get
\* all decode to the same key and field, so no accepted request makes open fail.
AcceptedReplayable ==
  \A k \in Keys :
    LET r == DecodeRequest(<<Version, Cmd["Set"]>> \o EncodeKey(k) \o BE(Len(payload), W32) \o payload)
        e == [key |-> k, field |-> r.val.field]
        answer == Response("Ok", <<r.val.field>>)
    IN r.out = "ok" =>
         /\ DecodeWal(EncodeEntry(e)) = Ok(<<e>>, Len(EncodeEntry(e)))
         /\ RecordAt(Encode(k, e.field), 0) =
              Ok([live |-> TRUE, key |-> k, field |-> e.field], Len(Encode(k, e.field)))
         /\ DecodeResponse(EncodeResponse(answer)) = Ok(answer, Len(EncodeResponse(answer)))

\* The answers the server can give about these files.
Answers ==
  {Response("Ok", <<>>), Response("NotFound", <<>>), Response("InvalidRequest", <<>>),
   Response("ServerError", <<Boolean, Raw>>)}
  \cup {Response("Ok", <<recs[i].val>>) : i \in 1 .. Len(recs)}
  \cup {Response("Keys", keys) : keys \in SetToSeqs({recs[i].key : i \in 1 .. Len(recs)})}

\* Every answer reaches the client as it was meant (the fields, the list of
\* keys in any order and the bare statuses), and the next message of the
\* stream begins where it ends.
AnswersArrive ==
  \A res \in Answers :
    LET after == EncodeResponse(Response("NotFound", <<>>))
        stream == Frame(EncodeResponse(res)) \o Frame(after)
        message == ReadMessage(stream, 0)
    IN /\ DecodeResponse(message.val) = Ok(res, Len(message.val))
       /\ ReadMessage(stream, message.next) = Ok(after, Len(stream))

=============================================================================
