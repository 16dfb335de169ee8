------------------------------- MODULE Records -------------------------------
(***************************************************************************)
(* The contents of PeachDB's three files as records, log entries and index *)
(* rows, and what the code makes of them: the decoders of src/db/codec.rs, *)
(* the replay of Database::init and the deduplication and tombstones of    *)
(* Database::flush.                                                        *)
(*                                                                         *)
(* A file is a sequence of items and an offset is a position in it.  That  *)
(* is faithful because a tombstone has the size of the record it covers,   *)
(* so records never move; module RecordFile checks it, and the decoders,   *)
(* against the byte formats.                                               *)
(***************************************************************************)
EXTENDS Naturals, Sequences, FiniteSets, SequencesExt

CONSTANTS
  Key,         \* keys; all encode to the same number of bytes
  Value,       \* fields
  None,        \* no field: HashMap::get returned None, or a Delete entry
  Torn,        \* bytes a decoder rejects: a partly written record or entry
  EmptyKey,    \* the zero-length key (a member of Key in the runs about it)
  FieldLen     \* encoded length of each field

ASSUME SentinelAssumption ==
  /\ None \notin Value /\ None \notin Key
  /\ Torn \notin [key : Key, val : Value \cup {None}]
  /\ Torn \notin [key : Key, val : Value, live : BOOLEAN]
  /\ Torn \notin [key : Key, offset : Nat, field_len : Nat]

ASSUME RecordAssumption == IsFiniteSet(Key) /\ FieldLen \in [Value -> Nat]

-----------------------------------------------------------------------------
(***************************************************************************)
(* Items.                                                                  *)
(***************************************************************************)

\* WalEntry: Set(key, field), or Delete(key) when val is None.
WalEntry == [key : Key, val : Value \cup {None}]

\* A record of the .db file.  A tombstone keeps the lengths of the record it
\* replaced and nothing else, so its key and val only stand for lengths.
Record == [key : Key, val : Value, live : BOOLEAN]

\* IndexEntry; NoEntry is the absence of one.
IndexEntry == [offset : Nat, field_len : Nat]
NoEntry == [offset |-> 0, field_len |-> 0]

\* A row of the .dbidx file.
IndexRow == [key : Key, offset : Nat, field_len : Nat]

-----------------------------------------------------------------------------
(***************************************************************************)
(* Decoding.  Every decoder inserts into a HashMap in file order, so the   *)
(* last occurrence of a key decides.                                       *)
(***************************************************************************)

LastOf(S) == IF \E m \in S : \A n \in S : n <= m
             THEN CHOOSE m \in S : \A n \in S : n <= m
             ELSE 0

\* Mutated form: a decoder that skips what it cannot decode.
IntactAlways(s) == TRUE

Intact(s) == \A i \in 1 .. Len(s) : s[i] # Torn

LiveAt(recs, k) ==
  {i \in 1 .. Len(recs) : recs[i] # Torn /\ recs[i].key = k /\ recs[i].live}

RowsOf(s, k) == {i \in 1 .. Len(s) : s[i] # Torn /\ s[i].key = k}

\* DBDecoder::decode_db_file: the fields of the live records.
DecodeDbFile(recs) ==
  [k \in Key |-> LET n == LastOf(LiveAt(recs, k)) IN IF n = 0 THEN None ELSE recs[n].val]

\* Mutated form: set_last_index called after the record was read.
IndexFromDbAfterRecord(recs) ==
  [k \in Key |-> LET n == LastOf(LiveAt(recs, k))
                 IN IF n = 0 THEN NoEntry
                    ELSE [offset |-> n + 1, field_len |-> FieldLen[recs[n].val]]]

\* IndexFromDBDecoder::decode_index_from_file.
IndexFromDb(recs) ==
  [k \in Key |-> LET n == LastOf(LiveAt(recs, k))
                 IN IF n = 0 THEN NoEntry
                    ELSE [offset |-> n, field_len |-> FieldLen[recs[n].val]]]

\* IndexDecoder::decode_index_file.
IndexFromRows(s) ==
  [k \in Key |-> LET n == LastOf(RowsOf(s, k))
                 IN IF n = 0 THEN NoEntry
                    ELSE [offset |-> s[n].offset, field_len |-> s[n].field_len]]

\* Mutated form: the Delete arm of the loop is missing.
ReplaySetsOnly(base, wal) ==
  [k \in Key |-> LET n == LastOf({i \in RowsOf(wal, k) : wal[i].val # None})
                 IN IF n = 0 THEN base[k] ELSE wal[n].val]

\* The loop of Database::init over the uncommitted entries.
Replay(base, wal) ==
  [k \in Key |-> LET n == LastOf(RowsOf(wal, k)) IN IF n = 0 THEN base[k] ELSE wal[n].val]

\* index_push refuses a live record whose key is empty.
NoEmptyKey(recs) == \A i \in 1 .. Len(recs) : recs[i].live => recs[i].key # EmptyKey

-----------------------------------------------------------------------------
(***************************************************************************)
(* Writing.                                                                *)
(***************************************************************************)

\* Mutated form: net.entry(key).or_insert(entry).
NetFirst(s) == {s[i] : i \in {j \in 1 .. Len(s) : \A n \in 1 .. j - 1 : s[n].key # s[j].key}}

\* The last entry of each key.
Net(s) == {s[i] : i \in {j \in 1 .. Len(s) : \A n \in j + 1 .. Len(s) : s[n].key # s[j].key}}

\* write_at(e.offset, tombstone): it covers the record there exactly when the
\* lengths agree; otherwise what remains is not a record.
TombstoneOver(recs, e) ==
  IF e.offset \notin 1 .. Len(recs) THEN Append(recs, Torn)
  ELSE [recs EXCEPT ![e.offset] =
          IF @ # Torn /\ FieldLen[@.val] = e.field_len THEN [@ EXCEPT !.live = FALSE] ELSE Torn]

\* write_at(0, ...) leaves what lies beyond the data.
Overlay(file, data) == data \o SubSeq(file, Len(data) + 1, Len(file))

=============================================================================
