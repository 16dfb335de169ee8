----------------------------- MODULE RecordCodec -----------------------------
(***************************************************************************)
(* The bytes of the .db, .wal and .dbidx files: src/db/codec.rs, as pure   *)
(* operators over FieldCodec.  Integers are little-endian here.            *)
(*                                                                         *)
(* A decoder walks a cursor over its buffer.  ...At(b, pos) is one turn of *)
(* its loop: the item whose first byte follows the first pos bytes of b.   *)
(***************************************************************************)
EXTENDS FieldCodec

CONSTANTS
  Magic,      \* RECORD_MAGIC_NUMBER
  MetaKey,    \* DB_HEADER_KEY, DB_VERSION_KEY, DB_RECORD_COUNT_KEY, DB_NAME_KEY
  DbMagic,    \* DB_HEADER_MAGIC
  DbName      \* the name, padded to DB_NAME_LEN bytes

Zeros(n) == [i \in 1 .. n |-> 0]

\* The crc crate, as a sum that depends on every byte and on their order.
Checksum(s) ==
  LET sum[i \in 0 .. Len(s)] == IF i = 0 THEN 0 ELSE sum[i - 1] + (i + 1) * (s[i] + 1)
  IN sum[Len(s)] % Pow[W32]

-----------------------------------------------------------------------------
(***************************************************************************)
(* The header of the .db file.                                             *)
(***************************************************************************)

Header(count) ==
  MetaKey[1] \o LE(DbMagic, W64) \o MetaKey[2] \o <<1, 0>>
    \o MetaKey[3] \o LE(count, W64) \o MetaKey[4] \o DbName

KeyLen == Len(MetaKey[1])
HeaderLen == Len(Header(0))

ASSUME FormatAssumption ==
  /\ Magic \in Seq(Byte) /\ Magic # Zeros(Len(Magic))
  /\ MetaKey \in [1 .. 4 -> Seq(Byte)] /\ \A i \in 1 .. 4 : Len(MetaKey[i]) = KeyLen
  /\ DbMagic \in Nat /\ DbName \in Seq(Byte)

\* Mutated form: the minor version is not counted.
RecordCountOffsetNoMinor == 3 * KeyLen + W64 + 1

\* RECORD_COUNT_OFFSET: Header(8)+magic(8)+Version(8)+ver(1)+ver_dec(1)+RecCount(8).
RecordCountOffset == 3 * KeyLen + W64 + 2

\* Mutated form: the name is not looked at.
HeaderOkNoName(b) ==
  /\ Len(b) >= HeaderLen - Len(DbName)
  /\ \A pos \in {0, KeyLen + W64, 2 * KeyLen + W64 + 2, 3 * KeyLen + 2 * W64 + 2} :
       \E i \in 1 .. 4 : Slice(b, pos, KeyLen) = MetaKey[i]

\* decode_db_header: each of the four keys may be any of them.
HeaderOk(b) ==
  /\ Len(b) >= HeaderLen
  /\ \A pos \in {0, KeyLen + W64, 2 * KeyLen + W64 + 2, 3 * KeyLen + 2 * W64 + 2} :
       \E i \in 1 .. 4 : Slice(b, pos, KeyLen) = MetaKey[i]

-----------------------------------------------------------------------------
(***************************************************************************)
(* Records: DBEncoder, DBDeleter, DBDecoder, IndexFromDBDecoder.           *)
(***************************************************************************)

Lengths(key_len, field_len) == LE(key_len, W16) \o LE(field_len, W32)
RecordHead == Len(Magic) + W16 + W32 + W32

\* encode(key, field).
Encode(k, f) ==
  LET payload == BytesFromField(f)
      lens == Lengths(Len(k), Len(payload))
      crc == Checksum(lens \o Zeros(W32) \o k \o payload)
  IN Magic \o lens \o LE(crc, W32) \o k \o payload

\* get_deleted_field.
Tombstone(key_len, field_len) ==
  Zeros(Len(Magic)) \o Lengths(key_len, field_len) \o Zeros(W32) \o Zeros(key_len) \o Zeros(field_len)

\* The fields of a record's head that both decoders read.
MagicAt(b, pos) == Slice(b, pos, Len(Magic))
KeyLenAt(b, pos) == UnLE(Slice(b, pos + Len(Magic), W16))
FieldLenAt(b, pos) == UnLE(Slice(b, pos + Len(Magic) + W16, W32))

\* decode_db_key_field_pair.
RecordAt(b, pos) ==
  LET kl == KeyLenAt(b, pos)
      fl == FieldLenAt(b, pos)
      head == pos + RecordHead
      next == head + kl + fl
      crc == UnLE(Slice(b, head - W32, W32))
      key == Slice(b, head, kl)
      payload == Slice(b, head + kl, fl)
      field == FieldFromBytes(payload)
  IN IF Len(b) < head THEN Err
     ELSE IF MagicAt(b, pos) \notin {Magic, Zeros(Len(Magic))} THEN Err
     ELSE IF Len(b) < next THEN Err
     ELSE IF MagicAt(b, pos) # Magic THEN Ok([live |-> FALSE], next)
     ELSE IF crc # Checksum(Lengths(kl, fl) \o Zeros(W32) \o key \o payload) THEN Err
     ELSE IF field.out # "ok" THEN field
     ELSE Ok([live |-> TRUE, key |-> key, field |-> field.val], next)

\* decode_db_file: the records and tombstones in file order.
DecodeDb(b) ==
  IF ~ HeaderOk(b) THEN Err ELSE DecodeAll([pos \in Cursor(b) |-> RecordAt(b, pos)], HeaderLen)

\* One turn of decode_index_from_file.  It skips the checksum and the field
\* by moving the cursor, past the end of the buffer if need be.
IndexedRecordAt(b, pos) ==
  LET kl == KeyLenAt(b, pos)
      fl == FieldLenAt(b, pos)
      head == pos + RecordHead
      next == head + kl + fl
      deleted == MagicAt(b, pos) # Magic
      row == [live |-> TRUE, key |-> Slice(b, head, kl), key_len |-> kl, field_len |-> fl, offset |-> pos]
  IN IF Len(b) < head - W32 THEN Err
     ELSE IF MagicAt(b, pos) \notin {Magic, Zeros(Len(Magic))} THEN Err
     ELSE IF kl > 0 /\ Len(b) < head + kl THEN Err
     ELSE IF deleted THEN Ok([live |-> FALSE], next)
     ELSE IF kl = 0 THEN Err
     ELSE Ok(row, next)

\* The header is skipped, not checked.
DecodeIndexFromDb(b) == DecodeAll([pos \in Cursor(b) |-> IndexedRecordAt(b, pos)], HeaderLen)

-----------------------------------------------------------------------------
(***************************************************************************)
(* Log entries: WalEncoder and WalDecoder.  A Delete has field NoFieldEntry.*)
(***************************************************************************)

NoFieldEntry == [kind |-> "none"]

EncodeKeyLE(k) == LE(Len(k), W16) \o k

EncodeEntry(e) ==
  IF e.field = NoFieldEntry THEN <<2>> \o EncodeKeyLE(e.key)
  ELSE LET payload == BytesFromField(e.field)
       IN <<1>> \o EncodeKeyLE(e.key) \o LE(Len(payload), W32) \o payload

EntryAt(b, pos) ==
  LET kl == UnLE(Slice(b, pos + 1, W16))
      mid == pos + 1 + W16 + kl
      fl == UnLE(Slice(b, mid, W32))
      key == Slice(b, pos + 1 + W16, kl)
      field == FieldFromBytes(Slice(b, mid + W32, fl))
  IN IF b[pos + 1] \notin {1, 2} THEN Err
     ELSE IF Len(b) < pos + 1 + W16 THEN Err
     ELSE IF Len(b) < mid THEN Err
     ELSE IF b[pos + 1] = 2 THEN Ok([key |-> key, field |-> NoFieldEntry], mid)
     ELSE IF Len(b) < mid + W32 THEN Err
     ELSE IF Len(b) < mid + W32 + fl THEN Err
     ELSE IF field.out # "ok" THEN field
     ELSE Ok([key |-> key, field |-> field.val], mid + W32 + fl)

DecodeWal(b) == DecodeAll([pos \in Cursor(b) |-> EntryAt(b, pos)], 0)

-----------------------------------------------------------------------------
(***************************************************************************)
(* Rows of the index: IndexEncoder and IndexDecoder.                       *)
(***************************************************************************)

EncodeRow(r) == LE(r.key_len, W16) \o r.key \o LE(r.field_len, W32) \o LE(r.offset, W64)

RowAt(b, pos) ==
  LET kl == UnLE(Slice(b, pos, W16))
      mid == pos + W16 + kl
      next == mid + W32 + W64
  IN IF Len(b) < pos + W16 THEN Err
     ELSE IF Len(b) < next THEN Err
     ELSE Ok([live |-> TRUE, key |-> Slice(b, pos + W16, kl), key_len |-> kl,
              field_len |-> UnLE(Slice(b, mid, W32)), offset |-> UnLE(Slice(b, mid + W32, W64))], next)

DecodeIndex(b) == DecodeAll([pos \in Cursor(b) |-> RowAt(b, pos)], 0)

=============================================================================
