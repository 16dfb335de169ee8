-------------------------- MODULE RecordFileProofs --------------------------
(***************************************************************************)
(* That the three files always decode to the items they stand for, that    *)
(* the index points at records, and that what a crash leaves of a write is *)
(* found out or does no harm: the properties of RecordFile, for every set  *)
(* of keys and fields, every radix and all widths.                         *)
(***************************************************************************)
EXTENDS RecordFile, CodecProofs

-----------------------------------------------------------------------------
(***************************************************************************)
(* Records, entries and rows as pieces of a file.                          *)
(***************************************************************************)

FieldSize(f) == Len(BytesFromField(f))

\* What stands in .db for a record, in .wal for an entry, in .dbidx for a row.
RecordBytesOf(r) == IF r.live THEN Encode(r.key, r.val) ELSE Tombstone(Len(r.key), FieldSize(r.val))
EntryBytesOf(e) == EncodeEntry([key |-> e.key, field |-> e.val])

RecordPieces(s) == [i \in 1 .. Len(s) |-> RecordBytesOf(s[i])]
EntryPieces(s) == [i \in 1 .. Len(s) |-> EntryBytesOf(s[i])]
RowPieces(s) == [i \in 1 .. Len(s) |-> EncodeRow(s[i])]

\* Keys and fields fit their lengths.
LEMMA KeyFacts ==
  ASSUME NEW k \in Keys
  PROVE  k \in Seq(Byte) /\ Len(k) \in Nat /\ Len(k) < Pow[W16]
BY FileAssumption

\* A field's bytes are fewer than a u32 counts.
LEMMA FieldFacts ==
  ASSUME NEW f \in Fields
  PROVE  /\ IsField(f) /\ FieldSize(f) \in Nat /\ FieldSize(f) > 0
         /\ 1 + W32 + FieldSize(f) < Pow[W32] /\ FieldSize(f) < Pow[W32] /\ f # None
<1>1. IsField(f)
  BY FileAssumption
<1>2. BytesFromField(f) \in Seq(Byte) /\ FieldSize(f) > 0
  BY <1>1, FieldBytesType DEF FieldSize
<1>3. FieldSize(f) \in Nat
  BY <1>2 DEF FieldSize
<1>4. 1 + W32 + FieldSize(f) < Pow[W32]
  BY SizeAssumption DEF FieldSize
<1>5. Pow[W32] \in Nat
  BY PowType, Widths
<1>6. FieldSize(f) < Pow[W32]
  BY <1>3, <1>4, <1>5, Widths
<1>7. f # None
  BY <1>1, FieldIsNoMark DEF None
<1> QED BY <1>1, <1>2, <1>3, <1>4, <1>6, <1>7

\* A record and its tombstone have the size of its head, key and field.
LEMMA RecordPiece ==
  ASSUME NEW r \in R!Record
  PROVE  /\ r.key \in Keys /\ r.val \in Fields /\ r.live \in BOOLEAN
         /\ RecordBytesOf(r) \in Seq(Byte) /\ Len(RecordBytesOf(r)) = RecordSize(r)
         /\ RecordSize(r) \in Nat /\ RecordSize(r) > 0
         /\ RecordSize(r) = RecordHead + Len(r.key) + FieldSize(r.val)
<1>1. r.key \in Keys /\ r.val \in Fields /\ r.live \in BOOLEAN
  BY DEF R!Record
<1> DEFINE k == r.key
           f == r.val
<1>2. k \in Seq(Byte) /\ Len(k) \in Nat /\ Len(k) < Pow[W16]
  BY <1>1, KeyFacts
<1>3. IsField(f) /\ FieldSize(f) \in Nat /\ FieldSize(f) < Pow[W32]
  BY <1>1, FieldFacts
<1>4. RecordSize(r) = RecordHead + Len(k) + FieldSize(f)
  BY DEF RecordSize, FieldSize
<1>5. RecordHead \in Nat /\ RecordHead > 0
  <2>1. Len(Magic) \in Nat /\ Len(Magic) > 0 /\ RecordHead = Len(Magic) + W16 + W32 + W32
    BY HeadType
  <2> QED BY <2>1, Widths
<1>6. Encode(k, f) \in Seq(Byte) /\ Len(Encode(k, f)) = RecordHead + Len(k) + FieldSize(f)
  BY <1>2, <1>3, EncodeType DEF FieldSize
<1>7. /\ Tombstone(Len(k), FieldSize(f)) \in Seq(Byte)
      /\ Len(Tombstone(Len(k), FieldSize(f))) = RecordHead + Len(k) + FieldSize(f)
  BY <1>2, <1>3, TombstoneType
<1>8. RecordBytesOf(r) \in Seq(Byte) /\ Len(RecordBytesOf(r)) = RecordSize(r)
  BY <1>4, <1>6, <1>7, Zenon DEF RecordBytesOf
<1> HIDE DEF k, f
<1>9. RecordSize(r) \in Nat /\ RecordSize(r) > 0
  BY <1>2, <1>3, <1>4, <1>5
<1> QED BY <1>1, <1>4, <1>8, <1>9 DEF k, f

\* Pieces of a file, one for each item.
LEMMA Pieces ==
  ASSUME NEW n \in Nat, NEW p, p = [i \in 1 .. n |-> p[i]], \A i \in 1 .. n : p[i] \in Seq(Byte)
  PROVE  p \in Seq(Seq(Byte)) /\ Len(p) = n
<1> DEFINE B == Seq(Byte)
<1>1. \A i \in 1 .. n : p[i] \in B
  OBVIOUS
<1> HIDE DEF B
<1>2. p \in Seq(B) /\ Len(p) = n
  BY <1>1
<1> QED BY <1>2 DEF B

\* The pieces of the records of a .db file.
LEMMA RecordPiecesType ==
  ASSUME NEW s \in Seq(R!Record)
  PROVE  /\ RecordPieces(s) \in Seq(Seq(Byte)) /\ Len(RecordPieces(s)) = Len(s) /\ Len(s) \in Nat
         /\ \A i \in 1 .. Len(s) : s[i] \in R!Record /\ RecordPieces(s)[i] = RecordBytesOf(s[i])
<1>1. Len(s) \in Nat /\ \A i \in 1 .. Len(s) : s[i] \in R!Record
  OBVIOUS
<1>2. \A i \in 1 .. Len(s) : RecordBytesOf(s[i]) \in Seq(Byte)
  BY <1>1, RecordPiece
<1> DEFINE p == RecordPieces(s)
           n == Len(s)
<1>3. p = [i \in 1 .. n |-> RecordBytesOf(s[i])] /\ \A i \in 1 .. n : p[i] = RecordBytesOf(s[i])
  BY DEF RecordPieces
<1>4. \A i \in 1 .. n : p[i] \in Seq(Byte)
  BY <1>2, <1>3, Zenon
<1> HIDE DEF p, n
<1>5. p = [i \in 1 .. n |-> p[i]]
  BY <1>3
<1>6. n \in Nat
  BY <1>1 DEF n
<1>7. p \in Seq(Seq(Byte)) /\ Len(p) = n
  BY <1>4, <1>5, <1>6, Pieces
<1> QED BY <1>1, <1>3, <1>7 DEF p, n

\* The pieces of the entries of a log.
LEMMA EntryPiecesType ==
  ASSUME NEW s \in Seq(R!WalEntry)
  PROVE  /\ EntryPieces(s) \in Seq(Seq(Byte)) /\ Len(EntryPieces(s)) = Len(s) /\ Len(s) \in Nat
         /\ \A i \in 1 .. Len(s) :
              /\ EntryPieces(s)[i] = EncodeEntry([key |-> s[i].key, field |-> s[i].val])
              /\ EntryHolds(s[i].key, s[i].val)
<1>1. Len(s) \in Nat /\ \A i \in 1 .. Len(s) : s[i] \in R!WalEntry
  OBVIOUS
<1>2. ASSUME NEW e \in R!WalEntry PROVE EntryHolds(e.key, e.val)
  <2>1. e.key \in Keys /\ e.val \in Fields \cup {None}
    BY DEF R!WalEntry
  <2>2. e.key \in Seq(Byte) /\ Len(e.key) < Pow[W16]
    BY <2>1, KeyFacts
  <2>3. CASE e.val = None
    BY <2>2, <2>3, DeleteEntry, Zenon DEF None
  <2>4. CASE e.val \in Fields
    <3>1. IsField(e.val) /\ Len(BytesFromField(e.val)) < Pow[W32]
      BY <2>4, FieldFacts DEF FieldSize
    <3> QED BY <2>2, <3>1, SetEntry, Zenon
  <2> QED BY <2>1, <2>3, <2>4
<1> DEFINE p == EntryPieces(s)
           n == Len(s)
<1>3. /\ p = [i \in 1 .. n |-> EncodeEntry([key |-> s[i].key, field |-> s[i].val])]
      /\ \A i \in 1 .. n : p[i] = EncodeEntry([key |-> s[i].key, field |-> s[i].val])
  BY DEF EntryPieces, EntryBytesOf
<1>4. \A i \in 1 .. n : EntryHolds(s[i].key, s[i].val)
  BY <1>1, <1>2
<1>5. \A i \in 1 .. n : p[i] \in Seq(Byte)
  BY <1>3, <1>4, Zenon DEF EntryHolds
<1>6. n \in Nat
  BY <1>1
<1>7. p = [i \in 1 .. n |-> p[i]]
  <2> DEFINE e(i) == EncodeEntry([key |-> s[i].key, field |-> s[i].val])
  <2>1. p = [i \in 1 .. n |-> e(i)]
    BY <1>3
  <2> HIDE DEF p, n, e
  <2> QED BY <2>1
<1>8. p \in Seq(Seq(Byte)) /\ Len(p) = n
  <2> HIDE DEF p, n
  <2> QED BY <1>5, <1>6, <1>7, Pieces
<1> QED BY <1>1, <1>3, <1>4, <1>8

\* The pieces of the rows of an index file.
LEMMA RowPiecesType ==
  ASSUME NEW T, NEW s \in Seq(T), \A i \in 1 .. Len(s) : IsRow(s[i])
  PROVE  /\ RowPieces(s) \in Seq(Seq(Byte)) /\ Len(RowPieces(s)) = Len(s) /\ Len(s) \in Nat
         /\ \A i \in 1 .. Len(s) : RowPieces(s)[i] = EncodeRow(s[i]) /\ RowHolds(s[i])
<1> DEFINE p == RowPieces(s)
           n == Len(s)
<1>1. n \in Nat
  OBVIOUS
<1>2. \A i \in 1 .. n : RowHolds(s[i])
  BY RowDecodes
<1>3. p = [i \in 1 .. n |-> EncodeRow(s[i])] /\ \A i \in 1 .. n : p[i] = EncodeRow(s[i])
  BY DEF RowPieces
<1>4. \A i \in 1 .. n : p[i] \in Seq(Byte)
  BY <1>2, <1>3, Zenon DEF RowHolds
<1>5. p = [i \in 1 .. n |-> p[i]]
  <2> DEFINE e(i) == EncodeRow(s[i])
  <2>1. p = [i \in 1 .. n |-> e(i)]
    BY <1>3
  <2> HIDE DEF p, n, e
  <2> QED BY <2>1
<1>6. p \in Seq(Seq(Byte)) /\ Len(p) = n
  <2> HIDE DEF p, n
  <2> QED BY <1>1, <1>4, <1>5, Pieces
<1> QED BY <1>1, <1>2, <1>3, <1>6

\* One more record is one more piece.
LEMMA RecordPiecesAppend ==
  ASSUME NEW s \in Seq(R!Record), NEW r \in R!Record
  PROVE  /\ Append(s, r) \in Seq(R!Record)
         /\ RecordPieces(Append(s, r)) = Append(RecordPieces(s), RecordBytesOf(r))
<1> DEFINE n == Len(s)
           e(x) == RecordBytesOf(x)
           p == [i \in 1 .. n |-> e(s[i])]
           t == Append(s, r)
<1>1. n \in Nat /\ t \in Seq(R!Record) /\ Len(t) = n + 1 /\ t[n + 1] = r /\ \A i \in 1 .. n : t[i] = s[i]
  OBVIOUS
<1>2. [i \in 1 .. n + 1 |-> e(t[i])] = Append(p, e(r))
  <2>1. p \in Seq({e(s[i]) : i \in 1 .. n}) /\ Len(p) = n
    <3> HIDE DEF e, n
    <3> QED BY <1>1
  <2> HIDE DEF e, n, t
  <2> QED BY <1>1, <2>1
<1> QED BY <1>1, <1>2 DEF RecordPieces

\* One more entry is one more piece.
LEMMA EntryPiecesAppend ==
  ASSUME NEW s \in Seq(R!WalEntry), NEW r \in R!WalEntry
  PROVE  /\ Append(s, r) \in Seq(R!WalEntry)
         /\ EntryPieces(Append(s, r)) = Append(EntryPieces(s), EntryBytesOf(r))
<1> DEFINE n == Len(s)
           e(x) == EntryBytesOf(x)
           p == [i \in 1 .. n |-> e(s[i])]
           t == Append(s, r)
<1>1. n \in Nat /\ t \in Seq(R!WalEntry) /\ Len(t) = n + 1 /\ t[n + 1] = r /\ \A i \in 1 .. n : t[i] = s[i]
  OBVIOUS
<1>2. [i \in 1 .. n + 1 |-> e(t[i])] = Append(p, e(r))
  <2>1. p \in Seq({e(s[i]) : i \in 1 .. n}) /\ Len(p) = n
    <3> HIDE DEF e, n
    <3> QED BY <1>1
  <2> HIDE DEF e, n, t
  <2> QED BY <1>1, <2>1
<1> QED BY <1>1, <1>2 DEF EntryPieces

-----------------------------------------------------------------------------
(***************************************************************************)
(* The header of the .db file.                                             *)
(***************************************************************************)

\* The header is what is before the record count, the count and what is after.
BeforeCount == MetaKey[1] \o LE(DbMagic, W64) \o MetaKey[2] \o <<1, 0>> \o MetaKey[3]
AfterCount == MetaKey[4] \o DbName

\* The keys of the header are byte sequences of one length.
LEMMA MetaKeyType ==
  /\ KeyLen \in Nat /\ DbName \in Seq(Byte) /\ DbMagic \in Nat
  /\ \A i \in 1 .. 4 : MetaKey[i] \in Seq(Byte) /\ Len(MetaKey[i]) = KeyLen
<1>1. /\ DbName \in Seq(Byte) /\ DbMagic \in Nat
      /\ \A i \in 1 .. 4 : MetaKey[i] \in Seq(Byte) /\ Len(MetaKey[i]) = KeyLen
  BY FormatAssumption
<1>2. KeyLen \in Nat
  <2>1. MetaKey[1] \in Seq(Byte)
    BY <1>1
  <2> DEFINE m == MetaKey[1]
  <2>2. Len(m) \in Nat
    <3>1. m \in Seq(Byte)
      BY <2>1
    <3> HIDE DEF m
    <3> QED BY <3>1
  <2> QED BY <2>2 DEF KeyLen
<1> QED BY <1>1, <1>2

\* What is before the record count ends where the count is, with three keys
\* in their places.
LEMMA BeforeCountType ==
  /\ BeforeCount \in Seq(Byte) /\ Len(BeforeCount) = RecordCountOffset /\ RecordCountOffset \in Nat
  /\ \A b \in Seq(Byte) : Holds(b, 0, BeforeCount) =>
       /\ Holds(b, 0, MetaKey[1]) /\ Holds(b, KeyLen + W64, MetaKey[2])
       /\ Holds(b, 2 * KeyLen + W64 + 2, MetaKey[3])
<1> DEFINE m1 == MetaKey[1]
           m2 == MetaKey[2]
           m3 == MetaKey[3]
           l == LE(DbMagic, W64)
           v == <<1, 0>>
           k == KeyLen
<1>1. m1 \in Seq(Byte) /\ m2 \in Seq(Byte) /\ m3 \in Seq(Byte) /\ Len(m1) = k /\ Len(m2) = k /\ Len(m3) = k /\ k \in Nat
  BY MetaKeyType
<1>2. l \in Seq(Byte) /\ Len(l) = W64
  BY MetaKeyType, LEType, Widths
<1>3. v \in Seq(Byte) /\ Len(v) = 2
  <2>1. 1 \in Byte /\ 0 \in Byte
    BY Widths DEF Byte
  <2> QED BY <2>1
<1>4. BeforeCount = m1 \o l \o m2 \o v \o m3
  BY DEF BeforeCount
<1>5. RecordCountOffset = 3 * k + W64 + 2
  BY DEF RecordCountOffset
<1> HIDE DEF m1, m2, m3, l, v, k
<1>6. IsFive(BeforeCount, m1, l, m2, v, m3)
  BY <1>1, <1>2, <1>3, <1>4, Concat5
<1>7. BeforeCount \in Seq(Byte) /\ Len(BeforeCount) = Len(m1) + Len(l) + Len(m2) + Len(v) + Len(m3)
  BY <1>6, Zenon DEF IsFive
<1>8. RecordCountOffset \in Nat /\ Len(BeforeCount) = RecordCountOffset
  BY <1>1, <1>2, <1>3, <1>5, <1>7, Widths
<1>9. ASSUME NEW b \in Seq(Byte), Holds(b, 0, BeforeCount)
      PROVE  Holds(b, 0, m1) /\ Holds(b, k + W64, m2) /\ Holds(b, 2 * k + W64 + 2, m3)
  <2>0. 0 \in Nat
    OBVIOUS
  <2>1. Five(b, 0, m1, l, m2, v, m3)
    BY <1>6, <1>9, <2>0, Zenon DEF IsFive
  <2>2. /\ Holds(b, 0, m1) /\ Holds(b, 0 + Len(m1) + Len(l), m2)
        /\ Holds(b, 0 + Len(m1) + Len(l) + Len(m2) + Len(v), m3)
    BY <2>1, Zenon DEF Five
  <2>3. 0 + Len(m1) + Len(l) = k + W64 /\ 0 + Len(m1) + Len(l) + Len(m2) + Len(v) = 2 * k + W64 + 2
    BY <1>1, <1>2, <1>3, Widths
  <2> QED BY <2>2, <2>3, Zenon
<1> QED BY <1>7, <1>8, <1>9 DEF m1, m2, m3, k

\* A header of any count, and what it begins with.
IsHeader(h) ==
  /\ h \in Seq(Byte) /\ Len(h) = HeaderLen
  /\ Holds(h, 0, BeforeCount) /\ Holds(h, RecordCountOffset + W64, MetaKey[4])

\* A file that begins with a header passes decode_db_header, wherever it ends.
LEMMA HeaderParts ==
  ASSUME NEW c \in Seq(Byte), Len(c) = W64
  PROVE  /\ IsHeader((BeforeCount \o c) \o AfterCount)
         /\ AfterCount \in Seq(Byte)
<1> DEFINE p == BeforeCount
           a == AfterCount
           m == MetaKey[4]
           pc == p \o c
           h == pc \o a
<1>1. p \in Seq(Byte) /\ Len(p) = RecordCountOffset /\ RecordCountOffset \in Nat
  BY BeforeCountType
<1>2. m \in Seq(Byte) /\ DbName \in Seq(Byte)
  BY MetaKeyType
<1>3. a = m \o DbName
  BY DEF AfterCount
<1> HIDE DEF p, a, m
<1>4. a \in Seq(Byte) /\ Len(a) = Len(m) + Len(DbName)
  BY <1>2, <1>3
<1>5. pc \in Seq(Byte) /\ Len(pc) = Len(p) + W64
  BY <1>1
<1>6. h \in Seq(Byte) /\ Len(h) = Len(pc) + Len(a)
  <2> HIDE DEF pc
  <2> QED BY <1>4, <1>5, SMTT(30)
<1>7. Holds(h, 0, p)
  <2>2. 0 \in Nat /\ 0 + Len(p) = Len(p)
    BY <1>1
  <2>3. Holds(pc, 0, pc)
    <3> HIDE DEF pc
    <3> QED BY <1>5, HoldsWhole
  <2>4. Holds(pc, 0, p)
    <3>1. Holds(pc, 0, p \o c) <=> Holds(pc, 0, p) /\ Holds(pc, 0 + Len(p), c)
      <4> DEFINE b == pc
      <4>1. b \in Seq(Byte)
        BY <1>5
      <4> HIDE DEF b
      <4>2. Holds(b, 0, p \o c) <=> Holds(b, 0, p) /\ Holds(b, 0 + Len(p), c)
        BY <1>1, <2>2, <4>1, HoldsConcat
      <4> QED BY <4>2 DEF b
    <3> QED BY <2>3, <3>1
  <2> HIDE DEF pc
  <2> QED BY <1>1, <1>4, <1>5, <2>2, <2>4, HoldsPrefix
<1>8. Holds(h, Len(pc), m)
  <2> HIDE DEF pc
  <2>1. Holds((pc \o a) \o <<>>, Len(pc), a)
    <3>1. <<>> \in Seq(Byte)
      OBVIOUS
    <3> QED BY <1>4, <1>5, <3>1, HoldsMiddle
  <2>2. (pc \o a) \o <<>> = pc \o a
    BY <1>4, <1>5
  <2>3. Holds(pc \o a, Len(pc), m \o DbName)
    BY <1>3, <2>1, <2>2
  <2>4. pc \o a \in Seq(Byte) /\ Len(pc) \in Nat
    BY <1>4, <1>5
  <2>5. Holds(pc \o a, Len(pc), m)
    BY <1>2, <2>3, <2>4, HoldsConcat
  <2> QED BY <2>5
<1>9. Len(h) = HeaderLen
  <2> DEFINE l0 == LE(0, W64)
             p0 == p \o l0
             h0 == p0 \o a
  <2>1. l0 \in Seq(Byte) /\ Len(l0) = W64
    BY LEType, Widths
  <2> HIDE DEF l0
  <2>2. p0 \in Seq(Byte) /\ Len(p0) = Len(p) + W64
    BY <1>1, <2>1
  <2>3. Len(h0) = Len(p0) + Len(a)
    <3> HIDE DEF p0
    <3> QED BY <1>4, <2>2 DEF p0
  <2>4. Header(0) = (p0 \o m) \o DbName
    BY DEF Header, BeforeCount, p, m, l0
  <2>5. (p0 \o m) \o DbName = p0 \o (m \o DbName)
    <3> HIDE DEF p0
    <3> QED BY <1>2, <2>2, ConcatAssoc
  <2>6. HeaderLen = Len(h0)
    BY <1>3, <2>4, <2>5 DEF HeaderLen
  <2> HIDE DEF pc, h, h0, p0
  <2> QED BY <1>5, <1>6, <2>2, <2>3, <2>6
<1> QED BY <1>1, <1>4, <1>5, <1>6, <1>7, <1>8, <1>9 DEF IsHeader, p, a, m

\* The header is as long for every count.
LEMMA HeaderFacts ==
  ASSUME NEW n \in Nat
  PROVE  Header(n) = (BeforeCount \o LE(n, W64)) \o AfterCount /\ IsHeader(Header(n))
<1> DEFINE c == LE(n, W64)
           p == BeforeCount \o c
           m == MetaKey[4]
<1>1. c \in Seq(Byte) /\ Len(c) = W64
  BY LEType, Widths
<1>2. p \in Seq(Byte)
  BY <1>1, BeforeCountType
<1>3. m \in Seq(Byte) /\ DbName \in Seq(Byte)
  BY MetaKeyType
<1>4. Header(n) = (p \o m) \o DbName
  BY DEF Header, BeforeCount
<1>5. AfterCount = m \o DbName
  BY DEF AfterCount
<1>6. (p \o m) \o DbName = p \o (m \o DbName)
  <2> HIDE DEF p, m
  <2> QED BY <1>2, <1>3, ConcatAssoc
<1>7. Header(n) = p \o AfterCount
  BY <1>4, <1>5, <1>6
<1>8. IsHeader((BeforeCount \o c) \o AfterCount)
  <2> HIDE DEF c
  <2> QED BY <1>1, HeaderParts
<1> QED BY <1>7, <1>8

\* The header is not empty, and holds the record count.
LEMMA HeaderLenType == HeaderLen \in Nat /\ RecordCountOffset + W64 + KeyLen <= HeaderLen
<1> DEFINE h == Header(0)
           m == MetaKey[4]
<1>1. IsHeader(h)
  BY HeaderFacts
<1> HIDE DEF h
<1>2. HeaderLen \in Nat
  BY <1>1 DEF IsHeader
<1>3. Len(m) = KeyLen
  BY MetaKeyType
<1>4. RecordCountOffset + W64 + Len(m) <= HeaderLen
  BY <1>1, Zenon DEF IsHeader, Holds
<1> QED BY <1>2, <1>3, <1>4

\* A file that begins with a header passes decode_db_header.
LEMMA HeaderAccepted ==
  ASSUME NEW h, IsHeader(h), NEW t \in Seq(Byte)
  PROVE  HeaderOk(h \o t) /\ h \o t \in Seq(Byte) /\ Len(h \o t) = HeaderLen + Len(t)
<1> DEFINE b == h \o t
<1>1. h \in Seq(Byte) /\ Len(h) = HeaderLen
  BY Zenon DEF IsHeader
<1>2. b \in Seq(Byte) /\ Len(b) = HeaderLen + Len(t) /\ Len(t) \in Nat /\ HeaderLen \in Nat
  BY <1>1, HeaderLenType
<1>3. BeforeCount \in Seq(Byte) /\ RecordCountOffset \in Nat
  BY BeforeCountType
<1>4. 0 \in Nat /\ RecordCountOffset + W64 \in Nat
  BY <1>3, Widths
<1>5. MetaKey[4] \in Seq(Byte)
  BY MetaKeyType
<1>6. Holds(b, 0, BeforeCount)
  <2>1. Holds(h, 0, BeforeCount)
    BY Zenon DEF IsHeader
  <2> QED BY <1>1, <1>3, <1>4, <2>1, HoldsPrefix
<1>7. Holds(b, RecordCountOffset + W64, MetaKey[4])
  <2>1. Holds(h, RecordCountOffset + W64, MetaKey[4])
    BY Zenon DEF IsHeader
  <2> QED BY <1>1, <1>4, <1>5, <2>1, HoldsPrefix
<1>8. /\ Holds(b, 0, MetaKey[1]) /\ Holds(b, KeyLen + W64, MetaKey[2])
      /\ Holds(b, 2 * KeyLen + W64 + 2, MetaKey[3])
  BY <1>2, <1>6, BeforeCountType
<1>9. RecordCountOffset + W64 = 3 * KeyLen + 2 * W64 + 2 /\ KeyLen \in Nat
  BY MetaKeyType, Widths DEF RecordCountOffset
<1> HIDE DEF b
<1>10. ASSUME NEW i \in 1 .. 4, NEW pos \in Nat, Holds(b, pos, MetaKey[i])
       PROVE  \E j \in 1 .. 4 : Slice(b, pos, KeyLen) = MetaKey[j]
  <2>1. MetaKey[i] \in Seq(Byte) /\ Len(MetaKey[i]) = KeyLen
    BY MetaKeyType
  <2>2. Slice(b, pos, Len(MetaKey[i])) = MetaKey[i]
    BY <1>2, <1>10, <2>1, HoldsSlice
  <2>3. Slice(b, pos, KeyLen) = MetaKey[i]
    BY <2>1, <2>2
  <2> QED BY <2>3
<1>11. /\ KeyLen + W64 \in Nat /\ 2 * KeyLen + W64 + 2 \in Nat /\ 3 * KeyLen + 2 * W64 + 2 \in Nat
       /\ 1 \in 1 .. 4 /\ 2 \in 1 .. 4 /\ 3 \in 1 .. 4 /\ 4 \in 1 .. 4
  BY <1>9, Widths
<1>12. Holds(b, 3 * KeyLen + 2 * W64 + 2, MetaKey[4])
  BY <1>7, <1>9
<1>13. /\ \E j \in 1 .. 4 : Slice(b, 0, KeyLen) = MetaKey[j]
       /\ \E j \in 1 .. 4 : Slice(b, KeyLen + W64, KeyLen) = MetaKey[j]
       /\ \E j \in 1 .. 4 : Slice(b, 2 * KeyLen + W64 + 2, KeyLen) = MetaKey[j]
       /\ \E j \in 1 .. 4 : Slice(b, 3 * KeyLen + 2 * W64 + 2, KeyLen) = MetaKey[j]
  BY <1>4, <1>8, <1>10, <1>11, <1>12, Zenon
<1>14. Len(b) >= HeaderLen
  BY <1>2
<1>15. HeaderOk(b)
  BY <1>13, <1>14, Zenon DEF HeaderOk
<1> QED BY <1>2, <1>15 DEF b

\* Writing over the middle of a file replaces it.
Written(a, x, y, c) == WriteAt((a \o x) \o c, Len(a), y) = (a \o y) \o c

\* write_at of as many bytes as there were.
LEMMA WriteMiddle ==
  ASSUME NEW a \in Seq(Byte), NEW x \in Seq(Byte), NEW y \in Seq(Byte), NEW c \in Seq(Byte), Len(x) = Len(y)
  PROVE  Written(a, x, y, c)
<1> DEFINE ax == a \o x
           f == ax \o c
<1>1. ax \in Seq(Byte) /\ Len(ax) = Len(a) + Len(x) /\ Len(a) \in Nat /\ Len(x) \in Nat /\ Len(c) \in Nat
  OBVIOUS
<1>2. f \in Seq(Byte) /\ Len(f) = Len(ax) + Len(c)
  <2>1. ax \in Seq(Byte)
    BY <1>1
  <2> HIDE DEF ax
  <2> QED BY <2>1, ConcatFacts
<1>3. Holds(f, 0, a) /\ Holds(f, Len(ax), c)
  <2>1. Holds(f, 0, f)
    <3> HIDE DEF f
    <3> QED BY <1>2, HoldsWhole
  <2>2. Holds(f, 0, ax) /\ Holds(f, 0 + Len(ax), c)
    <3> DEFINE g == f
    <3>1. g \in Seq(Byte) /\ Holds(g, 0, ax \o c) /\ 0 \in Nat
      BY <1>2, <2>1
    <3> HIDE DEF g, ax
    <3>2. Holds(g, 0, ax) /\ Holds(g, 0 + Len(ax), c)
      BY <1>1, <3>1, HoldsConcat
    <3> QED BY <3>2 DEF g, ax
  <2>3. Holds(f, 0, a)
    <3> DEFINE g == f
    <3>1. g \in Seq(Byte) /\ Holds(g, 0, a \o x) /\ 0 \in Nat
      BY <1>2, <2>2
    <3> HIDE DEF g
    <3>2. Holds(g, 0, a)
      BY <3>1, HoldsConcat
    <3> QED BY <3>2 DEF g
  <2>4. 0 + Len(ax) = Len(ax)
    <3> HIDE DEF ax
    <3> QED BY <1>1
  <2> QED BY <2>2, <2>3, <2>4
<1> HIDE DEF f, ax
<1>4. SubSeq(f, 1, Len(a)) = a
  <2>1. Slice(f, 0, Len(a)) = a
    BY <1>2, <1>3, HoldsSlice
  <2>2. 0 + 1 = 1 /\ 0 + Len(a) = Len(a)
    BY <1>1
  <2> QED BY <2>1, <2>2 DEF Slice
<1>5. SubSeq(f, Len(a) + Len(y) + 1, Len(f)) = c
  <2>1. Slice(f, Len(ax), Len(c)) = c
    BY <1>1, <1>2, <1>3, HoldsSlice
  <2>2. Len(ax) + 1 = Len(a) + Len(y) + 1 /\ Len(ax) + Len(c) = Len(f)
    BY <1>1, <1>2
  <2> QED BY <2>1, <2>2 DEF Slice
<1> QED BY <1>4, <1>5 DEF Written, WriteAt, f, ax

-----------------------------------------------------------------------------
(***************************************************************************)
(* Where records start.                                                    *)
(***************************************************************************)

\* Start, of any sequence of records.
StartIn(s, i) ==
  LET start[n \in 1 .. i] == IF n = 1 THEN HeaderLen ELSE start[n - 1] + RecordSize(s[n - 1])
  IN start[i]

\* Start is StartIn for the records of the .db file.
LEMMA StartIsStartIn == \A i : Start(i) = StartIn(recs, i)
BY DEF Start, StartIn

\* A record starts behind the header and the records before it.
LEMMA StartFacts ==
  ASSUME NEW s \in Seq(R!Record), NEW i \in 1 .. Len(s)
  PROVE  StartIn(s, i) = HeaderLen + Off(RecordPieces(s), i - 1) /\ StartIn(s, i) \in Nat /\ StartIn(s, i) > 0
<1> DEFINE ss == RecordPieces(s)
           c == [n \in 1 .. Len(s) |-> RecordSize(s[n])]
           off(n) == HeaderLen + Off(ss, n)
           Good(f) == f = [n \in 1 .. i |-> IF n = 1 THEN HeaderLen ELSE f[n - 1] + RecordSize(s[n - 1])]
           start == CHOOSE f : Good(f)
<1>1. Len(s) \in Nat
  BY RecordPiecesType
<1>2. /\ Off(ss, 0) = 0
      /\ \A n \in 1 .. Len(s) : Off(ss, n) = Off(ss, n - 1) + RecordSize(s[n]) /\ Off(ss, n) \in Nat
  <2>1. ss \in Seq(Seq(Byte)) /\ Len(ss) = Len(s)
    BY RecordPiecesType
  <2>2. \A n \in 1 .. Len(s) : ss[n] = RecordBytesOf(s[n]) /\ s[n] \in R!Record
    BY RecordPiecesType
  <2>3. \A n \in 1 .. Len(s) : Len(ss[n]) = RecordSize(s[n])
    BY <2>2, RecordPiece
  <2> HIDE DEF ss
  <2>4. /\ Off(ss, 0) = 0 /\ \A n \in 0 .. Len(ss) : Off(ss, n) \in Nat
        /\ \A n \in 1 .. Len(ss) : Off(ss, n) = Off(ss, n - 1) + Len(ss[n])
    BY <2>1, OffFacts
  <2>5. \A n \in 1 .. Len(s) : n \in 0 .. Len(s)
    BY <1>1
  <2> QED BY <2>1, <2>3, <2>4, <2>5
<1>3. HeaderLen \in Nat /\ HeaderLen > 0
  <2>1. RecordCountOffset \in Nat /\ KeyLen \in Nat
    BY BeforeCountType, MetaKeyType
  <2> QED BY <2>1, HeaderLenType, Widths
<1>4. \A n \in 1 .. Len(s) : RecordSize(s[n]) \in Nat
  BY RecordPiecesType, RecordPiece
<1> HIDE DEF ss
<1>5. \A n \in 0 .. Len(s) : off(n) \in Nat /\ off(n) > 0
  <2> TAKE n \in 0 .. Len(s)
  <2>1. Off(ss, n) \in Nat
    BY <1>1, <1>2
  <2> QED BY <1>3, <2>1
<1>6. Good([n \in 1 .. i |-> off(n - 1)])
  <2> DEFINE g == [n \in 1 .. i |-> off(n - 1)]
  <2>1. ASSUME NEW n \in 1 .. i PROVE g[n] = IF n = 1 THEN HeaderLen ELSE g[n - 1] + RecordSize(s[n - 1])
    <3>1. g[n] = off(n - 1)
      OBVIOUS
    <3>2. CASE n = 1
      <4>1. off(1 - 1) = HeaderLen
        BY <1>2, <1>3
      <4> HIDE DEF off
      <4> QED BY <3>1, <3>2, <4>1
    <3>3. CASE n # 1
      <4>1. n - 1 \in 1 .. Len(s) /\ n - 1 \in 1 .. i
        BY <1>1, <3>3
      <4>2. g[n - 1] = off((n - 1) - 1)
        BY <4>1
      <4>3. /\ Off(ss, n - 1) = Off(ss, (n - 1) - 1) + RecordSize(s[n - 1])
            /\ RecordSize(s[n - 1]) \in Nat
        BY <1>2, <1>4, <4>1
      <4>4. Off(ss, (n - 1) - 1) \in Nat
        <5>1. (n - 1) - 1 = 0 \/ (n - 1) - 1 \in 1 .. Len(s)
          BY <1>1, <4>1
        <5> QED BY <1>2, <5>1
      <4> HIDE DEF g
      <4> QED BY <1>3, <3>1, <3>3, <4>2, <4>3, <4>4
    <3> QED BY <3>2, <3>3
  <2> QED BY <2>1
<1>7. Good(start)
  <2> HIDE DEF Good
  <2> QED BY <1>6
<1>8. StartIn(s, i) = start[i]
  BY DEF StartIn
<1> HIDE DEF start
<1> DEFINE S == {n \in Nat : n + 1 \in 1 .. i => start[n + 1] = off(n)}
<1>9. 0 \in S
  <2>1. start[0 + 1] = HeaderLen
    <3>1. 1 \in 1 .. i
      BY <1>1
    <3> QED BY <1>7, <3>1
  <2> QED BY <1>2, <1>3, <2>1
<1>10. ASSUME NEW n \in Nat, n \in S PROVE n + 1 \in S
  <2> SUFFICES ASSUME (n + 1) + 1 \in 1 .. i PROVE start[(n + 1) + 1] = off(n + 1)
    OBVIOUS
  <2>1. n + 1 \in 1 .. i /\ n + 1 \in 1 .. Len(s) /\ ((n + 1) + 1) - 1 = n + 1 /\ (n + 1) + 1 # 1 /\ (n + 1) - 1 = n
    BY <1>1
  <2>2. start[(n + 1) + 1] = start[n + 1] + RecordSize(s[n + 1])
    BY <1>7, <2>1
  <2>3. start[n + 1] = off(n)
    BY <1>10, <2>1
  <2>4. Off(ss, n + 1) = Off(ss, n) + RecordSize(s[n + 1]) /\ RecordSize(s[n + 1]) \in Nat
    BY <1>2, <1>4, <2>1
  <2>5. Off(ss, n) \in Nat
    <3>1. n = 0 \/ n \in 1 .. Len(s)
      BY <1>1, <2>1
    <3> QED BY <1>2, <3>1
  <2> QED BY <1>3, <2>2, <2>3, <2>4, <2>5
<1>11. i - 1 \in S /\ i - 1 \in Nat
  <2> HIDE DEF S
  <2>1. \A n \in Nat : n \in S
    BY <1>9, <1>10, Induction
  <2>2. i - 1 \in Nat
    BY <1>1
  <2> QED BY <2>1, <2>2
<1>12. start[i] = off(i - 1)
  <2>1. (i - 1) + 1 = i
    BY <1>1
  <2> HIDE DEF off
  <2> QED BY <1>11, <2>1
<1>13. i - 1 \in 0 .. Len(s)
  BY <1>1
<1> QED BY <1>5, <1>8, <1>12, <1>13 DEF ss

\* A piece that is not empty moves the next one.
LEMMA OffGrows ==
  ASSUME NEW ss \in Seq(Seq(Byte)), Len(ss) \in Nat, \A i \in 1 .. Len(ss) : Len(ss[i]) \in Nat /\ Len(ss[i]) > 0,
         NEW i \in 0 .. Len(ss), NEW j \in 0 .. Len(ss), i < j
  PROVE  Off(ss, i) < Off(ss, j)
<1> DEFINE n == Len(ss)
           S == {m \in Nat : i + m + 1 <= n => Off(ss, i) < Off(ss, i + m + 1)}
<1>1. /\ \A m \in 0 .. n : Off(ss, m) \in Nat
      /\ \A m \in 1 .. n : Off(ss, m) = Off(ss, m - 1) + Len(ss[m])
  BY OffFacts
<1>2. n \in Nat /\ \A m \in 1 .. n : Len(ss[m]) \in Nat /\ Len(ss[m]) > 0
  OBVIOUS
<1>3. i \in 0 .. n /\ j \in 0 .. n
  OBVIOUS
<1> HIDE DEF n
<1>4. ASSUME NEW m \in 0 .. n, m + 1 <= n PROVE Off(ss, m) < Off(ss, m + 1) /\ Off(ss, m) \in Nat /\ Off(ss, m + 1) \in Nat
  <2>1. m + 1 \in 1 .. n /\ m + 1 \in 0 .. n /\ (m + 1) - 1 = m
    BY <1>2, <1>4
  <2>2. Off(ss, m + 1) = Off(ss, m) + Len(ss[m + 1])
    BY <1>1, <2>1
  <2> QED BY <1>1, <1>2, <2>1, <2>2
<1>5. 0 \in S
  <2>1. i + 0 + 1 = i + 1
    BY <1>2, <1>3
  <2> QED BY <1>3, <1>4, <2>1
<1>6. ASSUME NEW m \in Nat, m \in S PROVE m + 1 \in S
  <2> SUFFICES ASSUME i + (m + 1) + 1 <= n PROVE Off(ss, i) < Off(ss, i + (m + 1) + 1)
    OBVIOUS
  <2>1. i + m + 1 \in 0 .. n /\ (i + m + 1) + 1 <= n /\ i + (m + 1) + 1 = (i + m + 1) + 1 /\ i + m + 1 <= n
    BY <1>2, <1>3
  <2>2. Off(ss, i) < Off(ss, i + m + 1)
    BY <1>6, <2>1
  <2>3. Off(ss, i + m + 1) < Off(ss, (i + m + 1) + 1) /\ Off(ss, i + m + 1) \in Nat /\ Off(ss, (i + m + 1) + 1) \in Nat
    BY <1>4, <2>1
  <2>4. Off(ss, i) \in Nat
    BY <1>1, <1>3
  <2> QED BY <2>1, <2>2, <2>3, <2>4
<1>7. (j - i) - 1 \in Nat /\ i + ((j - i) - 1) + 1 = j
  BY <1>2, <1>3
<1>8. (j - i) - 1 \in S
  <2> HIDE DEF S
  <2> QED BY <1>5, <1>6, <1>7, Induction
<1>9. j <= n
  BY <1>2, <1>3
<1> QED BY <1>7, <1>8, <1>9

\* No two records start at one offset.
LEMMA StartInjective ==
  ASSUME NEW s \in Seq(R!Record), NEW i \in 1 .. Len(s), NEW j \in 1 .. Len(s), StartIn(s, i) = StartIn(s, j)
  PROVE  i = j
<1> DEFINE ss == RecordPieces(s)
<1>1. ss \in Seq(Seq(Byte)) /\ Len(ss) = Len(s) /\ Len(s) \in Nat
  BY RecordPiecesType
<1>2. \A n \in 1 .. Len(s) : Len(ss[n]) \in Nat /\ Len(ss[n]) > 0
  <2>1. \A n \in 1 .. Len(s) : ss[n] = RecordBytesOf(s[n]) /\ s[n] \in R!Record
    BY RecordPiecesType
  <2>2. \A n \in 1 .. Len(s) : Len(ss[n]) = RecordSize(s[n]) /\ RecordSize(s[n]) \in Nat /\ RecordSize(s[n]) > 0
    BY <2>1, RecordPiece
  <2> QED BY <2>2
<1>3. StartIn(s, i) = HeaderLen + Off(ss, i - 1) /\ StartIn(s, j) = HeaderLen + Off(ss, j - 1)
  BY StartFacts
<1> HIDE DEF ss
<1>4. i - 1 \in 0 .. Len(ss) /\ j - 1 \in 0 .. Len(ss)
  BY <1>1
<1>5. Off(ss, i - 1) \in Nat /\ Off(ss, j - 1) \in Nat
  BY <1>1, <1>4, OffFacts
<1>6. Off(ss, i - 1) = Off(ss, j - 1)
  <2> DEFINE x == Off(ss, i - 1)
             y == Off(ss, j - 1)
             h == HeaderLen
  <2>1. h + x = h + y /\ x \in Nat /\ y \in Nat /\ h \in Nat
    <3>1. h + x = h + y
      BY <1>3, Zenon
    <3> QED BY <1>5, <3>1, HeaderLenType
  <2> HIDE DEF x, y, h
  <2>2. x = y
    BY <2>1
  <2> QED BY <2>2 DEF x, y
<1>7. ASSUME i - 1 < j - 1 PROVE FALSE
  <2>1. Off(ss, i - 1) < Off(ss, j - 1)
    BY <1>1, <1>2, <1>4, <1>7, OffGrows
  <2> QED BY <1>5, <1>6, <2>1
<1>8. ASSUME j - 1 < i - 1 PROVE FALSE
  <2>1. Off(ss, j - 1) < Off(ss, i - 1)
    BY <1>1, <1>2, <1>4, <1>8, OffGrows
  <2> QED BY <1>5, <1>6, <2>1
<1> QED BY <1>1, <1>7, <1>8

\* A product is no larger than one with a larger factor.
LEMMA ProductGrows ==
  ASSUME NEW a \in Nat, NEW b \in Nat, a <= b, NEW c \in Nat
  PROVE  a * c <= b * c /\ c * a <= c * b /\ (a + 1) * c = a * c + c /\ a * c \in Nat
<1> PICK d \in Nat : b = a + d
  <2>1. b - a \in Nat /\ b = a + (b - a)
    OBVIOUS
  <2> QED BY <2>1
<1>1. (a + d) * c = a * c + d * c /\ c * (a + d) = c * a + c * d
  OBVIOUS
<1>2. a * c \in Nat /\ d * c \in Nat /\ c * a \in Nat /\ c * d \in Nat
  OBVIOUS
<1>3. (a + 1) * c = a * c + c
  OBVIOUS
<1> QED BY <1>1, <1>2, <1>3

\* The records before any of them are not longer than as many of the longest.
LEMMA OffBound ==
  ASSUME NEW s \in Seq(R!Record), Len(s) > 0
  PROVE  \A n \in 0 .. Len(s) : \E m \in 1 .. Len(s) : Off(RecordPieces(s), n) <= n * RecordSize(s[m])
<1> DEFINE ss == RecordPieces(s)
           size(m) == RecordSize(s[m])
           S == {n \in Nat : n <= Len(s) => \E m \in 1 .. Len(s) : Off(ss, n) <= n * size(m)}
<1>1. ss \in Seq(Seq(Byte)) /\ Len(ss) = Len(s) /\ Len(s) \in Nat
  BY RecordPiecesType
<1>2. \A n \in 1 .. Len(s) : Len(ss[n]) = size(n) /\ size(n) \in Nat
  <2>1. \A n \in 1 .. Len(s) : ss[n] = RecordBytesOf(s[n]) /\ s[n] \in R!Record
    BY RecordPiecesType
  <2> QED BY <2>1, RecordPiece
<1> HIDE DEF ss, size
<1>3. /\ Off(ss, 0) = 0 /\ \A n \in 0 .. Len(ss) : Off(ss, n) \in Nat
      /\ \A n \in 1 .. Len(ss) : Off(ss, n) = Off(ss, n - 1) + Len(ss[n])
  BY <1>1, OffFacts
<1>4. 0 \in S
  <2>1. 1 \in 1 .. Len(s)
    BY <1>1
  <2>2. 0 * size(1) = 0
    BY <1>2, <2>1
  <2>3. Off(ss, 0) <= 0 * size(1)
    BY <1>3, <2>2
  <2> QED BY <2>1, <2>3
<1>5. ASSUME NEW n \in Nat, n \in S PROVE n + 1 \in S
  <2> SUFFICES ASSUME n + 1 <= Len(s) PROVE \E m \in 1 .. Len(s) : Off(ss, n + 1) <= (n + 1) * size(m)
    OBVIOUS
  <2>1. PICK m \in 1 .. Len(s) : Off(ss, n) <= n * size(m)
    BY <1>1, <1>5
  <2>2. n + 1 \in 1 .. Len(s) /\ n \in 0 .. Len(s)
    BY <1>1
  <2>3. Off(ss, n + 1) = Off(ss, n) + size(n + 1) /\ Off(ss, n) \in Nat
    <3>1. (n + 1) - 1 = n
      OBVIOUS
    <3> QED BY <1>1, <1>2, <1>3, <2>2, <3>1
  <2> DEFINE x == size(m)
             y == size(n + 1)
  <2>4. x \in Nat /\ y \in Nat
    BY <1>2, <2>2
  <2> HIDE DEF x, y
  <2>5. CASE y <= x
    <3>1. (n + 1) * x = n * x + x /\ n * x \in Nat
      BY <2>4, ProductGrows
    <3>2. Off(ss, n + 1) <= (n + 1) * x
      BY <2>1, <2>3, <2>4, <2>5, <3>1 DEF x, y
    <3> QED BY <3>2 DEF x
  <2>6. CASE x <= y
    <3>1. (n + 1) * y = n * y + y /\ n * y \in Nat
      BY <2>4, ProductGrows
    <3>2. n * x <= n * y /\ n * x \in Nat
      BY <2>4, <2>6, ProductGrows
    <3>3. Off(ss, n) <= n * x /\ Off(ss, n + 1) = Off(ss, n) + y
      BY <2>1, <2>3 DEF x, y
    <3>4. Off(ss, n + 1) <= (n + 1) * y
      BY <2>3, <2>4, <3>1, <3>2, <3>3
    <3> QED BY <2>2, <3>4 DEF y
  <2> QED BY <2>4, <2>5, <2>6
<1>6. \A n \in Nat : n \in S
  <2> HIDE DEF S
  <2> QED BY <1>4, <1>5, Induction
<1>7. \A n \in 0 .. Len(s) : \E m \in 1 .. Len(s) : Off(ss, n) <= n * size(m)
  BY <1>1, <1>6
<1> QED BY <1>7 DEF ss, size

\* An offset fits the eight bytes of an index row.
LEMMA StartBound ==
  ASSUME NEW s \in Seq(R!Record), Len(s) <= MaxItems, NEW i \in 1 .. Len(s)
  PROVE  StartIn(s, i) \in Nat /\ StartIn(s, i) < Pow[W64]
<1> DEFINE o == Off(RecordPieces(s), i - 1)
<1>1. Len(s) \in Nat /\ MaxItems \in Nat /\ i - 1 \in 0 .. Len(s) /\ Len(s) > 0
  BY RecordPiecesType, FileAssumption
<1>2. PICK m \in 1 .. Len(s) : o <= (i - 1) * RecordSize(s[m])
  BY <1>1, OffBound
<1> DEFINE x == RecordSize(s[m])
<1>3. s[m] \in R!Record
  BY RecordPiecesType
<1>4. x \in Nat /\ x = RecordHead + Len(s[m].key) + FieldSize(s[m].val) /\ s[m].key \in Keys /\ s[m].val \in Fields
  BY <1>3, RecordPiece
<1>5. HeaderLen + MaxItems * x < Pow[W64]
  BY <1>4, SizeAssumption DEF FieldSize
<1>6. StartIn(s, i) = HeaderLen + o /\ StartIn(s, i) \in Nat
  BY StartFacts
<1>7. i - 1 \in Nat /\ i - 1 <= MaxItems
  BY <1>1
<1>8. Pow[W64] \in Nat
  BY PowType, Widths
<1>9. o \in Nat
  <2>1. RecordPieces(s) \in Seq(Seq(Byte)) /\ Len(RecordPieces(s)) = Len(s)
    BY RecordPiecesType
  <2> QED BY <1>1, <2>1, OffFacts
<1> DEFINE a == i - 1
<1>10. a * x <= MaxItems * x /\ a * x \in Nat /\ MaxItems * x \in Nat
  <2>1. x \in Nat
    BY <1>4
  <2>2. a \in Nat /\ a <= MaxItems
    BY <1>7
  <2> HIDE DEF x, a
  <2>3. a * x <= MaxItems * x /\ a * x \in Nat
    BY <1>1, <2>1, <2>2, ProductGrows
  <2>4. MaxItems * x \in Nat
    BY <1>1, <2>1
  <2> QED BY <2>3, <2>4
<1>11. o <= a * x
  BY <1>2
<1> HIDE DEF x, o, a
<1> QED BY <1>5, <1>6, <1>8, <1>9, <1>10, <1>11, HeaderLenType

-----------------------------------------------------------------------------
(***************************************************************************)
(* Records that were covered, and records behind which others were put.    *)
(***************************************************************************)

\* t is s with a tombstone over its i-th record.
Covered(t, s, i) ==
  /\ t \in Seq(R!Record) /\ Len(t) = Len(s)
  /\ \A j \in 1 .. Len(s) : t[j].key = s[j].key /\ t[j].val = s[j].val
  /\ t[i].live = FALSE /\ \A j \in 1 .. Len(s) : j # i => t[j] = s[j]
  /\ RecordPieces(t) = [RecordPieces(s) EXCEPT ![i] = Tombstone(Len(s[i].key), FieldSize(s[i].val))]

\* A tombstone with the lengths of a record covers that record only.
LEMMA TombstoneCovers ==
  ASSUME NEW s \in Seq(R!Record), NEW i \in 1 .. Len(s)
  PROVE  Covered(R!TombstoneOver(s, [offset |-> i, field_len |-> FieldSize(s[i].val)]), s, i)
<1> DEFINE e == [offset |-> i, field_len |-> FieldSize(s[i].val)]
           r == s[i]
           d == [r EXCEPT !.live = FALSE]
           t == [s EXCEPT ![i] = d]
<1>1. Len(s) \in Nat /\ \A j \in 1 .. Len(s) : s[j] \in R!Record
  OBVIOUS
<1>2. r.key \in Keys /\ r.val \in Fields /\ r \in [key : Keys, val : Fields, live : BOOLEAN]
  BY <1>1 DEF R!Record
<1>3. d \in R!Record /\ d.key = r.key /\ d.val = r.val /\ d.live = FALSE
  <2> HIDE DEF r
  <2> QED BY <1>2 DEF R!Record
<1>4. r # Torn
  <2> HIDE DEF r
  <2>1. DOMAIN r = {"key", "val", "live"}
    BY <1>2
  <2>2. DOMAIN Torn = {"kind"}
    BY DEF Torn
  <2> QED BY <2>1, <2>2
<1>5. [f \in Fields |-> Len(BytesFromField(f))][r.val] = FieldSize(s[i].val)
  BY <1>2 DEF FieldSize
<1>6. R!TombstoneOver(s, e) = t
  <2>1. i \in 1 .. Len(s) /\ e.offset = i /\ e.field_len = FieldSize(s[i].val)
    OBVIOUS
  <2>2. R!TombstoneOver(s, e) =
          [s EXCEPT ![e.offset] = IF @ # Torn /\ [f \in Fields |-> Len(BytesFromField(f))][@.val] = e.field_len
                                  THEN [@ EXCEPT !.live = FALSE] ELSE Torn]
    <3> HIDE DEF e
    <3> QED BY <2>1 DEF R!TombstoneOver
  <2> DEFINE c == IF r # Torn /\ [f \in Fields |-> Len(BytesFromField(f))][r.val] = e.field_len THEN d ELSE Torn
  <2>3. c = d
    BY <1>4, <1>5, <2>1
  <2>4. R!TombstoneOver(s, e) = [s EXCEPT ![i] = c]
    BY <2>1, <2>2
  <2> HIDE DEF c, d
  <2> QED BY <2>3, <2>4
<1>7. t \in Seq(R!Record) /\ Len(t) = Len(s) /\ t[i] = d /\ \A j \in 1 .. Len(s) : j # i => t[j] = s[j]
  <2> HIDE DEF d
  <2> QED BY <1>3
<1>8. \A j \in 1 .. Len(s) : t[j].key = s[j].key /\ t[j].val = s[j].val
  <2> HIDE DEF t, d
  <2> QED BY <1>3, <1>7
<1>9. RecordBytesOf(d) = Tombstone(Len(r.key), FieldSize(r.val))
  <2> HIDE DEF d, r
  <2> QED BY <1>3 DEF RecordBytesOf
<1>10. RecordPieces(t) = [RecordPieces(s) EXCEPT ![i] = RecordBytesOf(d)]
  <2>1. RecordPieces(t) = [j \in 1 .. Len(s) |-> RecordBytesOf(t[j])]
    <3> HIDE DEF t
    <3> QED BY <1>7 DEF RecordPieces
  <2>2. RecordPieces(s) = [j \in 1 .. Len(s) |-> RecordBytesOf(s[j])]
    BY DEF RecordPieces
  <2> DEFINE b(x) == RecordBytesOf(x)
             n == Len(s)
  <2>3. [j \in 1 .. n |-> b(t[j])] = [[j \in 1 .. n |-> b(s[j])] EXCEPT ![i] = b(d)]
    <3>1. t[i] = d /\ \A j \in 1 .. n : j # i => t[j] = s[j]
      BY <1>7
    <3> HIDE DEF t, d, b, n
    <3> QED BY <3>1
  <2> QED BY <2>1, <2>2, <2>3
<1> HIDE DEF t, e, d
<1> QED BY <1>3, <1>6, <1>7, <1>8, <1>9, <1>10, Zenon DEF Covered, e

\* t has the records of s, covered or not, and perhaps more.
Extends(t, s) ==
  /\ t \in Seq(R!Record) /\ s \in Seq(R!Record) /\ Len(s) <= Len(t)
  /\ \A n \in 1 .. Len(s) : t[n].key = s[n].key /\ t[n].val = s[n].val

\* No record moves.
LEMMA StartKept ==
  ASSUME NEW s, NEW t, Extends(t, s), NEW i \in 1 .. Len(s)
  PROVE  StartIn(t, i) = StartIn(s, i) /\ i \in 1 .. Len(t)
<1> DEFINE p == RecordPieces(s)
           q == RecordPieces(t)
           S == {n \in Nat : n <= Len(s) => Off(q, n) = Off(p, n)}
<1>1. /\ t \in Seq(R!Record) /\ s \in Seq(R!Record) /\ Len(s) <= Len(t)
      /\ \A n \in 1 .. Len(s) : t[n].key = s[n].key /\ t[n].val = s[n].val
  BY DEF Extends
<1>2. Len(s) \in Nat /\ Len(t) \in Nat
  BY <1>1
<1>3. \A n \in 1 .. Len(s) : n \in 1 .. Len(t)
  BY <1>1, <1>2
<1>4. p \in Seq(Seq(Byte)) /\ Len(p) = Len(s) /\ q \in Seq(Seq(Byte)) /\ Len(q) = Len(t)
  BY <1>1, RecordPiecesType
<1>5. ASSUME NEW n \in 1 .. Len(s) PROVE Len(q[n]) = Len(p[n])
  <2>1. q[n] = RecordBytesOf(t[n]) /\ p[n] = RecordBytesOf(s[n]) /\ t[n] \in R!Record /\ s[n] \in R!Record
    BY <1>1, <1>3, RecordPiecesType
  <2>2. Len(q[n]) = RecordSize(t[n]) /\ Len(p[n]) = RecordSize(s[n])
    BY <2>1, RecordPiece
  <2>3. RecordSize(t[n]) = RecordSize(s[n])
    BY <1>1 DEF RecordSize
  <2> QED BY <2>2, <2>3
<1> HIDE DEF p, q
<1>6. 0 \in S
  BY <1>4, OffFacts
<1>7. ASSUME NEW n \in Nat, n \in S PROVE n + 1 \in S
  <2> SUFFICES ASSUME n + 1 <= Len(s) PROVE Off(q, n + 1) = Off(p, n + 1)
    OBVIOUS
  <2>1. n <= Len(s) /\ n + 1 \in 1 .. Len(s) /\ n + 1 \in 1 .. Len(t) /\ (n + 1) - 1 = n
    BY <1>1, <1>2
  <2>2. Off(q, n + 1) = Off(q, n) + Len(q[n + 1]) /\ Off(p, n + 1) = Off(p, n) + Len(p[n + 1])
    BY <1>4, <2>1, OffFacts
  <2> QED BY <1>5, <1>7, <2>1, <2>2
<1>8. \A n \in Nat : n \in S
  <2> HIDE DEF S
  <2> QED BY <1>6, <1>7, Induction
<1>9. i - 1 \in Nat /\ i - 1 <= Len(s) /\ i \in 1 .. Len(t)
  BY <1>2, <1>3
<1>10. Off(q, i - 1) = Off(p, i - 1)
  BY <1>8, <1>9
<1>11. StartIn(t, i) = HeaderLen + Off(q, i - 1) /\ StartIn(s, i) = HeaderLen + Off(p, i - 1)
  BY <1>1, <1>9, StartFacts DEF p, q
<1> QED BY <1>9, <1>10, <1>11

\* An entry with the lengths and the first byte of a record of its key.
EntryFor(s, k, n) == [key_len |-> Len(k), field_len |-> FieldSize(s[n].val), offset |-> StartIn(s, n)]
Points(s, k, e) == \E n \in 1 .. Len(s) : s[n].key = k /\ e = EntryFor(s, k, n)

\* An entry that points at a record keeps pointing at it.
LEMMA PointsKept ==
  ASSUME NEW s, NEW t, Extends(t, s), NEW k, NEW e, Points(s, k, e)
  PROVE  Points(t, k, e)
<1>1. PICK n \in 1 .. Len(s) : s[n].key = k /\ e = EntryFor(s, k, n)
  BY DEF Points
<1>2. t[n].key = s[n].key /\ t[n].val = s[n].val
  BY DEF Extends
<1>3. StartIn(t, n) = StartIn(s, n) /\ n \in 1 .. Len(t)
  BY StartKept
<1>4. EntryFor(t, k, n) = EntryFor(s, k, n)
  BY <1>2, <1>3 DEF EntryFor
<1> QED BY <1>1, <1>2, <1>3, <1>4 DEF Points

\* Every entry of an index is absent or points at a record of its key.
IndexWell(s, ix) == \A k \in Keys : ix[k] = NoIndexEntry \/ Points(s, k, ix[k])

\* An index entry of a record is of its type, and not the absence of one.
LEMMA EntryForType ==
  ASSUME NEW s \in Seq(R!Record), Len(s) <= MaxItems, NEW k \in Keys, NEW n \in 1 .. Len(s)
  PROVE  /\ EntryFor(s, k, n) \in [key_len : Nat, field_len : Nat, offset : Nat]
         /\ EntryFor(s, k, n) # NoIndexEntry
         /\ IsRow([key |-> k, key_len |-> Len(k), field_len |-> FieldSize(s[n].val), offset |-> StartIn(s, n)])
<1>1. k \in Seq(Byte) /\ Len(k) \in Nat /\ Len(k) < Pow[W16]
  BY KeyFacts
<1>2. s[n] \in R!Record
  BY RecordPiecesType
<1>3. s[n].val \in Fields
  BY <1>2, RecordPiece
<1>4. FieldSize(s[n].val) \in Nat /\ FieldSize(s[n].val) < Pow[W32] /\ FieldSize(s[n].val) > 0
  BY <1>3, FieldFacts
<1>5. StartIn(s, n) \in Nat /\ StartIn(s, n) < Pow[W64]
  BY StartBound
<1>6. EntryFor(s, k, n) \in [key_len : Nat, field_len : Nat, offset : Nat] /\ EntryFor(s, k, n) # NoIndexEntry
  BY <1>1, <1>4, <1>5 DEF EntryFor, NoIndexEntry
<1>7. IsRow([key |-> k, key_len |-> Len(k), field_len |-> FieldSize(s[n].val), offset |-> StartIn(s, n)])
  BY <1>1, <1>4, <1>5 DEF IsRow
<1> QED BY <1>6, <1>7

-----------------------------------------------------------------------------
(***************************************************************************)
(* What the decoders find in the files.                                    *)
(***************************************************************************)

\* The row IndexFromDBDecoder makes of a record at pos.
RowOf(r, pos) ==
  IF r.live THEN [live |-> TRUE, key |-> r.key, key_len |-> Len(r.key), field_len |-> FieldSize(r.val), offset |-> pos]
  ELSE [live |-> FALSE]

\* Both decoders of .db read a record or a tombstone wherever it stands.
RecordRead(r, b, pos) ==
  /\ RecordAt(b, pos) = Ok(Shown(r), pos + RecordSize(r))
  /\ IndexedRecordAt(b, pos) =
       IF r.live /\ r.key = <<>> THEN Err ELSE Ok(RowOf(r, pos), pos + RecordSize(r))

\* A record is read as it was written, a tombstone as one.
LEMMA RecordReads ==
  ASSUME NEW r \in R!Record, NEW b \in Seq(Byte), NEW pos \in Nat, Holds(b, pos, RecordBytesOf(r))
  PROVE  RecordRead(r, b, pos)
<1> DEFINE k == r.key
           f == r.val
           next == pos + RecordHead + Len(k) + FieldSize(f)
<1>1. k \in Keys /\ f \in Fields /\ r.live \in BOOLEAN /\ RecordSize(r) = RecordHead + Len(k) + FieldSize(f)
  BY RecordPiece
<1>2. k \in Seq(Byte) /\ Len(k) < Pow[W16] /\ Len(k) \in Nat
  BY <1>1, KeyFacts
<1>3. IsField(f) /\ FieldSize(f) < Pow[W32] /\ FieldSize(f) \in Nat
  BY <1>1, FieldFacts
<1>4. RecordHead \in Nat
  BY HeadType
<1>5. next = pos + RecordSize(r)
  <2> HIDE DEF k, f
  <2> QED BY <1>1, <1>2, <1>3, <1>4
<1>6. Len(k) = 0 <=> k = <<>>
  <2> HIDE DEF k
  <2> QED BY <1>2
<1>7. CASE r.live
  <2>1. RecordBytesOf(r) = Encode(k, f)
    BY <1>7 DEF RecordBytesOf
  <2>2. Holds(b, pos, Encode(k, f))
    BY <2>1
  <2>3. Shown(r) = [live |-> TRUE, key |-> k, field |-> f]
    BY <1>7 DEF Shown
  <2>4. RowOf(r, pos) = [live |-> TRUE, key |-> k, key_len |-> Len(k), field_len |-> FieldSize(f), offset |-> pos]
    BY <1>7 DEF RowOf
  <2> HIDE DEF k, f
  <2>5. /\ RecordAt(b, pos) = Ok([live |-> TRUE, key |-> k, field |-> f], next)
        /\ IndexedRecordAt(b, pos) =
             IF Len(k) = 0 THEN Err
             ELSE Ok([live |-> TRUE, key |-> k, key_len |-> Len(k), field_len |-> FieldSize(f), offset |-> pos], next)
    BY <1>2, <1>3, <2>2, LiveRecordAt DEF FieldSize
  <2> HIDE DEF next
  <2>6. RecordAt(b, pos) = Ok(Shown(r), pos + RecordSize(r))
    BY <1>5, <2>3, <2>5, Zenon
  <2>7. IndexedRecordAt(b, pos) = IF k = <<>> THEN Err ELSE Ok(RowOf(r, pos), pos + RecordSize(r))
    BY <1>5, <1>6, <2>4, <2>5, Zenon
  <2> QED BY <1>7, <2>6, <2>7 DEF RecordRead, k
<1>8. CASE ~ r.live
  <2>1. RecordBytesOf(r) = Tombstone(Len(k), FieldSize(f))
    BY <1>8 DEF RecordBytesOf
  <2>2. Holds(b, pos, Tombstone(Len(k), FieldSize(f)))
    BY <2>1
  <2>3. Shown(r) = [live |-> FALSE] /\ RowOf(r, pos) = [live |-> FALSE]
    BY <1>8 DEF Shown, RowOf
  <2> HIDE DEF k, f
  <2>4. RecordAt(b, pos) = Ok([live |-> FALSE], next) /\ IndexedRecordAt(b, pos) = Ok([live |-> FALSE], next)
    BY <1>2, <1>3, <2>2, TombstoneAt
  <2> HIDE DEF next
  <2> QED BY <1>5, <1>8, <2>3, <2>4, Zenon DEF RecordRead
<1> QED BY <1>1, <1>7, <1>8

\* d is a .db file of these records.
DbIs(d, h, s) == IsHeader(h) /\ s \in Seq(R!Record) /\ d = h \o FlattenSeq(RecordPieces(s))

\* In a .db file, every record stands at its offset and is read there.
LEMMA RecordsStand ==
  ASSUME NEW d, NEW h, NEW s, DbIs(d, h, s)
  PROVE  /\ RecordPieces(s) \in Seq(Seq(Byte)) /\ Len(RecordPieces(s)) = Len(s) /\ Len(s) \in Nat
         /\ h \in Seq(Byte) /\ Len(h) = HeaderLen /\ d \in Seq(Byte) /\ HeaderOk(d) /\ d = h \o FlattenSeq(RecordPieces(s))
         /\ Len(d) = HeaderLen + Off(RecordPieces(s), Len(s))
         /\ \A i \in 1 .. Len(s) :
              /\ s[i] \in R!Record /\ Len(RecordPieces(s)[i]) > 0
              /\ StartIn(s, i) \in Cursor(d) /\ StartIn(s, i) = HeaderLen + Off(RecordPieces(s), i - 1)
              /\ StartIn(s, i) + RecordSize(s[i]) = HeaderLen + Off(RecordPieces(s), i)
              /\ RecordRead(s[i], d, StartIn(s, i))
<1> DEFINE ss == RecordPieces(s)
           t == FlattenSeq(ss)
<1>1. IsHeader(h) /\ s \in Seq(R!Record) /\ d = h \o t
  BY DEF DbIs
<1>2. h \in Seq(Byte) /\ Len(h) = HeaderLen /\ HeaderLen \in Nat
  BY <1>1, HeaderLenType DEF IsHeader
<1>3. ss \in Seq(Seq(Byte)) /\ Len(ss) = Len(s) /\ Len(s) \in Nat
  BY <1>1, RecordPiecesType
<1>4. t \in Seq(Byte)
  <2> HIDE DEF ss
  <2> QED BY <1>3, FlattenType
<1>5. Off(ss, Len(s)) = Len(t) /\ \A i \in 1 .. Len(s) : Off(ss, i) = Off(ss, i - 1) + Len(ss[i]) /\ Off(ss, i - 1) \in Nat
  <2> HIDE DEF ss
  <2>1. /\ Off(ss, Len(ss)) = Len(t) /\ \A i \in 0 .. Len(ss) : Off(ss, i) \in Nat
        /\ \A i \in 1 .. Len(ss) : Off(ss, i) = Off(ss, i - 1) + Len(ss[i])
    BY <1>3, OffFacts
  <2>2. \A i \in 1 .. Len(s) : i - 1 \in 0 .. Len(s)
    BY <1>3
  <2> QED BY <1>3, <2>1, <2>2
<1>6. HeaderOk(d) /\ d \in Seq(Byte) /\ Len(d) = HeaderLen + Len(t)
  <2> HIDE DEF t
  <2> QED BY <1>1, <1>4, HeaderAccepted
<1>7. Len(d) = HeaderLen + Off(ss, Len(s))
  <2> HIDE DEF t, ss
  <2> QED BY <1>5, <1>6
<1>8. ASSUME NEW i \in 1 .. Len(s)
      PROVE  /\ s[i] \in R!Record /\ Len(ss[i]) > 0
             /\ StartIn(s, i) \in Cursor(d) /\ StartIn(s, i) = HeaderLen + Off(ss, i - 1)
             /\ StartIn(s, i) + RecordSize(s[i]) = HeaderLen + Off(ss, i)
             /\ RecordRead(s[i], d, StartIn(s, i))
  <2> DEFINE at == StartIn(s, i)
             r == s[i]
  <2>1. r \in R!Record /\ ss[i] = RecordBytesOf(r)
    BY <1>1, RecordPiecesType
  <2>2. Len(ss[i]) = RecordSize(r) /\ RecordSize(r) > 0 /\ RecordSize(r) \in Nat
    BY <2>1, RecordPiece
  <2>3. at = HeaderLen + Off(ss, i - 1) /\ at \in Nat
    BY <1>1, StartFacts
  <2>4. Holds(d, at, RecordBytesOf(r))
    <3>1. Holds(h \o FlattenSeq(ss), Len(h) + Off(ss, i - 1), ss[i])
      <4>1. i \in 1 .. Len(ss)
        BY <1>3
      <4> HIDE DEF ss
      <4> QED BY <1>2, <1>3, <4>1, FlattenHolds
    <3>2. Holds(h \o t, at, ss[i])
      BY <1>2, <2>3, <3>1
    <3> HIDE DEF ss, at, r
    <3> QED BY <1>1, <2>1, <3>2, Zenon
  <2>5. at + Len(ss[i]) <= Len(d)
    <3>1. at + Len(RecordBytesOf(r)) <= Len(d)
      BY <2>4, Zenon DEF Holds
    <3> QED BY <2>1, <3>1, Zenon
  <2>6. RecordRead(r, d, at)
    <3> HIDE DEF r, at
    <3> QED BY <1>6, <2>1, <2>3, <2>4, RecordReads
  <2>7. Len(d) \in Nat
    BY <1>6
  <2>8. at + RecordSize(r) = HeaderLen + Off(ss, i)
    <3> HIDE DEF ss, r, at
    <3> QED BY <1>2, <1>5, <2>2, <2>3
  <2>9. at \in Cursor(d)
    <3> HIDE DEF ss, r, at
    <3> QED BY <2>2, <2>3, <2>5, <2>7 DEF Cursor
  <2> QED BY <2>1, <2>2, <2>3, <2>6, <2>8, <2>9
<1> HIDE DEF ss
<1> QED BY <1>1, <1>2, <1>3, <1>6, <1>7, <1>8 DEF ss

\* A function from 1 .. n.
IsTuple(v, n) == v = [i \in 1 .. n |-> v[i]]

\* The values a decoder made are a sequence.
LEMMA Vals ==
  ASSUME NEW n \in Nat, NEW v, IsTuple(v, n)
  PROVE  v \in Seq({v[i] : i \in 1 .. n}) /\ Len(v) = n
<1> DEFINE V == {v[i] : i \in 1 .. n}
<1>1. \A i \in 1 .. n : v[i] \in V
  OBVIOUS
<1> HIDE DEF V
<1>2. v \in Seq(V) /\ Len(v) = n
  BY <1>1 DEF IsTuple
<1> QED BY <1>2 DEF V

\* DBDecoder finds the records of a .db file.
LEMMA DbDecodes ==
  ASSUME NEW d, NEW h, NEW s, DbIs(d, h, s)
  PROVE  DecodeDb(d) = Ok([i \in 1 .. Len(s) |-> Shown(s[i])], Len(d))
<1> DEFINE ss == RecordPieces(s)
           v == [i \in 1 .. Len(s) |-> Shown(s[i])]
           turn == [pos \in Cursor(d) |-> RecordAt(d, pos)]
           k == Len(d)
           V == {v[i] : i \in 1 .. Len(s)}
<1>1. /\ ss \in Seq(Seq(Byte)) /\ Len(ss) = Len(s) /\ Len(s) \in Nat /\ h \in Seq(Byte) /\ Len(h) = HeaderLen
      /\ d \in Seq(Byte) /\ HeaderOk(d) /\ d = h \o FlattenSeq(ss)
  BY RecordsStand
<1>2. \A i \in 1 .. Len(s) :
        /\ Len(ss[i]) > 0 /\ StartIn(s, i) \in Cursor(d) /\ StartIn(s, i) = HeaderLen + Off(ss, i - 1)
        /\ StartIn(s, i) + RecordSize(s[i]) = HeaderLen + Off(ss, i)
        /\ RecordRead(s[i], d, StartIn(s, i))
  BY RecordsStand
<1> HIDE DEF ss
<1>3. v = [i \in 1 .. Len(s) |-> v[i]] /\ \A i \in 1 .. Len(s) : v[i] = Shown(s[i])
  OBVIOUS
<1> HIDE DEF v
<1>4. v \in Seq(V) /\ Len(v) = Len(s)
  BY <1>1, <1>3, Vals DEF IsTuple
<1>5. Advances(turn, k)
  BY <1>1, RecordsAdvance
<1>6. \A pos \in Cursor(d) : turn[pos] = RecordAt(d, pos)
  OBVIOUS
<1>7. DecodeDb(d) = DecodeAll(turn, HeaderLen)
  BY <1>1 DEF DecodeDb
<1> HIDE DEF turn, V
<1>8. Reads1(turn, h, ss, v)
  <2>1. Len(v) <= Len(ss)
    BY <1>1, <1>4
  <2>2. ASSUME NEW i \in 1 .. Len(s)
        PROVE  Len(ss[i]) > 0 /\ turn[Len(h) + Off(ss, i - 1)] = Ok(v[i], Len(h) + Off(ss, i))
    <3>1. turn[StartIn(s, i)] = RecordAt(d, StartIn(s, i))
      BY <1>2, <1>6
    <3>2. RecordAt(d, StartIn(s, i)) = Ok(Shown(s[i]), StartIn(s, i) + RecordSize(s[i]))
      BY <1>2, Zenon DEF RecordRead
    <3>3. turn[HeaderLen + Off(ss, i - 1)] = Ok(v[i], HeaderLen + Off(ss, i))
      BY <1>2, <1>3, <3>1, <3>2, Zenon
    <3>4. Len(ss[i]) > 0
      BY <1>2
    <3> QED BY <1>1, <3>3, <3>4, Zenon
  <2> QED BY <1>4, <2>1, <2>2, Zenon DEF Reads1
<1>9. DecodeAll(turn, Len(h)) = Ok(v, k)
  <2>1. k = Len(h \o FlattenSeq(ss)) /\ k \in Nat
    BY <1>1
  <2>2. Len(v) = Len(ss)
    BY <1>1, <1>4
  <2> HIDE DEF k
  <2> QED BY <1>1, <1>4, <1>5, <1>8, <2>1, <2>2, DecodeWhole
<1> QED BY <1>1, <1>7, <1>9, Zenon DEF v

\* No live record has the empty key, which index_push refuses.
NoneEmpty(s) == \A i \in 1 .. Len(s) : s[i].live => s[i].key # <<>>
IndexRows(s) == [i \in 1 .. Len(s) |-> RowOf(s[i], StartIn(s, i))]

\* The loop of IndexFromDBDecoder and the rows of its first n turns.
IndexTurn(d) == [pos \in Cursor(d) |-> IndexedRecordAt(d, pos)]
FirstRows(s, n) == SubSeq(IndexRows(s), 1, n)
RowsRead(d, h, s, n) ==
  /\ Reads1(IndexTurn(d), h, RecordPieces(s), FirstRows(s, n))
  /\ FirstRows(s, n) \in Seq({FirstRows(s, n)[i] : i \in 1 .. n}) /\ Len(FirstRows(s, n)) = n

\* IndexFromDBDecoder gets as far as the records go that have a key.
LEMMA IndexFromDbReads ==
  ASSUME NEW d, NEW h, NEW s, DbIs(d, h, s), NEW n \in 0 .. Len(s),
         \A i \in 1 .. n : s[i].live => s[i].key # <<>>
  PROVE  RowsRead(d, h, s, n)
<1> DEFINE ss == RecordPieces(s)
           v == SubSeq(IndexRows(s), 1, n)
           turn == [pos \in Cursor(d) |-> IndexedRecordAt(d, pos)]
<1>1. /\ ss \in Seq(Seq(Byte)) /\ Len(ss) = Len(s) /\ Len(s) \in Nat /\ h \in Seq(Byte) /\ Len(h) = HeaderLen
      /\ d \in Seq(Byte)
  BY RecordsStand
<1>2. \A i \in 1 .. Len(s) :
        /\ Len(ss[i]) > 0 /\ StartIn(s, i) \in Cursor(d) /\ StartIn(s, i) = HeaderLen + Off(ss, i - 1)
        /\ StartIn(s, i) + RecordSize(s[i]) = HeaderLen + Off(ss, i)
        /\ RecordRead(s[i], d, StartIn(s, i))
  BY RecordsStand
<1> HIDE DEF ss
<1>3. v = [i \in 1 .. n |-> v[i]] /\ Len(v) = n /\ \A i \in 1 .. n : v[i] = RowOf(s[i], StartIn(s, i))
  <2> DEFINE o(i) == RowOf(s[i], StartIn(s, i))
             m == Len(s)
             w == [i \in 1 .. m |-> o(i)]
  <2>1. m \in Nat /\ n \in 0 .. m
    BY <1>1
  <2>2. w \in Seq({o(i) : i \in 1 .. m}) /\ Len(w) = m
    <3> HIDE DEF o, m
    <3> QED BY <2>1, SMTT(30)
  <2>3. IndexRows(s) = w
    BY DEF IndexRows
  <2>4. \A i \in 1 .. m : w[i] = o(i)
    OBVIOUS
  <2> HIDE DEF o, m, w
  <2>5. SubSeq(w, 1, n) = [i \in 1 .. n |-> SubSeq(w, 1, n)[i]] /\ Len(SubSeq(w, 1, n)) = n
        /\ \A i \in 1 .. n : SubSeq(w, 1, n)[i] = w[i]
    BY <2>1, <2>2
  <2>6. \A i \in 1 .. n : i \in 1 .. m
    BY <2>1
  <2>7. \A i \in 1 .. n : v[i] = o(i)
    BY <2>3, <2>4, <2>5, <2>6
  <2> QED BY <2>3, <2>5, <2>7 DEF o
<1> HIDE DEF v
<1>4. n \in Nat /\ n <= Len(s) /\ \A i \in 1 .. n : i \in 1 .. Len(s)
  BY <1>1
<1>5. v \in Seq({v[i] : i \in 1 .. n}) /\ Len(v) = n
  BY <1>3, <1>4, Vals DEF IsTuple
<1>6. \A pos \in Cursor(d) : turn[pos] = IndexedRecordAt(d, pos)
  OBVIOUS
<1> HIDE DEF turn
<1>7. Reads1(turn, h, ss, v)
  <2>1. Len(v) <= Len(ss)
    BY <1>1, <1>4, <1>5
  <2>2. ASSUME NEW i \in 1 .. n
        PROVE  Len(ss[i]) > 0 /\ turn[Len(h) + Off(ss, i - 1)] = Ok(v[i], Len(h) + Off(ss, i))
    <3>0. i \in 1 .. Len(s)
      BY <1>4
    <3>1. turn[StartIn(s, i)] = IndexedRecordAt(d, StartIn(s, i))
      BY <1>2, <1>6, <3>0
    <3>2. ~ (s[i].live /\ s[i].key = <<>>)
      OBVIOUS
    <3>3. IndexedRecordAt(d, StartIn(s, i)) = Ok(RowOf(s[i], StartIn(s, i)), StartIn(s, i) + RecordSize(s[i]))
      BY <1>2, <3>0, <3>2, Zenon DEF RecordRead
    <3>4. turn[HeaderLen + Off(ss, i - 1)] = Ok(v[i], HeaderLen + Off(ss, i))
      BY <1>2, <1>3, <3>0, <3>1, <3>3, Zenon
    <3>5. Len(ss[i]) > 0
      BY <1>2, <3>0
    <3> QED BY <1>1, <3>4, <3>5, Zenon
  <2> QED BY <1>5, <2>1, <2>2, Zenon DEF Reads1
<1>8. v = FirstRows(s, n) /\ turn = IndexTurn(d)
  BY DEF v, FirstRows, turn, IndexTurn
<1> QED BY <1>5, <1>7, <1>8 DEF RowsRead, ss

\* Without an empty key, IndexFromDBDecoder finds a row for every record.
LEMMA IndexFromDbDecodes ==
  ASSUME NEW d, NEW h, NEW s, DbIs(d, h, s), NoneEmpty(s)
  PROVE  DecodeIndexFromDb(d) = Ok(IndexRows(s), Len(d))
<1> DEFINE ss == RecordPieces(s)
           n == Len(s)
           v == SubSeq(IndexRows(s), 1, n)
           turn == [pos \in Cursor(d) |-> IndexedRecordAt(d, pos)]
           k == Len(d)
           V == {v[i] : i \in 1 .. n}
<1>1. /\ ss \in Seq(Seq(Byte)) /\ Len(ss) = n /\ n \in Nat /\ h \in Seq(Byte) /\ Len(h) = HeaderLen
      /\ d \in Seq(Byte) /\ d = h \o FlattenSeq(ss)
  BY RecordsStand
<1>2. Reads1(turn, h, ss, v) /\ v \in Seq(V) /\ Len(v) = n
  <2>1. n \in 0 .. Len(s) /\ \A i \in 1 .. n : s[i].live => s[i].key # <<>>
    BY <1>1 DEF NoneEmpty
  <2>2. RowsRead(d, h, s, n)
    BY <2>1, IndexFromDbReads
  <2> QED BY <2>2, Zenon DEF RowsRead, FirstRows, IndexTurn
<1>3. v = IndexRows(s)
  <2> DEFINE o(i) == RowOf(s[i], StartIn(s, i))
             w == [i \in 1 .. n |-> o(i)]
  <2>1. w \in Seq({o(i) : i \in 1 .. n}) /\ Len(w) = n
    <3>1. n \in Nat
      BY <1>1
    <3> HIDE DEF o, n
    <3> QED BY <3>1
  <2>2. IndexRows(s) = w
    BY DEF IndexRows
  <2> HIDE DEF w, n
  <2>3. SubSeq(w, 1, n) = w
    BY <2>1
  <2> QED BY <2>2, <2>3
<1>4. Advances(turn, k)
  BY <1>1, RecordsAdvance
<1>5. DecodeIndexFromDb(d) = DecodeAll(turn, HeaderLen)
  BY DEF DecodeIndexFromDb
<1> HIDE DEF turn, V, v, ss, n
<1>6. DecodeAll(turn, Len(h)) = Ok(v, k)
  <2>1. k = Len(h \o FlattenSeq(ss)) /\ k \in Nat
    BY <1>1
  <2>2. Len(v) = Len(ss)
    BY <1>1, <1>2
  <2> HIDE DEF k
  <2> QED BY <1>1, <1>2, <1>4, <2>1, <2>2, DecodeWhole
<1> QED BY <1>1, <1>3, <1>5, <1>6, Zenon

\* With one, it fails at the first.
LEMMA IndexFromDbFails ==
  ASSUME NEW d, NEW h, NEW s, DbIs(d, h, s), ~ NoneEmpty(s)
  PROVE  DecodeIndexFromDb(d) = Err
<1> DEFINE ss == RecordPieces(s)
           turn == [pos \in Cursor(d) |-> IndexedRecordAt(d, pos)]
           k == Len(d)
           Bad(i) == i \in 1 .. Len(s) /\ s[i].live /\ s[i].key = <<>>
<1>1. /\ ss \in Seq(Seq(Byte)) /\ Len(ss) = Len(s) /\ Len(s) \in Nat /\ h \in Seq(Byte) /\ Len(h) = HeaderLen
      /\ d \in Seq(Byte) /\ d = h \o FlattenSeq(ss)
  BY RecordsStand
<1>2. \E j \in Nat : Bad(j) /\ \A i \in 1 .. j - 1 : ~ Bad(i)
  <2> DEFINE S == {m \in Nat : \A i \in 1 .. m : ~ Bad(i)}
  <2> SUFFICES ASSUME \A j \in Nat : Bad(j) => \E i \in 1 .. j - 1 : Bad(i)
               PROVE  FALSE
    BY Zenon
  <2> HIDE DEF Bad
  <2>1. 0 \in S
    OBVIOUS
  <2>2. ASSUME NEW m \in Nat, m \in S PROVE m + 1 \in S
    <3>1. \A i \in 1 .. m : ~ Bad(i)
      BY <2>2
    <3>2. (m + 1) - 1 = m
      OBVIOUS
    <3>3. ~ Bad(m + 1)
      BY <3>1, <3>2
    <3>4. \A i \in 1 .. m + 1 : i \in 1 .. m \/ i = m + 1
      OBVIOUS
    <3> QED BY <3>1, <3>3, <3>4
  <2>3. \A m \in Nat : m \in S
    <3> HIDE DEF S
    <3> QED BY <2>1, <2>2, Induction
  <2>4. \A i \in 1 .. Len(s) : ~ Bad(i)
    BY <1>1, <2>3
  <2>5. NoneEmpty(s)
    BY <2>4 DEF NoneEmpty, Bad
  <2> QED BY <2>5
<1>3. PICK j \in Nat : Bad(j) /\ \A i \in 1 .. j - 1 : ~ Bad(i)
  BY <1>2
<1>4. j \in 1 .. Len(s) /\ s[j].live /\ s[j].key = <<>> /\ j - 1 \in 0 .. Len(s)
  BY <1>1, <1>3
<1>5. \A i \in 1 .. j - 1 : s[i].live => s[i].key # <<>>
  BY <1>1, <1>3, <1>4
<1> DEFINE n == j - 1
           v == SubSeq(IndexRows(s), 1, n)
           V == {v[i] : i \in 1 .. n}
<1>6. Reads1(turn, h, ss, v) /\ v \in Seq(V) /\ Len(v) = n
  <2>1. n \in 0 .. Len(s) /\ \A i \in 1 .. n : s[i].live => s[i].key # <<>>
    BY <1>4, <1>5
  <2>2. RowsRead(d, h, s, n)
    <3> HIDE DEF n
    <3> QED BY <2>1, IndexFromDbReads
  <2> QED BY <2>2, Zenon DEF RowsRead, FirstRows, IndexTurn
<1>7. Advances(turn, k)
  BY <1>1, RecordsAdvance
<1>8. DecodeIndexFromDb(d) = DecodeAll(turn, HeaderLen)
  BY DEF DecodeIndexFromDb
<1> DEFINE at == StartIn(s, j)
<1>9. at \in Cursor(d) /\ at = HeaderLen + Off(ss, n) /\ RecordRead(s[j], d, at)
  BY <1>4, RecordsStand
<1>10. turn[at] = Err
  <2>1. IndexedRecordAt(d, at) = Err
    BY <1>4, <1>9, Zenon DEF RecordRead
  <2> QED BY <1>9, <2>1
<1> HIDE DEF turn, V, v, ss, n, Bad, at
<1>11. k \in Nat /\ k = Len(h \o FlattenSeq(ss))
  BY <1>1
<1>12. DecodeAll(turn, at) = Err
  <2>1. at \in 0 .. k - 1
    BY <1>9 DEF Cursor
  <2>2. turn[at].out # "ok"
    BY <1>10, ErrFields
  <2> HIDE DEF k
  <2> QED BY <1>7, <1>10, <1>11, <2>1, <2>2, DecodeAllFails
<1> DEFINE r == DecodeAll(turn, Len(h) + Off(ss, Len(v)))
<1>13. r = Err /\ r.out # "ok"
  BY <1>1, <1>6, <1>9, <1>12, ErrFields
<1> HIDE DEF r, k
<1>14. DecodeAll(turn, Len(h)) = IF r.out # "ok" THEN r ELSE Ok(v \o r.val, r.next)
  <2>1. r = DecodeAll(turn, Len(h) + Off(ss, Len(v)))
    BY DEF r
  <2> QED BY <1>1, <1>6, <1>7, <1>11, <1>13, <2>1, DecodeFlat
<1> QED BY <1>1, <1>8, <1>13, <1>14, Zenon

\* The loop of a decoder finds v[i] wherever the i-th of n pieces stands.
ReadsEach(turn, b, ss, v, n) ==
  \A i \in 1 .. n :
    /\ Len(ss[i]) > 0
    /\ \A pos \in Cursor(b) : Holds(b, pos, ss[i]) => turn[pos] = Ok(v[i], pos + Len(ss[i]))

\* From the first byte on, such a loop reads every piece.
LEMMA DecodeFromStart ==
  ASSUME NEW ss \in Seq(Seq(Byte)), NEW b, b = FlattenSeq(ss), NEW turn, Advances(turn, Len(b)),
         NEW n \in Nat, Len(ss) = n, NEW v, IsTuple(v, n), ReadsEach(turn, b, ss, v, n)
  PROVE  DecodeAll(turn, 0) = Ok(v, Len(b))
<1> DEFINE V == {v[i] : i \in 1 .. n}
           pre == <<>>
           k == Len(b)
<1>1. v \in Seq(V) /\ Len(v) = n
  BY Vals
<1>2. b \in Seq(Byte) /\ k \in Nat
  BY FlattenType
<1>3. pre \in Seq(Byte) /\ Len(pre) = 0
  OBVIOUS
<1>4. b = pre \o FlattenSeq(ss)
  BY <1>2
<1> HIDE DEF pre, V
<1>5. Reads1(turn, pre, ss, v)
  <2>1. Len(v) \in Nat /\ Len(v) <= Len(ss)
    BY <1>1
  <2>2. \A i \in 1 .. Len(v) :
          /\ Len(ss[i]) > 0
          /\ \A pos \in Cursor(b) : Holds(b, pos, ss[i]) => turn[pos] = Ok(v[i], pos + Len(ss[i]))
    BY <1>1, Zenon DEF ReadsEach
  <2> QED BY <1>3, <1>4, <2>1, <2>2, HoldsReads
<1>6. k = Len(pre \o FlattenSeq(ss)) /\ Len(v) = Len(ss) /\ Advances(turn, k)
  BY <1>1, <1>4
<1> HIDE DEF k
<1>7. DecodeAll(turn, Len(pre)) = Ok(v, k)
  <2> DEFINE B == Seq(Byte)
  <2>1. /\ pre \in B /\ ss \in Seq(B) /\ k = Len(pre \o FlattenSeq(ss)) /\ Advances(turn, k)
        /\ v \in Seq(V) /\ Reads1(turn, pre, ss, v) /\ Len(v) = Len(ss)
    BY <1>1, <1>2, <1>3, <1>5, <1>6
  <2>2. \A p \in B, s \in Seq(B), x \in Seq(V) :
          k = Len(p \o FlattenSeq(s)) /\ Advances(turn, k) /\ Reads1(turn, p, s, x) /\ Len(x) = Len(s)
            => DecodeAll(turn, Len(p)) = Ok(x, k)
    BY DecodeWhole
  <2> HIDE DEF B
  <2> QED BY <2>1, <2>2, Zenon
<1> QED BY <1>3, <1>7, Zenon DEF k

\* WalDecoder finds the entries of a log.
LEMMA WalDecodes ==
  ASSUME NEW s \in Seq(R!WalEntry), NEW b, b = FlattenSeq(EntryPieces(s))
  PROVE  DecodeWal(b) = Ok([i \in 1 .. Len(s) |-> [key |-> s[i].key, field |-> s[i].val]], Len(b))
<1> DEFINE ss == EntryPieces(s)
           v == [i \in 1 .. Len(s) |-> [key |-> s[i].key, field |-> s[i].val]]
           turn == [pos \in Cursor(b) |-> EntryAt(b, pos)]
<1>1. ss \in Seq(Seq(Byte)) /\ Len(ss) = Len(s) /\ Len(s) \in Nat /\ b = FlattenSeq(ss)
  BY EntryPiecesType
<1>2. \A i \in 1 .. Len(s) :
        ss[i] = EncodeEntry([key |-> s[i].key, field |-> s[i].val]) /\ EntryHolds(s[i].key, s[i].val)
  BY EntryPiecesType
<1>3. \A i \in 1 .. Len(s) : s[i].key \in Keys
  <2> TAKE i \in 1 .. Len(s)
  <2>1. s[i] \in R!WalEntry
    OBVIOUS
  <2> QED BY <2>1 DEF R!WalEntry
<1> HIDE DEF ss
<1>4. b \in Seq(Byte)
  BY <1>1, FlattenType
<1>5. Advances(turn, Len(b))
  BY <1>4, EntriesAdvance
<1>6. \A pos \in Cursor(b) : turn[pos] = EntryAt(b, pos) /\ pos \in Nat
  BY DEF Cursor
<1>7. v = [i \in 1 .. Len(s) |-> v[i]] /\ \A i \in 1 .. Len(s) : v[i] = [key |-> s[i].key, field |-> s[i].val]
  OBVIOUS
<1>8. DecodeWal(b) = DecodeAll(turn, 0)
  BY DEF DecodeWal
<1> HIDE DEF turn, v
<1>9. ASSUME NEW i \in 1 .. Len(s)
      PROVE  /\ Len(ss[i]) > 0
             /\ \A pos \in Cursor(b) : Holds(b, pos, ss[i]) => turn[pos] = Ok(v[i], pos + Len(ss[i]))
  <2> DEFINE k == s[i].key
             f == s[i].val
             e == [key |-> k, field |-> f]
  <2>1. EntryHolds(k, f) /\ ss[i] = EncodeEntry(e) /\ v[i] = e
    BY <1>2, <1>7
  <2>2. /\ Len(EncodeEntry(e)) = EntrySize(k, f)
        /\ \A pos \in Nat : Holds(b, pos, EncodeEntry(e)) => EntryAt(b, pos) = Ok(e, pos + EntrySize(k, f))
    BY <1>4, <2>1, Zenon DEF EntryHolds
  <2>3. EntrySize(k, f) > 0
    <3>1. Len(k) \in Nat
      BY <1>3, KeyFacts
    <3>2. f # NoFieldEntry => FieldSize(f) \in Nat
      <4>1. s[i] \in R!WalEntry
        OBVIOUS
      <4>2. f \in Fields \/ f = None
        BY <4>1 DEF R!WalEntry
      <4> QED BY <4>2, FieldFacts DEF None
    <3>3. EntrySize(k, f) = 1 + W16 + Len(k) + (IF f = NoFieldEntry THEN 0 ELSE W32 + FieldSize(f))
      BY DEF EntrySize, FieldSize
    <3> HIDE DEF k, f
    <3> QED BY <3>1, <3>2, <3>3, Widths
  <2> HIDE DEF k, f, e
  <2> QED BY <1>6, <2>1, <2>2, <2>3, Zenon
<1>10. DecodeAll(turn, 0) = Ok(v, Len(b))
  <2> DEFINE n == Len(s)
  <2>1. n \in Nat /\ Len(ss) = n /\ IsTuple(v, n) /\ ReadsEach(turn, b, ss, v, n)
    BY <1>1, <1>7, <1>9, Zenon DEF ReadsEach, IsTuple
  <2> HIDE DEF n
  <2> QED BY <1>1, <1>5, <2>1, DecodeFromStart
<1> QED BY <1>8, <1>10, Zenon DEF v

\* IndexDecoder finds the rows of an index file.
LEMMA IndexDecodes ==
  ASSUME NEW T, NEW s \in Seq(T), \A i \in 1 .. Len(s) : IsRow(s[i]), NEW b, b = FlattenSeq(RowPieces(s))
  PROVE  DecodeIndex(b) = Ok([i \in 1 .. Len(s) |-> ShownRow(s[i])], Len(b))
<1> DEFINE ss == RowPieces(s)
           v == [i \in 1 .. Len(s) |-> ShownRow(s[i])]
           turn == [pos \in Cursor(b) |-> RowAt(b, pos)]
<1>1. ss \in Seq(Seq(Byte)) /\ Len(ss) = Len(s) /\ Len(s) \in Nat /\ b = FlattenSeq(ss)
  BY RowPiecesType
<1>2. \A i \in 1 .. Len(s) : ss[i] = EncodeRow(s[i]) /\ RowHolds(s[i])
  BY RowPiecesType
<1> HIDE DEF ss
<1>3. b \in Seq(Byte)
  BY <1>1, FlattenType
<1>4. Advances(turn, Len(b))
  BY <1>3, RowsAdvance
<1>5. \A pos \in Cursor(b) : turn[pos] = RowAt(b, pos) /\ pos \in Nat
  BY DEF Cursor
<1>6. v = [i \in 1 .. Len(s) |-> v[i]] /\ \A i \in 1 .. Len(s) : v[i] = ShownRow(s[i])
  OBVIOUS
<1>7. DecodeIndex(b) = DecodeAll(turn, 0)
  BY DEF DecodeIndex
<1> HIDE DEF turn, v
<1>8. ASSUME NEW i \in 1 .. Len(s)
      PROVE  /\ Len(ss[i]) > 0
             /\ \A pos \in Cursor(b) : Holds(b, pos, ss[i]) => turn[pos] = Ok(v[i], pos + Len(ss[i]))
  <2> DEFINE r == s[i]
             l == Len(r.key)
  <2>1. l \in Nat
    BY DEF IsRow
  <2>2. RowHolds(r) /\ ss[i] = EncodeRow(r) /\ v[i] = ShownRow(r)
    BY <1>2, <1>6
  <2>3. /\ Len(EncodeRow(r)) = W16 + l + W32 + W64
        /\ \A pos \in Nat : Holds(b, pos, EncodeRow(r)) => RowAt(b, pos) = Ok(ShownRow(r), pos + W16 + l + W32 + W64)
    BY <1>3, <2>2, Zenon DEF RowHolds
  <2> HIDE DEF r, l
  <2>4. \A pos \in Nat : pos + W16 + l + W32 + W64 = pos + (W16 + l + W32 + W64)
    BY <2>1, Widths
  <2>5. Len(ss[i]) > 0
    BY <2>1, <2>2, <2>3, Widths
  <2> QED BY <1>5, <2>2, <2>3, <2>4, <2>5, Zenon
<1>9. DecodeAll(turn, 0) = Ok(v, Len(b))
  <2> DEFINE n == Len(s)
  <2>1. n \in Nat /\ Len(ss) = n /\ IsTuple(v, n) /\ ReadsEach(turn, b, ss, v, n)
    BY <1>1, <1>6, <1>8, Zenon DEF ReadsEach, IsTuple
  <2> HIDE DEF n
  <2> QED BY <1>1, <1>4, <2>1, DecodeFromStart
<1> QED BY <1>7, <1>9, Zenon DEF v

-----------------------------------------------------------------------------
(***************************************************************************)
(* The index a decoder makes.                                              *)
(***************************************************************************)

\* The last position is one of them, and there is one if there are any.
LEMMA LastOfFacts ==
  ASSUME NEW n \in Nat, NEW S, S \subseteq 1 .. n
  PROVE  IF S = {} THEN R!LastOf(S) = 0 ELSE R!LastOf(S) \in S
<1>1. CASE S = {}
  BY <1>1 DEF R!LastOf
<1>2. CASE S # {}
  <2>1. \E m \in S : \A x \in S : x <= m
    <3> SUFFICES ASSUME \A m \in S : \E x \in S : ~ (x <= m)
                 PROVE  FALSE
      BY Zenon
    <3> DEFINE T == {m \in Nat : \E x \in S : m <= x}
    <3>1. 0 \in T
      <4>1. PICK x \in S : TRUE
        BY <1>2
      <4>2. 0 <= x
        OBVIOUS
      <4> QED BY <4>2
    <3>2. ASSUME NEW m \in Nat, m \in T PROVE m + 1 \in T
      <4>1. PICK x \in S : m <= x
        BY <3>2
      <4>2. PICK y \in S : ~ (y <= x)
        OBVIOUS
      <4>3. m + 1 <= y
        BY <4>1, <4>2
      <4> QED BY <4>3
    <3>3. n + 1 \in T
      <4> HIDE DEF T
      <4> QED BY <3>1, <3>2, Induction
    <3> QED BY <3>3
  <2> QED BY <1>2, <2>1 DEF R!LastOf
<1> QED BY <1>1, <1>2

\* The entry of a row.
EntryOf(r) == [key_len |-> r.key_len, field_len |-> r.field_len, offset |-> r.offset]

\* An index decoded from rows that point at records does so.
LEMMA IndexOfPoints ==
  ASSUME NEW s \in Seq(R!Record), Len(s) <= MaxItems, NEW items, Len(items) \in Nat,
         \A i \in 1 .. Len(items) : items[i].live => Points(s, items[i].key, EntryOf(items[i]))
  PROVE  /\ IndexOf(items) \in [Keys -> [key_len : Nat, field_len : Nat, offset : Nat]]
         /\ IndexWell(s, IndexOf(items))
<1> DEFINE of(k) == {i \in 1 .. Len(items) : items[i].live /\ items[i].key = k}
           e(k) == IF of(k) = {} THEN NoIndexEntry ELSE EntryOf(items[R!LastOf(of(k))])
           T == [key_len : Nat, field_len : Nat, offset : Nat]
<1>1. IndexOf(items) = [k \in Keys |-> e(k)]
  BY DEF IndexOf, EntryOf
<1>2. ASSUME NEW k \in Keys PROVE e(k) \in T /\ (e(k) = NoIndexEntry \/ Points(s, k, e(k)))
  <2>1. CASE of(k) = {}
    BY <2>1 DEF NoIndexEntry
  <2>2. CASE of(k) # {}
    <3> DEFINE i == R!LastOf(of(k))
    <3>1. i \in of(k)
      <4>1. of(k) \subseteq 1 .. Len(items)
        OBVIOUS
      <4> HIDE DEF of
      <4> QED BY <2>2, <4>1, LastOfFacts
    <3>2. i \in 1 .. Len(items) /\ items[i].live /\ items[i].key = k
      BY <3>1
    <3>3. e(k) = EntryOf(items[i])
      BY <2>2
    <3> HIDE DEF i, e
    <3>4. Points(s, k, e(k))
      BY <3>2, <3>3
    <3>5. e(k) \in T
      <4>1. PICK n \in 1 .. Len(s) : e(k) = EntryFor(s, k, n)
        BY <3>4 DEF Points
      <4> QED BY <4>1, EntryForType
    <3> QED BY <3>4, <3>5
  <2> QED BY <2>1, <2>2
<1> HIDE DEF e, T
<1>3. IndexOf(items) \in [Keys -> T]
  BY <1>1, <1>2
<1>4. IndexWell(s, IndexOf(items))
  BY <1>1, <1>2 DEF IndexWell
<1> QED BY <1>3, <1>4 DEF T

\* InBytes, for any sequence of records.
InBytesIn(s, entry, k) ==
  IF entry = R!NoEntry THEN NoIndexEntry
  ELSE [key_len |-> Len(k), field_len |-> entry.field_len, offset |-> StartIn(s, entry.offset)]

\* The index decoded from .db is the one Records describes, and its entries
\* point at records.
LEMMA IndexOfRows ==
  ASSUME NEW s \in Seq(R!Record)
  PROVE  /\ IndexOf(IndexRows(s)) = [k \in Keys |-> InBytesIn(s, R!IndexFromDb(s)[k], k)]
         /\ Len(IndexRows(s)) = Len(s)
         /\ \A i \in 1 .. Len(s) :
              IndexRows(s)[i].live => Points(s, IndexRows(s)[i].key, EntryOf(IndexRows(s)[i]))
<1> DEFINE v == IndexRows(s)
           n == Len(s)
<1>1. n \in Nat /\ \A i \in 1 .. n : s[i] \in R!Record
  BY RecordPiecesType
<1>2. v = [i \in 1 .. n |-> v[i]] /\ \A i \in 1 .. n : v[i] = RowOf(s[i], StartIn(s, i))
  BY DEF IndexRows
<1>3. Len(v) = n
  <2> DEFINE o(i) == RowOf(s[i], StartIn(s, i))
  <2>1. v = [i \in 1 .. n |-> o(i)]
    BY DEF IndexRows
  <2> HIDE DEF v, n, o
  <2> QED BY <1>1, <2>1
<1> HIDE DEF v
<1>4. \A i \in 1 .. n :
        /\ v[i].live <=> s[i].live
        /\ s[i].live => v[i].key = s[i].key /\ EntryOf(v[i]) = EntryFor(s, s[i].key, i)
  <2> TAKE i \in 1 .. n
  <2>1. v[i] = RowOf(s[i], StartIn(s, i))
    BY <1>2
  <2>2. s[i].live \in BOOLEAN
    BY <1>1 DEF R!Record
  <2>3. CASE s[i].live
    <3>1. v[i] = [live |-> TRUE, key |-> s[i].key, key_len |-> Len(s[i].key),
                  field_len |-> FieldSize(s[i].val), offset |-> StartIn(s, i)]
      BY <2>1, <2>3 DEF RowOf
    <3> QED BY <2>3, <3>1 DEF EntryOf, EntryFor
  <2>4. CASE ~ s[i].live
    <3>1. v[i] = [live |-> FALSE]
      BY <2>1, <2>4 DEF RowOf
    <3> QED BY <2>4, <3>1
  <2> QED BY <2>2, <2>3, <2>4
<1>5. \A i \in 1 .. n : v[i].live => Points(s, v[i].key, EntryOf(v[i]))
  BY <1>4 DEF Points
<1>6. ASSUME NEW k \in Keys PROVE IndexOf(v)[k] = InBytesIn(s, R!IndexFromDb(s)[k], k)
  <2> DEFINE of == {i \in 1 .. Len(v) : v[i].live /\ v[i].key = k}
             m == R!LastOf(of)
  <2>1. of = R!LiveAt(s, k)
    <3>1. \A i \in 1 .. n : s[i] # Torn
      <4> TAKE i \in 1 .. n
      <4>1. s[i] \in R!Record
        BY <1>1
      <4>2. DOMAIN s[i] = {"key", "val", "live"}
        BY <4>1 DEF R!Record
      <4>3. DOMAIN Torn = {"kind"}
        BY DEF Torn
      <4> QED BY <4>2, <4>3
    <3>2. of = {i \in 1 .. n : s[i] # Torn /\ s[i].key = k /\ s[i].live}
      BY <1>3, <1>4, <3>1
    <3> QED BY <3>2 DEF R!LiveAt
  <2>2. IndexOf(v)[k] = IF of = {} THEN NoIndexEntry ELSE EntryOf(v[m])
    BY DEF IndexOf, EntryOf
  <2>3. R!IndexFromDb(s)[k] =
          IF m = 0 THEN R!NoEntry
          ELSE [offset |-> m, field_len |-> [f \in Fields |-> Len(BytesFromField(f))][s[m].val]]
    <3> HIDE DEF of
    <3> QED BY <2>1 DEF R!IndexFromDb
  <2>4. of \subseteq 1 .. n
    BY <1>3
  <2>5. IF of = {} THEN m = 0 ELSE m \in of
    <3> HIDE DEF of
    <3> QED BY <1>1, <2>4, LastOfFacts
  <2>6. CASE of = {}
    <3> HIDE DEF of
    <3> QED BY <2>2, <2>3, <2>5, <2>6 DEF InBytesIn
  <2>7. CASE of # {}
    <3>1. m \in 1 .. n /\ v[m].live /\ v[m].key = k
      BY <1>3, <2>5, <2>7
    <3> HIDE DEF of, m
    <3>2. s[m].key = k /\ EntryOf(v[m]) = EntryFor(s, k, m) /\ s[m].val \in Fields
      <4>1. s[m].key = k /\ EntryOf(v[m]) = EntryFor(s, k, m)
        BY <1>4, <3>1
      <4>2. s[m] \in R!Record
        BY <1>1, <3>1
      <4> QED BY <4>1, <4>2 DEF R!Record
    <3> DEFINE entry == [offset |-> m, field_len |-> FieldSize(s[m].val)]
    <3>3. R!IndexFromDb(s)[k] = entry /\ m # 0
      BY <1>1, <2>3, <3>1, <3>2 DEF FieldSize
    <3>4. entry # R!NoEntry /\ entry.field_len = FieldSize(s[m].val) /\ entry.offset = m
      BY <3>3 DEF R!NoEntry
    <3> HIDE DEF entry
    <3>5. InBytesIn(s, entry, k) = EntryFor(s, k, m)
      BY <3>4 DEF InBytesIn, EntryFor
    <3> QED BY <2>2, <2>7, <3>2, <3>3, <3>5
  <2> QED BY <2>6, <2>7
<1>7. IndexOf(v) = [k \in Keys |-> InBytesIn(s, R!IndexFromDb(s)[k], k)]
  <2>1. IndexOf(v) = [k \in Keys |-> IndexOf(v)[k]]
    BY DEF IndexOf
  <2> DEFINE a == IndexOf(v)
             b(k) == InBytesIn(s, R!IndexFromDb(s)[k], k)
  <2>2. a = [k \in Keys |-> a[k]] /\ \A k \in Keys : a[k] = b(k)
    BY <1>6, <2>1
  <2> HIDE DEF a, b
  <2>3. a = [k \in Keys |-> b(k)]
    BY <2>2
  <2> QED BY <2>3 DEF a, b
<1> QED BY <1>3, <1>5, <1>7 DEF v, n

-----------------------------------------------------------------------------
(***************************************************************************)
(* What the writes make of the files.                                      *)
(***************************************************************************)

\* A .db file has a header.
LEMMA DbNotEmpty ==
  ASSUME NEW d, NEW h, NEW s, DbIs(d, h, s)
  PROVE  d # <<>> /\ d \in Seq(Byte) /\ Len(d) >= HeaderLen /\ HeaderLen > 0
<1>1. d \in Seq(Byte) /\ Len(d) = HeaderLen + Off(RecordPieces(s), Len(s)) /\ Len(s) \in Nat
  BY RecordsStand
<1>2. RecordPieces(s) \in Seq(Seq(Byte)) /\ Len(RecordPieces(s)) = Len(s)
  BY RecordsStand
<1>3. Off(RecordPieces(s), Len(s)) \in Nat
  <2>1. Len(s) \in 0 .. Len(RecordPieces(s))
    BY <1>1, <1>2
  <2> QED BY <1>2, <2>1, OffFacts
<1>4. HeaderLen \in Nat /\ HeaderLen > 0
  <2>1. RecordCountOffset \in Nat /\ KeyLen \in Nat
    BY BeforeCountType, MetaKeyType
  <2> QED BY <2>1, HeaderLenType, Widths
<1> DEFINE o == Off(RecordPieces(s), Len(s))
<1> HIDE DEF o
<1>5. Len(d) >= HeaderLen
  BY <1>1, <1>3, <1>4
<1>6. d # <<>>
  BY <1>4, <1>5
<1> QED BY <1>1, <1>4, <1>5, <1>6

\* The header alone is a .db file without records.
LEMMA DbNew == DbIs(Header(0), Header(0), <<>>)
<1>1. <<>> \in Seq(R!Record) /\ Len(<<>>) = 0
  OBVIOUS
<1>2. RecordPieces(<<>>) = <<>>
  BY DEF RecordPieces
<1>3. IsHeader(Header(0))
  BY HeaderFacts
<1> DEFINE h == Header(0)
<1>4. h \in Seq(Byte)
  BY <1>3 DEF IsHeader
<1> HIDE DEF h
<1>5. h \o <<>> = h
  BY <1>4
<1> QED BY <1>1, <1>2, <1>3, <1>5, FlattenEmpty DEF DbIs, h

\* A record is appended where the file ends.
DbGrown(d, h, s, r) ==
  /\ DbIs(d \o Encode(r.key, r.val), h, Append(s, r))
  /\ Extends(Append(s, r), s) /\ Len(Append(s, r)) = Len(s) + 1 /\ Append(s, r)[Len(s) + 1] = r
  /\ StartIn(Append(s, r), Len(s) + 1) = Len(d)

\* flush's append of a record.
LEMMA DbAppend ==
  ASSUME NEW d, NEW h, NEW s, DbIs(d, h, s), NEW r \in R!Record, r.live
  PROVE  DbGrown(d, h, s, r)
<1> DEFINE t == Append(s, r)
           p == RecordPieces(s)
           x == RecordBytesOf(r)
           n == Len(s)
<1>1. s \in Seq(R!Record) /\ IsHeader(h) /\ d = h \o FlattenSeq(p)
  BY DEF DbIs
<1>2. p \in Seq(Seq(Byte)) /\ Len(p) = n /\ n \in Nat /\ h \in Seq(Byte) /\ Len(h) = HeaderLen
  BY RecordsStand
<1>3. t \in Seq(R!Record) /\ RecordPieces(t) = Append(p, x)
  BY <1>1, RecordPiecesAppend
<1>4. x \in Seq(Byte) /\ x = Encode(r.key, r.val)
  <2>1. x \in Seq(Byte)
    BY RecordPiece
  <2> QED BY <2>1 DEF RecordBytesOf
<1>5. Len(t) = n + 1 /\ t[n + 1] = r /\ \A i \in 1 .. n : t[i] = s[i]
  BY <1>1
<1>6. Extends(t, s)
  <2> HIDE DEF t
  <2> QED BY <1>1, <1>2, <1>3, <1>5 DEF Extends
<1>7. DbIs(d \o Encode(r.key, r.val), h, t)
  <2> HIDE DEF t, p, x
  <2>1. FlattenSeq(Append(p, x)) = FlattenSeq(p) \o x /\ FlattenSeq(p) \in Seq(Byte)
    BY <1>2, <1>4, FlattenAppend, FlattenType
  <2> DEFINE f == FlattenSeq(p)
  <2>2. (h \o f) \o x = h \o (f \o x)
    <3>1. f \in Seq(Byte)
      BY <2>1
    <3> HIDE DEF f
    <3> QED BY <1>2, <1>4, <3>1, ConcatAssoc
  <2>3. d \o Encode(r.key, r.val) = h \o FlattenSeq(RecordPieces(t))
    BY <1>1, <1>3, <1>4, <2>1, <2>2, Zenon
  <2> QED BY <1>1, <1>3, <2>3 DEF DbIs
<1>8. StartIn(t, n + 1) = Len(d)
  <2> HIDE DEF t, p, x
  <2>1. n + 1 \in 1 .. Len(t) /\ (n + 1) - 1 = n
    BY <1>2, <1>5
  <2>2. StartIn(t, n + 1) = HeaderLen + Off(Append(p, x), n)
    BY <1>3, <2>1, StartFacts
  <2>3. Off(Append(p, x), n) = Off(p, n)
    <3> DEFINE B == Seq(Byte)
    <3>1. p \in Seq(B) /\ x \in B
      BY <1>2, <1>4
    <3> HIDE DEF B, n
    <3>2. SubSeq(Append(p, x), 1, n) = p /\ SubSeq(p, 1, n) = p
      BY <1>2, <3>1
    <3> QED BY <3>2 DEF Off
  <2>4. Len(d) = HeaderLen + Off(p, n)
    BY RecordsStand DEF p
  <2> QED BY <2>2, <2>3, <2>4
<1> QED BY <1>5, <1>6, <1>7, <1>8 DEF DbGrown

\* Four pieces, grouped from the left or from the right.
Regrouped(h, a, z, c) == h \o ((a \o z) \o c) = ((h \o a) \o z) \o c

\* Concatenation is associative, for four pieces.
LEMMA Regroup ==
  ASSUME NEW h \in Seq(Byte), NEW a \in Seq(Byte), NEW z \in Seq(Byte), NEW c \in Seq(Byte)
  PROVE  Regrouped(h, a, z, c)
<1> DEFINE az == a \o z
<1>1. az \in Seq(Byte)
  OBVIOUS
<1>2. h \o (a \o z) = (h \o a) \o z
  BY ConcatAssoc, SMTT(30)
<1> HIDE DEF az
<1>3. h \o (az \o c) = (h \o az) \o c
  BY <1>1, ConcatAssoc, SMTT(30)
<1> QED BY <1>2, <1>3 DEF az, Regrouped

\* Writing over a piece of what follows a header replaces the piece.
WrittenBehind(h, a, x, y, c) ==
  WriteAt(h \o ((a \o x) \o c), Len(h) + Len(a), y) = h \o ((a \o y) \o c)

\* write_at of as many bytes as the piece has.
LEMMA WriteBehind ==
  ASSUME NEW h \in Seq(Byte), NEW a \in Seq(Byte), NEW x \in Seq(Byte), NEW y \in Seq(Byte), NEW c \in Seq(Byte),
         Len(x) = Len(y)
  PROVE  WrittenBehind(h, a, x, y, c)
<1>1. h \o a \in Seq(Byte) /\ Len(h \o a) = Len(h) + Len(a)
  BY ConcatFacts
<1>2. /\ h \o ((a \o x) \o c) = ((h \o a) \o x) \o c
      /\ h \o ((a \o y) \o c) = ((h \o a) \o y) \o c
  <2>1. Regrouped(h, a, x, c) /\ Regrouped(h, a, y, c)
    BY Regroup, Zenon
  <2> QED BY <2>1, Zenon DEF Regrouped
<1> DEFINE ha == h \o a
<1>3. ha \in Seq(Byte)
  BY <1>1
<1> HIDE DEF ha
<1>4. Written(ha, x, y, c)
  BY <1>3, WriteMiddle, Zenon
<1> QED BY <1>1, <1>2, <1>4, Zenon DEF ha, Written, WrittenBehind

\* flush's tombstone covers the bytes of the record and no others.
LEMMA DbCover ==
  ASSUME NEW d, NEW h, NEW s, DbIs(d, h, s), NEW i \in 1 .. Len(s), NEW t, Covered(t, s, i)
  PROVE  /\ DbIs(WriteAt(d, StartIn(s, i), Tombstone(Len(s[i].key), FieldSize(s[i].val))), h, t)
         /\ Extends(t, s)
<1> DEFINE p == RecordPieces(s)
           y == Tombstone(Len(s[i].key), FieldSize(s[i].val))
           before == FlattenSeq(SubSeq(p, 1, i - 1))
           after == FlattenSeq(SubSeq(p, i + 1, Len(p)))
           x == p[i]
           at == StartIn(s, i)
<1>1. s \in Seq(R!Record) /\ IsHeader(h) /\ d = h \o FlattenSeq(p)
  BY DEF DbIs
<1>2. p \in Seq(Seq(Byte)) /\ Len(p) = Len(s) /\ Len(s) \in Nat /\ h \in Seq(Byte) /\ Len(h) = HeaderLen
  BY RecordsStand
<1>3. /\ t \in Seq(R!Record) /\ Len(t) = Len(s)
      /\ \A j \in 1 .. Len(s) : t[j].key = s[j].key /\ t[j].val = s[j].val
      /\ RecordPieces(t) = [p EXCEPT ![i] = y]
  BY DEF Covered
<1>4. Extends(t, s)
  BY <1>1, <1>2, <1>3 DEF Extends
<1>5. s[i] \in R!Record /\ x = RecordBytesOf(s[i])
  BY <1>1, RecordPiecesType
<1>6. x \in Seq(Byte) /\ Len(x) = RecordSize(s[i]) /\ RecordSize(s[i]) = RecordHead + Len(s[i].key) + FieldSize(s[i].val)
  BY <1>5, RecordPiece
<1>7. y \in Seq(Byte) /\ Len(y) = Len(x)
  <2> DEFINE k == s[i].key
             f == s[i].val
  <2>1. k \in Keys /\ f \in Fields
    BY <1>5, RecordPiece
  <2>2. Len(k) \in Nat /\ Len(k) < Pow[W16] /\ FieldSize(f) \in Nat /\ FieldSize(f) < Pow[W32]
    BY <2>1, KeyFacts, FieldFacts
  <2>3. y \in Seq(Byte) /\ Len(y) = RecordHead + Len(k) + FieldSize(f)
    BY <2>2, TombstoneType
  <2> QED BY <1>6, <2>3
<1>8. at = Len(h) + Len(before)
  <2>1. at = HeaderLen + Off(p, i - 1)
    BY RecordsStand
  <2> QED BY <1>2, <2>1 DEF Off
<1>9. i \in 1 .. Len(p)
  BY <1>2
<1> HIDE DEF p, y, x, at
<1>10. FlattenSeq(p) = (before \o x) \o after /\ before \in Seq(Byte) /\ after \in Seq(Byte)
  BY <1>2, <1>9, FlattenSplit, FlattenType DEF x
<1>11. FlattenSeq([p EXCEPT ![i] = y]) = (before \o y) \o after
  BY <1>2, <1>7, <1>9, FlattenReplace
<1> HIDE DEF before, after
<1>12. WriteAt(h \o ((before \o x) \o after), Len(h) + Len(before), y) = h \o ((before \o y) \o after)
  <2>1. Len(x) = Len(y)
    BY <1>7
  <2>2. WrittenBehind(h, before, x, y, after)
    BY <1>2, <1>6, <1>7, <1>10, <2>1, WriteBehind, Zenon
  <2> QED BY <2>2, Zenon DEF WrittenBehind
<1>13. WriteAt(d, at, y) = h \o FlattenSeq(RecordPieces(t))
  BY <1>1, <1>3, <1>8, <1>10, <1>11, <1>12, Zenon
<1> QED BY <1>1, <1>3, <1>4, <1>13 DEF DbIs, at, y

\* update_record_count writes another count into the header.
LEMMA DbCount ==
  ASSUME NEW d, NEW m \in Nat, NEW s, DbIs(d, Header(m), s), NEW n \in Nat
  PROVE  DbIs(WriteAt(d, RecordCountOffset, LE(n, W64)), Header(n), s)
<1> DEFINE b == BeforeCount
           x == LE(m, W64)
           y == LE(n, W64)
           a == AfterCount
           f == FlattenSeq(RecordPieces(s))
           c == a \o f
<1>1. b \in Seq(Byte) /\ Len(b) = RecordCountOffset
  BY BeforeCountType
<1>2. x \in Seq(Byte) /\ y \in Seq(Byte) /\ Len(x) = W64 /\ Len(y) = W64
  BY LEType, Widths
<1>3. a \in Seq(Byte)
  <2> HIDE DEF x
  <2> QED BY <1>2, HeaderParts
<1>4. f \in Seq(Byte)
  <2>1. RecordPieces(s) \in Seq(Seq(Byte))
    BY RecordsStand
  <2> QED BY <2>1, FlattenType
<1>5. /\ Header(m) = (b \o x) \o a /\ Header(n) = (b \o y) \o a /\ IsHeader(Header(n))
      /\ d = Header(m) \o f /\ s \in Seq(R!Record)
  BY HeaderFacts DEF DbIs
<1> HIDE DEF b, x, y, a, f
<1>6. c \in Seq(Byte)
  BY <1>3, <1>4
<1>7. ASSUME NEW z \in Seq(Byte) PROVE ((b \o z) \o a) \o f = (b \o z) \o c
  <2> DEFINE bz == b \o z
  <2>1. bz \in Seq(Byte)
    BY <1>1
  <2> HIDE DEF bz
  <2>2. (bz \o a) \o f = bz \o (a \o f)
    BY <1>3, <1>4, <2>1, ConcatAssoc
  <2> QED BY <2>2 DEF bz
<1> HIDE DEF c
<1>8. d = (b \o x) \o c
  BY <1>2, <1>5, <1>7
<1>9. Header(n) \o f = (b \o y) \o c
  BY <1>2, <1>5, <1>7
<1>10. WriteAt((b \o x) \o c, Len(b), y) = (b \o y) \o c
  <2>1. Len(x) = Len(y)
    BY <1>2
  <2>2. Written(b, x, y, c)
    BY <1>1, <1>2, <1>6, <2>1, WriteMiddle, Zenon
  <2> QED BY <2>2, Zenon DEF Written
<1>11. WriteAt(d, RecordCountOffset, y) = Header(n) \o f
  BY <1>1, <1>8, <1>9, <1>10, Zenon
<1> QED BY <1>5, <1>11 DEF DbIs, f, y

-----------------------------------------------------------------------------
(***************************************************************************)
(* The index file and the index in memory.                                 *)
(***************************************************************************)

RowType == [key : Keys, key_len : Nat, field_len : Nat, offset : Nat]
IndexType == [Keys -> [key_len : Nat, field_len : Nat, offset : Nat]]

\* b is an index file whose rows point at records.
IdxIs(b, s) ==
  \E rows \in Seq(RowType) :
    /\ b = FlattenSeq(RowPieces(rows))
    /\ \A i \in 1 .. Len(rows) : IsRow(rows[i]) /\ Points(s, rows[i].key, EntryOf(rows[i]))

\* An index file stays good when records are covered or appended.
LEMMA IdxKept ==
  ASSUME NEW s, NEW t, Extends(t, s), NEW b, IdxIs(b, s)
  PROVE  IdxIs(b, t)
<1>1. PICK rows \in Seq(RowType) :
        /\ b = FlattenSeq(RowPieces(rows))
        /\ \A i \in 1 .. Len(rows) : IsRow(rows[i]) /\ Points(s, rows[i].key, EntryOf(rows[i]))
  BY DEF IdxIs
<1>2. \A i \in 1 .. Len(rows) : Points(t, rows[i].key, EntryOf(rows[i]))
  BY <1>1, PointsKept
<1> QED BY <1>1, <1>2 DEF IdxIs

\* So does the index in memory.
LEMMA IndexKept ==
  ASSUME NEW s, NEW t, Extends(t, s), NEW ix, IndexWell(s, ix)
  PROVE  IndexWell(t, ix)
BY PointsKept DEF IndexWell

\* The empty file is an index file.
LEMMA IdxEmpty == \A s : IdxIs(<<>>, s)
<1> TAKE s
<1> DEFINE rows == <<>>
<1>1. rows \in Seq(RowType) /\ Len(rows) = 0
  OBVIOUS
<1>2. RowPieces(rows) = <<>>
  BY DEF RowPieces
<1>3. FlattenSeq(RowPieces(rows)) = <<>>
  BY <1>2, FlattenEmpty
<1> HIDE DEF rows
<1>4. \A i \in 1 .. Len(rows) : IsRow(rows[i]) /\ Points(s, rows[i].key, EntryOf(rows[i]))
  BY <1>1
<1> QED BY <1>1, <1>3, <1>4 DEF IdxIs

\* The row rebuild_index writes for a key.
RowFor(ix, k) == [key |-> k, key_len |-> ix[k].key_len, field_len |-> ix[k].field_len, offset |-> ix[k].offset]

\* rebuild_index writes a file whose rows point at records.
LEMMA IdxWritten ==
  ASSUME NEW s \in Seq(R!Record), Len(s) <= MaxItems, NEW ix \in IndexType, IndexWell(s, ix),
         NEW keys \in Seq(Keys), \A i \in 1 .. Len(keys) : ix[keys[i]] # NoIndexEntry
  PROVE  IdxIs(FlattenSeq([i \in 1 .. Len(keys) |-> EncodeRow(RowFor(ix, keys[i]))]), s)
<1> DEFINE n == Len(keys)
           row(i) == RowFor(ix, keys[i])
           rows == [i \in 1 .. n |-> row(i)]
<1>1. n \in Nat /\ \A i \in 1 .. n : keys[i] \in Keys
  OBVIOUS
<1>2. ASSUME NEW i \in 1 .. n
      PROVE  row(i) \in RowType /\ IsRow(row(i)) /\ Points(s, row(i).key, EntryOf(row(i)))
  <2> DEFINE k == keys[i]
             e == ix[k]
  <2>1. k \in Keys /\ e # NoIndexEntry
    BY <1>1
  <2>2. Points(s, k, e)
    BY <2>1 DEF IndexWell
  <2>3. PICK m \in 1 .. Len(s) : s[m].key = k /\ e = EntryFor(s, k, m)
    BY <2>2 DEF Points
  <2>4. /\ EntryFor(s, k, m) \in [key_len : Nat, field_len : Nat, offset : Nat]
        /\ IsRow([key |-> k, key_len |-> Len(k), field_len |-> FieldSize(s[m].val), offset |-> StartIn(s, m)])
    BY <2>1, EntryForType
  <2>5. row(i) = [key |-> k, key_len |-> e.key_len, field_len |-> e.field_len, offset |-> e.offset]
    BY DEF RowFor
  <2> HIDE DEF k, e, row
  <2>6. e.key_len = Len(k) /\ e.field_len = FieldSize(s[m].val) /\ e.offset = StartIn(s, m)
    BY <2>3 DEF EntryFor
  <2>7. IsRow(row(i))
    BY <2>4, <2>5, <2>6
  <2>8. EntryOf(row(i)) = EntryFor(s, k, m) /\ row(i).key = k
    BY <2>5, <2>6 DEF EntryOf, EntryFor
  <2>9. row(i) \in RowType
    BY <2>1, <2>3, <2>4, <2>5 DEF RowType
  <2> QED BY <2>2, <2>3, <2>7, <2>8, <2>9
<1>3. rows \in Seq(RowType) /\ Len(rows) = n /\ \A i \in 1 .. n : rows[i] = row(i)
  <2> HIDE DEF row, n
  <2> QED BY <1>1, <1>2
<1>4. [i \in 1 .. n |-> EncodeRow(row(i))] = RowPieces(rows)
  <2> HIDE DEF row, n, rows
  <2> QED BY <1>3 DEF RowPieces
<1> HIDE DEF row, rows, n
<1>5. IdxIs(FlattenSeq([i \in 1 .. n |-> EncodeRow(row(i))]), s)
  BY <1>2, <1>3, <1>4 DEF IdxIs
<1> QED BY <1>5 DEF row, n

\* The rows decoded make an index that points at records.
GoodRows(r, s) == r.out = "ok" /\ IndexOf(r.val) \in IndexType /\ IndexWell(s, IndexOf(r.val))

\* .dbidx is decoded, and its rows point at records.
LEMMA IdxRead ==
  ASSUME NEW s \in Seq(R!Record), Len(s) <= MaxItems, NEW b, IdxIs(b, s)
  PROVE  GoodRows(DecodeIndex(b), s)
<1>1. PICK rows \in Seq(RowType) :
        /\ b = FlattenSeq(RowPieces(rows))
        /\ \A i \in 1 .. Len(rows) : IsRow(rows[i]) /\ Points(s, rows[i].key, EntryOf(rows[i]))
  BY DEF IdxIs
<1> DEFINE n == Len(rows)
           show(i) == ShownRow(rows[i])
           items == [i \in 1 .. n |-> show(i)]
           r == DecodeIndex(b)
<1>2. r = Ok(items, Len(b))
  BY <1>1, IndexDecodes
<1>3. r.out = "ok" /\ r.val = items
  <2> HIDE DEF items, r
  <2> QED BY <1>2, OkFields
<1>4. Len(items) = n /\ n \in Nat /\ \A i \in 1 .. n : items[i] = show(i)
  <2> HIDE DEF show
  <2> QED OBVIOUS
<1>5. \A i \in 1 .. Len(items) : items[i].live => Points(s, items[i].key, EntryOf(items[i]))
  <2> TAKE i \in 1 .. Len(items)
  <2>1. items[i] = ShownRow(rows[i]) /\ i \in 1 .. n
    BY <1>4
  <2> HIDE DEF items
  <2>2. items[i].key = rows[i].key /\ EntryOf(items[i]) = EntryOf(rows[i])
    BY <2>1 DEF ShownRow, EntryOf
  <2> QED BY <1>1, <2>1, <2>2
<1> HIDE DEF items, r, n
<1>6. IndexOf(items) \in IndexType /\ IndexWell(s, IndexOf(items))
  BY <1>4, <1>5, IndexOfPoints DEF IndexType
<1> QED BY <1>3, <1>6 DEF GoodRows, r

\* Rows read from .db point at its records.
LEMMA DbIndexRead ==
  ASSUME NEW d, NEW h, NEW s, DbIs(d, h, s), Len(s) <= MaxItems, DecodeIndexFromDb(d).out = "ok"
  PROVE  GoodRows(DecodeIndexFromDb(d), s)
<1> DEFINE r == DecodeIndexFromDb(d)
           items == IndexRows(s)
<1>1. s \in Seq(R!Record) /\ Len(s) \in Nat
  BY RecordsStand DEF DbIs
<1>2. NoneEmpty(s)
  BY IndexFromDbFails, ErrFields
<1>3. r = Ok(items, Len(d))
  BY <1>2, IndexFromDbDecodes
<1>4. r.out = "ok" /\ r.val = items
  <2> HIDE DEF r, items
  <2> QED BY <1>3, OkFields
<1>5. /\ Len(items) = Len(s)
      /\ \A i \in 1 .. Len(s) : items[i].live => Points(s, items[i].key, EntryOf(items[i]))
  BY <1>1, IndexOfRows
<1> HIDE DEF items, r
<1>6. IndexOf(items) \in IndexType /\ IndexWell(s, IndexOf(items))
  BY <1>1, <1>5, IndexOfPoints DEF IndexType
<1> QED BY <1>4, <1>6 DEF GoodRows, r

-----------------------------------------------------------------------------
(***************************************************************************)
(* The inductive invariant: each file is the encoding of its items, and    *)
(* whatever the index and .dbidx name is a record of .db.                  *)
(***************************************************************************)

\* A .db file: a header with any count, and the records.
DbGood(d, s) == \E n \in Nat : DbIs(d, Header(n), s)

FilesStand ==
  /\ TypeOK
  /\ Len(recs) + Len(ents) <= MaxItems
  /\ (db = <<>> /\ recs = <<>> /\ ents = <<>>) \/ DbGood(db, recs)
  /\ wal = FlattenSeq(EntryPieces(ents))
  /\ IdxIs(idx, recs)
  /\ IndexWell(recs, index)

\* The file of an empty log is empty.
LEMMA WalEmpty == FlattenSeq(EntryPieces(<<>>)) = <<>>
<1>1. EntryPieces(<<>>) = <<>>
  BY DEF EntryPieces
<1> QED BY <1>1, FlattenEmpty

\* An entry appended to the log.
LogGrown(w, s, k, v) ==
  LET t == Append(s, [key |-> k, val |-> v])
      d == w \o EncodeEntry([key |-> k, field |-> v])
  IN t \in Seq(R!WalEntry) /\ Len(t) = Len(s) + 1 /\ d \in Seq(Byte) /\ d = FlattenSeq(EntryPieces(t))

\* set_key and delete_key append what WalEncoder makes of the entry.
LEMMA WalAppend ==
  ASSUME NEW s \in Seq(R!WalEntry), NEW w, w = FlattenSeq(EntryPieces(s)),
         NEW k \in Keys, NEW v \in Fields \cup {None}
  PROVE  LogGrown(w, s, k, v)
<1> DEFINE r == [key |-> k, val |-> v]
           t == Append(s, r)
           x == EncodeEntry([key |-> k, field |-> v])
<1>1. r \in R!WalEntry
  BY DEF R!WalEntry
<1>2. EntryBytesOf(r) = x
  BY DEF EntryBytesOf
<1> HIDE DEF r, x
<1>3. t \in Seq(R!WalEntry) /\ EntryPieces(t) = Append(EntryPieces(s), x)
  BY <1>1, <1>2, EntryPiecesAppend
<1>4. Len(t) = Len(s) + 1 /\ t[Len(t)] = r /\ Len(t) \in 1 .. Len(t)
  BY <1>1
<1>5. EntryPieces(s) \in Seq(Seq(Byte)) /\ EntryPieces(t) \in Seq(Seq(Byte))
  BY <1>3, EntryPiecesType
<1>6. x \in Seq(Byte)
  <2>1. EntryPieces(t)[Len(t)] \in Seq(Byte) /\ Len(EntryPieces(s)) = Len(s)
    <3> DEFINE B == Seq(Byte)
    <3>1. EntryPieces(t) \in Seq(B) /\ Len(EntryPieces(t)) = Len(t) /\ Len(EntryPieces(s)) = Len(s)
      BY <1>3, EntryPiecesType
    <3> HIDE DEF B
    <3>2. EntryPieces(t)[Len(t)] \in B
      BY <1>4, <3>1
    <3> QED BY <3>1, <3>2 DEF B
  <2>2. EntryPieces(t)[Len(t)] = x
    <3> DEFINE B == Seq(Byte)
    <3>1. EntryPieces(s) \in Seq(B)
      BY <1>5
    <3> HIDE DEF B, t
    <3> QED BY <1>3, <1>4, <2>1, <3>1
  <2> QED BY <2>1, <2>2
<1>7. FlattenSeq(EntryPieces(t)) = w \o x
  BY <1>3, <1>5, <1>6, FlattenAppend
<1>8. FlattenSeq(EntryPieces(t)) \in Seq(Byte)
  BY <1>5, FlattenType
<1> QED BY <1>3, <1>4, <1>7, <1>8 DEF LogGrown, r, x

\* An entry of the index replaced by one that points at a record, or by none.
LEMMA IndexSet ==
  ASSUME NEW s, NEW t, Extends(t, s), NEW ix \in IndexType, IndexWell(s, ix), NEW k \in Keys,
         NEW e \in [key_len : Nat, field_len : Nat, offset : Nat], e = NoIndexEntry \/ Points(t, k, e)
  PROVE  [ix EXCEPT ![k] = e] \in IndexType /\ IndexWell(t, [ix EXCEPT ![k] = e])
<1>1. IndexWell(t, ix)
  BY IndexKept
<1>2. [ix EXCEPT ![k] = e] \in IndexType
  BY DEF IndexType
<1>3. \A j \in Keys : [ix EXCEPT ![k] = e][j] = IF j = k THEN e ELSE ix[j]
  BY DEF IndexType
<1> QED BY <1>1, <1>2, <1>3 DEF IndexWell

\* Index files are bytes.
LEMMA IdxType ==
  ASSUME NEW b, NEW s, IdxIs(b, s)
  PROVE  b \in Seq(Byte)
<1>1. PICK rows \in Seq(RowType) :
        b = FlattenSeq(RowPieces(rows)) /\ \A i \in 1 .. Len(rows) : IsRow(rows[i])
  BY DEF IdxIs
<1>2. RowPieces(rows) \in Seq(Seq(Byte))
  BY <1>1, RowPiecesType
<1> QED BY <1>1, <1>2, FlattenType

\* No file is decoded without a header.
LEMMA DbHeaderNeeded == DecodeDb(<<>>) = Err /\ Err.out # "ok"
<1>1. HeaderLen > 0 /\ HeaderLen \in Nat
  BY DbNew, DbNotEmpty, HeaderLenType
<1>2. ~ (Len(<<>>) >= HeaderLen)
  BY <1>1
<1>3. ~ HeaderOk(<<>>)
  BY <1>2 DEF HeaderOk
<1> QED BY <1>3, ErrFields DEF DecodeDb

\* It holds of three empty files.
LEMMA InitStands == Init => FilesStand
<1> SUFFICES ASSUME Init PROVE FilesStand
  OBVIOUS
<1>1. /\ db = <<>> /\ wal = <<>> /\ idx = <<>> /\ recs = <<>> /\ ents = <<>> /\ payload = <<>>
      /\ index = EmptyIndex
  BY DEF Init
<1>2. index \in IndexType /\ \A k \in Keys : index[k] = NoIndexEntry
  BY <1>1 DEF EmptyIndex, NoIndexEntry, IndexType
<1>3. TypeOK
  BY <1>1, <1>2 DEF TypeOK, IndexType
<1>4. Len(recs) + Len(ents) <= MaxItems
  BY <1>1, FileAssumption
<1>5. IdxIs(idx, recs)
  BY <1>1, IdxEmpty
<1>6. wal = FlattenSeq(EntryPieces(ents))
  BY <1>1, WalEmpty
<1> QED BY <1>1, <1>2, <1>3, <1>4, <1>5, <1>6 DEF FilesStand, IndexWell

\* What the invariant says of a state, with the types each action needs.
LEMMA Standing ==
  ASSUME FilesStand
  PROVE  /\ db \in Seq(Byte) /\ wal \in Seq(Byte) /\ idx \in Seq(Byte) /\ recs \in Seq(R!Record)
         /\ ents \in Seq(R!WalEntry) /\ index \in IndexType /\ payload \in Seq(Alphabet)
         /\ Len(recs) \in Nat /\ Len(ents) \in Nat /\ MaxItems \in Nat
         /\ Len(recs) + Len(ents) <= MaxItems /\ Len(recs) <= MaxItems
         /\ (db = <<>> /\ recs = <<>> /\ ents = <<>>) \/ DbGood(db, recs)
         /\ wal = FlattenSeq(EntryPieces(ents)) /\ IdxIs(idx, recs) /\ IndexWell(recs, index)
<1>1. /\ db \in Seq(Byte) /\ wal \in Seq(Byte) /\ idx \in Seq(Byte) /\ recs \in Seq(R!Record)
      /\ ents \in Seq(R!WalEntry) /\ index \in IndexType /\ payload \in Seq(Alphabet)
  BY DEF FilesStand, TypeOK, IndexType
<1>2. Len(recs) \in Nat /\ Len(ents) \in Nat /\ MaxItems \in Nat
  BY <1>1, FileAssumption
<1>3. Len(recs) + Len(ents) <= MaxItems
  BY DEF FilesStand
<1>4. Len(recs) <= MaxItems
  BY <1>2, <1>3
<1> QED BY <1>1, <1>2, <1>3, <1>4 DEF FilesStand

\* A .db file with a header and records is not the empty one.
LEMMA DbThere ==
  ASSUME NEW d, NEW s, DbGood(d, s)
  PROVE  d # <<>> /\ d \in Seq(Byte)
BY DbNotEmpty DEF DbGood

\* Database::new.
LEMMA NewStands ==
  ASSUME FilesStand, New
  PROVE  FilesStand'
<1>1. /\ db = <<>> /\ db' = Header(0)
      /\ wal' = wal /\ idx' = idx /\ recs' = recs /\ ents' = ents /\ index' = index /\ payload' = payload
  BY DEF New
<1>2. recs = <<>>
  BY <1>1, Standing, DbThere
<1>3. DbGood(db', recs')
  BY <1>1, <1>2, DbNew DEF DbGood
<1>4. TypeOK'
  <2>1. db' \in Seq(Byte)
    BY <1>3, DbThere
  <2> QED BY <1>1, <2>1, Standing DEF TypeOK, IndexType
<1> QED BY <1>1, <1>3, <1>4, Standing DEF FilesStand

\* The client's bytes are no part of the files.
LEMMA ReceiveStands ==
  ASSUME FilesStand, (\E x \in Alphabet : Receive(x)) \/ Answer
  PROVE  FilesStand'
<1>1. /\ db' = db /\ wal' = wal /\ idx' = idx /\ recs' = recs /\ ents' = ents /\ index' = index
  BY DEF Receive, Answer
<1>2. payload' \in Seq(Alphabet)
  <2>1. ASSUME NEW x \in Alphabet, Receive(x) PROVE payload' \in Seq(Alphabet)
    BY <2>1, Standing DEF Receive
  <2>2. Answer => payload' \in Seq(Alphabet)
    BY DEF Answer
  <2> QED BY <2>1, <2>2
<1>3. TypeOK'
  BY <1>1, <1>2, Standing DEF TypeOK, IndexType
<1> QED BY <1>1, <1>3, Standing DEF FilesStand

\* The request arrives as it was sent, and its entry is appended.
LEMMA LogStands ==
  ASSUME FilesStand, NEW req, IsRequest(req), NEW key \in Keys, NEW val \in Fields \cup {None},
         req.key = key, req.field = val, Log(req, key, val)
  PROVE  FilesStand'
<1> DEFINE r == DecodeRequest(EncodeRequest(req))
<1>1. r = Ok(req, Len(EncodeRequest(req)))
  BY RequestRoundTrip
<1>2. r.val = req
  BY <1>1, OkFields
<1>3. /\ db # <<>> /\ Len(ents) + Len(recs) < MaxItems
      /\ wal' = wal \o EncodeEntry([key |-> r.val.key, field |-> r.val.field])
      /\ ents' = Append(ents, [key |-> key, val |-> val])
      /\ db' = db /\ idx' = idx /\ recs' = recs /\ index' = index /\ payload' = payload
  BY DEF Log
<1> HIDE DEF r
<1>4. wal' = wal \o EncodeEntry([key |-> key, field |-> val])
  BY <1>2, <1>3
<1>5. LogGrown(wal, ents, key, val)
  BY Standing, WalAppend
<1>6. /\ ents' \in Seq(R!WalEntry) /\ Len(ents') = Len(ents) + 1 /\ wal' \in Seq(Byte)
      /\ wal' = FlattenSeq(EntryPieces(ents'))
  BY <1>3, <1>4, <1>5 DEF LogGrown
<1>7. Len(recs') + Len(ents') <= MaxItems
  BY <1>3, <1>6, Standing
<1>8. TypeOK'
  BY <1>3, <1>6, Standing DEF TypeOK, IndexType
<1>9. DbGood(db', recs')
  BY <1>3, Standing
<1> QED BY <1>3, <1>6, <1>7, <1>8, <1>9, Standing DEF FilesStand

\* Set requests and delete requests.
LEMMA RequestStands ==
  ASSUME FilesStand, NEW k \in Keys, (\E f \in Fields : Set(k, f)) \/ Delete(k)
  PROVE  FilesStand'
<1>1. k \in Seq(Byte) /\ Len(k) < Pow[W16]
  BY KeyFacts
<1>2. ASSUME NEW f \in Fields, Set(k, f)
      PROVE  FilesStand'
  <2> DEFINE req == Request("Set", k, f)
  <2>1. req.key = k /\ req.field = f
    BY DEF Request
  <2>2. IsRequest(req)
    BY <1>1, FieldFacts DEF IsRequest, Request, FieldSize
  <2>3. Log(req, k, f)
    BY <1>2 DEF Set
  <2> HIDE DEF req
  <2> QED BY <2>1, <2>2, <2>3, LogStands
<1>3. ASSUME Delete(k)
      PROVE  FilesStand'
  <2> DEFINE req == Request("Del", k, NoField)
  <2>1. req.key = k /\ req.field = None
    BY DEF Request, NoField, None, NoFieldEntry
  <2>2. IsRequest(req)
    BY <1>1 DEF IsRequest, Request
  <2>3. Log(req, k, None)
    BY <1>3 DEF Delete
  <2> HIDE DEF req
  <2> QED BY <2>1, <2>2, <2>3, LogStands
<1> QED BY <1>2, <1>3

\* A set entry flushed: the index names the record appended.
LEMMA FlushSetStands ==
  ASSUME FilesStand, NEW k \in Keys, NEW f \in Fields, FlushSet(k, f)
  PROVE  FilesStand'
<1> DEFINE r == [key |-> k, val |-> f, live |-> TRUE]
           e == [key_len |-> Len(k) % Pow[W16], field_len |-> Len(BytesFromField(f)), offset |-> Len(db)]
<1>1. /\ Logged(k, f) /\ Len(ents) + Len(recs) < MaxItems
      /\ db' = db \o Encode(k, f) /\ recs' = Append(recs, r) /\ index' = [index EXCEPT ![k] = e]
      /\ wal' = wal /\ idx' = idx /\ ents' = ents /\ payload' = payload
  BY DEF FlushSet
<1>2. PICK n \in Nat : DbIs(db, Header(n), recs)
  <2>1. ents # <<>>
    BY <1>1 DEF Logged
  <2> QED BY <2>1, Standing DEF DbGood
<1>3. r \in R!Record /\ r.live /\ r.key = k /\ r.val = f
  BY DEF R!Record
<1>4. Len(k) % Pow[W16] = Len(k) /\ Len(k) \in Nat /\ FieldSize(f) \in Nat /\ Len(db) \in Nat
  <2>1. Len(k) \in Nat /\ Len(k) < Pow[W16] /\ Pow[W16] \in Nat /\ FieldSize(f) \in Nat
    BY KeyFacts, FieldFacts, Widths, PowType
  <2>2. Len(db) \in Nat
    BY Standing
  <2> DEFINE n1 == Len(k)
             p1 == Pow[W16]
  <2>3. n1 \in Nat /\ p1 \in Nat /\ n1 < p1 => n1 % p1 = n1
    <3> HIDE DEF n1, p1
    <3> QED OBVIOUS
  <2> QED BY <2>1, <2>2, <2>3
<1>5. e = [key_len |-> Len(k), field_len |-> FieldSize(f), offset |-> Len(db)]
  BY <1>4 DEF FieldSize
<1> HIDE DEF r, e
<1>6. DbGrown(db, Header(n), recs, r)
  BY <1>2, <1>3, DbAppend
<1>7. /\ DbIs(db', Header(n), recs') /\ Extends(recs', recs)
      /\ Len(recs') = Len(recs) + 1 /\ recs'[Len(recs) + 1] = r /\ StartIn(recs', Len(recs) + 1) = Len(db)
  BY <1>1, <1>3, <1>6 DEF DbGrown
<1>8. Points(recs', k, e)
  <2>1. Len(recs) + 1 \in 1 .. Len(recs')
    BY <1>7, Standing
  <2>2. e = EntryFor(recs', k, Len(recs) + 1)
    BY <1>3, <1>5, <1>7 DEF EntryFor
  <2> QED BY <1>3, <1>7, <2>1, <2>2 DEF Points
<1>9. e \in [key_len : Nat, field_len : Nat, offset : Nat]
  BY <1>4, <1>5
<1>10. index' \in IndexType /\ IndexWell(recs', index')
  BY <1>1, <1>7, <1>8, <1>9, IndexSet, Standing
<1>11. IdxIs(idx', recs')
  BY <1>1, <1>7, IdxKept, Standing
<1>12. DbGood(db', recs') /\ db' \in Seq(Byte) /\ recs' \in Seq(R!Record)
  BY <1>7, DbThere DEF DbGood, Extends
<1>13. Len(recs') + Len(ents') <= MaxItems
  BY <1>1, <1>7, Standing
<1>14. TypeOK'
  BY <1>1, <1>10, <1>12, Standing DEF TypeOK, IndexType
<1> QED BY <1>1, <1>10, <1>11, <1>12, <1>13, <1>14, Standing DEF FilesStand

\* The offset in the index names one record.
LEMMA OnePosition ==
  ASSUME recs \in Seq(R!Record), NEW j \in 1 .. Len(recs)
  PROVE  PositionOf(StartIn(recs, j)) = {j}
<1>1. PositionOf(StartIn(recs, j)) = {i \in 1 .. Len(recs) : StartIn(recs, i) = StartIn(recs, j)}
  BY StartIsStartIn DEF PositionOf
<1>2. \A i \in 1 .. Len(recs) : StartIn(recs, i) = StartIn(recs, j) => i = j
  BY StartInjective
<1> QED BY <1>1, <1>2

\* A delete entry flushed: the tombstone covers the record the index names.
LEMMA FlushDeleteStands ==
  ASSUME FilesStand, NEW k \in Keys, FlushDelete(k)
  PROVE  FilesStand'
<1>1. /\ Logged(k, None) /\ index[k] # NoIndexEntry
      /\ db' = WriteAt(db, index[k].offset, Tombstone(index[k].key_len, index[k].field_len))
      /\ recs' = LET i == CHOOSE i \in PositionOf(index[k].offset) : TRUE
                 IN R!TombstoneOver(recs, [offset |-> i, field_len |-> index[k].field_len])
      /\ index' = [index EXCEPT ![k] = NoIndexEntry]
      /\ wal' = wal /\ idx' = idx /\ ents' = ents /\ payload' = payload
  BY DEF FlushDelete, TombstoneOf, Indexed
<1>2. PICK n \in Nat : DbIs(db, Header(n), recs)
  <2>1. ents # <<>>
    BY <1>1 DEF Logged
  <2> QED BY <2>1, Standing DEF DbGood
<1>3. PICK j \in 1 .. Len(recs) : recs[j].key = k /\ index[k] = EntryFor(recs, k, j)
  BY <1>1, Standing DEF IndexWell, Points
<1>4. /\ index[k].key_len = Len(recs[j].key) /\ index[k].field_len = FieldSize(recs[j].val)
      /\ index[k].offset = StartIn(recs, j)
  BY <1>3 DEF EntryFor
<1>5. PositionOf(index[k].offset) = {j}
  BY <1>4, OnePosition, Standing
<1>6. recs' = R!TombstoneOver(recs, [offset |-> j, field_len |-> FieldSize(recs[j].val)])
  <2>1. (CHOOSE i \in {j} : TRUE) = j
    OBVIOUS
  <2> QED BY <1>1, <1>4, <1>5, <2>1
<1>7. Covered(recs', recs, j)
  BY <1>6, TombstoneCovers, Standing
<1>8. db' = WriteAt(db, StartIn(recs, j), Tombstone(Len(recs[j].key), FieldSize(recs[j].val)))
  BY <1>1, <1>4
<1>9. DbIs(db', Header(n), recs') /\ Extends(recs', recs)
  BY <1>2, <1>7, <1>8, DbCover
<1>10. NoIndexEntry \in [key_len : Nat, field_len : Nat, offset : Nat]
  BY DEF NoIndexEntry
<1>11. index' \in IndexType /\ IndexWell(recs', index')
  <2>1. index \in IndexType /\ IndexWell(recs, index)
    BY Standing
  <2>2. \A e \in [key_len : Nat, field_len : Nat, offset : Nat] : e = NoIndexEntry =>
          [index EXCEPT ![k] = e] \in IndexType /\ IndexWell(recs', [index EXCEPT ![k] = e])
    BY <1>9, <2>1, IndexSet
  <2> QED BY <1>1, <1>10, <2>2
<1>12. IdxIs(idx', recs')
  BY <1>1, <1>9, IdxKept, Standing
<1>13. DbGood(db', recs') /\ db' \in Seq(Byte) /\ recs' \in Seq(R!Record)
  BY <1>9, DbThere DEF DbGood, Extends
<1>14. Len(recs') + Len(ents') <= MaxItems
  BY <1>1, <1>7, Standing DEF Covered
<1>15. TypeOK'
  BY <1>1, <1>11, <1>13, Standing DEF TypeOK, IndexType
<1> QED BY <1>1, <1>11, <1>12, <1>13, <1>14, <1>15, Standing DEF FilesStand

\* update_record_count.
LEMMA CountStands ==
  ASSUME FilesStand, NEW n \in Nat, UpdateRecordCount(n)
  PROVE  FilesStand'
<1>1. /\ recs # <<>> /\ db' = WriteAt(db, RecordCountOffset, LE(n, W64))
      /\ wal' = wal /\ idx' = idx /\ recs' = recs /\ ents' = ents /\ index' = index /\ payload' = payload
  BY DEF UpdateRecordCount
<1>2. PICK m \in Nat : DbIs(db, Header(m), recs)
  BY <1>1, Standing DEF DbGood
<1>3. DbIs(db', Header(n), recs')
  BY <1>1, <1>2, DbCount
<1>4. DbGood(db', recs') /\ db' \in Seq(Byte)
  BY <1>3, DbThere DEF DbGood
<1>5. TypeOK'
  BY <1>1, <1>4, Standing DEF TypeOK, IndexType
<1> QED BY <1>1, <1>4, <1>5, Standing DEF FilesStand

\* Each key of the index once, in any order.
LEMMA SetToSeqsFacts ==
  ASSUME NEW S, IsFiniteSet(S), NEW q \in SetToSeqs(S)
  PROVE  q \in Seq(S) /\ Len(q) \in Nat /\ \A i \in 1 .. Len(q) : q[i] \in S
<1>1. Cardinality(S) \in Nat /\ q \in [1 .. Cardinality(S) -> S]
  BY FS_CardinalityType DEF SetToSeqs
<1> QED BY <1>1

\* rebuild_index.
LEMMA RebuildStands ==
  ASSUME FilesStand, RebuildIndex
  PROVE  FilesStand'
<1>1. /\ \E keys \in SetToSeqs(Indexed) : idx' = IndexBytes(keys)
      /\ db' = db /\ wal' = wal /\ recs' = recs /\ ents' = ents /\ index' = index /\ payload' = payload
  BY DEF RebuildIndex
<1>2. PICK keys \in SetToSeqs(Indexed) : idx' = IndexBytes(keys)
  BY <1>1
<1>3. IsFiniteSet(Indexed) /\ \A k \in Indexed : k \in Keys /\ index[k] # NoIndexEntry
  BY FileAssumption, FS_Subset DEF Indexed
<1>4. keys \in Seq(Keys) /\ \A i \in 1 .. Len(keys) : index[keys[i]] # NoIndexEntry
  BY <1>3, SetToSeqsFacts
<1>5. idx' = FlattenSeq([i \in 1 .. Len(keys) |-> EncodeRow(RowFor(index, keys[i]))])
  BY <1>2 DEF IndexBytes, RowFor
<1>6. IdxIs(idx', recs')
  BY <1>1, <1>4, <1>5, IdxWritten, Standing
<1>7. idx' \in Seq(Byte)
  BY <1>6, IdxType
<1>8. TypeOK'
  BY <1>1, <1>7, Standing DEF TypeOK, IndexType
<1>9. DbGood(db', recs') \/ (db' = <<>> /\ recs' = <<>> /\ ents' = <<>>)
  BY <1>1, Standing
<1> QED BY <1>1, <1>6, <1>8, <1>9, Standing DEF FilesStand

\* A crash that leaves .dbidx empty.
LEMMA LoseIndexStands ==
  ASSUME FilesStand, LoseIndex
  PROVE  FilesStand'
<1>1. /\ idx' = <<>> /\ db' = db /\ wal' = wal /\ recs' = recs /\ ents' = ents /\ index' = index
      /\ payload' = payload
  BY DEF LoseIndex
<1>2. IdxIs(idx', recs')
  BY <1>1, IdxEmpty
<1>3. TypeOK'
  BY <1>1, Standing DEF TypeOK, IndexType
<1>4. DbGood(db', recs') \/ (db' = <<>> /\ recs' = <<>> /\ ents' = <<>>)
  BY <1>1, Standing
<1> QED BY <1>1, <1>2, <1>3, <1>4, Standing DEF FilesStand

\* The index open reads, from .dbidx or from .db.
LEMMA ReopenStands ==
  ASSUME FilesStand, Reopen
  PROVE  FilesStand'
<1> DEFINE rows == IF idx = <<>> THEN DecodeIndexFromDb(db) ELSE DecodeIndex(idx)
<1>1. /\ DecodeDb(db).out = "ok" /\ rows.out = "ok" /\ index' = IndexOf(rows.val)
      /\ db' = db /\ wal' = wal /\ idx' = idx /\ recs' = recs /\ ents' = ents /\ payload' = payload
  BY DEF Reopen
<1>2. db # <<>>
  BY <1>1, DbHeaderNeeded
<1>3. PICK n \in Nat : DbIs(db, Header(n), recs)
  BY <1>2, Standing DEF DbGood
<1>4. GoodRows(rows, recs)
  <2>1. CASE idx = <<>>
    <3>1. rows = DecodeIndexFromDb(db)
      BY <2>1
    <3> HIDE DEF rows
    <3> QED BY <1>1, <1>3, <3>1, DbIndexRead, Standing
  <2>2. CASE idx # <<>>
    <3>1. rows = DecodeIndex(idx)
      BY <2>2
    <3> HIDE DEF rows
    <3> QED BY <3>1, IdxRead, Standing
  <2> QED BY <2>1, <2>2
<1> HIDE DEF rows
<1>5. index' \in IndexType /\ IndexWell(recs', index')
  BY <1>1, <1>4 DEF GoodRows
<1>6. TypeOK'
  BY <1>1, <1>5, Standing DEF TypeOK, IndexType
<1>7. DbGood(db', recs')
  BY <1>1, <1>3 DEF DbGood
<1> QED BY <1>1, <1>5, <1>6, <1>7, Standing DEF FilesStand

\* checkpoint empties the log.
LEMMA CheckpointStands ==
  ASSUME FilesStand, Checkpoint
  PROVE  FilesStand'
<1>1. /\ wal' = <<>> /\ ents' = <<>> /\ db' = db /\ idx' = idx /\ recs' = recs /\ index' = index
      /\ payload' = payload
  BY DEF Checkpoint
<1>2. TypeOK'
  BY <1>1, Standing DEF TypeOK, IndexType
<1>3. wal' = FlattenSeq(EntryPieces(ents'))
  BY <1>1, WalEmpty
<1>4. Len(recs') + Len(ents') <= MaxItems
  BY <1>1, Standing
<1>5. DbGood(db', recs') \/ (db' = <<>> /\ recs' = <<>> /\ ents' = <<>>)
  BY <1>1, Standing
<1> QED BY <1>1, <1>2, <1>3, <1>4, <1>5, Standing DEF FilesStand

\* Every step of the program keeps the three files the encoding of their items.
LEMMA StepStands == FilesStand /\ [Next]_vars => FilesStand'
<1> SUFFICES ASSUME FilesStand, [Next]_vars PROVE FilesStand'
  OBVIOUS
<1>1. ASSUME New PROVE FilesStand'
  BY <1>1, NewStands
<1>2. ASSUME (\E x \in Alphabet : Receive(x)) \/ Answer PROVE FilesStand'
  BY <1>2, ReceiveStands
<1>3. ASSUME NEW k \in Keys, (\E f \in Fields : Set(k, f)) \/ Delete(k) PROVE FilesStand'
  BY <1>3, RequestStands
<1>4. ASSUME NEW k \in Keys, NEW f \in Fields, FlushSet(k, f) PROVE FilesStand'
  BY <1>4, FlushSetStands
<1>5. ASSUME NEW k \in Keys, FlushDelete(k) PROVE FilesStand'
  BY <1>5, FlushDeleteStands
<1>6. ASSUME NEW n \in Counts, UpdateRecordCount(n) PROVE FilesStand'
  <2>1. n \in Nat
    BY FileAssumption
  <2> QED BY <1>6, <2>1, CountStands
<1>7. ASSUME RebuildIndex PROVE FilesStand'
  BY <1>7, RebuildStands
<1>8. ASSUME LoseIndex PROVE FilesStand'
  BY <1>8, LoseIndexStands
<1>9. ASSUME Reopen PROVE FilesStand'
  BY <1>9, ReopenStands
<1>10. ASSUME Checkpoint PROVE FilesStand'
  BY <1>10, CheckpointStands
<1>11. ASSUME UNCHANGED vars PROVE FilesStand'
  <2>1. db' = db /\ wal' = wal /\ idx' = idx /\ recs' = recs /\ ents' = ents /\ index' = index /\ payload' = payload
    BY <1>11 DEF vars
  <2>2. TypeOK'
    BY <2>1, Standing DEF TypeOK, IndexType
  <2> QED BY <2>1, <2>2, Standing DEF FilesStand
<1> QED BY <1>1, <1>2, <1>3, <1>4, <1>5, <1>6, <1>7, <1>8, <1>9, <1>10, <1>11 DEF Next

\* The three files are always the encoding of their items, with an index that
\* points at records: New, Log, FlushSet, FlushDelete, UpdateRecordCount,
\* RebuildIndex, LoseIndex, Reopen and Checkpoint in any order.
THEOREM FilesAlwaysStand == Spec => []FilesStand
<1>1. Init => FilesStand
  BY InitStands
<1>2. FilesStand /\ [Next]_vars => FilesStand'
  BY StepStands
<1> QED BY <1>1, <1>2, PTL DEF Spec

\* Database's files, its index and the client's bytes keep their types.
THEOREM RecordFileTypes == Spec => []TypeOK
<1>1. FilesStand => TypeOK
  BY DEF FilesStand
<1> QED BY <1>1, FilesAlwaysStand, PTL

-----------------------------------------------------------------------------
(***************************************************************************)
(* The properties.                                                         *)
(***************************************************************************)

\* Records' index, its offsets in bytes, whichever way starts are written.
LEMMA InBytesAgree == \A entry, k : InBytesIn(recs, entry, k) = InBytes(entry, k)
BY StartIsStartIn DEF InBytesIn, InBytes

\* The index of a .db file without records, or without a header.
LEMMA IndexFromNothing ==
  DecodeIndexFromDb(<<>>).out = "ok" /\ DecodeIndexFromDb(<<>>).val = IndexRows(<<>>)
<1> DEFINE e == <<>>
           turn == [pos \in Cursor(e) |-> IndexedRecordAt(e, pos)]
<1>1. e \in Seq(Byte) /\ Len(e) = 0
  OBVIOUS
<1>2. HeaderLen \in Nat
  BY HeaderLenType
<1>3. Advances(turn, 0)
  <2> HIDE DEF e
  <2>1. Advances(turn, Len(e))
    BY <1>1, RecordsAdvance
  <2> HIDE DEF turn
  <2> QED BY <1>1, <2>1
<1>4. DecodeIndexFromDb(e) = DecodeAll(turn, HeaderLen)
  <2> HIDE DEF e
  <2> QED BY DEF DecodeIndexFromDb
<1> HIDE DEF turn
<1>5. DecodeAll(turn, HeaderLen) = Ok(<<>>, HeaderLen)
  BY <1>2, <1>3, DecodeAllEnd
<1>6. IndexRows(<<>>) = <<>>
  BY DEF IndexRows
<1> QED BY <1>4, <1>5, <1>6, OkFields

\* Every file the program wrote decodes to the items it stands for, and the
\* index rebuilt from .db is the one Records describes.
LEMMA StandingDecodes ==
  ASSUME FilesStand
  PROVE  FilesDecode
<1> DEFINE rebuilt == DecodeIndexFromDb(db)
           meant == [k \in Keys |-> InBytes(R!IndexFromDb(recs)[k], k)]
<1>1. IF db = <<>> THEN DecodeDb(db) = Err ELSE DecodeDb(db) = Ok(ShownRecords, Len(db))
  <2>1. CASE db = <<>>
    BY <2>1, DbHeaderNeeded
  <2>2. CASE db # <<>>
    <3>1. PICK n \in Nat : DbIs(db, Header(n), recs)
      BY <2>2, Standing DEF DbGood
    <3>2. DecodeDb(db) = Ok([i \in 1 .. Len(recs) |-> Shown(recs[i])], Len(db))
      BY <3>1, DbDecodes
    <3> QED BY <2>2, <3>2 DEF ShownRecords
  <2> QED BY <2>1, <2>2
<1>2. DecodeWal(wal) = Ok([i \in 1 .. Len(ents) |-> [key |-> ents[i].key, field |-> ents[i].val]], Len(wal))
  BY WalDecodes, Standing
<1>3. IndexOf(IndexRows(recs)) = meant
  <2>1. IndexOf(IndexRows(recs)) = [k \in Keys |-> InBytesIn(recs, R!IndexFromDb(recs)[k], k)]
    BY IndexOfRows, Standing
  <2> QED BY <2>1, InBytesAgree
<1>4. R!NoEmptyKey(recs) <=> NoneEmpty(recs)
  BY DEF R!NoEmptyKey, NoneEmpty
<1>5. IF R!NoEmptyKey(recs) THEN rebuilt.out = "ok" /\ IndexOf(rebuilt.val) = meant ELSE rebuilt = Err
  <2>1. CASE db = <<>>
    <3>1. recs = <<>>
      BY <2>1, Standing, DbThere
    <3>2. NoneEmpty(recs)
      BY <3>1 DEF NoneEmpty
    <3>3. rebuilt.out = "ok" /\ rebuilt.val = IndexRows(recs)
      BY <2>1, <3>1, IndexFromNothing
    <3> HIDE DEF rebuilt, meant
    <3> QED BY <1>3, <1>4, <3>2, <3>3
  <2>2. CASE db # <<>>
    <3>1. PICK n \in Nat : DbIs(db, Header(n), recs)
      BY <2>2, Standing DEF DbGood
    <3>2. NoneEmpty(recs) => rebuilt = Ok(IndexRows(recs), Len(db))
      BY <3>1, IndexFromDbDecodes
    <3>3. ~ NoneEmpty(recs) => rebuilt = Err
      BY <3>1, IndexFromDbFails
    <3> HIDE DEF rebuilt, meant
    <3> QED BY <1>3, <1>4, <3>2, <3>3, OkFields
  <2> QED BY <2>1, <2>2
<1> QED BY <1>1, <1>2, <1>5 DEF FilesDecode

\* What points at records here points at the first byte of one.
LEMMA WellPoints ==
  ASSUME NEW ix, IndexWell(recs, ix)
  PROVE  PointsWell(ix)
<1> SUFFICES ASSUME NEW k \in Keys, ix[k] # NoIndexEntry
             PROVE  \E n \in PositionOf(ix[k].offset) :
                      recs[n].key = k /\ ix[k].key_len = Len(k) /\ ix[k].field_len = Len(BytesFromField(recs[n].val))
  BY DEF PointsWell
<1>1. PICK n \in 1 .. Len(recs) : recs[n].key = k /\ ix[k] = EntryFor(recs, k, n)
  BY DEF IndexWell, Points
<1>2. ix[k].key_len = Len(k) /\ ix[k].field_len = Len(BytesFromField(recs[n].val)) /\ ix[k].offset = Start(n)
  BY <1>1, StartIsStartIn DEF EntryFor, FieldSize
<1>3. n \in PositionOf(ix[k].offset)
  BY <1>2 DEF PositionOf
<1> QED BY <1>1, <1>2, <1>3

\* The index in memory and the one .dbidx decodes to point at records.
LEMMA StandingPoints ==
  ASSUME FilesStand
  PROVE  IndexPointsAtRecords
<1>1. PointsWell(index)
  BY WellPoints, Standing
<1>2. GoodRows(DecodeIndex(idx), recs)
  BY IdxRead, Standing
<1>3. DecodeIndex(idx).out = "ok" /\ PointsWell(IndexOf(DecodeIndex(idx).val))
  BY <1>2, WellPoints DEF GoodRows
<1> QED BY <1>1, <1>3 DEF IndexPointsAtRecords

\* .db, .wal and the index rebuilt from .db decode to what was written, always.
THEOREM FilesAlwaysDecode == Spec => []FilesDecode
<1>1. FilesStand => FilesDecode
  BY StandingDecodes
<1> QED BY <1>1, FilesAlwaysStand, PTL

\* The index in memory and the one in .dbidx always name the first byte of a
\* record of their key, with its lengths, so a tombstone covers exactly it.
THEOREM IndexAlwaysPoints == Spec => []IndexPointsAtRecords
<1>1. FilesStand => IndexPointsAtRecords
  BY StandingPoints
<1> QED BY <1>1, FilesAlwaysStand, PTL

\* A buffer that holds one item.
LEMMA OneDecodes ==
  ASSUME NEW turn, NEW k \in Nat, k > 0, Advances(turn, k), NEW e, turn[0] = Ok(e, k)
  PROVE  DecodeAll(turn, 0) = Ok(<<e>>, k)
<1> DEFINE rest == DecodeAll(turn, k)
<1>1. rest = Ok(<<>>, k)
  BY DecodeAllEnd
<1>2. 0 \in Nat /\ 0 \in 0 .. k - 1
  OBVIOUS
<1>3. DecodeAll(turn, 0) = Turned(turn[0], DecodeAll(turn, turn[0].next))
  BY <1>2, DecodeAllStep
<1>4. turn[0].out = "ok" /\ turn[0].val = e /\ turn[0].next = k
  BY OkFields
<1>5. DecodeAll(turn, 0) = Turned(turn[0], rest)
  BY <1>3, <1>4
<1>6. rest.out = "ok" /\ rest.val = <<>> /\ rest.next = k
  BY <1>1, OkFields
<1>7. <<e>> \o <<>> = <<e>>
  OBVIOUS
<1> QED BY <1>4, <1>5, <1>6, <1>7 DEF Turned

\* One entry is a log.
LEMMA OneEntryDecodes ==
  ASSUME NEW k \in Seq(Byte), NEW f, IsField(f), EntryHolds(k, f)
  PROVE  LET e == [key |-> k, field |-> f]
         IN DecodeWal(EncodeEntry(e)) = Ok(<<e>>, Len(EncodeEntry(e)))
<1> DEFINE e == [key |-> k, field |-> f]
           b == EncodeEntry(e)
           turn == [pos \in Cursor(b) |-> EntryAt(b, pos)]
           size == EntrySize(k, f)
<1>1. /\ b \in Seq(Byte) /\ Len(b) = size
      /\ \A c \in Seq(Byte), pos \in Nat : Holds(c, pos, b) => EntryAt(c, pos) = Ok(e, pos + size)
  BY DEF EntryHolds
<1>2. Advances(turn, Len(b))
  <2> HIDE DEF b
  <2> QED BY <1>1, EntriesAdvance
<1>3. DecodeWal(b) = DecodeAll(turn, 0)
  BY DEF DecodeWal
<1>4. \A pos \in Cursor(b) : turn[pos] = EntryAt(b, pos)
  OBVIOUS
<1>5. size > 0 /\ size \in Nat
  <2>1. BytesFromField(f) \in Seq(Byte)
    BY FieldBytesType
  <2> DEFINE n == Len(BytesFromField(f))
             l == Len(k)
  <2>2. l \in Nat /\ n \in Nat
    BY <2>1
  <2>3. size = 1 + W16 + l + (W32 + n)
    BY FieldIsNoMark DEF EntrySize
  <2> HIDE DEF n, l, size
  <2> QED BY <2>2, <2>3, Widths
<1> HIDE DEF turn, b, e, size
<1>6. EntryAt(b, 0) = Ok(e, 0 + size)
  <2>1. Holds(b, 0, b) /\ 0 \in Nat
    BY <1>1, HoldsWhole
  <2> QED BY <1>1, <2>1
<1>7. turn[0] = Ok(e, Len(b))
  <2>1. 0 \in Cursor(b) /\ 0 + size = Len(b)
    BY <1>1, <1>5 DEF Cursor
  <2> QED BY <1>4, <1>6, <2>1
<1>8. Len(b) \in Nat /\ Len(b) > 0
  BY <1>1, <1>5
<1>9. DecodeAll(turn, 0) = Ok(<<e>>, Len(b))
  BY <1>2, <1>7, <1>8, OneDecodes
<1> QED BY <1>3, <1>9 DEF e, b

\* A field that fits its length can be logged, kept and sent.
Livable(k, f) ==
  LET e == [key |-> k, field |-> f]
      answer == Response("Ok", <<f>>)
  IN /\ DecodeWal(EncodeEntry(e)) = Ok(<<e>>, Len(EncodeEntry(e)))
     /\ RecordAt(Encode(k, f), 0) =
          Ok([live |-> TRUE, key |-> k, field |-> f], Len(Encode(k, f)))
     /\ DecodeResponse(EncodeResponse(answer)) = Ok(answer, Len(EncodeResponse(answer)))

\* That is so of every field the server decodes.
LEMMA FieldsLive ==
  ASSUME NEW k \in Seq(Byte), Len(k) < Pow[W16], NEW f, IsField(f), Len(BytesFromField(f)) < Pow[W32]
  PROVE  Livable(k, f)
<1> DEFINE e == [key |-> k, field |-> f]
           answer == Response("Ok", <<f>>)
           x == Encode(k, f)
           n == Len(BytesFromField(f))
<1>1. DecodeWal(EncodeEntry(e)) = Ok(<<e>>, Len(EncodeEntry(e)))
  <2>1. EntryHolds(k, f)
    BY SetEntry
  <2> QED BY <2>1, OneEntryDecodes
<1>2. x \in Seq(Byte) /\ Len(x) = RecordHead + Len(k) + n
  BY EncodeType
<1>3. RecordAt(x, 0) = Ok([live |-> TRUE, key |-> k, field |-> f], 0 + RecordHead + Len(k) + n)
  <2>1. Holds(x, 0, Encode(k, f)) /\ 0 \in Nat
    BY <1>2, HoldsWhole
  <2> HIDE DEF x
  <2> QED BY <1>2, <2>1, LiveRecordAt
<1>4. 0 + RecordHead + Len(k) + n = Len(x)
  <2>1. RecordHead \in Nat /\ Len(k) \in Nat /\ n \in Nat
    <3>1. BytesFromField(f) \in Seq(Byte)
      BY FieldBytesType
    <3>2. n \in Nat
      BY <3>1
    <3>3. RecordHead \in Nat
      BY HeadType
    <3> QED BY <3>2, <3>3
  <2> HIDE DEF n
  <2> QED BY <1>2, <2>1
<1>5. IsResponse(answer)
  BY DEF IsResponse, Response
<1>6. DecodeResponse(EncodeResponse(answer)) = Ok(answer, Len(EncodeResponse(answer)))
  BY <1>5, ResponseRoundTrip
<1> HIDE DEF e, answer, x, n
<1>7. RecordAt(x, 0) = Ok([live |-> TRUE, key |-> k, field |-> f], Len(x))
  BY <1>3, <1>4
<1> QED BY <1>1, <1>6, <1>7 DEF Livable, e, answer, x

\* The set request in whose field the client's bytes arrive.
LEMMA AcceptedLives ==
  ASSUME NEW k \in Keys, payload \in Seq(Byte),
         NEW b, b = <<Version, Cmd["Set"]>> \o EncodeKey(k) \o BE(Len(payload), W32) \o payload,
         DecodeRequest(b).out = "ok"
  PROVE  Livable(k, DecodeRequest(b).val.field)
<1> DEFINE h == <<Version, Cmd["Set"]>>
           key == EncodeKey(k)
           l == BE(Len(payload), W32)
           t == l \o payload
<1>1. k \in Seq(Byte) /\ Len(k) < Pow[W16]
  BY KeyFacts
<1>2. h \in Seq(Byte)
  <2>1. <<>> \in Seq(Byte)
    OBVIOUS
  <2> QED BY <2>1, CommandAt
<1>3. key \in Seq(Byte)
  BY <1>1, CountedBE, Widths DEF EncodeKey, CountHolds, Count
<1>4. l \in Seq(Byte)
  <2>1. Len(payload) \in Nat
    OBVIOUS
  <2> QED BY <2>1, BEType, Widths
<1>5. b = ((h \o key) \o l) \o payload
  OBVIOUS
<1> HIDE DEF h, key, l
<1>6. b = (h \o key) \o t
  <2> DEFINE hk == h \o key
  <2>1. hk \in Seq(Byte)
    BY <1>2, <1>3
  <2>2. b = (hk \o l) \o payload
    BY <1>5
  <2> HIDE DEF hk
  <2>3. b = hk \o t
    BY <1>4, <2>1, <2>2, ConcatAssoc
  <2> QED BY <2>3 DEF hk
<1>7. t \in Seq(Byte)
  BY <1>4
<1> HIDE DEF t
<1>8. b = h \o (key \o t)
  BY <1>2, <1>3, <1>6, <1>7, ConcatAssoc
<1>9. b = <<Version, Cmd["Set"]>> \o (EncodeKey(k) \o t)
  BY <1>8 DEF h, key
<1>10. /\ IsField(DecodeRequest(b).val.field)
       /\ Len(BytesFromField(DecodeRequest(b).val.field)) < Pow[W32]
  BY <1>1, <1>7, <1>9, SetAccepted
<1> QED BY <1>1, <1>10, FieldsLive

\* Whatever bytes the field of an accepted set request was decoded from, its
\* log entry, its record and the answer to a get decode to the same field.
LEMMA StandingAccepts ==
  ASSUME payload \in Seq(Byte)
  PROVE  AcceptedReplayable
<1> SUFFICES ASSUME NEW k \in Keys, NEW b,
                    b = <<Version, Cmd["Set"]>> \o EncodeKey(k) \o BE(Len(payload), W32) \o payload,
                    DecodeRequest(b).out = "ok"
             PROVE  Livable(k, DecodeRequest(b).val.field)
  BY Zenon DEF AcceptedReplayable, Livable
<1> QED BY AcceptedLives

\* A set request the server accepts is one it can live with, always.
THEOREM AcceptedAlwaysReplayable == Spec => []AcceptedReplayable
<1>1. FilesStand => AcceptedReplayable
  <2> SUFFICES ASSUME FilesStand PROVE AcceptedReplayable
    OBVIOUS
  <2>1. payload \in Seq(Alphabet) /\ Alphabet \subseteq Byte
    BY Standing, FileAssumption
  <2>2. payload \in Seq(Byte)
    BY <2>1
  <2> QED BY <2>2, StandingAccepts
<1> QED BY <1>1, FilesAlwaysStand, PTL

\* The bare answers and those with a few bytes are shorter than a message can be.
LEMMA SmallMessages == \A n \in 0 .. 2 : 1 + W32 + n < Pow[W32] /\ n < Pow[W32]
<1>1. Pow[W32] \in Nat /\ Pow[W32] > 11 * W32
  BY PowType, Widths
<1> DEFINE p == Pow[W32]
<1> HIDE DEF p
<1>2. p \in Nat /\ p > 11 * W32
  BY <1>1 DEF p
<1> QED BY <1>2, Widths DEF p

\* A response short enough for one message.
Sendable(res) == IsResponse(res) /\ 1 + W32 + Len(Body(res)) < Pow[W32]

\* Those about the files are.
LEMMA BareSendable ==
  ASSUME NEW s \in {"Ok", "NotFound", "InvalidRequest"}
  PROVE  Sendable(Response(s, <<>>))
<1> DEFINE res == Response(s, <<>>)
<1>1. res.status = s /\ res.body = <<>>
  BY DEF Response
<1>2. Body(res) = <<>>
  BY <1>1 DEF Body
<1>3. IsResponse(res)
  BY <1>1 DEF IsResponse
<1>4. 1 + W32 + 0 < Pow[W32]
  BY SmallMessages
<1> HIDE DEF res
<1>5. Len(Body(res)) = 0
  BY <1>2
<1> QED BY <1>3, <1>4, <1>5 DEF Sendable, res

\* The message of a server error.
LEMMA ErrorSendable == Sendable(Response("ServerError", <<Boolean, Raw>>))
<1> DEFINE m == <<Boolean, Raw>>
           res == Response("ServerError", m)
<1>1. m \in Seq(Byte) /\ Len(m) = 2 /\ m[1] = 4 /\ m[2] = 0
  BY SmallBytes DEF Boolean, Raw
<1>2. IsUtf8(m)
  <2>1. NonAscii \in Nat /\ NonAscii >= 5
    BY WidthAssumption
  <2> HIDE DEF m
  <2> QED BY <1>1, <2>1 DEF IsUtf8
<1> HIDE DEF m
<1>3. res.status = "ServerError" /\ res.body = m
  BY DEF Response
<1>4. Body(res) = m
  BY <1>3 DEF Body
<1>5. 1 + W32 + 2 < Pow[W32] /\ 2 < Pow[W32]
  BY SmallMessages
<1>6. Len(m) < Pow[W32]
  BY <1>1, <1>5
<1>7. IsResponse(res)
  BY <1>1, <1>2, <1>3, <1>6 DEF IsResponse
<1> HIDE DEF res
<1> QED BY <1>1, <1>4, <1>5, <1>7 DEF Sendable, res, m

\* The answer to a get.
LEMMA FieldSendable ==
  ASSUME NEW f \in Fields
  PROVE  Sendable(Response("Ok", <<f>>))
<1> DEFINE res == Response("Ok", <<f>>)
<1>1. res.status = "Ok" /\ res.body = <<f>> /\ res.body # <<>> /\ res.body[1] = f
  BY DEF Response
<1>2. Body(res) = BytesFromField(f)
  BY <1>1 DEF Body
<1>3. IsField(f) /\ Len(BytesFromField(f)) < Pow[W32] /\ 1 + W32 + Len(BytesFromField(f)) < Pow[W32]
  BY FieldFacts DEF FieldSize
<1>4. IsResponse(res)
  BY <1>1, <1>3 DEF IsResponse
<1> HIDE DEF res
<1> QED BY <1>2, <1>3, <1>4 DEF Sendable, res

\* The answer to keys.
LEMMA KeysSendable ==
  ASSUME NEW S \in SUBSET Keys, NEW keys \in SetToSeqs(S)
  PROVE  Sendable(Response("Keys", keys))
<1> DEFINE res == Response("Keys", keys)
<1>1. res.status = "Keys" /\ res.body = keys
  BY DEF Response
<1>2. Body(res) = KeyList(keys)
  BY <1>1 DEF Body
<1>3. IsFiniteSet(S)
  BY FileAssumption, FS_Subset
<1>4. keys \in Seq(S) /\ Len(keys) \in Nat /\ \A i \in 1 .. Len(keys) : keys[i] \in S
  BY <1>3, SetToSeqsFacts
<1>5. \A i \in 1 .. Len(keys) : Len(keys[i]) < Pow[W16]
  BY <1>4, KeyFacts
<1>6. keys \in Seq(Seq(Byte))
  <2> DEFINE B == Seq(Byte)
  <2>1. S \subseteq B
    BY KeyFacts
  <2> HIDE DEF B
  <2>2. keys \in Seq(B)
    BY <1>4, <2>1
  <2> QED BY <2>2 DEF B
<1>7. 1 + W32 + Len(KeyList(keys)) < Pow[W32]
  BY SizeAssumption
<1>8. Len(KeyList(keys)) < Pow[W32]
  <2>1. KeyList(keys) \in Seq(Byte)
    BY <1>5, <1>6, KeyListDecodes
  <2> DEFINE n == Len(KeyList(keys))
             p == Pow[W32]
  <2>2. n \in Nat /\ p \in Nat /\ 1 + W32 + n < p
    BY <1>7, <2>1, PowType, Widths
  <2> HIDE DEF n, p
  <2>3. n < p
    BY <2>2, Widths
  <2> QED BY <2>3 DEF n, p
<1>9. IsResponse(res)
  BY <1>1, <1>5, <1>6, <1>8 DEF IsResponse
<1> HIDE DEF res
<1> QED BY <1>2, <1>7, <1>9 DEF Sendable, res

\* What a client reads of a stream that begins with this answer.
Arrives(res) ==
  LET after == EncodeResponse(Response("NotFound", <<>>))
      stream == Frame(EncodeResponse(res)) \o Frame(after)
      message == ReadMessage(stream, 0)
  IN /\ DecodeResponse(message.val) = Ok(res, Len(message.val))
     /\ ReadMessage(stream, message.next) = Ok(after, Len(stream))

\* The bytes of such a response, and of its frame.
LEMMA SentFrame ==
  ASSUME NEW res, Sendable(res)
  PROVE  LET x == EncodeResponse(res)
         IN /\ x \in Seq(Byte) /\ Len(x) < Pow[W32] /\ DecodeResponse(x) = Ok(res, Len(x))
            /\ Frame(x) \in Seq(Byte) /\ Len(Frame(x)) = W32 + Len(x)
<1> DEFINE x == EncodeResponse(res)
<1>1. x \in Seq(Byte) /\ Len(x) = 1 + W32 + Len(Body(res)) /\ DecodeResponse(x) = Ok(res, Len(x))
  BY ResponseRoundTrip DEF Sendable
<1>2. Len(x) < Pow[W32]
  BY <1>1 DEF Sendable
<1> HIDE DEF x
<1>3. CountHolds(x, W32)
  BY <1>1, <1>2, CountedBE, Widths
<1>4. Frame(x) = Count(x, W32)
  BY DEF Frame, Count
<1>5. Frame(x) \in Seq(Byte) /\ Len(Frame(x)) = W32 + Len(x)
  BY <1>3, <1>4 DEF CountHolds
<1> QED BY <1>1, <1>2, <1>5 DEF x

\* They reach the client, and the next message begins where they end.
LEMMA SendableArrives ==
  ASSUME NEW res, Sendable(res)
  PROVE  Arrives(res)
<1> DEFINE x == EncodeResponse(res)
           y == EncodeResponse(Response("NotFound", <<>>))
           fx == Frame(x)
           fy == Frame(y)
           stream == fx \o fy
           n == Len(x)
           m == Len(y)
<1>1. /\ x \in Seq(Byte) /\ n < Pow[W32] /\ DecodeResponse(x) = Ok(res, Len(x))
      /\ fx \in Seq(Byte) /\ Len(fx) = W32 + n
  BY SentFrame
<1>2. y \in Seq(Byte) /\ m < Pow[W32] /\ fy \in Seq(Byte) /\ Len(fy) = W32 + m
  BY BareSendable, SentFrame
<1>3. n \in Nat /\ m \in Nat
  BY <1>1, <1>2
<1> HIDE DEF x, y
<1>4. /\ stream \in Seq(Byte) /\ Len(stream) = (W32 + n) + (W32 + m)
      /\ Holds(stream, 0, Frame(x)) /\ Holds(stream, W32 + n, Frame(y))
  <2> HIDE DEF fx, fy
  <2>1. stream \in Seq(Byte) /\ Len(stream) = Len(fx) + Len(fy)
    <3>1. fx \in Seq(Byte) /\ fy \in Seq(Byte)
      BY <1>1, <1>2
    <3> QED BY <3>1
  <2>2. Holds(stream, 0, stream) /\ 0 \in Nat
    <3> HIDE DEF stream
    <3> QED BY <2>1, HoldsWhole
  <2>3. Holds(stream, 0, fx) /\ Holds(stream, 0 + Len(fx), fy)
    BY <1>1, <1>2, <2>1, <2>2, HoldsConcat
  <2>4. 0 + Len(fx) = W32 + n
    BY <1>1, <1>3, Widths
  <2> QED BY <1>1, <1>2, <2>1, <2>3, <2>4 DEF fx, fy
<1> HIDE DEF fx, fy, stream
<1>5. ReadMessage(stream, 0) = Ok(x, W32 + n)
  <2>1. ReadMessage(stream, 0) = Ok(x, 0 + W32 + Len(x))
    BY <1>1, <1>4, FrameRoundTrip
  <2>2. 0 + W32 + Len(x) = W32 + n
    BY <1>3, Widths
  <2> QED BY <2>1, <2>2
<1>6. ReadMessage(stream, W32 + n) = Ok(y, Len(stream))
  <2>1. W32 + n \in Nat
    BY <1>3, Widths
  <2>2. ReadMessage(stream, W32 + n) = Ok(y, (W32 + n) + W32 + Len(y))
    BY <1>2, <1>4, <2>1, FrameRoundTrip
  <2>3. (W32 + n) + W32 + Len(y) = Len(stream)
    BY <1>3, <1>4, Widths
  <2> QED BY <2>2, <2>3
<1>7. ReadMessage(stream, 0).val = x /\ ReadMessage(stream, 0).next = W32 + n
  BY <1>5, OkFields
<1> QED BY <1>1, <1>6, <1>7 DEF Arrives, stream, fx, fy, x, y

\* Every answer the server can give about these files.
LEMMA AnswersSendable ==
  ASSUME recs \in Seq(R!Record), NEW res \in Answers
  PROVE  Sendable(res)
<1> DEFINE S == {recs[i].key : i \in 1 .. Len(recs)}
<1>1. \A i \in 1 .. Len(recs) : recs[i].key \in Keys /\ recs[i].val \in Fields
  <2>1. \A i \in 1 .. Len(recs) : recs[i] \in R!Record
    OBVIOUS
  <2> QED BY <2>1, RecordPiece
<1>2. S \in SUBSET Keys
  BY <1>1
<1>3. \/ res \in {Response("Ok", <<>>), Response("NotFound", <<>>), Response("InvalidRequest", <<>>)}
      \/ res = Response("ServerError", <<Boolean, Raw>>)
      \/ \E i \in 1 .. Len(recs) : res = Response("Ok", <<recs[i].val>>)
      \/ \E keys \in SetToSeqs(S) : res = Response("Keys", keys)
  BY DEF Answers
<1> HIDE DEF S
<1>4. ASSUME NEW i \in 1 .. Len(recs), res = Response("Ok", <<recs[i].val>>)
      PROVE  Sendable(res)
  BY <1>1, <1>4, FieldSendable
<1>5. ASSUME NEW keys \in SetToSeqs(S), res = Response("Keys", keys)
      PROVE  Sendable(res)
  BY <1>2, <1>5, KeysSendable
<1>6. res = Response("ServerError", <<Boolean, Raw>>) => Sendable(res)
  BY ErrorSendable
<1>7. res \in {Response("Ok", <<>>), Response("NotFound", <<>>), Response("InvalidRequest", <<>>)} => Sendable(res)
  BY BareSendable
<1> QED BY <1>3, <1>4, <1>5, <1>6, <1>7

\* Every answer reaches the client as it was meant, and the next message of the
\* stream begins where it ends (send_response, read_response).
THEOREM AnswersAlwaysArrive == Spec => []AnswersArrive
<1>1. FilesStand => AnswersArrive
  <2> SUFFICES ASSUME FilesStand, NEW res \in Answers PROVE Arrives(res)
    BY Zenon DEF AnswersArrive, Arrives
  <2>1. Sendable(res)
    BY AnswersSendable, Standing
  <2> QED BY <2>1, SendableArrives
<1> QED BY <1>1, FilesAlwaysStand, PTL

-----------------------------------------------------------------------------
(***************************************************************************)
(* What a crash leaves of a write.                                         *)
(***************************************************************************)

\* The file after the first n bytes of new are written over old.
Part(old, new, n) == SubSeq(new, 1, n) \o SubSeq(old, n + 1, Len(old))

\* The bytes of a concatenation are those of its parts.
LEMMA ConcatBytes ==
  ASSUME NEW a \in Seq(Byte), NEW c \in Seq(Byte)
  PROVE  /\ a \o c \in Seq(Byte) /\ Len(a \o c) = Len(a) + Len(c) /\ Len(a) \in Nat /\ Len(c) \in Nat
         /\ \A i \in 1 .. Len(a) : (a \o c)[i] = a[i]
         /\ \A i \in 1 .. Len(c) : (a \o c)[Len(a) + i] = c[i]
OBVIOUS

\* Byte for byte: new up to n, old behind.
LEMMA PartBytes ==
  ASSUME NEW old \in Seq(Byte), NEW new \in Seq(Byte), Len(old) <= Len(new), NEW n \in 1 .. Len(new) - 1
  PROVE  LET p == Part(old, new, n)
         IN /\ p \in Seq(Byte) /\ Len(p) = IF n <= Len(old) THEN Len(old) ELSE n
            /\ \A i \in 1 .. Len(p) : p[i] = IF i <= n THEN new[i] ELSE old[i]
<1> DEFINE a == SubSeq(new, 1, n)
           c == SubSeq(old, n + 1, Len(old))
<1>1. a \in Seq(Byte) /\ Len(a) = n /\ \A i \in 1 .. n : a[i] = new[i]
  OBVIOUS
<1>2. c \in Seq(Byte) /\ Len(c) = (IF n <= Len(old) THEN Len(old) - n ELSE 0)
      /\ \A i \in 1 .. Len(c) : c[i] = old[n + i]
  OBVIOUS
<1> DEFINE p == a \o c
<1>3. /\ p \in Seq(Byte) /\ Len(p) = Len(a) + Len(c)
      /\ \A i \in 1 .. Len(a) : p[i] = a[i]
      /\ \A i \in 1 .. Len(c) : p[Len(a) + i] = c[i]
  <2> HIDE DEF a, c
  <2> QED BY <1>1, <1>2, ConcatBytes
<1> HIDE DEF a, c, p
<1>4. Len(old) \in Nat /\ n \in Nat
  OBVIOUS
<1>5. Len(p) = IF n <= Len(old) THEN Len(old) ELSE n
  BY <1>1, <1>2, <1>3, <1>4
<1>6. ASSUME NEW i \in 1 .. Len(p) PROVE p[i] = IF i <= n THEN new[i] ELSE old[i]
  <2>1. CASE i <= n
    BY <1>1, <1>3, <1>4, <2>1
  <2>2. CASE i > n
    <3>1. i - n \in 1 .. Len(c) /\ n + (i - n) = i
      BY <1>1, <1>2, <1>3, <1>4, <2>2
    <3>2. p[n + (i - n)] = c[i - n] /\ c[i - n] = old[n + (i - n)]
      BY <1>1, <1>2, <1>3, <3>1
    <3> QED BY <1>4, <2>2, <3>1, <3>2
  <2> QED BY <1>4, <2>1, <2>2
<1> QED BY <1>3, <1>5, <1>6 DEF Part, p, a, c

\* A write that changes nothing leaves nothing torn.
LEMMA NothingTorn ==
  ASSUME NEW d \in Seq(Byte)
  PROVE  PartlyWritten(d, d) = {} /\ Unwritten(d, d) = {}
<1>1. ASSUME NEW n \in 1 .. Len(d) - 1 PROVE Part(d, d, n) = d
  <2> DEFINE p == Part(d, d, n)
  <2>1. p \in Seq(Byte) /\ Len(p) = (IF n <= Len(d) THEN Len(d) ELSE n)
        /\ \A i \in 1 .. Len(p) : p[i] = IF i <= n THEN d[i] ELSE d[i]
    BY PartBytes
  <2> HIDE DEF p
  <2>2. Len(p) = Len(d) /\ \A i \in 1 .. Len(d) : p[i] = d[i]
    BY <2>1
  <2>3. p = d
    BY <2>1, <2>2
  <2> QED BY <2>3 DEF p
<1>2. PartlyWritten(d, d) = {}
  BY <1>1 DEF PartlyWritten, Part
<1>3. Unwritten(d, d) = {}
  BY DEF Unwritten
<1> QED BY <1>2, <1>3

\* A part of an append is the old file and a part of what was to follow it.
LEMMA PartlyAppended ==
  ASSUME NEW d \in Seq(Byte), NEW x \in Seq(Byte), NEW file \in PartlyWritten(d, d \o x)
  PROVE  \E m \in 1 .. Len(x) - 1 : file = d \o SubSeq(x, 1, m)
<1> DEFINE new == d \o x
<1>1. new \in Seq(Byte) /\ Len(new) = Len(d) + Len(x) /\ Len(d) \in Nat /\ Len(x) \in Nat
      /\ (\A i \in 1 .. Len(d) : new[i] = d[i]) /\ (\A i \in 1 .. Len(x) : new[Len(d) + i] = x[i])
  OBVIOUS
<1>2. PICK n \in 1 .. Len(new) - 1 : file = Part(d, new, n) /\ file # d
  BY DEF PartlyWritten, Part
<1> HIDE DEF new
<1>3. file \in Seq(Byte) /\ Len(file) = (IF n <= Len(d) THEN Len(d) ELSE n)
      /\ \A i \in 1 .. Len(file) : file[i] = IF i <= n THEN new[i] ELSE d[i]
  BY <1>1, <1>2, PartBytes
<1>4. n > Len(d)
  <2> SUFFICES ASSUME n <= Len(d) PROVE FALSE
    BY <1>1
  <2>1. Len(file) = Len(d) /\ \A i \in 1 .. Len(d) : file[i] = d[i]
    BY <1>1, <1>3
  <2>2. file = d
    BY <1>3, <2>1
  <2> QED BY <1>2, <2>2
<1> DEFINE m == n - Len(d)
           t == SubSeq(x, 1, m)
           b == d \o t
<1>5. m \in 1 .. Len(x) - 1 /\ n = Len(d) + m
  BY <1>1, <1>4
<1>6. t \in Seq(Byte) /\ Len(t) = m /\ \A i \in 1 .. m : t[i] = x[i]
  <2> HIDE DEF m
  <2> QED BY <1>5
<1>7. b \in Seq(Byte) /\ Len(b) = Len(d) + m
      /\ (\A i \in 1 .. Len(d) : b[i] = d[i]) /\ (\A i \in 1 .. m : b[Len(d) + i] = t[i])
  <2> HIDE DEF t, m
  <2> QED BY <1>6, ConcatBytes
<1> HIDE DEF m, t, b
<1>8. Len(file) = Len(b)
  BY <1>1, <1>3, <1>4, <1>5, <1>7
<1>9. ASSUME NEW i \in 1 .. Len(file) PROVE file[i] = b[i]
  <2>1. CASE i <= Len(d)
    BY <1>1, <1>3, <1>4, <1>7, <2>1
  <2>2. CASE i > Len(d)
    <3>1. PICK j \in 1 .. m : i = Len(d) + j
      <4>1. i - Len(d) \in 1 .. m /\ i = Len(d) + (i - Len(d))
        BY <1>1, <1>5, <1>7, <1>8, <2>2
      <4> QED BY <4>1
    <3>2. i <= n /\ j \in 1 .. Len(x)
      BY <1>1, <1>5, <3>1
    <3> QED BY <1>1, <1>3, <1>6, <1>7, <3>1, <3>2
  <2> QED BY <1>1, <2>1, <2>2
<1>10. file = b
  BY <1>3, <1>7, <1>8, <1>9
<1> QED BY <1>5, <1>10 DEF b, t

\* x with its first m bytes overwritten by those of y.
Mix(x, y, m) == [i \in 1 .. Len(x) |-> IF i <= m THEN y[i] ELSE x[i]]

LEMMA MixType ==
  ASSUME NEW x \in Seq(Byte), NEW y \in Seq(Byte), Len(x) = Len(y), NEW m \in Nat
  PROVE  /\ Mix(x, y, m) \in Seq(Byte) /\ Len(Mix(x, y, m)) = Len(x)
         /\ \A i \in 1 .. Len(x) : Mix(x, y, m)[i] = IF i <= m THEN y[i] ELSE x[i]
<1>1. \A i \in 1 .. Len(x) : x[i] \in Byte /\ y[i] \in Byte
  OBVIOUS
<1> DEFINE z == Mix(x, y, m)
<1>2. z \in [1 .. Len(x) -> Byte] /\ \A i \in 1 .. Len(x) : z[i] = IF i <= m THEN y[i] ELSE x[i]
  BY <1>1 DEF Mix
<1>3. Len(x) \in Nat
  OBVIOUS
<1> HIDE DEF z
<1>4. z \in Seq(Byte)
  BY <1>2, <1>3
<1>5. DOMAIN z = 1 .. Len(x)
  BY <1>2
<1>6. Len(z) = Len(x)
  BY <1>3, <1>4, <1>5
<1> QED BY <1>2, <1>4, <1>6 DEF z

\* The bytes of b are those of three pieces, the second of length w.
ThreeIs(b, u, s, v, w) ==
  /\ b \in Seq(Byte) /\ Len(b) = Len(u) + w + Len(v)
  /\ Len(u) \in Nat /\ Len(v) \in Nat
  /\ \A i \in 1 .. Len(u) : b[i] = u[i]
  /\ \A i \in 1 .. w : b[Len(u) + i] = s[i]
  /\ \A i \in 1 .. Len(v) : b[Len(u) + w + i] = v[i]

\* Those of a concatenation are.
LEMMA ThreeBytes ==
  ASSUME NEW u \in Seq(Byte), NEW s \in Seq(Byte), NEW v \in Seq(Byte), NEW w, w = Len(s)
  PROVE  ThreeIs((u \o s) \o v, u, s, v, w)
<1> DEFINE us == u \o s
           b == us \o v
<1>1. /\ us \in Seq(Byte) /\ Len(us) = Len(u) + Len(s) /\ Len(u) \in Nat /\ Len(s) \in Nat
      /\ (\A i \in 1 .. Len(u) : us[i] = u[i]) /\ (\A i \in 1 .. Len(s) : us[Len(u) + i] = s[i])
  BY ConcatBytes
<1> HIDE DEF us
<1>2. /\ b \in Seq(Byte) /\ Len(b) = Len(us) + Len(v) /\ Len(us) \in Nat /\ Len(v) \in Nat
      /\ (\A i \in 1 .. Len(us) : b[i] = us[i]) /\ (\A i \in 1 .. Len(v) : b[Len(us) + i] = v[i])
  BY <1>1, ConcatBytes
<1> HIDE DEF b
<1>3. \A i \in 1 .. Len(u) : b[i] = u[i]
  BY <1>1, <1>2
<1>4. ASSUME NEW i \in 1 .. Len(s) PROVE b[Len(u) + i] = s[i]
  <2>1. Len(u) + i \in 1 .. Len(us)
    BY <1>1
  <2> QED BY <1>1, <1>2, <2>1
<1>5. \A i \in 1 .. Len(v) : b[Len(u) + Len(s) + i] = v[i]
  BY <1>1, <1>2
<1> QED BY <1>1, <1>2, <1>3, <1>4, <1>5 DEF b, us, ThreeIs

\* In the middle of a file, between u and v, x is overwritten by y; and file
\* has a mix of the two there, of the first m bytes of y.
Overwrites(old, new, u, x, y, v) ==
  /\ u \in Seq(Byte) /\ x \in Seq(Byte) /\ y \in Seq(Byte) /\ v \in Seq(Byte) /\ Len(x) = Len(y) /\ Len(x) > 0
  /\ old = (u \o x) \o v /\ new = (u \o y) \o v
Mixed(file, u, x, y, v, m) == file = (u \o Mix(x, y, m)) \o v /\ Mix(x, y, m) # x

\* A part of a write in the middle is a mix of what was there and the data.
LEMMA PartlyReplaced ==
  ASSUME NEW old, NEW new, NEW u, NEW x, NEW y, NEW v, Overwrites(old, new, u, x, y, v),
         NEW file \in PartlyWritten(old, new)
  PROVE  \E m \in Nat : Mixed(file, u, x, y, v, m)
<1> DEFINE l == Len(u)
           w == Len(x)
<1>b. u \in Seq(Byte) /\ x \in Seq(Byte) /\ y \in Seq(Byte) /\ v \in Seq(Byte) /\ Len(x) = Len(y)
  BY DEF Overwrites
<1>c. old = (u \o x) \o v /\ new = (u \o y) \o v
  BY DEF Overwrites
<1>1. PICK n \in 1 .. Len(new) - 1 : file = Part(old, new, n) /\ file # old
  BY DEF PartlyWritten, Part
<1>2. ThreeIs(old, u, x, v, w)
  BY <1>b, <1>c, ThreeBytes
<1>3. ThreeIs(new, u, y, v, w)
  BY <1>b, <1>c, ThreeBytes
<1>a. l \in Nat /\ w \in Nat /\ Len(v) \in Nat
  BY <1>b
<1> DEFINE m == IF n <= l THEN 0 ELSE n - l
           z == Mix(x, y, m)
           b == (u \o z) \o v
<1>4. m \in Nat /\ \A i \in 1 .. w : (i <= m <=> l + i <= n)
  <2>1. n \in Nat
    <3>1. Len(new) \in Nat
      BY <1>3, <1>a DEF ThreeIs
    <3> QED BY <3>1
  <2> HIDE DEF l, w
  <2> QED BY <1>a, <2>1
<1> HIDE DEF m
<1>5. z \in Seq(Byte) /\ Len(z) = w /\ \A i \in 1 .. w : z[i] = IF i <= m THEN y[i] ELSE x[i]
  BY <1>b, <1>4, MixType
<1> HIDE DEF z
<1>6. ThreeIs(b, u, z, v, w)
  BY <1>b, <1>5, ThreeBytes
<1> HIDE DEF b, l, w
<1>7. /\ file \in Seq(Byte) /\ Len(file) = Len(old)
      /\ \A i \in 1 .. Len(file) : file[i] = IF i <= n THEN new[i] ELSE old[i]
  <2>1. Len(old) <= Len(new) /\ n <= Len(old)
    BY <1>1, <1>2, <1>3, <1>a DEF ThreeIs, l
  <2>2. old \in Seq(Byte) /\ new \in Seq(Byte)
    BY <1>2, <1>3 DEF ThreeIs
  <2> QED BY <1>1, <2>1, <2>2, PartBytes
<1>8. ASSUME NEW i \in 1 .. l + w + Len(v)
      PROVE  \/ i \in 1 .. l
             \/ \E j \in 1 .. w : i = l + j
             \/ \E j \in 1 .. Len(v) : i = l + w + j
  <2>1. CASE i <= l
    BY <1>a, <2>1
  <2>2. CASE i > l /\ i <= l + w
    <3>1. i - l \in 1 .. w /\ i = l + (i - l)
      BY <1>a, <2>2
    <3> QED BY <3>1
  <2>3. CASE i > l + w
    <3>1. i - (l + w) \in 1 .. Len(v) /\ i = l + w + (i - (l + w))
      BY <1>a, <2>3
    <3> QED BY <3>1
  <2> QED BY <1>a, <2>1, <2>2, <2>3
<1>9. ASSUME NEW i \in 1 .. Len(file) PROVE file[i] = b[i]
  <2>1. i \in 1 .. l + w + Len(v)
    BY <1>2, <1>7 DEF ThreeIs, l
  <2>2. CASE i \in 1 .. l
    BY <1>2, <1>3, <1>6, <1>7, <2>2 DEF ThreeIs, l
  <2>3. ASSUME NEW j \in 1 .. w, i = l + j PROVE file[i] = b[i]
    <3>1. old[i] = x[j] /\ new[i] = y[j] /\ b[i] = z[j]
      BY <1>2, <1>3, <1>6, <2>3 DEF ThreeIs, l
    <3> QED BY <1>4, <1>5, <1>7, <2>3, <3>1
  <2>4. ASSUME NEW j \in 1 .. Len(v), i = l + w + j PROVE file[i] = b[i]
    BY <1>2, <1>3, <1>6, <1>7, <2>4 DEF ThreeIs, l
  <2> QED BY <1>8, <2>1, <2>2, <2>3, <2>4
<1>10. file = b
  <2>1. b \in Seq(Byte) /\ Len(file) = Len(b)
    BY <1>2, <1>6, <1>7 DEF ThreeIs
  <2>2. file \in Seq(Byte) /\ \A i \in 1 .. Len(file) : file[i] = b[i]
    BY <1>7, <1>9
  <2> QED BY <2>1, <2>2
<1>11. z # x
  <2> SUFFICES ASSUME z = x PROVE FALSE
    OBVIOUS
  <2>1. b = old
    BY <1>c DEF b
  <2> QED BY <1>1, <1>10, <2>1
<1> QED BY <1>4, <1>10, <1>11 DEF Mixed, b, z

-----------------------------------------------------------------------------
(***************************************************************************)
(* What the decoders make of a file with a torn end.                       *)
(***************************************************************************)

\* b ends with t behind the items ss, of which the loop reads vals.
EndsWith(b, turn, pre, ss, vals, t) ==
  /\ b = (pre \o FlattenSeq(ss)) \o t /\ Advances(turn, Len(b)) /\ Len(vals) = Len(ss)
  /\ \A i \in 1 .. Len(vals) :
       /\ Len(ss[i]) > 0
       /\ \A pos \in Cursor(b) : Holds(b, pos, ss[i]) => turn[pos] = Ok(vals[i], pos + Len(ss[i]))

\* A loop over whole items reads them, and then what is behind them.
LEMMA TailDecodes ==
  ASSUME NEW turn, NEW pre \in Seq(Byte), NEW ss \in Seq(Seq(Byte)), NEW t \in Seq(Byte),
         NEW V, NEW vals \in Seq(V), NEW b, EndsWith(b, turn, pre, ss, vals, t),
         NEW r, r = DecodeAll(turn, Len(pre \o FlattenSeq(ss))),
         r.out = "ok" => r = Ok(r.val, r.next) /\ r.val \in Seq(V)
  PROVE  DecodeAll(turn, Len(pre)) = IF r.out # "ok" THEN r ELSE Ok(vals \o r.val, r.next)
<1> DEFINE B == Seq(Byte)
           tt == Append(ss, t)
           n == Len(vals)
           f == FlattenSeq(ss)
           k == Len(b)
<1>0. b = (pre \o f) \o t /\ Advances(turn, k) /\ n = Len(ss)
  BY DEF EndsWith
<1>1. tt \in Seq(B) /\ Len(ss) \in Nat /\ Len(tt) = Len(ss) + 1 /\ SubSeq(tt, 1, Len(ss)) = ss
      /\ \A i \in 1 .. Len(ss) : tt[i] = ss[i]
  <2>1. ss \in Seq(B) /\ t \in B
    OBVIOUS
  <2> HIDE DEF B
  <2> QED BY <2>1
<1>2. FlattenSeq(tt) = f \o t
  BY FlattenAppend
<1>3. f \in Seq(Byte)
  BY FlattenType
<1> HIDE DEF tt, f
<1>4. b = pre \o FlattenSeq(tt)
  BY <1>0, <1>2, <1>3, ConcatAssoc
<1>5. n \in Nat /\ n <= Len(tt)
  BY <1>0, <1>1
<1>6. Reads1(turn, pre, tt, vals)
  <2>1. \A i \in 1 .. Len(vals) :
          /\ Len(tt[i]) > 0
          /\ \A pos \in Cursor(b) : Holds(b, pos, tt[i]) => turn[pos] = Ok(vals[i], pos + Len(tt[i]))
    <3> TAKE i \in 1 .. Len(vals)
    <3>1. tt[i] = ss[i]
      BY <1>0, <1>1
    <3> QED BY <3>1, Zenon DEF EndsWith
  <2> QED BY <1>1, <1>4, <1>5, <2>1, HoldsReads DEF B
<1>7. Len(pre) + Off(tt, Len(vals)) = Len(pre \o f)
  <2>1. Off(tt, Len(vals)) = Len(f)
    BY <1>0, <1>1 DEF Off, f
  <2> QED BY <1>3, <2>1, ConcatBytes
<1>8. r = DecodeAll(turn, Len(pre) + Off(tt, Len(vals)))
  BY <1>7 DEF f
<1>9. tt \in Seq(Seq(Byte))
  BY <1>1 DEF B
<1> HIDE DEF n, B
<1>10. k = Len(pre \o FlattenSeq(tt))
  BY <1>4
<1> HIDE DEF k
<1> QED BY <1>0, <1>6, <1>8, <1>9, <1>10, DecodeFlat

\* If what is behind them is an error, so is the file.
LEMMA TailFails ==
  ASSUME NEW turn, NEW pre \in Seq(Byte), NEW ss \in Seq(Seq(Byte)), NEW t \in Seq(Byte), Len(t) > 0,
         NEW V, NEW vals \in Seq(V), NEW b, EndsWith(b, turn, pre, ss, vals, t),
         turn[Len(pre \o FlattenSeq(ss))] = Err
  PROVE  DecodeAll(turn, Len(pre)) = Err
<1> DEFINE f == FlattenSeq(ss)
           d == pre \o f
           r == DecodeAll(turn, Len(d))
<1>1. d \in Seq(Byte)
  <2>1. f \in Seq(Byte)
    BY FlattenType
  <2> HIDE DEF f
  <2> QED BY <2>1
<1>2. Len(d) \in 0 .. Len(b) - 1 /\ Len(b) \in Nat
  <2>1. b = d \o t
    BY DEF EndsWith
  <2> HIDE DEF d
  <2> QED BY <1>1, <2>1, ConcatBytes
<1>3. turn[Len(d)] = Err
  OBVIOUS
<1>4. r = Err
  <2> DEFINE k == Len(b)
  <2>1. k \in Nat /\ Advances(turn, k) /\ Len(d) \in 0 .. k - 1
    BY <1>2 DEF EndsWith
  <2> HIDE DEF d, k
  <2> QED BY <2>1, <1>3, DecodeAllFails, ErrFields
<1>5. r = DecodeAll(turn, Len(pre \o FlattenSeq(ss))) /\ r.out # "ok"
  BY <1>4, ErrFields
<1> HIDE DEF f, d, r
<1>a. r.out = "ok" => r = Ok(r.val, r.next) /\ r.val \in Seq(V)
  BY <1>5
<1>6. DecodeAll(turn, Len(pre)) = IF r.out # "ok" THEN r ELSE Ok(vals \o r.val, r.next)
  BY <1>5, <1>a, TailDecodes
<1> QED BY <1>4, <1>5, <1>6

\* A piece of x that was written whole stands behind d.
LEMMA CutHolds ==
  ASSUME NEW d \in Seq(Byte), NEW x \in Seq(Byte), NEW p \in Seq(Byte), NEW at \in Nat, Holds(x, at, p),
         NEW m \in Nat, m <= Len(x), at + Len(p) <= m
  PROVE  Holds(d \o SubSeq(x, 1, m), Len(d) + at, p)
<1> DEFINE t == SubSeq(x, 1, m)
           b == d \o t
<1>1. t \in Seq(Byte) /\ Len(t) = m /\ \A i \in 1 .. m : t[i] = x[i]
  OBVIOUS
<1> HIDE DEF t
<1>2. Len(b) = Len(d) + m /\ Len(d) \in Nat /\ \A i \in 1 .. m : b[Len(d) + i] = t[i]
  BY <1>1, ConcatBytes
<1> HIDE DEF b
<1>3. Len(p) \in Nat /\ \A i \in 1 .. Len(p) : x[at + i] = p[i]
  BY DEF Holds
<1>4. ASSUME NEW i \in 1 .. Len(p) PROVE b[(Len(d) + at) + i] = p[i]
  <2>1. at + i \in 1 .. m /\ (Len(d) + at) + i = Len(d) + (at + i)
    BY <1>2, <1>3
  <2> QED BY <1>1, <1>2, <1>3, <2>1
<1>5. Holds(b, Len(d) + at, p)
  BY <1>2, <1>3, <1>4 DEF Holds
<1> QED BY <1>5 DEF b, t

\* The loop of DBDecoder and what it makes of records.
RecordTurn(b) == [pos \in Cursor(b) |-> RecordAt(b, pos)]
ShownOf(s) == [i \in 1 .. Len(s) |-> Shown(s[i])]
Items(s) == {ShownOf(s)[i] : i \in 1 .. Len(s)}

\* b is a .db file that ends with t behind its records.
DbEndsWith(b, h, s, t) ==
  IsHeader(h) /\ s \in Seq(R!Record) /\ t \in Seq(Byte) /\ b = (h \o FlattenSeq(RecordPieces(s))) \o t

\* DBDecoder reads its records first.
LEMMA DbEnds ==
  ASSUME NEW b, NEW h, NEW s, NEW t, DbEndsWith(b, h, s, t)
  PROVE  LET d == h \o FlattenSeq(RecordPieces(s))
         IN /\ b \in Seq(Byte) /\ h \in Seq(Byte) /\ RecordPieces(s) \in Seq(Seq(Byte)) /\ d \in Seq(Byte)
            /\ Len(d) \in Nat /\ Len(b) = Len(d) + Len(t) /\ Len(t) \in Nat
            /\ ShownOf(s) \in Seq(Items(s)) /\ Len(ShownOf(s)) = Len(s) /\ Len(s) \in Nat
            /\ EndsWith(b, RecordTurn(b), h, RecordPieces(s), ShownOf(s), t)
            /\ DecodeDb(b) = DecodeAll(RecordTurn(b), Len(h))
<1> DEFINE ss == RecordPieces(s)
           f == FlattenSeq(ss)
           d == h \o f
           v == ShownOf(s)
<1>1. IsHeader(h) /\ s \in Seq(R!Record) /\ t \in Seq(Byte) /\ b = d \o t
  BY DEF DbEndsWith
<1>2. h \in Seq(Byte) /\ Len(h) = HeaderLen
  BY <1>1 DEF IsHeader
<1>3. /\ ss \in Seq(Seq(Byte)) /\ Len(ss) = Len(s) /\ Len(s) \in Nat
      /\ \A i \in 1 .. Len(s) : s[i] \in R!Record /\ ss[i] = RecordBytesOf(s[i])
  BY <1>1, RecordPiecesType
<1> HIDE DEF ss
<1>4. f \in Seq(Byte)
  BY <1>3, FlattenType
<1> HIDE DEF f
<1>5. d \in Seq(Byte) /\ Len(d) \in Nat /\ Len(t) \in Nat /\ b = h \o (f \o t) /\ f \o t \in Seq(Byte)
  <2>1. d \in Seq(Byte) /\ f \o t \in Seq(Byte)
    BY <1>1, <1>2, <1>4, ConcatBytes
  <2>2. b = h \o (f \o t)
    BY <1>1, <1>2, <1>4, ConcatAssoc
  <2> HIDE DEF d
  <2> QED BY <1>1, <2>1, <2>2
<1>6. HeaderOk(b) /\ b \in Seq(Byte)
  <2> DEFINE ft == f \o t
  <2>1. ft \in Seq(Byte) /\ b = h \o ft
    BY <1>5
  <2> HIDE DEF ft
  <2> QED BY <1>1, <2>1, HeaderAccepted
<1>7. Len(b) = Len(d) + Len(t)
  <2> HIDE DEF d
  <2> QED BY <1>1, <1>5, ConcatBytes
<1>8. v \in Seq(Items(s)) /\ Len(v) = Len(s) /\ \A i \in 1 .. Len(s) : v[i] = Shown(s[i])
  <2>1. v = [i \in 1 .. Len(s) |-> v[i]] /\ \A i \in 1 .. Len(s) : v[i] = Shown(s[i])
    BY DEF ShownOf
  <2> HIDE DEF v
  <2>2. v \in Seq({v[i] : i \in 1 .. Len(s)}) /\ Len(v) = Len(s)
    BY <1>3, <2>1, Vals DEF IsTuple
  <2>3. {v[i] : i \in 1 .. Len(s)} = Items(s)
    BY DEF Items, v
  <2> QED BY <2>1, <2>2, <2>3
<1>9. Advances(RecordTurn(b), Len(b))
  BY <1>6, RecordsAdvance DEF RecordTurn
<1>10. ASSUME NEW i \in 1 .. Len(s)
       PROVE  /\ Len(ss[i]) > 0
              /\ \A pos \in Cursor(b) : Holds(b, pos, ss[i]) => RecordTurn(b)[pos] = Ok(v[i], pos + Len(ss[i]))
  <2> DEFINE r == s[i]
  <2>1. r \in R!Record /\ ss[i] = RecordBytesOf(r) /\ v[i] = Shown(r)
    BY <1>3, <1>8
  <2> HIDE DEF r, v
  <2>2. Len(ss[i]) = RecordSize(r) /\ RecordSize(r) > 0
    BY <2>1, RecordPiece
  <2>3. ASSUME NEW pos \in Cursor(b), Holds(b, pos, ss[i])
        PROVE  RecordTurn(b)[pos] = Ok(v[i], pos + Len(ss[i]))
    <3>1. pos \in Nat
      BY DEF Cursor
    <3>2. RecordAt(b, pos) = Ok(Shown(r), pos + RecordSize(r))
      <4>1. Holds(b, pos, RecordBytesOf(r))
        BY <2>1, <2>3
      <4> QED BY <1>6, <2>1, <3>1, <4>1, RecordReads DEF RecordRead
    <3>3. RecordTurn(b)[pos] = RecordAt(b, pos)
      BY DEF RecordTurn
    <3> QED BY <2>1, <2>2, <3>2, <3>3, Zenon
  <2> QED BY <2>2, <2>3
<1> HIDE DEF v
<1>11. EndsWith(b, RecordTurn(b), h, ss, v, t)
  <2>1. b = (h \o FlattenSeq(ss)) \o t /\ Len(v) = Len(ss)
    BY <1>1, <1>3, <1>8 DEF f
  <2> QED BY <1>8, <1>9, <1>10, <2>1, Zenon DEF EndsWith
<1>12. DecodeDb(b) = DecodeAll(RecordTurn(b), Len(h))
  BY <1>2, <1>6, Zenon DEF DecodeDb, RecordTurn
<1> HIDE DEF d
<1>13. /\ b \in Seq(Byte) /\ h \in Seq(Byte) /\ ss \in Seq(Seq(Byte)) /\ d \in Seq(Byte)
       /\ Len(d) \in Nat /\ Len(b) = Len(d) + Len(t) /\ Len(t) \in Nat
       /\ v \in Seq(Items(s)) /\ Len(v) = Len(s) /\ Len(s) \in Nat
  BY <1>2, <1>3, <1>5, <1>6, <1>7, <1>8
<1> QED BY <1>11, <1>12, <1>13, Zenon DEF d, f, ss, v

\* A .db file that ends with what is no record is refused.
LEMMA DbTailFails ==
  ASSUME NEW b, NEW h, NEW s, NEW t, DbEndsWith(b, h, s, t), Len(t) > 0,
         RecordAt(b, Len(h \o FlattenSeq(RecordPieces(s)))) = Err
  PROVE  DecodeDb(b) = Err
<1> DEFINE ss == RecordPieces(s)
           d == h \o FlattenSeq(ss)
           v == ShownOf(s)
<1>1. /\ b \in Seq(Byte) /\ h \in Seq(Byte) /\ ss \in Seq(Seq(Byte)) /\ d \in Seq(Byte)
      /\ Len(d) \in Nat /\ Len(b) = Len(d) + Len(t) /\ Len(t) \in Nat /\ v \in Seq(Items(s))
      /\ EndsWith(b, RecordTurn(b), h, ss, v, t)
      /\ DecodeDb(b) = DecodeAll(RecordTurn(b), Len(h))
  BY DbEnds
<1>2. t \in Seq(Byte)
  BY DEF DbEndsWith
<1>3. RecordTurn(b)[Len(d)] = Err
  <2>1. RecordAt(b, Len(d)) = Err
    OBVIOUS
  <2> HIDE DEF d
  <2>2. Len(d) \in Cursor(b)
    BY <1>1 DEF Cursor
  <2> QED BY <2>1, <2>2 DEF RecordTurn
<1>4. DecodeAll(RecordTurn(b), Len(h)) = Err
  <2>1. RecordTurn(b)[Len(h \o FlattenSeq(ss))] = Err
    BY <1>3
  <2> HIDE DEF ss, v, d
  <2> QED BY <1>1, <1>2, <2>1, TailFails
<1> QED BY <1>1, <1>4

\* Some number has w bytes.
LEMMA PowPositive == \A w \in Nat : Pow[w] \in Nat /\ Pow[w] > 0
<1> TAKE w \in Nat
<1>1. Pow[w] \in Nat /\ Pow[w] > 11 * w
  BY PowType
<1> QED BY <1>1

\* Nothing but bytes 0 from pos on.
ZerosFrom(b, pos) == \A i \in pos + 1 .. Len(b) : b[i] = 0
Dead == [live |-> FALSE]
DeadOnly(r) == r = Err \/ (r = Ok(r.val, r.next) /\ r.out = "ok" /\ r.val \in Seq({Dead}))

\* Zeros spell zero.
LEMMA ZerosSlice ==
  ASSUME NEW b \in Seq(Byte), NEW pos \in Nat, ZerosFrom(b, pos),
         NEW at \in Nat, pos <= at, NEW w \in Nat, at + w <= Len(b)
  PROVE  Slice(b, at, w) = Zeros(w) /\ UnLE(Slice(b, at, w)) = 0
<1>1. Zeros(w) \in Seq(Byte) /\ Len(Zeros(w)) = w /\ \A i \in 1 .. w : Zeros(w)[i] = 0
  BY HeadType DEF Zeros
<1>2. ASSUME NEW i \in 1 .. w PROVE b[at + i] = 0
  <2>1. at + i \in pos + 1 .. Len(b)
    OBVIOUS
  <2> QED BY <2>1 DEF ZerosFrom
<1>3. Slice(b, at, w) = Zeros(w)
  <2>1. Holds(b, at, Zeros(w))
    BY <1>1, <1>2 DEF Holds
  <2> QED BY <1>1, <2>1, HoldsSlice
<1>4. LE(0, w) = Zeros(w)
  <2>1. ASSUME NEW i \in 1 .. w PROVE (0 \div Pow[i - 1]) % Radix = 0
    <3>1. Pow[i - 1] \in Nat /\ Pow[i - 1] > 0 /\ Radix \in Nat /\ Radix > 0
      BY PowPositive, WidthAssumption
    <3> DEFINE q == Pow[i - 1]
    <3>2. 0 \div q = 0
      <4>1. q \in Nat /\ q > 0
        BY <3>1
      <4> HIDE DEF q
      <4> QED BY <4>1
    <3>3. 0 % Radix = 0
      BY <3>1
    <3> QED BY <3>2, <3>3
  <2> QED BY <2>1 DEF LE, Zeros
<1>5. 0 \in Nat /\ 0 < Pow[w]
  BY PowPositive
<1>6. UnLE(LE(0, w)) = 0
  BY <1>5, UnLEOfLE
<1> QED BY <1>3, <1>4, <1>6

\* A head of zeros is a tombstone of no key and no field.
LEMMA ZerosHead ==
  ASSUME NEW b \in Seq(Byte), NEW pos \in Nat, pos < Len(b), ZerosFrom(b, pos)
  PROVE  \/ RecordAt(b, pos) = Err
         \/ RecordAt(b, pos) = Ok(Dead, pos + RecordHead) /\ pos + RecordHead <= Len(b)
<1>1. RecordHead \in Nat /\ Len(b) \in Nat /\ Len(Magic) \in Nat /\ RecordHead = Len(Magic) + W16 + W32 + W32
  BY HeadType
<1>2. Len(b) < pos + RecordHead => RecordAt(b, pos) = Err
  BY Zenon DEF RecordAt
<1>3. CASE pos + RecordHead <= Len(b)
  <2> DEFINE ml == Len(Magic)
  <2>0. ml \in Nat /\ RecordHead = ml + W16 + W32 + W32
    BY <1>1
  <2>1. MagicAt(b, pos) = Zeros(ml)
    <3>1. pos + ml <= Len(b) /\ pos <= pos
      <4> HIDE DEF ml
      <4> QED BY <1>1, <1>3, <2>0, Widths
    <3> HIDE DEF ml
    <3> QED BY <2>0, <3>1, ZerosSlice DEF MagicAt, ml
  <2>2. KeyLenAt(b, pos) = 0
    <3>1. pos + ml \in Nat /\ pos <= pos + ml /\ (pos + ml) + W16 <= Len(b)
      <4> HIDE DEF ml
      <4> QED BY <1>1, <1>3, <2>0, Widths
    <3>2. UnLE(Slice(b, pos + ml, W16)) = 0
      <4> HIDE DEF ml
      <4> QED BY <3>1, ZerosSlice, Widths
    <3> QED BY <3>2 DEF KeyLenAt
  <2>3. FieldLenAt(b, pos) = 0
    <3>1. pos + ml + W16 \in Nat /\ pos <= pos + ml + W16 /\ (pos + ml + W16) + W32 <= Len(b)
      <4> HIDE DEF ml
      <4> QED BY <1>1, <1>3, <2>0, Widths
    <3>2. UnLE(Slice(b, pos + ml + W16, W32)) = 0
      <4> HIDE DEF ml
      <4> QED BY <3>1, ZerosSlice, Widths
    <3> QED BY <3>2 DEF FieldLenAt
  <2> HIDE DEF ml
  <2>4. pos + RecordHead + 0 + 0 = pos + RecordHead
    BY <1>1
  <2>5. RecordAt(b, pos) = Ok([live |-> FALSE], pos + RecordHead + 0 + 0)
    BY <1>3, <2>1, <2>2, <2>3, <2>4, DeadRecordAt DEF ml
  <2>6. RecordAt(b, pos) = Ok(Dead, pos + RecordHead)
    BY <2>4, <2>5 DEF Dead
  <2> QED BY <1>3, <2>6
<1>4. CASE ~ (pos + RecordHead <= Len(b))
  BY <1>1, <1>2, <1>4
<1> QED BY <1>3, <1>4

\* So the loop finds tombstones in zeros, or an error.
LEMMA ZerosDecode ==
  ASSUME NEW b \in Seq(Byte), NEW m \in 0 .. Len(b), ZerosFrom(b, m)
  PROVE  DeadOnly(DecodeAll(RecordTurn(b), m))
<1> DEFINE k == Len(b)
           turn == RecordTurn(b)
           S == {pos \in Nat : \A p \in Nat : m <= p /\ pos <= p /\ p <= k => DeadOnly(DecodeAll(turn, p))}
<1>1. k \in Nat /\ m \in Nat /\ m <= k
  OBVIOUS
<1>2. Advances(turn, k)
  BY RecordsAdvance DEF RecordTurn
<1>3. \A p \in 0 .. k - 1 : turn[p] = RecordAt(b, p)
  BY DEF RecordTurn, Cursor
<1>4. RecordHead \in Nat /\ RecordHead > 0
  BY HeadType, Widths
<1> HIDE DEF turn, k
<1>5. DeadOnly(DecodeAll(turn, k))
  <2>1. DecodeAll(turn, k) = Ok(<<>>, k)
    BY <1>1, <1>2, DecodeAllEnd
  <2> DEFINE r == DecodeAll(turn, k)
  <2>2. r.out = "ok" /\ r.val = <<>> /\ r.next = k
    BY <2>1, OkFields
  <2>3. r.val \in Seq({Dead})
    BY <2>2
  <2> QED BY <2>1, <2>2, <2>3 DEF DeadOnly
<1>6. k \in S
  <2> SUFFICES ASSUME NEW p \in Nat, k <= p, p <= k PROVE DeadOnly(DecodeAll(turn, p))
    BY <1>1
  <2>1. p = k
    BY <1>1
  <2> QED BY <1>5, <2>1
<1>7. ASSUME NEW pos \in Nat, pos < k, pos + 1 \in S PROVE pos \in S
  <2> SUFFICES ASSUME NEW p \in Nat, m <= p, pos <= p, p <= k PROVE DeadOnly(DecodeAll(turn, p))
    OBVIOUS
  <2>1. CASE p >= pos + 1
    BY <1>7, <2>1
  <2>2. CASE p = pos
    <3>1. p \in 0 .. k - 1 /\ p < Len(b)
      BY <1>1, <1>7, <2>2 DEF k
    <3>2. ZerosFrom(b, p)
      <4>1. \A i \in p + 1 .. Len(b) : i \in m + 1 .. Len(b)
        BY <1>1
      <4> QED BY <4>1 DEF ZerosFrom
    <3>3. RecordAt(b, p) = Err \/ (RecordAt(b, p) = Ok(Dead, p + RecordHead) /\ p + RecordHead <= k)
      BY <3>1, <3>2, ZerosHead DEF k
    <3>4. CASE turn[p] = Err
      <4>1. DecodeAll(turn, p) = Err
        BY <1>1, <1>2, <3>1, <3>4, DecodeAllFails, ErrFields
      <4> QED BY <4>1 DEF DeadOnly
    <3>5. CASE turn[p] = Ok(Dead, p + RecordHead) /\ p + RecordHead <= k
      <4> DEFINE q == p + RecordHead
                 r == DecodeAll(turn, q)
                 a == DecodeAll(turn, p)
      <4>1. q \in Nat /\ m <= q /\ pos + 1 <= q /\ q <= k
        BY <1>1, <1>4, <2>2, <3>5
      <4>2. DeadOnly(r)
        BY <1>7, <4>1
      <4>3. turn[p].out = "ok" /\ turn[p].val = Dead /\ turn[p].next = q
        BY <3>5, OkFields
      <4>4. a = Turned(turn[p], r)
        BY <1>1, <1>2, <3>1, <4>3, DecodeAllStep
      <4> HIDE DEF r, a, q
      <4>5. CASE r = Err
        BY <4>3, <4>4, <4>5, ErrFields DEF Turned, DeadOnly, a
      <4>6. CASE r # Err
        <5>1. r.out = "ok" /\ r.val \in Seq({Dead})
          BY <4>2, <4>6 DEF DeadOnly
        <5>2. a = Ok(<<Dead>> \o r.val, r.next)
          BY <4>3, <4>4, <5>1 DEF Turned
        <5>3. a.out = "ok" /\ a.val = <<Dead>> \o r.val /\ a.next = r.next
          BY <5>2, OkFields
        <5>4. <<Dead>> \o r.val \in Seq({Dead})
          BY <5>1
        <5> QED BY <5>2, <5>3, <5>4 DEF DeadOnly, a
      <4> QED BY <4>5, <4>6
    <3> QED BY <1>3, <3>1, <3>3, <3>4, <3>5
  <2> QED BY <2>1, <2>2
<1>8. \A n \in 0 .. k : n \in S
  <2> HIDE DEF S
  <2> QED BY <1>1, <1>6, <1>7, InductionDown
<1> QED BY <1>1, <1>8 DEF turn

\* Tombstones at the end show nothing more.
LEMMA DeadHidden ==
  ASSUME NEW V, NEW v \in Seq(V), NEW r \in Seq({Dead})
  PROVE  LiveItems(v \o r) = LiveItems(v)
<1> DEFINE a == v \o r
           n == Len(v)
<1>1. n \in Nat /\ Len(r) \in Nat
  OBVIOUS
<1>2. /\ Len(a) = n + Len(r) /\ (\A i \in 1 .. n : a[i] = v[i]) /\ (\A i \in 1 .. Len(r) : a[n + i] = r[i])
  OBVIOUS
<1>3. \A i \in 1 .. Len(r) : r[i] = Dead
  OBVIOUS
<1> HIDE DEF a, n
<1>4. ASSUME NEW i \in 1 .. Len(a), a[i].live PROVE i \in 1 .. n
  <2> SUFFICES ASSUME i > n PROVE FALSE
    BY <1>1
  <2>1. i - n \in 1 .. Len(r) /\ n + (i - n) = i
    BY <1>1, <1>2
  <2>2. a[i] = Dead
    BY <1>2, <1>3, <2>1
  <2> QED BY <1>4, <2>2 DEF Dead
<1> DEFINE A == {j \in 1 .. Len(a) : a[j].live}
           B == {j \in 1 .. n : v[j].live}
<1>5. A = B
  <2>1. \A j \in 1 .. n : j \in 1 .. Len(a) /\ a[j] = v[j]
    BY <1>1, <1>2
  <2> QED BY <1>4, <2>1
<1>6. \A j \in B : a[j] = v[j]
  BY <1>2
<1> HIDE DEF A, B
<1>7. [i \in A |-> a[i]] = [i \in B |-> v[i]]
  BY <1>5, <1>6
<1> QED BY <1>7 DEF LiveItems, A, B, a, n

\* Zeros in the place of a record are an error or tombstones.
LEMMA DbZeros ==
  ASSUME NEW b, NEW h, NEW s, NEW n \in Nat, DbEndsWith(b, h, s, Zeros(n))
  PROVE  FailsOrShows(b, {LiveItems(ShownOf(s))})
<1> DEFINE ss == RecordPieces(s)
           d == h \o FlattenSeq(ss)
           v == ShownOf(s)
           t == Zeros(n)
           turn == RecordTurn(b)
           V == Items(s) \cup {Dead}
           r == DecodeAll(turn, Len(d))
<1>1. /\ b \in Seq(Byte) /\ h \in Seq(Byte) /\ ss \in Seq(Seq(Byte)) /\ d \in Seq(Byte)
      /\ Len(d) \in Nat /\ Len(b) = Len(d) + Len(t) /\ Len(t) \in Nat /\ v \in Seq(Items(s))
      /\ EndsWith(b, turn, h, ss, v, t)
      /\ DecodeDb(b) = DecodeAll(turn, Len(h))
  BY DbEnds
<1>2. t \in Seq(Byte) /\ Len(t) = n /\ (\A i \in 1 .. n : t[i] = 0) /\ b = d \o t
  BY HeadType DEF Zeros, DbEndsWith
<1> HIDE DEF t
<1>3. ZerosFrom(b, Len(d)) /\ Len(d) \in 0 .. Len(b)
  <2> HIDE DEF d
  <2>1. \A i \in 1 .. Len(t) : b[Len(d) + i] = t[i]
    BY <1>1, <1>2, ConcatBytes
  <2>2. ASSUME NEW i \in Len(d) + 1 .. Len(b) PROVE b[i] = 0
    <3>1. i - Len(d) \in 1 .. Len(t) /\ Len(d) + (i - Len(d)) = i
      BY <1>1
    <3>2. b[Len(d) + (i - Len(d))] = t[i - Len(d)] /\ t[i - Len(d)] = 0
      BY <1>2, <2>1, <3>1
    <3> QED BY <3>1, <3>2
  <2> QED BY <1>1, <2>2 DEF ZerosFrom
<1>4. DeadOnly(r)
  <2> HIDE DEF d
  <2> QED BY <1>1, <1>3, ZerosDecode
<1> HIDE DEF r
<1>5. v \in Seq(V) /\ (r.out = "ok" => r = Ok(r.val, r.next) /\ r.val \in Seq(V))
  <2> HIDE DEF v
  <2>1. v \in Seq(V)
    BY <1>1
  <2>2. r.out = "ok" => r = Ok(r.val, r.next) /\ r.val \in Seq(V)
    BY <1>4, ErrFields DEF DeadOnly
  <2> QED BY <2>1, <2>2
<1>6. DecodeDb(b) = IF r.out # "ok" THEN r ELSE Ok(v \o r.val, r.next)
  <2>1. r = DecodeAll(turn, Len(h \o FlattenSeq(ss)))
    BY DEF r
  <2>2. t \in Seq(Byte)
    BY <1>2
  <2> HIDE DEF ss, turn, v, V, d
  <2>3. DecodeAll(turn, Len(h)) = IF r.out # "ok" THEN r ELSE Ok(v \o r.val, r.next)
    BY <1>1, <1>5, <2>1, <2>2, TailDecodes
  <2> QED BY <1>1, <2>3
<1> HIDE DEF v
<1>7. CASE r = Err
  BY <1>6, <1>7, ErrFields DEF FailsOrShows
<1>8. CASE r # Err
  <2>1. r.out = "ok" /\ r.val \in Seq({Dead})
    BY <1>4, <1>8 DEF DeadOnly
  <2>a. DecodeDb(b) = Ok(v \o r.val, r.next)
    BY <1>6, <2>1, Zenon
  <2>2. DecodeDb(b).out = "ok" /\ DecodeDb(b).val = v \o r.val
    <3> DEFINE w == v \o r.val
               found == DecodeDb(b)
    <3>1. found = Ok(w, r.next)
      BY <2>a
    <3> HIDE DEF w, found
    <3>2. found.out = "ok" /\ found.val = w
      BY <3>1, OkFields
    <3> QED BY <3>2 DEF w, found
  <2>3. LiveItems(v \o r.val) = LiveItems(v)
    BY <1>1, <2>1, DeadHidden
  <2> QED BY <2>2, <2>3 DEF FailsOrShows, v
<1> QED BY <1>7, <1>8

-----------------------------------------------------------------------------
(***************************************************************************)
(* An append to .db that was cut short.                                    *)
(***************************************************************************)

\* What the decoders read of a head whose magic number and lengths are there.
LEMMA HeadReads ==
  ASSUME NEW b \in Seq(Byte), NEW pos \in Nat, NEW m \in Seq(Byte), Len(m) = Len(Magic),
         NEW kl \in Nat, kl < Pow[W16], NEW fl \in Nat, fl < Pow[W32],
         Holds(b, pos + Len(Magic), Lengths(kl, fl))
  PROVE  /\ KeyLenAt(b, pos) = kl /\ FieldLenAt(b, pos) = fl
         /\ Holds(b, pos, m) => MagicAt(b, pos) = m
<1> DEFINE ML == Len(Magic)
           x == LE(kl, W16)
           y == LE(fl, W32)
<1>1. ML \in Nat
  BY HeadType
<1>2. x \in Seq(Byte) /\ Len(x) = W16 /\ y \in Seq(Byte)
  BY LEType, Widths
<1>3. Holds(b, pos + ML, x \o y)
  BY DEF Lengths
<1> HIDE DEF ML, x, y
<1>4. pos + ML \in Nat /\ pos + ML + W16 \in Nat
  BY <1>1, Widths
<1>5. Holds(b, pos + ML, x) /\ Holds(b, pos + ML + W16, y)
  BY <1>2, <1>3, <1>4, HoldsConcat
<1>6. KeyLenAt(b, pos) = kl
  BY <1>4, <1>5, HoldsLE, Widths DEF KeyLenAt, ML, x
<1>7. UnLE(Slice(b, pos + ML + W16, W32)) = fl
  BY <1>4, <1>5, HoldsLE, Widths DEF y
<1>8. FieldLenAt(b, pos) = fl
  BY <1>7 DEF FieldLenAt, ML
<1>9. Holds(b, pos, m) => MagicAt(b, pos) = m
  BY HoldsSlice DEF MagicAt
<1> QED BY <1>6, <1>8, <1>9

\* Part of a record is no record.
LEMMA TornRecord ==
  ASSUME NEW d \in Seq(Byte), NEW k \in Keys, NEW f \in Fields, NEW m \in 1 .. Len(Encode(k, f)) - 1
  PROVE  RecordAt(d \o SubSeq(Encode(k, f), 1, m), Len(d)) = Err
<1> DEFINE x == Encode(k, f)
           p == BytesFromField(f)
           kl == Len(k)
           fl == Len(p)
           c == LE(Checksum(Lengths(kl, fl) \o Zeros(W32) \o k \o p), W32)
           t == SubSeq(x, 1, m)
           b == d \o t
           ML == Len(Magic)
           lens == Lengths(kl, fl)
           pos == Len(d)
<1>1. k \in Seq(Byte) /\ kl \in Nat /\ kl < Pow[W16] /\ IsField(f) /\ fl \in Nat /\ fl < Pow[W32] /\ p \in Seq(Byte)
  BY KeyFacts, FieldFacts, FieldBytesType DEF FieldSize
<1>2. x \in Seq(Byte) /\ Len(x) = RecordHead + kl + fl
  BY <1>1, EncodeType
<1>3. c \in Seq(Byte) /\ Len(c) = W32 /\ x = RecordBytes(Magic, kl, fl, c, k, p)
  BY <1>1, EncodeParts
<1>4. lens \in Seq(Byte) /\ Len(lens) = W16 + W32
  BY <1>1, LengthsType
<1>5. ML \in Nat /\ Magic \in Seq(Byte) /\ RecordHead = ML + W16 + W32 + W32 /\ RecordHead \in Nat
  BY HeadType
<1>6. x = Magic \o lens \o c \o k \o p
  BY <1>3 DEF RecordBytes
<1> HIDE DEF c, p, kl, fl, lens
<1>7. Holds(x, 0, Magic) /\ Holds(x, ML, lens)
  <2> DEFINE y == x
  <2>1. IsFive(y, Magic, lens, c, k, p)
    <3>1. y = Magic \o lens \o c \o k \o p
      BY <1>6
    <3> HIDE DEF y
    <3> QED BY <1>1, <1>3, <1>4, <1>5, <3>1, Concat5, Zenon
  <2>2. y \in Seq(Byte)
    BY <1>2
  <2> HIDE DEF y
  <2>3. Holds(y, 0, y)
    BY <2>2, HoldsWhole
  <2>4. Five(y, 0, Magic, lens, c, k, p)
    BY <2>1, <2>2, <2>3 DEF IsFive
  <2>5. Holds(y, 0, Magic) /\ Holds(y, 0 + ML, lens)
    BY <2>4 DEF Five, ML
  <2> QED BY <1>5, <2>5 DEF y
<1> HIDE DEF x
<1>8. m \in Nat /\ m < Len(x) /\ t \in Seq(Byte) /\ Len(t) = m
  <2>1. Len(x) \in Nat /\ m \in 1 .. Len(x) - 1
    BY <1>2 DEF x
  <2> QED BY <1>2, <2>1
<1> HIDE DEF t
<1>9. b \in Seq(Byte) /\ Len(b) = pos + m /\ pos \in Nat
  BY <1>8, ConcatBytes
<1>10. CASE Len(b) < pos + RecordHead
  <2> HIDE DEF b, pos
  <2>1. RecordAt(b, pos) = Err
    BY <1>10, Zenon DEF RecordAt
  <2> QED BY <2>1 DEF b, t, x, pos
<1>11. CASE ~ (Len(b) < pos + RecordHead)
  <2>1. m >= ML + Len(lens) /\ m <= Len(x)
    BY <1>4, <1>5, <1>8, <1>9, <1>11, Widths
  <2>2. Holds(d \o SubSeq(x, 1, m), pos + 0, Magic) /\ Holds(d \o SubSeq(x, 1, m), pos + ML, lens)
    <3>1. 0 \in Nat /\ 0 + Len(Magic) <= m /\ Len(lens) \in Nat /\ m \in Nat
      BY <1>4, <1>5, <1>8, <2>1, Widths DEF ML
    <3> HIDE DEF ML
    <3> QED BY <1>2, <1>4, <1>5, <1>7, <2>1, <3>1, CutHolds
  <2>3. pos + 0 = pos
    BY <1>9
  <2>4. Holds(b, pos, Magic) /\ Holds(b, pos + Len(Magic), lens)
    BY <2>2, <2>3 DEF b, t, ML
  <2> HIDE DEF b, pos
  <2>5. KeyLenAt(b, pos) = kl /\ FieldLenAt(b, pos) = fl
    <3>1. Holds(b, pos + Len(Magic), Lengths(kl, fl))
      BY <2>4 DEF lens
    <3> QED BY <1>1, <1>5, <1>9, <3>1, HeadReads
  <2>6. Len(b) < pos + RecordHead + kl + fl
    <3>1. kl \in Nat /\ fl \in Nat /\ RecordHead \in Nat /\ m \in Nat /\ pos \in Nat
      BY <1>1, <1>5, <1>8, <1>9
    <3>2. m < RecordHead + kl + fl /\ Len(b) = pos + m
      BY <1>2, <1>8, <1>9, Zenon
    <3> QED BY <3>1, <3>2
  <2>7. RecordAt(b, pos) = Err
    BY <2>5, <2>6, Zenon DEF RecordAt
  <2> QED BY <2>7 DEF b, t, x, pos
<1> QED BY <1>10, <1>11

\* So a part of it behind whole records is found out.
LEMMA DbTornAppend ==
  ASSUME NEW d, NEW h, NEW s, DbIs(d, h, s), NEW k \in Keys, NEW f \in Fields,
         NEW m \in 1 .. Len(Encode(k, f)) - 1
  PROVE  DecodeDb(d \o SubSeq(Encode(k, f), 1, m)) = Err
<1> DEFINE x == Encode(k, f)
           t == SubSeq(x, 1, m)
           b == d \o t
<1>1. x \in Seq(Byte)
  <2>1. k \in Seq(Byte) /\ Len(k) < Pow[W16] /\ IsField(f) /\ FieldSize(f) < Pow[W32]
    BY KeyFacts, FieldFacts
  <2> QED BY <2>1, EncodeType DEF FieldSize
<1>2. t \in Seq(Byte) /\ Len(t) > 0
  <2>1. Len(x) \in Nat /\ m \in 1 .. Len(x) - 1
    BY <1>1
  <2> HIDE DEF x
  <2> QED BY <1>1, <2>1
<1>3. d \in Seq(Byte) /\ d = h \o FlattenSeq(RecordPieces(s))
  <2>1. d \in Seq(Byte)
    BY RecordsStand
  <2> QED BY <2>1 DEF DbIs
<1>4. RecordAt(b, Len(d)) = Err
  BY <1>3, TornRecord
<1> HIDE DEF t
<1>5. DbEndsWith(b, h, s, t)
  BY <1>2, <1>3 DEF DbEndsWith, DbIs
<1> HIDE DEF b
<1>6. DecodeDb(b) = Err
  BY <1>2, <1>3, <1>4, <1>5, DbTailFails
<1> QED BY <1>6 DEF b, t

-----------------------------------------------------------------------------
(***************************************************************************)
(* A tombstone that was cut short.                                         *)
(***************************************************************************)

\* What stands in a piece stands where the piece does.
LEMMA HoldsWithin ==
  ASSUME NEW b, NEW pos \in Nat, NEW z \in Seq(Byte), Holds(b, pos, z),
         NEW at \in Nat, NEW p \in Seq(Byte), Holds(z, at, p), Len(b) \in Nat
  PROVE  Holds(b, pos + at, p)
<1>1. Len(z) \in Nat /\ Len(p) \in Nat
  OBVIOUS
<1>2. pos + Len(z) <= Len(b) /\ (\A i \in 1 .. Len(z) : b[pos + i] = z[i])
      /\ at + Len(p) <= Len(z) /\ (\A i \in 1 .. Len(p) : z[at + i] = p[i])
  BY DEF Holds
<1>3. ASSUME NEW i \in 1 .. Len(p) PROVE b[(pos + at) + i] = p[i]
  <2>1. at + i \in 1 .. Len(z) /\ pos + (at + i) = (pos + at) + i
    BY <1>1, <1>2
  <2> QED BY <1>2, <2>1
<1> QED BY <1>1, <1>2, <1>3 DEF Holds

\* What both have at the same place a mix has too.
LEMMA MixHolds ==
  ASSUME NEW x \in Seq(Byte), NEW y \in Seq(Byte), Len(x) = Len(y), NEW m \in Nat,
         NEW at \in Nat, NEW p \in Seq(Byte), Holds(x, at, p), Holds(y, at, p)
  PROVE  Holds(Mix(x, y, m), at, p)
<1>1. /\ Mix(x, y, m) \in Seq(Byte) /\ Len(Mix(x, y, m)) = Len(x)
      /\ \A i \in 1 .. Len(x) : Mix(x, y, m)[i] = IF i <= m THEN y[i] ELSE x[i]
  BY MixType
<1>2. /\ at + Len(p) <= Len(x) /\ Len(p) \in Nat /\ Len(x) \in Nat
      /\ \A i \in 1 .. Len(p) : x[at + i] = p[i] /\ y[at + i] = p[i]
  BY DEF Holds
<1>3. ASSUME NEW i \in 1 .. Len(p) PROVE Mix(x, y, m)[at + i] = p[i]
  <2>1. at + i \in 1 .. Len(x)
    BY <1>2
  <2> QED BY <1>1, <1>2, <2>1
<1> QED BY <1>1, <1>2, <1>3 DEF Holds

\* The head of a record of these lengths.
HeadOf(r, m, kl, fl) == Holds(r, 0, m) /\ Holds(r, Len(Magic), Lengths(kl, fl))

\* Records and tombstones have one.
LEMMA Heads ==
  ASSUME NEW m \in Seq(Byte), Len(m) = Len(Magic), NEW kl \in Nat, NEW fl \in Nat,
         NEW c \in Seq(Byte), NEW k \in Seq(Byte), NEW p \in Seq(Byte),
         NEW r, r = RecordBytes(m, kl, fl, c, k, p)
  PROVE  r \in Seq(Byte) /\ HeadOf(r, m, kl, fl)
<1> DEFINE lens == Lengths(kl, fl)
<1>1. lens \in Seq(Byte)
  BY LengthsType
<1>2. r = m \o lens \o c \o k \o p
  BY DEF RecordBytes
<1> HIDE DEF lens
<1>3. IsFive(r, m, lens, c, k, p)
  BY <1>1, <1>2, Concat5, Zenon
<1>4. r \in Seq(Byte) /\ Holds(r, 0, r)
  BY <1>3, HoldsWhole DEF IsFive
<1>5. Five(r, 0, m, lens, c, k, p)
  BY <1>3, <1>4 DEF IsFive
<1>6. Holds(r, 0, m) /\ Holds(r, 0 + Len(m), lens)
  BY <1>5 DEF Five
<1>7. 0 + Len(m) = Len(Magic)
  BY HeadType
<1> QED BY <1>4, <1>6, <1>7 DEF HeadOf, lens

\* Wherever z stands, DBDecoder finds nothing but an error, or a tombstone.
ReadsErr(z) == \A b \in Seq(Byte), pos \in Nat : Holds(b, pos, z) => RecordAt(b, pos) = Err
ReadsDead(z) == \A b \in Seq(Byte), pos \in Nat : Holds(b, pos, z) => RecordAt(b, pos) = Ok(Dead, pos + Len(z))

\* A record under a part of its tombstone has no magic number.
LEMMA MixReads ==
  ASSUME NEW kl \in Nat, kl < Pow[W16], NEW fl \in Nat, fl < Pow[W32],
         NEW x \in Seq(Byte), Len(x) = RecordHead + kl + fl, HeadOf(x, Magic, kl, fl),
         NEW y \in Seq(Byte), Len(y) = RecordHead + kl + fl, HeadOf(y, Zeros(Len(Magic)), kl, fl),
         NEW m \in Nat, Mix(x, y, m) # x
  PROVE  ReadsErr(Mix(x, y, m)) \/ ReadsDead(Mix(x, y, m))
<1> DEFINE z == Mix(x, y, m)
           ML == Len(Magic)
           zero == Zeros(ML)
           lens == Lengths(kl, fl)
<1>1. kl \in Nat /\ kl < Pow[W16] /\ fl \in Nat /\ fl < Pow[W32]
  OBVIOUS
<1>2. x \in Seq(Byte) /\ Len(x) = RecordHead + kl + fl
  OBVIOUS
<1>3. y \in Seq(Byte) /\ Len(y) = RecordHead + kl + fl
  OBVIOUS
<1>4. ML \in Nat /\ Magic \in Seq(Byte) /\ Magic # zero /\ RecordHead \in Nat /\ zero \in Seq(Byte) /\ Len(zero) = ML
      /\ RecordHead = ML + W16 + W32 + W32 /\ ML <= RecordHead
  BY HeadType, Widths
<1>5. HeadOf(x, Magic, kl, fl)
  OBVIOUS
<1>6. HeadOf(y, zero, kl, fl)
  OBVIOUS
<1>7. lens \in Seq(Byte)
  BY <1>1, LengthsType
<1>0. z # x
  OBVIOUS
<1> HIDE DEF lens
<1>8. Len(x) = Len(y) /\ Len(x) \in Nat /\ ML <= Len(x)
  <2>1. kl \in Nat /\ fl \in Nat /\ RecordHead \in Nat /\ ML \in Nat /\ ML <= RecordHead
    BY <1>1, <1>4
  <2>2. Len(x) = RecordHead + kl + fl /\ Len(y) = RecordHead + kl + fl
    BY <1>2, <1>3
  <2> HIDE DEF ML
  <2> QED BY <2>1, <2>2
<1>9. z \in Seq(Byte) /\ Len(z) = Len(x) /\ \A i \in 1 .. Len(x) : z[i] = IF i <= m THEN y[i] ELSE x[i]
  BY <1>8, MixType
<1>10. Holds(z, ML, lens)
  <2>1. Holds(x, ML, lens) /\ Holds(y, ML, lens)
    BY <1>5, <1>6 DEF HeadOf, lens
  <2> HIDE DEF ML
  <2> QED BY <1>2, <1>3, <1>4, <1>7, <1>8, <2>1, MixHolds
<1> HIDE DEF z
<1> DEFINE g == SubSeq(z, 1, ML)
<1>11. g \in Seq(Byte) /\ Len(g) = ML /\ (\A i \in 1 .. ML : g[i] = z[i])
  <2> HIDE DEF ML
  <2> QED BY <1>4, <1>8, <1>9
<1> HIDE DEF g
<1>12. Holds(z, 0, g)
  BY <1>4, <1>8, <1>9, <1>11 DEF Holds
<1>13. (\A i \in 1 .. ML : x[i] = Magic[i]) /\ (\A i \in 1 .. ML : y[i] = 0)
  <2>1. \A i \in 1 .. ML : x[0 + i] = Magic[i] /\ y[0 + i] = zero[i] /\ zero[i] = 0
    BY <1>4, <1>5, <1>6 DEF HeadOf, Holds, Zeros
  <2>2. \A i \in 1 .. ML : 0 + i = i
    BY <1>4
  <2> QED BY <2>1, <2>2
<1>14. g # Magic
  <2> SUFFICES ASSUME g = Magic PROVE FALSE
    OBVIOUS
  <2>1. CASE m >= ML
    <3>1. \A i \in 1 .. ML : z[i] = y[i]
      <4>1. \A i \in 1 .. ML : i \in 1 .. Len(x) /\ i <= m
        BY <1>4, <1>8, <2>1
      <4> QED BY <1>9, <4>1
    <3>2. \A i \in 1 .. ML : Magic[i] = 0
      BY <1>11, <1>13, <3>1
    <3>3. \A i \in 1 .. ML : zero[i] = 0
      BY DEF Zeros
    <3> HIDE DEF ML, zero
    <3>4. Len(Magic) = ML
      BY DEF ML
    <3>5. Magic = zero
      BY <1>4, <3>2, <3>3, <3>4
    <3> QED BY <1>4, <3>5
  <2>2. CASE m < ML
    <3>1. ASSUME NEW i \in 1 .. Len(x) PROVE z[i] = x[i]
      <4>1. CASE i <= m
        <5>1. i \in 1 .. ML
          BY <1>4, <2>2, <4>1
        <5> QED BY <1>11, <1>13, <5>1
      <4>2. CASE ~ (i <= m)
        BY <1>9, <4>2
      <4> QED BY <4>1, <4>2
    <3>2. z = x
      BY <1>2, <1>9, <3>1
    <3> QED BY <1>0, <3>2
  <2> QED BY <1>4, <2>1, <2>2
<1>15. ASSUME NEW b \in Seq(Byte), NEW pos \in Nat, Holds(b, pos, z)
       PROVE  /\ MagicAt(b, pos) = g /\ KeyLenAt(b, pos) = kl /\ FieldLenAt(b, pos) = fl
              /\ pos + RecordHead + kl + fl <= Len(b) /\ pos + RecordHead + kl + fl = pos + Len(z)
  <2>0. Len(b) \in Nat /\ 0 \in Nat
    OBVIOUS
  <2>1. Holds(b, pos + 0, g) /\ Holds(b, pos + ML, lens)
    <3> HIDE DEF ML
    <3> QED BY <1>4, <1>7, <1>9, <1>10, <1>11, <1>12, <1>15, <2>0, HoldsWithin
  <2>2. pos + 0 = pos
    OBVIOUS
  <2>3. Holds(b, pos, g) /\ Holds(b, pos + Len(Magic), Lengths(kl, fl)) /\ Len(g) = Len(Magic)
    <3>1. Holds(b, pos, g)
      BY <2>1, <2>2, Zenon
    <3>2. Holds(b, pos + Len(Magic), Lengths(kl, fl))
      BY <2>1, Zenon DEF lens
    <3> QED BY <1>11, <3>1, <3>2, Zenon
  <2>4. MagicAt(b, pos) = g /\ KeyLenAt(b, pos) = kl /\ FieldLenAt(b, pos) = fl
    <3>1. kl \in Nat /\ kl < Pow[W16] /\ fl \in Nat /\ fl < Pow[W32] /\ g \in Seq(Byte)
      BY <1>1, <1>11
    <3> QED BY <2>3, <3>1, HeadReads, Zenon
  <2>5. pos + Len(z) <= Len(b)
    BY <1>15 DEF Holds
  <2>6. kl \in Nat /\ fl \in Nat /\ Len(z) = RecordHead + kl + fl
    BY <1>1, <1>2, <1>9
  <2>7. pos + RecordHead + kl + fl = pos + Len(z)
    BY <1>4, <2>6
  <2> QED BY <2>4, <2>5, <2>7
<1>16. ASSUME g = zero PROVE ReadsDead(z)
  <2>1. ASSUME NEW b \in Seq(Byte), NEW pos \in Nat, Holds(b, pos, z)
        PROVE  RecordAt(b, pos) = Ok(Dead, pos + Len(z))
    <3>1. /\ MagicAt(b, pos) = Zeros(Len(Magic)) /\ KeyLenAt(b, pos) = kl /\ FieldLenAt(b, pos) = fl
          /\ pos + RecordHead + kl + fl <= Len(b) /\ pos + RecordHead + kl + fl = pos + Len(z)
      BY <1>15, <1>16, <2>1
    <3>2. RecordAt(b, pos) = Ok([live |-> FALSE], pos + RecordHead + kl + fl)
      BY <1>1, <3>1, DeadRecordAt
    <3> QED BY <3>1, <3>2 DEF Dead
  <2> QED BY <2>1 DEF ReadsDead
<1>17. ASSUME g # zero PROVE ReadsErr(z)
  <2>1. ASSUME NEW b \in Seq(Byte), NEW pos \in Nat, Holds(b, pos, z) PROVE RecordAt(b, pos) = Err
    <3>1. MagicAt(b, pos) \notin {Magic, Zeros(Len(Magic))}
      BY <1>14, <1>15, <1>17, <2>1
    <3> QED BY <3>1, Zenon DEF RecordAt
  <2> QED BY <2>1 DEF ReadsErr
<1> QED BY <1>16, <1>17 DEF z

\* So it is for the records of the model.
LEMMA TornTombstone ==
  ASSUME NEW k \in Keys, NEW f \in Fields, NEW m \in Nat,
         NEW x, x = Encode(k, f), NEW y, y = Tombstone(Len(k), FieldSize(f)),
         Mix(x, y, m) # x
  PROVE  ReadsErr(Mix(x, y, m)) \/ ReadsDead(Mix(x, y, m))
<1> DEFINE p == BytesFromField(f)
           kl == Len(k)
           fl == Len(p)
           c == LE(Checksum(Lengths(kl, fl) \o Zeros(W32) \o k \o p), W32)
           ML == Len(Magic)
           zero == Zeros(ML)
           lens == Lengths(kl, fl)
<1>1. k \in Seq(Byte) /\ kl \in Nat /\ kl < Pow[W16] /\ IsField(f) /\ fl \in Nat /\ fl < Pow[W32] /\ p \in Seq(Byte)
  BY KeyFacts, FieldFacts, FieldBytesType DEF FieldSize
<1>2. x \in Seq(Byte) /\ Len(x) = RecordHead + kl + fl
  BY <1>1, EncodeType
<1>3. y \in Seq(Byte) /\ Len(y) = RecordHead + kl + fl
  BY <1>1, TombstoneType DEF FieldSize
<1>4. ML \in Nat /\ Magic \in Seq(Byte) /\ Magic # zero /\ RecordHead \in Nat /\ zero \in Seq(Byte) /\ Len(zero) = ML
      /\ RecordHead = ML + W16 + W32 + W32 /\ ML <= RecordHead
  BY HeadType, Widths
<1>5. HeadOf(x, Magic, kl, fl)
  <2>1. c \in Seq(Byte) /\ x = RecordBytes(Magic, kl, fl, c, k, p)
    BY <1>1, EncodeParts
  <2> HIDE DEF c, p, kl, fl
  <2> QED BY <1>1, <1>4, <2>1, Heads
<1>6. HeadOf(y, zero, kl, fl)
  <2> DEFINE z4 == Zeros(W32)
             zk == Zeros(kl)
             zp == Zeros(fl)
  <2>1. y = RecordBytes(zero, kl, fl, z4, zk, zp)
    BY Zenon DEF Tombstone, RecordBytes, FieldSize
  <2>2. z4 \in Seq(Byte) /\ zk \in Seq(Byte) /\ zp \in Seq(Byte)
    BY <1>1, HeadType, Widths
  <2> HIDE DEF z4, zk, zp, p, kl, fl, zero
  <2> QED BY <1>1, <1>4, <2>1, <2>2, Heads
<1> HIDE DEF p, kl, fl, lens, c, zero
<1>7. x \in Seq(Byte) /\ y \in Seq(Byte) /\ HeadOf(y, Zeros(Len(Magic)), kl, fl)
  BY <1>2, <1>3, <1>6 DEF zero
<1> QED BY <1>1, <1>2, <1>3, <1>5, <1>7, MixReads, Zenon

\* A .db file of pieces that are read wherever they stand.
LEMMA DbReads ==
  ASSUME NEW h, IsHeader(h), NEW ss \in Seq(Seq(Byte)), NEW V, NEW vals \in Seq(V), Len(vals) = Len(ss),
         \A i \in 1 .. Len(ss) :
           /\ Len(ss[i]) > 0
           /\ \A b \in Seq(Byte), pos \in Nat :
                HeaderOk(b) /\ Holds(b, pos, ss[i]) => RecordAt(b, pos) = Ok(vals[i], pos + Len(ss[i]))
  PROVE  DecodeDb(h \o FlattenSeq(ss)) = Ok(vals, Len(h \o FlattenSeq(ss)))
<1> DEFINE f == FlattenSeq(ss)
           b == h \o f
           turn == RecordTurn(b)
           k == Len(b)
<1>1. f \in Seq(Byte)
  BY FlattenType
<1>2. HeaderOk(b) /\ b \in Seq(Byte) /\ h \in Seq(Byte) /\ Len(h) = HeaderLen
  <2> HIDE DEF f
  <2> QED BY <1>1, HeaderAccepted DEF IsHeader
<1>3. Advances(turn, k)
  <2> HIDE DEF b
  <2> QED BY <1>2, RecordsAdvance DEF RecordTurn
<1>4. Len(vals) \in Nat /\ Len(vals) <= Len(ss)
  OBVIOUS
<1>5. b = h \o FlattenSeq(ss)
  OBVIOUS
<1> HIDE DEF b
<1>6. ASSUME NEW i \in 1 .. Len(vals)
      PROVE  /\ Len(ss[i]) > 0
             /\ \A pos \in Cursor(b) : Holds(b, pos, ss[i]) => turn[pos] = Ok(vals[i], pos + Len(ss[i]))
  <2>1. i \in 1 .. Len(ss)
    OBVIOUS
  <2>2. ASSUME NEW pos \in Cursor(b), Holds(b, pos, ss[i]) PROVE turn[pos] = Ok(vals[i], pos + Len(ss[i]))
    <3>1. pos \in Nat /\ turn[pos] = RecordAt(b, pos)
      BY DEF Cursor, RecordTurn
    <3>2. RecordAt(b, pos) = Ok(vals[i], pos + Len(ss[i]))
      BY <1>2, <2>1, <2>2, <3>1, Zenon
    <3> QED BY <3>1, <3>2, Zenon
  <2> QED BY <2>1, <2>2
<1> HIDE DEF turn
<1>7. Reads1(turn, h, ss, vals)
  BY <1>2, <1>4, <1>5, <1>6, HoldsReads, Zenon
<1>8. DecodeAll(turn, Len(h)) = Ok(vals, k)
  <2>1. k = Len(h \o FlattenSeq(ss))
    BY <1>5
  <2> HIDE DEF k
  <2> QED BY <1>2, <1>3, <1>7, <2>1, DecodeWhole
<1>9. DecodeDb(b) = Ok(vals, k)
  BY <1>2, <1>8, Zenon DEF DecodeDb, RecordTurn, turn
<1> QED BY <1>9 DEF b

\* A mix of the same is the same.
LEMMA MixSame ==
  ASSUME NEW x \in Seq(Byte), NEW m \in Nat
  PROVE  Mix(x, x, m) = x
<1>1. Len(x) = Len(x)
  OBVIOUS
<1>2. /\ Mix(x, x, m) \in Seq(Byte) /\ Len(Mix(x, x, m)) = Len(x)
      /\ \A i \in 1 .. Len(x) : Mix(x, x, m)[i] = IF i <= m THEN x[i] ELSE x[i]
  BY <1>1, MixType
<1> DEFINE z == Mix(x, x, m)
<1> HIDE DEF z
<1>3. z \in Seq(Byte) /\ Len(z) = Len(x) /\ \A i \in 1 .. Len(x) : z[i] = x[i]
  BY <1>2 DEF z
<1>4. z = x
  BY <1>3
<1> QED BY <1>4 DEF z

\* The record's bytes and the tombstone's, between the rest of the file.
LEMMA CoverIn ==
  ASSUME NEW d, NEW h, NEW s, DbIs(d, h, s), NEW i \in 1 .. Len(s), NEW t, Covered(t, s, i)
  PROVE  LET p == RecordPieces(s)
             y == Tombstone(Len(s[i].key), FieldSize(s[i].val))
         IN Overwrites(d, WriteAt(d, StartIn(s, i), y), h \o FlattenSeq(SubSeq(p, 1, i - 1)), p[i], y,
                       FlattenSeq(SubSeq(p, i + 1, Len(p))))
<1> DEFINE p == RecordPieces(s)
           y == Tombstone(Len(s[i].key), FieldSize(s[i].val))
           before == FlattenSeq(SubSeq(p, 1, i - 1))
           after == FlattenSeq(SubSeq(p, i + 1, Len(p)))
           x == p[i]
           u == h \o before
           new == WriteAt(d, StartIn(s, i), y)
<1>1. s \in Seq(R!Record) /\ IsHeader(h) /\ d = h \o FlattenSeq(p)
  BY DEF DbIs
<1>2. p \in Seq(Seq(Byte)) /\ Len(p) = Len(s) /\ Len(s) \in Nat /\ h \in Seq(Byte)
  BY RecordsStand
<1>3. RecordPieces(t) = [p EXCEPT ![i] = y]
  BY DEF Covered
<1>4. new = h \o FlattenSeq(RecordPieces(t))
  <2>1. DbIs(new, h, t)
    BY DbCover
  <2> HIDE DEF new
  <2> QED BY <2>1 DEF DbIs
<1>5. s[i] \in R!Record /\ x = RecordBytesOf(s[i])
  BY <1>1, RecordPiecesType
<1>6. x \in Seq(Byte) /\ Len(x) = RecordSize(s[i]) /\ RecordSize(s[i]) = RecordHead + Len(s[i].key) + FieldSize(s[i].val)
      /\ RecordSize(s[i]) > 0
  BY <1>5, RecordPiece
<1>7. y \in Seq(Byte) /\ Len(y) = Len(x)
  <2> DEFINE k == s[i].key
             f == s[i].val
  <2>1. k \in Keys /\ f \in Fields
    BY <1>5, RecordPiece
  <2>2. Len(k) \in Nat /\ Len(k) < Pow[W16] /\ FieldSize(f) \in Nat /\ FieldSize(f) < Pow[W32]
    BY <2>1, KeyFacts, FieldFacts
  <2>3. y \in Seq(Byte) /\ Len(y) = RecordHead + Len(k) + FieldSize(f)
    BY <2>2, TombstoneType
  <2> QED BY <1>6, <2>3
<1>8. i \in 1 .. Len(p)
  BY <1>2
<1> HIDE DEF p, y, x, new
<1>9. FlattenSeq(p) = (before \o x) \o after /\ before \in Seq(Byte) /\ after \in Seq(Byte)
  BY <1>2, <1>8, FlattenSplit, FlattenType DEF x
<1>10. FlattenSeq([p EXCEPT ![i] = y]) = (before \o y) \o after
  BY <1>2, <1>7, <1>8, FlattenReplace
<1> HIDE DEF before, after
<1>11. h \o ((before \o x) \o after) = (u \o x) \o after /\ h \o ((before \o y) \o after) = (u \o y) \o after
  <2>1. Regrouped(h, before, x, after) /\ Regrouped(h, before, y, after)
    BY <1>2, <1>6, <1>7, <1>9, Regroup, Zenon
  <2> QED BY <2>1, Zenon DEF Regrouped
<1>12. u \in Seq(Byte)
  BY <1>2, <1>9, ConcatBytes
<1> HIDE DEF u
<1>13. d = (u \o x) \o after /\ new = (u \o y) \o after
  BY <1>1, <1>3, <1>4, <1>9, <1>10, <1>11, Zenon
<1>14. Overwrites(d, new, u, x, y, after)
  BY <1>6, <1>7, <1>9, <1>12, <1>13 DEF Overwrites
<1> QED BY <1>14, Zenon DEF new, u, x, y, after, before, p

\* A torn tombstone that reads as one: the file has the covered record.
LEMMA DbTornDead ==
  ASSUME NEW h, IsHeader(h), NEW s \in Seq(R!Record), NEW i \in 1 .. Len(s), NEW t, Covered(t, s, i),
         NEW z \in Seq(Byte), Len(z) > 0, ReadsDead(z)
  PROVE  LET b == h \o FlattenSeq([RecordPieces(s) EXCEPT ![i] = z]) IN DecodeDb(b) = Ok(ShownOf(t), Len(b))
<1> DEFINE p == RecordPieces(s)
           ss == [p EXCEPT ![i] = z]
           v == ShownOf(t)
<1>1. p \in Seq(Seq(Byte)) /\ Len(p) = Len(s) /\ Len(s) \in Nat
      /\ \A j \in 1 .. Len(s) : s[j] \in R!Record /\ p[j] = RecordBytesOf(s[j])
  BY RecordPiecesType
<1> HIDE DEF p
<1>2. ss \in Seq(Seq(Byte)) /\ Len(ss) = Len(s) /\ ss[i] = z /\ \A j \in 1 .. Len(s) : j # i => ss[j] = p[j]
  <2> DEFINE B == Seq(Byte)
  <2>1. p \in Seq(B) /\ z \in B /\ i \in 1 .. Len(p)
    BY <1>1
  <2> HIDE DEF B
  <2>2. ss \in Seq(B) /\ Len(ss) = Len(p) /\ ss[i] = z /\ \A j \in 1 .. Len(p) : j # i => ss[j] = p[j]
    BY <2>1
  <2> QED BY <1>1, <2>2 DEF B
<1> HIDE DEF ss
<1>3. t \in Seq(R!Record) /\ Len(t) = Len(s) /\ t[i].live = FALSE /\ \A j \in 1 .. Len(s) : j # i => t[j] = s[j]
  BY DEF Covered
<1>4. v \in Seq(Items(t)) /\ Len(v) = Len(s) /\ \A j \in 1 .. Len(s) : v[j] = Shown(t[j])
  <2>1. v = [j \in 1 .. Len(t) |-> v[j]] /\ \A j \in 1 .. Len(t) : v[j] = Shown(t[j])
    BY DEF ShownOf
  <2> HIDE DEF v
  <2>2. v \in Seq({v[j] : j \in 1 .. Len(t)}) /\ Len(v) = Len(t)
    BY <1>1, <1>3, <2>1, Vals DEF IsTuple
  <2>3. {v[j] : j \in 1 .. Len(t)} = Items(t)
    BY DEF Items, v
  <2> QED BY <1>3, <2>1, <2>2, <2>3
<1> HIDE DEF v
<1>5. ASSUME NEW j \in 1 .. Len(ss)
      PROVE  /\ Len(ss[j]) > 0
             /\ \A b \in Seq(Byte), pos \in Nat :
                  HeaderOk(b) /\ Holds(b, pos, ss[j]) => RecordAt(b, pos) = Ok(v[j], pos + Len(ss[j]))
  <2>0. j \in 1 .. Len(s)
    BY <1>2
  <2>1. CASE j = i
    <3>1. v[j] = Dead /\ ss[j] = z
      BY <1>2, <1>3, <1>4, <2>0, <2>1 DEF Shown, Dead
    <3>2. \A b \in Seq(Byte), pos \in Nat : Holds(b, pos, z) => RecordAt(b, pos) = Ok(Dead, pos + Len(z))
      BY Zenon DEF ReadsDead
    <3> QED BY <3>1, <3>2, Zenon
  <2>2. CASE j # i
    <3> DEFINE r == s[j]
    <3>1. r \in R!Record /\ ss[j] = RecordBytesOf(r) /\ v[j] = Shown(r)
      BY <1>1, <1>2, <1>3, <1>4, <2>0, <2>2
    <3> HIDE DEF r
    <3>2. Len(ss[j]) = RecordSize(r) /\ RecordSize(r) > 0
      BY <3>1, RecordPiece
    <3>3. ASSUME NEW b \in Seq(Byte), NEW pos \in Nat, HeaderOk(b), Holds(b, pos, ss[j])
          PROVE  RecordAt(b, pos) = Ok(v[j], pos + Len(ss[j]))
      <4>1. Holds(b, pos, RecordBytesOf(r))
        BY <3>1, <3>3
      <4>2. RecordAt(b, pos) = Ok(Shown(r), pos + RecordSize(r))
        BY <3>1, <4>1, RecordReads DEF RecordRead
      <4> QED BY <3>1, <3>2, <4>2, Zenon
    <3> QED BY <3>2, <3>3
  <2> QED BY <2>1, <2>2
<1>6. Len(v) = Len(ss)
  BY <1>2, <1>4
<1>7. DecodeDb(h \o FlattenSeq(ss)) = Ok(v, Len(h \o FlattenSeq(ss)))
  BY <1>2, <1>4, <1>5, <1>6, DbReads
<1> QED BY <1>7, Zenon DEF ss, p, v

\* One that does not: the file ends there with an error.
LEMMA DbTornErr ==
  ASSUME NEW h, IsHeader(h), NEW s \in Seq(R!Record), NEW i \in 1 .. Len(s),
         NEW z \in Seq(Byte), Len(z) > 0, ReadsErr(z), NEW after \in Seq(Byte)
  PROVE  DecodeDb(((h \o FlattenSeq(SubSeq(RecordPieces(s), 1, i - 1))) \o z) \o after) = Err
<1> DEFINE p == RecordPieces(s)
           a == SubSeq(s, 1, i - 1)
           d == h \o FlattenSeq(RecordPieces(a))
           t == z \o after
           b == d \o t
<1>1. Len(s) \in Nat /\ i - 1 \in 0 .. Len(s) /\ \A j \in 1 .. Len(s) : s[j] \in R!Record
  OBVIOUS
<1>2. a \in Seq(R!Record) /\ Len(a) = i - 1 /\ \A j \in 1 .. i - 1 : a[j] = s[j]
  BY <1>1
<1>3. RecordPieces(a) = SubSeq(p, 1, i - 1)
  <2>1. p = [j \in 1 .. Len(s) |-> RecordBytesOf(s[j])]
    BY DEF RecordPieces
  <2>2. RecordPieces(a) = [j \in 1 .. i - 1 |-> RecordBytesOf(a[j])]
    <3> HIDE DEF a
    <3> QED BY <1>2 DEF RecordPieces
  <2>3. p \in Seq(Seq(Byte)) /\ Len(p) = Len(s)
    BY RecordPiecesType
  <2> HIDE DEF a, p
  <2>4. SubSeq(p, 1, i - 1) = [j \in 1 .. i - 1 |-> p[j]]
    <3> DEFINE B == Seq(Byte)
    <3>1. p \in Seq(B)
      BY <2>3
    <3> HIDE DEF B
    <3> QED BY <1>1, <2>3, <3>1
  <2>5. \A j \in 1 .. i - 1 : p[j] = RecordBytesOf(a[j])
    <3> TAKE j \in 1 .. i - 1
    <3>1. j \in 1 .. Len(s) /\ a[j] = s[j]
      BY <1>1, <1>2
    <3> QED BY <2>1, <3>1
  <2> QED BY <2>2, <2>4, <2>5
<1>4. d \in Seq(Byte)
  <2>1. RecordPieces(a) \in Seq(Seq(Byte)) /\ h \in Seq(Byte)
    <3> HIDE DEF a
    <3> QED BY <1>2, RecordPiecesType DEF IsHeader
  <2> DEFINE f == FlattenSeq(RecordPieces(a))
  <2>2. f \in Seq(Byte)
    <3> HIDE DEF a
    <3> QED BY <2>1, FlattenType
  <2> HIDE DEF f
  <2>3. h \o f \in Seq(Byte)
    BY <2>1, <2>2, ConcatBytes
  <2> QED BY <2>3 DEF f
<1> HIDE DEF a
<1>5. DbIs(d, h, a)
  BY <1>2 DEF DbIs
<1>6. t \in Seq(Byte) /\ Len(t) > 0
  <2>1. t \in Seq(Byte) /\ Len(t) = Len(z) + Len(after) /\ Len(z) \in Nat /\ Len(after) \in Nat
    BY ConcatBytes
  <2> HIDE DEF t
  <2> QED BY <2>1
<1>7. b = (d \o z) \o after
  <2> HIDE DEF d
  <2> QED BY <1>4, ConcatAssoc
<1>8. b \in Seq(Byte) /\ Len(d) \in Nat
  <2> HIDE DEF d, t
  <2> QED BY <1>4, <1>6, ConcatBytes
<1>9. Holds(b, Len(d), z)
  <2> HIDE DEF d, b
  <2> QED BY <1>4, <1>7, HoldsMiddle
<1>10. RecordAt(b, Len(d)) = Err
  <2> HIDE DEF d, b
  <2> QED BY <1>8, <1>9, Zenon DEF ReadsErr
<1>11. DbEndsWith(b, h, a, t)
  <2> HIDE DEF t
  <2> QED BY <1>2, <1>6 DEF DbEndsWith
<1> HIDE DEF b, t
<1>12. DecodeDb(b) = Err
  BY <1>6, <1>10, <1>11, DbTailFails
<1> QED BY <1>3, <1>7, <1>12, Zenon DEF d, p

\* A tombstone cut short is an error, or shows the records of before or after.
LEMMA DbTornCover ==
  ASSUME NEW d, NEW h, NEW s, DbIs(d, h, s), NEW i \in 1 .. Len(s), NEW t, Covered(t, s, i),
         NEW file \in PartlyWritten(d, WriteAt(d, StartIn(s, i), Tombstone(Len(s[i].key), FieldSize(s[i].val))))
  PROVE  FailsOrShows(file, {LiveItems(ShownOf(s)), LiveItems(ShownOf(t))})
<1> DEFINE p == RecordPieces(s)
           y == Tombstone(Len(s[i].key), FieldSize(s[i].val))
           before == FlattenSeq(SubSeq(p, 1, i - 1))
           after == FlattenSeq(SubSeq(p, i + 1, Len(p)))
           x == p[i]
           u == h \o before
           new == WriteAt(d, StartIn(s, i), y)
           r == s[i]
<1>1. Overwrites(d, new, u, x, y, after)
  BY CoverIn
<1>2. IsHeader(h) /\ s \in Seq(R!Record) /\ p \in Seq(Seq(Byte)) /\ Len(p) = Len(s) /\ h \in Seq(Byte)
  BY RecordsStand DEF DbIs
<1>3. r \in R!Record /\ x = RecordBytesOf(r) /\ r.key \in Keys /\ r.val \in Fields /\ r.live \in BOOLEAN
  <2>1. r \in R!Record /\ x = RecordBytesOf(r)
    BY <1>2, RecordPiecesType
  <2> HIDE DEF r
  <2> QED BY <2>1, RecordPiece
<1>4. y = Tombstone(Len(r.key), FieldSize(r.val)) /\ file \in PartlyWritten(d, new) /\ before \in Seq(Byte)
      /\ u = h \o before
  <2>1. before \in Seq(Byte)
    <3>1. SubSeq(p, 1, i - 1) \in Seq(Seq(Byte))
      <4>1. i \in 1 .. Len(p)
        BY <1>2
      <4> HIDE DEF p
      <4> QED BY <1>2, <4>1, FlattenSplit
    <3> HIDE DEF p
    <3> QED BY <3>1, FlattenType
  <2> QED BY <2>1
<1> HIDE DEF new, y, x, u, r, before, after
<1>5. /\ u \in Seq(Byte) /\ x \in Seq(Byte) /\ y \in Seq(Byte) /\ after \in Seq(Byte) /\ Len(x) = Len(y)
      /\ Len(x) > 0 /\ d = (u \o x) \o after /\ new = (u \o y) \o after
  BY <1>1 DEF Overwrites
<1>6. PICK m \in Nat : file = (u \o Mix(x, y, m)) \o after /\ Mix(x, y, m) # x
  <2>1. \E m \in Nat : Mixed(file, u, x, y, after, m)
    BY <1>1, <1>4, PartlyReplaced
  <2> QED BY <2>1 DEF Mixed
<1>7. r.live = TRUE
  <2> SUFFICES ASSUME r.live = FALSE PROVE FALSE
    BY <1>3
  <2>1. x = y
    BY <1>3, <1>4 DEF RecordBytesOf
  <2>2. Mix(x, x, m) = x
    BY <1>5, MixSame
  <2> QED BY <1>6, <2>1, <2>2
<1> DEFINE z == Mix(x, y, m)
<1>8. z \in Seq(Byte) /\ Len(z) > 0
  <2>1. z \in Seq(Byte) /\ Len(z) = Len(x)
    BY <1>5, MixType
  <2> QED BY <1>5, <2>1
<1>9. ReadsErr(z) \/ ReadsDead(z)
  <2> DEFINE k == r.key
             f == r.val
             xx == Encode(k, f)
             yy == Tombstone(Len(k), FieldSize(f))
  <2>1. k \in Keys /\ f \in Fields /\ x = xx /\ y = yy
    BY <1>3, <1>4, <1>7 DEF RecordBytesOf
  <2>2. Mix(xx, yy, m) # xx
    BY <1>6, <2>1
  <2> HIDE DEF k, f
  <2>3. ReadsErr(Mix(xx, yy, m)) \/ ReadsDead(Mix(xx, yy, m))
    BY <2>1, <2>2, TornTombstone
  <2> QED BY <2>1, <2>3, Zenon
<1>a. file = (u \o z) \o after
  BY <1>6
<1> HIDE DEF z
<1>10. ASSUME ReadsDead(z) PROVE FailsOrShows(file, {LiveItems(ShownOf(s)), LiveItems(ShownOf(t))})
  <2> DEFINE f == FlattenSeq([p EXCEPT ![i] = z])
             b == h \o f
  <2>1. DecodeDb(b) = Ok(ShownOf(t), Len(b))
    BY <1>2, <1>8, <1>10, DbTornDead
  <2>2. f = (before \o z) \o after
    <3>1. i \in 1 .. Len(p)
      BY <1>2
    <3> HIDE DEF p
    <3> QED BY <1>2, <1>8, <3>1, FlattenReplace DEF before, after
  <2> HIDE DEF f
  <2>3. b = file
    <3>1. Regrouped(h, before, z, after)
      BY <1>2, <1>4, <1>5, <1>8, Regroup, Zenon
    <3> QED BY <1>4, <1>a, <2>2, <3>1, Zenon DEF Regrouped
  <2> HIDE DEF b
  <2>4. DecodeDb(file).out = "ok" /\ DecodeDb(file).val = ShownOf(t)
    BY <2>1, <2>3, OkFields
  <2> QED BY <2>4 DEF FailsOrShows
<1>11. ASSUME ReadsErr(z) PROVE FailsOrShows(file, {LiveItems(ShownOf(s)), LiveItems(ShownOf(t))})
  <2>1. DecodeDb((u \o z) \o after) = Err
    BY <1>2, <1>4, <1>5, <1>8, <1>11, DbTornErr DEF before, u
  <2>2. DecodeDb(file) = Err
    BY <1>a, <2>1, Zenon
  <2> QED BY <2>2 DEF FailsOrShows
<1> QED BY <1>9, <1>10, <1>11

\* So does a record count cut short, whatever number it spells.
LEMMA DbTornCount ==
  ASSUME NEW d, NEW m \in Nat, NEW s, DbIs(d, Header(m), s), NEW n \in Nat,
         NEW file \in PartlyWritten(d, WriteAt(d, RecordCountOffset, LE(n, W64)))
  PROVE  FailsOrShows(file, {LiveItems(ShownOf(s))})
<1> DEFINE b == BeforeCount
           x == LE(m, W64)
           y == LE(n, W64)
           a == AfterCount
           f == FlattenSeq(RecordPieces(s))
           c == a \o f
           new == WriteAt(d, RecordCountOffset, y)
<1>1. b \in Seq(Byte) /\ Len(b) = RecordCountOffset
  BY BeforeCountType
<1>2. x \in Seq(Byte) /\ y \in Seq(Byte) /\ Len(x) = W64 /\ Len(y) = W64
  BY LEType, Widths
<1>3. a \in Seq(Byte)
  <2> HIDE DEF x
  <2> QED BY <1>2, HeaderParts
<1>4. f \in Seq(Byte)
  <2>1. RecordPieces(s) \in Seq(Seq(Byte))
    BY RecordsStand
  <2> QED BY <2>1, FlattenType
<1>5. Header(m) = (b \o x) \o a /\ Header(n) = (b \o y) \o a
  BY HeaderFacts
<1>6. d = Header(m) \o f /\ s \in Seq(R!Record)
  BY DEF DbIs
<1>7. new = Header(n) \o f
  <2>1. DbIs(new, Header(n), s)
    BY DbCount
  <2> HIDE DEF new
  <2> QED BY <2>1 DEF DbIs
<1>8. file \in PartlyWritten(d, new)
  OBVIOUS
<1> HIDE DEF new, x, y, a, b, f
<1>9. c \in Seq(Byte)
  BY <1>3, <1>4, ConcatBytes
<1>10. ASSUME NEW z \in Seq(Byte) PROVE ((b \o z) \o a) \o f = (b \o z) \o c
  <2> DEFINE bz == b \o z
  <2>1. bz \in Seq(Byte)
    BY <1>1, ConcatBytes
  <2> HIDE DEF bz
  <2>2. (bz \o a) \o f = bz \o (a \o f)
    BY <1>3, <1>4, <2>1, ConcatAssoc
  <2> QED BY <2>2 DEF bz
<1> HIDE DEF c
<1>11. d = (b \o x) \o c /\ new = (b \o y) \o c
  BY <1>2, <1>5, <1>6, <1>7, <1>10
<1>12. PICK j \in Nat : file = (b \o Mix(x, y, j)) \o c
  <2>1. Len(x) = Len(y) /\ Len(x) > 0
    BY <1>2, Widths
  <2>2. Overwrites(d, new, b, x, y, c)
    BY <1>1, <1>2, <1>9, <1>11, <2>1 DEF Overwrites
  <2>3. \E j \in Nat : Mixed(file, b, x, y, c, j)
    BY <1>8, <2>2, PartlyReplaced
  <2> QED BY <2>3 DEF Mixed
<1> DEFINE z == Mix(x, y, j)
           h == (b \o z) \o a
<1>13. z \in Seq(Byte) /\ Len(z) = W64
  BY <1>2, MixType
<1>14. file = (b \o z) \o c
  BY <1>12
<1> HIDE DEF z
<1>15. IsHeader(h)
  BY <1>13, HeaderParts DEF a, b
<1>16. file = h \o f
  BY <1>10, <1>13, <1>14
<1> HIDE DEF h
<1>17. DbIs(file, h, s)
  BY <1>6, <1>15, <1>16 DEF DbIs, f
<1>18. DecodeDb(file) = Ok(ShownOf(s), Len(file))
  BY <1>17, DbDecodes DEF ShownOf
<1>19. DecodeDb(file).out = "ok" /\ DecodeDb(file).val = ShownOf(s)
  BY <1>18, OkFields
<1> QED BY <1>19 DEF FailsOrShows

\* A part of the header is no header, and zeros in its place show no record.
LEMMA DbTornHeader ==
  LET h == Header(0)
  IN /\ \A file \in PartlyWritten(<<>>, h) : DecodeDb(file) = Err
     /\ \A file \in Unwritten(<<>>, h) : FailsOrShows(file, {LiveItems(ShownOf(<<>>))})
<1> DEFINE h == Header(0)
<1>1. h \in Seq(Byte) /\ Len(h) = HeaderLen /\ HeaderLen \in Nat
  BY HeaderFacts, HeaderLenType DEF IsHeader
<1> HIDE DEF h
<1>2. ASSUME NEW file \in PartlyWritten(<<>>, h) PROVE DecodeDb(file) = Err
  <2>1. <<>> \in Seq(Byte) /\ <<>> \o h = h
    BY <1>1
  <2> DEFINE d == <<>>
  <2>2. d \in Seq(Byte) /\ file \in PartlyWritten(d, d \o h) /\ Len(d) = 0
    BY <2>1
  <2> HIDE DEF d
  <2>3. PICK m \in 1 .. Len(h) - 1 : file = d \o SubSeq(h, 1, m)
    BY <1>1, <2>2, PartlyAppended
  <2> DEFINE t == SubSeq(h, 1, m)
  <2>4. t \in Seq(Byte) /\ Len(t) = m /\ m < HeaderLen /\ m \in Nat
    BY <1>1
  <2> HIDE DEF t
  <2>5. Len(file) = m
    BY <2>2, <2>3, <2>4, ConcatBytes DEF t
  <2>6. ~ HeaderOk(file)
    BY <1>1, <2>4, <2>5 DEF HeaderOk
  <2> QED BY <2>6, Zenon DEF DecodeDb
<1>3. ASSUME NEW file \in Unwritten(<<>>, h) PROVE FailsOrShows(file, {LiveItems(ShownOf(<<>>))})
  <2>1. PICK n \in 1 .. HeaderLen : file = <<>> \o Zeros(n)
    <3> DEFINE d == <<>>
    <3>1. Len(h) - Len(d) = HeaderLen
      BY <1>1
    <3>2. file \in {d \o Zeros(n) : n \in 1 .. Len(h) - Len(d)}
      BY DEF Unwritten
    <3> HIDE DEF d
    <3>3. \E n \in 1 .. HeaderLen : file = d \o Zeros(n)
      BY <3>1, <3>2
    <3> QED BY <3>3 DEF d
  <2>2. n \in Nat /\ Zeros(n) \in Seq(Byte) /\ Len(Zeros(n)) = n
    <3>1. n \in Nat
      BY <1>1
    <3> QED BY <3>1, HeadType, Zenon
  <2>3. file \in Seq(Byte) /\ Len(file) = n
    <3> DEFINE z == Zeros(n)
    <3>1. z \in Seq(Byte) /\ Len(z) = n /\ file = <<>> \o z
      BY <2>1, <2>2
    <3> HIDE DEF z
    <3> QED BY <3>1
  <2>4. CASE ~ HeaderOk(file)
    <3>1. DecodeDb(file) = Err
      BY <2>4, Zenon DEF DecodeDb
    <3> QED BY <3>1 DEF FailsOrShows
  <2>5. CASE HeaderOk(file)
    <3>1. Len(file) = HeaderLen
      BY <1>1, <2>1, <2>2, <2>3, <2>5 DEF HeaderOk
    <3> DEFINE turn == RecordTurn(file)
               k == HeaderLen
    <3>2. Advances(turn, k)
      BY <2>3, <3>1, RecordsAdvance DEF RecordTurn
    <3>3. DecodeDb(file) = DecodeAll(turn, k)
      BY <2>5, Zenon DEF DecodeDb, RecordTurn
    <3> HIDE DEF turn, k
    <3>4. DecodeAll(turn, k) = Ok(<<>>, k)
      BY <1>1, <3>2, DecodeAllEnd DEF k
    <3>5. DecodeDb(file).out = "ok" /\ DecodeDb(file).val = <<>>
      BY <3>3, <3>4, OkFields
    <3>6. ShownOf(<<>>) = <<>>
      BY DEF ShownOf
    <3> QED BY <3>5, <3>6 DEF FailsOrShows
  <2> QED BY <2>4, <2>5
<1> QED BY <1>2, <1>3 DEF h

\* Zeros in the place of a record that was to follow.
LEMMA DbUnwritten ==
  ASSUME NEW d, NEW h, NEW s, DbIs(d, h, s), NEW new, NEW file \in Unwritten(d, new), Len(new) \in Nat
  PROVE  FailsOrShows(file, {LiveItems(ShownOf(s))})
<1>1. d \in Seq(Byte) /\ d = h \o FlattenSeq(RecordPieces(s)) /\ IsHeader(h) /\ s \in Seq(R!Record)
  BY RecordsStand DEF DbIs
<1>2. Len(d) \in Nat
  BY <1>1
<1>3. PICK n \in 1 .. Len(new) - Len(d) : file = d \o Zeros(n)
  BY DEF Unwritten
<1>4. n \in Nat
  BY <1>2, <1>3
<1>5. Zeros(n) \in Seq(Byte)
  BY <1>4, HeadType
<1>6. DbEndsWith(file, h, s, Zeros(n))
  BY <1>1, <1>3, <1>5, Zenon DEF DbEndsWith
<1> QED BY <1>4, <1>6, DbZeros

-----------------------------------------------------------------------------
(***************************************************************************)
(* An entry of the log that was cut short.                                 *)
(***************************************************************************)

\* WalDecoder reads an entry wherever it stands.
LEMMA EntryReads ==
  ASSUME NEW e \in R!WalEntry
  PROVE  LET x == EncodeEntry([key |-> e.key, field |-> e.val])
         IN /\ x \in Seq(Byte) /\ Len(x) > 0
            /\ \A b \in Seq(Byte), pos \in Nat :
                 Holds(b, pos, x) => EntryAt(b, pos) = Ok([key |-> e.key, field |-> e.val], pos + Len(x))
<1> DEFINE k == e.key
           f == e.val
           v == [key |-> k, field |-> f]
           x == EncodeEntry(v)
<1>1. EntryHolds(k, f)
  <2> DEFINE s == <<e>>
  <2>1. s \in Seq(R!WalEntry) /\ 1 \in 1 .. Len(s) /\ s[1] = e
    OBVIOUS
  <2> HIDE DEF s
  <2>2. EntryHolds(s[1].key, s[1].val)
    BY <2>1, EntryPiecesType
  <2> QED BY <2>1, <2>2
<1>2. k \in Keys /\ f \in Fields \cup {None}
  BY DEF R!WalEntry
<1>3. EntrySize(k, f) > 0
  <2>1. Len(k) \in Nat
    BY <1>2, KeyFacts
  <2>2. f # NoFieldEntry => FieldSize(f) \in Nat
    BY <1>2, FieldFacts DEF None
  <2>3. EntrySize(k, f) = 1 + W16 + Len(k) + (IF f = NoFieldEntry THEN 0 ELSE W32 + FieldSize(f))
    BY DEF EntrySize, FieldSize
  <2> HIDE DEF k, f
  <2> QED BY <2>1, <2>2, <2>3, Widths
<1> HIDE DEF k, f
<1>4. /\ x \in Seq(Byte) /\ Len(x) = EntrySize(k, f)
      /\ \A b \in Seq(Byte), pos \in Nat : Holds(b, pos, x) => EntryAt(b, pos) = Ok(v, pos + EntrySize(k, f))
  BY <1>1, Zenon DEF EntryHolds
<1> QED BY <1>3, <1>4, Zenon DEF k, f

\* A log that ends with what is no entry is refused.
LEMMA WalTailFails ==
  ASSUME NEW s \in Seq(R!WalEntry), NEW w, w = FlattenSeq(EntryPieces(s)), NEW t \in Seq(Byte), Len(t) > 0,
         EntryAt(w \o t, Len(w)) = Err
  PROVE  DecodeWal(w \o t) = Err
<1> DEFINE ss == EntryPieces(s)
           v == [i \in 1 .. Len(s) |-> [key |-> s[i].key, field |-> s[i].val]]
           V == {v[i] : i \in 1 .. Len(s)}
           b == w \o t
           turn == [pos \in Cursor(b) |-> EntryAt(b, pos)]
           pre == <<>>
<1>1. /\ ss \in Seq(Seq(Byte)) /\ Len(ss) = Len(s) /\ Len(s) \in Nat
      /\ \A i \in 1 .. Len(s) : ss[i] = EncodeEntry([key |-> s[i].key, field |-> s[i].val])
  BY EntryPiecesType
<1>2. \A i \in 1 .. Len(s) : s[i] \in R!WalEntry
  OBVIOUS
<1>3. w = FlattenSeq(ss)
  OBVIOUS
<1> HIDE DEF ss
<1>4. w \in Seq(Byte)
  BY <1>1, <1>3, FlattenType
<1>5. b \in Seq(Byte) /\ Len(b) = Len(w) + Len(t) /\ Len(w) \in Nat /\ Len(t) \in Nat
  BY <1>4, ConcatBytes
<1>6. pre \in Seq(Byte) /\ pre \o FlattenSeq(ss) = w /\ Len(pre) = 0
  <2>1. <<>> \o w = w
    BY <1>4
  <2> QED BY <1>3, <2>1
<1> HIDE DEF b, pre
<1>7. Advances(turn, Len(b))
  BY <1>5, EntriesAdvance
<1>8. \A pos \in Cursor(b) : turn[pos] = EntryAt(b, pos) /\ pos \in Nat
  BY DEF Cursor
<1>9. turn[Len(w)] = Err
  <2>1. Len(w) \in Cursor(b)
    BY <1>5 DEF Cursor
  <2>2. EntryAt(b, Len(w)) = Err
    BY DEF b
  <2> QED BY <1>8, <2>1, <2>2
<1>10. DecodeWal(b) = DecodeAll(turn, 0)
  BY DEF DecodeWal
<1> HIDE DEF turn
<1>11. v = [i \in 1 .. Len(s) |-> v[i]] /\ \A i \in 1 .. Len(s) : v[i] = [key |-> s[i].key, field |-> s[i].val]
  OBVIOUS
<1> HIDE DEF v, V
<1>12. v \in Seq(V) /\ Len(v) = Len(s)
  BY <1>1, <1>11, Vals DEF IsTuple, V
<1>13. ASSUME NEW i \in 1 .. Len(v)
       PROVE  /\ Len(ss[i]) > 0
              /\ \A pos \in Cursor(b) : Holds(b, pos, ss[i]) => turn[pos] = Ok(v[i], pos + Len(ss[i]))
  <2> DEFINE e == s[i]
             x == EncodeEntry([key |-> e.key, field |-> e.val])
  <2>1. e \in R!WalEntry /\ ss[i] = x /\ v[i] = [key |-> e.key, field |-> e.val]
    BY <1>1, <1>2, <1>11, <1>12
  <2> HIDE DEF e
  <2>2. /\ Len(x) > 0
        /\ \A pos \in Nat : Holds(b, pos, x) => EntryAt(b, pos) = Ok([key |-> e.key, field |-> e.val], pos + Len(x))
    BY <1>5, <2>1, EntryReads, Zenon
  <2> HIDE DEF x
  <2> QED BY <1>8, <2>1, <2>2, Zenon
<1>14. b = (pre \o FlattenSeq(ss)) \o t
  BY <1>6 DEF b
<1>15. EndsWith(b, turn, pre, ss, v, t)
  BY <1>1, <1>7, <1>12, <1>13, <1>14, Zenon DEF EndsWith
<1>16. turn[Len(pre \o FlattenSeq(ss))] = Err
  BY <1>6, <1>9
<1>17. DecodeAll(turn, Len(pre)) = Err
  BY <1>1, <1>6, <1>12, <1>15, <1>16, TailFails
<1> QED BY <1>6, <1>10, <1>17 DEF b

\* The parts of an entry in their places.
EntryLies(x, c, kl) == Holds(x, 0, <<c>>) /\ Holds(x, 1, LE(kl, W16))

\* A Delete has a tag and a key.
LEMMA DeleteParts ==
  ASSUME NEW k \in Seq(Byte), Len(k) < Pow[W16]
  PROVE  LET x == EncodeEntry([key |-> k, field |-> NoFieldEntry])
         IN x \in Seq(Byte) /\ Len(x) = 1 + W16 + Len(k) /\ EntryLies(x, 2, Len(k))
<1> DEFINE e == [key |-> k, field |-> NoFieldEntry]
           x == EncodeEntry(e)
           l == LE(Len(k), W16)
           K == l \o k
<1>1. x = <<2>> \o K
  BY DEF EncodeEntry, EncodeKeyLE
<1>2. <<2>> \in Seq(Byte) /\ Len(<<2>>) = 1 /\ Len(k) \in Nat
  BY SmallBytes
<1>3. l \in Seq(Byte) /\ Len(l) = W16
  BY <1>2, LEType, Widths
<1>4. EntryHolds(k, NoFieldEntry)
  BY DeleteEntry
<1>5. x \in Seq(Byte) /\ Len(x) = 1 + W16 + Len(k)
  <2>1. x \in Seq(Byte) /\ Len(x) = EntrySize(k, NoFieldEntry)
    BY <1>4, Zenon DEF EntryHolds
  <2> QED BY <1>2, <2>1, Widths DEF EntrySize
<1> HIDE DEF x, l
<1>6. K \in Seq(Byte)
  BY <1>3, ConcatBytes
<1> HIDE DEF K
<1>7. Holds(x, 0, x)
  BY <1>5, HoldsWhole
<1>8. Holds(x, 0, <<2>>) /\ Holds(x, 0 + 1, K)
  BY <1>1, <1>2, <1>5, <1>6, <1>7, HoldsConcat
<1>9. 0 + 1 = 1 /\ 1 \in Nat
  OBVIOUS
<1>10. Holds(x, 1, l)
  BY <1>3, <1>5, <1>8, <1>9, HoldsConcat DEF K
<1> QED BY <1>5, <1>8, <1>10 DEF EntryLies, x, l

\* A Set has a tag, a key and a field.
LEMMA SetParts ==
  ASSUME NEW k \in Seq(Byte), Len(k) < Pow[W16], NEW f, IsField(f), Len(BytesFromField(f)) < Pow[W32]
  PROVE  LET x == EncodeEntry([key |-> k, field |-> f])
             fl == Len(BytesFromField(f))
         IN /\ x \in Seq(Byte) /\ Len(x) = 1 + W16 + Len(k) + W32 + fl /\ fl \in Nat
            /\ EntryLies(x, 1, Len(k)) /\ Holds(x, 1 + W16 + Len(k), LE(fl, W32))
<1> DEFINE e == [key |-> k, field |-> f]
           x == EncodeEntry(e)
           p == BytesFromField(f)
           fl == Len(p)
           l == LE(Len(k), W16)
           n == LE(fl, W32)
           K == l \o k
           a == <<1>> \o K
           an == a \o n
<1>1. x = an \o p
  <2>1. e.key = k /\ e.field = f /\ f # NoFieldEntry
    BY FieldIsNoMark
  <2> HIDE DEF e
  <2> QED BY <2>1, Zenon DEF EncodeEntry, EncodeKeyLE
<1>2. p \in Seq(Byte)
  BY FieldBytesType
<1>3. fl \in Nat /\ Len(k) \in Nat
  <2> HIDE DEF p
  <2> QED BY <1>2
<1>4. l \in Seq(Byte) /\ Len(l) = W16 /\ n \in Seq(Byte)
  <2> HIDE DEF fl
  <2> QED BY <1>3, LEType, Widths
<1>5. <<1>> \in Seq(Byte) /\ Len(<<1>>) = 1
  BY SmallBytes
<1>6. x \in Seq(Byte) /\ Len(x) = 1 + W16 + Len(k) + W32 + fl
  <2>1. EntryHolds(k, f)
    BY SetEntry
  <2>2. x \in Seq(Byte) /\ Len(x) = EntrySize(k, f)
    BY <2>1, Zenon DEF EntryHolds
  <2>3. EntrySize(k, f) = 1 + W16 + Len(k) + (W32 + fl)
    BY FieldIsNoMark, Zenon DEF EntrySize
  <2> HIDE DEF x, fl
  <2> QED BY <1>3, <2>2, <2>3, Widths
<1> HIDE DEF x, l, n, p, fl
<1>7. K \in Seq(Byte) /\ Len(K) = W16 + Len(k)
  BY <1>4, ConcatBytes
<1> HIDE DEF K
<1>8. a \in Seq(Byte) /\ Len(a) = 1 + W16 + Len(k)
  <2>1. a \in Seq(Byte) /\ Len(a) = Len(<<1>>) + Len(K)
    BY <1>5, <1>7, ConcatBytes
  <2> HIDE DEF a
  <2> QED BY <1>3, <1>5, <1>7, <2>1, Widths
<1> HIDE DEF a
<1>9. an \in Seq(Byte)
  BY <1>4, <1>8, ConcatBytes
<1> HIDE DEF an
<1>10. Holds(x, 0, an)
  <2>1. Holds(x, 0, x)
    BY <1>6, HoldsWhole
  <2> QED BY <1>1, <1>2, <1>6, <1>9, <2>1, HoldsConcat
<1>11. Holds(x, 0, a) /\ Holds(x, 0 + Len(a), n)
  BY <1>4, <1>6, <1>8, <1>10, HoldsConcat DEF an
<1>12. Holds(x, 0, <<1>>) /\ Holds(x, 0 + 1, K)
  BY <1>5, <1>6, <1>7, <1>11, HoldsConcat DEF a
<1>13. 0 + 1 = 1 /\ 1 \in Nat /\ 0 + Len(a) = 1 + W16 + Len(k)
  BY <1>3, <1>8, Widths
<1>14. Holds(x, 1, l)
  BY <1>4, <1>6, <1>12, <1>13, HoldsConcat DEF K
<1> QED BY <1>3, <1>6, <1>11, <1>12, <1>13, <1>14, Zenon DEF EntryLies, x, l, n, fl, p

\* What is there of an entry of which m bytes were written behind d: its tag,
\* and its key's length if it goes that far.
LEMMA EntryCut ==
  ASSUME NEW d \in Seq(Byte), NEW x \in Seq(Byte), NEW c \in Byte, NEW kl \in Nat, kl < Pow[W16],
         EntryLies(x, c, kl), NEW m \in 1 .. Len(x) - 1
  PROVE  LET b == d \o SubSeq(x, 1, m)
             pos == Len(d)
         IN /\ b \in Seq(Byte) /\ Len(b) = pos + m /\ pos \in Nat /\ m \in Nat /\ b[pos + 1] = c
            /\ 1 + W16 <= m => UnLE(Slice(b, pos + 1, W16)) = kl
<1> DEFINE t == SubSeq(x, 1, m)
           b == d \o t
           pos == Len(d)
           l == LE(kl, W16)
<1>1. Len(x) \in Nat /\ m \in Nat /\ 1 <= m /\ m <= Len(x) /\ pos \in Nat
  OBVIOUS
<1>2. t \in Seq(Byte) /\ Len(t) = m
  BY <1>1
<1>3. <<c>> \in Seq(Byte) /\ Len(<<c>>) = 1 /\ l \in Seq(Byte) /\ Len(l) = W16
  BY LEType, Widths
<1>4. Holds(x, 0, <<c>>) /\ Holds(x, 1, l)
  BY DEF EntryLies
<1> HIDE DEF l
<1>5. Holds(d \o SubSeq(x, 1, m), pos + 0, <<c>>)
  <2>1. 0 \in Nat /\ 0 + Len(<<c>>) <= m
    BY <1>1, <1>3
  <2> QED BY <1>1, <1>3, <1>4, <2>1, CutHolds
<1>6. ASSUME 1 + W16 <= m PROVE Holds(d \o SubSeq(x, 1, m), pos + 1, l)
  <2>1. 1 \in Nat /\ 1 + Len(l) <= m
    BY <1>3, <1>6
  <2> QED BY <1>1, <1>3, <1>4, <2>1, CutHolds
<1> HIDE DEF t
<1>7. b \in Seq(Byte) /\ Len(b) = pos + m
  BY <1>2, ConcatBytes
<1>8. Holds(b, pos, <<c>>)
  <2>1. pos + 0 = pos
    BY <1>1
  <2> QED BY <1>5, <2>1, Zenon DEF t
<1>9. 1 + W16 <= m => Holds(b, pos + 1, l)
  BY <1>6, Zenon DEF t
<1> HIDE DEF b, pos
<1>10. b[pos + 1] = c
  <2>1. \A i \in 1 .. 1 : b[pos + i] = <<c>>[i]
    BY <1>3, <1>8, Zenon DEF Holds
  <2> QED BY <2>1
<1>11. 1 + W16 <= m => UnLE(Slice(b, pos + 1, W16)) = kl
  <2>1. pos + 1 \in Nat
    BY <1>1
  <2> QED BY <1>7, <1>9, <2>1, HoldsLE, Widths DEF l
<1> QED BY <1>1, <1>7, <1>10, <1>11, Zenon DEF b, t, pos

\* A part of a Delete is no entry.
LEMMA TornDelete ==
  ASSUME NEW d \in Seq(Byte), NEW k \in Keys, NEW x, x = EncodeEntry([key |-> k, field |-> NoFieldEntry]),
         NEW m \in 1 .. Len(x) - 1
  PROVE  EntryAt(d \o SubSeq(x, 1, m), Len(d)) = Err
<1> DEFINE b == d \o SubSeq(x, 1, m)
           pos == Len(d)
           kl == Len(k)
<1>1. k \in Seq(Byte) /\ kl \in Nat /\ kl < Pow[W16]
  BY KeyFacts
<1>2. x \in Seq(Byte) /\ Len(x) = 1 + W16 + kl /\ EntryLies(x, 2, kl)
  BY <1>1, DeleteParts
<1>3. 2 \in Byte
  BY SmallBytes
<1> HIDE DEF kl
<1>4. /\ b \in Seq(Byte) /\ Len(b) = pos + m /\ pos \in Nat /\ m \in Nat /\ b[pos + 1] = 2
      /\ 1 + W16 <= m => UnLE(Slice(b, pos + 1, W16)) = kl
  BY <1>1, <1>2, <1>3, EntryCut
<1>5. m < 1 + W16 + kl
  <2>1. m < Len(x)
    BY <1>2, <1>4
  <2> QED BY <1>2, <2>1
<1> HIDE DEF b, pos
<1>6. CASE Len(b) < pos + 1 + W16
  <2>1. EntryAt(b, pos) = Err
    BY <1>6, Zenon DEF EntryAt
  <2> QED BY <2>1 DEF b, pos
<1>7. CASE ~ (Len(b) < pos + 1 + W16)
  <2>1. UnLE(Slice(b, pos + 1, W16)) = kl
    BY <1>4, <1>7, Widths
  <2>2. Len(b) < pos + 1 + W16 + kl
    BY <1>1, <1>4, <1>5, Widths
  <2>3. EntryAt(b, pos) = Err
    BY <2>1, <2>2, Zenon DEF EntryAt
  <2> QED BY <2>3 DEF b, pos
<1> QED BY <1>6, <1>7

\* Nor is a part of a Set.
LEMMA TornSet ==
  ASSUME NEW d \in Seq(Byte), NEW k \in Keys, NEW f \in Fields, NEW x, x = EncodeEntry([key |-> k, field |-> f]),
         NEW m \in 1 .. Len(x) - 1
  PROVE  EntryAt(d \o SubSeq(x, 1, m), Len(d)) = Err
<1> DEFINE b == d \o SubSeq(x, 1, m)
           pos == Len(d)
           kl == Len(k)
           fl == Len(BytesFromField(f))
           n == LE(fl, W32)
           at == 1 + W16 + kl
<1>1. k \in Seq(Byte) /\ kl \in Nat /\ kl < Pow[W16] /\ IsField(f) /\ fl < Pow[W32]
  BY KeyFacts, FieldFacts DEF FieldSize
<1>2. x \in Seq(Byte) /\ Len(x) = 1 + W16 + kl + W32 + fl /\ fl \in Nat /\ EntryLies(x, 1, kl) /\ Holds(x, at, n)
  BY <1>1, SetParts
<1>3. 1 \in Byte
  BY SmallBytes
<1> HIDE DEF kl, fl
<1>4. /\ b \in Seq(Byte) /\ Len(b) = pos + m /\ pos \in Nat /\ m \in Nat /\ b[pos + 1] = 1
      /\ 1 + W16 <= m => UnLE(Slice(b, pos + 1, W16)) = kl
  BY <1>1, <1>2, <1>3, EntryCut
<1>5. m < 1 + W16 + kl + W32 + fl /\ m <= Len(x)
  <2>1. m < Len(x) /\ m <= Len(x)
    BY <1>2, <1>4
  <2> QED BY <1>2, <2>1
<1>6. n \in Seq(Byte) /\ Len(n) = W32 /\ at \in Nat
  <2>1. n \in Seq(Byte) /\ Len(n) = W32
    BY <1>2, LEType, Widths
  <2>2. at \in Nat
    BY <1>1, Widths
  <2> QED BY <2>1, <2>2
<1> HIDE DEF n
<1>7. at + W32 <= m => Holds(b, pos + at, n)
  <2> SUFFICES ASSUME at + W32 <= m PROVE Holds(b, pos + at, n)
    OBVIOUS
  <2>1. at + Len(n) <= m
    BY <1>6
  <2> HIDE DEF at
  <2> QED BY <1>2, <1>4, <1>5, <1>6, <2>1, CutHolds
<1> HIDE DEF b, pos
<1> DEFINE mid == pos + 1 + W16 + kl
<1>8. mid = pos + at /\ mid \in Nat
  BY <1>1, <1>4, Widths
<1>9. CASE Len(b) < pos + 1 + W16
  <2>1. EntryAt(b, pos) = Err
    BY <1>9, Zenon DEF EntryAt
  <2> QED BY <2>1 DEF b, pos
<1>10. CASE ~ (Len(b) < pos + 1 + W16)
  <2>1. UnLE(Slice(b, pos + 1, W16)) = kl
    BY <1>4, <1>10, Widths
  <2>2. CASE Len(b) < mid + W32
    <3>1. 1 # 2
      OBVIOUS
    <3>2. EntryAt(b, pos) = Err
      BY <1>4, <2>1, <2>2, <3>1, Zenon DEF EntryAt
    <3> QED BY <3>2 DEF b, pos
  <2>3. CASE ~ (Len(b) < mid + W32)
    <3>1. at + W32 <= m
      <4> HIDE DEF mid, at
      <4> QED BY <1>4, <1>6, <1>8, <2>3, Widths
    <3>2. Holds(b, mid, n)
      BY <1>7, <1>8, <3>1
    <3>3. UnLE(Slice(b, mid, W32)) = fl
      <4> HIDE DEF mid
      <4> QED BY <1>1, <1>2, <1>4, <1>8, <3>2, HoldsLE, Widths DEF n
    <3>4. Len(b) < mid + W32 + fl
      BY <1>1, <1>2, <1>4, <1>5, Widths
    <3>5. 1 # 2
      OBVIOUS
    <3>6. EntryAt(b, pos) = Err
      BY <1>4, <2>1, <3>3, <3>4, <3>5, Zenon DEF EntryAt
    <3> QED BY <3>6 DEF b, pos
  <2> QED BY <2>2, <2>3
<1> QED BY <1>9, <1>10

\* Zeros are no entry: their first byte is no operation.
LEMMA ZerosNoEntry ==
  ASSUME NEW w \in Seq(Byte), NEW n \in Nat, n > 0
  PROVE  Zeros(n) \in Seq(Byte) /\ Len(Zeros(n)) = n /\ EntryAt(w \o Zeros(n), Len(w)) = Err
<1> DEFINE z == Zeros(n)
           b == w \o z
           pos == Len(w)
<1>1. z \in Seq(Byte) /\ Len(z) = n /\ \A i \in 1 .. n : z[i] = 0
  BY HeadType DEF Zeros
<1>2. b[pos + 1] = 0
  <2>1. 1 \in 1 .. n
    OBVIOUS
  <2> HIDE DEF z
  <2> QED BY <1>1, <2>1, ConcatBytes
<1> HIDE DEF b, pos, z
<1>3. b[pos + 1] \notin {1, 2}
  BY <1>2
<1>4. EntryAt(b, pos) = Err
  BY <1>3, Zenon DEF EntryAt
<1> QED BY <1>1, <1>4 DEF b, pos, z

\* A log entry cut short, and zeros in its place.
LEMMA LogTorn ==
  ASSUME FilesStand, NEW req, IsRequest(req), NEW key \in Keys, NEW val \in Fields \cup {None},
         req.key = key, req.field = val, Log(req, key, val)
  PROVE  FoundInLog
<1> DEFINE r == DecodeRequest(EncodeRequest(req))
           x == EncodeEntry([key |-> key, field |-> val])
<1>1. r.val = req
  <2>1. r = Ok(req, Len(EncodeRequest(req)))
    BY RequestRoundTrip
  <2> QED BY <2>1, OkFields
<1>2. wal' = wal \o EncodeEntry([key |-> r.val.key, field |-> r.val.field])
  BY DEF Log
<1> HIDE DEF r
<1>3. wal' = wal \o x
  BY <1>1, <1>2
<1>4. x \in Seq(Byte)
  <2> DEFINE e == [key |-> key, val |-> val]
  <2>1. e \in R!WalEntry /\ e.key = key /\ e.val = val
    BY DEF R!WalEntry
  <2> HIDE DEF e
  <2> QED BY <2>1, EntryReads
<1>5. ASSUME NEW m \in 1 .. Len(x) - 1 PROVE EntryAt(wal \o SubSeq(x, 1, m), Len(wal)) = Err
  <2>1. CASE val = None
    <3>1. x = EncodeEntry([key |-> key, field |-> NoFieldEntry])
      BY <2>1 DEF None
    <3> HIDE DEF x
    <3> QED BY <3>1, TornDelete, Standing
  <2>2. CASE val \in Fields
    <3>1. x = EncodeEntry([key |-> key, field |-> val])
      OBVIOUS
    <3> HIDE DEF x
    <3> QED BY <2>2, <3>1, TornSet, Standing
  <2> QED BY <2>1, <2>2
<1> HIDE DEF x
<1>6. wal \in Seq(Byte) /\ ents \in Seq(R!WalEntry) /\ wal = FlattenSeq(EntryPieces(ents))
  BY Standing
<1>7. ASSUME NEW file \in PartlyWritten(wal, wal') PROVE DecodeWal(file) = Err
  <2>1. PICK m \in 1 .. Len(x) - 1 : file = wal \o SubSeq(x, 1, m)
    BY <1>3, <1>4, <1>6, PartlyAppended
  <2> DEFINE t == SubSeq(x, 1, m)
  <2>2. t \in Seq(Byte) /\ Len(t) = m /\ m > 0
    BY <1>4
  <2>3. EntryAt(wal \o t, Len(wal)) = Err
    BY <1>5
  <2> HIDE DEF t
  <2>4. DecodeWal(wal \o t) = Err
    BY <1>6, <2>2, <2>3, WalTailFails
  <2> QED BY <2>1, <2>4 DEF t
<1>8. ASSUME NEW file \in Unwritten(wal, wal') PROVE DecodeWal(file) = Err
  <2>1. PICK n \in 1 .. Len(wal') - Len(wal) : file = wal \o Zeros(n)
    BY DEF Unwritten
  <2>2. n \in Nat /\ n > 0
    BY <1>3, <1>4, <1>6
  <2> DEFINE t == Zeros(n)
  <2>3. t \in Seq(Byte) /\ Len(t) > 0 /\ EntryAt(wal \o t, Len(wal)) = Err
    BY <1>6, <2>2, ZerosNoEntry
  <2> HIDE DEF t
  <2>4. DecodeWal(wal \o t) = Err
    BY <1>6, <2>3, WalTailFails
  <2> QED BY <2>1, <2>4 DEF t
<1> QED BY <1>7, <1>8 DEF FoundInLog

\* A step that leaves .db or the log alone.
LEMMA DbAlone ==
  ASSUME FilesStand, db' = db
  PROVE  FoundInDb
<1>1. PartlyWritten(db, db') = {} /\ Unwritten(db, db') = {}
  BY NothingTorn, Standing
<1> QED BY <1>1 DEF FoundInDb

\* The same of the log.
LEMMA LogAlone ==
  ASSUME FilesStand, wal' = wal
  PROVE  FoundInLog
<1>1. PartlyWritten(wal, wal') = {} /\ Unwritten(wal, wal') = {}
  BY NothingTorn, Standing
<1> QED BY <1>1 DEF FoundInLog

\* What the decoder is to show, by the records of the state.
LEMMA ShownNow ==
  /\ ShownRecords = ShownOf(recs)
  /\ LiveItems(ShownRecords)' = LiveItems(ShownOf(recs'))
BY DEF ShownRecords, ShownOf, Shown, LiveItems

\* A write in place, when any part of it shows what was there or what is new.
LEMMA SameLengthFound ==
  ASSUME Len(db') = Len(db), Len(db) \in Nat,
         \A file \in PartlyWritten(db, db') :
           FailsOrShows(file, {LiveItems(ShownOf(recs)), LiveItems(ShownOf(recs'))})
  PROVE  FoundInDb
<1>1. ~ (Len(db') > Len(db))
  OBVIOUS
<1>2. Unwritten(db, db') = {}
  <2>1. 1 .. Len(db') - Len(db) = {}
    OBVIOUS
  <2> QED BY <2>1 DEF Unwritten
<1> QED BY <1>1, <1>2, ShownNow DEF FoundInDb

\* set and delete: the log grows by an entry.
LEMMA RequestFound ==
  ASSUME FilesStand, NEW k \in Keys, (\E f \in Fields : Set(k, f)) \/ Delete(k)
  PROVE  FoundInDb /\ FoundInLog
<1>1. k \in Seq(Byte) /\ Len(k) < Pow[W16]
  BY KeyFacts
<1>2. ASSUME NEW f \in Fields, Set(k, f)
      PROVE  FoundInDb /\ FoundInLog
  <2> DEFINE req == Request("Set", k, f)
  <2>1. req.key = k /\ req.field = f
    BY DEF Request
  <2>2. IsRequest(req)
    BY <1>1, FieldFacts DEF IsRequest, Request, FieldSize
  <2>3. Log(req, k, f)
    BY <1>2 DEF Set
  <2> HIDE DEF req
  <2>4. db' = db
    BY <2>3 DEF Log
  <2> QED BY <2>1, <2>2, <2>3, <2>4, LogTorn, DbAlone
<1>3. ASSUME Delete(k)
      PROVE  FoundInDb /\ FoundInLog
  <2> DEFINE req == Request("Del", k, NoField)
  <2>1. req.key = k /\ req.field = None
    BY DEF Request, NoField, None, NoFieldEntry
  <2>2. IsRequest(req)
    BY <1>1 DEF IsRequest, Request
  <2>3. Log(req, k, None)
    BY <1>3 DEF Delete
  <2> HIDE DEF req
  <2>4. db' = db
    BY <2>3 DEF Log
  <2> QED BY <2>1, <2>2, <2>3, <2>4, LogTorn, DbAlone
<1> QED BY <1>2, <1>3

\* new: a header cut short is no file, and zeros show no record.
LEMMA NewFound ==
  ASSUME FilesStand, New
  PROVE  FoundInDb
<1>1. db = <<>> /\ db' = Header(0)
  BY DEF New
<1>2. recs = <<>>
  BY <1>1, Standing, DbThere
<1>3. Len(db') > Len(db)
  <2>1. HeaderLen \in Nat /\ HeaderLen > 0
    <3>1. HeaderLen \in Nat /\ RecordCountOffset + W64 + KeyLen <= HeaderLen
      BY HeaderLenType
    <3>2. RecordCountOffset \in Nat /\ KeyLen \in Nat
      BY BeforeCountType DEF KeyLen
    <3> QED BY <3>1, <3>2, Widths
  <2>2. IsHeader(Header(0))
    BY HeaderFacts
  <2> DEFINE h == Header(0)
  <2>3. Len(h) = HeaderLen
    BY <2>2 DEF IsHeader
  <2>4. Len(db) = 0 /\ db' = h
    BY <1>1
  <2> HIDE DEF h
  <2> QED BY <2>1, <2>3, <2>4
<1>4. \A file \in PartlyWritten(db, db') : DecodeDb(file) = Err
  BY <1>1, DbTornHeader
<1>5. \A file \in Unwritten(db, db') : FailsOrShows(file, {LiveItems(ShownRecords)})
  BY <1>1, <1>2, DbTornHeader, ShownNow
<1> QED BY <1>3, <1>4, <1>5 DEF FoundInDb

\* flush of a set: a record cut short is an error, and zeros hide nothing.
LEMMA FlushSetFound ==
  ASSUME FilesStand, NEW k \in Keys, NEW f \in Fields, FlushSet(k, f)
  PROVE  FoundInDb
<1> DEFINE x == Encode(k, f)
<1>1. db' = db \o x /\ Logged(k, f)
  BY DEF FlushSet
<1>2. PICK n \in Nat : DbIs(db, Header(n), recs)
  <2>1. ents # <<>>
    BY <1>1 DEF Logged
  <2> QED BY <2>1, Standing DEF DbGood
<1>3. x \in Seq(Byte) /\ Len(x) > 0
  <2>1. k \in Seq(Byte) /\ Len(k) \in Nat /\ Len(k) < Pow[W16]
    BY KeyFacts
  <2>2. IsField(f) /\ FieldSize(f) \in Nat /\ FieldSize(f) > 0 /\ FieldSize(f) < Pow[W32]
    BY FieldFacts
  <2>3. x \in Seq(Byte) /\ Len(x) = RecordHead + Len(k) + FieldSize(f)
    BY <2>1, <2>2, EncodeType DEF FieldSize
  <2>4. RecordHead \in Nat
    BY HeadType
  <2> HIDE DEF x
  <2> QED BY <2>1, <2>2, <2>3, <2>4
<1>4. ASSUME NEW file \in PartlyWritten(db, db') PROVE DecodeDb(file) = Err
  <2>1. db \in Seq(Byte)
    BY Standing
  <2>2. x = Encode(k, f)
    OBVIOUS
  <2> HIDE DEF x
  <2>3. PICK m \in 1 .. Len(x) - 1 : file = db \o SubSeq(x, 1, m)
    BY <1>1, <1>3, <2>1, PartlyAppended
  <2> QED BY <1>2, <2>2, <2>3, DbTornAppend
<1> HIDE DEF x
<1>5. db \in Seq(Byte) /\ Len(db') > Len(db) /\ Len(db') \in Nat
  BY <1>1, <1>3, Standing
<1>6. \A file \in Unwritten(db, db') : FailsOrShows(file, {LiveItems(ShownRecords)})
  BY <1>2, <1>5, DbUnwritten, ShownNow
<1> QED BY <1>4, <1>5, <1>6 DEF FoundInDb

\* flush of a delete: any part of the tombstone shows the record or hides it.
LEMMA FlushDeleteFound ==
  ASSUME FilesStand, NEW k \in Keys, FlushDelete(k)
  PROVE  FoundInDb
<1>1. /\ Logged(k, None) /\ index[k] # NoIndexEntry
      /\ db' = WriteAt(db, index[k].offset, Tombstone(index[k].key_len, index[k].field_len))
      /\ recs' = LET i == CHOOSE i \in PositionOf(index[k].offset) : TRUE
                 IN R!TombstoneOver(recs, [offset |-> i, field_len |-> index[k].field_len])
  BY DEF FlushDelete, TombstoneOf, Indexed
<1>2. PICK n \in Nat : DbIs(db, Header(n), recs)
  <2>1. ents # <<>>
    BY <1>1 DEF Logged
  <2> QED BY <2>1, Standing DEF DbGood
<1>3. PICK j \in 1 .. Len(recs) : recs[j].key = k /\ index[k] = EntryFor(recs, k, j)
  BY <1>1, Standing DEF IndexWell, Points
<1>4. /\ index[k].key_len = Len(recs[j].key) /\ index[k].field_len = FieldSize(recs[j].val)
      /\ index[k].offset = StartIn(recs, j)
  BY <1>3 DEF EntryFor
<1>5. PositionOf(index[k].offset) = {j}
  BY <1>4, OnePosition, Standing
<1>6. recs' = R!TombstoneOver(recs, [offset |-> j, field_len |-> FieldSize(recs[j].val)])
  <2>1. (CHOOSE i \in {j} : TRUE) = j
    OBVIOUS
  <2> QED BY <1>1, <1>4, <1>5, <2>1
<1>7. Covered(recs', recs, j)
  BY <1>6, TombstoneCovers, Standing
<1> DEFINE y == Tombstone(Len(recs[j].key), FieldSize(recs[j].val))
           new == WriteAt(db, StartIn(recs, j), y)
<1>8. db' = new
  BY <1>1, <1>4
<1>9. \A file \in PartlyWritten(db, new) :
        FailsOrShows(file, {LiveItems(ShownOf(recs)), LiveItems(ShownOf(recs'))})
  BY <1>2, <1>7, DbTornCover
<1>10. Len(new) = Len(db) /\ Len(db) \in Nat
  <2> DEFINE p == RecordPieces(recs)
             u == Header(n) \o FlattenSeq(SubSeq(p, 1, j - 1))
             x == p[j]
             v == FlattenSeq(SubSeq(p, j + 1, Len(p)))
  <2>1. Overwrites(db, new, u, x, y, v)
    BY <1>2, <1>7, CoverIn
  <2> HIDE DEF u, x, v, new, y
  <2>2. /\ u \in Seq(Byte) /\ x \in Seq(Byte) /\ y \in Seq(Byte) /\ v \in Seq(Byte) /\ Len(x) = Len(y)
        /\ db = (u \o x) \o v /\ new = (u \o y) \o v
    BY <2>1 DEF Overwrites
  <2>3. /\ Len(u) \in Nat /\ Len(x) \in Nat /\ Len(v) \in Nat
        /\ u \o x \in Seq(Byte) /\ u \o y \in Seq(Byte)
        /\ Len(u \o x) = Len(u) + Len(x) /\ Len(u \o y) = Len(u) + Len(y)
    BY <2>2, ConcatBytes
  <2>4. Len(db) = Len(u \o x) + Len(v) /\ Len(new) = Len(u \o y) + Len(v)
    BY <2>2, <2>3, ConcatBytes
  <2> QED BY <2>2, <2>3, <2>4
<1> HIDE DEF new, y
<1> QED BY <1>8, <1>9, <1>10, SameLengthFound, ShownNow

\* update_record_count: any mix of two counts is a count.
LEMMA CountFound ==
  ASSUME FilesStand, NEW n \in Nat, UpdateRecordCount(n)
  PROVE  FoundInDb
<1> DEFINE new == WriteAt(db, RecordCountOffset, LE(n, W64))
           f == FlattenSeq(RecordPieces(recs))
<1>1. recs # <<>> /\ db' = new
  BY DEF UpdateRecordCount
<1>2. PICK m \in Nat : DbIs(db, Header(m), recs)
  BY <1>1, Standing DEF DbGood
<1>3. \A file \in PartlyWritten(db, new) : FailsOrShows(file, {LiveItems(ShownOf(recs))})
  BY <1>2, DbTornCount
<1>4. DbIs(new, Header(n), recs)
  BY <1>2, DbCount
<1> HIDE DEF new
<1>5. Len(new) = Len(db) /\ Len(db) \in Nat
  <2>1. RecordPieces(recs) \in Seq(Seq(Byte))
    BY <1>2, RecordsStand
  <2>2. f \in Seq(Byte)
    BY <2>1, FlattenType
  <2>3. /\ Header(m) \in Seq(Byte) /\ Len(Header(m)) = HeaderLen
        /\ Header(n) \in Seq(Byte) /\ Len(Header(n)) = HeaderLen
    BY HeaderFacts DEF IsHeader
  <2>4. db = Header(m) \o f /\ new = Header(n) \o f
    BY <1>2, <1>4 DEF DbIs
  <2> HIDE DEF f
  <2>5. Len(db) = Len(Header(m)) + Len(f) /\ Len(Header(m)) \in Nat /\ Len(f) \in Nat
    BY <2>2, <2>3, <2>4, ConcatBytes
  <2>6. Len(new) = Len(Header(n)) + Len(f)
    BY <2>2, <2>3, <2>4, ConcatBytes
  <2> QED BY <2>3, <2>5, <2>6
<1>6. \A file \in PartlyWritten(db, new) :
        FailsOrShows(file, {LiveItems(ShownOf(recs)), LiveItems(ShownOf(recs'))})
  BY <1>3, Zenon DEF FailsOrShows
<1> QED BY <1>1, <1>5, <1>6, SameLengthFound

\* Emptying the log leaves no part of it.
LEMMA CheckpointFound ==
  ASSUME FilesStand, Checkpoint
  PROVE  FoundInLog
<1>1. wal' = <<>>
  BY DEF Checkpoint
<1>2. Len(wal) \in Nat
  BY Standing
<1>3. PartlyWritten(wal, wal') = {}
  <2>1. 1 .. Len(wal') - 1 = {}
    BY <1>1
  <2> QED BY <2>1 DEF PartlyWritten
<1>4. Unwritten(wal, wal') = {}
  <2>1. 1 .. Len(wal') - Len(wal) = {}
    BY <1>1, <1>2
  <2> QED BY <2>1 DEF Unwritten
<1> QED BY <1>3, <1>4 DEF FoundInLog

\* Each write of a step is found out or does no harm.
LEMMA StepFound == FilesStand /\ [Next]_vars => FoundInDb /\ FoundInLog
<1> SUFFICES ASSUME FilesStand, [Next]_vars PROVE FoundInDb /\ FoundInLog
  OBVIOUS
<1>1. ASSUME New PROVE FoundInDb /\ FoundInLog
  BY <1>1, NewFound, LogAlone DEF New
<1>2. ASSUME (\E x \in Alphabet : Receive(x)) \/ Answer PROVE FoundInDb /\ FoundInLog
  BY <1>2, DbAlone, LogAlone DEF Receive, Answer
<1>3. ASSUME NEW k \in Keys, (\E f \in Fields : Set(k, f)) \/ Delete(k) PROVE FoundInDb /\ FoundInLog
  BY <1>3, RequestFound
<1>4. ASSUME NEW k \in Keys, NEW f \in Fields, FlushSet(k, f) PROVE FoundInDb /\ FoundInLog
  <2>1. wal' = wal
    BY <1>4 DEF FlushSet
  <2> QED BY <1>4, <2>1, FlushSetFound, LogAlone
<1>5. ASSUME NEW k \in Keys, FlushDelete(k) PROVE FoundInDb /\ FoundInLog
  <2>1. wal' = wal
    BY <1>5 DEF FlushDelete
  <2> QED BY <1>5, <2>1, FlushDeleteFound, LogAlone
<1>6. ASSUME NEW n \in Counts, UpdateRecordCount(n) PROVE FoundInDb /\ FoundInLog
  <2>1. n \in Nat
    BY FileAssumption
  <2>2. wal' = wal
    BY <1>6 DEF UpdateRecordCount
  <2> QED BY <1>6, <2>1, <2>2, CountFound, LogAlone
<1>7. ASSUME RebuildIndex \/ LoseIndex \/ Reopen PROVE FoundInDb /\ FoundInLog
  <2>1. db' = db /\ wal' = wal
    BY <1>7 DEF RebuildIndex, LoseIndex, Reopen
  <2> QED BY <2>1, DbAlone, LogAlone
<1>8. ASSUME Checkpoint PROVE FoundInDb /\ FoundInLog
  <2>1. db' = db
    BY <1>8 DEF Checkpoint
  <2> QED BY <1>8, <2>1, CheckpointFound, DbAlone
<1>9. ASSUME UNCHANGED vars PROVE FoundInDb /\ FoundInLog
  BY <1>9, DbAlone, LogAlone DEF vars
<1> QED BY <1>1, <1>2, <1>3, <1>4, <1>5, <1>6, <1>7, <1>8, <1>9 DEF Next

\* A write that a crash cuts short is found out or does no harm: new, set,
\* delete, flush and update_record_count, whatever part of their bytes is there.
THEOREM TornAlwaysFound == Spec => TornWritesFound
<1>1. FilesStand /\ [Next]_vars => [FoundInDb /\ FoundInLog]_vars
  BY StepFound
<1> QED BY <1>1, FilesAlwaysStand, PTL DEF Spec, TornWritesFound

=============================================================================
