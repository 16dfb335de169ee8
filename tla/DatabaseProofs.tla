--------------------------- MODULE DatabaseProofs ---------------------------
(***************************************************************************)
(* The engine's types, and its index: Database's TypeOK and IndexInv are   *)
(* inductive invariants.                                                   *)
(*                                                                         *)
(* The argument about the index is about images of the .db file: every     *)
(* write of the program, every crash and every sync leaves an image that   *)
(* Covers the earlier one, and an index entry that points at the right     *)
(* record of an image points at the right record of every image that       *)
(* covers it.                                                              *)
(***************************************************************************)
EXTENDS Database, FiniteSetTheorems, SequenceTheorems, TLAPS

-----------------------------------------------------------------------------
(***************************************************************************)
(* Helpers.                                                                *)
(***************************************************************************)

\* The largest element of a set of positions is one of them.
LEMMA LastOfType ==
  ASSUME NEW S, LastOf(S) # 0
  PROVE  LastOf(S) \in S
BY DEF LastOf

\* Decoding the .db file gives a field or none for each key.
LEMMA DecodeDbFileType ==
  ASSUME NEW recs \in Seq(Record \cup {Torn})
  PROVE  DecodeDbFile(recs) \in [Key -> Value \cup {None}]
<1> SUFFICES ASSUME NEW k \in Key, LastOf(LiveAt(recs, k)) # 0
             PROVE  recs[LastOf(LiveAt(recs, k))].val \in Value
  BY DEF DecodeDbFile
<1>1. LastOf(LiveAt(recs, k)) \in LiveAt(recs, k)
  BY LastOfType
<1> QED
  BY <1>1 DEF LiveAt, Record

\* Replaying the log over decoded fields gives a field or none for each key.
LEMMA ReplayType ==
  ASSUME NEW base \in [Key -> Value \cup {None}], NEW wal \in Seq(WalEntry \cup {Torn})
  PROVE  Replay(base, wal) \in [Key -> Value \cup {None}]
<1> SUFFICES ASSUME NEW k \in Key, LastOf(RowsOf(wal, k)) # 0
             PROVE  wal[LastOf(RowsOf(wal, k))].val \in Value \cup {None}
  BY DEF Replay
<1>1. LastOf(RowsOf(wal, k)) \in RowsOf(wal, k)
  BY LastOfType
<1> QED
  BY <1>1 DEF RowsOf, WalEntry

\* An index rebuilt from the .db file has an entry, or NoEntry, for each key.
LEMMA IndexFromDbType ==
  ASSUME NEW recs \in Seq(Record \cup {Torn})
  PROVE  IndexFromDb(recs) \in [Key -> IndexEntry]
<1> SUFFICES ASSUME NEW k \in Key
             PROVE  IndexFromDb(recs)[k] \in IndexEntry
  BY DEF IndexFromDb
<1> DEFINE n == LastOf(LiveAt(recs, k))
<1>1. CASE n = 0
  BY <1>1 DEF IndexFromDb, NoEntry, IndexEntry
<1>2. CASE n # 0
  <2>1. n \in LiveAt(recs, k)
    BY <1>2, LastOfType
  <2>2. n \in Nat /\ recs[n].val \in Value
    BY <2>1 DEF LiveAt, Record
  <2>3. FieldLen[recs[n].val] \in Nat
    BY <2>2, RecordAssumption
  <2> QED
    BY <1>2, <2>2, <2>3 DEF IndexFromDb, IndexEntry
<1> QED
  BY <1>1, <1>2

\* So has an index decoded from the .dbidx file.
LEMMA IndexFromRowsType ==
  ASSUME NEW s \in Seq(IndexRow \cup {Torn})
  PROVE  IndexFromRows(s) \in [Key -> IndexEntry]
<1> SUFFICES ASSUME NEW k \in Key, LastOf(RowsOf(s, k)) # 0
             PROVE  [offset |-> s[LastOf(RowsOf(s, k))].offset,
                     field_len |-> s[LastOf(RowsOf(s, k))].field_len] \in IndexEntry
  BY DEF IndexFromRows, NoEntry, IndexEntry
<1>1. LastOf(RowsOf(s, k)) \in RowsOf(s, k)
  BY LastOfType
<1> QED
  BY <1>1 DEF RowsOf, IndexRow, IndexEntry

\* A sequence without torn items holds only decodable ones: what Wal::open
\* hands on is a sequence of entries.
LEMMA IntactType ==
  ASSUME NEW A, NEW s \in Seq(A \cup {Torn}), Intact(s)
  PROVE  s \in Seq(A)
<1>1. \A i \in 1 .. Len(s) : s[i] \in A
  BY DEF Intact
<1>2. Len(s) \in Nat /\ DOMAIN s = 1 .. Len(s) /\ s = [i \in 1 .. Len(s) |-> s[i]]
  OBVIOUS
<1> QED
  BY <1>1, <1>2, IsASeq

\* flush's deduplication only selects entries.
LEMMA NetType ==
  ASSUME NEW s \in Seq(WalEntry)
  PROVE  Net(s) \subseteq WalEntry
BY DEF Net

\* A tombstone, well placed or not, leaves records and torn bytes.
LEMMA TombstoneOverType ==
  ASSUME NEW recs \in Seq(Record \cup {Torn}), NEW e \in IndexEntry
  PROVE  TombstoneOver(recs, e) \in Seq(Record \cup {Torn})
<1>1. CASE e.offset \notin 1 .. Len(recs)
  BY <1>1 DEF TombstoneOver
<1>2. CASE e.offset \in 1 .. Len(recs)
  <2> DEFINE new == IF recs[e.offset] # Torn /\ FieldLen[recs[e.offset].val] = e.field_len
                    THEN [recs[e.offset] EXCEPT !.live = FALSE] ELSE Torn
  <2>1. new \in Record \cup {Torn}
    <3>1. ASSUME NEW r \in Record PROVE [r EXCEPT !.live = FALSE] \in Record
      BY <3>1 DEF Record
    <3>2. recs[e.offset] \in Record \cup {Torn}
      BY <1>2
    <3> QED
      BY <3>1, <3>2
  <2>2. TombstoneOver(recs, e) = [recs EXCEPT ![e.offset] = new]
    BY <1>2 DEF TombstoneOver
  <2> HIDE DEF new
  <2> QED
    BY <1>2, <2>1, <2>2
<1> QED
  BY <1>1, <1>2

\* Rows written over rows are rows.
LEMMA OverlayType ==
  ASSUME NEW A, NEW file \in Seq(A), NEW data \in Seq(A)
  PROVE  Overlay(file, data) \in Seq(A)
<1>1. SubSeq(file, Len(data) + 1, Len(file)) \in Seq(A)
  BY SubSeqProperties
<1> QED
  BY <1>1, ConcatProperties DEF Overlay

\* The entries of an index, in some order.
LEMMA RowsType ==
  ASSUME NEW idx \in [Key -> IndexEntry],
         NEW s \in SetToSeqs({[key |-> k, offset |-> idx[k].offset, field_len |-> idx[k].field_len] :
                                k \in {x \in Key : idx[x] # NoEntry}})
  PROVE  /\ s \in Seq(IndexRow)
         /\ \A i \in 1 .. Len(s) : \E k \in Key :
              /\ idx[k] # NoEntry
              /\ s[i] = [key |-> k, offset |-> idx[k].offset, field_len |-> idx[k].field_len]
<1> DEFINE Ks == {x \in Key : idx[x] # NoEntry}
           F(k) == [key |-> k, offset |-> idx[k].offset, field_len |-> idx[k].field_len]
           R == {F(k) : k \in Ks}
<1>1. IsFiniteSet(Ks)
  BY RecordAssumption, FS_Subset
<1>2. IsFiniteSet(R)
  <2>1. [k \in Ks |-> F(k)] \in Surjection(Ks, R)
    BY DEF Surjection
  <2> HIDE DEF R, Ks, F
  <2> QED BY <1>1, <2>1, FS_Surjection
<1>3. Cardinality(R) \in Nat
  BY <1>2, FS_CardinalityType
<1>4. s \in [1 .. Cardinality(R) -> R]
  BY DEF SetToSeqs
<1>5. Len(s) = Cardinality(R) /\ s \in Seq(R)
  <2> HIDE DEF R
  <2> QED BY <1>3, <1>4
<1>6. R \subseteq IndexRow
  BY DEF IndexRow, IndexEntry
<1>7. s \in Seq(IndexRow)
  <2> HIDE DEF R
  <2> QED BY <1>5, <1>6
<1>8. \A i \in 1 .. Len(s) : s[i] \in R
  <2> HIDE DEF R
  <2> QED BY <1>5
<1> QED
  BY <1>7, <1>8

-----------------------------------------------------------------------------
(***************************************************************************)
(* Type correctness, one lemma for the steps of writes, one for those of   *)
(* flush and one for opening, closing and crashing.                        *)
(***************************************************************************)

\* The type invariant holds before the first open.
LEMMA TypeInit == Init => TypeOK
<1> SUFFICES ASSUME Init PROVE TypeOK
  OBVIOUS
<1>1. NoEntry \in IndexEntry /\ NoIndex \in [Key -> IndexEntry]
  BY DEF NoEntry, NoIndex, IndexEntry
<1>2. Image(Created) \in FileImage
  BY DEF Image, FileImage
<1> QED
  BY <1>1, <1>2 DEF Init, TypeOK, NoFields, NoCall, WritePcs, FlushPcs

\* A call that returns resets its local variables to values of their types.
LEMMA TypeReturn ==
  ASSUME TypeOK, NEW t \in Task, Return(t)
  PROVE  /\ pc' \in [Task -> {"idle"} \cup WritePcs \cup FlushPcs]
         /\ call' \in [Task -> WalEntry \cup {NoCall}]
         /\ \A u \in Task : pc'[u] \in WritePcs => call'[u] \in WalEntry
         /\ todo' \in [Task -> SUBSET WalEntry]
         /\ plan' \in [Task -> [Key -> IndexEntry]]
         /\ fresh' \in [Task -> [Key -> IndexEntry]]
         /\ rows' \in [Task -> Seq(IndexRow)]
         /\ rivals' \in [Task -> SUBSET (Value \cup {None})]
<1>1. NoIndex \in [Key -> IndexEntry]
  BY DEF NoEntry, NoIndex, IndexEntry
<1> QED
  BY <1>1 DEF TypeOK, Return, Goto, WritePcs, FlushPcs

\* So does the end of the process, for all of memory.
LEMMA TypeForget ==
  ASSUME TypeOK, Forget
  PROVE  /\ fields' \in [Key -> Value \cup {None}]
         /\ index' \in [Key -> IndexEntry]
         /\ entries' \in Seq(WalEntry)
         /\ walLock' \in Task \cup {NoTask}
         /\ pc' \in [Task -> {"idle"} \cup WritePcs \cup FlushPcs]
         /\ call' \in [Task -> WalEntry \cup {NoCall}]
         /\ \A u \in Task : pc'[u] \in WritePcs => call'[u] \in WalEntry
         /\ todo' \in [Task -> SUBSET WalEntry]
         /\ plan' \in [Task -> [Key -> IndexEntry]]
         /\ fresh' \in [Task -> [Key -> IndexEntry]]
         /\ rows' \in [Task -> Seq(IndexRow)]
         /\ rivals' \in [Task -> SUBSET (Value \cup {None})]
<1>1. NoIndex \in [Key -> IndexEntry]
  BY DEF NoEntry, NoIndex, IndexEntry
<1> QED
  BY <1>1 DEF TypeOK, Forget, NoFields, WritePcs, FlushPcs

\* The steps of set and delete keep the type invariant.
LEMMA TypeWrite ==
  ASSUME TypeOK, NEW t \in Task
  PROVE  /\ \A k \in Key : \A v \in Value \cup {None} : CallWrite(t, k, v) => TypeOK'
         /\ AppendEntry(t) => TypeOK'
         /\ AppendEntryError(t) => TypeOK'
         /\ AppendEntrySync(t) => TypeOK'
         /\ AppendEntrySyncError(t) => TypeOK'
         /\ ApplyWrite(t) => TypeOK'
<1> USE DEF files, memory, locals, ghosts
<1>1. ASSUME NEW k \in Key, NEW v \in Value \cup {None}, CallWrite(t, k, v) PROVE TypeOK'
  <2>1. [key |-> k, val |-> v] \in WalEntry
    BY DEF WalEntry
  <2>2. \A w \in InFlight(k) : call[w].val \in Value \cup {None}
    BY DEF InFlight, TypeOK, WalEntry
  <2>3. rivals' \in [Task -> SUBSET (Value \cup {None})]
    <3>1. {call[w].val : w \in InFlight(k)} \subseteq Value \cup {None}
      BY <2>2
    <3> QED BY <1>1, <3>1 DEF CallWrite, TypeOK
  <2>4. call' \in [Task -> WalEntry \cup {NoCall}]
    BY <1>1, <2>1 DEF CallWrite, TypeOK
  <2>5. pc' \in [Task -> {"idle"} \cup WritePcs \cup FlushPcs]
    BY <1>1 DEF CallWrite, Goto, TypeOK, WritePcs
  <2>6. \A u \in Task : pc'[u] \in WritePcs => call'[u] \in WalEntry
    BY <1>1, <2>1 DEF CallWrite, Goto, TypeOK
  <2> QED
    BY <1>1, <2>3, <2>4, <2>5, <2>6 DEF CallWrite, TypeOK
<1>2. ASSUME AppendEntry(t) PROVE TypeOK'
  <2>1. call[t] \in WalEntry
    BY <1>2 DEF AppendEntry, TypeOK, WritePcs
  <2>2. walFile' \in Seq(WalEntry \cup {Torn}) /\ entries' \in Seq(WalEntry)
    BY <1>2, <2>1 DEF AppendEntry, TypeOK
  <2> QED
    BY <1>2, <2>1, <2>2 DEF AppendEntry, Goto, TypeOK, WritePcs
<1>3. ASSUME AppendEntryError(t) PROVE TypeOK'
  <2>1. walFile' \in Seq(WalEntry \cup {Torn})
    <3>1. walFile \in Seq(WalEntry \cup {Torn}) /\ Torn \in WalEntry \cup {Torn}
      BY DEF TypeOK
    <3>2. walFile' = walFile \/ walFile' = Append(walFile, Torn)
      BY <1>3 DEF AppendEntryError
    <3> QED BY <3>1, <3>2
  <2>2. Return(t)
    BY <1>3 DEF AppendEntryError
  <2> QED
    BY <1>3, <2>1, <2>2, TypeReturn DEF AppendEntryError, TypeOK
<1>4. ASSUME AppendEntrySync(t) PROVE TypeOK'
  BY <1>4 DEF AppendEntrySync, Goto, TypeOK, WritePcs
<1>5. ASSUME AppendEntrySyncError(t) PROVE TypeOK'
  <2>1. call[t] \in WalEntry
    BY <1>5 DEF AppendEntrySyncError, TypeOK, WritePcs
  <2>2. allowed' \in [Key -> SUBSET (Value \cup {None})]
    BY <1>5, <2>1 DEF AppendEntrySyncError, TypeOK, WalEntry
  <2>3. Return(t)
    BY <1>5 DEF AppendEntrySyncError
  <2> QED
    BY <1>5, <2>2, <2>3, TypeReturn DEF AppendEntrySyncError, TypeOK
<1>6. ASSUME ApplyWrite(t) PROVE TypeOK'
  <2>1. call[t].key \in Key /\ call[t].val \in Value \cup {None}
    BY <1>6 DEF ApplyWrite, TypeOK, WritePcs, WalEntry
  <2>2. {call[u].val : u \in InFlight(call[t].key)} \subseteq Value \cup {None}
    BY DEF InFlight, TypeOK, WalEntry
  <2>3. allowed' \in [Key -> SUBSET (Value \cup {None})]
    BY <1>6, <2>1, <2>2 DEF ApplyWrite, TypeOK
  <2>4. Return(t)
    BY <1>6 DEF ApplyWrite
  <2> QED
    BY <1>6, <2>1, <2>3, <2>4, TypeReturn DEF ApplyWrite, TypeOK
<1> QED
  BY <1>1, <1>2, <1>3, <1>4, <1>5, <1>6

\* So do the steps of flush up to the sync of .db and of the state section.
LEMMA TypeFlush ==
  ASSUME TypeOK, NEW t \in Task
  PROVE  /\ CallFlush(t) => TypeOK'
         /\ PopUncommitted(t) => TypeOK'
         /\ FlushPlan(t) => TypeOK'
         /\ \A e \in todo[t] : FlushSet(t, e) => TypeOK'
         /\ \A e \in todo[t] : FlushDelete(t, e) => TypeOK'
         /\ \A e \in todo[t] : FlushWriteError(t, e) => TypeOK'
         /\ FlushSync(t) => TypeOK'
         /\ FlushIndex(t) => TypeOK'
         /\ UpdateRecordCount(t) => TypeOK'
<1> USE DEF files, memory, locals, ghosts
<1>a. todo[t] \subseteq WalEntry /\ plan[t] \in [Key -> IndexEntry] /\ fresh[t] \in [Key -> IndexEntry]
  BY DEF TypeOK
<1>b. NoEntry \in IndexEntry /\ NoIndex \in [Key -> IndexEntry]
  BY DEF NoEntry, NoIndex, IndexEntry
<1>c. dbFile.recs \in Seq(Record \cup {Torn})
  BY DEF TypeOK, FileImage
<1>1. ASSUME CallFlush(t) PROVE TypeOK'
  BY <1>1 DEF CallFlush, Goto, TypeOK, WritePcs, FlushPcs
<1>2. ASSUME PopUncommitted(t) PROVE TypeOK'
  <2>1. Net(entries) \subseteq WalEntry
    BY NetType DEF TypeOK
  <2> QED
    BY <1>2, <2>1 DEF PopUncommitted, Goto, TypeOK, WritePcs, FlushPcs
<1>3. ASSUME FlushPlan(t) PROVE TypeOK'
  <2>1. plan' \in [Task -> [Key -> IndexEntry]]
    BY <1>3, <1>b DEF FlushPlan, TypeOK
  <2> QED
    BY <1>3, <2>1 DEF FlushPlan, Goto, TypeOK, WritePcs, FlushPcs
<1>4. ASSUME NEW e \in todo[t], FlushSet(t, e) PROVE TypeOK'
  <2>1. e.key \in Key /\ e.val \in Value
    BY <1>4, <1>a DEF FlushSet, WalEntry
  <2>2. [key |-> e.key, val |-> e.val, live |-> TRUE] \in Record \cup {Torn}
    BY <2>1 DEF Record
  <2>3. dbFile' \in FileImage
    <3>1. Append(dbFile.recs, [key |-> e.key, val |-> e.val, live |-> TRUE]) \in Seq(Record \cup {Torn})
      BY <1>c, <2>2, AppendProperties
    <3> QED BY <1>4, <3>1 DEF FlushSet, TypeOK, FileImage
  <2>4. [offset |-> Len(dbFile.recs) + 1, field_len |-> FieldLen[e.val]] \in IndexEntry
    BY <1>c, <2>1, RecordAssumption DEF IndexEntry
  <2>5. fresh' \in [Task -> [Key -> IndexEntry]]
    BY <1>4, <2>1, <2>4 DEF FlushSet, TypeOK
  <2>6. todo' \in [Task -> SUBSET WalEntry]
    BY <1>4 DEF FlushSet, TypeOK
  <2> QED
    BY <1>4, <2>3, <2>5, <2>6 DEF FlushSet, TypeOK
<1>5. ASSUME NEW e \in todo[t], FlushDelete(t, e) PROVE TypeOK'
  <2>1. plan[t][e.key] \in IndexEntry
    BY <1>a DEF WalEntry
  <2>2. TombstoneOver(dbFile.recs, plan[t][e.key]) \in Seq(Record \cup {Torn})
    BY <1>c, <2>1, TombstoneOverType
  <2>3. dbFile' \in FileImage
    BY <1>5, <2>2 DEF FlushDelete, TypeOK, FileImage
  <2>4. todo' \in [Task -> SUBSET WalEntry]
    BY <1>5 DEF FlushDelete, TypeOK
  <2> QED
    BY <1>5, <2>3, <2>4 DEF FlushDelete, TypeOK
<1>6. ASSUME NEW e \in todo[t], FlushWriteError(t, e) PROVE TypeOK'
  <2>1. dbFile' \in FileImage
    <3>1. CASE UNCHANGED dbFile
      BY <3>1 DEF TypeOK
    <3>2. CASE dbFile' = [dbFile EXCEPT !.recs = Append(@, Torn)]
      <4>1. Append(dbFile.recs, Torn) \in Seq(Record \cup {Torn})
        BY <1>c, AppendProperties
      <4> QED BY <3>2, <4>1 DEF TypeOK, FileImage
    <3>3. CASE /\ plan[t][e.key].offset \in 1 .. Len(dbFile.recs)
               /\ dbFile' = [dbFile EXCEPT !.recs[plan[t][e.key].offset] = Torn]
      <4>1. [dbFile.recs EXCEPT ![plan[t][e.key].offset] = Torn] \in Seq(Record \cup {Torn})
        BY <1>c, <3>3
      <4> QED BY <3>3, <4>1 DEF TypeOK, FileImage
    <3> QED BY <1>6, <3>1, <3>2, <3>3 DEF FlushWriteError
  <2>2. Return(t)
    BY <1>6 DEF FlushWriteError
  <2> QED
    BY <1>6, <2>1, <2>2, TypeReturn DEF FlushWriteError, TypeOK
<1>7. ASSUME FlushSync(t) PROVE TypeOK'
  BY <1>7 DEF FlushSync, Goto, TypeOK, WritePcs, FlushPcs
<1>8. ASSUME FlushIndex(t) PROVE TypeOK'
  <2>1. index' \in [Key -> IndexEntry]
    BY <1>8, <1>a, <1>b DEF FlushIndex, TypeOK
  <2>2. fields' \in [Key -> Value \cup {None}]
    BY <1>8 DEF FlushIndex, TypeOK
  <2> QED
    BY <1>8, <1>b, <2>1, <2>2 DEF FlushIndex, Goto, TypeOK, WritePcs, FlushPcs
<1>9. ASSUME UpdateRecordCount(t) PROVE TypeOK'
  BY <1>9 DEF UpdateRecordCount, Goto, TypeOK, WritePcs, FlushPcs
<1> QED
  BY <1>1, <1>2, <1>3, <1>4, <1>5, <1>6, <1>7, <1>8, <1>9

\* So do the steps of rebuild_index and checkpoint.
LEMMA TypeRebuild ==
  ASSUME TypeOK, NEW t \in Task
  PROVE  /\ IndexClone(t) => TypeOK'
         /\ IndexTrunc(t) => TypeOK'
         /\ IndexWrite(t) => TypeOK'
         /\ IndexSync(t) => TypeOK'
         /\ FlushStepError(t) => TypeOK'
         /\ Checkpoint(t) => TypeOK'
         /\ CheckpointError(t) => TypeOK'
         /\ CheckpointSync(t) => TypeOK'
<1> USE DEF files, memory, locals, ghosts
<1>a. rows[t] \in Seq(IndexRow) /\ rows[t] \in Seq(IndexRow \cup {Torn})
  BY DEF TypeOK
<1>1. ASSUME IndexClone(t) PROVE TypeOK'
  <2>1. index \in [Key -> IndexEntry]
    BY DEF TypeOK
  <2>2. PICK s \in SetToSeqs({[key |-> k, offset |-> index[k].offset, field_len |-> index[k].field_len] :
                               k \in {x \in Key : index[x] # NoEntry}}) :
               rows' = [rows EXCEPT ![t] = s]
    BY <1>1 DEF IndexClone
  <2>3. s \in Seq(IndexRow)
    BY <2>1, RowsType
  <2>4. rows' \in [Task -> Seq(IndexRow)]
    BY <2>2, <2>3 DEF TypeOK
  <2> QED
    BY <1>1, <2>4 DEF IndexClone, Goto, TypeOK, WritePcs, FlushPcs
<1>2. ASSUME IndexTrunc(t) PROVE TypeOK'
  BY <1>2 DEF IndexTrunc, Goto, TypeOK, WritePcs, FlushPcs
<1>3. ASSUME IndexWrite(t) PROVE TypeOK'
  <2>1. idxFile' \in Seq(IndexRow \cup {Torn})
    BY <1>3, <1>a, OverlayType DEF IndexWrite, TypeOK
  <2> QED
    BY <1>3, <2>1 DEF IndexWrite, Goto, TypeOK, WritePcs, FlushPcs
<1>4. ASSUME IndexSync(t) PROVE TypeOK'
  BY <1>4 DEF IndexSync, Goto, TypeOK, WritePcs, FlushPcs
<1>5. ASSUME FlushStepError(t) PROVE TypeOK'
  <2>1. idxFile' \in Seq(IndexRow \cup {Torn})
    <3>1. CASE UNCHANGED idxFile
      BY <3>1 DEF TypeOK
    <3>2. ASSUME NEW n \in 0 .. Len(rows[t]) - 1,
                 idxFile' = Overlay(idxFile, Append(SubSeq(rows[t], 1, n), Torn))
          PROVE  idxFile' \in Seq(IndexRow \cup {Torn})
      <4>1. SubSeq(rows[t], 1, n) \in Seq(IndexRow \cup {Torn})
        BY <1>a, SubSeqProperties
      <4>2. Append(SubSeq(rows[t], 1, n), Torn) \in Seq(IndexRow \cup {Torn})
        BY <4>1
      <4> QED BY <3>2, <4>2, OverlayType DEF TypeOK
    <3> QED BY <1>5, <3>1, <3>2 DEF FlushStepError
  <2>2. Return(t)
    BY <1>5 DEF FlushStepError
  <2> QED
    BY <1>5, <2>1, <2>2, TypeReturn DEF FlushStepError, TypeOK
<1>6. ASSUME Checkpoint(t) PROVE TypeOK'
  BY <1>6 DEF Checkpoint, Goto, TypeOK, WritePcs, FlushPcs
<1>7. ASSUME CheckpointError(t) PROVE TypeOK'
  <2>1. Return(t)
    BY <1>7 DEF CheckpointError
  <2> QED
    BY <1>7, <2>1, TypeReturn DEF CheckpointError, TypeOK
<1>8. ASSUME CheckpointSync(t) PROVE TypeOK'
  <2>1. Return(t)
    BY <1>8 DEF CheckpointSync
  <2> QED
    BY <1>8, <2>1, TypeReturn DEF CheckpointSync, TypeOK
<1> QED
  BY <1>1, <1>2, <1>3, <1>4, <1>5, <1>6, <1>7, <1>8

\* So does a caller that gives up, wherever it stops waiting.
LEMMA TypeCancel ==
  ASSUME TypeOK, NEW t \in Task
  PROVE  /\ CancelWaiting(t) => TypeOK'
         /\ CancelWrite(t) => TypeOK'
         /\ \A e \in todo[t] : CancelLoop(t, e) => TypeOK'
         /\ CancelRebuild(t) => TypeOK'
         /\ CancelCheckpoint(t) => TypeOK'
<1> USE DEF files, memory
<1>1. ASSUME CancelWaiting(t) PROVE TypeOK'
  <2>1. Return(t)
    BY <1>1 DEF CancelWaiting
  <2> QED
    BY <1>1, <2>1, TypeReturn DEF CancelWaiting, TypeOK
<1>2. ASSUME CancelWrite(t) PROVE TypeOK'
  <2>1. call[t] \in WalEntry
    BY <1>2 DEF CancelWrite, TypeOK, WritePcs
  <2>2. allowed' \in [Key -> SUBSET (Value \cup {None})]
    BY <1>2, <2>1 DEF CancelWrite, TypeOK, WalEntry
  <2>3. /\ walFile' \in Seq(WalEntry \cup {Torn}) /\ walSynced' \in Seq(WalEntry \cup {Torn})
        /\ walLock' \in Task \cup {NoTask}
    <3>1. walFile \in Seq(WalEntry \cup {Torn}) /\ call[t] \in WalEntry \cup {Torn}
      BY <2>1 DEF TypeOK
    <3>2. Append(walFile, call[t]) \in Seq(WalEntry \cup {Torn})
      BY <3>1, AppendProperties
    <3> QED BY <1>2, <3>2 DEF CancelWrite, TypeOK
  <2>4. Return(t)
    BY <1>2 DEF CancelWrite
  <2> QED
    BY <1>2, <2>2, <2>3, <2>4, TypeReturn DEF CancelWrite, TypeOK
<1>3. ASSUME NEW e \in todo[t], CancelLoop(t, e) PROVE TypeOK'
  <2>1. e \in WalEntry /\ plan[t][e.key] \in IndexEntry /\ dbFile.recs \in Seq(Record \cup {Torn})
    BY DEF TypeOK, WalEntry, FileImage
  <2>2. e.val # None => Append(dbFile.recs, [key |-> e.key, val |-> e.val, live |-> TRUE])
                          \in Seq(Record \cup {Torn})
    <3>1. e.val # None => [key |-> e.key, val |-> e.val, live |-> TRUE] \in Record \cup {Torn}
      BY <2>1 DEF WalEntry, Record
    <3> QED BY <2>1, <3>1, AppendProperties
  <2>3. TombstoneOver(dbFile.recs, plan[t][e.key]) \in Seq(Record \cup {Torn})
    BY <2>1, TombstoneOverType
  <2>4. dbFile' \in FileImage
    BY <1>3, <2>2, <2>3 DEF CancelLoop, TypeOK, FileImage
  <2>5. Return(t)
    BY <1>3 DEF CancelLoop
  <2> QED
    BY <1>3, <2>4, <2>5, TypeReturn DEF CancelLoop, TypeOK
<1>4. ASSUME CancelRebuild(t) PROVE TypeOK'
  <2>1. Overlay(idxFile, rows[t]) \in Seq(IndexRow \cup {Torn})
    BY OverlayType DEF TypeOK
  <2>2. /\ idxFile' \in Seq(IndexRow \cup {Torn}) /\ idxSynced' \in Seq(IndexRow \cup {Torn})
        /\ dbSynced' \in FileImage
    <3>1. /\ idxFile' \in {idxFile, <<>>, Overlay(idxFile, rows[t])}
          /\ idxSynced' \in {idxSynced, idxFile}
          /\ dbSynced' \in {dbSynced, dbFile}
      BY <1>4 DEF CancelRebuild
    <3>2. <<>> \in Seq(IndexRow \cup {Torn})
      OBVIOUS
    <3> QED BY <2>1, <3>1, <3>2, Zenon DEF TypeOK
  <2>3. Return(t)
    BY <1>4 DEF CancelRebuild
  <2> QED
    BY <1>4, <2>2, <2>3, TypeReturn DEF CancelRebuild, TypeOK
<1>5. ASSUME CancelCheckpoint(t) PROVE TypeOK'
  <2>1. /\ walFile' \in Seq(WalEntry \cup {Torn}) /\ walSynced' \in Seq(WalEntry \cup {Torn})
        /\ entries' \in Seq(WalEntry) /\ walLock' \in Task \cup {NoTask}
    <3>1. /\ walFile' \in {walFile, <<>>} /\ walSynced' \in {walSynced, walFile}
          /\ entries' \in {entries, <<>>} /\ walLock' \in {walLock, NoTask}
      BY <1>5 DEF CancelCheckpoint
    <3>2. <<>> \in Seq(WalEntry \cup {Torn}) /\ <<>> \in Seq(WalEntry)
      OBVIOUS
    <3> QED BY <3>1, <3>2, Zenon DEF TypeOK
  <2>2. Return(t)
    BY <1>5 DEF CancelCheckpoint
  <2> QED
    BY <1>5, <2>1, <2>2, TypeReturn DEF CancelCheckpoint, TypeOK
<1> QED
  BY <1>1, <1>2, <1>3, <1>4, <1>5

\* What a power failure leaves of the .db file has its type.
LEMMA DbSurvivesType ==
  ASSUME dbFile \in FileImage, dbSynced \in FileImage,
         NEW n \in Len(dbSynced.recs) .. Len(dbFile.recs), NEW D, NEW T
  PROVE  /\ DbSurvives(n, D, T) \in FileImage
         /\ Len(DbSurvives(n, D, T).recs) = n
<1> DEFINE r == [i \in 1 .. n |-> IF i \in T THEN Torn
                                  ELSE IF i \in DOMAIN dbSynced.recs \ D THEN dbSynced.recs[i]
                                  ELSE dbFile.recs[i]]
<1>1. /\ dbFile.recs \in Seq(Record \cup {Torn}) /\ dbSynced.recs \in Seq(Record \cup {Torn})
      /\ dbFile.header \in {"none", "torn", "ok"}
  BY DEF FileImage
<1>2. n \in Nat /\ n <= Len(dbFile.recs)
  BY <1>1
<1>3. \A i \in 1 .. n : r[i] \in Record \cup {Torn}
  BY <1>1, <1>2
<1>4. r \in Seq(Record \cup {Torn}) /\ Len(r) = n
  <2>1. r \in [1 .. n -> Record \cup {Torn}]
    BY <1>3
  <2> HIDE DEF r
  <2> QED BY <1>2, <2>1
<1>5. DbSurvives(n, D, T) = [header |-> dbFile.header, recs |-> r]
  BY DEF DbSurvives
<1> HIDE DEF r
<1> QED
  BY <1>1, <1>4, <1>5 DEF FileImage

\* The images of .db a power failure may leave, one case for each way.
LEMMA DbSurvivorsCases ==
  ASSUME NEW img \in DbSurvivors
  PROVE  \/ img = dbSynced
         \/ \E n \in Len(dbSynced.recs) .. Len(dbFile.recs) :
              \E D \in SUBSET Overwritten :
                \E T \in SUBSET (Overwritten \cup (Len(dbSynced.recs) + 1 .. n)) :
                  img = DbSurvives(n, D, T)
         \/ img = [header |-> "torn", recs |-> <<>>] /\ dbSynced.header # dbFile.header
<1>1. CASE \E n \in Len(dbSynced.recs) .. Len(dbFile.recs) : img \in DbSurvivorsOf(n)
  <2>1. PICK n \in Len(dbSynced.recs) .. Len(dbFile.recs) : img \in DbSurvivorsOf(n)
    BY <1>1
  <2>2. PICK D \in SUBSET Overwritten, T \in TornSets(n) : img = DbSurvives(n, D, T)
    BY <2>1 DEF DbSurvivorsOf
  <2>3. T \in SUBSET (Overwritten \cup (Len(dbSynced.recs) + 1 .. n))
    BY DEF TornSets
  <2> QED BY <2>2, <2>3
<1>2. CASE img \in TornHeaders
  BY <1>2 DEF TornHeaders
<1>3. CASE img = dbSynced
  BY <1>3
<1> QED
  BY <1>1, <1>2, <1>3 DEF DbSurvivors

\* What a power failure leaves of .dbidx and .wal has their types.
LEMMA SurvivorsType ==
  ASSUME NEW A, Torn \in A, NEW file \in Seq(A), NEW synced \in Seq(A),
         NEW s \in Survivors(file, synced)
  PROVE  s \in Seq(A)
<1>1. \A n \in 0 .. Len(file) : SubSeq(file, 1, n) \in Seq(A)
  BY SubSeqProperties
<1>2. \A n \in 0 .. Len(file) : Append(SubSeq(file, 1, n), Torn) \in Seq(A)
  BY <1>1, AppendProperties
<1>3. Cuts(file) \subseteq Seq(A)
  <2> SUFFICES ASSUME NEW c \in Cuts(file) PROVE c \in Seq(A)
    OBVIOUS
  <2>1. CASE \E n \in 0 .. Len(file) : c = SubSeq(file, 1, n)
    BY <1>1, <2>1
  <2>2. CASE \E n \in 0 .. Len(file) - 1 : c = Append(SubSeq(file, 1, n), Torn)
    <3>1. 0 .. Len(file) - 1 \subseteq 0 .. Len(file)
      OBVIOUS
    <3> QED BY <1>2, <2>2, <3>1
  <2> QED BY <2>1, <2>2 DEF Cuts
<1> QED
  BY <1>3 DEF Survivors

\* open, close and crashes keep the type invariant.
LEMMA TypeLifecycle ==
  ASSUME TypeOK
  PROVE  /\ OpenNew => TypeOK'
         /\ OpenInit => TypeOK'
         /\ OpenFails => TypeOK'
         /\ Close => TypeOK'
         /\ Kill => TypeOK'
         /\ PowerLoss => TypeOK'
<1> USE DEF files, memory, locals, ghosts
<1>a. Intact(walFile) => walFile \in Seq(WalEntry)
  BY IntactType DEF TypeOK
<1>b. dbFile.recs \in Seq(Record \cup {Torn})
  BY DEF TypeOK, FileImage
<1>c. AllowedAfterCrash \in [Key -> SUBSET (Value \cup {None})]
  <2>1. \A k \in Key : \A t \in InFlight(k) : call[t].val \in Value \cup {None}
    BY DEF InFlight, TypeOK, WalEntry
  <2>2. \A k \in Key : {call[t].val : t \in {u \in InFlight(k) : pc[u] # "append"}} \subseteq Value \cup {None}
    BY <2>1
  <2> QED
    BY <2>2 DEF AllowedAfterCrash, TypeOK
<1>1. ASSUME OpenNew PROVE TypeOK'
  <2>1. dbFile' \in FileImage
    BY <1>1 DEF OpenNew, FileImage
  <2>2. index' \in [Key -> IndexEntry]
    BY <1>1 DEF OpenNew, NoIndex, NoEntry, IndexEntry
  <2> QED
    BY <1>1, <1>a, <2>1, <2>2 DEF OpenNew, NoFields, TypeOK
<1>2. ASSUME OpenInit PROVE TypeOK'
  <2>1. fields' \in [Key -> Value \cup {None}]
    BY <1>2, <1>b, DecodeDbFileType, ReplayType DEF OpenInit, TypeOK
  <2>2. index' \in [Key -> IndexEntry]
    BY <1>2, <1>b, IndexFromDbType, IndexFromRowsType DEF OpenInit, TypeOK
  <2> QED
    BY <1>2, <1>a, <2>1, <2>2 DEF OpenInit, TypeOK
<1>3. ASSUME OpenFails PROVE TypeOK'
  BY <1>3 DEF OpenFails, TypeOK
<1>4. ASSUME Close PROVE TypeOK'
  <2>1. Forget
    BY <1>4 DEF Close
  <2> QED
    BY <1>4, <2>1, TypeForget DEF Close, TypeOK
<1>5. ASSUME Kill PROVE TypeOK'
  <2>1. Forget
    BY <1>5 DEF Kill
  <2> QED
    BY <1>5, <1>c, <2>1, TypeForget DEF Kill, TypeOK
<1>6. ASSUME PowerLoss PROVE TypeOK'
  <2>1. Forget
    BY <1>6 DEF PowerLoss
  <2>2. DbSurvivors \subseteq FileImage
    <3> SUFFICES ASSUME NEW img \in DbSurvivors PROVE img \in FileImage
      OBVIOUS
    <3>1. dbFile \in FileImage /\ dbSynced \in FileImage
      BY DEF TypeOK
    <3>2. [header |-> "torn", recs |-> <<>>] \in FileImage
      BY DEF FileImage
    <3> QED BY <3>1, <3>2, DbSurvivorsCases, DbSurvivesType
  <2>3. dbFile' \in FileImage /\ dbSynced' \in FileImage
    BY <1>6, <2>2 DEF PowerLoss
  <2>4. idxFile' \in Seq(IndexRow \cup {Torn}) /\ idxSynced' \in Seq(IndexRow \cup {Torn})
    BY <1>6, SurvivorsType DEF PowerLoss, TypeOK
  <2>5. walFile' \in Seq(WalEntry \cup {Torn}) /\ walSynced' \in Seq(WalEntry \cup {Torn})
    BY <1>6, SurvivorsType DEF PowerLoss, TypeOK
  <2> QED
    BY <1>6, <1>c, <2>1, <2>3, <2>4, <2>5, TypeForget DEF PowerLoss, TypeOK
<1> QED
  BY <1>1, <1>2, <1>3, <1>4, <1>5, <1>6

\* Every step keeps the type invariant.
LEMMA TypeStep == TypeOK /\ [Next]_vars => TypeOK'
<1> SUFFICES ASSUME TypeOK, [Next]_vars PROVE TypeOK'
  OBVIOUS
<1>1. CASE Program
  <2>1. PICK t \in Task :
          Call(t) \/ LockSteps(t) \/ OtherSteps(t) \/ ErrorSteps(t) \/ CancelSteps(t)
    BY <1>1 DEF Program
  <2> QED
    BY <2>1, TypeWrite, TypeFlush, TypeRebuild, TypeCancel
       DEF Call, LockSteps, OtherSteps, ErrorSteps, CancelSteps
<1>2. CASE UNCHANGED vars
  BY <1>2 DEF vars, files, memory, locals, ghosts, TypeOK
<1> QED
  BY <1>1, <1>2, TypeLifecycle DEF Next

\* Every value in the files, in memory and in the callers' local variables
\* has its type, for any number of keys, fields, callers and calls; in
\* particular no undecodable entry ever gets from the log into Wal::entries.
THEOREM TypeCorrect == Spec => []TypeOK
<1>1. Init => TypeOK
  BY TypeInit
<1>2. TypeOK /\ [Next]_vars => TypeOK'
  BY TypeStep
<1> QED
  BY <1>1, <1>2, PTL DEF Spec

-----------------------------------------------------------------------------
(***************************************************************************)
(* Covers.                                                                 *)
(***************************************************************************)

\* A record sequence covers itself.
LEMMA CoversRefl ==
  ASSUME NEW r \in Seq(Record \cup {Torn})
  PROVE  Covers(r, r)
BY DEF Covers

\* Covering composes: two rounds of writes are one.
LEMMA CoversTrans ==
  ASSUME NEW a \in Seq(Record \cup {Torn}), NEW b \in Seq(Record \cup {Torn}),
         NEW c \in Seq(Record \cup {Torn}), Covers(a, b), Covers(b, c)
  PROVE  Covers(a, c)
<1>1. Len(a) <= Len(c)
  BY DEF Covers
<1>2. ASSUME NEW i \in 1 .. Len(a), c[i] # Torn
      PROVE  a[i] # Torn /\ c[i].key = a[i].key /\ c[i].val = a[i].val
  <2>1. i \in 1 .. Len(b)
    BY DEF Covers
  <2>2. b[i] # Torn /\ c[i].key = b[i].key /\ c[i].val = b[i].val
    BY <1>2, <2>1 DEF Covers
  <2> QED BY <2>2 DEF Covers
<1> QED BY <1>1, <1>2 DEF Covers

\* Appending a record, whole or torn, keeps what was there.
LEMMA CoversAppend ==
  ASSUME NEW r \in Seq(Record \cup {Torn}), NEW x \in Record \cup {Torn}
  PROVE  Covers(r, Append(r, x))
<1>1. Len(Append(r, x)) = Len(r) + 1 /\ \A i \in 1 .. Len(r) : Append(r, x)[i] = r[i]
  BY AppendProperties
<1> QED BY <1>1 DEF Covers

\* Tearing a record keeps the positions of all records.
LEMMA CoversTorn ==
  ASSUME NEW r \in Seq(Record \cup {Torn}), NEW n \in 1 .. Len(r)
  PROVE  Covers(r, [r EXCEPT ![n] = Torn])
BY DEF Covers

\* A tombstone keeps the key and lengths of the record it covers, or tears it.
LEMMA CoversTombstone ==
  ASSUME NEW r \in Seq(Record \cup {Torn}), NEW e \in IndexEntry
  PROVE  Covers(r, TombstoneOver(r, e))
<1>1. CASE e.offset \notin 1 .. Len(r)
  BY <1>1, CoversAppend DEF TombstoneOver
<1>2. CASE e.offset \in 1 .. Len(r) /\ r[e.offset] # Torn /\ FieldLen[r[e.offset].val] = e.field_len
  <2> DEFINE dead == [r[e.offset] EXCEPT !.live = FALSE]
  <2>1. r[e.offset] \in Record
    BY <1>2
  <2>2. dead.key = r[e.offset].key /\ dead.val = r[e.offset].val
    BY <2>1 DEF Record
  <2>3. TombstoneOver(r, e) = [r EXCEPT ![e.offset] = dead]
    BY <1>2 DEF TombstoneOver
  <2> HIDE DEF dead
  <2> QED BY <1>2, <2>2, <2>3 DEF Covers
<1>3. CASE e.offset \in 1 .. Len(r) /\ ~ (r[e.offset] # Torn /\ FieldLen[r[e.offset].val] = e.field_len)
  <2>1. TombstoneOver(r, e) = [r EXCEPT ![e.offset] = Torn]
    BY <1>3 DEF TombstoneOver
  <2> QED BY <1>3, <2>1, CoversTorn
<1> QED BY <1>1, <1>2, <1>3

\* An entry that points into a file points into every file covering it.
LEMMA PointsCovered ==
  ASSUME NEW a \in Seq(Record \cup {Torn}), NEW b \in Seq(Record \cup {Torn}), Covers(a, b),
         NEW k, NEW e, PointsTo(a, k, e)
  PROVE  PointsTo(b, k, e)
BY DEF Covers, PointsTo

\* So does a whole index.
LEMMA EntriesCovered ==
  ASSUME NEW a \in Seq(Record \cup {Torn}), NEW b \in Seq(Record \cup {Torn}), Covers(a, b),
         NEW idx, EntriesPointInto(a, idx)
  PROVE  EntriesPointInto(b, idx)
BY PointsCovered DEF EntriesPointInto

\* So do the rows of a .dbidx image.
LEMMA RowsCovered ==
  ASSUME NEW a \in Seq(Record \cup {Torn}), NEW b \in Seq(Record \cup {Torn}), Covers(a, b),
         NEW s, RowsPointInto(a, s)
  PROVE  RowsPointInto(b, s)
BY PointsCovered DEF RowsPointInto

\* Empty indexes and empty .dbidx files point nowhere.
LEMMA NothingPoints ==
  ASSUME NEW recs
  PROVE  EntriesPointInto(recs, NoIndex) /\ RowsPointInto(recs, <<>>)
BY DEF EntriesPointInto, NoIndex, RowsPointInto

-----------------------------------------------------------------------------
(***************************************************************************)
(* A step of a running database that does not sync the .db file.           *)
(***************************************************************************)

\* What a step of the running program must keep for IndexInv to hold after it.
LEMMA RunningStep ==
  ASSUME TypeOK, TypeOK', IndexInv,
         status = "up", status' = "up",
         dbSynced' = dbSynced, dbFile'.header = dbFile.header,
         Covers(dbFile.recs, dbFile'.recs),
         RowsPointInto(dbSynced.recs, idxFile'), RowsPointInto(dbSynced.recs, idxSynced'),
         EntriesPointInto(dbFile'.recs, index'),
         \A u \in Task :
           /\ rows'[u] = rows[u] \/ RowsPointInto(dbSynced.recs, rows'[u])
           /\ plan'[u] = plan[u] \/ EntriesPointInto(dbFile'.recs, plan'[u])
           /\ fresh'[u] = fresh[u] \/ (pc'[u] # "index" /\ EntriesPointInto(dbFile'.recs, fresh'[u]))
           /\ pc'[u] \in AfterSync => EntriesPointInto(dbSynced.recs, index')
           /\ pc'[u] = "index" => pc[u] = "index"
           /\ pc'[u] = "idle" => plan'[u] = NoIndex /\ fresh'[u] = NoIndex
  PROVE  IndexInv'
<1>a. /\ dbFile.recs \in Seq(Record \cup {Torn}) /\ dbFile'.recs \in Seq(Record \cup {Torn})
      /\ dbSynced.recs \in Seq(Record \cup {Torn})
  BY DEF TypeOK, FileImage
<1>1. IndexSound'
  <2>1. ASSUME NEW u \in Task
        PROVE  EntriesPointInto(dbFile'.recs, plan'[u]) /\ EntriesPointInto(dbFile'.recs, fresh'[u])
    <3>1. EntriesPointInto(dbFile.recs, plan[u]) /\ EntriesPointInto(dbFile.recs, fresh[u])
      BY DEF IndexInv, IndexSound
    <3>2. EntriesPointInto(dbFile'.recs, plan[u]) /\ EntriesPointInto(dbFile'.recs, fresh[u])
      BY <1>a, <3>1, EntriesCovered
    <3> QED BY <3>2
  <2> QED BY <2>1 DEF IndexSound
<1>2. RowsDurable'
  BY DEF IndexInv, RowsDurable
<1>3. SyncedBelow'
  BY <1>a, CoversTrans DEF IndexInv, SyncedBelow
<1>4. HeaderFirst'
  BY DEF IndexInv, HeaderFirst
<1>5. IndexDurable'
  BY DEF IndexInv, IndexDurable
<1>6. CallsNeedOpen'
  BY DEF CallsNeedOpen
<1> QED
  BY <1>1, <1>2, <1>3, <1>4, <1>5, <1>6 DEF IndexInv

\* A step that touches neither the index nor its copies, except that a call
\* may return.
LEMMA QuietStep ==
  ASSUME TypeOK, TypeOK', IndexInv,
         status = "up", status' = "up",
         UNCHANGED <<dbSynced, idxFile, idxSynced, index>>,
         dbFile'.header = dbFile.header, Covers(dbFile.recs, dbFile'.recs),
         \A u \in Task :
           /\ rows'[u] = rows[u] \/ rows'[u] = <<>>
           /\ \/ plan'[u] = plan[u] /\ fresh'[u] = fresh[u] /\ pc'[u] # "idle"
              \/ plan'[u] = NoIndex /\ fresh'[u] = NoIndex /\ pc'[u] # "index"
              \/ UNCHANGED <<plan[u], fresh[u], pc[u]>>
           /\ pc'[u] \in AfterSync => pc[u] \in AfterSync
           /\ pc'[u] = "index" => pc[u] = "index"
  PROVE  IndexInv'
<1>a. /\ dbFile.recs \in Seq(Record \cup {Torn}) /\ dbFile'.recs \in Seq(Record \cup {Torn})
  BY DEF TypeOK, FileImage
<1>1. RowsPointInto(dbSynced.recs, idxFile') /\ RowsPointInto(dbSynced.recs, idxSynced')
  BY DEF IndexInv, RowsDurable
<1>2. EntriesPointInto(dbFile'.recs, index')
  <2>1. EntriesPointInto(dbFile.recs, index)
    BY DEF IndexInv, IndexSound
  <2>2. EntriesPointInto(dbFile'.recs, index)
    BY <1>a, <2>1, EntriesCovered
  <2> QED BY <2>2
<1>3. ASSUME NEW u \in Task
      PROVE  /\ rows'[u] = rows[u] \/ RowsPointInto(dbSynced.recs, rows'[u])
             /\ plan'[u] = plan[u] \/ EntriesPointInto(dbFile'.recs, plan'[u])
             /\ fresh'[u] = fresh[u] \/ (pc'[u] # "index" /\ EntriesPointInto(dbFile'.recs, fresh'[u]))
             /\ pc'[u] \in AfterSync => EntriesPointInto(dbSynced.recs, index')
             /\ pc'[u] = "index" => pc[u] = "index"
             /\ pc'[u] = "idle" => plan'[u] = NoIndex /\ fresh'[u] = NoIndex
  <2>1. rows'[u] = rows[u] \/ RowsPointInto(dbSynced.recs, rows'[u])
    BY NothingPoints
  <2>2. /\ plan'[u] = plan[u] \/ EntriesPointInto(dbFile'.recs, plan'[u])
        /\ fresh'[u] = fresh[u] \/ (pc'[u] # "index" /\ EntriesPointInto(dbFile'.recs, fresh'[u]))
    BY NothingPoints
  <2>3. pc'[u] \in AfterSync => EntriesPointInto(dbSynced.recs, index')
    BY DEF IndexInv, IndexDurable
  <2>4. pc'[u] = "idle" => plan'[u] = NoIndex /\ fresh'[u] = NoIndex
    BY DEF IndexInv, CallsNeedOpen
  <2> QED BY <2>1, <2>2, <2>3, <2>4
<1> QED
  BY <1>1, <1>2, <1>3, RunningStep

\* What Goto does to the conditions of QuietStep.
LEMMA QuietGoto ==
  ASSUME TypeOK, NEW t \in Task, NEW label, Goto(t, label), label # "idle", label # "index",
         label \in AfterSync => pc[t] \in AfterSync,
         UNCHANGED <<plan, fresh, rows>>
  PROVE  \A u \in Task :
           /\ rows'[u] = rows[u] \/ rows'[u] = <<>>
           /\ \/ plan'[u] = plan[u] /\ fresh'[u] = fresh[u] /\ pc'[u] # "idle"
              \/ plan'[u] = NoIndex /\ fresh'[u] = NoIndex /\ pc'[u] # "index"
              \/ UNCHANGED <<plan[u], fresh[u], pc[u]>>
           /\ pc'[u] \in AfterSync => pc[u] \in AfterSync
           /\ pc'[u] = "index" => pc[u] = "index"
BY DEF TypeOK, Goto

\* What Return does to the conditions of QuietStep.
LEMMA QuietReturn ==
  ASSUME TypeOK, NEW t \in Task, Return(t)
  PROVE  \A u \in Task :
           /\ rows'[u] = rows[u] \/ rows'[u] = <<>>
           /\ \/ plan'[u] = plan[u] /\ fresh'[u] = fresh[u] /\ pc'[u] # "idle"
              \/ plan'[u] = NoIndex /\ fresh'[u] = NoIndex /\ pc'[u] # "index"
              \/ UNCHANGED <<plan[u], fresh[u], pc[u]>>
           /\ pc'[u] \in AfterSync => pc[u] \in AfterSync
           /\ pc'[u] = "index" => pc[u] = "index"
BY DEF TypeOK, Return, Goto, AfterSync

\* set, delete and the steps of flush that leave the index alone keep IndexInv.
LEMMA IndexQuiet ==
  ASSUME TypeOK, TypeOK', IndexInv, NEW t \in Task
  PROVE  /\ \A k \in Key : \A v \in Value \cup {None} : CallWrite(t, k, v) => IndexInv'
         /\ AppendEntry(t) => IndexInv'
         /\ AppendEntryError(t) => IndexInv'
         /\ AppendEntrySync(t) => IndexInv'
         /\ AppendEntrySyncError(t) => IndexInv'
         /\ ApplyWrite(t) => IndexInv'
         /\ CallFlush(t) => IndexInv'
         /\ PopUncommitted(t) => IndexInv'
         /\ UpdateRecordCount(t) => IndexInv'
         /\ Checkpoint(t) => IndexInv'
         /\ CheckpointError(t) => IndexInv'
         /\ CheckpointSync(t) => IndexInv'
<1> USE DEF files, memory, locals, ghosts
<1>a. pc[t] # "idle" => status = "up"
  BY DEF IndexInv, CallsNeedOpen
<1>b. Covers(dbFile.recs, dbFile.recs)
  BY CoversRefl DEF TypeOK, FileImage
<1>1. ASSUME NEW k \in Key, NEW v \in Value \cup {None}, CallWrite(t, k, v) PROVE IndexInv'
  <2>1. Goto(t, "append") /\ UNCHANGED <<plan, fresh, rows>>
    BY <1>1 DEF CallWrite
  <2> QED BY <1>1, <1>b, <2>1, QuietGoto, QuietStep DEF CallWrite, AfterSync
<1>2. ASSUME AppendEntry(t) PROVE IndexInv'
  <2>1. Goto(t, "append_sync") /\ UNCHANGED <<plan, fresh, rows>>
    BY <1>2 DEF AppendEntry
  <2> QED BY <1>2, <1>a, <1>b, <2>1, QuietGoto, QuietStep DEF AppendEntry, AfterSync
<1>3. ASSUME AppendEntryError(t) PROVE IndexInv'
  BY <1>3, <1>a, <1>b, QuietReturn, QuietStep DEF AppendEntryError
<1>4. ASSUME AppendEntrySync(t) PROVE IndexInv'
  <2>1. Goto(t, "apply") /\ UNCHANGED <<plan, fresh, rows>>
    BY <1>4 DEF AppendEntrySync
  <2> QED BY <1>4, <1>a, <1>b, <2>1, QuietGoto, QuietStep DEF AppendEntrySync, AfterSync
<1>5. ASSUME AppendEntrySyncError(t) PROVE IndexInv'
  BY <1>5, <1>a, <1>b, QuietReturn, QuietStep DEF AppendEntrySyncError
<1>6. ASSUME ApplyWrite(t) PROVE IndexInv'
  BY <1>6, <1>a, <1>b, QuietReturn, QuietStep DEF ApplyWrite
<1>7. ASSUME CallFlush(t) PROVE IndexInv'
  <2>1. Goto(t, "pop") /\ UNCHANGED <<plan, fresh, rows>>
    BY <1>7 DEF CallFlush
  <2> QED BY <1>7, <1>b, <2>1, QuietGoto, QuietStep DEF CallFlush, AfterSync
<1>8. ASSUME PopUncommitted(t) PROVE IndexInv'
  <2>1. Goto(t, "plan") /\ UNCHANGED <<plan, fresh, rows>>
    BY <1>8 DEF PopUncommitted
  <2> QED BY <1>8, <1>a, <1>b, <2>1, QuietGoto, QuietStep DEF PopUncommitted, AfterSync
<1>9. ASSUME UpdateRecordCount(t) PROVE IndexInv'
  <2>1. Goto(t, "clone") /\ UNCHANGED <<plan, fresh, rows>>
    BY <1>9 DEF UpdateRecordCount
  <2> QED BY <1>9, <1>a, <1>b, <2>1, QuietGoto, QuietStep DEF UpdateRecordCount, AfterSync
<1>10. ASSUME Checkpoint(t) PROVE IndexInv'
  <2>1. Goto(t, "checkpoint_sync") /\ UNCHANGED <<plan, fresh, rows>>
    BY <1>10 DEF Checkpoint
  <2> QED BY <1>10, <1>a, <1>b, <2>1, QuietGoto, QuietStep DEF Checkpoint, AfterSync
<1>11. ASSUME CheckpointError(t) PROVE IndexInv'
  BY <1>11, <1>a, <1>b, QuietReturn, QuietStep DEF CheckpointError
<1>12. ASSUME CheckpointSync(t) PROVE IndexInv'
  BY <1>12, <1>a, <1>b, QuietReturn, QuietStep DEF CheckpointSync
<1> QED
  BY <1>1, <1>2, <1>3, <1>4, <1>5, <1>6, <1>7, <1>8, <1>9, <1>10, <1>11, <1>12

-----------------------------------------------------------------------------
(***************************************************************************)
(* The steps of flush that write records, and what they do to the file.    *)
(***************************************************************************)

\* A step of the write loop, carried out, failed or abandoned.
LoopStep(t, e) == FlushSet(t, e) \/ FlushDelete(t, e) \/ FlushWriteError(t, e) \/ CancelLoop(t, e)

\* The write loop of flush only appends records, or turns the record a plan
\* entry points at into a tombstone (or, on an error, tears it).
LEMMA WriteLoopCovers ==
  ASSUME TypeOK, NEW t \in Task, NEW e \in todo[t],
         LoopStep(t, e)
  PROVE  dbFile'.header = dbFile.header /\ Covers(dbFile.recs, dbFile'.recs)
<1>a. dbFile \in FileImage /\ dbFile.recs \in Seq(Record \cup {Torn})
  BY DEF TypeOK, FileImage
<1>b. e \in WalEntry
  BY DEF TypeOK
<1>1. CASE FlushSet(t, e)
  <2> DEFINE new == [key |-> e.key, val |-> e.val, live |-> TRUE]
  <2>1. new \in Record \cup {Torn}
    BY <1>1, <1>b DEF FlushSet, WalEntry, Record
  <2>2. dbFile' = [dbFile EXCEPT !.recs = Append(dbFile.recs, new)]
    BY <1>1 DEF FlushSet
  <2>3. dbFile'.recs = Append(dbFile.recs, new) /\ dbFile'.header = dbFile.header
    BY <1>a, <2>2 DEF FileImage
  <2> HIDE DEF new
  <2> QED BY <1>a, <2>1, <2>3, CoversAppend
<1>2. CASE FlushDelete(t, e)
  <2>1. plan[t][e.key] \in IndexEntry
    BY <1>b DEF TypeOK, WalEntry
  <2>2. CASE plan[t][e.key] = NoEntry
    BY <1>2, <1>a, <2>2, CoversRefl DEF FlushDelete
  <2>3. CASE plan[t][e.key] # NoEntry
    <3>1. dbFile'.recs = TombstoneOver(dbFile.recs, plan[t][e.key]) /\ dbFile'.header = dbFile.header
      BY <1>2, <1>a, <2>3 DEF FlushDelete, FileImage
    <3> QED BY <1>a, <2>1, <3>1, CoversTombstone
  <2> QED BY <2>2, <2>3
<1>3. CASE FlushWriteError(t, e)
  <2>1. CASE UNCHANGED dbFile
    BY <1>a, <2>1, CoversRefl
  <2>2. CASE dbFile' = [dbFile EXCEPT !.recs = Append(@, Torn)]
    <3>1. dbFile'.recs = Append(dbFile.recs, Torn) /\ dbFile'.header = dbFile.header
      BY <1>a, <2>2 DEF FileImage
    <3> QED BY <1>a, <3>1, CoversAppend
  <2>3. CASE /\ plan[t][e.key].offset \in 1 .. Len(dbFile.recs)
             /\ dbFile' = [dbFile EXCEPT !.recs[plan[t][e.key].offset] = Torn]
    <3>1. /\ dbFile'.recs = [dbFile.recs EXCEPT ![plan[t][e.key].offset] = Torn]
          /\ dbFile'.header = dbFile.header
      BY <1>a, <2>3 DEF FileImage
    <3> QED BY <1>a, <2>3, <3>1, CoversTorn
  <2> QED BY <1>3, <2>1, <2>2, <2>3 DEF FlushWriteError
<1>4. CASE CancelLoop(t, e)
  <2>1. CASE e.val # None
    <3> DEFINE new == [key |-> e.key, val |-> e.val, live |-> TRUE]
    <3>1. new \in Record \cup {Torn}
      BY <1>b, <2>1 DEF WalEntry, Record
    <3>2. dbFile'.recs = Append(dbFile.recs, new) /\ dbFile'.header = dbFile.header
      BY <1>4, <1>a, <2>1 DEF CancelLoop, FileImage
    <3> HIDE DEF new
    <3> QED BY <1>a, <3>1, <3>2, CoversAppend
  <2>2. CASE e.val = None /\ plan[t][e.key] = NoEntry
    BY <1>4, <1>a, <2>2, CoversRefl DEF CancelLoop
  <2>3. CASE e.val = None /\ plan[t][e.key] # NoEntry
    <3>1. plan[t][e.key] \in IndexEntry
      BY <1>b DEF TypeOK, WalEntry
    <3>2. dbFile'.recs = TombstoneOver(dbFile.recs, plan[t][e.key]) /\ dbFile'.header = dbFile.header
      BY <1>4, <1>a, <2>3 DEF CancelLoop, FileImage
    <3> QED BY <1>a, <3>1, <3>2, CoversTombstone
  <2> QED BY <2>1, <2>2, <2>3
<1> QED BY <1>1, <1>2, <1>3, <1>4 DEF LoopStep

\* The write loop of flush keeps IndexInv: it covers the file it found, and the
\* entry it notes for an appended record points at that record.
LEMMA IndexWriteLoop ==
  ASSUME TypeOK, TypeOK', IndexInv, NEW t \in Task
  PROVE  /\ FlushPlan(t) => IndexInv'
         /\ \A e \in todo[t] : FlushSet(t, e) => IndexInv'
         /\ \A e \in todo[t] : FlushDelete(t, e) => IndexInv'
         /\ \A e \in todo[t] : FlushWriteError(t, e) => IndexInv'
<1> USE DEF files, memory, locals, ghosts
<1>a. pc[t] # "idle" => status = "up"
  BY DEF IndexInv, CallsNeedOpen
<1>b. /\ RowsPointInto(dbSynced.recs, idxFile) /\ RowsPointInto(dbSynced.recs, idxSynced)
  BY DEF IndexInv, RowsDurable
<1>c. /\ dbFile \in FileImage
      /\ dbFile.recs \in Seq(Record \cup {Torn}) /\ dbFile'.recs \in Seq(Record \cup {Torn})
  BY DEF TypeOK, FileImage
<1>d. status = "up" => EntriesPointInto(dbFile.recs, index)
  BY DEF IndexInv, IndexSound
<1>1. ASSUME FlushPlan(t) PROVE IndexInv'
  <2>1. EntriesPointInto(dbFile.recs, plan'[t])
    <3>1. plan'[t] = [k \in Key |-> IF [key |-> k, val |-> None] \in todo[t] THEN index[k] ELSE NoEntry]
      BY <1>1 DEF FlushPlan, TypeOK
    <3> QED BY <1>1, <1>a, <1>d, <3>1 DEF FlushPlan, EntriesPointInto
  <2>2. \A u \in Task : u # t => plan'[u] = plan[u] /\ pc'[u] = pc[u]
    BY <1>1 DEF FlushPlan, Goto, TypeOK
  <2>3. pc'[t] = "write" /\ UNCHANGED <<dbFile, dbSynced, idxFile, idxSynced, index, status, rows, fresh>>
    BY <1>1 DEF FlushPlan, Goto, TypeOK
  <2>4. \A u \in Task : pc'[u] \in AfterSync => EntriesPointInto(dbSynced.recs, index)
    BY <2>2, <2>3 DEF IndexInv, IndexDurable, AfterSync
  <2>5. \A u \in Task : pc'[u] = "idle" => plan'[u] = NoIndex /\ fresh'[u] = NoIndex
    BY <2>2, <2>3 DEF IndexInv, CallsNeedOpen
  <2>6. status = "up"
    BY <1>1, <1>a DEF FlushPlan
  <2> QED
    BY <1>b, <1>c, <1>d, <2>1, <2>2, <2>3, <2>4, <2>5, <2>6, CoversRefl, RunningStep
<1>2. ASSUME NEW e \in todo[t], FlushSet(t, e) PROVE IndexInv'
  <2>1. dbFile'.header = dbFile.header /\ Covers(dbFile.recs, dbFile'.recs)
    BY <1>2, WriteLoopCovers DEF LoopStep
  <2>2. e.key \in Key /\ e.val \in Value
    BY <1>2 DEF FlushSet, TypeOK, WalEntry
  <2>3. EntriesPointInto(dbFile'.recs, fresh'[t])
    <3> DEFINE new == [key |-> e.key, val |-> e.val, live |-> TRUE]
               here == [offset |-> Len(dbFile.recs) + 1, field_len |-> FieldLen[e.val]]
    <3>1. new \in Record \cup {Torn} /\ new.key = e.key /\ new.val = e.val
      BY <2>2 DEF Record
    <3>2. dbFile'.recs = Append(dbFile.recs, new)
      BY <1>2, <1>c DEF FlushSet, FileImage
    <3>3. Len(dbFile'.recs) = Len(dbFile.recs) + 1 /\ dbFile'.recs[Len(dbFile.recs) + 1] = new
      <4> HIDE DEF new
      <4> QED BY <1>c, <3>1, <3>2, AppendProperties
    <3>4. PointsTo(dbFile'.recs, e.key, here)
      <4>1. here.offset = Len(dbFile.recs) + 1 /\ here.field_len = FieldLen[e.val]
        OBVIOUS
      <4>2. here.offset \in 1 .. Len(dbFile'.recs)
        BY <1>c, <3>3, <4>1
      <4> HIDE DEF new, here
      <4> QED BY <3>1, <3>3, <4>1, <4>2 DEF PointsTo
    <3>5. fresh'[t] = [fresh[t] EXCEPT ![e.key] = here]
      BY <1>2 DEF FlushSet, TypeOK
    <3>6. EntriesPointInto(dbFile'.recs, fresh[t])
      <4>1. EntriesPointInto(dbFile.recs, fresh[t])
        BY <1>2, <1>a DEF FlushSet, IndexInv, IndexSound
      <4> QED BY <1>c, <2>1, <4>1, EntriesCovered
    <3>7. fresh[t] \in [Key -> IndexEntry]
      BY DEF TypeOK
    <3> HIDE DEF here
    <3> QED BY <2>2, <3>4, <3>5, <3>6, <3>7 DEF EntriesPointInto
  <2>4. \A u \in Task : u # t => fresh'[u] = fresh[u]
    BY <1>2 DEF FlushSet, TypeOK
  <2>5. EntriesPointInto(dbFile'.recs, index)
    BY <1>2, <1>a, <1>c, <1>d, <2>1, EntriesCovered DEF FlushSet
  <2>6. \A u \in Task : pc[u] \in AfterSync => EntriesPointInto(dbSynced.recs, index)
    BY DEF IndexInv, IndexDurable
  <2>7. \A u \in Task : pc[u] = "idle" => plan[u] = NoIndex /\ fresh'[u] = NoIndex
    BY <1>2, <2>4 DEF FlushSet, IndexInv, CallsNeedOpen
  <2>8. pc[t] = "write" /\ status = "up"
    BY <1>2, <1>a DEF FlushSet
  <2>9. UNCHANGED <<dbSynced, idxFile, idxSynced, index, status, rows, plan, pc>>
    BY <1>2 DEF FlushSet
  <2> QED
    BY <1>b, <2>1, <2>3, <2>4, <2>5, <2>6, <2>7, <2>8, <2>9, RunningStep
<1>3. ASSUME NEW e \in todo[t], FlushDelete(t, e) PROVE IndexInv'
  <2>1. dbFile'.header = dbFile.header /\ Covers(dbFile.recs, dbFile'.recs)
    BY <1>3, WriteLoopCovers DEF LoopStep
  <2>2. UNCHANGED <<dbSynced, idxFile, idxSynced, index, status, rows, plan, fresh, pc>>
    BY <1>3 DEF FlushDelete
  <2>3. status = "up"
    BY <1>3, <1>a DEF FlushDelete
  <2> QED
    BY <2>1, <2>2, <2>3, QuietStep
<1>4. ASSUME NEW e \in todo[t], FlushWriteError(t, e) PROVE IndexInv'
  <2>1. dbFile'.header = dbFile.header /\ Covers(dbFile.recs, dbFile'.recs)
    BY <1>4, WriteLoopCovers DEF LoopStep
  <2>2. UNCHANGED <<dbSynced, idxFile, idxSynced, index, status>> /\ Return(t)
    BY <1>4 DEF FlushWriteError
  <2>3. status = "up"
    BY <1>4, <1>a DEF FlushWriteError
  <2> QED
    BY <2>1, <2>2, <2>3, QuietReturn, QuietStep
<1> QED
  BY <1>1, <1>2, <1>3, <1>4

-----------------------------------------------------------------------------
(***************************************************************************)
(* The sync, the update of the index and rebuild_index.                    *)
(***************************************************************************)

\* Two flushes that both write .dbidx leave a mix of rows that all point well.
LEMMA OverlayRows ==
  ASSUME NEW file \in Seq(IndexRow \cup {Torn}), NEW data \in Seq(IndexRow \cup {Torn}), NEW recs,
         RowsPointInto(recs, file), RowsPointInto(recs, data)
  PROVE  RowsPointInto(recs, Overlay(file, data))
<1> DEFINE rest == SubSeq(file, Len(data) + 1, Len(file))
<1>1. rest \in Seq(IndexRow \cup {Torn})
  BY SubSeqProperties
<1>2. \A i \in 1 .. Len(rest) : /\ Len(data) + i \in 1 .. Len(file)
                                /\ rest[i] = file[Len(data) + i]
  <2>1. Len(rest) = IF Len(data) + 1 <= Len(file) THEN Len(file) - Len(data) ELSE 0
    BY SubSeqProperties
  <2>2. \A i \in 1 .. Len(file) - Len(data) : rest[i] = file[Len(data) + i]
    BY SubSeqProperties
  <2> HIDE DEF rest
  <2> QED BY <2>1, <2>2
<1> HIDE DEF rest
<1>3. /\ Len(data \o rest) = Len(data) + Len(rest)
      /\ \A i \in 1 .. Len(data) + Len(rest) :
           (data \o rest)[i] = IF i <= Len(data) THEN data[i] ELSE rest[i - Len(data)]
  BY <1>1, ConcatProperties
<1>4. ASSUME NEW i \in 1 .. Len(data \o rest), (data \o rest)[i] # Torn
      PROVE  PointsTo(recs, (data \o rest)[i].key, (data \o rest)[i])
  <2>1. CASE i <= Len(data)
    <3>1. i \in 1 .. Len(data) /\ (data \o rest)[i] = data[i]
      BY <1>3, <2>1
    <3> QED BY <1>4, <3>1 DEF RowsPointInto
  <2>2. CASE i > Len(data)
    <3>1. i - Len(data) \in 1 .. Len(rest) /\ (data \o rest)[i] = rest[i - Len(data)]
      BY <1>1, <1>3, <2>2
    <3>2. Len(data) + (i - Len(data)) = i
      OBVIOUS
    <3>3. i \in 1 .. Len(file) /\ (data \o rest)[i] = file[i]
      BY <1>2, <3>1, <3>2
    <3> QED BY <1>4, <3>3 DEF RowsPointInto
  <2> QED BY <2>1, <2>2
<1> QED
  BY <1>4 DEF Overlay, RowsPointInto, rest

\* Part of a .dbidx image, with or without a torn row, points where it did.
LEMMA CutRows ==
  ASSUME NEW A, NEW file \in Seq(A), NEW recs, RowsPointInto(recs, file), NEW n \in 0 .. Len(file)
  PROVE  /\ RowsPointInto(recs, SubSeq(file, 1, n))
         /\ RowsPointInto(recs, Append(SubSeq(file, 1, n), Torn))
<1> DEFINE cut == SubSeq(file, 1, n)
<1>1. cut \in Seq(A) /\ Len(cut) = n /\ \A i \in 1 .. n : cut[i] = file[i]
  BY SubSeqProperties
<1> HIDE DEF cut
<1>2. RowsPointInto(recs, cut)
  BY <1>1 DEF RowsPointInto
<1>3. cut \in Seq(A \cup {Torn})
  BY <1>1
<1>4. /\ Len(Append(cut, Torn)) = Len(cut) + 1
      /\ \A i \in 1 .. Len(cut) : Append(cut, Torn)[i] = cut[i]
      /\ Append(cut, Torn)[Len(cut) + 1] = Torn
  BY <1>3, AppendProperties
<1>5. ASSUME NEW i \in 1 .. Len(Append(cut, Torn)), Append(cut, Torn)[i] # Torn
      PROVE  i \in 1 .. Len(cut)
  BY <1>1, <1>4, <1>5
<1>6. RowsPointInto(recs, Append(cut, Torn))
  BY <1>2, <1>4, <1>5 DEF RowsPointInto
<1> QED
  BY <1>2, <1>6 DEF cut

\* Syncing .db, updating the index and rewriting .dbidx keep IndexInv.
LEMMA IndexRebuild ==
  ASSUME TypeOK, TypeOK', IndexInv, NEW t \in Task
  PROVE  /\ FlushSync(t) => IndexInv'
         /\ FlushIndex(t) => IndexInv'
         /\ IndexClone(t) => IndexInv'
         /\ IndexTrunc(t) => IndexInv'
         /\ IndexWrite(t) => IndexInv'
         /\ IndexSync(t) => IndexInv'
         /\ FlushStepError(t) => IndexInv'
<1> USE DEF files, memory, locals, ghosts
<1>a. pc[t] # "idle" => status = "up"
  BY DEF IndexInv, CallsNeedOpen
<1>b. /\ RowsPointInto(dbSynced.recs, idxFile) /\ RowsPointInto(dbSynced.recs, idxSynced)
      /\ \A u \in Task : RowsPointInto(dbSynced.recs, rows[u])
  BY DEF IndexInv, RowsDurable
<1>c. /\ dbFile.recs \in Seq(Record \cup {Torn}) /\ dbSynced.recs \in Seq(Record \cup {Torn})
      /\ Covers(dbFile.recs, dbFile.recs) /\ Covers(dbSynced.recs, dbFile.recs)
  BY CoversRefl DEF TypeOK, FileImage, IndexInv, SyncedBelow
<1>d. status = "up" =>
        /\ EntriesPointInto(dbFile.recs, index)
        /\ \A u \in Task : EntriesPointInto(dbFile.recs, plan[u]) /\ EntriesPointInto(dbFile.recs, fresh[u])
  BY DEF IndexInv, IndexSound
<1>e. \A u \in Task :
        /\ pc[u] \in AfterSync => EntriesPointInto(dbSynced.recs, index)
        /\ pc[u] = "index" => EntriesPointInto(dbSynced.recs, fresh[u])
        /\ pc[u] = "idle" => plan[u] = NoIndex /\ fresh[u] = NoIndex
  BY DEF IndexInv, IndexDurable, CallsNeedOpen
<1>f. idxFile \in Seq(IndexRow \cup {Torn}) /\ rows[t] \in Seq(IndexRow) /\ rows[t] \in Seq(IndexRow \cup {Torn})
  BY DEF TypeOK
<1>1. ASSUME FlushSync(t) PROVE IndexInv'
  <2>1. /\ UNCHANGED <<dbFile, idxFile, idxSynced, index, status, rows, plan, fresh>>
        /\ dbSynced' = dbFile
    BY <1>1 DEF FlushSync
  <2>2. status = "up" /\ pc' = [pc EXCEPT ![t] = "index"]
    BY <1>1, <1>a DEF FlushSync, Goto
  <2>3. IndexSound'
    BY <1>d, <2>1, <2>2 DEF IndexSound
  <2>4. RowsDurable'
    BY <1>b, <1>c, <2>1, RowsCovered DEF RowsDurable
  <2>5. SyncedBelow'
    BY <1>c, <2>1 DEF SyncedBelow
  <2>6. HeaderFirst'
    BY <2>1 DEF IndexInv, HeaderFirst
  <2>7. IndexDurable'
    BY <1>d, <2>1, <2>2 DEF IndexDurable
  <2>8. CallsNeedOpen'
    BY <1>e, <2>1, <2>2 DEF CallsNeedOpen, TypeOK
  <2> QED
    BY <2>3, <2>4, <2>5, <2>6, <2>7, <2>8 DEF IndexInv
<1>2. ASSUME FlushIndex(t) PROVE IndexInv'
  <2>1. /\ UNCHANGED <<dbFile, dbSynced, idxFile, idxSynced, status, rows>>
        /\ status = "up" /\ pc[t] = "index" /\ pc'[t] = "count" /\ plan'[t] = NoIndex /\ fresh'[t] = NoIndex
        /\ \A u \in Task : u # t => plan'[u] = plan[u] /\ fresh'[u] = fresh[u] /\ pc'[u] = pc[u]
    BY <1>2, <1>a DEF FlushIndex, Goto, TypeOK
  <2>2. \A k \in Key : index'[k] = NoEntry \/ index'[k] = fresh[t][k] \/ index'[k] = index[k]
    BY <1>2 DEF FlushIndex
  <2>3. EntriesPointInto(dbFile.recs, index')
    BY <1>d, <2>1, <2>2 DEF EntriesPointInto
  <2>4. EntriesPointInto(dbSynced.recs, index')
    <3>1. EntriesPointInto(dbSynced.recs, index) /\ EntriesPointInto(dbSynced.recs, fresh[t])
      BY <1>e, <2>1 DEF AfterSync
    <3> QED BY <2>2, <3>1 DEF EntriesPointInto
  <2>5. \A u \in Task : pc'[u] = "idle" => plan'[u] = NoIndex /\ fresh'[u] = NoIndex
    BY <1>e, <2>1
  <2>6. EntriesPointInto(dbFile.recs, NoIndex)
    BY NothingPoints
  <2> QED
    BY <1>b, <1>c, <2>1, <2>3, <2>4, <2>5, <2>6, RunningStep
<1>3. ASSUME IndexClone(t) PROVE IndexInv'
  <2>1. /\ UNCHANGED <<dbFile, dbSynced, idxFile, idxSynced, index, status, plan, fresh>>
        /\ status = "up" /\ pc[t] = "clone" /\ pc' = [pc EXCEPT ![t] = "idx_trunc"]
    BY <1>3, <1>a DEF IndexClone, Goto
  <2>2. PICK s \in SetToSeqs({[key |-> k, offset |-> index[k].offset, field_len |-> index[k].field_len] :
                               k \in {x \in Key : index[x] # NoEntry}}) :
               rows' = [rows EXCEPT ![t] = s]
    BY <1>3 DEF IndexClone
  <2>3. \A i \in 1 .. Len(s) : \E k \in Key :
          /\ index[k] # NoEntry
          /\ s[i] = [key |-> k, offset |-> index[k].offset, field_len |-> index[k].field_len]
    BY RowsType DEF TypeOK
  <2>4. RowsPointInto(dbSynced.recs, s)
    <3> SUFFICES ASSUME NEW i \in 1 .. Len(s) PROVE PointsTo(dbSynced.recs, s[i].key, s[i])
      BY DEF RowsPointInto
    <3>1. PICK k \in Key :
            /\ index[k] # NoEntry
            /\ s[i] = [key |-> k, offset |-> index[k].offset, field_len |-> index[k].field_len]
      BY <2>3
    <3>2. PointsTo(dbSynced.recs, k, index[k])
      BY <1>e, <2>1, <3>1 DEF EntriesPointInto, AfterSync
    <3>3. s[i].key = k /\ s[i].offset = index[k].offset /\ s[i].field_len = index[k].field_len
      BY <3>1
    <3> QED BY <3>2, <3>3 DEF PointsTo
  <2>5. \A u \in Task : rows'[u] = rows[u] \/ RowsPointInto(dbSynced.recs, rows'[u])
    BY <2>2, <2>4 DEF TypeOK
  <2>6. \A u \in Task : /\ pc'[u] \in AfterSync => pc[u] \in AfterSync
                        /\ pc'[u] = "index" => pc[u] = "index"
                        /\ pc'[u] = "idle" => pc[u] = "idle"
    BY <2>1 DEF AfterSync, TypeOK
  <2> QED
    BY <1>b, <1>c, <1>d, <1>e, <2>1, <2>5, <2>6, RunningStep
<1>4. ASSUME IndexTrunc(t) PROVE IndexInv'
  <2>1. /\ UNCHANGED <<dbFile, dbSynced, idxSynced, index, status, rows, plan, fresh>>
        /\ status = "up" /\ pc' = [pc EXCEPT ![t] = "idx_write"] /\ idxFile' = <<>>
    BY <1>4, <1>a DEF IndexTrunc, Goto
  <2>2. \A u \in Task : /\ pc'[u] \in AfterSync => pc[u] \in AfterSync
                        /\ pc'[u] = "index" => pc[u] = "index"
                        /\ pc'[u] = "idle" => pc[u] = "idle"
    BY <2>1 DEF AfterSync, TypeOK
  <2>3. RowsPointInto(dbSynced.recs, idxFile')
    BY <2>1, NothingPoints
  <2> QED
    BY <1>b, <1>c, <1>d, <1>e, <2>1, <2>2, <2>3, RunningStep
<1>5. ASSUME IndexWrite(t) PROVE IndexInv'
  <2>1. /\ UNCHANGED <<dbFile, dbSynced, idxSynced, index, status, plan, fresh>>
        /\ status = "up" /\ pc' = [pc EXCEPT ![t] = "idx_sync"]
        /\ idxFile' = Overlay(idxFile, rows[t]) /\ rows' = [rows EXCEPT ![t] = <<>>]
    BY <1>5, <1>a DEF IndexWrite, Goto
  <2>2. \A u \in Task : /\ pc'[u] \in AfterSync => pc[u] \in AfterSync
                        /\ pc'[u] = "index" => pc[u] = "index"
                        /\ pc'[u] = "idle" => pc[u] = "idle"
    BY <2>1 DEF AfterSync, TypeOK
  <2>3. RowsPointInto(dbSynced.recs, idxFile')
    BY <1>b, <1>f, <2>1, OverlayRows
  <2>4. \A u \in Task : rows'[u] = rows[u] \/ RowsPointInto(dbSynced.recs, rows'[u])
    BY <2>1, NothingPoints DEF TypeOK
  <2> QED
    BY <1>b, <1>c, <1>d, <1>e, <2>1, <2>2, <2>3, <2>4, RunningStep
<1>6. ASSUME IndexSync(t) PROVE IndexInv'
  <2>1. /\ UNCHANGED <<dbFile, dbSynced, idxFile, index, status, rows, plan, fresh>>
        /\ status = "up" /\ pc' = [pc EXCEPT ![t] = "checkpoint"] /\ idxSynced' = idxFile
    BY <1>6, <1>a DEF IndexSync, Goto
  <2>2. \A u \in Task : /\ pc'[u] \in AfterSync => pc[u] \in AfterSync
                        /\ pc'[u] = "index" => pc[u] = "index"
                        /\ pc'[u] = "idle" => pc[u] = "idle"
    BY <2>1 DEF AfterSync, TypeOK
  <2> QED
    BY <1>b, <1>c, <1>d, <1>e, <2>1, <2>2, RunningStep
<1>7. ASSUME FlushStepError(t) PROVE IndexInv'
  <2>1. /\ UNCHANGED <<dbFile, dbSynced, idxSynced, index, status>> /\ Return(t)
        /\ status = "up"
    BY <1>7, <1>a DEF FlushStepError
  <2>2. RowsPointInto(dbSynced.recs, idxFile')
    <3>1. CASE UNCHANGED idxFile
      BY <1>b, <3>1
    <3>2. ASSUME NEW n \in 0 .. Len(rows[t]) - 1,
                 idxFile' = Overlay(idxFile, Append(SubSeq(rows[t], 1, n), Torn))
          PROVE  RowsPointInto(dbSynced.recs, idxFile')
      <4>1. n \in 0 .. Len(rows[t])
        BY <1>f
      <4>2. RowsPointInto(dbSynced.recs, Append(SubSeq(rows[t], 1, n), Torn))
        BY <1>b, <1>f, <4>1, CutRows
      <4>3. SubSeq(rows[t], 1, n) \in Seq(IndexRow \cup {Torn})
        BY <1>f, <4>1, SubSeqProperties
      <4>4. Append(SubSeq(rows[t], 1, n), Torn) \in Seq(IndexRow \cup {Torn})
        BY <4>3, AppendProperties
      <4> QED BY <1>b, <1>f, <3>2, <4>2, <4>4, OverlayRows
    <3> QED BY <1>7, <3>1, <3>2 DEF FlushStepError
  <2>3. \A u \in Task :
          /\ rows'[u] = rows[u] \/ RowsPointInto(dbSynced.recs, rows'[u])
          /\ plan'[u] = plan[u] \/ EntriesPointInto(dbFile.recs, plan'[u])
          /\ fresh'[u] = fresh[u] \/ (pc'[u] # "index" /\ EntriesPointInto(dbFile.recs, fresh'[u]))
          /\ pc'[u] \in AfterSync => pc[u] \in AfterSync
          /\ pc'[u] = "index" => pc[u] = "index"
          /\ pc'[u] = "idle" => plan'[u] = NoIndex /\ fresh'[u] = NoIndex
    <3>1. EntriesPointInto(dbFile.recs, NoIndex) /\ RowsPointInto(dbSynced.recs, <<>>)
      BY NothingPoints
    <3> QED BY <1>e, <2>1, <3>1 DEF Return, Goto, TypeOK, AfterSync
  <2> QED
    BY <1>b, <1>c, <1>d, <1>e, <2>1, <2>2, <2>3, RunningStep
<1> QED
  BY <1>1, <1>2, <1>3, <1>4, <1>5, <1>6, <1>7

\* A call that its caller drops keeps IndexInv, whichever command of its own
\* is still executed after it.
LEMMA IndexCancel ==
  ASSUME TypeOK, TypeOK', IndexInv, NEW t \in Task
  PROVE  /\ CancelWaiting(t) => IndexInv'
         /\ CancelWrite(t) => IndexInv'
         /\ \A e \in todo[t] : CancelLoop(t, e) => IndexInv'
         /\ CancelRebuild(t) => IndexInv'
         /\ CancelCheckpoint(t) => IndexInv'
<1> USE DEF files, memory
<1>a. pc[t] # "idle" => status = "up"
  BY DEF IndexInv, CallsNeedOpen
<1>b. Covers(dbFile.recs, dbFile.recs)
  BY CoversRefl DEF TypeOK, FileImage
<1>1. ASSUME CancelWaiting(t) PROVE IndexInv'
  <2>1. status = "up"
    BY <1>1, <1>a DEF CancelWaiting, FlushPcs
  <2> QED BY <1>1, <1>b, <2>1, QuietReturn, QuietStep DEF CancelWaiting
<1>2. ASSUME CancelWrite(t) PROVE IndexInv'
  BY <1>2, <1>a, <1>b, QuietReturn, QuietStep DEF CancelWrite
<1>3. ASSUME NEW e \in todo[t], CancelLoop(t, e) PROVE IndexInv'
  <2>1. dbFile'.header = dbFile.header /\ Covers(dbFile.recs, dbFile'.recs)
    BY <1>3, WriteLoopCovers DEF LoopStep
  <2>2. UNCHANGED <<dbSynced, idxFile, idxSynced, index, status>> /\ Return(t)
    BY <1>3 DEF CancelLoop
  <2>3. status = "up"
    BY <1>3, <1>a DEF CancelLoop
  <2> QED
    BY <2>1, <2>2, <2>3, QuietReturn, QuietStep
<1>4. ASSUME CancelRebuild(t) PROVE IndexInv'
  <2>a. UNCHANGED <<dbFile, index, status>> /\ Return(t) /\ status = "up"
    BY <1>4, <1>a DEF CancelRebuild
  <2>b. /\ RowsPointInto(dbSynced.recs, idxFile) /\ RowsPointInto(dbSynced.recs, idxSynced)
        /\ \A u \in Task : RowsPointInto(dbSynced.recs, rows[u])
    BY DEF IndexInv, RowsDurable
  <2>c. /\ dbFile.recs \in Seq(Record \cup {Torn}) /\ dbSynced.recs \in Seq(Record \cup {Torn})
        /\ Covers(dbSynced.recs, dbFile.recs)
    BY DEF TypeOK, FileImage, IndexInv, SyncedBelow
  <2>d. \A u \in Task :
          /\ rows'[u] = rows[u] \/ rows'[u] = <<>>
          /\ plan'[u] = plan[u] \/ plan'[u] = NoIndex
          /\ fresh'[u] = fresh[u] \/ (pc'[u] # "index" /\ fresh'[u] = NoIndex)
          /\ pc'[u] # "idle" => pc'[u] = pc[u] /\ fresh'[u] = fresh[u]
          /\ pc'[u] = "idle" => plan'[u] = NoIndex /\ fresh'[u] = NoIndex
    BY <2>a DEF Return, Goto, TypeOK, IndexInv, CallsNeedOpen
  <2>e. EntriesPointInto(dbFile.recs, NoIndex) /\ RowsPointInto(dbSynced.recs, <<>>)
        /\ RowsPointInto(dbFile.recs, <<>>)
    BY NothingPoints
  <2>f. /\ EntriesPointInto(dbFile.recs, index)
        /\ \A u \in Task : EntriesPointInto(dbFile.recs, plan[u]) /\ EntriesPointInto(dbFile.recs, fresh[u])
    BY <2>a DEF IndexInv, IndexSound
  <2>1. CASE dbSynced' = dbFile /\ UNCHANGED <<idxFile, idxSynced>>
    <3>1. IndexSound'
      BY <2>a, <2>d, <2>e, <2>f DEF IndexSound
    <3>2. RowsDurable'
      <4>1. /\ RowsPointInto(dbFile.recs, idxFile) /\ RowsPointInto(dbFile.recs, idxSynced)
            /\ \A u \in Task : RowsPointInto(dbFile.recs, rows[u])
        BY <2>b, <2>c, RowsCovered
      <4> QED BY <2>1, <2>d, <2>e, <4>1 DEF RowsDurable
    <3>3. SyncedBelow' /\ HeaderFirst'
      BY <1>b, <2>1, <2>a DEF SyncedBelow, IndexInv, HeaderFirst
    <3>4. IndexDurable'
      BY <2>1, <2>a, <2>d, <2>e, <2>f DEF IndexDurable
    <3>5. CallsNeedOpen'
      BY <2>a, <2>d DEF CallsNeedOpen
    <3> QED
      BY <3>1, <3>2, <3>3, <3>4, <3>5 DEF IndexInv
  <2>2. CASE UNCHANGED dbSynced
    <3>1. RowsPointInto(dbSynced.recs, Overlay(idxFile, rows[t]))
      <4>1. idxFile \in Seq(IndexRow \cup {Torn}) /\ rows[t] \in Seq(IndexRow \cup {Torn})
        BY DEF TypeOK
      <4> QED BY <2>b, <4>1, OverlayRows
    <3>2. RowsPointInto(dbSynced.recs, idxFile') /\ RowsPointInto(dbSynced.recs, idxSynced')
      BY <1>4, <2>b, <2>e, <3>1 DEF CancelRebuild
    <3>3. \A u \in Task :
            /\ pc'[u] \in AfterSync => EntriesPointInto(dbSynced.recs, index)
            /\ pc'[u] = "index" => pc[u] = "index"
      BY <2>d DEF IndexInv, IndexDurable, AfterSync
    <3>4. \A u \in Task :
            /\ rows'[u] = rows[u] \/ RowsPointInto(dbSynced.recs, rows'[u])
            /\ plan'[u] = plan[u] \/ EntriesPointInto(dbFile.recs, plan'[u])
            /\ fresh'[u] = fresh[u] \/ (pc'[u] # "index" /\ EntriesPointInto(dbFile.recs, fresh'[u]))
      BY <2>d, <2>e
    <3> QED
      BY <1>b, <2>2, <2>a, <2>d, <2>f, <3>2, <3>3, <3>4, RunningStep
  <2> QED
    BY <1>4, <2>1, <2>2 DEF CancelRebuild
<1>5. ASSUME CancelCheckpoint(t) PROVE IndexInv'
  BY <1>5, <1>a, <1>b, QuietReturn, QuietStep DEF CancelCheckpoint
<1> QED
  BY <1>1, <1>2, <1>3, <1>4, <1>5

-----------------------------------------------------------------------------
(***************************************************************************)
(* Opening, closing and crashing.                                          *)
(***************************************************************************)

\* An index rebuilt from a .db file points into it.
LEMMA IndexFromDbPoints ==
  ASSUME NEW recs \in Seq(Record \cup {Torn})
  PROVE  EntriesPointInto(recs, IndexFromDb(recs))
<1> SUFFICES ASSUME NEW k \in Key, IndexFromDb(recs)[k] # NoEntry
             PROVE  PointsTo(recs, k, IndexFromDb(recs)[k])
  BY DEF EntriesPointInto
<1> DEFINE n == LastOf(LiveAt(recs, k))
<1>1. n # 0
  BY DEF IndexFromDb
<1>2. n \in LiveAt(recs, k)
  BY <1>1, LastOfType
<1>3. n \in 1 .. Len(recs) /\ recs[n].key = k
  BY <1>2 DEF LiveAt
<1>4. IndexFromDb(recs)[k] = [offset |-> n, field_len |-> FieldLen[recs[n].val]]
  BY <1>1 DEF IndexFromDb
<1> HIDE DEF n
<1> QED
  BY <1>3, <1>4 DEF PointsTo

\* An index decoded from rows that point into a file points into it.
LEMMA IndexFromRowsPoints ==
  ASSUME NEW recs, NEW s \in Seq(IndexRow \cup {Torn}), RowsPointInto(recs, s)
  PROVE  EntriesPointInto(recs, IndexFromRows(s))
<1> SUFFICES ASSUME NEW k \in Key, IndexFromRows(s)[k] # NoEntry
             PROVE  PointsTo(recs, k, IndexFromRows(s)[k])
  BY DEF EntriesPointInto
<1> DEFINE n == LastOf(RowsOf(s, k))
<1>1. n # 0
  BY DEF IndexFromRows
<1>2. n \in RowsOf(s, k)
  BY <1>1, LastOfType
<1>3. n \in 1 .. Len(s) /\ s[n] # Torn /\ s[n].key = k
  BY <1>2 DEF RowsOf
<1>4. PointsTo(recs, k, s[n])
  BY <1>3 DEF RowsPointInto
<1>5. IndexFromRows(s)[k] = [offset |-> s[n].offset, field_len |-> s[n].field_len]
  BY <1>1 DEF IndexFromRows
<1> HIDE DEF n
<1> QED
  BY <1>4, <1>5 DEF PointsTo

\* A power failure leaves an image of the .db file that covers the synced one.
LEMMA SurvivorCovers ==
  ASSUME TypeOK, IndexInv, NEW img \in DbSurvivors
  PROVE  /\ img \in FileImage
         /\ Covers(dbSynced.recs, img.recs)
         /\ img.header # "ok" => img.recs = <<>>
<1>a. /\ dbFile \in FileImage /\ dbSynced \in FileImage
      /\ dbFile.recs \in Seq(Record \cup {Torn}) /\ dbSynced.recs \in Seq(Record \cup {Torn})
  BY DEF TypeOK, FileImage
<1>b. Covers(dbSynced.recs, dbFile.recs) /\ HeaderFirst
  BY DEF IndexInv, SyncedBelow
<1>1. CASE img = dbSynced
  BY <1>1, <1>a, <1>b, CoversRefl DEF HeaderFirst
<1>2. ASSUME NEW n \in Len(dbSynced.recs) .. Len(dbFile.recs), NEW D, NEW T,
             img = DbSurvives(n, D, T)
      PROVE  /\ img \in FileImage
             /\ Covers(dbSynced.recs, img.recs)
             /\ img.header # "ok" => img.recs = <<>>
  <2>1. img \in FileImage /\ Len(img.recs) = n
    BY <1>2, <1>a, DbSurvivesType
  <2>2. /\ img.header = dbFile.header
        /\ \A i \in 1 .. n : \/ img.recs[i] = Torn
                             \/ i \in 1 .. Len(dbSynced.recs) /\ img.recs[i] = dbSynced.recs[i]
                             \/ img.recs[i] = dbFile.recs[i]
    BY <1>2, <1>a DEF DbSurvives
  <2>3. Len(dbSynced.recs) <= n
    BY <1>a
  <2>4. ASSUME NEW i \in 1 .. Len(dbSynced.recs), img.recs[i] # Torn
        PROVE  /\ dbSynced.recs[i] # Torn
               /\ img.recs[i].key = dbSynced.recs[i].key
               /\ img.recs[i].val = dbSynced.recs[i].val
    <3>1. i \in 1 .. n
      BY <1>a, <2>3
    <3>2. img.recs[i] = dbSynced.recs[i] \/ img.recs[i] = dbFile.recs[i]
      BY <2>2, <2>4, <3>1
    <3> QED BY <1>b, <2>4, <3>2 DEF Covers
  <2>5. Covers(dbSynced.recs, img.recs)
    BY <2>1, <2>3, <2>4 DEF Covers
  <2>6. img.header # "ok" => img.recs = <<>>
    <3>1. img.header # "ok" => dbFile.recs = <<>>
      BY <1>b, <2>2 DEF HeaderFirst
    <3>2. dbFile.recs = <<>> => n = 0
      BY <1>a
    <3>3. img.recs \in Seq(Record \cup {Torn})
      BY <2>1 DEF FileImage
    <3>4. Len(img.recs) = 0 => img.recs = <<>>
      BY <3>3, EmptySeq
    <3> QED BY <2>1, <3>1, <3>2, <3>4
  <2> QED BY <2>1, <2>5, <2>6
<1>3. CASE img = [header |-> "torn", recs |-> <<>>] /\ dbSynced.header # dbFile.header
  <2>1. dbSynced.recs = <<>>
    BY <1>3, <1>b DEF HeaderFirst
  <2>2. img \in FileImage /\ img.recs = <<>>
    BY <1>3 DEF FileImage
  <2>3. <<>> \in Seq(Record \cup {Torn})
    OBVIOUS
  <2> QED BY <2>1, <2>2, <2>3, CoversRefl
<1> QED
  BY <1>1, <1>2, <1>3, DbSurvivorsCases

\* What a power failure leaves of .dbidx points into the durable records.
LEMMA SurvivorRows ==
  ASSUME NEW file \in Seq(IndexRow \cup {Torn}), NEW synced \in Seq(IndexRow \cup {Torn}),
         NEW recs, RowsPointInto(recs, file), RowsPointInto(recs, synced),
         NEW s \in Survivors(file, synced)
  PROVE  RowsPointInto(recs, s)
<1>1. \A n \in 0 .. Len(file) : /\ RowsPointInto(recs, SubSeq(file, 1, n))
                                /\ RowsPointInto(recs, Append(SubSeq(file, 1, n), Torn))
  BY CutRows
<1>2. ASSUME NEW c \in Cuts(file) PROVE RowsPointInto(recs, c)
  <2>1. 0 .. Len(file) - 1 \subseteq 0 .. Len(file)
    OBVIOUS
  <2> QED BY <1>1, <2>1 DEF Cuts
<1> QED
  BY <1>2 DEF Survivors

\* IndexInv after a step that forgets all of memory is a matter of the files.
LEMMA ForgottenStep ==
  ASSUME TypeOK', Forget, status' # "up",
         RowsPointInto(dbSynced'.recs, idxFile'), RowsPointInto(dbSynced'.recs, idxSynced'),
         SyncedBelow', HeaderFirst'
  PROVE  IndexInv'
<1>1. \A t \in Task : pc'[t] = "idle" /\ plan'[t] = NoIndex /\ fresh'[t] = NoIndex /\ rows'[t] = <<>>
  BY DEF Forget
<1>2. RowsDurable'
  BY <1>1, NothingPoints DEF RowsDurable
<1>3. IndexSound' /\ IndexDurable' /\ CallsNeedOpen'
  BY <1>1 DEF IndexSound, IndexDurable, CallsNeedOpen, AfterSync
<1> QED
  BY <1>2, <1>3 DEF IndexInv

\* Opening, closing, killing and losing power keep IndexInv.
LEMMA IndexLifecycle ==
  ASSUME TypeOK, TypeOK', IndexInv
  PROVE  /\ OpenNew => IndexInv'
         /\ OpenInit => IndexInv'
         /\ OpenFails => IndexInv'
         /\ Close => IndexInv'
         /\ Kill => IndexInv'
         /\ PowerLoss => IndexInv'
<1> USE DEF files, memory, locals, ghosts
<1>a. RowsDurable /\ SyncedBelow /\ HeaderFirst /\ CallsNeedOpen
  BY DEF IndexInv
<1>b. /\ dbFile.recs \in Seq(Record \cup {Torn}) /\ dbSynced.recs \in Seq(Record \cup {Torn})
      /\ idxFile \in Seq(IndexRow \cup {Torn}) /\ idxSynced \in Seq(IndexRow \cup {Torn})
  BY DEF TypeOK, FileImage
<1>c. status # "up" => \A t \in Task : pc[t] = "idle" /\ plan[t] = NoIndex /\ fresh[t] = NoIndex
  BY <1>a DEF CallsNeedOpen
<1>1. ASSUME OpenNew PROVE IndexInv'
  <2>1. /\ UNCHANGED <<dbSynced, idxFile, idxSynced, pc, plan, fresh, rows>>
        /\ status # "up" /\ dbFile.header # "ok" /\ index' = NoIndex
        /\ dbFile' = [header |-> "ok", recs |-> <<>>]
    BY <1>1 DEF OpenNew
  <2>2. dbSynced.recs = <<>> /\ dbFile'.recs = <<>> /\ dbFile'.header = "ok"
    BY <1>a, <2>1 DEF HeaderFirst
  <2>3. IndexSound'
    BY <1>c, <2>1, NothingPoints DEF IndexSound
  <2>4. SyncedBelow'
    BY <2>1, <2>2 DEF SyncedBelow, Covers
  <2>5. RowsDurable' /\ HeaderFirst'
    BY <1>a, <2>1, <2>2 DEF RowsDurable, HeaderFirst
  <2>6. IndexDurable' /\ CallsNeedOpen'
    BY <1>c, <2>1 DEF IndexDurable, CallsNeedOpen, AfterSync
  <2> QED BY <2>3, <2>4, <2>5, <2>6 DEF IndexInv
<1>2. ASSUME OpenInit PROVE IndexInv'
  <2>1. /\ UNCHANGED <<dbFile, dbSynced, idxFile, idxSynced, pc, plan, fresh, rows>>
        /\ status # "up" /\ dbFile.header = "ok"
        /\ index' = IF idxFile = <<>> THEN IndexFromDb(dbFile.recs) ELSE IndexFromRows(idxFile)
    BY <1>2 DEF OpenInit, Decodable
  <2>2. RowsPointInto(dbFile.recs, idxFile)
    BY <1>a, <1>b, RowsCovered DEF RowsDurable, SyncedBelow
  <2>3. EntriesPointInto(dbFile.recs, index')
    BY <1>b, <2>1, <2>2, IndexFromDbPoints, IndexFromRowsPoints
  <2>4. IndexSound'
    BY <1>c, <2>1, <2>3, NothingPoints DEF IndexSound
  <2>5. RowsDurable' /\ HeaderFirst' /\ SyncedBelow'
    BY <1>a, <2>1 DEF RowsDurable, HeaderFirst, SyncedBelow
  <2>6. IndexDurable' /\ CallsNeedOpen'
    BY <1>c, <2>1 DEF IndexDurable, CallsNeedOpen, AfterSync
  <2> QED BY <2>4, <2>5, <2>6 DEF IndexInv
<1>3. ASSUME OpenFails PROVE IndexInv'
  BY <1>3 DEF OpenFails, IndexInv, IndexSound, RowsDurable, SyncedBelow, HeaderFirst,
              IndexDurable, CallsNeedOpen
<1>4. ASSUME Close PROVE IndexInv'
  <2>1. Forget /\ status' = "down" /\ UNCHANGED <<dbFile, dbSynced, idxFile, idxSynced>>
    BY <1>4 DEF Close
  <2>2. SyncedBelow' /\ HeaderFirst'
    BY <1>a, <2>1 DEF SyncedBelow, HeaderFirst
  <2> QED BY <1>a, <2>1, <2>2, ForgottenStep DEF RowsDurable
<1>5. ASSUME Kill PROVE IndexInv'
  <2>1. Forget /\ status' = "down" /\ UNCHANGED <<dbFile, dbSynced, idxFile, idxSynced>>
    BY <1>5 DEF Kill
  <2>2. SyncedBelow' /\ HeaderFirst'
    BY <1>a, <2>1 DEF SyncedBelow, HeaderFirst
  <2> QED BY <1>a, <2>1, <2>2, ForgottenStep DEF RowsDurable
<1>6. ASSUME PowerLoss PROVE IndexInv'
  <2>1. Forget /\ status' = "down"
    BY <1>6 DEF PowerLoss
  <2>2. PICK img \in DbSurvivors : dbFile' = img /\ dbSynced' = img
    BY <1>6 DEF PowerLoss
  <2>3. PICK s \in Survivors(idxFile, idxSynced) : idxFile' = s /\ idxSynced' = s
    BY <1>6 DEF PowerLoss
  <2>4. /\ img \in FileImage /\ Covers(dbSynced.recs, img.recs)
        /\ img.header # "ok" => img.recs = <<>>
    BY SurvivorCovers
  <2>5. img.recs \in Seq(Record \cup {Torn})
    BY <2>4 DEF FileImage
  <2>6. RowsPointInto(dbSynced.recs, s)
    BY <1>a, <1>b, SurvivorRows DEF RowsDurable
  <2>7. RowsPointInto(img.recs, s)
    BY <1>b, <2>4, <2>5, <2>6, RowsCovered
  <2>8. SyncedBelow'
    BY <2>2, <2>5, CoversRefl DEF SyncedBelow
  <2>9. HeaderFirst'
    BY <2>1, <2>2, <2>4 DEF HeaderFirst
  <2> QED BY <2>1, <2>2, <2>3, <2>7, <2>8, <2>9, ForgottenStep
<1> QED
  BY <1>1, <1>2, <1>3, <1>4, <1>5, <1>6

-----------------------------------------------------------------------------
\* The files of a database not yet opened satisfy IndexInv.
LEMMA IndexInit == Init => IndexInv
<1> SUFFICES ASSUME Init PROVE IndexInv
  OBVIOUS
<1>1. dbFile.recs = <<>> /\ dbSynced.recs = <<>>
  BY DEF Init, Image
<1>2. IndexSound /\ IndexDurable /\ CallsNeedOpen
  BY DEF Init, IndexSound, IndexDurable, CallsNeedOpen, AfterSync
<1>3. RowsDurable
  BY NothingPoints DEF Init, RowsDurable
<1>4. SyncedBelow /\ HeaderFirst
  BY <1>1 DEF Init, SyncedBelow, Covers, HeaderFirst
<1> QED
  BY <1>2, <1>3, <1>4 DEF IndexInv

\* Every step keeps IndexInv.
LEMMA IndexStep == TypeOK /\ TypeOK' /\ IndexInv /\ [Next]_vars => IndexInv'
<1> SUFFICES ASSUME TypeOK, TypeOK', IndexInv, [Next]_vars PROVE IndexInv'
  OBVIOUS
<1>1. CASE Program
  <2>1. PICK t \in Task :
          Call(t) \/ LockSteps(t) \/ OtherSteps(t) \/ ErrorSteps(t) \/ CancelSteps(t)
    BY <1>1 DEF Program
  <2> QED
    BY <2>1, IndexQuiet, IndexWriteLoop, IndexRebuild, IndexCancel
       DEF Call, LockSteps, OtherSteps, ErrorSteps, CancelSteps
<1>2. CASE UNCHANGED vars
  BY <1>2 DEF vars, files, memory, locals, ghosts, IndexInv, IndexSound, RowsDurable, SyncedBelow,
              HeaderFirst, IndexDurable, CallsNeedOpen
<1> QED
  BY <1>1, <1>2, IndexLifecycle DEF Next

\* In every open database, whatever crashes, torn writes and I/O errors came
\* before and however the flushes interleave, the index in memory and the
\* copies flush works from point at records of their own keys with the
\* lengths the tombstone will have; and the .dbidx file, in the cache and on
\* the disk, points into the durable part of the .db file.
THEOREM IndexCorrect == Spec => []IndexInv
<1>1. Init => IndexInv
  BY IndexInit
<1>2. TypeOK /\ TypeOK' /\ IndexInv /\ [Next]_vars => IndexInv'
  BY IndexStep
<1> QED
  BY <1>1, <1>2, TypeCorrect, PTL DEF Spec

-----------------------------------------------------------------------------
(***************************************************************************)
(* Flush destroys nothing but what it was asked to delete.                 *)
(***************************************************************************)

\* A step that changes record i of a live key.
Destroys(i) ==
  /\ dbFile.recs[i] # Torn /\ dbFile.recs[i].live
  /\ i > Len(dbFile'.recs) \/ dbFile'.recs[i] # dbFile.recs[i]

\* A step of the write loop changes an existing record only to carry out a
\* delete of its key.
LEMMA WriteLoopDestroys ==
  ASSUME TypeOK, IndexInv, status = "up", NEW t \in Task, NEW e \in todo[t],
         LoopStep(t, e),
         NEW i \in 1 .. Len(dbFile.recs), Destroys(i)
  PROVE  pc[t] = "write" /\ [key |-> dbFile.recs[i].key, val |-> None] \in todo[t]
<1>a. dbFile \in FileImage /\ dbFile.recs \in Seq(Record \cup {Torn})
  BY DEF TypeOK, FileImage
<1>b. e \in WalEntry /\ e.key \in Key /\ plan[t] \in [Key -> IndexEntry]
  BY DEF TypeOK, WalEntry
<1>c. pc[t] = "write"
  BY DEF LoopStep, FlushSet, FlushDelete, FlushWriteError, CancelLoop
<1>d. ASSUME NEW x \in Record \cup {Torn}, dbFile'.recs = Append(dbFile.recs, x) PROVE FALSE
  <2>1. Len(Append(dbFile.recs, x)) = Len(dbFile.recs) + 1 /\ Append(dbFile.recs, x)[i] = dbFile.recs[i]
    BY <1>a, AppendProperties
  <2> QED BY <1>a, <1>d, <2>1 DEF Destroys
<1>e. dbFile' # dbFile
  BY <1>a DEF Destroys
<1>f. e.val = None /\ plan[t][e.key] # NoEntry /\ i = plan[t][e.key].offset
  <2>1. CASE FlushSet(t, e)
    <3>1. [key |-> e.key, val |-> e.val, live |-> TRUE] \in Record
      BY <1>b, <2>1 DEF FlushSet, WalEntry, Record
    <3>2. dbFile'.recs = Append(dbFile.recs, [key |-> e.key, val |-> e.val, live |-> TRUE])
      BY <1>a, <2>1 DEF FlushSet, FileImage
    <3> QED BY <1>d, <3>1, <3>2
  <2>2. CASE FlushDelete(t, e)
    <3>1. plan[t][e.key] # NoEntry /\ e.val = None
      BY <1>e, <2>2 DEF FlushDelete
    <3>2. dbFile'.recs = TombstoneOver(dbFile.recs, plan[t][e.key])
      BY <1>a, <2>2, <3>1 DEF FlushDelete, FileImage
    <3>3. plan[t][e.key].offset \in 1 .. Len(dbFile.recs)
      BY <1>d, <3>2 DEF TombstoneOver
    <3>4. PICK new : dbFile'.recs = [dbFile.recs EXCEPT ![plan[t][e.key].offset] = new]
      BY <3>2, <3>3 DEF TombstoneOver
    <3> QED BY <1>a, <3>1, <3>3, <3>4 DEF Destroys
  <2>3. CASE FlushWriteError(t, e)
    <3>1. dbFile' # [dbFile EXCEPT !.recs = Append(@, Torn)]
      <4>1. ASSUME dbFile' = [dbFile EXCEPT !.recs = Append(@, Torn)] PROVE FALSE
        <5>1. dbFile'.recs = Append(dbFile.recs, Torn)
          BY <1>a, <4>1 DEF FileImage
        <5> QED BY <1>d, <5>1
      <4> QED BY <4>1
    <3>2. /\ e.val = None /\ plan[t][e.key] # NoEntry
          /\ plan[t][e.key].offset \in 1 .. Len(dbFile.recs)
          /\ dbFile' = [dbFile EXCEPT !.recs[plan[t][e.key].offset] = Torn]
      BY <1>e, <2>3, <3>1 DEF FlushWriteError
    <3>3. dbFile'.recs = [dbFile.recs EXCEPT ![plan[t][e.key].offset] = Torn]
      BY <1>a, <3>2 DEF FileImage
    <3> QED BY <1>a, <3>2, <3>3 DEF Destroys
  <2>4. CASE CancelLoop(t, e)
    <3>1. e.val = None
      <4>1. ASSUME e.val # None PROVE FALSE
        <5>1. [key |-> e.key, val |-> e.val, live |-> TRUE] \in Record
          BY <1>b, <4>1 DEF WalEntry, Record
        <5>2. dbFile'.recs = Append(dbFile.recs, [key |-> e.key, val |-> e.val, live |-> TRUE])
          BY <1>a, <2>4, <4>1 DEF CancelLoop, FileImage
        <5> QED BY <1>d, <5>1, <5>2
      <4> QED BY <4>1
    <3>2. plan[t][e.key] # NoEntry
      BY <1>e, <2>4, <3>1 DEF CancelLoop
    <3>3. dbFile'.recs = TombstoneOver(dbFile.recs, plan[t][e.key])
      BY <1>a, <2>4, <3>1, <3>2 DEF CancelLoop, FileImage
    <3>4. plan[t][e.key].offset \in 1 .. Len(dbFile.recs)
      BY <1>d, <3>3 DEF TombstoneOver
    <3>5. PICK new : dbFile'.recs = [dbFile.recs EXCEPT ![plan[t][e.key].offset] = new]
      BY <3>3, <3>4 DEF TombstoneOver
    <3> QED BY <1>a, <3>1, <3>2, <3>4, <3>5 DEF Destroys
  <2> QED BY <2>1, <2>2, <2>3, <2>4 DEF LoopStep
<1>1. PointsTo(dbFile.recs, e.key, plan[t][e.key])
  BY <1>b, <1>f DEF IndexInv, IndexSound, EntriesPointInto
<1>2. dbFile.recs[i].key = e.key
  BY <1>f, <1>1 DEF PointsTo, Destroys
<1>3. e = [key |-> dbFile.recs[i].key, val |-> None]
  BY <1>b, <1>f, <1>2 DEF WalEntry
<1> QED
  BY <1>c, <1>3

\* Outside the write loop the running program changes no existing record.
LEMMA OnlyLoopDestroys ==
  ASSUME TypeOK, [Next]_vars, status = "up", status' = "up", dbFile' # dbFile
  PROVE  \E t \in Task : \E e \in todo[t] :
           LoopStep(t, e)
<1> USE DEF files, memory, locals, ghosts
<1>1. ~ (OpenNew \/ OpenInit \/ OpenFails \/ Close \/ Kill \/ PowerLoss \/ UNCHANGED vars)
  BY DEF OpenNew, OpenInit, OpenFails, Close, Kill, PowerLoss, vars
<1>2. PICK t \in Task :
        Call(t) \/ LockSteps(t) \/ OtherSteps(t) \/ ErrorSteps(t) \/ CancelSteps(t)
  BY <1>1 DEF Next, Program
<1>3. ~ Call(t)
  BY DEF Call, CallWrite, CallFlush
<1>4. ~ LockSteps(t)
  BY DEF LockSteps, AppendEntry, PopUncommitted, Checkpoint
<1>5. ~ (AppendEntrySync(t) \/ ApplyWrite(t) \/ FlushPlan(t) \/ FlushSync(t) \/ FlushIndex(t)
           \/ UpdateRecordCount(t) \/ IndexClone(t) \/ IndexTrunc(t) \/ IndexWrite(t)
           \/ IndexSync(t) \/ CheckpointSync(t))
  BY DEF AppendEntrySync, ApplyWrite, FlushPlan, FlushSync, FlushIndex, UpdateRecordCount,
         IndexClone, IndexTrunc, IndexWrite, IndexSync, CheckpointSync
<1>6. ~ (AppendEntryError(t) \/ AppendEntrySyncError(t) \/ FlushStepError(t) \/ CheckpointError(t))
  BY DEF AppendEntryError, AppendEntrySyncError, FlushStepError, CheckpointError
<1>7. ~ (CancelWaiting(t) \/ CancelWrite(t) \/ CancelRebuild(t) \/ CancelCheckpoint(t))
  BY DEF CancelWaiting, CancelWrite, CancelRebuild, CancelCheckpoint
<1> QED
  BY <1>2, <1>3, <1>4, <1>5, <1>6, <1>7 DEF OtherSteps, ErrorSteps, CancelSteps, LoopStep

\* Every step satisfies the action of TombstoneOnlyDeleted.
LEMMA DestroysOnlyDeleted ==
  ASSUME TypeOK, IndexInv, [Next]_vars, status = "up", status' = "up",
         NEW i \in 1 .. Len(dbFile.recs), Destroys(i)
  PROVE  \E t \in Task : pc[t] = "write" /\ [key |-> dbFile.recs[i].key, val |-> None] \in todo[t]
<1>1. dbFile' # dbFile
  BY DEF Destroys, TypeOK, FileImage
<1>2. PICK t \in Task : \E e \in todo[t] : LoopStep(t, e)
  BY <1>1, OnlyLoopDestroys
<1>3. PICK e \in todo[t] : LoopStep(t, e)
  BY <1>2
<1> QED
  BY <1>3, WriteLoopDestroys

\* A running database turns a live record into a tombstone, or tears it on an
\* I/O error, only for a delete of that record's key that some flush is
\* carrying out: no crash, lost index file or pair of concurrent flushes makes
\* flush overwrite the record of another key.
THEOREM TombstoneCorrect == Spec => TombstoneOnlyDeleted
<1>1. TypeOK /\ IndexInv /\ [Next]_vars =>
        [(status = "up" /\ status' = "up") =>
           \A i \in 1 .. Len(dbFile.recs) :
             (dbFile.recs[i] # Torn /\ dbFile.recs[i].live /\
                (i > Len(dbFile'.recs) \/ dbFile'.recs[i] # dbFile.recs[i])) =>
               \E t \in Task : pc[t] = "write" /\
                               [key |-> dbFile.recs[i].key, val |-> None] \in todo[t]]_vars
  BY DestroysOnlyDeleted DEF Destroys
<1> QED
  BY <1>1, TypeCorrect, IndexCorrect, PTL DEF Spec, TombstoneOnlyDeleted

=============================================================================
