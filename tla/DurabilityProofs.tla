-------------------------- MODULE DurabilityProofs --------------------------
(***************************************************************************)
(* What survives flush: files that always open again, and acknowledged     *)
(* sets.                                                                   *)
(***************************************************************************)
EXTENDS StoreProofs

-----------------------------------------------------------------------------
(***************************************************************************)
(* Reopenable.  Without torn writes no file ever holds bytes its decoder   *)
(* rejects, however calls overlap, fail, are dropped or are cut off.  The  *)
(* only step that could write some is a tombstone of the wrong length, and *)
(* IndexSound excludes it.                                                 *)
(***************************************************************************)

\* Writes reach the disk whole, and no key is empty (index_push refuses the
\* empty key, so a database that stores one does not open).
WholeWrites == "torn" \notin Faults /\ EmptyKey \notin Key

FilesIntact ==
  /\ walFile \in Seq(WalEntry) /\ walSynced \in Seq(WalEntry)
  /\ idxFile \in Seq(IndexRow) /\ idxSynced \in Seq(IndexRow)
  /\ dbFile.recs \in Seq(Record) /\ dbSynced.recs \in Seq(Record)
  /\ dbFile.header # "torn" /\ dbSynced.header # "torn"

\* Items that are all decodable.
LEMMA ItemsIntact ==
  /\ \A s \in Seq(WalEntry) : Intact(s)
  /\ \A s \in Seq(IndexRow) : Intact(s)
  /\ \A s \in Seq(Record) : Intact(s)
<1>1. Torn \notin WalEntry /\ Torn \notin IndexRow /\ Torn \notin Record
  BY SentinelAssumption DEF WalEntry, IndexRow, Record
<1>2. ASSUME NEW A, Torn \notin A, NEW s \in Seq(A) PROVE Intact(s)
  <2>1. \A i \in 1 .. Len(s) : s[i] \in A
    OBVIOUS
  <2> QED BY <1>2, <2>1 DEF Intact
<1> QED
  BY <1>1, <1>2

\* With intact files open succeeds.
LEMMA IntactOpens ==
  ASSUME WholeWrites, TypeOK, FilesIntact
  PROVE  ~ OpenFails
<1>1. Intact(walFile) /\ Intact(idxFile) /\ Intact(dbFile.recs)
  BY ItemsIntact DEF FilesIntact
<1>2. NoEmptyKey(dbFile.recs)
  <2>1. \A i \in 1 .. Len(dbFile.recs) : dbFile.recs[i] \in Record
    BY DEF FilesIntact
  <2> QED BY <2>1 DEF NoEmptyKey, Record, WholeWrites
<1>3. dbFile.header \in {"none", "ok"}
  BY DEF TypeOK, FileImage, FilesIntact
<1> QED
  BY <1>1, <1>2, <1>3 DEF OpenFails, Decodable

\* set, delete and the steps of flush on the log.
LEMMA IntactLog ==
  ASSUME WholeWrites, TypeOK, FilesIntact, NEW t \in Task
  PROVE  /\ AppendEntry(t) => FilesIntact'
         /\ AppendEntryError(t) => FilesIntact'
         /\ AppendEntrySync(t) => FilesIntact'
         /\ CancelWrite(t) => FilesIntact'
         /\ Checkpoint(t) => FilesIntact'
         /\ CheckpointSync(t) => FilesIntact'
         /\ CancelCheckpoint(t) => FilesIntact'
<1>1. pc[t] \in WritePcs => call[t] \in WalEntry
  BY DEF TypeOK
<1>2. \A w \in Seq(WalEntry) : \A e \in WalEntry : Append(w, e) \in Seq(WalEntry)
  OBVIOUS
<1>3. ASSUME AppendEntry(t) PROVE FilesIntact'
  BY <1>1, <1>2, <1>3 DEF AppendEntry, FilesIntact, WritePcs
<1>4. ASSUME AppendEntryError(t) PROVE FilesIntact'
  BY <1>4 DEF AppendEntryError, FilesIntact, WholeWrites
<1>5. ASSUME AppendEntrySync(t) PROVE FilesIntact'
  BY <1>5 DEF AppendEntrySync, FilesIntact
<1>6. ASSUME CancelWrite(t) PROVE FilesIntact'
  BY <1>1, <1>2, <1>6 DEF CancelWrite, FilesIntact, WritePcs
<1>7. <<>> \in Seq(WalEntry)
  OBVIOUS
<1>8. ASSUME Checkpoint(t) PROVE FilesIntact'
  BY <1>7, <1>8 DEF Checkpoint, FilesIntact
<1>9. ASSUME CheckpointSync(t) PROVE FilesIntact'
  BY <1>9 DEF CheckpointSync, FilesIntact
<1>10. ASSUME CancelCheckpoint(t) PROVE FilesIntact'
  BY <1>7, <1>10 DEF CancelCheckpoint, FilesIntact
<1> QED
  BY <1>3, <1>4, <1>5, <1>6, <1>8, <1>9, <1>10

\* A tombstone written through a sound index entry covers its record exactly.
LEMMA TombstoneFits ==
  ASSUME NEW recs \in Seq(Record), NEW k, NEW e, PointsTo(recs, k, e)
  PROVE  TombstoneOver(recs, e) \in Seq(Record)
<1>1. e.offset \in 1 .. Len(recs) /\ recs[e.offset] \in Record
  BY DEF PointsTo
<1>2. recs[e.offset] # Torn
  BY <1>1, SentinelAssumption DEF Record
<1>3. [recs[e.offset] EXCEPT !.live = FALSE] \in Record
  BY <1>1 DEF Record
<1>4. TombstoneOver(recs, e) = [recs EXCEPT ![e.offset] = [recs[e.offset] EXCEPT !.live = FALSE]]
  BY <1>1, <1>2 DEF TombstoneOver, PointsTo
<1> QED
  BY <1>1, <1>3, <1>4, ExceptSeq

\* The write loop of flush, carried out, failed or abandoned.
LEMMA IntactLoop ==
  ASSUME WholeWrites, TypeOK, IndexInv, FilesIntact, NEW t \in Task, NEW e \in todo[t], LoopStep(t, e)
  PROVE  FilesIntact'
<1>1. e.key \in Key /\ (e.val # None => e.val \in Value)
  BY DEF TypeOK, WalEntry
<1>2. pc[t] = "write" /\ status = "up"
  BY DEF LoopStep, FlushSet, FlushDelete, FlushWriteError, CancelLoop, IndexInv, CallsNeedOpen
<1>3. plan[t][e.key] # NoEntry => TombstoneOver(dbFile.recs, plan[t][e.key]) \in Seq(Record)
  BY <1>1, <1>2, TombstoneFits DEF IndexInv, IndexSound, EntriesPointInto, FilesIntact
<1>4. e.val # None => [key |-> e.key, val |-> e.val, live |-> TRUE] \in Record
  BY <1>1 DEF Record
<1>5. e.val # None => Append(dbFile.recs, [key |-> e.key, val |-> e.val, live |-> TRUE]) \in Seq(Record)
  BY <1>4 DEF FilesIntact
<1>6. dbFile = [header |-> dbFile.header, recs |-> dbFile.recs]
  BY DEF TypeOK, FileImage
<1>7. \/ dbFile' = dbFile
      \/ e.val # None /\ dbFile' = [dbFile EXCEPT !.recs = Append(dbFile.recs, [key |-> e.key, val |-> e.val, live |-> TRUE])]
      \/ plan[t][e.key] # NoEntry /\ dbFile' = [dbFile EXCEPT !.recs = TombstoneOver(dbFile.recs, plan[t][e.key])]
  BY DEF LoopStep, FlushSet, FlushDelete, FlushWriteError, CancelLoop, WholeWrites
<1>8. dbFile'.recs \in Seq(Record) /\ dbFile'.header = dbFile.header
  BY <1>3, <1>5, <1>6, <1>7 DEF FilesIntact
<1>9. UNCHANGED <<walFile, walSynced, idxFile, idxSynced, dbSynced>>
  BY DEF LoopStep, FlushSet, FlushDelete, FlushWriteError, CancelLoop
<1> QED
  BY <1>8, <1>9 DEF FilesIntact

\* The sync of .db and the steps of rebuild_index.
LEMMA IntactRebuild ==
  ASSUME WholeWrites, TypeOK, FilesIntact, NEW t \in Task
  PROVE  /\ FlushSync(t) => FilesIntact'
         /\ IndexTrunc(t) => FilesIntact'
         /\ IndexWrite(t) => FilesIntact'
         /\ IndexSync(t) => FilesIntact'
         /\ FlushStepError(t) => FilesIntact'
         /\ CancelRebuild(t) => FilesIntact'
<1>1. <<>> \in Seq(IndexRow) /\ Overlay(idxFile, rows[t]) \in Seq(IndexRow)
  BY OverlayType DEF FilesIntact, TypeOK
<1>2. ASSUME FlushSync(t) PROVE FilesIntact'
  BY <1>2 DEF FlushSync, FilesIntact
<1>3. ASSUME IndexTrunc(t) PROVE FilesIntact'
  BY <1>1, <1>3 DEF IndexTrunc, FilesIntact
<1>4. ASSUME IndexWrite(t) PROVE FilesIntact'
  BY <1>1, <1>4 DEF IndexWrite, FilesIntact
<1>5. ASSUME IndexSync(t) PROVE FilesIntact'
  BY <1>5 DEF IndexSync, FilesIntact
<1>6. ASSUME FlushStepError(t) PROVE FilesIntact'
  BY <1>6 DEF FlushStepError, FilesIntact, WholeWrites
<1>7. ASSUME CancelRebuild(t) PROVE FilesIntact'
  BY <1>1, <1>7 DEF CancelRebuild, FilesIntact
<1> QED
  BY <1>2, <1>3, <1>4, <1>5, <1>6, <1>7

\* Whole writes leave whole items behind.
LEMMA IntactSurvivors ==
  ASSUME WholeWrites, NEW A, NEW file \in Seq(A), NEW synced \in Seq(A), NEW s \in Survivors(file, synced)
  PROVE  s \in Seq(A)
<1>1. \A n \in 0 .. Len(file) : SubSeq(file, 1, n) \in Seq(A)
  BY SubSeqProperties
<1>2. \A c \in Cuts(file) : c \in Seq(A)
  BY <1>1 DEF Cuts, WholeWrites
<1> QED
  BY <1>2 DEF Survivors

\* So it is with the .db file, tombstones included.
LEMMA IntactImages ==
  ASSUME WholeWrites, TypeOK, FilesIntact, NEW img \in DbSurvivors
  PROVE  img.recs \in Seq(Record) /\ img.header # "torn"
<1>1. CASE img = dbSynced
  BY <1>1 DEF FilesIntact
<1>2. ASSUME NEW n \in Len(dbSynced.recs) .. Len(dbFile.recs), img \in DbSurvivorsOf(n)
      PROVE  img.recs \in Seq(Record) /\ img.header # "torn"
  <2>1. PICK D \in SUBSET Overwritten : img = DbSurvives(n, D, {})
    BY <1>2 DEF DbSurvivorsOf, TornSets, WholeWrites
  <2>2. img \in FileImage /\ Len(img.recs) = n
    BY <2>1, DbSurvivesType DEF TypeOK
  <2>3. \A i \in 1 .. n : img.recs[i] \in Record
    <3> SUFFICES ASSUME NEW i \in 1 .. n PROVE img.recs[i] \in Record
      OBVIOUS
    <3>1. \/ i \in DOMAIN dbSynced.recs /\ img.recs[i] = dbSynced.recs[i]
          \/ img.recs[i] = dbFile.recs[i]
      BY <2>1 DEF DbSurvives
    <3>2. i \in 1 .. Len(dbFile.recs)
      BY DEF FilesIntact
    <3> QED BY <3>1, <3>2 DEF FilesIntact
  <2>4. img.recs \in Seq(Record \cup {Torn})
    BY <2>2 DEF FileImage
  <2>5. Intact(img.recs)
    BY <2>2, <2>3, SentinelAssumption DEF Intact, Record
  <2> QED BY <2>1, <2>4, <2>5, IntactType DEF DbSurvives, FilesIntact
<1> QED
  BY <1>1, <1>2 DEF DbSurvivors, TornHeaders, WholeWrites

\* No step leaves a file that its decoder rejects.
LEMMA IntactStep ==
  ASSUME WholeWrites, TypeOK, IndexInv, FilesIntact, [Next]_vars
  PROVE  FilesIntact'
<1> USE DEF files, memory, locals, ghosts
<1>0. ASSUME UNCHANGED files PROVE FilesIntact'
  BY <1>0 DEF FilesIntact
<1>1. CASE OpenNew
  <2>1. <<>> \in Seq(Record)
    OBVIOUS
  <2> QED BY <1>1, <2>1 DEF OpenNew, FilesIntact
<1>2. CASE OpenInit \/ OpenFails \/ Close \/ Kill \/ UNCHANGED vars
  BY <1>0, <1>2 DEF OpenInit, OpenFails, Close, Kill, vars
<1>3. CASE PowerLoss
  <2>1. dbFile'.recs \in Seq(Record) /\ dbSynced'.recs \in Seq(Record)
        /\ dbFile'.header # "torn" /\ dbSynced'.header # "torn"
    BY <1>3, IntactImages DEF PowerLoss
  <2>2. idxFile' \in Seq(IndexRow) /\ idxSynced' \in Seq(IndexRow)
    BY <1>3, IntactSurvivors DEF PowerLoss, FilesIntact
  <2>3. walFile' \in Seq(WalEntry) /\ walSynced' \in Seq(WalEntry)
    BY <1>3, IntactSurvivors DEF PowerLoss, FilesIntact
  <2> QED BY <2>1, <2>2, <2>3 DEF FilesIntact
<1>4. CASE Program
  <2>1. PICK t \in Task :
          Call(t) \/ LockSteps(t) \/ OtherSteps(t) \/ ErrorSteps(t) \/ CancelSteps(t)
    BY <1>4 DEF Program
  <2>2. CASE Call(t)
    BY <1>0, <2>2 DEF Call, CallWrite, CallFlush
  <2>3. CASE LockSteps(t)
    BY <1>0, <2>3, IntactLog DEF LockSteps, PopUncommitted
  <2>4. CASE OtherSteps(t)
    <3>1. UNCHANGED files \/ FlushSync(t) \/ IndexTrunc(t) \/ IndexWrite(t) \/ IndexSync(t)
          \/ AppendEntrySync(t) \/ CheckpointSync(t) \/ \E e \in todo[t] : LoopStep(t, e)
      BY <2>4 DEF OtherSteps, ApplyWrite, FlushPlan, FlushIndex, UpdateRecordCount, IndexClone, LoopStep
    <3> QED BY <1>0, <3>1, IntactLog, IntactRebuild, IntactLoop
  <2>5. CASE ErrorSteps(t)
    <3>1. UNCHANGED files \/ AppendEntryError(t) \/ FlushStepError(t) \/ \E e \in todo[t] : LoopStep(t, e)
      BY <2>5 DEF ErrorSteps, AppendEntrySyncError, CheckpointError, LoopStep
    <3> QED BY <1>0, <3>1, IntactLog, IntactRebuild, IntactLoop
  <2>6. CASE CancelSteps(t)
    <3>1. UNCHANGED files \/ CancelWrite(t) \/ CancelRebuild(t) \/ CancelCheckpoint(t)
          \/ \E e \in todo[t] : LoopStep(t, e)
      BY <2>6 DEF CancelSteps, CancelWaiting, LoopStep
    <3> QED BY <1>0, <3>1, IntactLog, IntactRebuild, IntactLoop
  <2> QED BY <2>1, <2>2, <2>3, <2>4, <2>5, <2>6
<1> QED
  BY <1>1, <1>2, <1>3, <1>4 DEF Next

\* No file ever holds bytes that its decoder rejects.
THEOREM IntactCorrect == ASSUME WholeWrites PROVE Spec => []FilesIntact
<1>1. Init => FilesIntact
  BY DEF Init, FilesIntact, Image
<1>2. TypeOK /\ IndexInv /\ FilesIntact /\ [Next]_vars => FilesIntact'
  BY IntactStep
<1> QED
  BY <1>1, <1>2, TypeCorrect, IndexCorrect, PTL DEF Spec

\* open never fails on files that the program itself left behind: flushes may
\* race each other and the writes, and end in any crash or error.
THEOREM ReopenCorrect == ASSUME WholeWrites PROVE Spec => []Reopenable
<1>1. Init => Reopenable
  BY DEF Init, Reopenable
<1>2. TypeOK /\ FilesIntact /\ Reopenable /\ [Next]_vars => Reopenable'
  <2> SUFFICES ASSUME TypeOK, FilesIntact, Reopenable, [Next]_vars PROVE Reopenable'
    OBVIOUS
  <2> USE DEF Reopenable, files, memory, locals, ghosts
  <2>1. ~ OpenFails
    BY IntactOpens
  <2>2. CASE Program
    <3>1. PICK t \in Task :
            Call(t) \/ LockSteps(t) \/ OtherSteps(t) \/ ErrorSteps(t) \/ CancelSteps(t)
      BY <2>2 DEF Program
    <3>2. status' = status
      <4>1. CASE Call(t) \/ LockSteps(t)
        BY <4>1 DEF Call, LockSteps, CallWrite, CallFlush, AppendEntry, PopUncommitted, Checkpoint
      <4>2. CASE OtherSteps(t)
        BY <4>2 DEF OtherSteps, AppendEntrySync, ApplyWrite, FlushPlan, FlushSet, FlushDelete, FlushSync,
                    FlushIndex, UpdateRecordCount, IndexClone, IndexTrunc, IndexWrite, IndexSync, CheckpointSync
      <4>3. CASE ErrorSteps(t)
        BY <4>3 DEF ErrorSteps, AppendEntryError, AppendEntrySyncError, FlushWriteError, FlushStepError,
                    CheckpointError
      <4>4. CASE CancelSteps(t)
        BY <4>4 DEF CancelSteps, CancelWaiting, CancelWrite, CancelLoop, CancelRebuild, CancelCheckpoint
      <4> QED BY <3>1, <4>1, <4>2, <4>3, <4>4
    <3> QED BY <3>2
  <2>3. CASE UNCHANGED vars
    BY <2>3 DEF vars
  <2> QED
    BY <2>1, <2>2, <2>3 DEF Next, OpenNew, OpenInit, Close, Kill, PowerLoss
<1> QED
  BY <1>1, <1>2, TypeCorrect, IntactCorrect, PTL DEF Spec

-----------------------------------------------------------------------------
(***************************************************************************)
(* AckedSetsKept.  With every flush run alone, an acknowledged set is in   *)
(* every image of the log a crash may leave until every image of the .db   *)
(* file shows it.  The invariant follows a write from the log to the .db   *)
(* file; it holds under every fault, torn writes included.                 *)
(***************************************************************************)

\* Flushes run alone, and the header of the .db file is on the disk.
SerialUse == FlushAlone /\ Created

FlushRunsAlone == \A t, u \in Task : (pc[t] \in FlushPcs /\ u # t) => pc[u] = "idle"

HeadersWritten == dbFile.header = "ok" /\ dbSynced.header = "ok"

\* The field of the last entry of k among the first n items of s, if any.
LastVals(s, n, k) ==
  {s[i].val : i \in {j \in RowsOf(s, k) : j <= n /\ \A m \in RowsOf(s, k) : m <= n => m <= j}}

\* Replaying the first n items of s gives each key they name a field it may
\* be shown.
ImageExplained(s, n) == \A k \in Key : \A v \in LastVals(s, n, k) : MayShow(k, v)

\* Every image of the log that a crash may leave is explained.  (After a
\* checkpoint whose sync failed the durable log is not a prefix of the file.)
LogImages ==
  /\ ImageExplained(walSynced, Len(walSynced))
  /\ \A n \in 0 .. Len(walFile) : (LogGrows => n >= Len(walSynced)) => ImageExplained(walFile, n)

\* So is what the next flush writes.
EntriesExplained == ImageExplained(entries, Len(entries))

\* p is an entry of k with field v, and later ones have fields in R.
PlacedIn(s, k, v, R, p) ==
  /\ p \in RowsOf(s, k)
  /\ s[p].val = v
  /\ \A q \in RowsOf(s, k) : q > p => s[q].val \in R

\* A write is in the log and in the entries, followed only by rivals.
WritesPlaced ==
  \A t \in Task : InLog(t) =>
    /\ \E p \in Nat : /\ PlacedIn(walFile, call[t].key, call[t].val, rivals[t], p)
                      /\ pc[t] = "apply" => LogGrows /\ p <= Len(walSynced)
    /\ \E p \in Nat : PlacedIn(entries, call[t].key, call[t].val, rivals[t], p)

\* Some record of k is live in every image of the .db file a crash may leave,
\* and it and all later ones have fields in S.
DbShows(k, S) ==
  \E p \in LiveAt(dbSynced.recs, k) \cap LiveAt(dbFile.recs, k) :
    /\ \A i \in LiveAt(dbSynced.recs, k) : i >= p => dbSynced.recs[i].val \in S
    /\ \A i \in LiveAt(dbFile.recs, k) : i >= p => dbFile.recs[i].val \in S

\* Every image of the log has an entry of k, and the next flush knows of one.
LogHolds(k) ==
  LogGrows /\ RowsOf(walSynced, k) # {} /\ (status = "up" => RowsOf(entries, k) # {})

\* A key that must have a field has it in the log or in the .db file.
SetsSafe == \A k \in Key : None \notin allowed[k] => LogHolds(k) \/ DbShows(k, allowed[k])

\* The .db file ends, as far as e's key is concerned, with e's record.
Written(e) ==
  \E p \in LiveAt(dbFile.recs, e.key) :
    dbFile.recs[p].val = e.val /\ \A i \in LiveAt(dbFile.recs, e.key) : i <= p

\* How far the flush of t is: what it has not yet to do it has done, and it
\* removes only keys that may be without a field.
Progress(t) ==
  /\ pc[t] = "plan" => todo[t] = Net(entries)
  /\ pc[t] = "write" => /\ todo[t] \subseteq Net(entries)
                        /\ \A e \in Net(entries) \ todo[t] : e.val # None => Written(e)
  /\ pc[t] \in {"write", "index"} => \A k \in Key : plan[t][k] # NoEntry => None \in allowed[k]
  /\ pc[t] \in FlushPcs \ {"pop", "plan", "write", "checkpoint_sync"} =>
       \A e \in Net(entries) : e.val # None => DbShows(e.key, {e.val})

FlushProgress == \A t \in Task : Progress(t)

AckedInv ==
  /\ FlushRunsAlone /\ HeadersWritten
  /\ RivalsKnown /\ WritesPlaced
  /\ LogImages /\ EntriesExplained
  /\ SetsSafe /\ FlushProgress
  /\ AckedSetsKept

-----------------------------------------------------------------------------
(***************************************************************************)
(* Logs.                                                                   *)
(***************************************************************************)

\* The last entries of a log that grows.
LEMMA LastValsAppend ==
  ASSUME NEW s \in Seq(WalEntry \cup {Torn}), NEW e \in WalEntry \cup {Torn}, NEW k
  PROVE  /\ \A n \in 0 .. Len(s) : LastVals(Append(s, e), n, k) = LastVals(s, n, k)
         /\ (e # Torn /\ e.key = k) => LastVals(Append(s, e), Len(s) + 1, k) = {e.val}
         /\ ~ (e # Torn /\ e.key = k) => LastVals(Append(s, e), Len(s) + 1, k) = LastVals(s, Len(s), k)
<1>1. /\ Len(s) \in Nat
      /\ \A i \in 1 .. Len(s) : Append(s, e)[i] = s[i]
      /\ Append(s, e)[Len(s) + 1] = e
      /\ \A i : i \in RowsOf(Append(s, e), k) <=>
                  \/ i \in RowsOf(s, k)
                  \/ i = Len(s) + 1 /\ e # Torn /\ e.key = k
  BY RowsAppend
<1>2. \A i \in RowsOf(s, k) : i \in 1 .. Len(s)
  BY DEF RowsOf
<1>3. ASSUME NEW n \in 0 .. Len(s) PROVE LastVals(Append(s, e), n, k) = LastVals(s, n, k)
  <2> DEFINE L(x) == {j \in RowsOf(x, k) : j <= n /\ \A m \in RowsOf(x, k) : m <= n => m <= j}
  <2>1. ASSUME NEW j PROVE j \in L(Append(s, e)) <=> j \in L(s)
    BY <1>1, <1>2
  <2>2. L(Append(s, e)) = L(s)
    BY <2>1
  <2>3. \A j \in L(s) : Append(s, e)[j] = s[j]
    BY <1>1, <1>2
  <2> QED BY <2>2, <2>3 DEF LastVals
<1>4. /\ (e # Torn /\ e.key = k) => LastVals(Append(s, e), Len(s) + 1, k) = {e.val}
      /\ ~ (e # Torn /\ e.key = k) => LastVals(Append(s, e), Len(s) + 1, k) = LastVals(s, Len(s), k)
  <2> DEFINE L(x, n) == {j \in RowsOf(x, k) : j <= n /\ \A m \in RowsOf(x, k) : m <= n => m <= j}
  <2>1. CASE e # Torn /\ e.key = k
    <3>1. ASSUME NEW j PROVE j \in L(Append(s, e), Len(s) + 1) <=> j = Len(s) + 1
      BY <1>1, <1>2, <2>1
    <3>2. L(Append(s, e), Len(s) + 1) = {Len(s) + 1}
      BY <3>1
    <3> QED BY <1>1, <2>1, <3>2 DEF LastVals
  <2>2. CASE ~ (e # Torn /\ e.key = k)
    <3>1. ASSUME NEW j PROVE j \in L(Append(s, e), Len(s) + 1) <=> j \in L(s, Len(s))
      BY <1>1, <1>2, <2>2
    <3>2. L(Append(s, e), Len(s) + 1) = L(s, Len(s))
      BY <3>1
    <3>3. \A j \in L(s, Len(s)) : Append(s, e)[j] = s[j]
      BY <1>1, <1>2
    <3> QED BY <2>2, <3>2, <3>3 DEF LastVals
  <2> QED BY <2>1, <2>2
<1> QED
  BY <1>3, <1>4

\* A log that names a key has a last entry of it, and replay uses that one.
LEMMA LastValsReplay ==
  ASSUME NEW s \in Seq(WalEntry \cup {Torn}), NEW k \in Key, NEW base, RowsOf(s, k) # {}
  PROVE  Replay(base, s)[k] \in LastVals(s, Len(s), k)
<1>1. PICK i \in RowsOf(s, k) : (\A j \in RowsOf(s, k) : j <= i) /\ Replay(base, s)[k] = s[i].val
  BY ReplayLast
<1>2. i <= Len(s)
  BY DEF RowsOf
<1> QED
  BY <1>1, <1>2 DEF LastVals

\* What comes last is the write itself or a rival.
LEMMA LastValsPlaced ==
  ASSUME NEW s, NEW k, NEW v, NEW R, NEW p \in Nat, PlacedIn(s, k, v, R, p), NEW n \in Nat, p <= n,
         NEW x \in LastVals(s, n, k)
  PROVE  x = v \/ x \in R
<1>1. PICK i \in RowsOf(s, k) : x = s[i].val /\ i <= n /\ \A m \in RowsOf(s, k) : m <= n => m <= i
  BY DEF LastVals
<1>2. i \in Nat /\ p <= i
  BY <1>1 DEF PlacedIn, RowsOf
<1> QED
  BY <1>1, <1>2 DEF PlacedIn

\* An entry stays where it is when nothing, or only a rival, is appended.
LEMMA PlacedKept ==
  ASSUME NEW s \in Seq(WalEntry \cup {Torn}), NEW e \in WalEntry \cup {Torn},
         NEW k, NEW v, NEW R, NEW S, R \subseteq S,
         (e # Torn /\ e.key = k) => e.val \in R,
         NEW p \in Nat, PlacedIn(s, k, v, R, p)
  PROVE  PlacedIn(s, k, v, S, p) /\ PlacedIn(Append(s, e), k, v, S, p)
<1>1. PlacedIn(s, k, v, S, p)
  BY DEF PlacedIn
<1>2. /\ \A i \in 1 .. Len(s) : Append(s, e)[i] = s[i]
      /\ Append(s, e)[Len(s) + 1] = e
      /\ \A i : i \in RowsOf(Append(s, e), k) <=>
                  \/ i \in RowsOf(s, k)
                  \/ i = Len(s) + 1 /\ e # Torn /\ e.key = k
  BY RowsAppend
<1>3. \A i \in RowsOf(s, k) : i \in 1 .. Len(s)
  BY DEF RowsOf
<1>4. PlacedIn(Append(s, e), k, v, S, p)
  BY <1>2, <1>3 DEF PlacedIn
<1> QED
  BY <1>1, <1>4

\* The entry that was just appended.
LEMMA PlacedLast ==
  ASSUME NEW s \in Seq(WalEntry \cup {Torn}), NEW e \in WalEntry, e # Torn, NEW R
  PROVE  PlacedIn(Append(s, e), e.key, e.val, R, Len(s) + 1) /\ Len(s) + 1 \in Nat
<1>1. /\ Append(s, e)[Len(s) + 1] = e
      /\ \A i : i \in RowsOf(Append(s, e), e.key) <=> i \in RowsOf(s, e.key) \/ i = Len(s) + 1
  BY RowsAppend
<1>2. \A i \in RowsOf(s, e.key) : i \in 1 .. Len(s)
  BY DEF RowsOf
<1> QED
  BY <1>1, <1>2 DEF PlacedIn

\* A step that logs nothing, and after which no key may be shown less.
LEMMA ImagesQuiet ==
  ASSUME TypeOK, LogImages,
         walFile' = walFile, walSynced' = walSynced \/ walSynced' = walFile,
         \A k \in Key : \A v : MayShow(k, v) => MayShow(k, v)'
  PROVE  LogImages'
<1>1. Len(walFile) \in Nat /\ Len(walSynced) \in Nat
  BY DEF TypeOK
<1>2. ASSUME NEW s, NEW n, ImageExplained(s, n) PROVE \A k \in Key : \A v \in LastVals(s, n, k) : MayShow(k, v)'
  BY <1>2 DEF ImageExplained
<1>3. \A n \in 0 .. Len(walFile) : (LogGrows' => n >= Len(walSynced')) => ImageExplained(walFile, n)
  <2>1. CASE walSynced' = walSynced
    BY <2>1 DEF LogImages, LogGrows
  <2>2. CASE walSynced' = walFile
    <3>1. LogGrows'
      BY <1>1, <2>2 DEF LogGrows
    <3>2. LogGrows => Len(walFile) >= Len(walSynced)
      BY <1>1 DEF LogGrows
    <3>3. ImageExplained(walFile, Len(walFile))
      BY <1>1, <3>2 DEF LogImages
    <3> QED BY <1>1, <2>2, <3>1, <3>3
  <2> QED BY <2>1, <2>2
<1>4. ImageExplained(walSynced', Len(walSynced'))
  <2>1. LogGrows => Len(walFile) >= Len(walSynced)
    BY <1>1 DEF LogGrows
  <2>2. ImageExplained(walFile, Len(walFile))
    BY <1>1, <2>1 DEF LogImages
  <2> QED BY <2>2 DEF LogImages
<1>5. ASSUME NEW n, ImageExplained(walFile, n) PROVE ImageExplained(walFile, n)'
  BY <1>2, <1>5 DEF ImageExplained
<1>6. ImageExplained(walSynced, Len(walSynced))'
  <2>1. \A k \in Key : \A v \in LastVals(walSynced', Len(walSynced'), k) : MayShow(k, v)'
    BY <1>2, <1>4
  <2> QED BY <2>1 DEF ImageExplained
<1> QED
  BY <1>3, <1>5, <1>6 DEF LogImages

\* An entry, or part of one, is appended to the log.
LEMMA ImagesAppend ==
  ASSUME TypeOK, LogImages,
         NEW e \in WalEntry \cup {Torn},
         walFile' = Append(walFile, e), walSynced' = walSynced,
         e # Torn => MayShow(e.key, e.val)',
         \A k \in Key : \A v : MayShow(k, v) => MayShow(k, v)'
  PROVE  LogImages' /\ (LogGrows => LogGrows')
<1>1. walFile \in Seq(WalEntry \cup {Torn}) /\ Len(walFile) \in Nat /\ Len(walSynced) \in Nat
  BY DEF TypeOK
<1>2. /\ Len(walFile') = Len(walFile) + 1
      /\ \A i \in 1 .. Len(walFile) : walFile'[i] = walFile[i]
  BY <1>1, RowsAppend
<1>3. LogGrows => LogGrows'
  BY <1>1, <1>2 DEF LogGrows
<1>4. ImageExplained(walSynced, Len(walSynced))'
  BY DEF LogImages, ImageExplained
<1>5. ASSUME NEW n \in 0 .. Len(walFile'), LogGrows' => n >= Len(walSynced)
      PROVE  ImageExplained(walFile, n)'
  <2> SUFFICES ASSUME NEW k \in Key, NEW v \in LastVals(walFile', n, k) PROVE MayShow(k, v)'
    BY DEF ImageExplained
  <2>1. CASE n \in 0 .. Len(walFile)
    <3>1. v \in LastVals(walFile, n, k)
      BY <1>1, <2>1, LastValsAppend
    <3>2. ImageExplained(walFile, n)
      BY <1>3, <1>5, <2>1 DEF LogImages
    <3> QED BY <3>1, <3>2 DEF ImageExplained
  <2>2. CASE n = Len(walFile) + 1
    <3>1. CASE e # Torn /\ e.key = k
      <4>1. v = e.val
        <5>1. LastVals(Append(walFile, e), Len(walFile) + 1, k) = {e.val}
          BY <1>1, <3>1, LastValsAppend
        <5> QED BY <2>2, <5>1
      <4> QED BY <3>1, <4>1
    <3>2. CASE ~ (e # Torn /\ e.key = k)
      <4>1. v \in LastVals(walFile, Len(walFile), k)
        BY <1>1, <2>2, <3>2, LastValsAppend
      <4>2. LogGrows => Len(walFile) >= Len(walSynced)
        BY <1>1 DEF LogGrows
      <4>3. ImageExplained(walFile, Len(walFile))
        BY <1>1, <4>2 DEF LogImages
      <4> QED BY <4>1, <4>3 DEF ImageExplained
    <3> QED BY <3>1, <3>2
  <2> QED BY <1>1, <1>2, <2>1, <2>2
<1> QED
  BY <1>3, <1>4, <1>5 DEF LogImages

\* The entries of the next flush, when nothing or one entry is pushed.
LEMMA EntriesQuiet ==
  ASSUME TypeOK, EntriesExplained,
         \/ entries' = entries
         \/ \E e \in WalEntry : entries' = Append(entries, e) /\ MayShow(e.key, e.val)',
         \A k \in Key : \A v : MayShow(k, v) => MayShow(k, v)'
  PROVE  EntriesExplained'
<1>1. entries \in Seq(WalEntry \cup {Torn}) /\ Torn \notin WalEntry
  <2>1. entries \in Seq(WalEntry \cup {Torn})
    BY DEF TypeOK
  <2>2. Torn \notin WalEntry
    BY SentinelAssumption DEF WalEntry
  <2> QED BY <2>1, <2>2
<1>2. CASE entries' = entries
  BY <1>2 DEF EntriesExplained, ImageExplained
<1>3. ASSUME NEW e \in WalEntry, entries' = Append(entries, e), MayShow(e.key, e.val)'
      PROVE  EntriesExplained'
  <2>1. Len(entries') = Len(entries) + 1
    BY <1>1, <1>3, RowsAppend
  <2>2. ASSUME NEW k \in Key, NEW v \in LastVals(entries', Len(entries'), k) PROVE MayShow(k, v)'
    <3>1. CASE e.key = k
      <4>1. v = e.val
        <5>1. LastVals(Append(entries, e), Len(entries) + 1, k) = {e.val}
          BY <1>1, <3>1, LastValsAppend
        <5> QED BY <1>3, <2>1, <5>1
      <4> QED BY <1>3, <3>1, <4>1
    <3>2. CASE e.key # k
      <4>1. v \in LastVals(entries, Len(entries), k)
        BY <1>1, <1>3, <2>1, <3>2, LastValsAppend
      <4> QED BY <4>1 DEF EntriesExplained, ImageExplained
    <3> QED BY <3>1, <3>2
  <2> QED BY <2>2 DEF EntriesExplained, ImageExplained
<1> QED
  BY <1>2, <1>3

\* Of a write that keeps its place in the log and in the entries.
LEMMA PlacesKept ==
  ASSUME TypeOK, TypeOK', NEW u \in Task, InLog(u), WritesPlaced,
         pc'[u] = pc[u], call'[u] = call[u], rivals[u] \subseteq rivals'[u],
         LogGrows => LogGrows', LogGrows => Len(walSynced) <= Len(walSynced'),
         NEW e \in WalEntry \cup {Torn},
         (e # Torn /\ e.key = call[u].key) => e.val \in rivals[u],
         walFile' = walFile \/ walFile' = Append(walFile, e),
         entries' = entries \/ entries' = Append(entries, e)
  PROVE  /\ \E p \in Nat : /\ PlacedIn(walFile, call[u].key, call[u].val, rivals[u], p)'
                           /\ pc'[u] = "apply" => LogGrows' /\ p <= Len(walSynced')
         /\ \E p \in Nat : PlacedIn(entries, call[u].key, call[u].val, rivals[u], p)'
<1>1. walFile \in Seq(WalEntry \cup {Torn}) /\ entries \in Seq(WalEntry \cup {Torn})
      /\ Len(walSynced) \in Nat /\ Len(walSynced') \in Nat
  BY DEF TypeOK
<1>2. PICK p \in Nat : /\ PlacedIn(walFile, call[u].key, call[u].val, rivals[u], p)
                       /\ pc[u] = "apply" => LogGrows /\ p <= Len(walSynced)
  BY DEF WritesPlaced
<1>3. PICK q \in Nat : PlacedIn(entries, call[u].key, call[u].val, rivals[u], q)
  BY DEF WritesPlaced
<1> DEFINE k == call[u].key
           v == call[u].val
           Kept(s, r) == PlacedIn(s, k, v, rivals'[u], r) /\ PlacedIn(Append(s, e), k, v, rivals'[u], r)
<1>4. PlacedIn(walFile', call'[u].key, call'[u].val, rivals'[u], p)
  <2>1. Kept(walFile, p)
    BY <1>1, <1>2, PlacedKept
  <2> QED BY <2>1
<1>5. PlacedIn(entries', call'[u].key, call'[u].val, rivals'[u], q)
  <2>1. Kept(entries, q)
    BY <1>1, <1>3, PlacedKept
  <2> QED BY <2>1
<1>6. pc'[u] = "apply" => LogGrows' /\ p <= Len(walSynced')
  BY <1>1, <1>2
<1> QED
  BY <1>4, <1>5, <1>6

-----------------------------------------------------------------------------
(***************************************************************************)
(* The steps of set and delete.                                            *)
(***************************************************************************)

\* What is safe stays safe when nothing leaves the log or the .db file and no
\* key loses a field it is allowed.
LEMMA SafeGrows ==
  ASSUME TypeOK, SetsSafe, NEW k \in Key, None \notin allowed'[k], allowed[k] \subseteq allowed'[k],
         UNCHANGED <<dbFile, dbSynced>>, status = "up",
         LogGrows => LogGrows',
         walSynced' = walSynced \/ (walSynced' = walFile),
         entries' = entries \/ \E e \in WalEntry : entries' = Append(entries, e)
  PROVE  LogHolds(k)' \/ DbShows(k, allowed[k])'
<1>1. None \notin allowed[k]
  OBVIOUS
<1>2. CASE DbShows(k, allowed[k])
  <2>1. DbShows(k, allowed'[k])
    BY <1>2 DEF DbShows
  <2> QED BY <2>1 DEF DbShows
<1>3. CASE LogHolds(k)
  <2>1. RowsOf(entries', k) # {}
    <3>1. entries \in Seq(WalEntry \cup {Torn})
      BY DEF TypeOK
    <3>2. \A e \in WalEntry : \A i \in RowsOf(entries, k) : i \in RowsOf(Append(entries, e), k)
      BY <3>1, RowsAppend
    <3> QED BY <1>3, <3>2 DEF LogHolds
  <2>2. RowsOf(walSynced', k) # {}
    <3>1. CASE walSynced' = walSynced
      BY <1>3, <3>1 DEF LogHolds
    <3>2. CASE walSynced' = walFile
      <4>1. PICK i \in RowsOf(walSynced, k) : TRUE
        BY <1>3 DEF LogHolds
      <4>2. Len(walFile) \in Nat /\ Len(walSynced) \in Nat
        BY DEF TypeOK
      <4>3. i \in RowsOf(walFile, k)
        BY <1>3, <4>1, <4>2 DEF LogHolds, LogGrows, RowsOf
      <4> QED BY <3>2, <4>3
    <3> QED BY <3>1, <3>2
  <2> QED BY <1>3, <2>1, <2>2 DEF LogHolds
<1> QED
  BY <1>1, <1>2, <1>3 DEF SetsSafe

\* What a step of the write of t needs to keep besides the log.
LEMMA AckedWriteStep ==
  ASSUME TypeOK, TypeOK', AckedInv, NEW t \in Task,
         \A u \in Task : pc[u] \notin FlushPcs,
         UNCHANGED <<dbFile, dbSynced>>,
         \A u \in Task \ {t} : pc'[u] = pc[u] /\ call'[u] = call[u] /\ rivals[u] \subseteq rivals'[u],
         pc'[t] \in {"idle"} \cup WritePcs,
         NEW e \in WalEntry \cup {Torn}, e # Torn => pc[t] \in WritePcs /\ e = call[t],
         walFile' = walFile \/ walFile' = Append(walFile, e),
         entries' = entries \/ entries' = Append(entries, e),
         LogGrows => LogGrows', LogGrows => Len(walSynced) <= Len(walSynced'),
         InLog(t)' => /\ \E p \in Nat : /\ PlacedIn(walFile, call[t].key, call[t].val, rivals[t], p)'
                                        /\ pc'[t] = "apply" => LogGrows' /\ p <= Len(walSynced')
                      /\ \E p \in Nat : PlacedIn(entries, call[t].key, call[t].val, rivals[t], p)',
         LogImages' /\ EntriesExplained' /\ RivalsKnown' /\ SetsSafe' /\ AckedSetsKept'
  PROVE  AckedInv'
<1>1. \A u \in Task : pc'[u] \notin FlushPcs
  BY DEF WritePcs, FlushPcs
<1>2. FlushRunsAlone' /\ FlushProgress'
  BY <1>1 DEF FlushRunsAlone, FlushProgress, Progress, FlushPcs
<1>3. HeadersWritten'
  BY DEF AckedInv, HeadersWritten
<1>4. ASSUME NEW u \in Task, InLog(u)', u # t
      PROVE  /\ \E p \in Nat : /\ PlacedIn(walFile, call[u].key, call[u].val, rivals[u], p)'
                               /\ pc'[u] = "apply" => LogGrows' /\ p <= Len(walSynced')
             /\ \E p \in Nat : PlacedIn(entries, call[u].key, call[u].val, rivals[u], p)'
  <2>1. /\ InLog(u) /\ pc[u] \in WritePcs
        /\ pc'[u] = pc[u] /\ call'[u] = call[u] /\ rivals[u] \subseteq rivals'[u]
    BY <1>4 DEF InLog, WritePcs
  <2>2. (e # Torn /\ e.key = call[u].key) => e.val \in rivals[u]
    BY <1>4, <2>1 DEF AckedInv, RivalsKnown
  <2>3. WritesPlaced
    BY DEF AckedInv
  <2> QED BY <2>1, <2>2, <2>3, PlacesKept
<1>5. WritesPlaced'
  BY <1>4 DEF WritesPlaced
<1> QED
  BY <1>2, <1>3, <1>5 DEF AckedInv

\* The steps of set and delete up to the acknowledgement, and their errors and
\* dropped calls, keep the invariant.
LEMMA AckedWrite ==
  ASSUME SerialUse, TypeOK, TypeOK', IndexInv, AckedInv, NEW t \in Task
  PROVE  /\ \A k \in Key : \A v \in Value \cup {None} : CallWrite(t, k, v) => AckedInv'
         /\ AppendEntry(t) => AckedInv'
         /\ AppendEntryError(t) => AckedInv'
         /\ AppendEntrySync(t) => AckedInv'
         /\ AppendEntrySyncError(t) => AckedInv'
         /\ CancelWaiting(t) /\ pc[t] = "append" => AckedInv'
         /\ CancelWrite(t) => AckedInv'
<1> USE DEF files, memory, locals, ghosts
<1>a. /\ LogImages /\ EntriesExplained /\ RivalsKnown /\ WritesPlaced /\ SetsSafe /\ AckedSetsKept
      /\ FlushRunsAlone
  BY DEF AckedInv
<1>b. pc[t] # "idle" => status = "up"
  BY DEF IndexInv, CallsNeedOpen
<1>c. /\ walFile \in Seq(WalEntry \cup {Torn}) /\ entries \in Seq(WalEntry \cup {Torn})
      /\ Len(walFile) \in Nat /\ Len(walSynced) \in Nat
  <2>1. /\ walFile \in Seq(WalEntry \cup {Torn}) /\ walSynced \in Seq(WalEntry \cup {Torn})
        /\ entries \in Seq(WalEntry)
    BY DEF TypeOK
  <2>2. \A s \in Seq(WalEntry) : s \in Seq(WalEntry \cup {Torn})
    OBVIOUS
  <2>3. \A s \in Seq(WalEntry \cup {Torn}) : Len(s) \in Nat
    OBVIOUS
  <2> QED BY <2>1, <2>2, <2>3, Zenon
<1>d. Torn \notin WalEntry
  BY SentinelAssumption DEF WalEntry
<1>e. pc[t] \in WritePcs =>
        /\ call[t] \in WalEntry /\ call[t] # Torn /\ call[t].key \in Key
        /\ \A u \in Task : pc[u] \notin FlushPcs
  <2>1. pc[t] \in WritePcs => pc[t] # "idle" /\ pc[t] \notin FlushPcs
    BY DEF WritePcs, FlushPcs
  <2> QED BY <1>a, <1>d, <2>1 DEF TypeOK, WalEntry, FlushRunsAlone
<1>f. pc \in [Task -> {"idle"} \cup WritePcs \cup FlushPcs] /\ DOMAIN allowed = Key
  BY DEF TypeOK
<1>g. LogGrows => Len(walSynced) <= Len(walSynced) /\ Len(walSynced) <= Len(walFile)
  BY <1>c DEF LogGrows
<1>s. ASSUME status = "up", UNCHANGED <<dbFile, dbSynced>>, \A k \in Key : allowed[k] \subseteq allowed'[k],
             LogGrows => LogGrows', walSynced' = walSynced \/ walSynced' = walFile,
             entries' = entries \/ \E e \in WalEntry : entries' = Append(entries, e)
      PROVE  SetsSafe'
  BY <1>a, <1>s, SafeGrows DEF SetsSafe
<1>k. ASSUME status' = status, fields' = fields, \A k \in Key : allowed[k] \subseteq allowed'[k]
      PROVE  AckedSetsKept'
  BY <1>a, <1>k DEF AckedSetsKept
<1>r. ASSUME Return(t)
      PROVE  /\ pc'[t] = "idle" /\ ~ InLog(t)' /\ RivalsKnown'
             /\ \A u \in Task \ {t} : pc'[u] = pc[u] /\ call'[u] = call[u] /\ rivals[u] \subseteq rivals'[u]
             /\ \A k \in Key : allowed[k] \subseteq allowed'[k] /\
                  (InLog(t) /\ call[t].key = k => call[t].val \in allowed'[k])
                    => \A v : MayShow(k, v) => MayShow(k, v)'
  BY <1>a, <1>r, WriteReturns
<1>1. ASSUME NEW k \in Key, NEW v \in Value \cup {None}, CallWrite(t, k, v) PROVE AckedInv'
  <2>1. /\ status = "up" /\ status' = status /\ pc[t] = "idle" /\ pc'[t] = "append"
        /\ \A u \in Task \ {t} : pc'[u] = pc[u] /\ call'[u] = call[u]
        /\ walFile' = walFile /\ walSynced' = walSynced /\ allowed' = allowed /\ fields' = fields
        /\ entries' = entries
        /\ UNCHANGED <<dbFile, dbSynced>>
    BY <1>1, <1>f DEF CallWrite, Goto
  <2>2. \A u \in Task : pc[u] \notin FlushPcs
    BY <1>1 DEF CallWrite, SerialUse, Flushing
  <2>3. RivalsKnown' /\ \A u \in Task \ {t} : rivals[u] \subseteq rivals'[u]
    BY <1>1, <1>a, RivalsBegin
  <2>4. \A x \in Key : \A y : MayShow(x, y) => MayShow(x, y)'
    BY <2>1 DEF MayShow, InLog
  <2>5. LogImages' /\ EntriesExplained' /\ (LogGrows => LogGrows')
    BY <1>a, <2>1, <2>4, ImagesQuiet, EntriesQuiet DEF LogGrows
  <2>6. SetsSafe' /\ AckedSetsKept'
    BY <1>k, <1>s, <2>1, <2>5
  <2>7. ~ InLog(t)' /\ pc'[t] \in {"idle"} \cup WritePcs
    BY <2>1 DEF InLog, WritePcs
  <2> QED
    BY <1>g, <2>1, <2>2, <2>3, <2>5, <2>6, <2>7, AckedWriteStep
<1>2. ASSUME AppendEntry(t) PROVE AckedInv'
  <2>1. /\ status = "up" /\ status' = status /\ pc[t] = "append" /\ pc'[t] = "append_sync"
        /\ \A u \in Task \ {t} : pc'[u] = pc[u]
        /\ call' = call /\ rivals' = rivals
        /\ walFile' = Append(walFile, call[t]) /\ entries' = Append(entries, call[t])
        /\ walSynced' = walSynced /\ allowed' = allowed /\ fields' = fields
        /\ UNCHANGED <<dbFile, dbSynced>>
    BY <1>2, <1>b, <1>f DEF AppendEntry, Goto
  <2>2. pc[t] \in WritePcs /\ pc'[t] \in WritePcs /\ call[t] \in WalEntry /\ call[t] # Torn
        /\ \A u \in Task : pc[u] \notin FlushPcs
    BY <1>e, <2>1 DEF WritePcs
  <2>3. \A x \in Key : \A y : MayShow(x, y) => MayShow(x, y)'
    BY <2>1 DEF MayShow, InLog
  <2>4. ASSUME NEW e, e = call[t] PROVE MayShow(e.key, e.val)'
    BY <2>1, <2>4 DEF MayShow, InLog
  <2>5. LogImages' /\ (LogGrows => LogGrows')
    BY <1>a, <2>1, <2>2, <2>3, <2>4, ImagesAppend
  <2>6. EntriesExplained'
    BY <1>a, <2>1, <2>2, <2>3, <2>4, EntriesQuiet
  <2>7. RivalsKnown'
    BY <1>a, <2>1, <2>2, RivalsShrink
  <2>8. SetsSafe' /\ AckedSetsKept'
    BY <1>k, <1>s, <2>1, <2>2, <2>5
  <2>9. /\ \E p \in Nat : PlacedIn(walFile', call'[t].key, call'[t].val, rivals'[t], p)
        /\ \E p \in Nat : PlacedIn(entries', call'[t].key, call'[t].val, rivals'[t], p)
    BY <1>c, <2>1, <2>2, PlacedLast
  <2> QED
    BY <1>g, <2>1, <2>2, <2>5, <2>6, <2>7, <2>8, <2>9, AckedWriteStep
<1>3. ASSUME AppendEntryError(t) PROVE AckedInv'
  <2>1. /\ status = "up" /\ status' = status /\ pc[t] = "append"
        /\ Return(t)
        /\ walFile' = walFile \/ walFile' = Append(walFile, Torn)
        /\ walSynced' = walSynced /\ allowed' = allowed /\ fields' = fields /\ entries' = entries
        /\ UNCHANGED <<dbFile, dbSynced>>
    BY <1>3, <1>b, <1>f DEF AppendEntryError
  <2>2. \A u \in Task : pc[u] \notin FlushPcs
    BY <1>e, <2>1 DEF WritePcs
  <2>3. \A x \in Key : \A y : MayShow(x, y) => MayShow(x, y)'
    BY <1>r, <2>1 DEF InLog
  <2>4. LogImages' /\ (LogGrows => LogGrows')
    BY <1>a, <2>1, <2>3, ImagesQuiet, ImagesAppend DEF LogGrows
  <2>5. EntriesExplained'
    BY <1>a, <2>1, <2>3, EntriesQuiet
  <2>6. SetsSafe' /\ AckedSetsKept'
    BY <1>k, <1>s, <2>1, <2>4
  <2> QED
    BY <1>g, <1>r, <2>1, <2>2, <2>4, <2>5, <2>6, AckedWriteStep
<1>4. ASSUME AppendEntrySync(t) PROVE AckedInv'
  <2>1. /\ status = "up" /\ status' = status /\ pc[t] = "append_sync" /\ pc'[t] = "apply"
        /\ \A u \in Task \ {t} : pc'[u] = pc[u]
        /\ call' = call /\ rivals' = rivals /\ entries' = entries
        /\ walFile' = walFile /\ walSynced' = walFile /\ allowed' = allowed /\ fields' = fields
        /\ UNCHANGED <<dbFile, dbSynced>>
    BY <1>4, <1>b, <1>f DEF AppendEntrySync, Goto
  <2>2. pc[t] \in WritePcs /\ pc'[t] \in WritePcs /\ call[t] \in WalEntry
        /\ \A u \in Task : pc[u] \notin FlushPcs
    BY <1>e, <2>1 DEF WritePcs
  <2>3. \A x \in Key : \A y : MayShow(x, y) => MayShow(x, y)'
    BY <2>1 DEF MayShow, InLog
  <2>4. LogGrows'
    BY <1>c, <2>1 DEF LogGrows
  <2>5. LogImages' /\ EntriesExplained'
    BY <1>a, <2>1, <2>3, ImagesQuiet, EntriesQuiet
  <2>6. RivalsKnown'
    BY <1>a, <2>1, <2>2, RivalsShrink
  <2>7. SetsSafe' /\ AckedSetsKept'
    BY <1>k, <1>s, <2>1, <2>4
  <2>8. PICK p \in Nat : PlacedIn(walFile, call[t].key, call[t].val, rivals[t], p)
    BY <1>a, <2>1 DEF WritesPlaced, InLog
  <2>9. PICK q \in Nat : PlacedIn(entries, call[t].key, call[t].val, rivals[t], q)
    BY <1>a, <2>1 DEF WritesPlaced, InLog
  <2>10. PlacedIn(walFile, call[t].key, call[t].val, rivals[t], p)' /\ p <= Len(walSynced')
         /\ PlacedIn(entries, call[t].key, call[t].val, rivals[t], q)'
    BY <2>1, <2>8, <2>9 DEF PlacedIn, RowsOf
  <2> QED
    BY <1>g, <2>1, <2>2, <2>4, <2>5, <2>6, <2>7, <2>10, AckedWriteStep
<1>5. ASSUME AppendEntrySyncError(t) \/ CancelWrite(t) PROVE AckedInv'
  <2>1. /\ status = "up" /\ status' = status /\ pc[t] \in WritePcs
        /\ Return(t)
        /\ fields' = fields /\ entries' = entries
        /\ allowed' = [allowed EXCEPT ![call[t].key] = @ \cup {call[t].val}]
        /\ UNCHANGED <<dbFile, dbSynced>>
    BY <1>5, <1>b DEF AppendEntrySyncError, CancelWrite, WritePcs
  <2>2. /\ \A k \in Key : allowed[k] \subseteq allowed'[k]
        /\ call[t].val \in allowed'[call[t].key]
    BY <1>e, <1>f, <2>1
  <2>3. \A x \in Key : \A y : MayShow(x, y) => MayShow(x, y)'
    BY <1>r, <2>1, <2>2
  <2>4. \/ walFile' = Append(walFile, call[t]) /\ walSynced' = walSynced
        \/ walFile' = walFile /\ (walSynced' = walSynced \/ walSynced' = walFile)
    BY <1>5 DEF AppendEntrySyncError, CancelWrite
  <2>5. EntriesExplained' /\ AckedSetsKept'
    BY <1>a, <1>k, <2>1, <2>2, <2>3, EntriesQuiet
  <2>6. CASE walFile' = Append(walFile, call[t]) /\ walSynced' = walSynced
    <3>1. ASSUME NEW e, e = call[t] PROVE MayShow(e.key, e.val)'
      BY <2>2, <3>1 DEF MayShow
    <3>2. LogImages' /\ (LogGrows => LogGrows')
      BY <1>a, <1>e, <2>1, <2>3, <2>6, <3>1, ImagesAppend
    <3>3. SetsSafe'
      BY <1>s, <2>1, <2>2, <2>6, <3>2
    <3> QED
      BY <1>e, <1>g, <1>r, <2>1, <2>5, <2>6, <3>2, <3>3, AckedWriteStep
  <2>7. CASE walFile' = walFile /\ (walSynced' = walSynced \/ walSynced' = walFile)
    <3>1. LogImages'
      BY <1>a, <2>3, <2>7, ImagesQuiet
    <3>2. LogGrows => LogGrows' /\ Len(walSynced) <= Len(walSynced')
      BY <1>c, <2>7 DEF LogGrows
    <3>3. SetsSafe'
      BY <1>s, <2>1, <2>2, <2>7, <3>2
    <3> QED
      BY <1>e, <1>r, <2>1, <2>5, <2>7, <3>1, <3>2, <3>3, AckedWriteStep
  <2> QED
    BY <2>4, <2>6, <2>7
<1>6. ASSUME CancelWaiting(t), pc[t] = "append" PROVE AckedInv'
  <2>1. /\ status = "up" /\ status' = status
        /\ Return(t)
        /\ walFile' = walFile /\ walSynced' = walSynced /\ allowed' = allowed /\ fields' = fields
        /\ entries' = entries
        /\ UNCHANGED <<dbFile, dbSynced>>
    BY <1>6, <1>b DEF CancelWaiting
  <2>2. \A u \in Task : pc[u] \notin FlushPcs
    BY <1>e, <1>6 DEF WritePcs
  <2>3. \A x \in Key : \A y : MayShow(x, y) => MayShow(x, y)'
    BY <1>r, <1>6, <2>1 DEF InLog
  <2>4. LogImages' /\ (LogGrows => LogGrows') /\ EntriesExplained'
    BY <1>a, <2>1, <2>3, ImagesQuiet, EntriesQuiet DEF LogGrows
  <2>5. SetsSafe' /\ AckedSetsKept'
    BY <1>k, <1>s, <2>1, <2>4
  <2> QED
    BY <1>g, <1>r, <2>1, <2>2, <2>4, <2>5, AckedWriteStep
<1> QED
  BY <1>1, <1>2, <1>3, <1>4, <1>5, <1>6

\* The acknowledgement: what comes last in every image of the log is this
\* write, one in progress, or a rival.
LEMMA AckedApply ==
  ASSUME SerialUse, TypeOK, TypeOK', IndexInv, AckedInv, NEW t \in Task, ApplyWrite(t)
  PROVE  AckedInv'
<1> USE DEF files, memory, locals, ghosts
<1>a. /\ LogImages /\ EntriesExplained /\ RivalsKnown /\ WritesPlaced /\ SetsSafe /\ AckedSetsKept
      /\ FlushRunsAlone
  BY DEF AckedInv
<1>b. /\ walFile \in Seq(WalEntry \cup {Torn}) /\ Len(walFile) \in Nat /\ Len(walSynced) \in Nat
      /\ Len(entries) \in Nat
  BY DEF TypeOK
<1>c. /\ pc \in [Task -> {"idle"} \cup WritePcs \cup FlushPcs] /\ DOMAIN call = Task /\ DOMAIN rivals = Task
      /\ DOMAIN allowed = Key /\ DOMAIN fields = Key
  BY DEF TypeOK
<1>1. pc[t] = "apply" /\ Return(t) /\ UNCHANGED <<files, status, entries>>
  BY DEF ApplyWrite
<1>2. status = "up" /\ status' = "up" /\ call[t].key \in Key /\ pc[t] \in WritePcs
  BY <1>1 DEF IndexInv, CallsNeedOpen, WritePcs, TypeOK, WalEntry
<1>n. \A u \in Task : pc[u] \notin FlushPcs
  BY <1>1, <1>a DEF FlushRunsAlone, FlushPcs
<1> SUFFICES ASSUME NEW k \in Key, k = call[t].key PROVE AckedInv'
  BY <1>2
<1> DEFINE pending == {call[u].val : u \in InFlight(k)}
<1>3. /\ pc'[t] = "idle" /\ rivals'[t] = {} /\ ~ InLog(t)'
      /\ \A u \in Task \ {t} : pc'[u] = pc[u] /\ call'[u] = call[u] /\ rivals'[u] = rivals[u]
  BY <1>1, <1>c DEF Return, Goto, InLog
<1>4. /\ fields' = [fields EXCEPT ![k] = call[t].val]
      /\ allowed' = [allowed EXCEPT ![k] = pending \cup (allowed[k] \cap rivals[t])]
  BY <1>c DEF ApplyWrite
<1>5. /\ allowed'[k] = pending \cup (allowed[k] \cap rivals[t])
      /\ \A x \in Key : x # k => allowed'[x] = allowed[x] /\ fields'[x] = fields[x]
      /\ fields'[k] = call[t].val /\ call[t].val \in pending
  BY <1>2, <1>4, <1>c DEF InFlight
<1>6. RivalsKnown'
  <2>1. \A u \in Task : pc'[u] \in WritePcs =>
             pc[u] \in WritePcs /\ call'[u] = call[u] /\ rivals[u] \subseteq rivals'[u]
    BY <1>3 DEF WritePcs
  <2> QED BY <1>a, <2>1, RivalsShrink
<1>7. AckedSetsKept'
  BY <1>2, <1>5, <1>a DEF AckedSetsKept
<1>8. PICK p \in Nat : /\ PlacedIn(walFile, k, call[t].val, rivals[t], p)
                       /\ LogGrows /\ p <= Len(walSynced)
  BY <1>a, <1>1 DEF WritesPlaced, InLog
<1>9. PICK q \in Nat : PlacedIn(entries, k, call[t].val, rivals[t], q)
  BY <1>a, <1>1 DEF WritesPlaced, InLog
<1>10. \A v : v = call[t].val \/ (MayShow(k, v) /\ v \in rivals[t]) => MayShow(k, v)'
  <2>1. \A v : (\E u \in Task : InLog(u) /\ call[u].key = k /\ call[u].val = v) => v \in pending
    BY DEF InLog, InFlight, WritePcs
  <2>2. \A v : v = call[t].val \/ (MayShow(k, v) /\ v \in rivals[t]) => v \in allowed'[k]
    BY <1>5, <2>1 DEF MayShow
  <2> QED BY <2>2 DEF MayShow
<1>11. ASSUME NEW x \in Key, x # k, NEW v, MayShow(x, v) PROVE MayShow(x, v)'
  <2>1. CASE v \in allowed[x]
    BY <1>5, <1>11, <2>1 DEF MayShow
  <2>2. CASE \E u \in Task : InLog(u) /\ call[u].key = x /\ call[u].val = v
    BY <1>3, <1>11, <2>2 DEF MayShow, InLog
  <2> QED BY <1>11, <2>1, <2>2 DEF MayShow
<1>12. walFile' = walFile /\ walSynced' = walSynced /\ entries' = entries
       /\ UNCHANGED <<dbFile, dbSynced>>
  BY <1>1
<1>13. ASSUME NEW s, NEW n \in Nat, ImageExplained(s, n), NEW r \in Nat, r <= n,
              PlacedIn(s, k, call[t].val, rivals[t], r),
              NEW x \in Key, NEW v \in LastVals(s, n, x)
       PROVE  MayShow(x, v)'
  <2>1. MayShow(x, v)
    BY <1>13 DEF ImageExplained
  <2>2. CASE x # k
    BY <1>11, <2>1, <2>2
  <2>3. CASE x = k
    <3>1. v = call[t].val \/ v \in rivals[t]
      BY <1>13, <2>3, LastValsPlaced
    <3> QED BY <1>10, <2>1, <2>3, <3>1
  <2> QED BY <2>2, <2>3
<1>14. EntriesExplained'
  <2>1. q <= Len(entries)
    BY <1>9 DEF PlacedIn, RowsOf
  <2>2. \A x \in Key : \A v \in LastVals(entries, Len(entries), x) : MayShow(x, v)'
    BY <1>13, <1>9, <2>1, <1>a, <1>b DEF EntriesExplained
  <2> QED BY <1>12, <2>2 DEF EntriesExplained, ImageExplained
<1>15. PlacedIn(walSynced, k, call[t].val, rivals[t], p)
  BY <1>8, <1>b DEF PlacedIn, LogGrows, RowsOf
<1>16. LogGrows'
  BY <1>8, <1>12 DEF LogGrows
<1>17. LogImages'
  <2>1. \A x \in Key : \A v \in LastVals(walSynced, Len(walSynced), x) : MayShow(x, v)'
    BY <1>13, <1>15, <1>8, <1>a, <1>b DEF LogImages
  <2>2. ASSUME NEW n \in 0 .. Len(walFile), n >= Len(walSynced), NEW x \in Key, NEW v \in LastVals(walFile, n, x)
        PROVE  MayShow(x, v)'
    <3>1. ImageExplained(walFile, n)
      BY <1>a, <2>2 DEF LogImages
    <3>2. n \in Nat /\ p <= n
      BY <1>8, <1>b, <2>2
    <3> QED BY <1>13, <1>8, <2>2, <3>1, <3>2
  <2> QED BY <1>12, <1>16, <2>1, <2>2 DEF LogImages, ImageExplained
<1>18. SetsSafe'
  <2> SUFFICES ASSUME NEW x \in Key, None \notin allowed'[x] PROVE LogHolds(x)' \/ DbShows(x, allowed[x])'
    BY DEF SetsSafe
  <2>1. CASE x # k
    <3>1. allowed'[x] = allowed[x]
      BY <1>5, <2>1
    <3> QED BY <1>a, <1>2, <1>12, <1>16, <3>1, SafeGrows
  <2>2. CASE x = k
    <3>1. RowsOf(walSynced, k) # {} /\ RowsOf(entries, k) # {}
      BY <1>9, <1>15 DEF PlacedIn
    <3> QED BY <1>12, <1>16, <2>2, <3>1 DEF LogHolds
  <2> QED BY <2>1, <2>2
<1>19. Torn \in WalEntry \cup {Torn}
  OBVIOUS
<1>20. \A u \in Task \ {t} : pc'[u] = pc[u] /\ call'[u] = call[u] /\ rivals[u] \subseteq rivals'[u]
  BY <1>3
<1> QED
  BY <1>3, <1>6, <1>7, <1>12, <1>14, <1>16, <1>17, <1>18, <1>19, <1>20, <1>n, <1>b, AckedWriteStep

-----------------------------------------------------------------------------
(***************************************************************************)
(* The steps of flush.                                                     *)
(***************************************************************************)

\* The entries of net are the last ones of their keys, one for each key.
LEMMA NetLast ==
  ASSUME NEW s \in Seq(WalEntry)
  PROVE  /\ \A e \in Net(s) : e.key \in Key /\ e.val \in LastVals(s, Len(s), e.key)
         /\ \A e, f \in Net(s) : e.key = f.key => e = f
         /\ \A k : RowsOf(s, k) # {} => \E e \in Net(s) : e.key = k
<1>0. Torn \notin WalEntry
  BY SentinelAssumption DEF WalEntry
<1>1. Len(s) \in Nat /\ (\A i \in 1 .. Len(s) : s[i] \in WalEntry /\ s[i] # Torn)
  BY <1>0
<1>2. ASSUME NEW e \in Net(s) PROVE e.key \in Key /\ e.val \in LastVals(s, Len(s), e.key)
  <2>1. PICK i \in 1 .. Len(s) : e = s[i] /\ \A n \in i + 1 .. Len(s) : s[n].key # s[i].key
    BY <1>2 DEF Net
  <2>2. i \in RowsOf(s, e.key) /\ \A m \in RowsOf(s, e.key) : m <= Len(s) => m <= i
    BY <1>1, <2>1 DEF RowsOf
  <2>3. e.key \in Key
    BY <1>1, <2>1 DEF WalEntry
  <2>4. i <= Len(s) /\ e.val = s[i].val
    BY <1>1, <2>1
  <2>5. s[i].val \in LastVals(s, Len(s), e.key)
    BY <2>2, <2>4 DEF LastVals
  <2> QED BY <2>3, <2>4, <2>5
<1>3. ASSUME NEW e \in Net(s), NEW f \in Net(s), e.key = f.key PROVE e = f
  <2>1. PICK i \in 1 .. Len(s) : e = s[i] /\ \A n \in i + 1 .. Len(s) : s[n].key # s[i].key
    BY <1>3 DEF Net
  <2>2. PICK j \in 1 .. Len(s) : f = s[j] /\ \A n \in j + 1 .. Len(s) : s[n].key # s[j].key
    BY <1>3 DEF Net
  <2>3. ~ (i < j) /\ ~ (j < i)
    BY <1>1, <1>3, <2>1, <2>2
  <2> QED BY <1>1, <2>1, <2>2, <2>3
<1>4. ASSUME NEW k, RowsOf(s, k) # {} PROVE \E e \in Net(s) : e.key = k
  <2> DEFINE i == LastOf(RowsOf(s, k))
  <2>1. RowsOf(s, k) \subseteq 1 .. Len(s)
    BY DEF RowsOf
  <2>2. i \in RowsOf(s, k) /\ \A j \in RowsOf(s, k) : j <= i
    BY <1>1, <1>4, <2>1, LastOfMax
  <2> HIDE DEF i
  <2>3. i \in 1 .. Len(s) /\ s[i].key = k
    BY <2>2 DEF RowsOf
  <2>4. \A n \in i + 1 .. Len(s) : s[n].key # s[i].key
    BY <1>1, <2>2, <2>3 DEF RowsOf
  <2>5. s[i] \in Net(s)
    BY <2>3, <2>4 DEF Net
  <2> QED BY <2>3, <2>5
<1> QED
  BY <1>2, <1>3, <1>4

\* While a flush runs nobody writes, so exactly the allowed fields may be
\* shown, and what the flush writes is allowed.
LEMMA FlushShows ==
  ASSUME TypeOK, AckedInv, NEW t \in Task, pc[t] \in FlushPcs
  PROVE  /\ \A u \in Task \ {t} : pc[u] = "idle"
         /\ \A k \in Key : \A v : MayShow(k, v) <=> v \in allowed[k]
         /\ \A e \in Net(entries) : e.key \in Key /\ e.val \in allowed[e.key]
<1>1. \A u \in Task \ {t} : pc[u] = "idle"
  BY DEF AckedInv, FlushRunsAlone
<1>2. \A u \in Task : ~ InLog(u)
  BY <1>1 DEF InLog, FlushPcs
<1>3. \A k \in Key : \A v : MayShow(k, v) <=> v \in allowed[k]
  BY <1>2 DEF MayShow
<1>4. ASSUME NEW e \in Net(entries) PROVE e.key \in Key /\ e.val \in allowed[e.key]
  <2>1. e.key \in Key /\ e.val \in LastVals(entries, Len(entries), e.key)
    BY NetLast DEF TypeOK
  <2> QED BY <1>3, <2>1 DEF AckedInv, EntriesExplained, ImageExplained
<1> QED
  BY <1>1, <1>3, <1>4

\* What a step of the flush of t needs to keep.
LEMMA AckedFlushStep ==
  ASSUME TypeOK, TypeOK', AckedInv, NEW t \in Task,
         \A u \in Task \ {t} : pc[u] = "idle" /\ pc'[u] = "idle",
         pc[t] \in {"idle"} \cup FlushPcs, pc'[t] \in {"idle"} \cup FlushPcs,
         allowed' = allowed,
         \/ walFile' = walFile /\ (walSynced' = walSynced \/ walSynced' = walFile)
         \/ walFile' = <<>> /\ walSynced' = walSynced,
         entries' = entries \/ entries' = <<>>,
         HeadersWritten' /\ SetsSafe' /\ Progress(t)' /\ AckedSetsKept'
  PROVE  AckedInv'
<1>1. \A u \in Task : ~ InLog(u) /\ ~ InLog(u)' /\ pc'[u] \notin WritePcs
  BY DEF InLog, FlushPcs, WritePcs
<1>2. FlushRunsAlone'
  BY DEF FlushRunsAlone, FlushPcs
<1>3. RivalsKnown' /\ WritesPlaced'
  BY <1>1 DEF RivalsKnown, WritesPlaced
<1>4. \A k \in Key : \A v : MayShow(k, v) => MayShow(k, v)'
  BY <1>1 DEF MayShow
<1>5. \A k : LastVals(<<>>, 0, k) = {} /\ Len(<<>>) = 0
  BY DEF LastVals, RowsOf
<1>6. EntriesExplained'
  <2>1. CASE entries' = entries
    BY <1>4, <2>1, EntriesQuiet DEF AckedInv
  <2>2. CASE entries' = <<>>
    BY <1>5, <2>2 DEF EntriesExplained, ImageExplained
  <2> QED BY <2>1, <2>2
<1>7. LogImages'
  <2>1. CASE walFile' = walFile /\ (walSynced' = walSynced \/ walSynced' = walFile)
    BY <1>4, <2>1, ImagesQuiet DEF AckedInv
  <2>2. CASE walFile' = <<>> /\ walSynced' = walSynced
    <3>1. ImageExplained(walSynced, Len(walSynced))'
      BY <1>4, <2>2 DEF AckedInv, LogImages, ImageExplained
    <3>2. \A n \in 0 .. Len(walFile') : ImageExplained(walFile, n)'
      BY <1>5, <2>2 DEF ImageExplained
    <3> QED BY <3>1, <3>2 DEF LogImages
  <2> QED BY <2>1, <2>2
<1>8. ASSUME NEW u \in Task, u # t PROVE Progress(u)'
  BY <1>8 DEF Progress, FlushPcs
<1>9. FlushProgress'
  BY <1>8 DEF FlushProgress
<1> QED
  BY <1>2, <1>3, <1>6, <1>7, <1>9 DEF AckedInv

\* Steps of a flush that leave the log and the .db file alone keep what is safe.
LEMMA SafeQuiet ==
  ASSUME SetsSafe, UNCHANGED <<dbFile, dbSynced, walFile, walSynced, entries, allowed>>, status' = status
  PROVE  SetsSafe'
<1>1. LogGrows => LogGrows'
  BY DEF LogGrows
<1>2. ASSUME NEW k \in Key, None \notin allowed'[k] PROVE LogHolds(k)' \/ DbShows(k, allowed[k])'
  <2>1. CASE LogHolds(k)
    BY <1>1, <2>1 DEF LogHolds
  <2>2. CASE DbShows(k, allowed[k])
    BY <2>2 DEF DbShows
  <2> QED BY <1>2, <2>1, <2>2 DEF SetsSafe
<1> QED
  BY <1>2 DEF SetsSafe

\* What a step of the write loop does to the records: it appends e's, or puts
\* something dead in the place of one of e's key.
LEMMA LoopRecords ==
  ASSUME TypeOK, IndexInv, NEW t \in Task, NEW e \in todo[t], LoopStep(t, e)
  PROVE  /\ dbFile'.header = dbFile.header
         /\ \/ dbFile'.recs = dbFile.recs
            \/ dbFile'.recs = Append(dbFile.recs, Torn)
            \/ /\ e.val # None
               /\ dbFile'.recs = Append(dbFile.recs, [key |-> e.key, val |-> e.val, live |-> TRUE])
            \/ /\ e.val = None
               /\ \E o \in 1 .. Len(dbFile.recs) : \E x :
                    /\ dbFile'.recs = [dbFile.recs EXCEPT ![o] = x]
                    /\ x = Torn \/ ~ x.live
                    /\ dbFile.recs[o] = Torn \/ dbFile.recs[o].key = e.key
         /\ FlushSet(t, e) =>
              dbFile'.recs = Append(dbFile.recs, [key |-> e.key, val |-> e.val, live |-> TRUE])
<1>a. dbFile \in FileImage /\ dbFile.recs \in Seq(Record \cup {Torn})
  BY DEF TypeOK, FileImage
<1>b. e \in WalEntry /\ e.key \in Key /\ plan[t] \in [Key -> IndexEntry]
  BY DEF TypeOK, WalEntry
<1>c. pc[t] = "write" /\ status = "up"
  BY DEF LoopStep, FlushSet, FlushDelete, FlushWriteError, CancelLoop, IndexInv, CallsNeedOpen
<1> DEFINE here == plan[t][e.key]
           new == [key |-> e.key, val |-> e.val, live |-> TRUE]
<1>d. here # NoEntry => PointsTo(dbFile.recs, e.key, here)
  BY <1>b, <1>c DEF IndexInv, IndexSound, EntriesPointInto
<1>e. here # NoEntry =>
        /\ here.offset \in 1 .. Len(dbFile.recs)
        /\ dbFile.recs[here.offset] = Torn \/ dbFile.recs[here.offset].key = e.key
  BY <1>d DEF PointsTo
<1>f. ASSUME here # NoEntry
      PROVE  \E x : /\ TombstoneOver(dbFile.recs, here) = [dbFile.recs EXCEPT ![here.offset] = x]
                    /\ x = Torn \/ ~ x.live
  <2>1. CASE dbFile.recs[here.offset] # Torn /\ FieldLen[dbFile.recs[here.offset].val] = here.field_len
    <3> DEFINE x == [dbFile.recs[here.offset] EXCEPT !.live = FALSE]
    <3>1. TombstoneOver(dbFile.recs, here) = [dbFile.recs EXCEPT ![here.offset] = x]
      BY <1>e, <1>f, <2>1 DEF TombstoneOver
    <3>2. dbFile.recs[here.offset] \in Record
      BY <1>a, <1>e, <1>f, <2>1
    <3>3. ~ x.live
      BY <3>2 DEF Record
    <3> QED BY <3>1, <3>3
  <2>2. CASE ~ (dbFile.recs[here.offset] # Torn /\ FieldLen[dbFile.recs[here.offset].val] = here.field_len)
    <3>1. TombstoneOver(dbFile.recs, here) = [dbFile.recs EXCEPT ![here.offset] = Torn]
      BY <1>e, <1>f, <2>2 DEF TombstoneOver
    <3> QED BY <3>1
  <2> QED BY <2>1, <2>2
<1>1. \/ dbFile' = dbFile
      \/ dbFile' = [dbFile EXCEPT !.recs = Append(dbFile.recs, Torn)]
      \/ e.val # None /\ dbFile' = [dbFile EXCEPT !.recs = Append(dbFile.recs, new)]
      \/ e.val = None /\ here # NoEntry /\ dbFile' = [dbFile EXCEPT !.recs = TombstoneOver(dbFile.recs, here)]
      \/ /\ e.val = None /\ here # NoEntry
         /\ dbFile' = [dbFile EXCEPT !.recs = [dbFile.recs EXCEPT ![here.offset] = Torn]]
  <2>1. CASE FlushSet(t, e)
    BY <2>1 DEF FlushSet
  <2>2. CASE FlushDelete(t, e)
    BY <2>2 DEF FlushDelete
  <2>3. CASE FlushWriteError(t, e)
    BY <2>3, <1>a DEF FlushWriteError, FileImage
  <2>4. CASE CancelLoop(t, e)
    BY <2>4 DEF CancelLoop
  <2> QED BY <2>1, <2>2, <2>3, <2>4 DEF LoopStep
<1>2. dbFile'.header = dbFile.header
  BY <1>1, <1>a DEF FileImage
<1>3. FlushSet(t, e) => dbFile'.recs = Append(dbFile.recs, new)
  BY <1>a DEF FlushSet, FileImage
<1>4. CASE dbFile' = dbFile
  BY <1>2, <1>3, <1>4
<1>5. CASE dbFile' = [dbFile EXCEPT !.recs = Append(dbFile.recs, Torn)]
  <2>1. dbFile'.recs = Append(dbFile.recs, Torn)
    BY <1>5, <1>a DEF FileImage
  <2> QED BY <1>2, <1>3, <2>1
<1>6. CASE e.val # None /\ dbFile' = [dbFile EXCEPT !.recs = Append(dbFile.recs, new)]
  <2>1. dbFile'.recs = Append(dbFile.recs, new)
    BY <1>6, <1>a DEF FileImage
  <2> QED BY <1>2, <1>3, <1>6, <2>1
<1>7. CASE e.val = None /\ here # NoEntry /\ dbFile' = [dbFile EXCEPT !.recs = TombstoneOver(dbFile.recs, here)]
  <2>1. dbFile'.recs = TombstoneOver(dbFile.recs, here)
    BY <1>7, <1>a DEF FileImage
  <2> HIDE DEF here, new
  <2> QED BY <1>2, <1>3, <1>7, <1>e, <1>f, <2>1 DEF new
<1>8. CASE /\ e.val = None /\ here # NoEntry
           /\ dbFile' = [dbFile EXCEPT !.recs = [dbFile.recs EXCEPT ![here.offset] = Torn]]
  <2>1. dbFile'.recs = [dbFile.recs EXCEPT ![here.offset] = Torn]
    BY <1>8, <1>a DEF FileImage
  <2> HIDE DEF here, new
  <2> QED BY <1>2, <1>3, <1>8, <1>e, <2>1 DEF new
<1> QED
  BY <1>1, <1>4, <1>5, <1>6, <1>7, <1>8

\* So live records of other keys stay, and those of e's key are at most joined
\* by e's, unless e deletes it.
LEMMA LoopLive ==
  ASSUME TypeOK, IndexInv, NEW t \in Task, NEW e \in todo[t], LoopStep(t, e), NEW k \in Key,
         k # e.key \/ e.val # None
  PROVE  /\ \A i \in LiveAt(dbFile.recs, k) : i \in LiveAt(dbFile'.recs, k) /\ dbFile'.recs[i] = dbFile.recs[i]
         /\ \A i \in LiveAt(dbFile'.recs, k) :
              i \in LiveAt(dbFile.recs, k) \/ (k = e.key /\ dbFile'.recs[i].val = e.val)
         /\ FlushSet(t, e) /\ k = e.key => Written(e)'
<1>a. dbFile.recs \in Seq(Record \cup {Torn}) /\ Len(dbFile.recs) \in Nat
  BY DEF TypeOK, FileImage
<1>b. e.key \in Key /\ (e.val # None => e.val \in Value)
  BY DEF TypeOK, WalEntry
<1>c. Torn \notin Record
  BY SentinelAssumption DEF Record
<1> DEFINE new == [key |-> e.key, val |-> e.val, live |-> TRUE]
<1>1. CASE dbFile'.recs = dbFile.recs /\ ~ FlushSet(t, e)
  BY <1>1
<1>2. ASSUME NEW x \in Record \cup {Torn}, dbFile'.recs = Append(dbFile.recs, x)
      PROVE  /\ \A i \in LiveAt(dbFile.recs, k) : i \in LiveAt(dbFile'.recs, k) /\ dbFile'.recs[i] = dbFile.recs[i]
             /\ \A i \in LiveAt(dbFile'.recs, k) :
                  i \in LiveAt(dbFile.recs, k) \/ (i = Len(dbFile.recs) + 1 /\ x # Torn /\ x.key = k)
             /\ x # Torn /\ x.key = k /\ x.live => Len(dbFile.recs) + 1 \in LiveAt(dbFile'.recs, k)
             /\ dbFile'.recs[Len(dbFile.recs) + 1] = x
             /\ \A i \in LiveAt(dbFile'.recs, k) : i <= Len(dbFile.recs) + 1
  <2>1. /\ Len(dbFile'.recs) = Len(dbFile.recs) + 1
        /\ \A i \in 1 .. Len(dbFile.recs) : dbFile'.recs[i] = dbFile.recs[i]
        /\ dbFile'.recs[Len(dbFile.recs) + 1] = x
    BY <1>a, <1>2, AppendProperties
  <2> QED BY <1>a, <2>1 DEF LiveAt
<1>3. CASE dbFile'.recs = Append(dbFile.recs, Torn) /\ ~ FlushSet(t, e)
  BY <1>2, <1>3
<1>4. CASE e.val # None /\ dbFile'.recs = Append(dbFile.recs, new)
  <2>0. new \in Record /\ new.key = e.key /\ new.val = e.val /\ new.live
    BY <1>4, <1>b DEF Record
  <2>1. new \in Record /\ new # Torn /\ new.key = e.key /\ new.val = e.val /\ new.live
    <3> HIDE DEF new
    <3> QED BY <2>0, <1>c
  <2> HIDE DEF new
  <2>3. /\ \A i \in LiveAt(dbFile.recs, k) : i \in LiveAt(dbFile'.recs, k) /\ dbFile'.recs[i] = dbFile.recs[i]
        /\ \A i \in LiveAt(dbFile'.recs, k) : i \in LiveAt(dbFile.recs, k) \/ (i = Len(dbFile.recs) + 1 /\ k = e.key)
        /\ dbFile'.recs[Len(dbFile.recs) + 1] = new
    BY <1>2, <1>4, <2>1
  <2>2. ASSUME k = e.key PROVE Written(e)'
    <3>1. Len(dbFile.recs) + 1 \in LiveAt(dbFile'.recs, e.key)
          /\ dbFile'.recs[Len(dbFile.recs) + 1].val = e.val
          /\ \A i \in LiveAt(dbFile'.recs, e.key) : i <= Len(dbFile.recs) + 1
      BY <1>2, <1>4, <2>1, <2>2
    <3> QED BY <3>1 DEF Written
  <2> QED BY <2>1, <2>2, <2>3
<1>5. ASSUME e.val = None, NEW o \in 1 .. Len(dbFile.recs), NEW x,
             dbFile'.recs = [dbFile.recs EXCEPT ![o] = x], x = Torn \/ ~ x.live,
             dbFile.recs[o] = Torn \/ dbFile.recs[o].key = e.key
      PROVE  /\ \A i \in LiveAt(dbFile.recs, k) : i \in LiveAt(dbFile'.recs, k) /\ dbFile'.recs[i] = dbFile.recs[i]
             /\ \A i \in LiveAt(dbFile'.recs, k) : i \in LiveAt(dbFile.recs, k)
  <2>1. /\ Len(dbFile'.recs) = Len(dbFile.recs)
        /\ \A i \in 1 .. Len(dbFile.recs) : i # o => dbFile'.recs[i] = dbFile.recs[i]
        /\ dbFile'.recs[o] = x
    BY <1>a, <1>5
  <2>2. k # e.key
    BY <1>5
  <2>3. o \notin LiveAt(dbFile.recs, k) /\ o \notin LiveAt(dbFile'.recs, k)
    BY <1>5, <2>1, <2>2 DEF LiveAt
  <2> QED BY <2>1, <2>3 DEF LiveAt
<1>6. FlushSet(t, e) => e.val # None
  BY DEF FlushSet
<1>7. \/ dbFile'.recs = dbFile.recs
      \/ dbFile'.recs = Append(dbFile.recs, Torn)
      \/ e.val # None /\ dbFile'.recs = Append(dbFile.recs, new)
      \/ /\ e.val = None
         /\ \E o \in 1 .. Len(dbFile.recs) : \E x :
              /\ dbFile'.recs = [dbFile.recs EXCEPT ![o] = x]
              /\ x = Torn \/ ~ x.live
              /\ dbFile.recs[o] = Torn \/ dbFile.recs[o].key = e.key
  BY LoopRecords
<1>8. FlushSet(t, e) => e.val # None /\ dbFile'.recs = Append(dbFile.recs, new)
  BY <1>6, LoopRecords
<1> QED
  BY <1>1, <1>3, <1>4, <1>5, <1>6, <1>7, <1>8

\* A step of the write loop keeps the invariant: what it destroys need not be
\* there, and what it appends is allowed.
LEMMA AckedLoop ==
  ASSUME TypeOK, TypeOK', IndexInv, AckedInv, NEW t \in Task, NEW e \in todo[t], LoopStep(t, e)
  PROVE  AckedInv'
<1> USE DEF files, memory, locals, ghosts
<1>1. /\ pc[t] = "write" /\ pc[t] \in FlushPcs
      /\ UNCHANGED <<dbSynced, walFile, walSynced, entries, allowed, fields, status>>
      /\ \/ pc' = pc /\ plan' = plan /\ todo' = [todo EXCEPT ![t] = @ \ {e}]
         \/ Return(t)
  BY DEF LoopStep, FlushSet, FlushDelete, FlushWriteError, CancelLoop, FlushPcs
<1>2. /\ \A u \in Task \ {t} : pc[u] = "idle"
      /\ \A f \in Net(entries) : f.key \in Key /\ f.val \in allowed[f.key]
  BY <1>1, FlushShows
<1>3. \A u \in Task \ {t} : pc'[u] = "idle"
  BY <1>1, <1>2 DEF Return, Goto, TypeOK
<1>4. pc'[t] \in {"idle", "write"} /\ (pc'[t] = "write" => pc' = pc /\ plan' = plan /\ todo' = [todo EXCEPT ![t] = @ \ {e}])
  BY <1>1 DEF Return, Goto, TypeOK
<1>5. Progress(t) /\ SetsSafe /\ HeadersWritten /\ AckedSetsKept
  BY DEF AckedInv, FlushProgress
<1>6. /\ todo[t] \subseteq Net(entries) /\ e \in Net(entries)
      /\ \A f \in Net(entries) \ todo[t] : f.val # None => Written(f)
      /\ \A k \in Key : plan[t][k] # NoEntry => None \in allowed[k]
  BY <1>1, <1>5 DEF Progress
<1>7. HeadersWritten' /\ AckedSetsKept'
  <2>1. dbFile'.header = dbFile.header
    BY LoopRecords
  <2> QED BY <1>1, <1>5, <2>1 DEF HeadersWritten, AckedSetsKept
<1>8. SetsSafe'
  <2> SUFFICES ASSUME NEW k \in Key, None \notin allowed'[k] PROVE LogHolds(k)' \/ DbShows(k, allowed[k])'
    BY DEF SetsSafe
  <2>1. k # e.key \/ e.val # None
    BY <1>1, <1>2, <1>6
  <2>2. CASE LogHolds(k)
    <3>1. LogGrows => LogGrows'
      BY <1>1 DEF LogGrows
    <3> QED BY <1>1, <2>2, <3>1 DEF LogHolds
  <2>3. CASE DbShows(k, allowed[k])
    <3>1. PICK p \in LiveAt(dbSynced.recs, k) \cap LiveAt(dbFile.recs, k) :
              /\ \A i \in LiveAt(dbSynced.recs, k) : i >= p => dbSynced.recs[i].val \in allowed[k]
              /\ \A i \in LiveAt(dbFile.recs, k) : i >= p => dbFile.recs[i].val \in allowed[k]
      BY <2>3 DEF DbShows
    <3>2. /\ \A i \in LiveAt(dbFile.recs, k) : i \in LiveAt(dbFile'.recs, k) /\ dbFile'.recs[i] = dbFile.recs[i]
          /\ \A i \in LiveAt(dbFile'.recs, k) :
               i \in LiveAt(dbFile.recs, k) \/ (k = e.key /\ dbFile'.recs[i].val = e.val)
      BY <2>1, LoopLive
    <3>3. k = e.key => e.val \in allowed[k]
      BY <1>2, <1>6
    <3>4. \A i \in LiveAt(dbFile'.recs, k) : i >= p => dbFile'.recs[i].val \in allowed[k]
      BY <3>1, <3>2, <3>3
    <3> QED BY <1>1, <3>1, <3>2, <3>4 DEF DbShows
  <2> QED BY <1>1, <1>5, <2>2, <2>3 DEF SetsSafe
<1>9. Progress(t)'
  <2>1. CASE pc'[t] = "idle"
    BY <2>1 DEF Progress, FlushPcs
  <2>2. CASE pc'[t] = "write"
    <3>1. /\ todo'[t] = todo[t] \ {e} /\ plan'[t] = plan[t]
          /\ FlushSet(t, e) \/ FlushDelete(t, e)
      <4>1. FlushSet(t, e) \/ FlushDelete(t, e)
        BY <2>2 DEF LoopStep, FlushWriteError, CancelLoop, Return, Goto, TypeOK
      <4> QED BY <1>4, <2>2, <4>1 DEF TypeOK
    <3>2. ASSUME NEW f \in Net(entries) \ todo'[t], f.val # None PROVE Written(f)'
      <4>0. f.key \in Key
        BY <1>2
      <4>1. CASE f = e
        <5>1. FlushSet(t, e)
          BY <3>1, <3>2, <4>1 DEF FlushDelete
        <5> QED BY <3>2, <4>0, <4>1, <5>1, LoopLive
      <4>2. CASE f # e
        <5>1. f.key # e.key
          BY <1>6, <4>2, NetLast DEF TypeOK
        <5>2. Written(f)
          BY <1>6, <3>1, <3>2, <4>2
        <5>3. /\ \A i \in LiveAt(dbFile.recs, f.key) : i \in LiveAt(dbFile'.recs, f.key) /\ dbFile'.recs[i] = dbFile.recs[i]
              /\ \A i \in LiveAt(dbFile'.recs, f.key) : i \in LiveAt(dbFile.recs, f.key)
          BY <4>0, <5>1, LoopLive
        <5> QED BY <5>2, <5>3 DEF Written
      <4> QED BY <4>1, <4>2
    <3> QED BY <1>1, <1>6, <2>2, <3>1, <3>2 DEF Progress, FlushPcs
  <2> QED BY <1>4, <2>1, <2>2
<1>10. pc'[t] \in {"idle"} \cup FlushPcs
  BY <1>4 DEF FlushPcs
<1> QED
  BY <1>1, <1>2, <1>3, <1>7, <1>8, <1>9, <1>10, AckedFlushStep

\* Past the sync of .db every key that must have a field has it there.
LEMMA CheckpointSafe ==
  ASSUME TypeOK, IndexInv, AckedInv, NEW t \in Task, pc[t] = "checkpoint",
         NEW k \in Key, None \notin allowed[k]
  PROVE  DbShows(k, allowed[k])
<1>1. /\ pc[t] \in FlushPcs /\ status = "up"
      /\ \A e \in Net(entries) : e.val # None => DbShows(e.key, {e.val})
      /\ SetsSafe
  BY DEF FlushPcs, IndexInv, CallsNeedOpen, AckedInv, FlushProgress, Progress
<1>2. \A e \in Net(entries) : e.key \in Key /\ e.val \in allowed[e.key]
  BY <1>1, FlushShows
<1>3. CASE RowsOf(entries, k) # {}
  <2>1. PICK e \in Net(entries) : e.key = k
    BY <1>3, NetLast DEF TypeOK
  <2>2. DbShows(k, {e.val}) /\ e.val \in allowed[k]
    BY <1>1, <1>2, <2>1
  <2> QED BY <2>2 DEF DbShows
<1>4. CASE RowsOf(entries, k) = {}
  BY <1>1, <1>4 DEF SetsSafe, LogHolds
<1> QED
  BY <1>3, <1>4

\* A step of a flush that touches neither the log nor the .db file: a record
\* that was safe still is.
LEMMA AckedFlushQuiet ==
  ASSUME TypeOK, TypeOK', IndexInv, AckedInv, NEW t \in Task,
         \A u \in Task \ {t} : pc[u] = "idle" /\ pc'[u] = pc[u],
         pc[t] \in {"idle"} \cup FlushPcs, pc'[t] \in {"idle"} \cup FlushPcs,
         UNCHANGED <<dbFile, dbSynced, walFile, walSynced, entries, allowed, status>>,
         \A k \in Key : fields'[k] = fields[k] \/ None \in allowed[k],
         pc'[t] = "plan" => todo'[t] = Net(entries),
         pc'[t] = "write" => /\ todo'[t] = Net(entries)
                             /\ \A k \in Key : plan'[t][k] # NoEntry => None \in allowed[k],
         pc'[t] # "index",
         pc'[t] \in FlushPcs \ {"pop", "plan", "write", "checkpoint_sync"}
           => pc[t] \in FlushPcs \ {"pop", "plan", "write", "checkpoint_sync"}
  PROVE  AckedInv'
<1>1. SetsSafe' /\ HeadersWritten' /\ AckedSetsKept'
  BY SafeQuiet DEF AckedInv, HeadersWritten, AckedSetsKept
<1>2. Progress(t)
  BY DEF AckedInv, FlushProgress
<1>3. ASSUME NEW e, DbShows(e.key, {e.val}) PROVE DbShows(e.key, {e.val})'
  BY <1>3 DEF DbShows
<1>4. pc'[t] \in FlushPcs \ {"pop", "plan", "write", "checkpoint_sync"} =>
        \A e \in Net(entries) : e.val # None => DbShows(e.key, {e.val})'
  BY <1>2, <1>3 DEF Progress
<1>5. Progress(t)'
  BY <1>4 DEF Progress
<1> QED
  BY <1>1, <1>5, AckedFlushStep

\* The steps before and after the write loop.
LEMMA AckedFlushQuiets ==
  ASSUME SerialUse, TypeOK, TypeOK', IndexInv, AckedInv, NEW t \in Task
  PROVE  /\ CallFlush(t) => AckedInv'
         /\ PopUncommitted(t) => AckedInv'
         /\ FlushPlan(t) => AckedInv'
         /\ FlushIndex(t) => AckedInv'
         /\ UpdateRecordCount(t) => AckedInv'
         /\ IndexClone(t) => AckedInv'
         /\ IndexTrunc(t) => AckedInv'
         /\ IndexWrite(t) => AckedInv'
         /\ IndexSync(t) => AckedInv'
         /\ FlushStepError(t) => AckedInv'
         /\ CancelWaiting(t) /\ pc[t] \in FlushPcs => AckedInv'
<1> USE DEF files, memory, locals, ghosts
<1>a. /\ pc \in [Task -> {"idle"} \cup WritePcs \cup FlushPcs] /\ DOMAIN todo = Task /\ DOMAIN plan = Task
      /\ DOMAIN fields = Key
  BY DEF TypeOK
<1>b. pc[t] \in FlushPcs => /\ \A u \in Task \ {t} : pc[u] = "idle"
                            /\ \A e \in Net(entries) : e.key \in Key /\ e.val \in allowed[e.key]
  BY FlushShows
<1>c. ASSUME NEW l, Goto(t, l) PROVE pc'[t] = l /\ \A u \in Task \ {t} : pc'[u] = pc[u]
  BY <1>a, <1>c DEF Goto
<1>d. Progress(t)
  BY DEF AckedInv, FlushProgress
<1>1. ASSUME CallFlush(t) PROVE AckedInv'
  <2>1. pc[t] = "idle" /\ pc'[t] = "pop" /\ \A u \in Task \ {t} : pc[u] = "idle" /\ pc'[u] = pc[u]
    BY <1>1, <1>c DEF CallFlush, SerialUse
  <2>2. UNCHANGED <<dbFile, dbSynced, walFile, walSynced, entries, allowed, status, fields>>
    BY <1>1 DEF CallFlush
  <2> QED BY <2>1, <2>2, AckedFlushQuiet DEF FlushPcs
<1>2. ASSUME PopUncommitted(t) PROVE AckedInv'
  <2>1. pc[t] = "pop" /\ pc'[t] = "plan" /\ todo'[t] = Net(entries) /\ \A u \in Task \ {t} : pc'[u] = pc[u]
    BY <1>2, <1>a, <1>c DEF PopUncommitted
  <2>2. UNCHANGED <<dbFile, dbSynced, walFile, walSynced, entries, allowed, status, fields>>
    BY <1>2 DEF PopUncommitted
  <2>3. pc[t] \in FlushPcs /\ pc'[t] \in FlushPcs
    BY <2>1 DEF FlushPcs
  <2> QED BY <1>b, <2>1, <2>2, <2>3, AckedFlushQuiet
<1>3. ASSUME FlushPlan(t) PROVE AckedInv'
  <2>1. /\ pc[t] = "plan" /\ pc'[t] = "write" /\ todo' = todo /\ \A u \in Task \ {t} : pc'[u] = pc[u]
        /\ plan'[t] = [k \in Key |-> IF [key |-> k, val |-> None] \in todo[t] THEN index[k] ELSE NoEntry]
    BY <1>3, <1>a, <1>c DEF FlushPlan
  <2>2. UNCHANGED <<dbFile, dbSynced, walFile, walSynced, entries, allowed, status, fields>>
    BY <1>3 DEF FlushPlan
  <2>3. pc[t] \in FlushPcs /\ pc'[t] \in FlushPcs /\ todo[t] = Net(entries)
    BY <1>d, <2>1 DEF FlushPcs, Progress
  <2>4. ASSUME NEW k \in Key, plan'[t][k] # NoEntry PROVE None \in allowed[k]
    <3>1. [key |-> k, val |-> None] \in Net(entries)
      BY <2>1, <2>3, <2>4
    <3> QED BY <1>b, <2>3, <3>1
  <2> QED BY <1>b, <2>1, <2>2, <2>3, <2>4, AckedFlushQuiet
<1>4. ASSUME FlushIndex(t) PROVE AckedInv'
  <2>1. /\ pc[t] = "index" /\ pc'[t] = "count" /\ \A u \in Task \ {t} : pc'[u] = pc[u]
        /\ \A k \in Key : fields'[k] = IF plan[t][k] # NoEntry THEN None ELSE fields[k]
    BY <1>4, <1>c DEF FlushIndex
  <2>2. UNCHANGED <<dbFile, dbSynced, walFile, walSynced, entries, allowed, status>>
    BY <1>4 DEF FlushIndex
  <2>3. pc[t] \in FlushPcs /\ pc'[t] \in FlushPcs
    BY <2>1 DEF FlushPcs
  <2>4. \A k \in Key : fields'[k] = fields[k] \/ None \in allowed[k]
    BY <1>d, <2>1 DEF Progress
  <2> QED BY <1>b, <2>1, <2>2, <2>3, <2>4, AckedFlushQuiet
<1>5. ASSUME UpdateRecordCount(t) \/ IndexClone(t) \/ IndexTrunc(t) \/ IndexWrite(t) \/ IndexSync(t) PROVE AckedInv'
  <2>1. /\ pc[t] \in {"count", "clone", "idx_trunc", "idx_write", "idx_sync"}
        /\ pc'[t] \in {"clone", "idx_trunc", "idx_write", "idx_sync", "checkpoint"}
        /\ \A u \in Task \ {t} : pc'[u] = pc[u]
    BY <1>5, <1>c DEF UpdateRecordCount, IndexClone, IndexTrunc, IndexWrite, IndexSync
  <2>2. UNCHANGED <<dbFile, dbSynced, walFile, walSynced, entries, allowed, status, fields>>
    BY <1>5 DEF UpdateRecordCount, IndexClone, IndexTrunc, IndexWrite, IndexSync
  <2>3. /\ pc[t] \in FlushPcs \ {"pop", "plan", "write", "checkpoint_sync"}
        /\ pc'[t] \in FlushPcs \ {"pop", "plan", "write", "checkpoint_sync", "index"}
    BY <2>1 DEF FlushPcs
  <2> QED BY <1>b, <2>2, <2>1, <2>3, AckedFlushQuiet
<1>6. ASSUME FlushStepError(t) \/ (CancelWaiting(t) /\ pc[t] \in FlushPcs) PROVE AckedInv'
  <2>1. /\ pc[t] \in FlushPcs /\ pc'[t] = "idle" /\ \A u \in Task \ {t} : pc'[u] = pc[u]
    BY <1>6, <1>c DEF FlushStepError, CancelWaiting, FlushPcs, Return
  <2>2. UNCHANGED <<dbFile, dbSynced, walFile, walSynced, entries, allowed, status, fields>>
    BY <1>6 DEF FlushStepError, CancelWaiting
  <2>3. "idle" \notin FlushPcs
    BY DEF FlushPcs
  <2> QED BY <1>b, <2>1, <2>2, <2>3, AckedFlushQuiet
<1> QED
  BY <1>1, <1>2, <1>3, <1>4, <1>5, <1>6

\* The sync of .db: what the loop wrote is in every image from here on.
LEMMA AckedSync ==
  ASSUME TypeOK, TypeOK', IndexInv, AckedInv, NEW t \in Task, pc[t] = "write", todo[t] = {},
         dbSynced' = dbFile, UNCHANGED <<dbFile, walFile, walSynced, entries, allowed, status, fields>>,
         \A u \in Task \ {t} : pc'[u] = pc[u],
         pc'[t] = "idle" \/ (pc'[t] = "index" /\ plan' = plan)
  PROVE  AckedInv'
<1>1. pc[t] \in FlushPcs /\ pc'[t] \in {"idle"} \cup FlushPcs /\ "idle" \notin FlushPcs
  BY DEF FlushPcs
<1>2. \A u \in Task \ {t} : pc[u] = "idle" /\ pc'[u] = "idle"
  BY <1>1, FlushShows
<1>3. HeadersWritten' /\ AckedSetsKept'
  BY DEF AckedInv, HeadersWritten, AckedSetsKept
<1>4. SetsSafe'
  <2> SUFFICES ASSUME NEW k \in Key, None \notin allowed'[k] PROVE LogHolds(k)' \/ DbShows(k, allowed[k])'
    BY DEF SetsSafe
  <2>1. CASE LogHolds(k)
    <3>1. LogGrows => LogGrows'
      BY DEF LogGrows
    <3> QED BY <2>1, <3>1 DEF LogHolds
  <2>2. CASE DbShows(k, allowed[k])
    BY <2>2 DEF DbShows
  <2> QED BY <2>1, <2>2 DEF AckedInv, SetsSafe
<1>5. Progress(t)
  BY DEF AckedInv, FlushProgress
<1>6. ASSUME NEW e \in Net(entries), e.val # None PROVE DbShows(e.key, {e.val})'
  <2>1. Written(e)
    BY <1>5, <1>6 DEF Progress
  <2>2. PICK p \in LiveAt(dbFile.recs, e.key) :
          dbFile.recs[p].val = e.val /\ \A i \in LiveAt(dbFile.recs, e.key) : i <= p
    BY <2>1 DEF Written
  <2>3. \A i \in LiveAt(dbFile.recs, e.key) : i \in Nat
    BY DEF LiveAt
  <2>4. \A i \in LiveAt(dbFile.recs, e.key) : i >= p => dbFile.recs[i].val \in {e.val}
    BY <2>2, <2>3
  <2> QED BY <2>2, <2>4 DEF DbShows
<1>7. Progress(t)'
  BY <1>5, <1>6, <1>1 DEF Progress
<1> QED
  BY <1>1, <1>2, <1>3, <1>4, <1>7, AckedFlushStep

\* The sync, carried out or abandoned, and what an abandoned rebuild_index leaves.
LEMMA AckedSyncs ==
  ASSUME TypeOK, TypeOK', IndexInv, AckedInv, NEW t \in Task
  PROVE  /\ FlushSync(t) => AckedInv'
         /\ CancelRebuild(t) => AckedInv'
<1> USE DEF files, memory, locals, ghosts
<1>a. pc \in [Task -> {"idle"} \cup WritePcs \cup FlushPcs]
  BY DEF TypeOK
<1>1. ASSUME FlushSync(t) PROVE AckedInv'
  <2>1. /\ pc[t] = "write" /\ todo[t] = {} /\ pc'[t] = "index" /\ plan' = plan /\ dbSynced' = dbFile
        /\ \A u \in Task \ {t} : pc'[u] = pc[u]
        /\ UNCHANGED <<dbFile, walFile, walSynced, entries, allowed, status, fields>>
    BY <1>1, <1>a DEF FlushSync, Goto
  <2> QED BY <2>1, AckedSync
<1>2. ASSUME CancelRebuild(t) PROVE AckedInv'
  <2>1. /\ pc'[t] = "idle" /\ \A u \in Task \ {t} : pc'[u] = pc[u]
        /\ UNCHANGED <<dbFile, walFile, walSynced, entries, allowed, status, fields>>
    BY <1>2, <1>a DEF CancelRebuild, Return, Goto
  <2>2. CASE pc[t] = "write" /\ todo[t] = {} /\ dbSynced' = dbFile
    BY <2>1, <2>2, AckedSync
  <2>3. CASE pc[t] \in {"idx_trunc", "idx_write", "idx_sync"} /\ dbSynced' = dbSynced
    <3>1. pc[t] \in FlushPcs /\ "idle" \notin FlushPcs
      BY <2>3 DEF FlushPcs
    <3>2. \A u \in Task \ {t} : pc[u] = "idle"
      BY <3>1, FlushShows
    <3> QED BY <2>1, <2>3, <3>1, <3>2, AckedFlushQuiet
  <2> QED BY <1>2, <2>2, <2>3 DEF CancelRebuild
<1> QED
  BY <1>1, <1>2

\* Wal::checkpoint, carried out, failed or abandoned.
LEMMA AckedCheckpoint ==
  ASSUME TypeOK, TypeOK', IndexInv, AckedInv, NEW t \in Task
  PROVE  /\ Checkpoint(t) => AckedInv'
         /\ CheckpointError(t) => AckedInv'
         /\ CheckpointSync(t) => AckedInv'
         /\ CancelCheckpoint(t) => AckedInv'
<1> USE DEF files, memory, locals, ghosts
<1>a. pc \in [Task -> {"idle"} \cup WritePcs \cup FlushPcs]
  BY DEF TypeOK
<1>1. ASSUME pc[t] = "checkpoint", pc'[t] \in {"checkpoint_sync", "idle"}, \A u \in Task \ {t} : pc'[u] = pc[u],
             walFile' = walFile \/ walFile' = <<>>, entries' = <<>>,
             UNCHANGED <<dbFile, dbSynced, walSynced, allowed, status, fields>>
      PROVE  AckedInv'
  <2>1. pc[t] \in FlushPcs /\ pc'[t] \in {"idle"} \cup FlushPcs /\ "idle" \notin FlushPcs
    BY <1>1 DEF FlushPcs
  <2>2. \A u \in Task \ {t} : pc[u] = "idle" /\ pc'[u] = "idle"
    BY <1>1, <2>1, FlushShows
  <2>3. HeadersWritten' /\ AckedSetsKept'
    BY <1>1 DEF AckedInv, HeadersWritten, AckedSetsKept
  <2>4. ASSUME NEW k \in Key, None \notin allowed'[k] PROVE DbShows(k, allowed[k])'
    <3>1. DbShows(k, allowed[k])
      BY <1>1, <2>4, CheckpointSafe
    <3> QED BY <1>1, <3>1 DEF DbShows
  <2>5. SetsSafe'
    BY <2>4 DEF SetsSafe
  <2>6. Progress(t)'
    BY <1>1, <2>1 DEF Progress
  <2> QED BY <1>1, <2>1, <2>2, <2>3, <2>5, <2>6, AckedFlushStep
<1>2. ASSUME pc[t] = "checkpoint_sync", pc'[t] = "idle", \A u \in Task \ {t} : pc'[u] = pc[u],
             walSynced' = walSynced \/ walSynced' = walFile,
             UNCHANGED <<dbFile, dbSynced, walFile, entries, allowed, status, fields>>
      PROVE  AckedInv'
  <2>1. pc[t] \in FlushPcs /\ "idle" \notin FlushPcs
    BY <1>2 DEF FlushPcs
  <2>2. \A u \in Task \ {t} : pc[u] = "idle" /\ pc'[u] = "idle"
    BY <1>2, <2>1, FlushShows
  <2>3. HeadersWritten' /\ AckedSetsKept'
    BY <1>2 DEF AckedInv, HeadersWritten, AckedSetsKept
  <2>4. SetsSafe'
    <3> SUFFICES ASSUME NEW k \in Key, None \notin allowed'[k] PROVE LogHolds(k)' \/ DbShows(k, allowed[k])'
      BY DEF SetsSafe
    <3>1. LogGrows => LogGrows'
      BY <1>2 DEF LogGrows
    <3>2. status = "up"
      BY <1>2 DEF IndexInv, CallsNeedOpen
    <3> QED BY <1>2, <3>1, <3>2, SafeGrows DEF AckedInv
  <2>6. Progress(t)'
    BY <1>2, <2>1 DEF Progress
  <2> QED BY <1>2, <2>1, <2>2, <2>3, <2>4, <2>6, AckedFlushStep
<1>3. ASSUME Checkpoint(t) PROVE AckedInv'
  BY <1>1, <1>3, <1>a DEF Checkpoint, Goto
<1>4. ASSUME CheckpointError(t) PROVE AckedInv'
  BY <1>1, <1>4, <1>a DEF CheckpointError, Return, Goto
<1>5. ASSUME CheckpointSync(t) PROVE AckedInv'
  BY <1>2, <1>5, <1>a DEF CheckpointSync, Return, Goto
<1>6. ASSUME CancelCheckpoint(t) PROVE AckedInv'
  BY <1>1, <1>2, <1>6, <1>a DEF CancelCheckpoint, Return, Goto
<1> QED
  BY <1>3, <1>4, <1>5, <1>6

-----------------------------------------------------------------------------
(***************************************************************************)
(* open, close and crashes.                                                *)
(***************************************************************************)

\* What both images of the .db file show a key is what decoding them gives.
LEMMA DbShowsDecode ==
  ASSUME TypeOK, NEW k \in Key, NEW S, DbShows(k, S)
  PROVE  DecodeDbFile(dbFile.recs)[k] \in S /\ DecodeDbFile(dbSynced.recs)[k] \in S
<1>1. PICK p \in LiveAt(dbSynced.recs, k) \cap LiveAt(dbFile.recs, k) :
        /\ \A i \in LiveAt(dbSynced.recs, k) : i >= p => dbSynced.recs[i].val \in S
        /\ \A i \in LiveAt(dbFile.recs, k) : i >= p => dbFile.recs[i].val \in S
  BY DEF DbShows
<1>2. ASSUME NEW r \in Seq(Record \cup {Torn}), p \in LiveAt(r, k), \A i \in LiveAt(r, k) : i >= p => r[i].val \in S
      PROVE  DecodeDbFile(r)[k] \in S
  <2> DEFINE m == LastOf(LiveAt(r, k))
  <2>1. LiveAt(r, k) \subseteq 1 .. Len(r) /\ Len(r) \in Nat
    BY DEF LiveAt
  <2>2. m \in LiveAt(r, k) /\ \A i \in LiveAt(r, k) : i <= m
    BY <1>2, <2>1, LastOfMax
  <2>3. m \in Nat /\ p \in Nat /\ m >= p /\ m # 0
    BY <1>2, <2>1, <2>2
  <2>4. DecodeDbFile(r)[k] = r[m].val
    BY <2>3 DEF DecodeDbFile
  <2> QED BY <1>2, <2>2, <2>3, <2>4
<1>3. dbFile.recs \in Seq(Record \cup {Torn}) /\ dbSynced.recs \in Seq(Record \cup {Torn})
  BY DEF TypeOK, FileImage
<1> QED
  BY <1>1, <1>2, <1>3

\* Between calls only the files, the entries and the fields matter.
LEMMA AckedIdle ==
  ASSUME \A u \in Task : pc'[u] = "idle",
         HeadersWritten' /\ LogImages' /\ EntriesExplained' /\ SetsSafe' /\ AckedSetsKept'
  PROVE  AckedInv'
<1>1. \A u \in Task : ~ InLog(u)' /\ pc'[u] \notin WritePcs /\ pc'[u] \notin FlushPcs
  BY DEF InLog, WritePcs, FlushPcs
<1>2. FlushRunsAlone' /\ RivalsKnown' /\ WritesPlaced' /\ FlushProgress'
  BY <1>1 DEF FlushRunsAlone, RivalsKnown, WritesPlaced, FlushProgress, Progress
<1> QED
  BY <1>2 DEF AckedInv

\* A log cut short holds the first n entries, for some n.
LEMMA CutRowsLike ==
  ASSUME NEW w \in Seq(WalEntry \cup {Torn}), NEW s \in Cuts(w)
  PROVE  /\ Len(s) \in Nat
         /\ \E n \in 0 .. Len(w) : \A k : \A i :
              /\ i \in RowsOf(s, k) <=> i \in RowsOf(w, k) /\ i <= n
              /\ i \in RowsOf(s, k) => s[i] = w[i]
<1> DEFINE Like(n) == \A k : \A i :
             /\ i \in RowsOf(s, k) <=> i \in RowsOf(w, k) /\ i <= n
             /\ i \in RowsOf(s, k) => s[i] = w[i]
<1>a. Len(w) \in Nat
  OBVIOUS
<1>1. ASSUME NEW n \in 0 .. Len(w) PROVE /\ Len(SubSeq(w, 1, n)) = n
                                         /\ SubSeq(w, 1, n) \in Seq(WalEntry \cup {Torn})
                                         /\ \A i \in 1 .. n : SubSeq(w, 1, n)[i] = w[i]
  BY SubSeqProperties
<1>2. CASE \E n \in 0 .. Len(w) : s = SubSeq(w, 1, n)
  <2>1. PICK n \in 0 .. Len(w) : s = SubSeq(w, 1, n)
    BY <1>2
  <2>2. Len(s) = n /\ \A i \in 1 .. n : s[i] = w[i]
    BY <1>1, <2>1
  <2>3. Like(n)
    BY <1>a, <2>2 DEF RowsOf
  <2> QED BY <2>2, <2>3
<1>3. CASE \E m \in 0 .. Len(w) - 1 : s = Append(SubSeq(w, 1, m), Torn)
  <2>1. PICK m \in 0 .. Len(w) - 1 : s = Append(SubSeq(w, 1, m), Torn)
    BY <1>3
  <2> DEFINE c == SubSeq(w, 1, m)
  <2>2. c \in Seq(WalEntry \cup {Torn}) /\ Len(c) = m /\ \A i \in 1 .. m : c[i] = w[i]
    BY <1>1, <1>a
  <2>3. s = Append(c, Torn)
    BY <2>1
  <2> HIDE DEF c
  <2>4. Len(s) = m + 1 /\ s[m + 1] = Torn /\ \A i \in 1 .. m : s[i] = w[i]
    BY <2>2, <2>3, AppendProperties
  <2>5. Like(m) /\ m \in 0 .. Len(w)
    BY <1>a, <2>4 DEF RowsOf
  <2> QED BY <2>4, <2>5
<1> QED
  BY <1>2, <1>3 DEF Cuts

\* The log a power failure leaves is explained, and holds what was durable.
LEMMA SurvivingLog ==
  ASSUME TypeOK, LogImages, NEW s \in Survivors(walFile, walSynced)
  PROVE  /\ Len(s) \in Nat
         /\ ImageExplained(s, Len(s))
         /\ LogGrows => \A k : RowsOf(walSynced, k) # {} => RowsOf(s, k) # {}
<1>a. /\ walFile \in Seq(WalEntry \cup {Torn}) /\ walSynced \in Seq(WalEntry \cup {Torn})
      /\ Len(walFile) \in Nat /\ Len(walSynced) \in Nat
  BY DEF TypeOK
<1>1. ASSUME Len(s) \in Nat, NEW n \in 0 .. Len(walFile), ImageExplained(walFile, n),
             \A k : \A i :
               /\ i \in RowsOf(s, k) <=> i \in RowsOf(walFile, k) /\ i <= n
               /\ i \in RowsOf(s, k) => s[i] = walFile[i]
      PROVE  ImageExplained(s, Len(s))
  <2> SUFFICES ASSUME NEW k \in Key, NEW v \in LastVals(s, Len(s), k) PROVE MayShow(k, v)
    BY DEF ImageExplained
  <2>1. PICK i \in RowsOf(s, k) : v = s[i].val /\ \A m \in RowsOf(s, k) : m <= Len(s) => m <= i
    BY DEF LastVals
  <2>2. \A m \in RowsOf(s, k) : m <= Len(s)
    BY <1>1 DEF RowsOf
  <2>3. i \in RowsOf(walFile, k) /\ i <= n /\ v = walFile[i].val
        /\ \A m \in RowsOf(walFile, k) : m <= n => m <= i
    BY <1>1, <2>1, <2>2
  <2>4. v \in LastVals(walFile, n, k)
    BY <2>3 DEF LastVals
  <2> QED BY <1>1, <2>4 DEF ImageExplained
<1>2. CASE LogGrows
  <2>1. Len(walSynced) <= Len(walFile) /\ \A i \in 1 .. Len(walSynced) : walSynced[i] = walFile[i]
    BY <1>2 DEF LogGrows
  <2>2. Len(s) \in Nat /\ \E n \in Len(walSynced) .. Len(walFile) : \A k : \A i :
           /\ i \in RowsOf(s, k) <=> i \in RowsOf(walFile, k) /\ i <= n
           /\ i \in RowsOf(s, k) => s[i] = walFile[i]
    BY <1>a, <2>1, LogSurvivors
  <2>3. PICK n \in Len(walSynced) .. Len(walFile) : \A k : \A i :
           /\ i \in RowsOf(s, k) <=> i \in RowsOf(walFile, k) /\ i <= n
           /\ i \in RowsOf(s, k) => s[i] = walFile[i]
    BY <2>2
  <2>4. n \in 0 .. Len(walFile) /\ ImageExplained(walFile, n)
    BY <1>a, <1>2 DEF LogImages
  <2>5. ASSUME NEW k, RowsOf(walSynced, k) # {} PROVE RowsOf(s, k) # {}
    <3>1. PICK i \in RowsOf(walSynced, k) : TRUE
      BY <2>5
    <3>2. i \in RowsOf(walFile, k) /\ i <= n
      BY <1>a, <2>1, <3>1 DEF RowsOf
    <3> QED BY <2>3, <3>2
  <2>6. ImageExplained(s, Len(s))
    BY <1>1, <2>2, <2>3, <2>4
  <2> QED BY <2>2, <2>5, <2>6
<1>3. CASE ~ LogGrows
  <2>1. CASE s = walSynced
    BY <1>3, <1>a, <2>1 DEF LogImages
  <2>2. CASE s \in Cuts(walFile)
    <3>1. Len(s) \in Nat /\ \E n \in 0 .. Len(walFile) : \A k : \A i :
             /\ i \in RowsOf(s, k) <=> i \in RowsOf(walFile, k) /\ i <= n
             /\ i \in RowsOf(s, k) => s[i] = walFile[i]
      BY <1>a, <2>2, CutRowsLike
    <3>2. \A n \in 0 .. Len(walFile) : ImageExplained(walFile, n)
      BY <1>3 DEF LogImages
    <3>3. ImageExplained(s, Len(s))
      BY <1>1, <3>1, <3>2
    <3> QED BY <1>3, <3>1, <3>3
  <2> QED BY <2>1, <2>2 DEF Survivors
<1> QED
  BY <1>2, <1>3

\* The .db file a power failure leaves shows what both images showed.
LEMMA SurvivingDb ==
  ASSUME TypeOK, IndexInv, HeadersWritten, NEW img \in DbSurvivors
  PROVE  /\ img.header = "ok"
         /\ \A k \in Key : \A S : DbShows(k, S) =>
              \E p \in LiveAt(img.recs, k) : \A i \in LiveAt(img.recs, k) : i >= p => img.recs[i].val \in S
<1>a. /\ dbFile \in FileImage /\ dbSynced \in FileImage
      /\ dbFile.recs \in Seq(Record \cup {Torn}) /\ dbSynced.recs \in Seq(Record \cup {Torn})
      /\ Len(dbFile.recs) \in Nat /\ Len(dbSynced.recs) \in Nat
  BY DEF TypeOK, FileImage
<1>b. Covers(dbSynced.recs, dbFile.recs)
  BY DEF IndexInv, SyncedBelow
<1>1. CASE img = dbSynced
  BY <1>1 DEF HeadersWritten, DbShows
<1>2. ASSUME NEW n \in Len(dbSynced.recs) .. Len(dbFile.recs), NEW D \in SUBSET Overwritten,
             NEW T \in SUBSET (Overwritten \cup (Len(dbSynced.recs) + 1 .. n)),
             img = DbSurvives(n, D, T), NEW k \in Key, NEW S, DbShows(k, S)
      PROVE  \E p \in LiveAt(img.recs, k) : \A i \in LiveAt(img.recs, k) : i >= p => img.recs[i].val \in S
  <2>1. Len(img.recs) = n
    BY <1>2, <1>a, DbSurvivesType
  <2>2. \A i \in 1 .. n : img.recs[i] = IF i \in T THEN Torn
                                        ELSE IF i \in 1 .. Len(dbSynced.recs) /\ i \notin D THEN dbSynced.recs[i]
                                        ELSE dbFile.recs[i]
    BY <1>2, <1>a DEF DbSurvives
  <2>3. PICK p \in LiveAt(dbSynced.recs, k) \cap LiveAt(dbFile.recs, k) :
          /\ \A i \in LiveAt(dbSynced.recs, k) : i >= p => dbSynced.recs[i].val \in S
          /\ \A i \in LiveAt(dbFile.recs, k) : i >= p => dbFile.recs[i].val \in S
    BY <1>2 DEF DbShows
  <2>4. /\ p \in 1 .. Len(dbSynced.recs) /\ p \in 1 .. Len(dbFile.recs) /\ p \in 1 .. n
        /\ dbFile.recs[p] # Torn /\ dbSynced.recs[p] # Torn
        /\ dbFile.recs[p].live /\ dbSynced.recs[p].live
    BY <1>a, <2>3 DEF LiveAt
  <2>5. dbFile.recs[p] = dbSynced.recs[p]
    <3>1. dbFile.recs[p].key = dbSynced.recs[p].key /\ dbFile.recs[p].val = dbSynced.recs[p].val
      BY <1>b, <2>4 DEF Covers
    <3>2. dbFile.recs[p] \in Record /\ dbSynced.recs[p] \in Record
      BY <1>a, <2>4
    <3> QED BY <2>4, <3>1, <3>2 DEF Record
  <2>6. p \notin T
    BY <1>a, <2>4, <2>5 DEF Overwritten
  <2>7. img.recs[p] = dbSynced.recs[p]
    BY <2>2, <2>4, <2>5, <2>6
  <2>8. p \in LiveAt(img.recs, k)
    BY <2>1, <2>3, <2>4, <2>7 DEF LiveAt
  <2>9. ASSUME NEW i \in LiveAt(img.recs, k), i >= p PROVE img.recs[i].val \in S
    <3>1. i \in 1 .. n /\ img.recs[i] # Torn /\ img.recs[i].key = k /\ img.recs[i].live
      BY <2>1, <2>9 DEF LiveAt
    <3>2. \/ i \in 1 .. Len(dbSynced.recs) /\ img.recs[i] = dbSynced.recs[i]
          \/ i \in 1 .. Len(dbFile.recs) /\ img.recs[i] = dbFile.recs[i]
      BY <1>a, <2>2, <3>1
    <3> QED BY <2>3, <2>9, <3>1, <3>2 DEF LiveAt
  <2> QED BY <2>8, <2>9
<1>3. \/ img = dbSynced
      \/ \E n \in Len(dbSynced.recs) .. Len(dbFile.recs) :
           \E D \in SUBSET Overwritten :
             \E T \in SUBSET (Overwritten \cup (Len(dbSynced.recs) + 1 .. n)) :
               img = DbSurvives(n, D, T)
  BY DbSurvivorsCases DEF HeadersWritten
<1>4. img.header = "ok"
  BY <1>3 DEF HeadersWritten, DbSurvives
<1> QED
  BY <1>1, <1>2, <1>3, <1>4

\* open, close and crashes keep the invariant.
LEMMA AckedLifecycle ==
  ASSUME TypeOK, TypeOK', IndexInv, AckedInv
  PROVE  /\ ~ OpenNew
         /\ OpenInit => AckedInv'
         /\ OpenFails => AckedInv'
         /\ Close => AckedInv'
         /\ Kill => AckedInv'
         /\ PowerLoss => AckedInv'
<1> USE DEF files, memory, locals, ghosts
<1>a. LogImages /\ EntriesExplained /\ SetsSafe /\ AckedSetsKept /\ HeadersWritten
  BY DEF AckedInv
<1>b. /\ walFile \in Seq(WalEntry \cup {Torn}) /\ Len(walFile) \in Nat /\ Len(walSynced) \in Nat
  BY DEF TypeOK
<1>c. status # "up" => \A u \in Task : pc[u] = "idle" /\ ~ InLog(u)
  BY DEF IndexInv, CallsNeedOpen, InLog
<1>d. (\A u \in Task : ~ InLog(u)) => \A k \in Key : \A v : MayShow(k, v) <=> v \in allowed[k]
  BY DEF MayShow
<1>e. \A k \in Key : \A v : v \in allowed'[k] => MayShow(k, v)'
  BY DEF MayShow
<1>f. Forget => (\A u \in Task : pc'[u] = "idle") /\ entries' = <<>>
  BY DEF Forget
<1>g. entries' = <<>> => EntriesExplained'
  <2>1. \A k : LastVals(<<>>, 0, k) = {} /\ Len(<<>>) = 0
    BY DEF LastVals, RowsOf
  <2> QED BY <2>1 DEF EntriesExplained, ImageExplained
<1>h. status' # "up" => AckedSetsKept'
  BY DEF AckedSetsKept
<1>i. ASSUME UNCHANGED files, status' # "up", \A k \in Key : allowed[k] \subseteq allowed'[k]
      PROVE  SetsSafe' /\ HeadersWritten'
  <2>1. HeadersWritten'
    BY <1>a, <1>i DEF HeadersWritten
  <2>2. LogGrows => LogGrows'
    BY <1>i DEF LogGrows
  <2>3. ASSUME NEW k \in Key, None \notin allowed'[k] PROVE LogHolds(k)' \/ DbShows(k, allowed[k])'
    <3>1. CASE LogHolds(k)
      BY <1>i, <2>2, <3>1 DEF LogHolds
    <3>2. CASE DbShows(k, allowed[k])
      <4>1. DbShows(k, allowed'[k])
        BY <1>i, <3>2 DEF DbShows
      <4> QED BY <1>i, <4>1 DEF DbShows
    <3> QED BY <1>a, <1>i, <2>3, <3>1, <3>2 DEF SetsSafe
  <2> QED BY <2>1, <2>3 DEF SetsSafe
<1>0. ~ OpenNew
  BY <1>a DEF OpenNew, HeadersWritten
<1>1. ASSUME OpenInit PROVE AckedInv'
  <2>1. /\ status = "down" /\ status' = "up" /\ UNCHANGED files
        /\ pc' = pc /\ allowed' = allowed /\ entries' = walFile
        /\ fields' = Replay(DecodeDbFile(dbFile.recs), walFile)
    BY <1>1 DEF OpenInit
  <2>2. \A k \in Key : \A v : MayShow(k, v) <=> v \in allowed[k]
    BY <1>c, <1>d, <2>1
  <2>3. LogImages'
    BY <1>a, <1>e, <2>1, <2>2, ImagesQuiet
  <2>4. ImageExplained(walFile, Len(walFile))
    <3>1. LogGrows => Len(walFile) >= Len(walSynced)
      BY <1>b DEF LogGrows
    <3> QED BY <1>a, <1>b, <3>1 DEF LogImages
  <2>5. EntriesExplained'
    BY <1>e, <2>1, <2>2, <2>4 DEF EntriesExplained, ImageExplained
  <2>6. HeadersWritten'
    BY <1>a, <2>1 DEF HeadersWritten
  <2>7. ASSUME NEW k \in Key, None \notin allowed[k]
        PROVE  /\ LogHolds(k)' \/ DbShows(k, allowed[k])'
               /\ fields'[k] \in allowed[k]
    <3>1. LogHolds(k) \/ DbShows(k, allowed[k])
      BY <1>a, <2>7 DEF SetsSafe
    <3>2. LogHolds(k) => RowsOf(walFile, k) # {}
      <4>1. ASSUME LogHolds(k) PROVE RowsOf(walFile, k) # {}
        <5>1. PICK i \in RowsOf(walSynced, k) : LogGrows
          BY <4>1 DEF LogHolds
        <5>2. i \in RowsOf(walFile, k)
          BY <1>b, <5>1 DEF RowsOf, LogGrows
        <5> QED BY <5>2
      <4> QED BY <4>1
    <3>3. LogHolds(k) => LogHolds(k)'
      <4>1. LogGrows => LogGrows'
        BY <2>1 DEF LogGrows
      <4> QED BY <2>1, <3>2, <4>1 DEF LogHolds
    <3>4. DbShows(k, allowed[k]) => DbShows(k, allowed[k])'
      BY <2>1 DEF DbShows
    <3>5. CASE RowsOf(walFile, k) # {}
      <4>1. fields'[k] \in LastVals(walFile, Len(walFile), k)
        BY <1>b, <2>1, <3>5, LastValsReplay
      <4> QED BY <2>2, <2>4, <3>1, <3>3, <3>4, <4>1 DEF ImageExplained
    <3>6. CASE RowsOf(walFile, k) = {}
      <4>1. fields'[k] = DecodeDbFile(dbFile.recs)[k]
        BY <2>1, <3>6, LastOfNone DEF Replay
      <4>2. DbShows(k, allowed[k])
        BY <3>1, <3>2, <3>6
      <4> QED BY <3>4, <4>1, <4>2, DbShowsDecode
    <3> QED BY <3>5, <3>6
  <2>8. SetsSafe' /\ AckedSetsKept'
    BY <2>1, <2>7 DEF SetsSafe, AckedSetsKept
  <2> QED BY <1>c, <2>1, <2>3, <2>5, <2>6, <2>8, AckedIdle
<1>2. ASSUME OpenFails PROVE AckedInv'
  <2>1. /\ status # "up" /\ status' # "up" /\ UNCHANGED files
        /\ pc' = pc /\ allowed' = allowed /\ entries' = entries
    BY <1>2 DEF OpenFails
  <2>2. \A k \in Key : \A v : MayShow(k, v) => MayShow(k, v)'
    BY <1>c, <1>d, <1>e, <2>1
  <2>3. LogImages' /\ EntriesExplained'
    BY <1>a, <2>1, <2>2, ImagesQuiet, EntriesQuiet
  <2>4. SetsSafe' /\ HeadersWritten'
    BY <1>i, <2>1
  <2> QED BY <1>c, <1>h, <2>1, <2>3, <2>4, AckedIdle
<1>3. ASSUME Close PROVE AckedInv'
  <2>1. /\ status' # "up" /\ UNCHANGED files /\ Forget /\ allowed' = allowed
        /\ \A u \in Task : pc[u] = "idle"
    BY <1>3 DEF Close
  <2>2. \A k \in Key : \A v : MayShow(k, v) => MayShow(k, v)'
    BY <1>e, <2>1 DEF MayShow, InLog
  <2>3. LogImages'
    BY <1>a, <2>1, <2>2, ImagesQuiet
  <2>4. SetsSafe' /\ HeadersWritten'
    BY <1>i, <2>1
  <2> QED BY <1>f, <1>g, <1>h, <2>1, <2>3, <2>4, AckedIdle
<1>4. ASSUME Kill PROVE AckedInv'
  <2>1. status' # "up" /\ UNCHANGED files /\ Forget /\ allowed' = AllowedAfterCrash
    BY <1>4 DEF Kill
  <2>2. \A k \in Key : \A v : MayShow(k, v) => MayShow(k, v)'
    BY <1>e, <2>1, CrashAllows
  <2>3. LogImages'
    BY <1>a, <2>1, <2>2, ImagesQuiet
  <2>4. \A k \in Key : allowed[k] \subseteq allowed'[k]
    BY <2>1 DEF AllowedAfterCrash
  <2>5. SetsSafe' /\ HeadersWritten'
    BY <1>i, <2>1, <2>4
  <2> QED BY <1>f, <1>g, <1>h, <2>1, <2>3, <2>5, AckedIdle
<1>5. ASSUME PowerLoss PROVE AckedInv'
  <2>1. status' # "up" /\ Forget /\ allowed' = AllowedAfterCrash
    BY <1>5 DEF PowerLoss
  <2>2. PICK img \in DbSurvivors : dbFile' = img /\ dbSynced' = img
    BY <1>5 DEF PowerLoss
  <2>3. PICK s \in Survivors(walFile, walSynced) : walFile' = s /\ walSynced' = s
    BY <1>5 DEF PowerLoss
  <2>4. \A k \in Key : \A v : MayShow(k, v) => MayShow(k, v)'
    BY <1>e, <2>1, CrashAllows
  <2>5. /\ Len(s) \in Nat
        /\ ImageExplained(s, Len(s))
        /\ LogGrows => \A k : RowsOf(walSynced, k) # {} => RowsOf(s, k) # {}
    BY <1>a, SurvivingLog
  <2>6. LogGrows'
    BY <2>3, <2>5 DEF LogGrows
  <2>7. \A k \in Key : \A v \in LastVals(s, Len(s), k) : MayShow(k, v)'
    BY <2>4, <2>5 DEF ImageExplained
  <2>8. LogImages'
    <3>1. \A n \in 0 .. Len(s) : n >= Len(s) => n = Len(s)
      BY <2>5
    <3>2. ImageExplained(walFile, Len(s))' /\ ImageExplained(walSynced, Len(s))'
      BY <2>3, <2>7 DEF ImageExplained
    <3> QED BY <2>3, <2>6, <3>1, <3>2 DEF LogImages
  <2>9. /\ img.header = "ok"
        /\ \A k \in Key : \A S : DbShows(k, S) =>
             \E p \in LiveAt(img.recs, k) : \A i \in LiveAt(img.recs, k) : i >= p => img.recs[i].val \in S
    BY <1>a, SurvivingDb
  <2>10. HeadersWritten'
    BY <2>2, <2>9 DEF HeadersWritten
  <2>11. ASSUME NEW k \in Key, None \notin allowed'[k] PROVE LogHolds(k)' \/ DbShows(k, allowed[k])'
    <3>0. allowed[k] \subseteq allowed'[k]
      BY <2>1 DEF AllowedAfterCrash
    <3>1. CASE LogHolds(k)
      BY <2>1, <2>3, <2>5, <2>6, <3>1 DEF LogHolds
    <3>2. CASE DbShows(k, allowed[k])
      <4>1. PICK p \in LiveAt(img.recs, k) : \A i \in LiveAt(img.recs, k) : i >= p => img.recs[i].val \in allowed[k]
        BY <2>9, <3>2
      <4>2. \A i \in LiveAt(img.recs, k) : i >= p => img.recs[i].val \in allowed'[k]
        BY <3>0, <4>1
      <4> QED BY <2>2, <4>1, <4>2 DEF DbShows
    <3> QED BY <1>a, <2>11, <3>0, <3>1, <3>2 DEF SetsSafe
  <2>12. SetsSafe'
    BY <2>11 DEF SetsSafe
  <2> QED BY <1>f, <1>g, <1>h, <2>1, <2>8, <2>10, <2>12, AckedIdle
<1> QED
  BY <1>0, <1>1, <1>2, <1>3, <1>4, <1>5

-----------------------------------------------------------------------------
(***************************************************************************)
(* The theorems.                                                           *)
(***************************************************************************)

\* New files hold nothing, and nothing is promised.
LEMMA AckedInit == SerialUse /\ Init => AckedInv
<1> SUFFICES ASSUME SerialUse, Init PROVE AckedInv
  OBVIOUS
<1>1. \A t \in Task : pc[t] = "idle"
  BY DEF Init
<1>2. \A t \in Task : ~ InLog(t) /\ pc[t] \notin WritePcs /\ pc[t] \notin FlushPcs
  BY <1>1 DEF InLog, WritePcs, FlushPcs
<1>3. FlushRunsAlone /\ RivalsKnown /\ WritesPlaced /\ FlushProgress
  BY <1>1, <1>2 DEF FlushRunsAlone, RivalsKnown, WritesPlaced, FlushProgress, Progress
<1>4. HeadersWritten
  BY DEF Init, Image, HeadersWritten, SerialUse
<1>5. \A n, k : LastVals(<<>>, n, k) = {}
  BY DEF LastVals, RowsOf
<1>6. walFile = <<>> /\ walSynced = <<>> /\ entries = <<>>
  BY DEF Init
<1>8. \A n : ImageExplained(<<>>, n)
  BY <1>5 DEF ImageExplained
<1>9. LogImages /\ EntriesExplained
  BY <1>6, <1>8 DEF LogImages, EntriesExplained
<1>7. SetsSafe /\ AckedSetsKept
  BY DEF Init, SetsSafe, AckedSetsKept
<1> QED
  BY <1>3, <1>4, <1>7, <1>9 DEF AckedInv

\* Every step keeps the invariant.
LEMMA AckedStep ==
  ASSUME SerialUse
  PROVE  TypeOK /\ TypeOK' /\ IndexInv /\ AckedInv /\ [Next]_vars => AckedInv'
<1> SUFFICES ASSUME TypeOK, TypeOK', IndexInv, AckedInv, [Next]_vars PROVE AckedInv'
  OBVIOUS
<1>1. CASE Program
  <2>1. PICK t \in Task : Call(t) \/ LockSteps(t) \/ OtherSteps(t) \/ ErrorSteps(t) \/ CancelSteps(t)
    BY <1>1 DEF Program
  <2>2. CASE Call(t) \/ LockSteps(t)
    BY <2>2, AckedWrite, AckedFlushQuiets, AckedCheckpoint DEF Call, LockSteps
  <2>3. CASE OtherSteps(t)
    BY <2>3, AckedWrite, AckedApply, AckedFlushQuiets, AckedSyncs, AckedLoop, AckedCheckpoint
       DEF OtherSteps, LoopStep
  <2>4. CASE ErrorSteps(t)
    BY <2>4, AckedWrite, AckedFlushQuiets, AckedLoop, AckedCheckpoint DEF ErrorSteps, LoopStep
  <2>5. CASE CancelSteps(t)
    <3>1. CancelWaiting(t) => pc[t] = "append" \/ pc[t] \in FlushPcs
      BY DEF CancelWaiting
    <3> QED BY <2>5, <3>1, AckedWrite, AckedFlushQuiets, AckedLoop, AckedSyncs, AckedCheckpoint
            DEF CancelSteps, LoopStep
  <2> QED BY <2>1, <2>2, <2>3, <2>4, <2>5
<1>2. CASE UNCHANGED vars
  <2> USE DEF vars, files, memory, locals, ghosts
  <2>1. /\ FlushRunsAlone' /\ HeadersWritten' /\ RivalsKnown' /\ SetsSafe' /\ AckedSetsKept'
    BY <1>2, SafeQuiet DEF AckedInv, FlushRunsAlone, HeadersWritten, RivalsKnown, AckedSetsKept
  <2>2. \A k \in Key : \A v : MayShow(k, v) => MayShow(k, v)'
    BY <1>2 DEF MayShow, InLog
  <2>3. LogImages' /\ EntriesExplained'
    BY <1>2, <2>2, ImagesQuiet, EntriesQuiet DEF AckedInv
  <2>4. WritesPlaced'
    BY <1>2 DEF AckedInv, WritesPlaced, InLog, LogGrows, PlacedIn
  <2>5. FlushProgress'
    BY <1>2 DEF AckedInv, FlushProgress, Progress, Written, DbShows
  <2> QED BY <2>1, <2>3, <2>4, <2>5 DEF AckedInv
<1> QED
  BY <1>1, <1>2, AckedLifecycle DEF Next

\* An acknowledged set is in the log or in the .db file, whatever crashes,
\* errors and dropped calls do to the files, as long as flush runs alone.
THEOREM AckedCorrect == ASSUME SerialUse PROVE Spec => []AckedInv
<1>1. Init => AckedInv
  BY AckedInit
<1>2. TypeOK /\ TypeOK' /\ IndexInv /\ AckedInv /\ [Next]_vars => AckedInv'
  BY AckedStep
<1> QED
  BY <1>1, <1>2, TypeCorrect, IndexCorrect, PTL DEF Spec

\* An acknowledged set is never lost or replaced by an older field (set,
\* flush and open together).
THEOREM AckedSetsCorrect == ASSUME SerialUse PROVE Spec => []AckedSetsKept
<1>1. AckedInv => AckedSetsKept
  BY DEF AckedInv
<1> QED
  BY <1>1, AckedCorrect, PTL

\* The log of an open database loses entries only to a checkpoint.
LEMMA OnlyCheckpointTruncates ==
  ASSUME TypeOK, IndexInv, [Next]_vars, status = "up", status' = "up", Len(walFile') < Len(walFile)
  PROVE  \E t \in Task : pc[t] = "checkpoint"
<1> USE DEF vars, files, memory, locals, ghosts
<1>1. Len(walFile) \in Nat /\ walFile' # walFile
  BY DEF TypeOK
<1>2. \A e \in WalEntry \cup {Torn} : walFile' # Append(walFile, e)
  <2>1. \A e \in WalEntry \cup {Torn} : Len(Append(walFile, e)) = Len(walFile) + 1
    BY DEF TypeOK
  <2> QED BY <1>1, <2>1
<1>3. Program
  BY <1>1 DEF Next, OpenNew, OpenInit, OpenFails, Close, Kill, PowerLoss
<1>4. PICK t \in Task : Call(t) \/ LockSteps(t) \/ OtherSteps(t) \/ ErrorSteps(t) \/ CancelSteps(t)
  BY <1>3 DEF Program
<1>5. pc[t] = "append" => call[t] \in WalEntry
  BY DEF TypeOK, WritePcs
<1>6. CASE Call(t) \/ LockSteps(t)
  BY <1>1, <1>2, <1>5, <1>6 DEF Call, LockSteps, CallWrite, CallFlush, AppendEntry, PopUncommitted, Checkpoint
<1>7. CASE OtherSteps(t)
  BY <1>1, <1>7 DEF OtherSteps, AppendEntrySync, ApplyWrite, FlushPlan, FlushSet, FlushDelete, FlushSync,
                    FlushIndex, UpdateRecordCount, IndexClone, IndexTrunc, IndexWrite, IndexSync, CheckpointSync
<1>8. CASE ErrorSteps(t)
  BY <1>1, <1>2, <1>8 DEF ErrorSteps, AppendEntryError, AppendEntrySyncError, FlushWriteError, FlushStepError,
                    CheckpointError
<1>9. CASE CancelSteps(t)
  BY <1>1, <1>2, <1>5, <1>9 DEF CancelSteps, CancelWaiting, CancelWrite, CancelLoop, CancelRebuild, CancelCheckpoint
<1> QED
  BY <1>4, <1>6, <1>7, <1>8, <1>9

\* Truncating the log loses nothing: what every key must be shown is durable
\* in the .db file by then (the order of flush: write, sync, index, checkpoint).
THEOREM CheckpointCorrect == ASSUME SerialUse PROVE Spec => CheckpointOnlyDurable
<1> DEFINE Truncated == (status = "up" /\ status' = "up" /\ Len(walFile') < Len(walFile)) =>
                          \A k \in Key : None \notin allowed[k] =>
                            DecodeDbFile(dbSynced.recs)[k] \in allowed[k]
<1>1. TypeOK /\ IndexInv /\ AckedInv /\ [Next]_vars => [Truncated]_vars
  <2> SUFFICES ASSUME TypeOK, IndexInv, AckedInv, [Next]_vars,
                      status = "up", status' = "up", Len(walFile') < Len(walFile),
                      NEW k \in Key, None \notin allowed[k]
               PROVE  DecodeDbFile(dbSynced.recs)[k] \in allowed[k]
    OBVIOUS
  <2>1. PICK t \in Task : pc[t] = "checkpoint"
    BY OnlyCheckpointTruncates
  <2> QED BY <2>1, CheckpointSafe, DbShowsDecode
<1> QED
  BY <1>1, TypeCorrect, IndexCorrect, AckedCorrect, PTL DEF Spec, CheckpointOnlyDurable

=============================================================================
