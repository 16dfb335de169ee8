----------------------------- MODULE StoreProofs -----------------------------
(***************************************************************************)
(* Without flush, as the server uses it, Database implements Store: for    *)
(* any number of keys, fields, callers and calls, and under every fault.   *)
(***************************************************************************)
EXTENDS DatabaseProofs, WellFoundedInduction

\* How src/server uses the engine: nothing calls flush, and the header of
\* the .db file is on the disk.
ServerUse == "flush" \notin Calls /\ Created

-----------------------------------------------------------------------------
(***************************************************************************)
(* The inductive invariant.                                                *)
(***************************************************************************)

\* Only the log is ever written.
FilesUntouched ==
  /\ dbFile = Image(TRUE) /\ dbSynced = Image(TRUE)
  /\ idxFile = <<>> /\ idxSynced = <<>>

\* Callers are in a write or in no call, and leave nothing behind.
CallsClean ==
  /\ status # "up" => fields = NoFields
  /\ \A t \in Task :
       /\ pc[t] \in {"idle"} \cup WritePcs
       /\ status # "up" => pc[t] = "idle"
       /\ pc[t] = "idle" => rivals[t] = {}

\* The log only grows: the synced image is its beginning.
LogGrows ==
  /\ Len(walSynced) <= Len(walFile)
  /\ \A i \in 1 .. Len(walSynced) : walSynced[i] = walFile[i]

\* The write of t has reached the log and has not returned.
InLog(t) == pc[t] \in {"append_sync", "apply"}

\* A crash now may leave k with field v.
MayShow(k, v) ==
  v \in allowed[k] \/ \E t \in Task : InLog(t) /\ call[t].key = k /\ call[t].val = v

\* Position i of the log decides about k in some image a crash may leave.
Decisive(i, k) ==
  /\ i \in RowsOf(walFile, k)
  /\ \A j \in RowsOf(walFile, k) : j <= Len(walSynced) => j <= i

\* Whatever image of the log survives, replaying it gives each key a field it
\* may be shown.
LogExplained ==
  \A k \in Key :
    /\ \A i \in Nat : Decisive(i, k) => MayShow(k, walFile[i].val)
    /\ (\A j \in RowsOf(walFile, k) : j > Len(walSynced)) => MayShow(k, None)

\* Of two writes of a key in progress each counts the other as a rival.
RivalsKnown ==
  \A t, u \in Task :
    (t # u /\ pc[t] \in WritePcs /\ pc[u] \in WritePcs /\ call[t].key = call[u].key)
      => call[u].val \in rivals[t]

\* p is the place of t's write in the log; later entries of its key are rivals.
LoggedAt(t, p) ==
  /\ p \in RowsOf(walFile, call[t].key)
  /\ walFile[p].val = call[t].val
  /\ pc[t] = "apply" => p <= Len(walSynced)
  /\ \A q \in RowsOf(walFile, call[t].key) : q > p => walFile[q].val \in rivals[t]

WritesLogged == \A t \in Task : InLog(t) => \E p \in Nat : LoggedAt(t, p)

DurableInv ==
  /\ FilesUntouched /\ CallsClean
  /\ LogGrows /\ LogExplained
  /\ RivalsKnown /\ WritesLogged
  /\ ReadsExplained

-----------------------------------------------------------------------------
(***************************************************************************)
(* Positions.                                                              *)
(***************************************************************************)

\* Every set of numbers that is not empty has a smallest one.
LEMMA SmallestOf ==
  ASSUME NEW S, S \subseteq Nat, S # {}
  PROVE  \E m \in S : \A n \in S : m <= n
<1> DEFINE R == OpToRel(<, Nat)
<1>1. IsWellFoundedOn(R, Nat)
  BY NatLessThanWellFounded
<1>2. PICK m \in S : \A n \in S : ~ (<<n, m>> \in R)
  <2> HIDE DEF R
  <2> QED BY <1>1, WFMin
<1>3. \A n \in S : ~ (n < m)
  BY <1>2 DEF OpToRel
<1> QED
  BY <1>3

\* A set of positions that is not empty has a last one.
LEMMA LastOfMax ==
  ASSUME NEW n \in Nat, NEW S, S \subseteq 1 .. n, S # {}
  PROVE  LastOf(S) \in S /\ \A m \in S : m <= LastOf(S)
<1> DEFINE T == {b \in Nat : \A m \in S : m <= b}
<1>1. n \in T
  OBVIOUS
<1>2. PICK b \in T : \A x \in T : b <= x
  <2>1. T \subseteq Nat /\ T # {}
    BY <1>1
  <2> HIDE DEF T
  <2> QED BY <2>1, SmallestOf
<1>3. b \in S
  <2> SUFFICES ASSUME b \notin S PROVE FALSE
    OBVIOUS
  <2>1. PICK s \in S : s \in 1 .. n
    OBVIOUS
  <2>2. b \in Nat /\ s <= b /\ \A m \in S : m \in 1 .. n /\ m <= b /\ m # b
    BY <1>2
  <2>3. b # 0
    BY <2>1, <2>2
  <2>4. b - 1 \in Nat /\ \A m \in S : m <= b - 1
    BY <2>2, <2>3
  <2> QED
    BY <1>2, <2>2, <2>4
<1>4. \E m \in S : \A x \in S : x <= m
  BY <1>2, <1>3
<1> QED
  BY <1>4 DEF LastOf

\* No positions, no last one.
LEMMA LastOfNone == LastOf({}) = 0
BY DEF LastOf

\* What replaying a log gives a key: its last entry, or what was there.
LEMMA ReplayLast ==
  ASSUME NEW base, NEW wal \in Seq(WalEntry \cup {Torn}), NEW k \in Key
  PROVE  \/ RowsOf(wal, k) = {} /\ Replay(base, wal)[k] = base[k]
         \/ \E i \in RowsOf(wal, k) :
              /\ \A j \in RowsOf(wal, k) : j <= i
              /\ Replay(base, wal)[k] = wal[i].val
<1>1. CASE RowsOf(wal, k) = {}
  BY <1>1, LastOfNone DEF Replay
<1>2. CASE RowsOf(wal, k) # {}
  <2> DEFINE i == LastOf(RowsOf(wal, k))
  <2>1. RowsOf(wal, k) \subseteq 1 .. Len(wal) /\ Len(wal) \in Nat
    BY DEF RowsOf
  <2>2. i \in RowsOf(wal, k) /\ \A j \in RowsOf(wal, k) : j <= i
    BY <1>2, <2>1, LastOfMax
  <2>3. i # 0
    BY <2>1, <2>2
  <2>4. Replay(base, wal)[k] = wal[i].val
    BY <2>3 DEF Replay
  <2> QED
    BY <2>2, <2>4
<1> QED
  BY <1>1, <1>2

\* An append adds one position, if it is an entry of k.
LEMMA RowsAppend ==
  ASSUME NEW w \in Seq(WalEntry \cup {Torn}), NEW e \in WalEntry \cup {Torn}, NEW k
  PROVE  /\ Len(Append(w, e)) = Len(w) + 1
         /\ \A i \in 1 .. Len(w) : Append(w, e)[i] = w[i]
         /\ Append(w, e)[Len(w) + 1] = e
         /\ \A i : i \in RowsOf(Append(w, e), k) <=>
                     \/ i \in RowsOf(w, k)
                     \/ i = Len(w) + 1 /\ e # Torn /\ e.key = k
BY AppendProperties DEF RowsOf

-----------------------------------------------------------------------------
(***************************************************************************)
(* What steps do to the log and to what it explains.                       *)
(***************************************************************************)

\* Nothing is logged, perhaps the log is synced, and no key loses a field it
\* may be shown.
LEMMA ExplainedQuiet ==
  ASSUME TypeOK, LogGrows, LogExplained,
         walFile' = walFile, walSynced' = walSynced \/ walSynced' = walFile,
         \A k \in Key : \A v : MayShow(k, v) => MayShow(k, v)'
  PROVE  LogGrows' /\ LogExplained'
<1>1. walFile \in Seq(WalEntry \cup {Torn}) /\ walSynced \in Seq(WalEntry \cup {Torn})
  BY DEF TypeOK
<1>2. Len(walSynced) <= Len(walSynced') /\ Len(walSynced') \in Nat /\ Len(walSynced) \in Nat
  BY <1>1 DEF LogGrows
<1>3. LogGrows'
  BY <1>1 DEF LogGrows
<1>4. \A k \in Key : \A i \in RowsOf(walFile, k) : i \in Nat
  BY DEF RowsOf
<1>5. ASSUME NEW k \in Key
      PROVE  /\ \A i \in Nat : Decisive(i, k)' => MayShow(k, walFile[i].val)'
             /\ (\A j \in RowsOf(walFile', k) : j > Len(walSynced')) => MayShow(k, None)'
  <2>1. \A i \in Nat : Decisive(i, k)' => Decisive(i, k)
    BY <1>2, <1>4 DEF Decisive
  <2>2. (\A j \in RowsOf(walFile', k) : j > Len(walSynced')) => \A j \in RowsOf(walFile, k) : j > Len(walSynced)
    BY <1>2, <1>4
  <2> QED
    BY <2>1, <2>2 DEF LogExplained
<1> QED
  BY <1>3, <1>5 DEF LogExplained

\* An entry, or part of one, is appended to the log.
LEMMA ExplainedAppend ==
  ASSUME TypeOK, LogGrows, LogExplained,
         NEW e \in WalEntry \cup {Torn},
         walFile' = Append(walFile, e), walSynced' = walSynced,
         e # Torn => MayShow(e.key, e.val)',
         \A k \in Key : \A v : MayShow(k, v) => MayShow(k, v)'
  PROVE  LogGrows' /\ LogExplained'
<1>1. walFile \in Seq(WalEntry \cup {Torn}) /\ walSynced \in Seq(WalEntry \cup {Torn})
  BY DEF TypeOK
<1>2. Len(walFile) \in Nat /\ Len(walSynced) \in Nat /\ Len(walSynced) <= Len(walFile)
  BY <1>1 DEF LogGrows
<1>3. /\ Len(walFile') = Len(walFile) + 1
      /\ \A i \in 1 .. Len(walFile) : walFile'[i] = walFile[i]
      /\ walFile'[Len(walFile) + 1] = e
  BY <1>1, RowsAppend
<1>4. \A k : \A i : i \in RowsOf(walFile', k) <=>
                      \/ i \in RowsOf(walFile, k)
                      \/ i = Len(walFile) + 1 /\ e # Torn /\ e.key = k
  BY <1>1, RowsAppend
<1>5. LogGrows'
  BY <1>2, <1>3 DEF LogGrows
<1>6. \A k \in Key : \A i \in RowsOf(walFile, k) : i \in 1 .. Len(walFile)
  BY DEF RowsOf
<1>7. ASSUME NEW k \in Key
      PROVE  /\ \A i \in Nat : Decisive(i, k)' => MayShow(k, walFile[i].val)'
             /\ (\A j \in RowsOf(walFile', k) : j > Len(walSynced')) => MayShow(k, None)'
  <2>1. ASSUME NEW i \in Nat, Decisive(i, k)', i \in RowsOf(walFile, k)
        PROVE  MayShow(k, walFile[i].val)'
    <3>1. Decisive(i, k)
      BY <1>4, <2>1 DEF Decisive
    <3>2. walFile'[i] = walFile[i]
      BY <1>3, <1>6, <2>1
    <3>3. MayShow(k, walFile[i].val)
      BY <3>1 DEF LogExplained
    <3> QED BY <3>2, <3>3
  <2>2. ASSUME NEW i \in Nat, Decisive(i, k)', i \notin RowsOf(walFile, k)
        PROVE  MayShow(k, walFile[i].val)'
    <3>1. i = Len(walFile) + 1 /\ e # Torn /\ e.key = k
      BY <1>4, <2>2 DEF Decisive
    <3> QED BY <1>3, <3>1
  <2>3. (\A j \in RowsOf(walFile', k) : j > Len(walSynced')) => \A j \in RowsOf(walFile, k) : j > Len(walSynced)
    BY <1>4
  <2> QED
    BY <2>1, <2>2, <2>3 DEF LogExplained
<1> QED
  BY <1>5, <1>7 DEF LogExplained

\* The write of u stays where it is in the log when nothing, or only a rival,
\* is appended.
LEMMA LoggedKept ==
  ASSUME TypeOK, LogGrows, LogGrows', NEW u \in Task, InLog(u), \E p \in Nat : LoggedAt(u, p),
         pc'[u] = pc[u], call'[u] = call[u], rivals[u] \subseteq rivals'[u],
         Len(walSynced) <= Len(walSynced'),
         \/ walFile' = walFile
         \/ \E e \in WalEntry \cup {Torn} :
              /\ walFile' = Append(walFile, e)
              /\ (e # Torn /\ e.key = call[u].key) => e.val \in rivals[u]
  PROVE  \E p \in Nat : LoggedAt(u, p)'
<1> DEFINE k == call[u].key
<1>1. PICK p \in Nat : LoggedAt(u, p)
  OBVIOUS
<1>2. walFile \in Seq(WalEntry \cup {Torn}) /\ walSynced \in Seq(WalEntry \cup {Torn})
  BY DEF TypeOK
<1>3. Len(walSynced) \in Nat /\ p \in RowsOf(walFile, k) /\ p \in 1 .. Len(walFile)
  BY <1>1, <1>2 DEF LoggedAt, RowsOf
<1>4. pc'[u] = "apply" => p <= Len(walSynced')
  <2>1. Len(walSynced') \in Nat
    BY <1>2 DEF TypeOK, LogGrows
  <2> QED BY <1>1, <1>3, <2>1 DEF LoggedAt
<1>5. CASE walFile' = walFile
  BY <1>1, <1>4, <1>5 DEF LoggedAt
<1>6. ASSUME NEW e \in WalEntry \cup {Torn}, walFile' = Append(walFile, e),
             (e # Torn /\ e.key = call[u].key) => e.val \in rivals[u]
      PROVE  LoggedAt(u, p)'
  <2>1. /\ \A i \in 1 .. Len(walFile) : walFile'[i] = walFile[i]
        /\ walFile'[Len(walFile) + 1] = e
        /\ \A i : i \in RowsOf(walFile', k) <=>
                    i \in RowsOf(walFile, k) \/ (i = Len(walFile) + 1 /\ e # Torn /\ e.key = k)
    BY <1>2, <1>6, RowsAppend
  <2>2. p \in RowsOf(walFile', k) /\ walFile'[p].val = call'[u].val
    BY <1>1, <1>3, <2>1 DEF LoggedAt
  <2>3. ASSUME NEW q \in RowsOf(walFile', k), q > p PROVE walFile'[q].val \in rivals'[u]
    <3>1. CASE q \in RowsOf(walFile, k)
      <4>1. q \in 1 .. Len(walFile)
        BY <3>1 DEF RowsOf
      <4> QED BY <1>1, <2>1, <2>3, <3>1, <4>1 DEF LoggedAt
    <3>2. CASE q = Len(walFile) + 1 /\ e # Torn /\ e.key = k
      BY <1>6, <2>1, <3>2
    <3> QED BY <2>1, <2>3, <3>1, <3>2
  <2> QED BY <1>4, <2>2, <2>3 DEF LoggedAt
<1> QED
  BY <1>5, <1>6

-----------------------------------------------------------------------------
(***************************************************************************)
(* The steps of set and delete.                                            *)
(***************************************************************************)

\* Writes that leave, or stay with the rivals they had, change no rivalry.
LEMMA RivalsShrink ==
  ASSUME RivalsKnown,
         \A u \in Task : pc'[u] \in WritePcs =>
           pc[u] \in WritePcs /\ call'[u] = call[u] /\ rivals[u] \subseteq rivals'[u]
  PROVE  RivalsKnown'
BY DEF RivalsKnown

\* A write that begins becomes the rival of those in progress on its key.
LEMMA RivalsBegin ==
  ASSUME TypeOK, RivalsKnown, NEW t \in Task, NEW k \in Key, NEW v \in Value \cup {None}, CallWrite(t, k, v)
  PROVE  /\ RivalsKnown'
         /\ \A u \in Task \ {t} : /\ rivals[u] \subseteq rivals'[u]
                                  /\ pc[u] = "idle" => rivals'[u] = rivals[u]
<1>1. /\ pc'[t] = "append" /\ pc[t] = "idle"
      /\ call'[t] = [key |-> k, val |-> v]
      /\ \A u \in Task \ {t} : pc'[u] = pc[u] /\ call'[u] = call[u]
  BY DEF CallWrite, Goto, TypeOK
<1>2. /\ \A w \in InFlight(k) : call[w].val \in rivals'[t]
      /\ \A u \in Task \ {t} : /\ rivals[u] \subseteq rivals'[u]
                               /\ u \in InFlight(k) => v \in rivals'[u]
                               /\ u \notin InFlight(k) => rivals'[u] = rivals[u]
  BY DEF CallWrite
<1>3. RivalsKnown'
  <2> SUFFICES ASSUME NEW u \in Task, NEW w \in Task, u # w, pc'[u] \in WritePcs, pc'[w] \in WritePcs,
                      call'[u].key = call'[w].key
               PROVE  call'[w].val \in rivals'[u]
    BY DEF RivalsKnown
  <2>1. CASE u = t
    <3>1. w \in InFlight(k) /\ call'[w] = call[w]
      BY <1>1, <2>1 DEF InFlight
    <3> QED BY <1>2, <2>1, <3>1
  <2>2. CASE w = t
    <3>1. u \in InFlight(k)
      BY <1>1, <2>2 DEF InFlight
    <3> QED BY <1>1, <1>2, <2>2, <3>1
  <2>3. CASE u # t /\ w # t
    BY <1>1, <1>2, <2>3 DEF RivalsKnown
  <2> QED BY <2>1, <2>2, <2>3
<1>4. \A u \in Task : pc[u] = "idle" => u \notin InFlight(k)
  BY DEF InFlight, WritePcs
<1> QED
  BY <1>2, <1>3, <1>4

\* A write that returns, and whose field, if it is in the log, stays allowed:
\* no key loses a field it may be shown.
LEMMA WriteReturns ==
  ASSUME TypeOK, RivalsKnown, NEW t \in Task, Return(t)
  PROVE  /\ pc'[t] = "idle" /\ rivals'[t] = {} /\ ~ InLog(t)'
         /\ \A u \in Task \ {t} : pc'[u] = pc[u] /\ call'[u] = call[u] /\ rivals'[u] = rivals[u]
         /\ RivalsKnown'
         /\ \A k \in Key : allowed[k] \subseteq allowed'[k] /\
              (InLog(t) /\ call[t].key = k => call[t].val \in allowed'[k])
                => \A v : MayShow(k, v) => MayShow(k, v)'
<1>1. /\ pc'[t] = "idle" /\ rivals'[t] = {} /\ ~ InLog(t)'
      /\ \A u \in Task \ {t} : pc'[u] = pc[u] /\ call'[u] = call[u] /\ rivals'[u] = rivals[u]
  BY DEF Return, Goto, InLog, TypeOK
<1>2. RivalsKnown'
  <2>1. \A u \in Task : pc'[u] \in WritePcs =>
           pc[u] \in WritePcs /\ call'[u] = call[u] /\ rivals[u] \subseteq rivals'[u]
    BY <1>1 DEF WritePcs
  <2> QED BY <2>1, RivalsShrink
<1>3. \A u \in Task \ {t} : InLog(u) => InLog(u)'
  BY <1>1 DEF InLog
<1> QED
  BY <1>1, <1>2, <1>3 DEF MayShow

\* What a step of the write of t needs to keep besides the log.
LEMMA WriteStep ==
  ASSUME TypeOK, TypeOK', DurableInv, NEW t \in Task,
         status = "up", status' = "up",
         UNCHANGED <<dbFile, dbSynced, idxFile, idxSynced>>,
         \A u \in Task \ {t} :
           /\ pc'[u] = pc[u] /\ call'[u] = call[u]
           /\ rivals[u] \subseteq rivals'[u]
           /\ pc[u] = "idle" => rivals'[u] = rivals[u],
         pc'[t] \in {"idle"} \cup WritePcs,
         pc'[t] = "idle" => rivals'[t] = {},
         Len(walSynced) <= Len(walSynced'),
         \/ walFile' = walFile
         \/ \E e \in WalEntry \cup {Torn} :
              /\ walFile' = Append(walFile, e)
              /\ e # Torn => pc[t] \in WritePcs /\ e = call[t],
         InLog(t)' => \E p \in Nat : LoggedAt(t, p)',
         LogGrows' /\ LogExplained' /\ RivalsKnown' /\ ReadsExplained'
  PROVE  DurableInv'
<1>1. FilesUntouched'
  BY DEF DurableInv, FilesUntouched
<1>2. CallsClean'
  BY DEF DurableInv, CallsClean
<1>3. ASSUME NEW u \in Task, InLog(u)', u # t PROVE \E p \in Nat : LoggedAt(u, p)'
  <2>1. InLog(u) /\ pc[u] \in WritePcs
    BY <1>3 DEF InLog, WritePcs
  <2>2. \E p \in Nat : LoggedAt(u, p)
    BY <2>1 DEF DurableInv, WritesLogged
  <2>3. \A e \in WalEntry \cup {Torn} :
          (e # Torn /\ e.key = call[u].key /\ pc[t] \in WritePcs /\ e = call[t]) => e.val \in rivals[u]
    BY <1>3, <2>1 DEF DurableInv, RivalsKnown
  <2>4. LogGrows
    BY DEF DurableInv
  <2>5. \/ walFile' = walFile
        \/ \E e \in WalEntry \cup {Torn} :
              /\ walFile' = Append(walFile, e)
              /\ (e # Torn /\ e.key = call[u].key) => e.val \in rivals[u]
    BY <2>3
  <2>6. pc'[u] = pc[u] /\ call'[u] = call[u] /\ rivals[u] \subseteq rivals'[u]
    BY <1>3
  <2> QED BY <2>1, <2>2, <2>4, <2>5, <2>6, LoggedKept
<1>4. WritesLogged'
  BY <1>3 DEF WritesLogged
<1> QED
  BY <1>1, <1>2, <1>4 DEF DurableInv

\* The steps of set and delete up to the acknowledgement, and their errors and
\* dropped calls: no key loses a field it may be shown.
LEMMA DurableWrite ==
  ASSUME TypeOK, TypeOK', DurableInv, NEW t \in Task
  PROVE  /\ \A k \in Key : \A v \in Value \cup {None} : CallWrite(t, k, v) => DurableInv'
         /\ AppendEntry(t) => DurableInv'
         /\ AppendEntryError(t) => DurableInv'
         /\ AppendEntrySync(t) => DurableInv'
         /\ AppendEntrySyncError(t) => DurableInv'
         /\ CancelWaiting(t) => DurableInv'
         /\ CancelWrite(t) => DurableInv'
<1> USE DEF files, memory, locals, ghosts
<1>a. LogGrows /\ LogExplained /\ RivalsKnown /\ WritesLogged /\ ReadsExplained /\ CallsClean
  BY DEF DurableInv
<1>b. pc[t] # "idle" => status = "up"
  BY <1>a DEF CallsClean
<1>c. walFile \in Seq(WalEntry \cup {Torn}) /\ Len(walFile) \in Nat /\ Len(walSynced) \in Nat
  BY DEF TypeOK
<1>d. Torn \notin WalEntry
  BY SentinelAssumption DEF WalEntry
<1>e. pc[t] \in WritePcs => call[t] \in WalEntry /\ call[t] # Torn /\ call[t].key \in Key
  BY <1>d DEF TypeOK, WalEntry
<1>f. pc \in [Task -> {"idle"} \cup WritePcs \cup FlushPcs] /\ DOMAIN call = Task /\ DOMAIN rivals = Task
      /\ DOMAIN allowed = Key
  BY DEF TypeOK
<1>r. ASSUME Return(t)
      PROVE  /\ pc'[t] = "idle" /\ rivals'[t] = {} /\ ~ InLog(t)'
             /\ \A u \in Task \ {t} : pc'[u] = pc[u] /\ call'[u] = call[u] /\ rivals'[u] = rivals[u]
             /\ RivalsKnown'
             /\ \A k \in Key : allowed[k] \subseteq allowed'[k] /\
                  (InLog(t) /\ call[t].key = k => call[t].val \in allowed'[k])
                    => \A v : MayShow(k, v) => MayShow(k, v)'
  BY <1>a, <1>r, WriteReturns
<1>1. ASSUME NEW k \in Key, NEW v \in Value \cup {None}, CallWrite(t, k, v) PROVE DurableInv'
  <2>1. /\ status = "up" /\ status' = "up" /\ pc[t] = "idle" /\ pc'[t] = "append"
        /\ call'[t] = [key |-> k, val |-> v]
        /\ \A u \in Task \ {t} : pc'[u] = pc[u] /\ call'[u] = call[u]
        /\ walFile' = walFile /\ walSynced' = walSynced /\ allowed' = allowed /\ fields' = fields
        /\ UNCHANGED <<dbFile, dbSynced, idxFile, idxSynced>>
    BY <1>1, <1>f DEF CallWrite, Goto
  <2>2. /\ RivalsKnown'
        /\ \A u \in Task \ {t} : /\ rivals[u] \subseteq rivals'[u]
                                 /\ pc[u] = "idle" => rivals'[u] = rivals[u]
    BY <1>1, <1>a, RivalsBegin
  <2>3. \A x \in Key : \A y : MayShow(x, y) => MayShow(x, y)'
    BY <2>1 DEF MayShow, InLog
  <2>4. LogGrows' /\ LogExplained'
    BY <1>a, <2>1, <2>3, ExplainedQuiet
  <2>5. ReadsExplained' /\ ~ InLog(t)'
    BY <1>a, <2>1 DEF ReadsExplained, InLog
  <2>6. pc'[t] \in {"idle"} \cup WritePcs /\ pc'[t] # "idle" /\ Len(walSynced) <= Len(walSynced')
    BY <1>c, <2>1 DEF WritePcs
  <2> QED
    BY <2>1, <2>2, <2>4, <2>5, <2>6, WriteStep
<1>2. ASSUME AppendEntry(t) PROVE DurableInv'
  <2>1. /\ status = "up" /\ status' = "up" /\ pc[t] = "append" /\ pc'[t] = "append_sync"
        /\ \A u \in Task \ {t} : pc'[u] = pc[u]
        /\ call' = call /\ rivals' = rivals
        /\ walFile' = Append(walFile, call[t])
        /\ walSynced' = walSynced /\ allowed' = allowed /\ fields' = fields
        /\ UNCHANGED <<dbFile, dbSynced, idxFile, idxSynced>>
    BY <1>2, <1>b, <1>f DEF AppendEntry, Goto
  <2>2. pc[t] \in WritePcs /\ pc'[t] \in WritePcs /\ pc'[t] # "idle" /\ call[t] \in WalEntry /\ call[t] # Torn
    BY <1>e, <2>1 DEF WritePcs
  <2>3. \A x \in Key : \A y : MayShow(x, y) => MayShow(x, y)'
    BY <2>1 DEF MayShow, InLog
  <2>4. MayShow(call[t].key, call[t].val)'
    BY <2>1 DEF MayShow, InLog
  <2>5. LogGrows' /\ LogExplained'
    <3>1. ASSUME NEW e, e = call[t] PROVE MayShow(e.key, e.val)'
      BY <2>1, <3>1 DEF MayShow, InLog
    <3> QED BY <1>a, <2>1, <2>2, <2>3, <3>1, ExplainedAppend
  <2>6. RivalsKnown'
    BY <1>a, <2>1, <2>2, RivalsShrink
  <2>7. ReadsExplained'
    BY <1>a, <2>1 DEF ReadsExplained
  <2>8. ASSUME NEW p \in Nat, p = Len(walFile) + 1 PROVE LoggedAt(t, p)'
    <3>1. /\ walFile'[Len(walFile) + 1] = call[t]
          /\ \A i : i \in RowsOf(walFile', call[t].key) <=>
                    \/ i \in RowsOf(walFile, call[t].key) \/ i = Len(walFile) + 1
      BY <1>c, <2>1, <2>2, RowsAppend
    <3>2. \A i \in RowsOf(walFile, call[t].key) : i <= Len(walFile)
      BY <1>c DEF RowsOf
    <3>3. \A q \in RowsOf(walFile', call[t].key) : ~ (q > Len(walFile) + 1)
      <4>1. \A i \in RowsOf(walFile, call[t].key) : i \in Nat
        BY DEF RowsOf
      <4> QED BY <1>c, <3>1, <3>2, <4>1
    <3> QED BY <2>1, <2>8, <3>1, <3>3 DEF LoggedAt
  <2>9. Len(walFile) + 1 \in Nat /\ Len(walSynced) <= Len(walSynced')
    BY <1>c, <2>1
  <2> QED
    BY <2>1, <2>2, <2>5, <2>6, <2>7, <2>8, <2>9, WriteStep
<1>3. ASSUME AppendEntryError(t) PROVE DurableInv'
  <2>1. /\ status = "up" /\ status' = "up" /\ pc[t] = "append"
        /\ Return(t)
        /\ walFile' = walFile \/ walFile' = Append(walFile, Torn)
        /\ walSynced' = walSynced /\ allowed' = allowed /\ fields' = fields
        /\ UNCHANGED <<dbFile, dbSynced, idxFile, idxSynced>>
    BY <1>3, <1>b, <1>f DEF AppendEntryError
  <2>2. \A x \in Key : \A y : MayShow(x, y) => MayShow(x, y)'
    BY <1>r, <2>1 DEF InLog
  <2>3. LogGrows' /\ LogExplained'
    BY <1>a, <2>1, <2>2, ExplainedQuiet, ExplainedAppend
  <2>4. ReadsExplained'
    BY <1>a, <2>1 DEF ReadsExplained
  <2>5. Len(walSynced) <= Len(walSynced')
    BY <1>c, <2>1
  <2> QED
    BY <1>r, <2>1, <2>3, <2>4, <2>5, WriteStep
<1>4. ASSUME AppendEntrySync(t) PROVE DurableInv'
  <2>1. /\ status = "up" /\ status' = "up" /\ pc[t] = "append_sync" /\ pc'[t] = "apply"
        /\ \A u \in Task \ {t} : pc'[u] = pc[u]
        /\ call' = call /\ rivals' = rivals
        /\ walFile' = walFile /\ walSynced' = walFile /\ allowed' = allowed /\ fields' = fields
        /\ UNCHANGED <<dbFile, dbSynced, idxFile, idxSynced>>
    BY <1>4, <1>b, <1>f DEF AppendEntrySync, Goto
  <2>2. pc[t] \in WritePcs /\ pc'[t] \in WritePcs /\ pc'[t] # "idle"
    BY <2>1 DEF WritePcs
  <2>3. \A x \in Key : \A y : MayShow(x, y) => MayShow(x, y)'
    BY <2>1 DEF MayShow, InLog
  <2>5. LogGrows' /\ LogExplained'
    BY <1>a, <2>1, <2>3, ExplainedQuiet
  <2>6. RivalsKnown'
    BY <1>a, <2>1, <2>2, RivalsShrink
  <2>7. ReadsExplained'
    BY <1>a, <2>1 DEF ReadsExplained
  <2>8. PICK p \in Nat : LoggedAt(t, p)
    BY <1>a, <2>1 DEF WritesLogged, InLog
  <2>9. LoggedAt(t, p)'
    BY <2>1, <2>8 DEF LoggedAt, RowsOf
  <2>10. Len(walSynced) <= Len(walSynced')
    BY <1>a, <2>1 DEF LogGrows
  <2> QED
    BY <1>r, <2>1, <2>2, <2>5, <2>6, <2>7, <2>9, <2>10, WriteStep
<1>5. ASSUME AppendEntrySyncError(t) PROVE DurableInv'
  <2>1. /\ status = "up" /\ status' = "up" /\ pc[t] = "append_sync"
        /\ Return(t)
        /\ walFile' = walFile /\ walSynced' = walSynced /\ fields' = fields
        /\ allowed' = [allowed EXCEPT ![call[t].key] = @ \cup {call[t].val}]
        /\ UNCHANGED <<dbFile, dbSynced, idxFile, idxSynced>>
    BY <1>5, <1>b, <1>f DEF AppendEntrySyncError
  <2>2. /\ \A k \in Key : allowed[k] \subseteq allowed'[k]
        /\ call[t].val \in allowed'[call[t].key]
    BY <1>e, <1>f, <2>1 DEF WritePcs
  <2>3. \A x \in Key : \A y : MayShow(x, y) => MayShow(x, y)'
    BY <1>r, <2>1, <2>2
  <2>4. LogGrows' /\ LogExplained'
    BY <1>a, <2>1, <2>3, ExplainedQuiet
  <2>5. ReadsExplained'
    BY <1>a, <2>1, <2>2 DEF ReadsExplained
  <2>6. Len(walSynced) <= Len(walSynced')
    BY <1>c, <2>1
  <2> QED
    BY <1>r, <2>1, <2>4, <2>5, <2>6, WriteStep
<1>6. ASSUME CancelWaiting(t) PROVE DurableInv'
  <2>1. /\ status = "up" /\ status' = "up" /\ pc[t] = "append"
        /\ Return(t)
        /\ walFile' = walFile /\ walSynced' = walSynced /\ allowed' = allowed /\ fields' = fields
        /\ UNCHANGED <<dbFile, dbSynced, idxFile, idxSynced>>
    BY <1>6, <1>a, <1>b, <1>f DEF CancelWaiting, CallsClean, FlushPcs, WritePcs
  <2>2. \A x \in Key : \A y : MayShow(x, y) => MayShow(x, y)'
    BY <1>r, <2>1 DEF InLog
  <2>3. LogGrows' /\ LogExplained'
    BY <1>a, <2>1, <2>2, ExplainedQuiet
  <2>4. ReadsExplained'
    BY <1>a, <2>1 DEF ReadsExplained
  <2>5. Len(walSynced) <= Len(walSynced')
    BY <1>c, <2>1
  <2> QED
    BY <1>r, <2>1, <2>3, <2>4, <2>5, WriteStep
<1>7. ASSUME CancelWrite(t) PROVE DurableInv'
  <2>1. /\ status = "up" /\ status' = "up" /\ pc[t] \in WritePcs
        /\ Return(t)
        /\ fields' = fields
        /\ allowed' = [allowed EXCEPT ![call[t].key] = @ \cup {call[t].val}]
        /\ UNCHANGED <<dbFile, dbSynced, idxFile, idxSynced>>
    BY <1>7, <1>b, <1>f DEF CancelWrite, WritePcs
  <2>2. /\ \A k \in Key : allowed[k] \subseteq allowed'[k]
        /\ call[t].val \in allowed'[call[t].key]
    BY <1>e, <1>f, <2>1
  <2>3. \A x \in Key : \A y : MayShow(x, y) => MayShow(x, y)'
    BY <1>r, <2>1, <2>2
  <2>4. \/ walFile' = Append(walFile, call[t]) /\ walSynced' = walSynced
        \/ walFile' = walFile /\ (walSynced' = walSynced \/ walSynced' = walFile)
    BY <1>7 DEF CancelWrite
  <2>5. ReadsExplained'
    BY <1>a, <2>1, <2>2 DEF ReadsExplained
  <2>6. CASE walFile' = Append(walFile, call[t]) /\ walSynced' = walSynced
    <3>1. ASSUME NEW e, e = call[t] PROVE MayShow(e.key, e.val)'
      BY <2>2, <3>1 DEF MayShow
    <3>2. LogGrows' /\ LogExplained'
      BY <1>a, <1>e, <2>1, <2>3, <2>6, <3>1, ExplainedAppend
    <3>3. Len(walSynced) <= Len(walSynced')
      BY <1>c, <2>6
    <3> QED
      BY <1>r, <1>e, <2>1, <2>5, <2>6, <3>2, <3>3, WriteStep
  <2>7. CASE walFile' = walFile /\ (walSynced' = walSynced \/ walSynced' = walFile)
    <3>2. LogGrows' /\ LogExplained'
      BY <1>a, <2>3, <2>7, ExplainedQuiet
    <3>3. Len(walSynced) <= Len(walSynced')
      BY <1>a, <1>c, <2>7 DEF LogGrows
    <3> QED
      BY <1>r, <2>1, <2>5, <2>7, <3>2, <3>3, WriteStep
  <2> QED
    BY <2>4, <2>6, <2>7
<1> QED
  BY <1>1, <1>2, <1>3, <1>4, <1>5, <1>6, <1>7

\* The acknowledgement: every entry of the key that may still decide about it
\* is that of this write, of one in progress, or of a rival.
LEMMA DurableApply ==
  ASSUME TypeOK, TypeOK', DurableInv, NEW t \in Task, ApplyWrite(t)
  PROVE  DurableInv'
<1> USE DEF files, memory, locals, ghosts
<1>a. LogGrows /\ LogExplained /\ RivalsKnown /\ WritesLogged /\ ReadsExplained /\ CallsClean
  BY DEF DurableInv
<1>b. walFile \in Seq(WalEntry \cup {Torn}) /\ Len(walFile) \in Nat /\ Len(walSynced) \in Nat
  BY DEF TypeOK
<1>c. /\ pc \in [Task -> {"idle"} \cup WritePcs \cup FlushPcs] /\ DOMAIN call = Task /\ DOMAIN rivals = Task
      /\ DOMAIN allowed = Key /\ DOMAIN fields = Key
  BY DEF TypeOK
<1>1. pc[t] = "apply" /\ Return(t) /\ UNCHANGED <<files, status>>
  BY DEF ApplyWrite
<1>2. status = "up" /\ status' = "up" /\ call[t].key \in Key /\ pc[t] \in WritePcs
  BY <1>1, <1>a DEF CallsClean, WritePcs, TypeOK, WalEntry
<1> SUFFICES ASSUME NEW k \in Key, k = call[t].key PROVE DurableInv'
  BY <1>2
<1> DEFINE pending == {call[u].val : u \in InFlight(k)}
<1>3. /\ pc'[t] = "idle" /\ rivals'[t] = {} /\ ~ InLog(t)'
      /\ \A u \in Task \ {t} : pc'[u] = pc[u] /\ call'[u] = call[u] /\ rivals'[u] = rivals[u]
  BY <1>1, <1>c DEF Return, Goto, InLog
<1>4. /\ fields' = [fields EXCEPT ![k] = call[t].val]
      /\ allowed' = [allowed EXCEPT ![k] = pending \cup (allowed[k] \cap rivals[t])]
  BY <1>c DEF ApplyWrite
<1>5. /\ allowed'[k] = pending \cup (allowed[k] \cap rivals[t])
      /\ \A x \in Key : x # k => allowed'[x] = allowed[x] /\ fields'[x] = fields[x]
      /\ fields'[k] = call[t].val /\ call[t].val \in pending
  BY <1>2, <1>4, <1>c DEF InFlight
<1>6. RivalsKnown'
  <2>1. \A u \in Task : pc'[u] \in WritePcs =>
             pc[u] \in WritePcs /\ call'[u] = call[u] /\ rivals[u] \subseteq rivals'[u]
    BY <1>3 DEF WritePcs
  <2> QED BY <1>a, <2>1, RivalsShrink
<1>7. ReadsExplained'
  BY <1>2, <1>5, <1>a DEF ReadsExplained
<1>8. PICK p \in Nat : LoggedAt(t, p)
  BY <1>a, <1>1 DEF WritesLogged, InLog
<1>9. /\ p \in RowsOf(walFile, k) /\ walFile[p].val = call[t].val /\ p <= Len(walSynced)
      /\ \A q \in RowsOf(walFile, k) : q > p => walFile[q].val \in rivals[t]
  BY <1>1, <1>8 DEF LoggedAt
<1>10. \A v : v = call[t].val \/ (MayShow(k, v) /\ v \in rivals[t]) => MayShow(k, v)'
  <2>1. \A v : (\E u \in Task : InLog(u) /\ call[u].key = k /\ call[u].val = v) => v \in pending
    BY DEF InLog, InFlight, WritePcs
  <2>2. \A v : v = call[t].val \/ (MayShow(k, v) /\ v \in rivals[t]) => v \in allowed'[k]
    BY <1>5, <2>1 DEF MayShow
  <2> QED BY <2>2 DEF MayShow
<1>11. ASSUME NEW x \in Key, x # k, NEW v, MayShow(x, v) PROVE MayShow(x, v)'
  <2>1. CASE v \in allowed[x]
    BY <1>5, <1>11, <2>1 DEF MayShow
  <2>2. CASE \E u \in Task : InLog(u) /\ call[u].key = x /\ call[u].val = v
    BY <1>3, <1>11, <2>2 DEF MayShow, InLog
  <2> QED BY <1>11, <2>1, <2>2 DEF MayShow
<1>12. walFile' = walFile /\ walSynced' = walSynced
  BY <1>1
<1>13. ASSUME NEW x \in Key
       PROVE  /\ \A i \in Nat : Decisive(i, x)' => MayShow(x, walFile[i].val)'
              /\ (\A j \in RowsOf(walFile', x) : j > Len(walSynced')) => MayShow(x, None)'
  <2>1. CASE x # k
    <3>1. \A i \in Nat : Decisive(i, x)' => MayShow(x, walFile[i].val)
      BY <1>12, <1>a DEF Decisive, LogExplained
    <3> QED BY <1>11, <1>12, <1>a, <2>1, <3>1 DEF LogExplained
  <2>2. CASE x = k
    <3>1. ASSUME NEW i \in Nat, Decisive(i, x) PROVE MayShow(x, walFile[i].val)'
      <4>1. MayShow(k, walFile[i].val)
        BY <1>a, <2>2, <3>1 DEF LogExplained
      <4>2. p <= i /\ i \in RowsOf(walFile, k)
        BY <1>9, <2>2, <3>1 DEF Decisive
      <4>3. walFile[i].val = call[t].val \/ walFile[i].val \in rivals[t]
        BY <1>9, <4>2
      <4>4. ASSUME NEW v, v = walFile[i].val PROVE MayShow(k, v)'
        BY <1>10, <4>1, <4>3, <4>4
      <4> QED BY <1>12, <2>2, <4>4
    <3>2. ~ (\A j \in RowsOf(walFile, x) : j > Len(walSynced))
      BY <1>9, <1>b, <2>2
    <3> QED BY <1>12, <3>1, <3>2 DEF Decisive
  <2> QED BY <2>1, <2>2
<1>14. LogGrows' /\ LogExplained'
  BY <1>12, <1>13, <1>a DEF LogGrows, LogExplained
<1> QED
  BY <1>1, <1>2, <1>3, <1>6, <1>7, <1>14, <1>b, <1>12, WriteStep

-----------------------------------------------------------------------------
(***************************************************************************)
(* open, close and crashes.                                                *)
(***************************************************************************)

\* A database that is not open, or has just been opened, with the files as
\* they are: nothing but the log matters.
LEMMA QuietLifecycle ==
  ASSUME FilesUntouched', LogGrows', LogExplained', ReadsExplained',
         status' # "up" => fields' = NoFields,
         \A u \in Task : pc'[u] = "idle" /\ rivals'[u] = {}
  PROVE  DurableInv'
<1>1. \A u \in Task : ~ InLog(u)' /\ pc'[u] \notin WritePcs
  BY DEF InLog, WritePcs
<1>2. CallsClean' /\ RivalsKnown' /\ WritesLogged'
  BY <1>1 DEF CallsClean, RivalsKnown, WritesLogged
<1> QED
  BY <1>2 DEF DurableInv

\* After a crash exactly the fields that the crash may leave are allowed.
LEMMA CrashAllows ==
  ASSUME TypeOK, allowed' = AllowedAfterCrash, NEW k \in Key, NEW v
  PROVE  MayShow(k, v) <=> v \in allowed'[k]
<1>1. allowed'[k] = allowed[k] \cup {call[t].val : t \in {u \in InFlight(k) : pc[u] # "append"}}
  BY DEF AllowedAfterCrash
<1>2. \A u \in Task : InLog(u) <=> pc[u] \in WritePcs /\ pc[u] # "append"
  BY DEF InLog, WritePcs
<1> QED
  BY <1>1, <1>2 DEF MayShow, InFlight

\* A log that opens gives each key a field it may be shown.
LEMMA OpenShows ==
  ASSUME TypeOK, FilesUntouched, LogGrows, LogExplained, NEW k \in Key
  PROVE  MayShow(k, Replay(DecodeDbFile(dbFile.recs), walFile)[k])
<1>1. DecodeDbFile(dbFile.recs)[k] = None
  <2>1. LiveAt(<<>>, k) = {} /\ dbFile.recs = <<>>
    BY DEF FilesUntouched, Image, LiveAt
  <2> QED BY <2>1, LastOfNone DEF DecodeDbFile
<1>2. walFile \in Seq(WalEntry \cup {Torn}) /\ Len(walSynced) \in Nat
  BY DEF TypeOK
<1> DEFINE base == DecodeDbFile(dbFile.recs)
<1>3. \/ RowsOf(walFile, k) = {} /\ Replay(base, walFile)[k] = base[k]
      \/ \E i \in RowsOf(walFile, k) :
           /\ \A j \in RowsOf(walFile, k) : j <= i
           /\ Replay(base, walFile)[k] = walFile[i].val
  BY <1>2, ReplayLast
<1>4. CASE RowsOf(walFile, k) = {} /\ Replay(base, walFile)[k] = base[k]
  BY <1>1, <1>4 DEF LogExplained
<1>5. ASSUME NEW i \in RowsOf(walFile, k), \A j \in RowsOf(walFile, k) : j <= i
      PROVE  MayShow(k, walFile[i].val)
  <2>1. i \in Nat
    BY DEF RowsOf
  <2> QED BY <1>5, <2>1 DEF LogExplained, Decisive
<1> QED
  BY <1>3, <1>4, <1>5

\* A file whose synced image is its beginning loses only a tail to a power
\* failure: the entries left are the first n, for some n past the synced ones.
LEMMA LogSurvivors ==
  ASSUME NEW w \in Seq(WalEntry \cup {Torn}), NEW y \in Seq(WalEntry \cup {Torn}),
         Len(y) <= Len(w), \A i \in 1 .. Len(y) : y[i] = w[i],
         NEW s \in Survivors(w, y)
  PROVE  /\ Len(s) \in Nat
         /\ \E n \in Len(y) .. Len(w) : \A k : \A i :
              /\ i \in RowsOf(s, k) <=> i \in RowsOf(w, k) /\ i <= n
              /\ i \in RowsOf(s, k) => s[i] = w[i]
<1> DEFINE Like(n) == \A k : \A i :
             /\ i \in RowsOf(s, k) <=> i \in RowsOf(w, k) /\ i <= n
             /\ i \in RowsOf(s, k) => s[i] = w[i]
<1>a. Len(w) \in Nat /\ Len(y) \in Nat /\ Len(y) \in Len(y) .. Len(w)
  OBVIOUS
<1>1. CASE s = y
  <2>1. Like(Len(y))
    BY <1>1, <1>a DEF RowsOf
  <2> QED BY <1>1, <1>a, <2>1
<1>2. ASSUME NEW n \in 0 .. Len(w) PROVE /\ Len(SubSeq(w, 1, n)) = n
                                         /\ SubSeq(w, 1, n) \in Seq(WalEntry \cup {Torn})
                                         /\ \A i \in 1 .. n : SubSeq(w, 1, n)[i] = w[i]
  BY SubSeqProperties
<1>3. IsPrefix(y, w)
  <2>1. SubSeq(y, 1, Len(y)) \in Seq(WalEntry \cup {Torn}) /\ Len(SubSeq(y, 1, Len(y))) = Len(y)
        /\ \A i \in 1 .. Len(y) : SubSeq(y, 1, Len(y))[i] = y[i]
    BY SubSeqProperties
  <2>2. SubSeq(y, 1, Len(y)) = SubSeq(w, 1, Len(y))
    BY <1>2, <1>a, <2>1, SeqEqual
  <2> QED BY <2>2 DEF IsPrefix
<1>4. CASE s \in Cuts(w) /\ Len(s) >= Len(y) /\ IsPrefix(y, s)
  <2>1. CASE \E n \in 0 .. Len(w) : s = SubSeq(w, 1, n)
    <3>1. PICK n \in 0 .. Len(w) : s = SubSeq(w, 1, n)
      BY <2>1
    <3>2. Len(s) = n /\ \A i \in 1 .. n : s[i] = w[i]
      BY <1>2, <3>1
    <3>3. Like(n) /\ n \in Len(y) .. Len(w)
      BY <1>4, <3>2, <1>a DEF RowsOf
    <3> QED BY <3>2, <3>3
  <2>2. CASE \E m \in 0 .. Len(w) - 1 : s = Append(SubSeq(w, 1, m), Torn)
    <3>1. PICK m \in 0 .. Len(w) - 1 : s = Append(SubSeq(w, 1, m), Torn)
      BY <2>2
    <3> DEFINE c == SubSeq(w, 1, m)
    <3>2. c \in Seq(WalEntry \cup {Torn}) /\ Len(c) = m /\ \A i \in 1 .. m : c[i] = w[i]
      BY <1>2, <1>a
    <3>3. s = Append(c, Torn)
      BY <3>1
    <3> HIDE DEF c
    <3>4. s \in Seq(WalEntry \cup {Torn}) /\ Len(s) = m + 1 /\ s[m + 1] = Torn /\ \A i \in 1 .. m : s[i] = w[i]
      BY <3>2, <3>3, AppendProperties
    <3>5. CASE m >= Len(y)
      <4>1. Like(m) /\ m \in Len(y) .. Len(w)
        BY <3>4, <3>5, <1>a DEF RowsOf
      <4> QED BY <3>4, <4>1
    <3>6. CASE m < Len(y)
      <4>1. m + 1 = Len(y)
        BY <1>4, <3>4, <3>6, <1>a
      <4>2. \A i \in 1 .. Len(y) : SubSeq(s, 1, Len(y))[i] = s[i] /\ SubSeq(y, 1, Len(y))[i] = y[i]
        BY <3>4, <4>1, SubSeqProperties
      <4>3. y[m + 1] = Torn
        BY <1>4, <3>4, <4>1, <4>2, <1>a DEF IsPrefix
      <4>4. w[m + 1] = Torn
        BY <4>1, <4>3, <1>a
      <4>5. Like(m + 1)
        BY <3>4, <4>1, <4>4, <1>a DEF RowsOf
      <4> QED BY <3>4, <4>1, <4>5, <1>a
    <3> QED BY <3>5, <3>6, <1>a
  <2> QED BY <1>4, <2>1, <2>2 DEF Cuts
<1> QED
  BY <1>1, <1>3, <1>4 DEF Survivors

\* An empty file stays empty, and so does a .db file with only its header.
LEMMA UntouchedSurvives ==
  ASSUME TypeOK, FilesUntouched
  PROVE  /\ \A img \in DbSurvivors : img = Image(TRUE)
         /\ \A s \in Survivors(idxFile, idxSynced) : s = <<>>
<1>1. ASSUME NEW img \in DbSurvivors PROVE img = Image(TRUE)
  <2>1. dbFile = Image(TRUE) /\ dbSynced = Image(TRUE) /\ Image(TRUE).recs = <<>> /\ Image(TRUE).header = "ok"
    BY DEF FilesUntouched, Image
  <2>2. CASE img = dbSynced
    BY <2>1, <2>2
  <2>3. ASSUME NEW n \in Len(dbSynced.recs) .. Len(dbFile.recs), NEW D, NEW T, img = DbSurvives(n, D, T)
        PROVE  img = Image(TRUE)
    <3>1. n = 0
      <4>1. Len(dbSynced.recs) = 0 /\ Len(dbFile.recs) = 0
        BY <2>1
      <4> QED BY <4>1
    <3>2. img \in FileImage /\ Len(img.recs) = 0
      BY <2>3, <3>1, DbSurvivesType DEF TypeOK
    <3>3. img.recs = <<>>
      BY <3>2, EmptySeq DEF FileImage
    <3>4. img = [header |-> "ok", recs |-> img.recs]
      BY <2>1, <2>3 DEF DbSurvives
    <3> QED BY <3>3, <3>4 DEF Image
  <2>4. dbSynced.header = dbFile.header
    BY <2>1
  <2>5. \/ img = dbSynced
        \/ \E n \in Len(dbSynced.recs) .. Len(dbFile.recs) : \E D, T : img = DbSurvives(n, D, T)
    BY <2>4, DbSurvivorsCases
  <2> QED BY <2>2, <2>3, <2>5
<1>2. ASSUME NEW s \in Survivors(idxFile, idxSynced) PROVE s = <<>>
  <2>1. idxFile = <<>> /\ idxSynced = <<>> /\ Len(<<>>) = 0
    BY DEF FilesUntouched
  <2>2. ASSUME NEW c \in Cuts(<<>>) PROVE c = <<>>
    <3>1. 0 .. Len(<<>>) - 1 = {} /\ 0 .. Len(<<>>) = {0}
      OBVIOUS
    <3>2. c = SubSeq(<<>>, 1, 0)
      BY <3>1 DEF Cuts
    <3>3. <<>> \in Seq({})
      OBVIOUS
    <3> QED BY <3>2, <3>3, SubSeqProperties, EmptySeq
  <2> QED BY <2>1, <2>2 DEF Survivors
<1> QED
  BY <1>1, <1>2

\* open, close and crashes keep the inductive invariant.
LEMMA DurableLifecycle ==
  ASSUME TypeOK, TypeOK', DurableInv
  PROVE  /\ ~ OpenNew
         /\ OpenInit => DurableInv'
         /\ OpenFails => DurableInv'
         /\ Close => DurableInv'
         /\ Kill => DurableInv'
         /\ PowerLoss => DurableInv'
<1> USE DEF files, memory, locals, ghosts
<1>a. FilesUntouched /\ LogGrows /\ LogExplained /\ ReadsExplained /\ CallsClean
  BY DEF DurableInv
<1>b. Len(walFile) \in Nat /\ Len(walSynced) \in Nat
      /\ walFile \in Seq(WalEntry \cup {Torn}) /\ walSynced \in Seq(WalEntry \cup {Torn})
  BY DEF TypeOK
<1>c. status # "up" => /\ \A u \in Task : pc[u] = "idle" /\ rivals[u] = {} /\ ~ InLog(u)
                       /\ \A k \in Key : \A v : MayShow(k, v) <=> v \in allowed[k]
  BY <1>a DEF CallsClean, InLog, MayShow
<1>d. ASSUME UNCHANGED files PROVE FilesUntouched'
  BY <1>a, <1>d DEF FilesUntouched
<1>e. ASSUME Forget PROVE /\ \A u \in Task : pc'[u] = "idle" /\ rivals'[u] = {}
                          /\ fields' = NoFields
  BY <1>e DEF Forget
<1>f. \A k \in Key : \A v : v \in allowed'[k] => MayShow(k, v)'
  BY DEF MayShow
<1>0. ~ OpenNew
  BY <1>a DEF OpenNew, FilesUntouched, Image
<1>1. ASSUME OpenInit PROVE DurableInv'
  <2>1. /\ status = "down" /\ status' = "up" /\ UNCHANGED files
        /\ pc' = pc /\ rivals' = rivals /\ allowed' = allowed
        /\ fields' = Replay(DecodeDbFile(dbFile.recs), walFile)
    BY <1>1 DEF OpenInit
  <2>2. \A k \in Key : \A v : MayShow(k, v) => MayShow(k, v)'
    BY <1>c, <1>f, <2>1
  <2>3. LogGrows' /\ LogExplained'
    BY <1>a, <2>1, <2>2, ExplainedQuiet
  <2>4. ReadsExplained'
    BY <1>a, <1>c, <2>1, OpenShows DEF ReadsExplained
  <2> QED BY <1>c, <1>d, <2>1, <2>3, <2>4, QuietLifecycle
<1>2. ASSUME OpenFails PROVE DurableInv'
  <2>1. /\ status # "up" /\ status' # "up" /\ UNCHANGED files
        /\ pc' = pc /\ rivals' = rivals /\ allowed' = allowed /\ fields' = fields
    BY <1>2 DEF OpenFails
  <2>2. \A k \in Key : \A v : MayShow(k, v) => MayShow(k, v)'
    BY <1>c, <1>f, <2>1
  <2>3. LogGrows' /\ LogExplained'
    BY <1>a, <2>1, <2>2, ExplainedQuiet
  <2>4. ReadsExplained' /\ fields' = NoFields
    BY <1>a, <2>1 DEF ReadsExplained, CallsClean
  <2> QED BY <1>c, <1>d, <2>1, <2>3, <2>4, QuietLifecycle
<1>3. ASSUME Close PROVE DurableInv'
  <2>1. /\ status' # "up" /\ UNCHANGED files /\ Forget /\ allowed' = allowed
        /\ \A u \in Task : pc[u] = "idle"
    BY <1>3 DEF Close
  <2>2. \A k \in Key : \A v : MayShow(k, v) => MayShow(k, v)'
    BY <1>f, <2>1 DEF MayShow, InLog
  <2>3. LogGrows' /\ LogExplained' /\ ReadsExplained'
    BY <1>a, <2>1, <2>2, ExplainedQuiet DEF ReadsExplained
  <2> QED BY <1>d, <1>e, <2>1, <2>3, QuietLifecycle
<1>4. ASSUME Kill PROVE DurableInv'
  <2>1. status' # "up" /\ UNCHANGED files /\ Forget /\ allowed' = AllowedAfterCrash
    BY <1>4 DEF Kill
  <2>2. \A k \in Key : \A v : MayShow(k, v) => MayShow(k, v)'
    BY <1>a, <1>f, <2>1, CrashAllows
  <2>3. LogGrows' /\ LogExplained' /\ ReadsExplained'
    BY <1>a, <2>1, <2>2, ExplainedQuiet DEF ReadsExplained
  <2> QED BY <1>d, <1>e, <2>1, <2>3, QuietLifecycle
<1>5. ASSUME PowerLoss PROVE DurableInv'
  <2>1. status' # "up" /\ Forget /\ allowed' = AllowedAfterCrash
    BY <1>5 DEF PowerLoss
  <2>2. FilesUntouched'
    <3>1. PICK img \in DbSurvivors : dbFile' = img /\ dbSynced' = img
      BY <1>5 DEF PowerLoss
    <3>2. PICK s \in Survivors(idxFile, idxSynced) : idxFile' = s /\ idxSynced' = s
      BY <1>5 DEF PowerLoss
    <3> QED BY <1>a, <3>1, <3>2, UntouchedSurvives DEF FilesUntouched
  <2>3. PICK s \in Survivors(walFile, walSynced) : walFile' = s /\ walSynced' = s
    BY <1>5 DEF PowerLoss
  <2>a. Len(walSynced) <= Len(walFile) /\ \A i \in 1 .. Len(walSynced) : walSynced[i] = walFile[i]
    BY <1>a DEF LogGrows
  <2>4. /\ Len(s) \in Nat
        /\ \E n \in Len(walSynced) .. Len(walFile) : \A k : \A i :
              /\ i \in RowsOf(s, k) <=> i \in RowsOf(walFile, k) /\ i <= n
              /\ i \in RowsOf(s, k) => s[i] = walFile[i]
    BY <1>b, <2>a, LogSurvivors
  <2>5. PICK n \in Len(walSynced) .. Len(walFile) : \A k : \A i :
              /\ i \in RowsOf(s, k) <=> i \in RowsOf(walFile, k) /\ i <= n
              /\ i \in RowsOf(s, k) => s[i] = walFile[i]
    BY <2>4
  <2>6. \A k \in Key : \A v : MayShow(k, v) => MayShow(k, v)'
    BY <1>a, <1>f, <2>1, CrashAllows
  <2>7. LogGrows'
    BY <2>3, <2>4 DEF LogGrows
  <2>8. ASSUME NEW k \in Key, NEW i \in Nat, Decisive(i, k)' PROVE MayShow(k, walFile[i].val)'
    <3>1. i \in RowsOf(s, k) /\ \A j \in RowsOf(s, k) : j <= Len(s) => j <= i
      BY <2>3, <2>8 DEF Decisive
    <3>2. \A j \in RowsOf(s, k) : j <= Len(s)
      BY <2>4 DEF RowsOf
    <3>3. \A j \in RowsOf(walFile, k) : j \in Nat
      BY DEF RowsOf
    <3>4. Decisive(i, k)
      BY <1>b, <2>5, <3>1, <3>2, <3>3 DEF Decisive
    <3>5. MayShow(k, walFile[i].val)
      BY <1>a, <3>4 DEF LogExplained
    <3>6. walFile'[i] = walFile[i]
      BY <2>3, <2>5, <3>1
    <3>7. ASSUME NEW v, v = walFile[i].val PROVE MayShow(k, v)'
      BY <2>6, <3>5, <3>7
    <3> QED BY <3>6, <3>7
  <2>9. ASSUME NEW k \in Key, \A j \in RowsOf(walFile', k) : j > Len(walSynced') PROVE MayShow(k, None)'
    <3>1. RowsOf(s, k) = {}
      <4>1. \A j \in RowsOf(s, k) : j \in Nat /\ j <= Len(s)
        BY <2>4 DEF RowsOf
      <4> QED BY <2>3, <2>4, <2>9, <4>1
    <3>2. \A j \in RowsOf(walFile, k) : j \in Nat
      BY DEF RowsOf
    <3>3. \A j \in RowsOf(walFile, k) : j > Len(walSynced)
      BY <1>b, <2>5, <3>1, <3>2
    <3> QED BY <1>a, <2>6, <3>3 DEF LogExplained
  <2>10. LogExplained' /\ ReadsExplained'
    BY <2>1, <2>8, <2>9 DEF LogExplained, ReadsExplained
  <2> QED BY <1>e, <2>1, <2>2, <2>7, <2>10, QuietLifecycle
<1> QED
  BY <1>0, <1>1, <1>2, <1>3, <1>4, <1>5

-----------------------------------------------------------------------------
(***************************************************************************)
(* The theorems.                                                           *)
(***************************************************************************)

\* An empty log explains an empty memory.
LEMMA DurableInit == ServerUse /\ Init => DurableInv
<1> SUFFICES ASSUME ServerUse, Init PROVE DurableInv
  OBVIOUS
<1>1. FilesUntouched /\ CallsClean
  BY DEF ServerUse, Init, FilesUntouched, CallsClean
<1>2. walFile = <<>> /\ walSynced = <<>> /\ Len(<<>>) = 0 /\ \A k : RowsOf(<<>>, k) = {}
  BY DEF Init, RowsOf
<1>3. LogGrows /\ LogExplained
  BY <1>2 DEF LogGrows, LogExplained, Decisive, MayShow, Init
<1>4. RivalsKnown /\ WritesLogged /\ ReadsExplained
  BY DEF Init, RivalsKnown, WritesLogged, ReadsExplained, InLog, WritePcs
<1> QED
  BY <1>1, <1>3, <1>4 DEF DurableInv

\* Without flush a step of the program is one of set, delete, open, close or a
\* crash.
LEMMA NoFlushSteps ==
  ASSUME ServerUse, TypeOK, CallsClean, NEW t \in Task,
         Call(t) \/ LockSteps(t) \/ OtherSteps(t) \/ ErrorSteps(t) \/ CancelSteps(t)
  PROVE  \/ \E k \in Key : \E v \in Value \cup {None} : CallWrite(t, k, v)
         \/ AppendEntry(t) \/ AppendEntryError(t)
         \/ AppendEntrySync(t) \/ AppendEntrySyncError(t)
         \/ ApplyWrite(t)
         \/ CancelWaiting(t) \/ CancelWrite(t)
<1>1. pc[t] \notin FlushPcs
  BY DEF CallsClean, WritePcs, FlushPcs
<1>2. ~ CallFlush(t) /\ ~ PopUncommitted(t) /\ ~ Checkpoint(t) /\ ~ CheckpointSync(t)
  BY <1>1 DEF ServerUse, CallFlush, PopUncommitted, Checkpoint, CheckpointSync, FlushPcs
<1>3. ~ FlushPlan(t) /\ ~ FlushSync(t) /\ ~ FlushIndex(t) /\ ~ UpdateRecordCount(t)
      /\ ~ IndexClone(t) /\ ~ IndexTrunc(t) /\ ~ IndexWrite(t) /\ ~ IndexSync(t)
  BY <1>1 DEF FlushPlan, FlushSync, FlushIndex, UpdateRecordCount,
              IndexClone, IndexTrunc, IndexWrite, IndexSync, FlushPcs
<1>4. \A e : ~ FlushSet(t, e) /\ ~ FlushDelete(t, e) /\ ~ FlushWriteError(t, e) /\ ~ CancelLoop(t, e)
  BY <1>1 DEF FlushSet, FlushDelete, FlushWriteError, CancelLoop, FlushPcs
<1>5. ~ FlushStepError(t) /\ ~ CheckpointError(t) /\ ~ CancelRebuild(t) /\ ~ CancelCheckpoint(t)
  BY <1>1 DEF FlushStepError, CheckpointError, CancelRebuild, CancelCheckpoint, FlushPcs
<1> QED
  BY <1>2, <1>3, <1>4, <1>5 DEF Call, LockSteps, OtherSteps, ErrorSteps, CancelSteps

\* No step of set, delete, open, close or a crash breaks the invariant.
LEMMA DurableStep ==
  ServerUse /\ TypeOK /\ TypeOK' /\ DurableInv /\ [Next]_vars => DurableInv'
<1> SUFFICES ASSUME ServerUse, TypeOK, TypeOK', DurableInv, [Next]_vars PROVE DurableInv'
  OBVIOUS
<1>1. CASE Program
  <2>1. PICK t \in Task :
          Call(t) \/ LockSteps(t) \/ OtherSteps(t) \/ ErrorSteps(t) \/ CancelSteps(t)
    BY <1>1 DEF Program
  <2>2. CallsClean
    BY DEF DurableInv
  <2> QED BY <2>1, <2>2, NoFlushSteps, DurableWrite, DurableApply
<1>2. CASE UNCHANGED vars
  <2> USE DEF vars, files, memory, locals, ghosts
  <2>1. FilesUntouched' /\ CallsClean' /\ LogGrows' /\ RivalsKnown' /\ WritesLogged' /\ ReadsExplained'
    BY <1>2 DEF DurableInv, FilesUntouched, CallsClean, LogGrows, RivalsKnown, WritesLogged,
                InLog, LoggedAt, ReadsExplained
  <2>2. LogExplained'
    BY <1>2 DEF DurableInv, LogExplained, Decisive, MayShow, InLog
  <2> QED BY <2>1, <2>2 DEF DurableInv
<1> QED
  BY <1>1, <1>2, DurableLifecycle DEF Next

\* The inductive invariant holds in every execution without flush.
THEOREM DurableCorrect == ASSUME ServerUse PROVE Spec => []DurableInv
<1>1. Init => DurableInv
  BY DurableInit
<1>2. TypeOK /\ TypeOK' /\ DurableInv /\ [Next]_vars => DurableInv'
  BY DurableStep
<1> QED
  BY <1>1, <1>2, TypeCorrect, PTL DEF Spec

\* A reader of a database that is used without flush is shown only fields the
\* history of acknowledged, overlapping and failed writes explains, through
\* every crash, I/O error and dropped call.
THEOREM ReadsCorrect == ASSUME ServerUse PROVE Spec => []ReadsExplained
<1>1. DurableInv => ReadsExplained
  BY DEF DurableInv
<1> QED
  BY <1>1, DurableCorrect, PTL

-----------------------------------------------------------------------------
(***************************************************************************)
(* Store.                                                                  *)
(***************************************************************************)

\* The write Store sees a caller making.
Making(t) == IF pc[t] \in WritePcs THEN call[t] ELSE NoCall

\* Store's pending writes are the writes in progress.
LEMMA PendingWrites ==
  ASSUME TypeOK
  PROVE  /\ \A t \in Task : Making(t) # NoCall <=> pc[t] \in WritePcs
         /\ \A t \in Task : pc[t] \in WritePcs => Making(t) = call[t]
         /\ \A k : DurableMap!Pending(k) = InFlight(k)
         /\ DurableMap!NoWrite = NoCall
<1>1. \A t \in Task : pc[t] \in WritePcs => call[t] # NoCall
  BY SentinelAssumption DEF TypeOK, NoCall, WalEntry
<1>2. DurableMap!NoWrite = NoCall
  BY DEF DurableMap!NoWrite, NoCall
<1>3. \A t \in Task : /\ Making(t) # NoCall <=> pc[t] \in WritePcs
                      /\ pc[t] \in WritePcs => Making(t) = call[t]
  BY <1>1 DEF Making
<1>4. \A k : DurableMap!Pending(k) = InFlight(k)
  BY <1>1, <1>2 DEF DurableMap!Pending, InFlight
<1> QED
  BY <1>2, <1>3, <1>4

\* A write that begins.
LEMMA BeginStep ==
  ASSUME TypeOK, TypeOK', NEW t \in Task, NEW k \in Key, NEW v \in Value \cup {None}, CallWrite(t, k, v)
  PROVE  DurableMap!Begin(t, k, v)
<1> USE DEF files, memory, locals, ghosts
<1>1. pc[t] = "idle" /\ pc[t] \notin WritePcs /\ status = "up" /\ status' = "up"
      /\ fields' = fields /\ allowed' = allowed
  BY DEF CallWrite, WritePcs
<1>2. /\ pc'[t] = "append" /\ pc'[t] \in WritePcs /\ call'[t] = [key |-> k, val |-> v]
      /\ \A u \in Task \ {t} : pc'[u] = pc[u] /\ call'[u] = call[u]
  BY DEF CallWrite, Goto, TypeOK, WritePcs
<1>3. /\ [u \in Task |-> Making(u)][t] = NoCall
      /\ [u \in Task |-> Making(u)'] = [[u \in Task |-> Making(u)] EXCEPT ![t] = [key |-> k, val |-> v]]
  BY <1>1, <1>2 DEF Making
<1>4. {call[w].val : w \in InFlight(k)} = {[u \in Task |-> Making(u)][w].val : w \in InFlight(k)}
  BY DEF Making, InFlight
<1>5. rivals' = [u \in Task |->
                  IF u = t THEN {[x \in Task |-> Making(x)][w].val : w \in InFlight(k)}
                  ELSE IF u \in InFlight(k) THEN rivals[u] \cup {v}
                  ELSE rivals[u]]
  BY <1>4 DEF CallWrite
<1>6. DurableMap!Pending(k) = InFlight(k) /\ DurableMap!NoWrite = NoCall
  BY PendingWrites
<1>7. rivals' = [u \in Task |->
                  IF u = t THEN {[x \in Task |-> Making(x)][w].val : w \in DurableMap!Pending(k)}
                  ELSE IF u \in DurableMap!Pending(k) THEN rivals[u] \cup {v}
                  ELSE rivals[u]]
  BY <1>5, <1>6
<1>8. UNCHANGED <<status = "up", fields, allowed>>
  BY <1>1
<1> QED
  BY <1>1, <1>3, <1>6, <1>7, <1>8, Zenon DEF DurableMap!Begin, Making

\* A write that ends, one way or the other.
LEMMA EndStep ==
  ASSUME TypeOK, TypeOK', NEW t \in Task, pc[t] \in WritePcs, Return(t)
  PROVE  DurableMap!End(t)
<1>1. /\ pc'[t] \notin WritePcs
      /\ \A u \in Task \ {t} : pc'[u] = pc[u] /\ call'[u] = call[u]
      /\ rivals' = [rivals EXCEPT ![t] = {}]
  BY DEF Return, Goto, TypeOK, WritePcs
<1>2. /\ [u \in Task |-> Making(u)][t] # NoCall
      /\ [u \in Task |-> Making(u)'] = [[u \in Task |-> Making(u)] EXCEPT ![t] = NoCall]
  BY <1>1, PendingWrites DEF Making
<1> QED
  BY <1>1, <1>2, PendingWrites DEF DurableMap!End, Making

\* The write that reaches memory is the Finish of the durable map.
LEMMA FinishStep ==
  ASSUME TypeOK, TypeOK', NEW t \in Task, ApplyWrite(t)
  PROVE  DurableMap!Finish(t)
<1> USE DEF files, memory, locals, ghosts
<1>1. pc[t] = "apply" /\ pc[t] \in WritePcs /\ Return(t)
  BY DEF ApplyWrite, WritePcs
<1>2. DurableMap!End(t)
  BY <1>1, EndStep
<1> DEFINE k == call[t].key
           making == [u \in Task |-> Making(u)]
<1>3. making[t] = call[t]
  BY <1>1, PendingWrites
<1>4. {call[u].val : u \in InFlight(k)} = {making[u].val : u \in DurableMap!Pending(k)}
  <2>1. DurableMap!Pending(k) = InFlight(k)
    BY PendingWrites
  <2> QED BY <2>1 DEF Making, InFlight
<1>5. /\ fields' = [fields EXCEPT ![k] = call[t].val]
      /\ allowed' = [allowed EXCEPT ![k] = {call[u].val : u \in InFlight(k)} \cup (@ \cap rivals[t])]
      /\ UNCHANGED (status = "up")
  BY DEF ApplyWrite
<1>6. /\ fields' = [fields EXCEPT ![making[t].key] = making[t].val]
      /\ allowed' = [allowed EXCEPT ![making[t].key] =
                       {making[u].val : u \in DurableMap!Pending(making[t].key)} \cup (@ \cap rivals[t])]
  BY <1>3, <1>4, <1>5
<1> QED
  BY <1>2, <1>5, <1>6, Zenon DEF DurableMap!Finish, Making

\* A write that fails or is dropped, after reaching the log or before.
LEMMA FailStep ==
  ASSUME TypeOK, TypeOK', CallsClean, NEW t \in Task,
         \/ AppendEntryError(t) \/ AppendEntrySyncError(t)
         \/ CancelWaiting(t) \/ CancelWrite(t)
  PROVE  DurableMap!Fail(t)
<1> USE DEF files, memory, locals, ghosts
<1>1. pc[t] \in WritePcs /\ Return(t)
  BY DEF AppendEntryError, AppendEntrySyncError, CancelWaiting, CancelWrite,
         CallsClean, WritePcs, FlushPcs
<1>2. DurableMap!End(t)
  BY <1>1, EndStep
<1> DEFINE making == [u \in Task |-> Making(u)]
<1>3. making[t] = call[t]
  BY <1>1, PendingWrites
<1>4. /\ \/ allowed' = allowed
         \/ allowed' = [allowed EXCEPT ![call[t].key] = @ \cup {call[t].val}]
      /\ fields' = fields /\ status' = status
  BY DEF AppendEntryError, AppendEntrySyncError, CancelWaiting, CancelWrite
<1>5. /\ \/ allowed' = allowed
         \/ allowed' = [allowed EXCEPT ![making[t].key] = @ \cup {making[t].val}]
      /\ UNCHANGED <<status = "up", fields>>
  BY <1>3, <1>4
<1> QED
  BY <1>2, <1>5, Zenon DEF DurableMap!Fail, Making

\* The process or the machine stops, or the last handle is dropped.
LEMMA CrashStep ==
  ASSUME TypeOK, TypeOK', CallsClean, Close \/ Kill \/ (PowerLoss /\ status = "up")
  PROVE  DurableMap!Crash
<1> USE DEF files, memory, locals, ghosts
<1>1. status = "up" /\ status' = "down" /\ Forget
  BY DEF Close, Kill, PowerLoss
<1> DEFINE making == [u \in Task |-> Making(u)]
           writing == {u \in Task : making[u] # DurableMap!NoWrite}
           after(logged) == [k \in Key |-> allowed[k] \cup {making[u].val : u \in logged \cap DurableMap!Pending(k)}]
<1>2. \E logged \in SUBSET writing : allowed' = after(logged)
  <2>1. CASE Close
    <3>1. allowed' = allowed
      BY <2>1 DEF Close
    <3>2. allowed = after({})
      BY DEF TypeOK
    <3> QED BY <3>1, <3>2
  <2>2. CASE Kill \/ PowerLoss
    <3> DEFINE logged == {u \in Task : InLog(u)}
    <3>1. allowed' = AllowedAfterCrash
      BY <2>2 DEF Kill, PowerLoss
    <3>2. logged \in SUBSET writing
      BY PendingWrites DEF InLog, WritePcs
    <3>3. ASSUME NEW k \in Key
          PROVE  {call[t].val : t \in {u \in InFlight(k) : pc[u] # "append"}} =
                 {making[u].val : u \in logged \cap DurableMap!Pending(k)}
      <4>1. DurableMap!Pending(k) = InFlight(k)
        BY PendingWrites
      <4>2. {u \in InFlight(k) : pc[u] # "append"} = logged \cap InFlight(k)
        BY DEF InFlight, InLog, WritePcs
      <4>3. \A u \in InFlight(k) : making[u] = call[u]
        BY DEF InFlight, Making
      <4> QED BY <4>1, <4>2, <4>3
    <3>4. AllowedAfterCrash = after(logged)
      BY <3>3 DEF AllowedAfterCrash
    <3> QED BY <3>1, <3>2, <3>4
  <2> QED BY <2>1, <2>2
<1>3. /\ (status = "up")' = FALSE
      /\ fields' = DurableMap!NoData
      /\ [u \in Task |-> Making(u)'] = DurableMap!NobodyWrites
      /\ rivals' = [u \in Task |-> {}]
  <2>1. DurableMap!NoWrite = NoCall
    BY PendingWrites
  <2>2. [u \in Task |-> Making(u)'] = [u \in Task |-> NoCall]
    BY <1>1 DEF Forget, Making, WritePcs
  <2> QED BY <1>1, <2>1, <2>2 DEF Forget, NoFields, DurableMap!NoData, DurableMap!NobodyWrites
<1> QED
  BY <1>1, <1>2, <1>3 DEF DurableMap!Crash, Making

\* Opening gives each key a field that Store allows it.
LEMMA RestartStep ==
  ASSUME TypeOK, TypeOK', DurableInv, DurableInv', OpenInit
  PROVE  DurableMap!Restart
<1> USE DEF files, memory, locals, ghosts
<1>1. /\ status = "down" /\ status' = "up"
      /\ pc' = pc /\ call' = call /\ rivals' = rivals /\ allowed' = allowed
  BY DEF OpenInit
<1>2. fields' \in [Key -> Value \cup {None}] /\ \A k \in Key : fields'[k] \in allowed[k]
  BY <1>1 DEF TypeOK, DurableInv, ReadsExplained
<1>3. /\ status # "up" /\ (status = "up")' = TRUE
      /\ fields' \in {d \in [Key -> Value \cup {None}] : \A k \in Key : d[k] \in allowed[k]}
      /\ [u \in Task |-> Making(u)'] = [u \in Task |-> Making(u)]
  BY <1>1, <1>2 DEF Making
<1> QED
  BY <1>1, <1>3 DEF DurableMap!Restart, Making

\* Everything else is invisible to Store.
LEMMA StutterStep ==
  ASSUME TypeOK, TypeOK', CallsClean,
         \/ OpenFails \/ (PowerLoss /\ status # "up") \/ UNCHANGED vars
         \/ \E t \in Task : AppendEntry(t) \/ AppendEntrySync(t)
  PROVE  UNCHANGED DurableMap!storeVars
<1> USE DEF files, memory, locals, ghosts
<1> SUFFICES /\ (status = "up")' = (status = "up") /\ fields' = fields
             /\ [u \in Task |-> Making(u)'] = [u \in Task |-> Making(u)]
             /\ allowed' = allowed /\ rivals' = rivals
  BY DEF DurableMap!storeVars, Making
<1>1. CASE OpenFails
  BY <1>1 DEF OpenFails, Making
<1>2. CASE PowerLoss /\ status # "up"
  <2>1. status' = "down" /\ Forget /\ allowed' = AllowedAfterCrash
    BY <1>2 DEF PowerLoss
  <2>2. \A u \in Task : pc[u] = "idle" /\ rivals[u] = {} /\ fields = NoFields
    BY <1>2 DEF CallsClean
  <2>3. \A k \in Key : InFlight(k) = {}
    BY <2>2 DEF InFlight, WritePcs
  <2>4. allowed' = allowed
    BY <2>1, <2>3 DEF AllowedAfterCrash, TypeOK
  <2>5. rivals' = rivals
    BY <2>1, <2>2 DEF Forget, TypeOK
  <2>6. \A u \in Task : Making(u)' = Making(u)
    BY <2>1, <2>2 DEF Forget, Making, WritePcs
  <2>7. fields' = fields
    BY <1>2, <2>1 DEF Forget, CallsClean
  <2> QED BY <1>2, <2>1, <2>4, <2>5, <2>6, <2>7
<1>3. CASE UNCHANGED vars
  BY <1>3 DEF vars, Making
<1>4. ASSUME NEW t \in Task, AppendEntry(t) \/ AppendEntrySync(t)
      PROVE  /\ (status = "up")' = (status = "up") /\ fields' = fields
             /\ [u \in Task |-> Making(u)'] = [u \in Task |-> Making(u)]
             /\ allowed' = allowed /\ rivals' = rivals
  <2>1. /\ status' = status /\ fields' = fields /\ allowed' = allowed /\ rivals' = rivals /\ call' = call
        /\ \A u \in Task : pc'[u] \in WritePcs <=> pc[u] \in WritePcs
    BY <1>4 DEF AppendEntry, AppendEntrySync, Goto, TypeOK, WritePcs
  <2> QED BY <2>1 DEF Making
<1> QED
  BY <1>1, <1>2, <1>3, <1>4

\* Every step of Database without flush is one of Store, or a stutter.
LEMMA RefinesStep ==
  ASSUME ServerUse, TypeOK, TypeOK', DurableInv, DurableInv', [Next]_vars
  PROVE  [DurableMap!StoreNext]_DurableMap!storeVars
<1>a. CallsClean
  BY DEF DurableInv
<1>1. CASE Program
  <2>1. PICK t \in Task :
          Call(t) \/ LockSteps(t) \/ OtherSteps(t) \/ ErrorSteps(t) \/ CancelSteps(t)
    BY <1>1 DEF Program
  <2>2. \/ \E k \in Key : \E v \in Value \cup {None} : CallWrite(t, k, v)
        \/ ApplyWrite(t)
        \/ AppendEntryError(t) \/ AppendEntrySyncError(t) \/ CancelWaiting(t) \/ CancelWrite(t)
        \/ AppendEntry(t) \/ AppendEntrySync(t)
    BY <1>a, <2>1, NoFlushSteps
  <2> QED
    BY <1>a, <2>2, BeginStep, FinishStep, FailStep, StutterStep DEF DurableMap!StoreNext
<1>2. CASE ~ Program
  <2>1. OpenInit \/ OpenFails \/ Close \/ Kill \/ PowerLoss \/ UNCHANGED vars
    BY <1>2, DurableLifecycle DEF Next
  <2> QED
    BY <1>a, <2>1, CrashStep, RestartStep, StutterStep DEF DurableMap!StoreNext
<1> QED
  BY <1>1, <1>2

\* Used without flush, Database is the durable map of module Store: what a
\* write acknowledges is never taken back, and every open after any crash shows
\* each key a field Store allows it.
THEOREM StoreCorrect == ASSUME ServerUse PROVE Spec => ImplementsStore
<1>1. Init => DurableMap!StoreInit
  <2> SUFFICES ASSUME Init PROVE DurableMap!StoreInit
    OBVIOUS
  <2>1. [u \in Task |-> Making(u)] = [u \in Task |-> NoCall]
    BY DEF Init, Making, WritePcs
  <2>2. DurableMap!NobodyWrites = [u \in Task |-> NoCall] /\ DurableMap!NoData = NoFields
    BY DEF DurableMap!NobodyWrites, DurableMap!NoWrite, NoCall, DurableMap!NoData, NoFields
  <2> QED BY <2>1, <2>2 DEF Init, DurableMap!StoreInit, Making
<1>2. TypeOK /\ TypeOK' /\ DurableInv /\ DurableInv' /\ [Next]_vars
        => [DurableMap!StoreNext]_DurableMap!storeVars
  BY RefinesStep
<1> QED
  BY <1>1, <1>2, TypeCorrect, DurableCorrect, PTL DEF Spec, ImplementsStore, DurableMap!StoreSpec

=============================================================================
