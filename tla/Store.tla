-------------------------------- MODULE Store --------------------------------
(***************************************************************************)
(* What the server may rely on: a map from keys to fields that survives    *)
(* crashes, written by concurrent set and delete calls that may fail.      *)
(*                                                                         *)
(* data is what get and keys return.  may is the promise: the fields a key *)
(* can have after a restart.  An acknowledged write replaces it, except    *)
(* for writes it overlapped (the log and the map may disagree about their  *)
(* order); a write that failed, or was cut off by a crash, is added to it  *)
(* or not.  Database without flush implements Store; Server uses it.       *)
(***************************************************************************)
EXTENDS Naturals, FiniteSets

CONSTANTS
  Key,    \* keys
  Value,  \* fields
  Task,   \* callers
  None    \* no field, and the value of a delete

ASSUME NoneAssumption == None \notin Key

VARIABLES
  up,      \* a Database is open
  data,    \* the field of each key, None when it has none
  pend,    \* the set or delete each caller is making, NoWrite when none
  may,     \* the fields each key may have after a restart
  rivals   \* for each caller, the fields of the writes that overlap its own

storeVars == <<up, data, pend, may, rivals>>

NoWrite == [key |-> None, val |-> None]
Write == [key : Key, val : Value \cup {None}]
Pending(k) == {t \in Task : pend[t] # NoWrite /\ pend[t].key = k}
NoData == [k \in Key |-> None]
NobodyWrites == [t \in Task |-> NoWrite]

StoreTypeOK ==
  /\ up \in BOOLEAN
  /\ data \in [Key -> Value \cup {None}]
  /\ pend \in [Task -> Write \cup {NoWrite}]
  /\ may \in [Key -> SUBSET (Value \cup {None})]
  /\ rivals \in [Task -> SUBSET (Value \cup {None})]

StoreInit ==
  /\ up = FALSE
  /\ data = NoData
  /\ pend = NobodyWrites
  /\ may = [k \in Key |-> {None}]
  /\ rivals = [t \in Task |-> {}]

-----------------------------------------------------------------------------
\* A caller enters set(k, v), or delete(k) when v is None.
Begin(t, k, v) ==
  /\ up /\ pend[t] = NoWrite
  /\ pend' = [pend EXCEPT ![t] = [key |-> k, val |-> v]]
  /\ rivals' = [u \in Task |->
                  IF u = t THEN {pend[w].val : w \in Pending(k)}
                  ELSE IF u \in Pending(k) THEN rivals[u] \cup {v}
                  ELSE rivals[u]]
  /\ UNCHANGED <<up, data, may>>

End(t) ==
  /\ pend[t] # NoWrite
  /\ pend' = [pend EXCEPT ![t] = NoWrite]
  /\ rivals' = [rivals EXCEPT ![t] = {}]

\* Mutated form: the call returns before the log is on the disk.
FinishUnsynced(t) ==
  /\ End(t)
  /\ data' = [data EXCEPT ![pend[t].key] = pend[t].val]
  /\ UNCHANGED <<up, may>>

\* The call returns Ok: the write is visible and durable.
Finish(t) ==
  LET k == pend[t].key
  IN /\ End(t)
     /\ data' = [data EXCEPT ![k] = pend[t].val]
     /\ may' = [may EXCEPT ![k] = {pend[u].val : u \in Pending(k)} \cup (@ \cap rivals[t])]
     /\ UNCHANGED up

\* The call returns Err or is dropped: the write is not visible, and may or
\* may not be there after a restart.
Fail(t) ==
  /\ End(t)
  /\ \/ UNCHANGED may
     \/ may' = [may EXCEPT ![pend[t].key] = @ \cup {pend[t].val}]
  /\ UNCHANGED <<up, data>>

\* The process or the machine stops; some of the pending writes were logged.
Crash ==
  /\ up
  /\ \E logged \in SUBSET {t \in Task : pend[t] # NoWrite} :
       may' = [k \in Key |-> may[k] \cup {pend[t].val : t \in logged \cap Pending(k)}]
  /\ up' = FALSE
  /\ data' = NoData
  /\ pend' = NobodyWrites
  /\ rivals' = [t \in Task |-> {}]

Restart ==
  /\ ~ up
  /\ up' = TRUE
  /\ data' \in {d \in [Key -> Value \cup {None}] : \A k \in Key : d[k] \in may[k]}
  /\ UNCHANGED <<pend, may, rivals>>

StoreNext ==
  \/ \E t \in Task :
       \/ \E k \in Key : \E v \in Value \cup {None} : Begin(t, k, v)
       \/ Finish(t) \/ Fail(t)
  \/ Crash \/ Restart

StoreSpec == StoreInit /\ [][StoreNext]_storeVars

\* What get and keys show is on the disk: a reader never sees a field that the
\* next restart cannot give back, however writes overlap, fail and are cut off.
VisibleIsDurable == up => \A k \in Key : data[k] \in may[k]

=============================================================================
