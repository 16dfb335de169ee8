----------------------------- MODULE MCDatabase -----------------------------
(***************************************************************************)
(* Small instances of Database for TLC.                                    *)
(***************************************************************************)
EXTENDS Database

CONSTANTS k1, k2, v1, v2, t1, t2

\* The two fields encode to different lengths.
MCFieldLen == [v \in Value |-> IF v = v1 THEN 1 ELSE 2]

\* Callers and keys are interchangeable.
TaskSymmetry == Permutations(Task)
TaskKeySymmetry == Permutations(Task) \cup Permutations(Key)

\* The state without the history variables, which no guard and no index
\* property reads: states that differ only in them have the same future.
WithoutHistory == <<files, memory, walLock, pc, locals, calls>>

=============================================================================
