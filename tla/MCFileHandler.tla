---------------------------- MODULE MCFileHandler ----------------------------
(***************************************************************************)
(* A small instance of FileHandler for TLC.                                *)
(***************************************************************************)
EXTENDS FileHandler

CONSTANTS a, b, c1, c2

\* The commands of the storage engine: append, write_at over old data and
\* past the end, truncation, sync and read.
MCCommand ==
  {[op |-> "append", data |-> <<a, b>>],
   [op |-> "write_at", pos |-> 0, data |-> <<b>>],
   [op |-> "write_at", pos |-> 1, data |-> <<a, b>>],
   [op |-> "set_len", len |-> 0],
   [op |-> "sync_all"],
   [op |-> "read_all"]}

=============================================================================
