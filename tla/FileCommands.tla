---------------------------- MODULE FileCommands ----------------------------
(***************************************************************************)
(* What the commands of a FileHandler (src/db/file.rs, enum FileCmd) do to *)
(* a file, each on its own.  A file is a sequence of bytes; a hole reads   *)
(* as Zero.                                                                *)
(***************************************************************************)
EXTENDS Naturals, Sequences

CONSTANTS
  Byte,     \* the bytes callers write
  Zero,     \* the byte of a hole
  Err       \* the result of a command that failed

ASSUME ByteAssumption == Zero \in Byte

\* FileCmd::Append and FileCmd::WriteAt.
IsWrite(cmd) == cmd.op \in {"append", "write_at"}

Resize(file, n) == [i \in 1 .. n |-> IF i <= Len(file) THEN file[i] ELSE Zero]

Overwrite(file, pos, data) ==
  LET end == pos + Len(data)
  IN [i \in 1 .. (IF end > Len(file) THEN end ELSE Len(file)) |->
        IF i \in pos + 1 .. end THEN data[i - pos]
        ELSE IF i <= Len(file) THEN file[i] ELSE Zero]

\* Where a write begins.
WriteStart(cmd, file) == IF cmd.op = "append" THEN Len(file) ELSE cmd.pos

\* The file after the first n bytes of cmd's data are written.
Written(cmd, file, n) ==
  IF n = 0 THEN file ELSE Overwrite(file, WriteStart(cmd, file), SubSeq(cmd.data, 1, n))

Effect(cmd, file) ==
  IF IsWrite(cmd) THEN Written(cmd, file, Len(cmd.data))
  ELSE IF cmd.op = "set_len" THEN Resize(file, cmd.len)
  ELSE file

\* What the caller is told: the content, the position of the appended data,
\* or nothing.
Answer(cmd, file) ==
  IF cmd.op = "read_all" THEN [op |-> "read_all", content |-> file]
  ELSE IF cmd.op = "append" THEN [op |-> "append", at |-> Len(file)]
  ELSE [op |-> cmd.op]

\* A command that fails may have written part of its data.
PartialEffects(cmd, file) ==
  IF IsWrite(cmd) THEN {Written(cmd, file, n) : n \in 0 .. Len(cmd.data)} ELSE {file}

=============================================================================
