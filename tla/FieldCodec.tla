----------------------------- MODULE FieldCodec -----------------------------
(***************************************************************************)
(* Fields and their bytes: src/dtypes.rs, as pure operators.               *)
(*                                                                         *)
(* A byte is a number below Radix.  Radix, the widths of the integers and  *)
(* the first byte of the array tags are constants, 256, 2, 4, 8 and 16 in  *)
(* the code: a smaller instance reaches the largest key and the largest    *)
(* count within a few bytes.  Decoding returns                             *)
(*   [out |-> "ok", val |-> .., next |-> ..], Err for PeachDbError, or     *)
(*   Panic where the code indexes past the end of a slice.                 *)
(* An f64 is the number its bytes spell: to_le_bytes and from_le_bytes     *)
(* keep every bit of it.                                                   *)
(***************************************************************************)
EXTENDS Naturals, Sequences, SequencesExt

CONSTANTS
  Radix,     \* number of byte values
  ArrayTag,  \* 0x10
  W16,       \* KEY_LEN_BYTE_SIZE, bytes of a u16
  W32,       \* FIELD_LEN_BYTE_SIZE, bytes of a u32
  W64,       \* bytes of an i64, f64 or u64
  NonAscii   \* from this byte on, a string is not valid UTF-8

ASSUME WidthAssumption ==
  /\ W16 \in Nat \ {0} /\ W32 \in Nat /\ W64 \in Nat /\ W16 < W32 /\ W32 < W64
  /\ Radix \in Nat /\ ArrayTag \in Nat /\ ArrayTag > 5 /\ 2 * ArrayTag <= Radix
  /\ NonAscii \in 5 .. Radix

Byte == 0 .. Radix - 1
Ok(val, next) == [out |-> "ok", val |-> val, next |-> next]
Err == [out |-> "err"]
Panic == [out |-> "panic"]

\* The numbers below Pow[w] are those of w bytes.
Pow[w \in Nat] == IF w = 0 THEN 1 ELSE Radix * Pow[w - 1]

\* Mutated form: the number is not cut to its bytes.
LEUncut(n, w) == [i \in 1 .. w |-> n \div Pow[i - 1]]

\* to_le_bytes of the low w bytes of n (`as u16`, `as u32`), and to_be_bytes.
LE(n, w) == [i \in 1 .. w |-> (n \div Pow[i - 1]) % Radix]
BE(n, w) == Reverse(LE(n, w))
UnLE(b) ==
  LET from[i \in 1 .. Len(b) + 1] == IF i > Len(b) THEN 0 ELSE b[i] + Radix * from[i + 1]
  IN from[1]
UnBE(b) == UnLE(Reverse(b))

Slice(b, pos, n) == SubSeq(b, pos + 1, pos + n)
IsUtf8(s) == \A i \in 1 .. Len(s) : s[i] < NonAscii

\* The loop of a decoder, whose turn with the cursor at pos is turn[pos]: item
\* after item to the end of the buffer, an error as a whole if an item is.
DecodeAll(turn, start) ==
  LET from[pos \in Nat] ==
        IF pos \notin DOMAIN turn THEN Ok(<<>>, pos)
        ELSE LET item == turn[pos]
                 rest == from[item.next]
             IN IF item.out # "ok" THEN item
                ELSE IF rest.out # "ok" THEN rest
                ELSE Ok(<<item.val>> \o rest.val, rest.next)
  IN from[start]

\* The positions of a cursor that has not reached the end of b.
Cursor(b) == 0 .. Len(b) - 1

-----------------------------------------------------------------------------
(***************************************************************************)
(* Dtype, Primitive and Field.                                             *)
(***************************************************************************)

Raw == 0
Integer == 1
Float == 2
String == 3
Boolean == 4
Scalar == {Integer, Float, String, Boolean}

\* Dtype::try_from: the array tags end one byte early (0x10..0x1F).
IsDtype(b) == b \in {Raw} \cup Scalar \/ b \in ArrayTag .. 2 * ArrayTag - 2

\* Primitive: val is a number, 0 or 1 for a Boolean, bytes for a String.
Prim(dt, val) == [dt |-> dt, val |-> val]

\* Field: a Primitive, Raw bytes, or an Array of primitives of one dtype.
PrimitiveField(p) == [kind |-> "primitive", of |-> p.dt, items |-> <<p>>]
RawField(bytes) == [kind |-> "raw", of |-> Raw, items |-> bytes]
ArrayField(dt, items) == [kind |-> "array", of |-> dt, items |-> items]

\* The values of the two types: what a client can send and a decoder return.
IsPrimitive(p) ==
  /\ p = Prim(p.dt, p.val)
  /\ \/ p.dt \in {Integer, Float} /\ p.val \in 0 .. Pow[W64] - 1
     \/ p.dt = Boolean /\ p.val \in {0, 1}
     \/ p.dt = String /\ p.val \in Seq(Byte) /\ IsUtf8(p.val) /\ Len(p.val) < Pow[W32]

IsField(f) ==
  \/ f.kind = "primitive" /\ f = PrimitiveField(f.items[1]) /\ IsPrimitive(f.items[1])
  \/ f.kind = "raw" /\ f = RawField(f.items) /\ f.items \in Seq(Byte)
  \/ /\ f.kind = "array" /\ f = ArrayField(f.of, f.items) /\ f.of \in {Raw} \cup Scalar
     /\ f.items \in Seq(Range(f.items)) /\ Len(f.items) < Pow[W32]
     /\ \A i \in 1 .. Len(f.items) : IsPrimitive(f.items[i]) /\ f.items[i].dt = f.of

-----------------------------------------------------------------------------
(***************************************************************************)
(* Encoding.                                                               *)
(***************************************************************************)

\* Mutated form: the length of a string has the width of a key's.
BytesFromPrimitiveNarrow(p) ==
  CASE p.dt \in {Integer, Float} -> LE(p.val, W64)
    [] p.dt = String -> LE(Len(p.val), W16) \o p.val
    [] p.dt = Boolean -> <<p.val>>

\* bytes_from_primitive.
BytesFromPrimitive(p) ==
  CASE p.dt \in {Integer, Float} -> LE(p.val, W64)
    [] p.dt = String -> LE(Len(p.val), W32) \o p.val
    [] p.dt = Boolean -> <<p.val>>

\* bytes_from_field.
BytesFromField(f) ==
  CASE f.kind = "primitive" -> <<f.of>> \o BytesFromPrimitive(f.items[1])
    [] f.kind = "raw" -> <<Raw>> \o f.items
    [] f.kind = "array" ->
         <<ArrayTag + f.of>> \o LE(Len(f.items), W32)
           \o FlattenSeq([i \in 1 .. Len(f.items) |-> BytesFromPrimitive(f.items[i])])

-----------------------------------------------------------------------------
(***************************************************************************)
(* Decoding.                                                               *)
(***************************************************************************)

\* primitive_from_bytes.
PrimitiveFromBytes(dt, buf) ==
  CASE dt \in {Integer, Float} ->
         IF Len(buf) < W64 THEN Err ELSE Ok(Prim(dt, UnLE(Slice(buf, 0, W64))), W64)
    [] dt = Boolean ->
         IF buf = <<>> THEN Panic ELSE Ok(Prim(dt, IF buf[1] # 0 THEN 1 ELSE 0), 1)
    [] dt = String ->
         LET len == UnLE(Slice(buf, 0, W32))
             s == Slice(buf, W32, len)
         IN IF Len(buf) < W32 THEN Err
            ELSE IF Len(buf) < W32 + len THEN Panic
            ELSE IF ~ IsUtf8(s) THEN Err
            ELSE Ok(Prim(dt, s), W32 + len)
    [] OTHER -> Err

\* field_from_bytes.
FieldFromBytes(buf) ==
  LET payload == Tail(buf)
      dt == buf[1]
      p == PrimitiveFromBytes(dt, payload)
      of == dt - ArrayTag
      count == UnLE(Slice(payload, 0, W32))
      \* What the loop over the items has after n of them.
      after[n \in 0 .. count] ==
        IF n = 0 THEN Ok(<<>>, W32)
        ELSE LET got == after[n - 1]
                 item == PrimitiveFromBytes(of, SubSeq(payload, got.next + 1, Len(payload)))
             IN IF got.out # "ok" THEN got
                ELSE IF item.out # "ok" THEN item
                ELSE Ok(Append(got.val, item.val), got.next + item.next)
      items == after[count]
  IN IF buf = <<>> \/ ~ IsDtype(dt) THEN Err
     ELSE IF dt \in Scalar THEN IF p.out # "ok" THEN p ELSE Ok(PrimitiveField(p.val), 1 + p.next)
     ELSE IF dt = Raw THEN Ok(RawField(payload), Len(buf))
     ELSE IF Len(payload) < W32 \/ ~ IsDtype(of) THEN Err
     ELSE IF items.out # "ok" THEN items
     ELSE Ok(ArrayField(of, items.val), 1 + items.next)

=============================================================================
