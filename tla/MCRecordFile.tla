---------------------------- MODULE MCRecordFile ----------------------------
(***************************************************************************)
(* A small instance of RecordFile for TLC: twelve byte values, so that the *)
(* longest key has eleven bytes and a few bytes spell every kind of field. *)
(***************************************************************************)
EXTENDS RecordFile

MCMagic == <<5, 1>>
MCMetaKey == << <<8>>, <<9>>, <<10>>, <<11>> >>
MCDbName == <<1, 0>>

LongestKey == [i \in 1 .. 11 |-> i]
MCKeys == { <<>>, <<2>>, LongestKey }

MCFields == {PrimitiveField(Prim(Integer, 13)),
             ArrayField(String, <<Prim(String, <<1, 2>>), Prim(String, <<>>)>>)}

=============================================================================
