------------------------------ MODULE Protocol ------------------------------
(***************************************************************************)
(* Requests, responses and frames on the wire: src/server/protocol.rs, as  *)
(* pure operators over FieldCodec.  Integers are big-endian here.          *)
(***************************************************************************)
EXTENDS FieldCodec

Version == 1
Cmd == [Ping |-> 1, Get |-> 2, Set |-> 3, Del |-> 4, Keys |-> 5]
Status == [Ok |-> 0, NotFound |-> 1, TypeError |-> 2, ServerError |-> 3, InvalidRequest |-> 4, Keys |-> 5]

NoField == [kind |-> "none"]
Request(cmd, key, field) == [cmd |-> cmd, key |-> key, field |-> field]

\* Response::Ok(None) has body <<>>; Ok(Some(f)) has body <<f>>; Keys has the
\* keys and ServerError the bytes of its message.
Response(status, body) == [status |-> status, body |-> body]

-----------------------------------------------------------------------------
(***************************************************************************)
(* ProtocolEncoder.                                                        *)
(***************************************************************************)

EncodeKey(k) == BE(Len(k), W16) \o k
EncodeField(f) == LET b == BytesFromField(f) IN BE(Len(b), W32) \o b

EncodeRequest(req) ==
  <<Version, Cmd[req.cmd]>>
    \o (IF req.cmd \in {"Get", "Del", "Set"} THEN EncodeKey(req.key) ELSE <<>>)
    \o (IF req.cmd = "Set" THEN EncodeField(req.field) ELSE <<>>)

\* Mutated form: the length of a key in the list counts its length field too.
KeyListWithSize(keys) == FlattenSeq([i \in 1 .. Len(keys) |-> BE(Len(keys[i]) + W16, W16) \o keys[i]])

KeyList(keys) == FlattenSeq([i \in 1 .. Len(keys) |-> EncodeKey(keys[i])])

EncodeResponse(res) ==
  LET body == CASE res.status = "Ok" /\ res.body # <<>> -> BytesFromField(res.body[1])
                [] res.status = "ServerError" -> res.body
                [] res.status = "Keys" -> KeyList(res.body)
                [] OTHER -> <<>>
  IN <<Status[res.status]>> \o BE(Len(body), W32) \o body

Frame(msg) == BE(Len(msg), W32) \o msg

-----------------------------------------------------------------------------
(***************************************************************************)
(* ProtocolDecoder.  Bytes after what it needs are ignored.                *)
(***************************************************************************)

\* A length of w bytes at pos and that many bytes after it.
Counted(b, pos, w) ==
  LET len == UnBE(Slice(b, pos, w))
  IN IF Len(b) < pos + w THEN Err
     ELSE IF Len(b) < pos + w + len THEN Err
     ELSE Ok(Slice(b, pos + w, len), pos + w + len)

\* read_exact of the length of a message, then of the message.
ReadMessage(stream, pos) == Counted(stream, pos, W32)

DecodeRequest(b) ==
  LET cmd == CHOOSE c \in DOMAIN Cmd : Cmd[c] = b[2]
      key == Counted(b, 2, W16)
      payload == Counted(b, key.next, W32)
      field == FieldFromBytes(payload.val)
  IN IF Len(b) < 2 THEN Err
     ELSE IF b[1] # Version \/ (\A c \in DOMAIN Cmd : Cmd[c] # b[2]) THEN Err
     ELSE IF cmd \in {"Ping", "Keys"} THEN Ok(Request(cmd, <<>>, NoField), 2)
     ELSE IF key.out # "ok" THEN Err
     ELSE IF cmd # "Set" THEN Ok(Request(cmd, key.val, NoField), key.next)
     ELSE IF payload.out # "ok" THEN Err
     ELSE IF field.out # "ok" THEN field
     ELSE Ok(Request("Set", key.val, field.val), payload.next)

DecodeKeyList(b) == DecodeAll([pos \in Cursor(b) |-> Counted(b, pos, W16)], 0)

DecodeResponse(b) ==
  LET status == CHOOSE s \in DOMAIN Status : Status[s] = b[1]
      payload == Counted(b, 1, W32)
      field == FieldFromBytes(payload.val)
      keys == DecodeKeyList(payload.val)
      Answer(body) == Ok(Response(status, body), payload.next)
  IN IF b = <<>> THEN Err
     ELSE IF \A s \in DOMAIN Status : Status[s] # b[1] THEN Err
     ELSE IF payload.out # "ok" THEN Err
     ELSE IF status = "Ok" /\ payload.val # <<>>
          THEN IF field.out = "ok" THEN Answer(<<field.val>>) ELSE field
     ELSE IF status = "Keys" THEN IF keys.out = "ok" THEN Answer(keys.val) ELSE keys
     ELSE IF status = "ServerError"
          THEN IF IsUtf8(payload.val) THEN Answer(payload.val) ELSE Err
     ELSE Answer(<<>>)

=============================================================================
