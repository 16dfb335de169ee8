--------------------------- MODULE RegularProofs ---------------------------
(***************************************************************************)
(* Reads through the server are regular, for any number of connections,    *)
(* keys and frames, across restarts.                                       *)
(*                                                                         *)
(* ReadsRegular compares what was read with an order on the writes, their  *)
(* field before, that clients can observe.  The store orders them finer:   *)
(* by which calls were over when a call began.  The state does not keep    *)
(* that order, so the invariant asks for one: RegularInv says that there   *)
(* is a past that explains the state.  A past consists of                  *)
(*   out    the writes that are over or will never be made,                *)
(*   fin    those of them that returned Ok,                                *)
(*   prec   for each write that was begun, the ones that were out then,    *)
(*   now    the write each connection is making.                           *)
(***************************************************************************)
EXTENDS ServerProofs

\* w wrote the field v of key k.
Wrote(w, k, v) == w \in 1 .. Len(writes) /\ writes[w].key = k /\ writes[w].val = v

\* A field the key may be shown: no write of it that returned Ok came after.
Current(k, v, fin, prec) ==
  \/ v = None /\ \A m \in fin : writes[m].key # k
  \/ \E w \in 1 .. Len(writes) : Wrote(w, k, v) /\ \A m \in fin : writes[m].key = k => w \notin prec[m]

\* The writes that returned Ok and those being made.
Begun(fin, now) == fin \cup {now[c] : c \in {d \in Conn : pend[d] # NoWrite}}

\* A write that overlapped l: it was not out when l began, and whatever began
\* when it was out began after l.
Overlapped(w, l, begun, prec) ==
  w \notin prec[l] /\ \A m \in begun : w \in prec[m] => prec[l] \subseteq prec[m]

\* The write l that c is making.
Making(c, l, out, begun, prec) ==
  /\ l \in 1 .. Len(writes) /\ l \notin out
  /\ pend[c].key = writes[l].key /\ pend[c].val = writes[l].val
  /\ writes[l].before \subseteq prec[l] /\ prec[l] \subseteq out
  /\ \A v \in rivals[c] : \E w \in 1 .. Len(writes) :
       Wrote(w, writes[l].key, v) /\ Overlapped(w, l, begun, prec)

\* The past explains the store.
StorePast(out, fin, prec, now) ==
  /\ out \subseteq 1 .. Len(writes) /\ fin \subseteq out
  /\ \A m \in fin : writes[m].before \subseteq prec[m] /\ prec[m] \subseteq out
  /\ \A c \in Conn : pend[c] # NoWrite => Making(c, now[c], out, Begun(fin, now), prec)
  /\ \A c, d \in Conn : c # d /\ pend[c] # NoWrite /\ pend[d] # NoWrite => now[c] # now[d]
  /\ \A k \in Key : \A v \in may[k] : Current(k, v, fin, prec)

-----------------------------------------------------------------------------
\* Known, and the condition of ReadsRegular, for the record of a connection.
KnownTo(x, n) ==
  x.sent[n].after
    \cup {x.sent[i].id : i \in {j \in 1 .. n - 1 : IsWrite(x.sent[j].req)
                                                   /\ x.answers[j].status = "Ok"}}

ReadOk(r, a, known) ==
  CASE r.cmd = "Get" -> Explains(r.key, a.val, known)
    [] r.cmd = "Keys" ->
         \A k \in Key : IF k \in a.val THEN \E v \in Value : Explains(k, v, known)
                        ELSE Explains(k, None, known)
    [] OTHER -> TRUE

\* A frame has the number of its write, and came after acknowledged ones only.
FrameOk(f, fin) ==
  /\ IsWrite(f.req) => Wrote(f.id, f.req.key, f.req.val)
  /\ ~ IsWrite(f.req) => f.id = 0
  /\ f.after \subseteq fin

\* An answer to the n-th frame of x: an Ok is true, and a read is explained.
AnswerOk(x, n, a, fin) ==
  /\ IsWrite(x.sent[n].req) /\ a.status = "Ok" => x.sent[n].id \in fin
  /\ ReadOk(x.sent[n].req, a, KnownTo(x, n))

\* The answers of a connection, and the one its task has ready.
Regular(x, out, fin) ==
  /\ \A n \in 1 .. Len(x.sent) : FrameOk(x.sent[n], fin)
  /\ \A n \in 1 .. Len(x.answers) : n <= Len(x.sent) =>
       /\ IsWrite(x.sent[n].req) => x.sent[n].id \in out
       /\ AnswerOk(x, n, x.answers[n], fin)
  /\ x.task = "reply" /\ x.peer # "gone" => AnswerOk(x, x.taken, x.reply, fin)

\* What an open connection has served is out; what it has not will come after
\* its own earlier frames.
InLine(x, out) ==
  x.link = "open" =>
    \A n \in 1 .. Len(x.sent) : IsWrite(x.sent[n].req) =>
      LET id == x.sent[n].id
      IN IF n < x.taken \/ (n = x.taken /\ x.task # "run") THEN id \in out
         ELSE /\ id \notin out
              /\ writes[id].before \subseteq out \cup ({x.sent[i].id : i \in 1 .. n - 1} \ {0})

\* While the task of a connection is in a call, it makes the write it took last.
RunOk(x, l) ==
  x.task = "run" => x.taken \in 1 .. Len(x.sent) /\ IsWrite(x.sent[x.taken].req) /\ l = x.sent[x.taken].id

\* No two frames are the same write.
Distinct ==
  \A c, d \in Conn : \A n \in 1 .. Len(conn[c].sent) : \A m \in 1 .. Len(conn[d].sent) :
    (c # d \/ n # m) /\ IsWrite(conn[c].sent[n].req) /\ IsWrite(conn[d].sent[m].req)
      => conn[c].sent[n].id # conn[d].sent[m].id

\* The past explains the connections.
ConnPast(out, fin, now) ==
  /\ ended \subseteq out /\ acked \subseteq fin
  /\ \A c \in Conn : Regular(conn[c], out, fin) /\ InLine(conn[c], out) /\ RunOk(conn[c], now[c])

PastType(out, fin, prec, now) ==
  out \in SUBSET Nat /\ fin \in SUBSET Nat /\ prec \in [Nat -> SUBSET Nat] /\ now \in [Conn -> Nat]

Past(out, fin, prec, now) == StorePast(out, fin, prec, now) /\ ConnPast(out, fin, now)

\* The inductive invariant.
RegularInv ==
  /\ OrderInv /\ VisibleIsDurable /\ Distinct
  /\ \E out, fin, prec, now : PastType(out, fin, prec, now) /\ Past(out, fin, prec, now)

-----------------------------------------------------------------------------
(***************************************************************************)
(* The store.                                                              *)
(***************************************************************************)

\* Whatever was begun has a past that is over.
LEMMA BegunPast ==
  ASSUME NEW out, NEW fin, NEW prec, NEW now, StorePast(out, fin, prec, now),
         NEW m \in Begun(fin, now)
  PROVE  prec[m] \subseteq out /\ writes[m].before \subseteq prec[m] /\ m \in 1 .. Len(writes)
<1>1. CASE m \in fin
  BY <1>1 DEF StorePast
<1>2. CASE m \notin fin
  <2>1. PICK c \in Conn : pend[c] # NoWrite /\ m = now[c]
    BY <1>2 DEF Begun
  <2> QED BY <2>1 DEF StorePast, Making
<1> QED
  BY <1>1, <1>2

\* A pending write is shown whatever returned Ok: it is in nobody's past.
LEMMA PendingCurrent ==
  ASSUME NEW out, NEW fin, NEW prec, NEW now, StorePast(out, fin, prec, now),
         NEW c \in Conn, pend[c] # NoWrite
  PROVE  /\ Wrote(now[c], pend[c].key, pend[c].val) /\ now[c] \notin out
         /\ now[c] \in Begun(fin, now)
         /\ \A m \in Begun(fin, now) : now[c] \notin prec[m]
         /\ Current(pend[c].key, pend[c].val, fin, prec)
<1>1. Making(c, now[c], out, Begun(fin, now), prec)
  BY DEF StorePast
<1>2. Wrote(now[c], pend[c].key, pend[c].val) /\ now[c] \notin out
  BY <1>1 DEF Making, Wrote
<1>3. \A m \in Begun(fin, now) : now[c] \notin prec[m]
  BY <1>2, BegunPast
<1>4. fin \subseteq Begun(fin, now) /\ now[c] \in Begun(fin, now)
  BY DEF Begun
<1> QED
  BY <1>2, <1>3, <1>4 DEF Current, Wrote

\* The store when a call begins: the new write comes after everything that is
\* out, and overlaps everything that is pending.
LEMMA BeginPast ==
  ASSUME TypeOK, NEW out, NEW fin, NEW prec, NEW now, PastType(out, fin, prec, now),
         StorePast(out, fin, prec, now), writes' = writes,
         NEW c \in Conn, NEW k, NEW v, Begin(c, k, v),
         NEW l \in 1 .. Len(writes), l \notin out, writes[l].key = k, writes[l].val = v,
         writes[l].before \subseteq out,
         \A d \in Conn : d # c /\ pend[d] # NoWrite => now[d] # l
  PROVE  StorePast(out, fin, [prec EXCEPT ![l] = out], [now EXCEPT ![c] = l])'
<1> DEFINE p == [prec EXCEPT ![l] = out]
           q == [now EXCEPT ![c] = l]
           b == Begun(fin, now)
<1> USE DEF Conn
<1>1. /\ p[l] = out /\ \A m \in Nat : m # l => p[m] = prec[m]
      /\ q[c] = l /\ \A d \in Conn : d # c => q[d] = now[d]
      /\ fin \subseteq Nat /\ l \in Nat /\ l \notin fin
  BY DEF PastType, StorePast
<1>2. \A m \in fin : p[m] = prec[m]
  BY <1>1
<1> HIDE DEF p, q
<1>3. /\ pend[c] = NoWrite /\ may' = may
      /\ pend'[c] = [key |-> k, val |-> v] /\ \A d \in Conn : d # c => pend'[d] = pend[d]
      /\ rivals'[c] = {pend[w].val : w \in Pending(k)}
      /\ \A d \in Conn : d # c => rivals'[d] = IF d \in Pending(k) THEN rivals[d] \cup {v} ELSE rivals[d]
  BY DEF Begin, TypeOK, StoreTypeOK
<1>4. \A m \in b : m # l /\ m \in Nat /\ p[m] = prec[m]
  <2>1. \A m \in b : m # l
    BY <1>1, <1>3 DEF Begun
  <2>2. \A m \in b : m \in Nat
    BY <1>1, <1>3 DEF Begun, PastType
  <2> QED BY <2>1, <2>2, <1>1
<1>5. Begun(fin, q)' \subseteq b \cup {l}
  BY <1>1, <1>3 DEF Begun
<1>6. \A m \in fin : writes[m].before \subseteq p[m] /\ p[m] \subseteq out
  BY <1>2 DEF StorePast
<1>7. \A x, y : Current(x, y, fin, prec) => Current(x, y, fin, p)'
  BY <1>2 DEF Current, Wrote
<1>8. ASSUME NEW w, NEW d \in Conn, d # c, pend[d] # NoWrite, Overlapped(w, now[d], b, prec)
      PROVE  Overlapped(w, now[d], Begun(fin, q)', p)
  <2>1. now[d] \in b /\ p[now[d]] = prec[now[d]] /\ prec[now[d]] \subseteq out
    BY <1>4, <1>8, BegunPast DEF Begun
  <2>2. ASSUME NEW m \in Begun(fin, q)', w \in p[m] PROVE p[now[d]] \subseteq p[m]
    <3>1. CASE m = l
      BY <3>1, <2>1, <1>1
    <3>2. CASE m \in b
      BY <3>2, <2>1, <2>2, <1>4, <1>8 DEF Overlapped
    <3> QED BY <3>1, <3>2, <1>5
  <2> QED BY <2>1, <2>2, <1>8 DEF Overlapped
<1>9. ASSUME NEW w, w \notin out, NEW e \in {l} \cup b
      PROVE  Overlapped(w, e, Begun(fin, q)', p)
  <2>1. \A m \in b : w \notin p[m]
    BY <1>4, <1>9, BegunPast
  <2> QED BY <2>1, <1>1, <1>5, <1>9 DEF Overlapped
<1>10. Making(c, l, out, Begun(fin, q), p)'
  <2>1. ASSUME NEW u \in rivals'[c]
        PROVE  \E w \in 1 .. Len(writes) : Wrote(w, k, u) /\ Overlapped(w, l, Begun(fin, q)', p)
    <3>1. PICK d \in Pending(k) : u = pend[d].val
      BY <1>3, <2>1
    <3>2. d \in Conn /\ pend[d] # NoWrite /\ pend[d].key = k
      BY <3>1 DEF Pending
    <3>3. Wrote(now[d], k, u) /\ now[d] \notin out
      BY <3>1, <3>2, PendingCurrent
    <3>4. Overlapped(now[d], l, Begun(fin, q)', p)
      BY <3>3, <1>9
    <3> QED BY <3>3, <3>4 DEF Wrote
  <2>2. pend'[c].key = k /\ pend'[c].val = v
    BY <1>3
  <2> QED BY <2>1, <2>2, <1>1 DEF Making, Wrote
<1>11. ASSUME NEW d \in Conn, d # c, pend'[d] # NoWrite
       PROVE  Making(d, now[d], out, Begun(fin, q), p)'
  <2>1. pend[d] # NoWrite /\ pend'[d] = pend[d] /\ now[d] # l /\ now[d] \in b
    BY <1>3, <1>11 DEF Begun
  <2>2. Making(d, now[d], out, b, prec)
    BY <2>1 DEF StorePast
  <2>3. p[now[d]] = prec[now[d]]
    BY <1>4, <2>1
  <2>4. ASSUME NEW u \in rivals'[d]
        PROVE  \E w \in 1 .. Len(writes) :
                 Wrote(w, writes[now[d]].key, u) /\ Overlapped(w, now[d], Begun(fin, q)', p)
    <3>1. CASE u \in rivals[d]
      <4>1. PICK w \in 1 .. Len(writes) : Wrote(w, writes[now[d]].key, u) /\ Overlapped(w, now[d], b, prec)
        BY <3>1, <2>2 DEF Making
      <4>2. Overlapped(w, now[d], Begun(fin, q)', p)
        BY <4>1, <2>1, <1>8, <1>11
      <4> QED BY <4>1, <4>2
    <3>2. CASE u \notin rivals[d]
      <4>1. d \in Pending(k) /\ u = v
        BY <3>2, <1>3, <1>11, <2>4
      <4>2. writes[now[d]].key = k
        BY <4>1, <2>2 DEF Making, Pending
      <4>3. Wrote(l, k, v)
        BY DEF Wrote
      <4>4. Overlapped(l, now[d], Begun(fin, q)', p)
        BY <2>1, <1>9
      <4> QED BY <4>1, <4>2, <4>3, <4>4
    <3> QED BY <3>1, <3>2
  <2> QED BY <2>1, <2>2, <2>3, <2>4 DEF Making, Wrote
<1>12. \A d \in Conn : pend'[d] # NoWrite => Making(d, q[d], out, Begun(fin, q), p)'
  <2> SUFFICES ASSUME NEW d \in Conn, pend'[d] # NoWrite PROVE Making(d, q[d], out, Begun(fin, q), p)'
    OBVIOUS
  <2>1. CASE d = c
    BY <2>1, <1>1, <1>10
  <2>2. CASE d # c
    BY <2>2, <1>1, <1>11
  <2> QED BY <2>1, <2>2
<1>13. \A d, e \in Conn : d # e /\ pend'[d] # NoWrite /\ pend'[e] # NoWrite => q[d] # q[e]
  BY <1>1, <1>3 DEF StorePast
<1>14. \A x \in Key : \A y \in may'[x] : Current(x, y, fin, p)'
  BY <1>3, <1>7 DEF StorePast
<1>15. out \subseteq 1 .. Len(writes') /\ fin \subseteq out
  BY DEF StorePast
<1>16. \A m \in fin : writes'[m].before \subseteq p[m] /\ p[m] \subseteq out
  BY <1>6
<1> QED
  BY <1>12, <1>13, <1>14, <1>15, <1>16 DEF StorePast, p, q

\* The calls that go on when one of them returns, with Ok or not.
LEMMA OthersMaking ==
  ASSUME TypeOK, NEW out, NEW fin, NEW prec, NEW now,
         StorePast(out, fin, prec, now), writes' = writes,
         NEW c \in Conn, End(c), NEW fin2 \in {fin, fin \cup {now[c]}}
  PROVE  /\ \A d \in Conn : pend'[d] # NoWrite =>
              Making(d, now[d], out \cup {now[c]}, Begun(fin2, now), prec)'
         /\ \A d, e \in Conn : d # e /\ pend'[d] # NoWrite /\ pend'[e] # NoWrite => now[d] # now[e]
<1> USE DEF Conn
<1>1. /\ pend[c] # NoWrite /\ pend'[c] = NoWrite
      /\ \A d \in Conn : d # c => pend'[d] = pend[d] /\ rivals'[d] = rivals[d]
  BY DEF End, TypeOK, StoreTypeOK
<1>2. Begun(fin2, now)' \subseteq Begun(fin, now)
  BY <1>1 DEF Begun
<1>3. ASSUME NEW d \in Conn, pend'[d] # NoWrite
      PROVE  Making(d, now[d], out \cup {now[c]}, Begun(fin2, now), prec)'
  <2>1. d # c /\ pend[d] # NoWrite /\ pend'[d] = pend[d] /\ rivals'[d] = rivals[d]
    BY <1>1, <1>3
  <2>2. Making(d, now[d], out, Begun(fin, now), prec) /\ now[d] # now[c]
    BY <2>1, <1>1 DEF StorePast
  <2>3. \A w : Overlapped(w, now[d], Begun(fin, now), prec) => Overlapped(w, now[d], Begun(fin2, now)', prec)
    BY <1>2 DEF Overlapped
  <2> QED BY <2>1, <2>2, <2>3 DEF Making, Wrote
<1> QED
  BY <1>1, <1>3 DEF StorePast

\* A call returns Ok.  Of the fields the key could have, the overlapping ones
\* remain; one of the write seen before and of the overlapping one explains it.
LEMMA FinishPast ==
  ASSUME TypeOK, NEW out, NEW fin, NEW prec, NEW now, PastType(out, fin, prec, now),
         StorePast(out, fin, prec, now), writes' = writes, NEW c \in Conn, Finish(c)
  PROVE  StorePast(out \cup {now[c]}, fin \cup {now[c]}, prec, now)'
<1> DEFINE l == now[c]
           k == pend[c].key
           fin2 == fin \cup {l}
<1> USE DEF Conn
<1>1. /\ End(c) /\ pend[c] # NoWrite
      /\ may' = [may EXCEPT ![k] = {pend[u].val : u \in Pending(k)} \cup (@ \cap rivals[c])]
  BY DEF Finish, End
<1>2. /\ Making(c, l, out, Begun(fin, now), prec) /\ l \in Begun(fin, now)
      /\ Wrote(l, k, pend[c].val) /\ l \notin out
  BY <1>1, PendingCurrent DEF StorePast
<1>3. k \in Key
  BY <1>1 DEF TypeOK, StoreTypeOK, Write
<1>4. fin \subseteq Begun(fin, now) /\ fin2 \subseteq Begun(fin, now)
  BY <1>2 DEF Begun
<1>5. ASSUME NEW d \in Pending(k) PROVE Current(k, pend[d].val, fin2, prec)
  <2>1. d \in Conn /\ pend[d] # NoWrite /\ pend[d].key = k
    BY DEF Pending
  <2>2. Wrote(now[d], k, pend[d].val) /\ \A m \in Begun(fin, now) : now[d] \notin prec[m]
    BY <2>1, PendingCurrent
  <2> QED BY <2>2, <1>4 DEF Current, Wrote
<1>6. ASSUME NEW v \in may[k], v \in rivals[c] PROVE Current(k, v, fin2, prec)
  <2>1. Current(k, v, fin, prec)
    BY <1>3 DEF StorePast
  <2>2. PICK w2 \in 1 .. Len(writes) : Wrote(w2, k, v) /\ Overlapped(w2, l, Begun(fin, now), prec)
    BY <1>2, <1>6 DEF Making
  <2>3. CASE v = None /\ \A m \in fin : writes[m].key # k
    BY <2>2, <2>3 DEF Current, Overlapped
  <2>4. CASE \E w \in 1 .. Len(writes) : Wrote(w, k, v) /\ \A m \in fin : writes[m].key = k => w \notin prec[m]
    <3>1. PICK w \in 1 .. Len(writes) : Wrote(w, k, v) /\ \A m \in fin : writes[m].key = k => w \notin prec[m]
      BY <2>4
    <3>2. CASE w \notin prec[l]
      BY <3>1, <3>2 DEF Current
    <3>3. CASE w \in prec[l]
      <4>1. \A m \in fin : writes[m].key = k => w2 \notin prec[m]
        BY <2>2, <3>1, <3>3, <1>4 DEF Overlapped
      <4> QED BY <4>1, <2>2 DEF Current, Overlapped
    <3> QED BY <3>2, <3>3
  <2> QED BY <2>1, <2>3, <2>4 DEF Current
<1>7. ASSUME NEW x \in Key, x # k, NEW v \in may[x] PROVE Current(x, v, fin2, prec)
  <2>1. Current(x, v, fin, prec)
    BY DEF StorePast
  <2>2. writes[l].key # x
    BY <1>2, <1>7 DEF Wrote
  <2> QED BY <2>1, <2>2 DEF Current
<1>8. \A x \in Key : \A v \in may'[x] : Current(x, v, fin2, prec)
  <2>1. /\ may'[k] = {pend[u].val : u \in Pending(k)} \cup (may[k] \cap rivals[c])
        /\ \A x \in Key : x # k => may'[x] = may[x]
    BY <1>1, <1>3 DEF TypeOK, StoreTypeOK
  <2> SUFFICES ASSUME NEW x \in Key, NEW v \in may'[x] PROVE Current(x, v, fin2, prec)
    OBVIOUS
  <2>2. CASE x # k
    BY <2>1, <2>2, <1>7
  <2>3. CASE x = k
    <3>1. v \in {pend[u].val : u \in Pending(k)} \/ (v \in may[k] /\ v \in rivals[c])
      BY <2>1, <2>3
    <3>2. CASE v \in {pend[u].val : u \in Pending(k)}
      BY <3>2, <2>3, <1>5
    <3>3. CASE v \in may[k] /\ v \in rivals[c]
      BY <3>3, <2>3, <1>6
    <3> QED BY <3>1, <3>2, <3>3
  <2> QED BY <2>2, <2>3
<1>9. \A x, v : Current(x, v, fin2, prec) => Current(x, v, fin2, prec)'
  BY DEF Current, Wrote
<1>10. /\ out \cup {l} \subseteq 1 .. Len(writes') /\ fin2 \subseteq out \cup {l}
       /\ \A m \in fin2 : writes'[m].before \subseteq prec[m] /\ prec[m] \subseteq out \cup {l}
  BY <1>2 DEF StorePast, Making
<1> HIDE DEF l, fin2
<1>11. \A x \in Key : \A v \in may'[x] : Current(x, v, fin2, prec)'
  BY <1>8, <1>9
<1>12. /\ \A d \in Conn : pend'[d] # NoWrite => Making(d, now[d], out \cup {l}, Begun(fin2, now), prec)'
       /\ \A d, e \in Conn : d # e /\ pend'[d] # NoWrite /\ pend'[e] # NoWrite => now[d] # now[e]
  BY <1>1, OthersMaking DEF l, fin2
<1>13. StorePast(out \cup {l}, fin2, prec, now)'
  BY <1>10, <1>11, <1>12 DEF StorePast
<1> QED
  BY <1>13 DEF l, fin2

\* A call fails: its write may be found after a restart.
LEMMA FailPast ==
  ASSUME TypeOK, NEW out, NEW fin, NEW prec, NEW now, PastType(out, fin, prec, now),
         StorePast(out, fin, prec, now), writes' = writes, NEW c \in Conn, Fail(c)
  PROVE  StorePast(out \cup {now[c]}, fin, prec, now)'
<1> DEFINE l == now[c]
           k == pend[c].key
<1> USE DEF Conn
<1>1. End(c) /\ pend[c] # NoWrite /\ (may' = may \/ may' = [may EXCEPT ![k] = @ \cup {pend[c].val}])
  BY DEF Fail, End
<1>2. l \in 1 .. Len(writes) /\ Current(k, pend[c].val, fin, prec)
  BY <1>1, PendingCurrent DEF Wrote
<1>3. \A x \in Key : \A v \in may'[x] : v \in may[x] \/ (x = k /\ v = pend[c].val)
  BY <1>1 DEF TypeOK, StoreTypeOK
<1>4. \A x \in Key : \A v \in may'[x] : Current(x, v, fin, prec)
  BY <1>2, <1>3 DEF StorePast
<1>5. \A x, v : Current(x, v, fin, prec) => Current(x, v, fin, prec)'
  BY DEF Current, Wrote
<1>6. /\ out \cup {l} \subseteq 1 .. Len(writes') /\ fin \subseteq out \cup {l}
      /\ \A m \in fin : writes'[m].before \subseteq prec[m] /\ prec[m] \subseteq out \cup {l}
  BY <1>2 DEF StorePast
<1> HIDE DEF l
<1>7. \A x \in Key : \A v \in may'[x] : Current(x, v, fin, prec)'
  BY <1>4, <1>5
<1>8. /\ \A d \in Conn : pend'[d] # NoWrite => Making(d, now[d], out \cup {l}, Begun(fin, now), prec)'
      /\ \A d, e \in Conn : d # e /\ pend'[d] # NoWrite /\ pend'[e] # NoWrite => now[d] # now[e]
  <2>1. ASSUME NEW fin2, fin2 = fin
        PROVE  /\ \A d \in Conn : pend'[d] # NoWrite =>
                    Making(d, now[d], out \cup {now[c]}, Begun(fin2, now), prec)'
               /\ \A d, e \in Conn : d # e /\ pend'[d] # NoWrite /\ pend'[e] # NoWrite => now[d] # now[e]
    <3>1. fin2 \in {fin, fin \cup {now[c]}}
      BY <2>1
    <3>2. End(c)
      BY <1>1
    <3> QED BY <3>1, <3>2, OthersMaking
  <2> QED BY <2>1 DEF l
<1>9. StorePast(out \cup {l}, fin, prec, now)'
  BY <1>6, <1>7, <1>8 DEF StorePast
<1> QED
  BY <1>9 DEF l

\* The process stops: nothing is pending, and every write sent is out.
LEMMA CrashPast ==
  ASSUME TypeOK, NEW out, NEW fin, NEW prec, NEW now, PastType(out, fin, prec, now),
         StorePast(out, fin, prec, now), writes' = writes, Crash
  PROVE  StorePast(1 .. Len(writes), fin, prec, now)'
<1> USE DEF Conn
<1>1. \A c \in Conn : pend'[c] = NoWrite
  BY DEF Crash, NobodyWrites
<1>2. PICK logged \in SUBSET {t \in Task : pend[t] # NoWrite} :
        may' = [x \in Key |-> may[x] \cup {pend[t].val : t \in logged \cap Pending(x)}]
  BY DEF Crash
<1>3. ASSUME NEW x \in Key, NEW v \in may'[x] PROVE Current(x, v, fin, prec)'
  <2>1. Current(x, v, fin, prec)
    <3>1. CASE v \in may[x]
      BY <3>1 DEF StorePast
    <3>2. CASE v \notin may[x]
      <4>1. PICK t \in Pending(x) : v = pend[t].val
        BY <1>2, <3>2
      <4>2. t \in Conn /\ pend[t] # NoWrite /\ pend[t].key = x
        BY <4>1 DEF Pending
      <4> QED BY <4>1, <4>2, PendingCurrent
    <3> QED BY <3>1, <3>2
  <2> QED BY <2>1 DEF Current, Wrote
<1>4. /\ 1 .. Len(writes) \subseteq 1 .. Len(writes') /\ fin \subseteq 1 .. Len(writes)
      /\ \A m \in fin : writes'[m].before \subseteq prec[m] /\ prec[m] \subseteq 1 .. Len(writes)
  BY DEF StorePast
<1> QED
  BY <1>1, <1>3, <1>4 DEF StorePast

\* Writes that are sent, and steps that leave the writes of the store alone,
\* change nothing the past explains.
LEMMA QuietPast ==
  ASSUME TypeOK, NEW out, NEW fin, NEW prec, NEW now, PastType(out, fin, prec, now),
         StorePast(out, fin, prec, now), UNCHANGED <<pend, may, rivals>>,
         Len(writes) \in Nat, Len(writes') \in Nat, Len(writes) <= Len(writes'),
         \A i \in 1 .. Len(writes) : writes'[i] = writes[i]
  PROVE  StorePast(out, fin, prec, now)'
<1>1. 1 .. Len(writes) \subseteq 1 .. Len(writes')
  OBVIOUS
<1>2. \A w, x, v : Wrote(w, x, v) => Wrote(w, x, v)'
  BY <1>1 DEF Wrote
<1>3. fin \subseteq 1 .. Len(writes) /\ \A m \in fin : writes'[m] = writes[m]
  BY DEF StorePast
<1>4. \A x, v : Current(x, v, fin, prec) => Current(x, v, fin, prec)'
  BY <1>1, <1>2, <1>3 DEF Current
<1>5. Begun(fin, now)' = Begun(fin, now)
  BY DEF Begun
<1>6. ASSUME NEW c \in Conn, pend[c] # NoWrite
      PROVE  Making(c, now[c], out, Begun(fin, now), prec)'
  <2>1. Making(c, now[c], out, Begun(fin, now), prec)
    BY <1>6 DEF StorePast
  <2>2. now[c] \in 1 .. Len(writes) /\ writes'[now[c]] = writes[now[c]]
    BY <2>1 DEF Making
  <2>3. \A v \in rivals[c] : \E w \in 1 .. Len(writes') :
          Wrote(w, writes[now[c]].key, v)' /\ Overlapped(w, now[c], Begun(fin, now), prec)
    BY <2>1, <1>1, <1>2 DEF Making
  <2>4. \A v \in rivals[c] : \E w \in 1 .. Len(writes') :
          Wrote(w, writes[now[c]].key, v)'
    BY <2>3
  <2> QED BY <2>1, <2>2, <2>3, <1>1, <1>5 DEF Making, Overlapped, Wrote
<1> QED
  BY <1>1, <1>3, <1>4, <1>6 DEF StorePast

-----------------------------------------------------------------------------
(***************************************************************************)
(* The connections.                                                        *)
(***************************************************************************)

\* No connection at all is regular.
LEMMA NoConnRegular ==
  ASSUME NEW out, NEW fin, NEW l
  PROVE  Regular(NoConn, out, fin) /\ InLine(NoConn, out) /\ RunOk(NoConn, l)
BY DEF Regular, InLine, RunOk, NoConn

\* What is known depends on the frame, and on those before it and their answers.
LEMMA KnownSame ==
  ASSUME NEW x, NEW y, NEW n, y.sent[n] = x.sent[n],
         \A j \in 1 .. n - 1 : y.sent[j] = x.sent[j] /\ y.answers[j] = x.answers[j]
  PROVE  KnownTo(y, n) = KnownTo(x, n)
BY DEF KnownTo

\* What is known to be earlier than a frame returned Ok.
LEMMA KnownFin ==
  ASSUME NEW x \in ConnType, NEW out, NEW fin, Regular(x, out, fin),
         NEW n \in 1 .. Len(x.sent), n <= Len(x.answers) + 1
  PROVE  KnownTo(x, n) \subseteq fin
<1>1. Len(x.sent) \in Nat /\ Len(x.answers) \in Nat
  BY DEF ConnType
<1>2. x.sent[n].after \subseteq fin
  BY DEF Regular, FrameOk
<1>3. ASSUME NEW j \in 1 .. n - 1, IsWrite(x.sent[j].req), x.answers[j].status = "Ok"
      PROVE  x.sent[j].id \in fin
  <2>1. j \in 1 .. Len(x.answers) /\ j <= Len(x.sent)
    BY <1>1
  <2> QED BY <2>1, <1>3 DEF Regular, AnswerOk
<1> QED
  BY <1>2, <1>3 DEF KnownTo

\* More writes that are out, or returned Ok, leave a connection regular.
LEMMA RegularMore ==
  ASSUME NEW x, NEW out, NEW fin, NEW out2, NEW fin2,
         out \subseteq out2, fin \subseteq fin2, Regular(x, out, fin)
  PROVE  Regular(x, out2, fin2)
<1>1. \A f : FrameOk(f, fin) => FrameOk(f, fin2)
  BY DEF FrameOk
<1>2. \A n, a : AnswerOk(x, n, a, fin) => AnswerOk(x, n, a, fin2)
  BY DEF AnswerOk
<1> QED
  BY <1>1, <1>2 DEF Regular

\* An open connection is in line with more writes that are out, if its frames
\* to come are not among them.
LEMMA InLineMore ==
  ASSUME NEW x, NEW out, NEW out2, out \subseteq out2, InLine(x, out),
         \A n \in 1 .. Len(x.sent) :
           IsWrite(x.sent[n].req) /\ x.sent[n].id \in out2 =>
             x.sent[n].id \in out \/ n < x.taken \/ (n = x.taken /\ x.task # "run")
  PROVE  InLine(x, out2)
BY DEF InLine

\* With the same writes a connection is as regular as before.
LEMMA RegularSame ==
  ASSUME writes' = writes, NEW x, NEW out, NEW fin
  PROVE  Regular(x, out, fin)' = Regular(x, out, fin) /\ InLine(x, out)' = InLine(x, out)
<1>1. \A f : FrameOk(f, fin)' = FrameOk(f, fin)
  BY DEF FrameOk, Wrote
<1>2. \A k, v, known : Explains(k, v, known)' = Explains(k, v, known)
  BY DEF Explains
<1>3. \A r, a, known : ReadOk(r, a, known)' = ReadOk(r, a, known)
  BY <1>2 DEF ReadOk
<1>4. \A n, a : AnswerOk(x, n, a, fin)' = AnswerOk(x, n, a, fin)
  BY <1>3 DEF AnswerOk
<1> QED
  BY <1>1, <1>4 DEF Regular, InLine

\* What becomes of a connection that takes no frame and gets no answer.
Calmer(x, y) ==
  /\ y.sent = x.sent /\ y.taken = x.taken /\ Len(y.answers) <= Len(x.answers)
  /\ \A i \in 1 .. Len(y.answers) : y.answers[i] = x.answers[i]
  /\ y.link = "open" => x.link = "open" /\ (x.task = "run" => y.task = "run")
  /\ y.task = "run" => x.task = "run"
  /\ y.task = "reply" /\ y.peer # "gone" =>
       x.task = "reply" /\ x.peer # "gone" /\ y.reply = x.reply /\ y.answers = x.answers

\* It stays regular.
LEMMA CalmerRegular ==
  ASSUME NEW x \in ConnType, NEW y \in ConnType, Calmer(x, y), NEW out, NEW fin, NEW l,
         Regular(x, out, fin), InLine(x, out), RunOk(x, l)
  PROVE  Regular(y, out, fin) /\ InLine(y, out) /\ RunOk(y, l)
<1>1. /\ Len(x.answers) \in Nat /\ Len(y.answers) \in Nat /\ Len(x.sent) \in Nat /\ y.taken \in Nat
      /\ 1 .. Len(y.answers) \subseteq 1 .. Len(x.answers)
  BY DEF ConnType, Calmer
<1>2. InLine(y, out)
  BY <1>1 DEF InLine, Calmer
<1>3. RunOk(y, l)
  BY DEF RunOk, Calmer
<1>4. \A n \in Nat : n <= Len(y.answers) + 1 => KnownTo(y, n) = KnownTo(x, n)
  <2> SUFFICES ASSUME NEW n \in Nat, n <= Len(y.answers) + 1 PROVE KnownTo(y, n) = KnownTo(x, n)
    OBVIOUS
  <2>1. \A j \in 1 .. n - 1 : y.answers[j] = x.answers[j]
    BY <1>1 DEF Calmer
  <2>2. y.sent = x.sent
    BY DEF Calmer
  <2> QED BY <2>1, <2>2, KnownSame
<1>5. ASSUME NEW n \in 1 .. Len(y.answers), n <= Len(y.sent)
      PROVE  (IsWrite(y.sent[n].req) => y.sent[n].id \in out) /\ AnswerOk(y, n, y.answers[n], fin)
  <2>1. n \in 1 .. Len(x.answers) /\ n <= Len(x.sent) /\ y.sent = x.sent /\ y.answers[n] = x.answers[n]
    BY <1>1, <1>5 DEF Calmer
  <2>2. (IsWrite(x.sent[n].req) => x.sent[n].id \in out) /\ AnswerOk(x, n, x.answers[n], fin)
    BY <2>1 DEF Regular
  <2>3. KnownTo(y, n) = KnownTo(x, n)
    BY <1>1, <1>4
  <2> QED BY <2>1, <2>2, <2>3 DEF AnswerOk
<1>6. ASSUME y.task = "reply", y.peer # "gone" PROVE AnswerOk(y, y.taken, y.reply, fin)
  <2>1. /\ AnswerOk(x, x.taken, x.reply, fin) /\ y.taken = x.taken /\ y.reply = x.reply
        /\ y.sent = x.sent /\ y.answers = x.answers
    BY <1>6 DEF Calmer, Regular
  <2>2. KnownTo(y, y.taken) = KnownTo(x, x.taken)
    BY <2>1 DEF KnownTo
  <2> QED BY <2>1, <2>2 DEF AnswerOk
<1>7. \A n \in 1 .. Len(y.sent) : FrameOk(y.sent[n], fin)
  BY DEF Regular, Calmer
<1> QED
  BY <1>2, <1>3, <1>5, <1>6, <1>7 DEF Regular

\* A step that changes one connection and sends nothing.
LEMMA OneRegular ==
  ASSUME OrderInv, writes' = writes, NEW out, NEW fin, NEW now,
         ended' \subseteq out, acked' \subseteq fin,
         NEW c \in Conn, NEW y, conn' = [conn EXCEPT ![c] = y],
         Regular(y, out, fin), InLine(y, out), RunOk(y, now[c]),
         \A d \in Conn : d # c => Regular(conn[d], out, fin) /\ InLine(conn[d], out) /\ RunOk(conn[d], now[d])
  PROVE  ConnPast(out, fin, now)'
<1>1. conn'[c] = y /\ \A d \in Conn : d # c => conn'[d] = conn[d]
  BY DEF OrderInv, TypeOK
<1>2. \A x : Regular(x, out, fin)' = Regular(x, out, fin) /\ InLine(x, out)' = InLine(x, out)
  BY RegularSame
<1>3. ASSUME NEW d \in Conn
      PROVE  Regular(conn[d], out, fin)' /\ InLine(conn[d], out)' /\ RunOk(conn[d], now[d])'
  <2>1. CASE d = c
    BY <2>1, <1>1, <1>2
  <2>2. CASE d # c
    BY <2>2, <1>1, <1>2
  <2> QED BY <2>1, <2>2
<1> QED
  BY <1>3 DEF ConnPast

\* Where nothing is sent, no write is sent again.
LEMMA DistinctStays ==
  ASSUME Distinct, \A d \in Conn : conn'[d].sent = conn[d].sent \/ conn'[d].sent = <<>>
  PROVE  Distinct'
<1> SUFFICES ASSUME NEW c \in Conn, NEW d \in Conn,
                    NEW n \in 1 .. Len(conn'[c].sent), NEW m \in 1 .. Len(conn'[d].sent),
                    c # d \/ n # m, IsWrite(conn'[c].sent[n].req), IsWrite(conn'[d].sent[m].req)
             PROVE  conn'[c].sent[n].id # conn'[d].sent[m].id
  BY DEF Distinct
<1>1. conn'[c].sent = conn[c].sent /\ conn'[d].sent = conn[d].sent
  OBVIOUS
<1> QED
  BY <1>1 DEF Distinct

\* The same, where one connection changes.
LEMMA OneDistinct ==
  ASSUME OrderInv, Distinct, NEW c \in Conn, NEW y, conn' = [conn EXCEPT ![c] = y],
         y.sent = conn[c].sent \/ y.sent = <<>>
  PROVE  Distinct'
<1>1. \A d \in Conn : conn'[d].sent = conn[d].sent \/ conn'[d].sent = <<>>
  BY DEF OrderInv, TypeOK
<1> QED
  BY <1>1, DistinctStays

\* A state with a past is regular.
LEMMA PastRegular ==
  ASSUME OrderInv', VisibleIsDurable', Distinct', NEW out, NEW fin, NEW prec, NEW now,
         PastType(out, fin, prec, now), StorePast(out, fin, prec, now)', ConnPast(out, fin, now)'
  PROVE  RegularInv'
BY DEF RegularInv, Past

\* A step that only calms one connection.
LEMMA CalmRegular ==
  ASSUME RegularInv, OrderInv', VisibleIsDurable', UNCHANGED <<pend, may, rivals, writes>>,
         NEW c \in Conn, NEW y, conn' = [conn EXCEPT ![c] = y],
         y = NoConn \/ (y \in ConnType /\ Calmer(conn[c], y)),
         \A out, fin : Regular(conn[c], out, fin) /\ ended \subseteq out /\ acked \subseteq fin
                         => ended' \subseteq out /\ acked' \subseteq fin
  PROVE  RegularInv'
<1>1. PICK out, fin, prec, now : PastType(out, fin, prec, now) /\ Past(out, fin, prec, now)
  BY DEF RegularInv
<1>2. OrderInv /\ Distinct /\ TypeOK /\ conn[c] \in ConnType /\ Len(writes) \in Nat
  BY DEF RegularInv, OrderInv, TypeOK
<1>3. StorePast(out, fin, prec, now)'
  BY <1>1, <1>2, QuietPast DEF Past
<1>4. ConnPast(out, fin, now)
  BY <1>1 DEF Past
<1>5. /\ Regular(conn[c], out, fin) /\ InLine(conn[c], out) /\ RunOk(conn[c], now[c])
      /\ ended \subseteq out /\ acked \subseteq fin
  BY <1>4 DEF ConnPast
<1>6. Regular(y, out, fin) /\ InLine(y, out) /\ RunOk(y, now[c])
  <2>1. CASE y = NoConn
    BY <2>1, NoConnRegular
  <2>2. CASE y \in ConnType /\ Calmer(conn[c], y)
    BY <2>2, <1>2, <1>5, CalmerRegular
  <2> QED BY <2>1, <2>2
<1>7. y.sent = conn[c].sent \/ y.sent = <<>>
  BY DEF Calmer, NoConn
<1>8. \A d \in Conn : d # c => Regular(conn[d], out, fin) /\ InLine(conn[d], out) /\ RunOk(conn[d], now[d])
  BY <1>4 DEF ConnPast
<1>9. ended' \subseteq out /\ acked' \subseteq fin /\ writes' = writes
  BY <1>5
<1>10. ConnPast(out, fin, now)'
  BY <1>2, <1>6, <1>8, <1>9, OneRegular
<1>11. Distinct'
  BY <1>2, <1>7, OneDistinct
<1> QED
  BY <1>1, <1>3, <1>10, <1>11, PastRegular

\* A connection whose stream is dropped is calmer, and is not open.
LEMMA ShutCalmer ==
  ASSUME OrderInv, NEW c \in Conn, NEW reset \in BOOLEAN, NEW x \in Shut(c, reset)
  PROVE  x = NoConn \/ (x \in ConnType /\ Calmer(conn[c], x) /\ x.link # "open")
<1> DEFINE y(n) == [conn[c] EXCEPT !.link = "shut", !.task = "idle", !.reply = NoAnswer,
                                   !.answers = SubSeq(@, 1, n)]
<1>1. /\ conn[c] \in ConnType
      /\ conn[c].heard \in 0 .. Len(conn[c].answers) /\ conn[c].answers \in Seq(AnswerType)
      /\ Len(conn[c].answers) \in 0 .. Len(conn[c].answers)
  BY ConnFacts
<1>2. \E n \in 0 .. Len(conn[c].answers) : x = Settled(y(n))
  <2>1. PICK n \in (IF reset THEN conn[c].heard .. Len(conn[c].answers) ELSE {Len(conn[c].answers)}) :
               x = Settled(y(n))
    BY Zenon DEF Shut
  <2>2. conn[c].heard .. Len(conn[c].answers) \subseteq 0 .. Len(conn[c].answers)
    BY <1>1
  <2> QED
    BY <1>1, <2>1, <2>2, Zenon
<1>3. PICK n \in 0 .. Len(conn[c].answers) : x = Settled(y(n))
  BY <1>2
<1> DEFINE s == SubSeq(conn[c].answers, 1, n)
<1>4. s \in Seq(AnswerType) /\ Len(s) = n /\ \A i \in 1 .. n : s[i] = conn[c].answers[i]
  BY <1>1, <1>3
<1> HIDE DEF s
<1>5. /\ y(n) \in ConnType
      /\ y(n).link = "shut" /\ y(n).task = "idle" /\ y(n).reply = NoAnswer /\ y(n).answers = s
      /\ y(n).sent = conn[c].sent /\ y(n).taken = conn[c].taken /\ y(n).heard = conn[c].heard
  BY <1>1, <1>4, DroppedFields, Zenon DEF s
<1> HIDE DEF y
<1>6. ASSUME NEW z, z = y(n) PROVE Calmer(conn[c], z)
  BY <1>1, <1>3, <1>4, <1>5, <1>6 DEF Calmer
<1>7. y(n) \in ConnType /\ y(n).link # "open" /\ Calmer(conn[c], y(n))
  BY <1>5, <1>6
<1> QED
  BY <1>3, <1>7, Zenon DEF Settled

\* The steps that end a connection.
LEMMA CloseRegular ==
  ASSUME RegularInv, OrderInv', VisibleIsDurable', NEW c \in Conn, Close(c),
         UNCHANGED <<pend, may, rivals, writes, ended, acked>>
  PROVE  RegularInv'
<1>1. PICK x \in Shut(c, conn[c].taken < Len(conn[c].sent)) : conn' = [conn EXCEPT ![c] = x]
  BY DEF Close
<1>2. (conn[c].taken < Len(conn[c].sent)) \in BOOLEAN /\ OrderInv
  BY DEF RegularInv
<1>3. x = NoConn \/ (x \in ConnType /\ Calmer(conn[c], x))
  BY <1>1, <1>2, ShutCalmer
<1> QED
  BY <1>1, <1>3, CalmRegular

\* The client resets the connection, or stops in the middle of a message; the
\* task writes to a client that is gone.
LEMMA CalmSteps ==
  ASSUME RegularInv, OrderInv', VisibleIsDurable', NEW c \in Conn,
         Vanish(c) \/ ReadCut(c) \/ WriteInVain(c)
  PROVE  RegularInv'
<1>1. UNCHANGED <<pend, may, rivals, writes, ended, acked>>
  BY DEF Vanish, ReadCut, WriteInVain, storeVars, history
<1>2. OrderInv /\ TypeOK
  BY DEF RegularInv, OrderInv
<1>3. conn[c] \in ConnType /\ (conn[c].task # "idle" <=> conn[c].link = "open") /\ Len(conn[c].answers) \in Nat
  BY <1>2, ConnFacts DEF Coherent
<1>4. \E y \in ConnType : conn' = [conn EXCEPT ![c] = y] /\ Calmer(conn[c], y)
  <2>1. CASE Vanish(c)
    <3> DEFINE y == [conn[c] EXCEPT !.peer = "gone"]
    <3>1. conn' = [conn EXCEPT ![c] = y]
      BY <2>1, <1>2 DEF Vanish, TypeOK
    <3>2. /\ y \in ConnType /\ y.sent = conn[c].sent /\ y.taken = conn[c].taken /\ y.answers = conn[c].answers
          /\ y.link = conn[c].link /\ y.task = conn[c].task /\ y.peer = "gone"
      BY <1>3 DEF ConnType
    <3> HIDE DEF y
    <3>3. Calmer(conn[c], y)
      BY <1>3, <3>2 DEF Calmer
    <3> QED BY <3>1, <3>2, <3>3
  <2>2. CASE ReadCut(c)
    <3> DEFINE a == Answer("ServerError", None)
               y == [conn[c] EXCEPT !.task = "farewell", !.reply = a, !.peer = "cut"]
    <3>1. conn' = [conn EXCEPT ![c] = y] /\ conn[c].task = "read"
      BY <2>2, <1>2 DEF ReadCut, AtEnd, TypeOK
    <3>2. a \in AnswerType
      BY DEF Answer, AnswerType
    <3> HIDE DEF a
    <3>3. /\ y \in ConnType /\ y.sent = conn[c].sent /\ y.taken = conn[c].taken /\ y.answers = conn[c].answers
          /\ y.link = conn[c].link /\ y.task = "farewell"
      BY <1>3, <3>2 DEF ConnType
    <3> HIDE DEF y
    <3>4. Calmer(conn[c], y)
      BY <1>3, <3>1, <3>3 DEF Calmer
    <3> QED BY <3>1, <3>3, <3>4
  <2>3. CASE WriteInVain(c)
    <3> DEFINE y == [conn[c] EXCEPT !.task = "read", !.reply = NoAnswer]
    <3>1. conn' = [conn EXCEPT ![c] = y] /\ conn[c].task = "reply"
      BY <2>3, <1>2 DEF WriteInVain, TypeOK
    <3>2. NoAnswer \in AnswerType
      BY DEF NoAnswer, Answer, AnswerType
    <3>3. /\ y \in ConnType /\ y.sent = conn[c].sent /\ y.taken = conn[c].taken /\ y.answers = conn[c].answers
          /\ y.link = conn[c].link /\ y.task = "read"
      BY <1>3, <3>2 DEF ConnType
    <3> HIDE DEF y
    <3>4. Calmer(conn[c], y)
      BY <1>3, <3>1, <3>3 DEF Calmer
    <3> QED BY <3>1, <3>3, <3>4
  <2> QED BY <2>1, <2>2, <2>3
<1>5. PICK y \in ConnType : conn' = [conn EXCEPT ![c] = y] /\ Calmer(conn[c], y)
  BY <1>4
<1> QED
  BY <1>1, <1>5, CalmRegular

\* A client reads an answer: a write it is told of is out, and with Ok is done.
LEMMA HearRegular ==
  ASSUME RegularInv, OrderInv', VisibleIsDurable', NEW c \in Conn, Hear(c)
  PROVE  RegularInv'
<1> DEFINE n == conn[c].heard + 1
           y == [conn[c] EXCEPT !.heard = n]
<1>1. UNCHANGED <<pend, may, rivals, writes>>
  BY DEF Hear, storeVars
<1>2. OrderInv /\ TypeOK
  BY DEF RegularInv, OrderInv
<1>3. /\ conn[c] \in ConnType /\ Len(conn[c].answers) \in Nat /\ Len(conn[c].sent) \in Nat
      /\ n \in 1 .. Len(conn[c].answers)
  BY <1>2, ConnFacts DEF Hear
<1>4. conn' = [conn EXCEPT ![c] = Settled(y)]
  BY <1>2 DEF Hear, TypeOK
<1>5. ASSUME NEW out, NEW fin, Regular(conn[c], out, fin), ended \subseteq out, acked \subseteq fin
      PROVE  ended' \subseteq out /\ acked' \subseteq fin
  <2>1. CASE n > Len(conn[c].sent) \/ conn[c].sent[n].id = 0
    BY <2>1, <1>5 DEF Hear
  <2>2. CASE ~ (n > Len(conn[c].sent) \/ conn[c].sent[n].id = 0)
    <3>1. n \in 1 .. Len(conn[c].sent) /\ n <= Len(conn[c].sent)
      BY <1>3, <2>2
    <3>2. IsWrite(conn[c].sent[n].req)
      BY <3>1, <2>2, <1>5 DEF Regular, FrameOk
    <3>3. /\ conn[c].sent[n].id \in out
          /\ conn[c].answers[n].status = "Ok" => conn[c].sent[n].id \in fin
      BY <3>1, <3>2, <1>3, <1>5 DEF Regular, AnswerOk
    <3>4. /\ ended' = ended \cup {conn[c].sent[n].id}
          /\ acked' = IF conn[c].answers[n].status = "Ok" THEN acked \cup {conn[c].sent[n].id} ELSE acked
      BY <2>2 DEF Hear
    <3> QED BY <3>3, <3>4, <1>5
  <2> QED BY <2>1, <2>2
<1> HIDE DEF n
<1>6. /\ y \in ConnType /\ y.taken = conn[c].taken /\ y.sent = conn[c].sent /\ y.answers = conn[c].answers
      /\ y.task = conn[c].task /\ y.link = conn[c].link /\ y.reply = conn[c].reply /\ y.peer = conn[c].peer
  BY <1>3 DEF ConnType
<1> HIDE DEF y
<1>7. Calmer(conn[c], y)
  BY <1>3, <1>6 DEF Calmer
<1>8. Settled(y) = NoConn \/ (Settled(y) \in ConnType /\ Calmer(conn[c], Settled(y)))
  BY <1>6, <1>7 DEF Settled
<1>9. ASSUME NEW z, z = Settled(y) PROVE RegularInv'
  BY <1>1, <1>4, <1>5, <1>8, <1>9, CalmRegular
<1> QED
  BY <1>9

\* A field the store may show explains a read, if what the reader knows of
\* returned Ok: the order the store knows is finer than the clients'.
LEMMA CurrentExplains ==
  ASSUME NEW out, NEW fin, NEW prec, NEW now, StorePast(out, fin, prec, now),
         NEW k, NEW v, Current(k, v, fin, prec), NEW known, known \subseteq fin
  PROVE  Explains(k, v, known)
<1>1. \A m \in known : writes[m].before \subseteq prec[m]
  BY DEF StorePast
<1> QED
  BY <1>1 DEF Current, Explains, Wrote

\* What a task looks up is explained.
LEMMA LookExplained ==
  ASSUME StoreTypeOK, up, VisibleIsDurable, NEW out, NEW fin, NEW prec, NEW now,
         StorePast(out, fin, prec, now), NEW known, known \subseteq fin, NEW r \in Requests,
         r.cmd \in {"Ping", "Get", "Keys"}
  PROVE  ReadOk(r, Look(r), known)
<1>1. \A k \in Key : data[k] \in Value \cup {None} /\ Explains(k, data[k], known)
  <2> SUFFICES ASSUME NEW k \in Key PROVE data[k] \in Value \cup {None} /\ Explains(k, data[k], known)
    OBVIOUS
  <2>1. data[k] \in Value \cup {None} /\ data[k] \in may[k]
    BY DEF StoreTypeOK, VisibleIsDurable
  <2>2. Current(k, data[k], fin, prec)
    BY <2>1 DEF StorePast
  <2> QED BY <2>1, <2>2, CurrentExplains
<1>2. r.key \in Key
  BY ServerAssumption
<1>3. CASE r.cmd = "Ping"
  BY <1>3 DEF ReadOk
<1>4. CASE r.cmd = "Get"
  <2>1. Look(r).val = data[r.key]
    BY <1>4 DEF Look, Answer
  <2> QED BY <2>1, <1>1, <1>2, <1>4 DEF ReadOk
<1>5. CASE r.cmd = "Keys"
  <2>1. Look(r).val = {k \in Key : data[k] # None}
    BY <1>5 DEF Look, Answer
  <2>2. ASSUME NEW k \in Key
        PROVE  IF k \in Look(r).val THEN \E v \in Value : Explains(k, v, known) ELSE Explains(k, None, known)
    BY <2>1, <1>1
  <2> QED BY <2>2, <1>5 DEF ReadOk
<1> QED
  BY <1>3, <1>4, <1>5

\* A frame that is no write is answered: refused, or with what is there.
LEMMA ReadRegular ==
  ASSUME RegularInv, OrderInv', VisibleIsDurable', NEW c \in Conn, Refuse(c) \/ HandleRead(c)
  PROVE  RegularInv'
<1> DEFINE n == conn[c].taken + 1
           r == conn[c].sent[n].req
<1>1. OrderInv /\ TypeOK /\ Distinct /\ VisibleIsDurable
  BY DEF RegularInv, OrderInv
<1>2. PICK a \in AnswerType : /\ Replying(c, n, a) /\ Take(c, {"Bad", "Ping", "Get", "Keys"})
                              /\ r.cmd # "Bad" => a = Look(r)
  <2>1. CASE Refuse(c)
    <3>1. Answer("InvalidRequest", None) \in AnswerType
      BY DEF Answer, AnswerType
    <3>2. Take(c, {"Bad", "Ping", "Get", "Keys"}) /\ r.cmd = "Bad" /\ Replying(c, n, Answer("InvalidRequest", None))
      BY <2>1 DEF Refuse, Take
    <3> QED BY <3>1, <3>2
  <2>2. CASE HandleRead(c)
    <3>1. Take(c, {"Ping", "Get", "Keys"}) /\ Replying(c, n, Look(r))
      BY <2>2 DEF HandleRead
    <3>2. r \in Requests /\ r.cmd \in {"Ping", "Get", "Keys"}
      BY <3>1, <1>1, TakeOk
    <3>3. Look(r) \in AnswerType
      BY <3>2, <1>1, LookType DEF TypeOK
    <3>4. Take(c, {"Bad", "Ping", "Get", "Keys"})
      BY <3>1 DEF Take
    <3> QED BY <3>1, <3>3, <3>4
  <2> QED BY <2>1, <2>2
<1>3. /\ n \in 1 .. Len(conn[c].sent) /\ conn[c].link = "open" /\ conn[c].task = "read"
      /\ conn[c].taken \in Nat
      /\ r \in Requests /\ r.cmd \in {"Bad", "Ping", "Get", "Keys"}
  BY <1>1, <1>2, TakeOk
<1>4. UNCHANGED <<pend, may, rivals, writes, ended, acked>>
  BY DEF Refuse, HandleRead, storeVars, history
<1>5. up /\ StoreTypeOK /\ Len(writes) \in Nat
  BY <1>1, <1>3 DEF TypeOK, IsOpen
<1>6. conn[c] \in ConnType /\ Orderly(conn[c]) /\ Len(conn[c].answers) \in Nat /\ Len(conn[c].sent) \in Nat
  BY <1>1, ConnFacts
<1> DEFINE y == [conn[c] EXCEPT !.taken = n, !.task = "reply", !.reply = a]
<1>7. conn' = [conn EXCEPT ![c] = y]
  BY <1>1, <1>2 DEF Replying, TypeOK
<1>8. /\ y.sent = conn[c].sent /\ y.answers = conn[c].answers /\ y.taken = n /\ y.task = "reply"
      /\ y.link = "open" /\ y.reply = a /\ y.peer = conn[c].peer
  BY <1>3, <1>6 DEF ConnType
<1> HIDE DEF y
<1>9. PICK out, fin, prec, now : PastType(out, fin, prec, now) /\ Past(out, fin, prec, now)
  BY DEF RegularInv
<1>10. StorePast(out, fin, prec, now) /\ ConnPast(out, fin, now)
  BY <1>9 DEF Past
<1>11. Regular(conn[c], out, fin) /\ InLine(conn[c], out)
  BY <1>10 DEF ConnPast
<1>12. ~ IsWrite(r)
  BY <1>3 DEF IsWrite
<1>13. ASSUME y.peer # "gone" PROVE AnswerOk(y, n, a, fin)
  <2>1. Len(conn[c].answers) = conn[c].taken
    BY <1>3, <1>6, <1>8, <1>13 DEF Orderly, Owed
  <2>2. KnownTo(conn[c], n) \subseteq fin
    BY <2>1, <1>3, <1>6, <1>11, KnownFin
  <2>3. KnownTo(y, n) = KnownTo(conn[c], n)
    BY <1>8 DEF KnownTo
  <2>4. ReadOk(r, a, KnownTo(y, n))
    <3>1. CASE r.cmd = "Bad"
      BY <3>1 DEF ReadOk
    <3>2. CASE r.cmd # "Bad"
      <4>1. r.cmd \in {"Ping", "Get", "Keys"} /\ a = Look(r)
        BY <3>2, <1>2, <1>3
      <4> HIDE DEF r, n
      <4> QED BY <4>1, <2>2, <2>3, <1>1, <1>3, <1>5, <1>10, LookExplained
    <3> QED BY <3>1, <3>2
  <2> QED BY <2>4, <1>8, <1>12 DEF AnswerOk
<1>14. Regular(y, out, fin)
  <2>1. \A m, b : AnswerOk(conn[c], m, b, fin) => AnswerOk(y, m, b, fin)
    BY <1>8 DEF AnswerOk, KnownTo
  <2> QED BY <2>1, <1>8, <1>11, <1>13 DEF Regular
<1>15. InLine(y, out)
  BY <1>3, <1>8, <1>11, <1>12 DEF InLine
<1>16. RunOk(y, now[c])
  BY <1>8 DEF RunOk
<1>17. \A d \in Conn : d # c => Regular(conn[d], out, fin) /\ InLine(conn[d], out) /\ RunOk(conn[d], now[d])
  BY <1>10 DEF ConnPast
<1>18. ended' \subseteq out /\ acked' \subseteq fin
  BY <1>4, <1>10 DEF ConnPast
<1>19. ConnPast(out, fin, now)'
  BY <1>1, <1>4, <1>7, <1>14, <1>15, <1>16, <1>17, <1>18, OneRegular
<1>20. StorePast(out, fin, prec, now)'
  BY <1>1, <1>4, <1>5, <1>9, <1>10, QuietPast
<1>21. Distinct'
  BY <1>1, <1>7, <1>8, OneDistinct
<1> QED
  BY <1>9, <1>19, <1>20, <1>21, PastRegular

\* The task writes the answer it has.
LEMMA AnswerRegular ==
  ASSUME RegularInv, OrderInv', VisibleIsDurable', NEW c \in Conn, WriteAnswer(c)
  PROVE  RegularInv'
<1>1. OrderInv /\ TypeOK /\ Distinct
  BY DEF RegularInv, OrderInv
<1>2. UNCHANGED <<pend, may, rivals, writes, ended, acked>>
  BY DEF WriteAnswer, storeVars, history
<1>3. PICK task \in {"read", "idle"}, link \in {"open", "shut"} :
        /\ conn' = [conn EXCEPT ![c] = Told(conn[c], task, link)]
        /\ \/ conn[c].task = "reply" /\ task = "read" /\ link = "open"
           \/ conn[c].task = "farewell" /\ task = "idle" /\ link = "shut"
  BY DEF WriteAnswer
<1> DEFINE x == conn[c]
           y == Told(x, task, link)
           n == Len(x.answers) + 1
<1>4. /\ x \in ConnType /\ Orderly(x) /\ x.taken \in 0 .. Len(x.sent)
      /\ x.task # "idle" <=> x.link = "open"
      /\ Len(x.answers) \in Nat /\ Len(x.sent) \in Nat /\ Len(writes) \in Nat
      /\ x.answers \in Seq(AnswerType) /\ x.reply \in AnswerType
  BY <1>1, ConnFacts DEF Coherent, TypeOK, ConnType
<1>5. /\ y.task = task /\ y.link = link /\ y.taken = x.taken /\ y.sent = x.sent
      /\ y.answers = Append(x.answers, x.reply) /\ Len(y.answers) = n
  <2>1. task \in {"read", "idle"} /\ link \in {"open", "shut"} /\ x \in ConnType
    BY <1>3, <1>4
  <2> HIDE DEF x
  <2> QED BY <2>1, ToldFields
<1>6. x.link = "open" /\ x.peer # "gone"
  BY <1>3, <1>4 DEF WriteAnswer
<1>7. conn' = [conn EXCEPT ![c] = y]
  BY <1>3
<1> HIDE DEF x, y
<1>8. y.answers[n] = x.reply /\ \A i \in 1 .. Len(x.answers) : y.answers[i] = x.answers[i]
  BY <1>4, <1>5
<1>9. PICK out, fin, prec, now : PastType(out, fin, prec, now) /\ Past(out, fin, prec, now)
  BY DEF RegularInv
<1>10. StorePast(out, fin, prec, now) /\ ConnPast(out, fin, now)
  BY <1>9 DEF Past
<1>11. Regular(x, out, fin) /\ InLine(x, out)
  BY <1>10 DEF ConnPast, x
<1>12. \A m \in 1 .. n : KnownTo(y, m) = KnownTo(x, m)
  <2> SUFFICES ASSUME NEW m \in 1 .. n PROVE KnownTo(y, m) = KnownTo(x, m)
    OBVIOUS
  <2>1. \A j \in 1 .. m - 1 : y.answers[j] = x.answers[j]
    BY <1>4, <1>8
  <2> QED BY <2>1, <1>5, KnownSame
<1>13. \A m \in 1 .. n : \A a : AnswerOk(x, m, a, fin) => AnswerOk(y, m, a, fin)
  BY <1>5, <1>12 DEF AnswerOk
<1>14. ASSUME NEW m \in 1 .. Len(y.answers), m <= Len(y.sent)
       PROVE  (IsWrite(y.sent[m].req) => y.sent[m].id \in out) /\ AnswerOk(y, m, y.answers[m], fin)
  <2>1. CASE m \in 1 .. Len(x.answers)
    <3>1. (IsWrite(x.sent[m].req) => x.sent[m].id \in out) /\ AnswerOk(x, m, x.answers[m], fin)
      BY <2>1, <1>5, <1>11, <1>14 DEF Regular
    <3> QED BY <3>1, <2>1, <1>4, <1>5, <1>8, <1>13
  <2>2. CASE m \notin 1 .. Len(x.answers)
    <3>1. m = n
      BY <2>2, <1>4, <1>5
    <3>2. x.task = "reply" /\ n = x.taken
      BY <3>1, <1>3, <1>4, <1>5, <1>6, <1>14 DEF Orderly, Owed, x
    <3>3. AnswerOk(x, n, x.reply, fin)
      BY <3>2, <1>6, <1>11 DEF Regular
    <3>4. AnswerOk(y, n, x.reply, fin)
      BY <3>3, <1>4, <1>13
    <3>5. IsWrite(x.sent[n].req) => x.sent[n].id \in out
      BY <3>1, <3>2, <1>4, <1>5, <1>6, <1>11, <1>14 DEF InLine
    <3> QED BY <3>1, <3>4, <3>5, <1>5, <1>8
  <2> QED BY <2>1, <2>2
<1>15. Regular(y, out, fin)
  BY <1>3, <1>5, <1>11, <1>14 DEF Regular
<1>16. InLine(y, out)
  BY <1>3, <1>5, <1>6, <1>11 DEF InLine, x
<1>17. RunOk(y, now[c])
  BY <1>3, <1>5 DEF RunOk
<1>18. \A d \in Conn : d # c => Regular(conn[d], out, fin) /\ InLine(conn[d], out) /\ RunOk(conn[d], now[d])
  BY <1>10 DEF ConnPast
<1>19. ended' \subseteq out /\ acked' \subseteq fin
  BY <1>2, <1>10 DEF ConnPast
<1>20. ConnPast(out, fin, now)'
  BY <1>1, <1>2, <1>7, <1>15, <1>16, <1>17, <1>18, <1>19, OneRegular
<1>21. StorePast(out, fin, prec, now)'
  BY <1>1, <1>2, <1>4, <1>9, <1>10, QuietPast
<1>22. Distinct'
  BY <1>1, <1>5, <1>7, OneDistinct DEF x
<1> QED
  BY <1>9, <1>20, <1>21, <1>22, PastRegular

\* A client connects.
LEMMA AcceptRegular ==
  ASSUME RegularInv, OrderInv', VisibleIsDurable', NEW c \in Conn, Accept(c)
  PROVE  RegularInv'
<1>1. OrderInv /\ TypeOK /\ Distinct
  BY DEF RegularInv, OrderInv
<1>2. UNCHANGED <<pend, may, rivals, writes, ended, acked>> /\ Len(writes) \in Nat
  BY <1>1 DEF Accept, storeVars, history, TypeOK
<1> DEFINE y == [conn[c] EXCEPT !.link = "open", !.task = "read"]
<1>3. conn' = [conn EXCEPT ![c] = y] /\ conn[c] = NoConn
  BY <1>1, ConnFacts DEF Accept, Orderly, TypeOK
<1>4. y.answers = <<>> /\ y.sent = <<>> /\ y.task = "read"
  BY <1>3 DEF NoConn
<1> HIDE DEF y
<1>5. PICK out, fin, prec, now : PastType(out, fin, prec, now) /\ Past(out, fin, prec, now)
  BY DEF RegularInv
<1>6. StorePast(out, fin, prec, now) /\ ConnPast(out, fin, now)
  BY <1>5 DEF Past
<1>7. Regular(y, out, fin) /\ InLine(y, out) /\ RunOk(y, now[c])
  BY <1>4 DEF Regular, InLine, RunOk
<1>8. \A d \in Conn : d # c => Regular(conn[d], out, fin) /\ InLine(conn[d], out) /\ RunOk(conn[d], now[d])
  BY <1>6 DEF ConnPast
<1>9. ended' \subseteq out /\ acked' \subseteq fin
  BY <1>2, <1>6 DEF ConnPast
<1>10. ConnPast(out, fin, now)'
  BY <1>1, <1>2, <1>3, <1>7, <1>8, <1>9, OneRegular
<1>11. StorePast(out, fin, prec, now)'
  BY <1>1, <1>2, <1>5, <1>6, QuietPast
<1>12. Distinct'
  BY <1>1, <1>3, <1>4, OneDistinct
<1> QED
  BY <1>5, <1>10, <1>11, <1>12, PastRegular

\* A task takes a write and begins the call.
LEMMA BeginRegular ==
  ASSUME RegularInv, OrderInv', VisibleIsDurable', NEW c \in Conn, HandleWrite(c)
  PROVE  RegularInv'
<1> DEFINE n == conn[c].taken + 1
           r == conn[c].sent[n].req
           y == [conn[c] EXCEPT !.taken = n, !.task = "run"]
<1>1. OrderInv /\ TypeOK /\ Distinct
  BY DEF RegularInv, OrderInv
<1>2. /\ Take(c, {"Set", "Del"}) /\ Begin(c, r.key, r.val) /\ conn' = [conn EXCEPT ![c] = y]
      /\ UNCHANGED <<writes, ended, acked>>
  BY <1>1 DEF HandleWrite, TypeOK, history
<1>3. /\ n \in 1 .. Len(conn[c].sent) /\ conn[c].link = "open" /\ conn[c].task = "read"
      /\ conn[c].taken \in Nat /\ r.cmd \in {"Set", "Del"} /\ pend[c] = NoWrite
  BY <1>1, <1>2, TakeOk
<1>4. IsWrite(r)
  BY <1>3 DEF IsWrite
<1>5. conn[c] \in ConnType /\ Len(conn[c].sent) \in Nat
  BY <1>1, ConnFacts
<1>6. /\ y.sent = conn[c].sent /\ y.answers = conn[c].answers /\ y.taken = n /\ y.task = "run" /\ y.link = "open"
  BY <1>3, <1>5 DEF ConnType
<1> HIDE DEF y, n
<1>7. PICK out, fin, prec, now : PastType(out, fin, prec, now) /\ Past(out, fin, prec, now)
  BY DEF RegularInv
<1>8. StorePast(out, fin, prec, now) /\ ConnPast(out, fin, now)
  BY <1>7 DEF Past
<1>9. Regular(conn[c], out, fin) /\ InLine(conn[c], out)
  BY <1>8 DEF ConnPast
<1>10. ASSUME NEW l, l = conn[c].sent[n].id PROVE RegularInv'
  <2>1. l \in 1 .. Len(writes) /\ writes[l].key = r.key /\ writes[l].val = r.val
    BY <1>3, <1>4, <1>9, <1>10 DEF Regular, FrameOk, Wrote
  <2>2. l \notin out /\ writes[l].before \subseteq out
    <3>1. n = conn[c].taken + 1 /\ ~ (n < conn[c].taken) /\ n # conn[c].taken
      BY <1>3 DEF n
    <3>2. l \notin out /\ writes[l].before \subseteq out \cup ({conn[c].sent[i].id : i \in 1 .. n - 1} \ {0})
      BY <3>1, <1>3, <1>4, <1>9, <1>10 DEF InLine
    <3>3. ASSUME NEW i \in 1 .. n - 1, conn[c].sent[i].id # 0 PROVE conn[c].sent[i].id \in out
      <4>1. i \in 1 .. Len(conn[c].sent) /\ (i < conn[c].taken \/ i = conn[c].taken)
        BY <3>1, <1>3, <1>5
      <4>2. IsWrite(conn[c].sent[i].req)
        BY <4>1, <3>3, <1>9 DEF Regular, FrameOk
      <4> QED BY <4>1, <4>2, <1>3, <1>9 DEF InLine
    <3> QED BY <3>2, <3>3
  <2>3. ASSUME NEW d \in Conn, d # c, pend[d] # NoWrite PROVE now[d] # l
    <3>1. conn[d].task = "run"
      BY <2>3, <1>1, ConnFacts DEF Coherent
    <3>2. /\ conn[d].taken \in 1 .. Len(conn[d].sent) /\ IsWrite(conn[d].sent[conn[d].taken].req)
          /\ now[d] = conn[d].sent[conn[d].taken].id
      BY <3>1, <1>8 DEF ConnPast, RunOk
    <3> QED BY <3>2, <2>3, <1>1, <1>3, <1>4, <1>10 DEF Distinct
  <2> DEFINE p == [prec EXCEPT ![l] = out]
             q == [now EXCEPT ![c] = l]
  <2>4. StorePast(out, fin, p, q)'
    <3>1. ASSUME NEW k, k = r.key, NEW v, v = r.val PROVE StorePast(out, fin, p, q)'
      <4>1. Begin(c, k, v) /\ writes[l].key = k /\ writes[l].val = v /\ writes' = writes
        BY <3>1, <2>1, <1>2
      <4> QED BY <4>1, <2>1, <2>2, <2>3, <1>1, <1>7, <1>8, BeginPast
    <3> QED BY <3>1
  <2>5. PastType(out, fin, p, q)
    BY <2>1, <1>7 DEF PastType
  <2>6. q[c] = l /\ \A d \in Conn : d # c => q[d] = now[d]
    BY <1>7 DEF PastType
  <2> HIDE DEF p, q
  <2>7. Regular(y, out, fin)
    <3>1. \A m, b : AnswerOk(conn[c], m, b, fin) => AnswerOk(y, m, b, fin)
      BY <1>6 DEF AnswerOk, KnownTo
    <3> QED BY <3>1, <1>6, <1>9 DEF Regular
  <2>8. InLine(y, out)
    BY <1>3, <1>6, <1>9 DEF InLine, n
  <2>9. RunOk(y, q[c])
    BY <2>6, <1>3, <1>4, <1>6, <1>10 DEF RunOk
  <2>10. \A d \in Conn : d # c => Regular(conn[d], out, fin) /\ InLine(conn[d], out) /\ RunOk(conn[d], q[d])
    BY <2>6, <1>8 DEF ConnPast
  <2>11. ended' \subseteq out /\ acked' \subseteq fin /\ writes' = writes
    BY <1>2, <1>8 DEF ConnPast
  <2>12. ConnPast(out, fin, q)'
    BY <2>7, <2>8, <2>9, <2>10, <2>11, <1>1, <1>2, OneRegular
  <2>13. Distinct'
    BY <1>1, <1>2, <1>6, OneDistinct
  <2> QED BY <2>4, <2>5, <2>12, <2>13, PastRegular
<1> QED
  BY <1>10

\* A call returns, with Ok or not: its write is out.
LEMMA ReturnRegular ==
  ASSUME RegularInv, OrderInv', VisibleIsDurable', NEW c \in Conn, FinishWrite(c) \/ FailWrite(c)
  PROVE  RegularInv'
<1> DEFINE n == conn[c].taken
<1>1. OrderInv /\ TypeOK /\ Distinct
  BY DEF RegularInv, OrderInv
<1>2. UNCHANGED <<writes, ended, acked>>
  BY DEF FinishWrite, FailWrite, history
<1>3. pend[c] # NoWrite
  BY DEF FinishWrite, FailWrite, Finish, Fail, End
<1>4. conn[c] \in ConnType /\ conn[c].task = "run" /\ conn[c].link = "open" /\ Len(conn[c].sent) \in Nat
  BY <1>1, <1>3, ConnFacts DEF Coherent
<1>5. PICK out, fin, prec, now : PastType(out, fin, prec, now) /\ Past(out, fin, prec, now)
  BY DEF RegularInv
<1>6. StorePast(out, fin, prec, now) /\ ConnPast(out, fin, now)
  BY <1>5 DEF Past
<1>7. /\ Regular(conn[c], out, fin) /\ InLine(conn[c], out)
      /\ n \in 1 .. Len(conn[c].sent) /\ IsWrite(conn[c].sent[n].req) /\ now[c] = conn[c].sent[n].id
  BY <1>4, <1>6 DEF ConnPast, RunOk
<1> DEFINE out2 == out \cup {now[c]}
<1>8. PICK a \in AnswerType, fin2 \in {fin, fin \cup {now[c]}} :
        /\ Replying(c, n, a) /\ StorePast(out2, fin2, prec, now)'
        /\ a.status = "Ok" => fin2 = fin \cup {now[c]}
  <2>1. CASE FinishWrite(c)
    <3> DEFINE a == Answer("Ok", None)
    <3>1. a \in AnswerType
      BY DEF Answer, AnswerType
    <3>2. Finish(c) /\ Replying(c, n, a)
      BY <2>1 DEF FinishWrite
    <3>3. StorePast(out2, fin \cup {now[c]}, prec, now)'
      BY <3>2, <1>1, <1>2, <1>5, <1>6, FinishPast
    <3> HIDE DEF a
    <3> QED BY <3>1, <3>2, <3>3
  <2>2. CASE FailWrite(c)
    <3> DEFINE a == Answer("ServerError", None)
    <3>1. a \in AnswerType /\ a.status # "Ok"
      BY DEF Answer, AnswerType
    <3>2. Fail(c) /\ Replying(c, n, a)
      BY <2>2 DEF FailWrite
    <3>3. StorePast(out2, fin, prec, now)'
      BY <3>2, <1>1, <1>2, <1>5, <1>6, FailPast
    <3> HIDE DEF a
    <3> QED BY <3>1, <3>2, <3>3
  <2> QED BY <2>1, <2>2
<1> DEFINE y == [conn[c] EXCEPT !.taken = n, !.task = "reply", !.reply = a]
<1>9. conn' = [conn EXCEPT ![c] = y]
  BY <1>1, <1>8 DEF Replying, TypeOK
<1>10. /\ y.sent = conn[c].sent /\ y.answers = conn[c].answers /\ y.taken = n /\ y.task = "reply"
       /\ y.link = "open" /\ y.reply = a
  BY <1>4 DEF ConnType
<1> HIDE DEF y
<1>11. out \subseteq out2 /\ fin \subseteq fin2
  BY <1>8
<1>12. PastType(out2, fin2, prec, now)
  BY <1>5, <1>8 DEF PastType
<1>13. \A x : Regular(x, out, fin) => Regular(x, out2, fin2)
  BY <1>11, RegularMore
<1>14. AnswerOk(y, n, a, fin2)
  <2>1. a.status = "Ok" => y.sent[n].id \in fin2
    BY <1>7, <1>8, <1>10
  <2>2. ReadOk(y.sent[n].req, a, KnownTo(y, n))
    BY <1>7, <1>10 DEF ReadOk, IsWrite
  <2> QED BY <2>1, <2>2 DEF AnswerOk
<1>15. Regular(y, out2, fin2)
  <2>1. Regular(conn[c], out2, fin2)
    BY <1>7, <1>13
  <2>2. \A m, b : AnswerOk(conn[c], m, b, fin2) => AnswerOk(y, m, b, fin2)
    BY <1>10 DEF AnswerOk, KnownTo
  <2> QED BY <2>1, <2>2, <1>10, <1>14 DEF Regular
<1>16. ASSUME NEW d \in Conn, NEW m \in 1 .. Len(conn[d].sent), d # c \/ m # n,
              IsWrite(conn[d].sent[m].req)
       PROVE  conn[d].sent[m].id # now[c]
  BY <1>1, <1>7, <1>16 DEF Distinct
<1>17. InLine(y, out2)
  <2>1. \A m \in 1 .. Len(y.sent) : IsWrite(y.sent[m].req) /\ m # n /\ y.sent[m].id \in out2 => y.sent[m].id \in out
    BY <1>10, <1>16
  <2>2. y.sent[n].id \in out2
    BY <1>7, <1>10
  <2> HIDE DEF out2
  <2> DEFINE Queued(m) == y.sent[m].id \notin out
                        /\ writes[y.sent[m].id].before \subseteq out \cup ({y.sent[i].id : i \in 1 .. m - 1} \ {0})
  <2>3. \A m \in 1 .. Len(y.sent) : IsWrite(y.sent[m].req) =>
          IF m < n THEN y.sent[m].id \in out ELSE Queued(m)
    BY <1>4, <1>7, <1>10 DEF InLine
  <2>4. ASSUME NEW m \in 1 .. Len(y.sent), IsWrite(y.sent[m].req), ~ (m < n), m # n
        PROVE  /\ y.sent[m].id \notin out2
               /\ writes[y.sent[m].id].before \subseteq out2 \cup ({y.sent[i].id : i \in 1 .. m - 1} \ {0})
    <3>1. Queued(m)
      BY <2>3, <2>4
    <3>2. y.sent[m].id \notin out2
      BY <2>1, <2>4, <3>1
    <3> QED BY <1>11, <3>1, <3>2
  <2>5. \A m \in 1 .. Len(y.sent) : IsWrite(y.sent[m].req) /\ (m < n \/ m = n) => y.sent[m].id \in out2
    BY <2>2, <2>3, <1>11
  <2> QED BY <2>4, <2>5, <1>10 DEF InLine
<1>18. RunOk(y, now[c])
  BY <1>10 DEF RunOk
<1>19. ASSUME NEW d \in Conn, d # c
       PROVE  Regular(conn[d], out2, fin2) /\ InLine(conn[d], out2) /\ RunOk(conn[d], now[d])
  <2>1. Regular(conn[d], out, fin) /\ InLine(conn[d], out) /\ RunOk(conn[d], now[d])
    BY <1>6 DEF ConnPast
  <2>2. \A m \in 1 .. Len(conn[d].sent) :
          IsWrite(conn[d].sent[m].req) /\ conn[d].sent[m].id \in out2 => conn[d].sent[m].id \in out
    BY <1>16, <1>19
  <2> HIDE DEF out2
  <2>3. InLine(conn[d], out2)
    BY <2>1, <2>2, <1>11, InLineMore
  <2> QED BY <2>1, <2>3, <1>13
<1>20. ended' \subseteq out2 /\ acked' \subseteq fin2 /\ writes' = writes
  BY <1>2, <1>6, <1>11 DEF ConnPast
<1> HIDE DEF out2
<1>21. ConnPast(out2, fin2, now)'
  <2>1. ASSUME NEW o, o = out2 PROVE ConnPast(o, fin2, now)'
    BY <2>1, <1>1, <1>9, <1>15, <1>17, <1>18, <1>19, <1>20, OneRegular
  <2> QED BY <2>1 DEF out2
<1>22. Distinct'
  BY <1>1, <1>9, <1>10, OneDistinct
<1> QED
  BY <1>8, <1>12, <1>21, <1>22, PastRegular DEF out2

\* The process stops: every connection is cut off, and so is every write.
LEMMA StopRegular ==
  ASSUME RegularInv, OrderInv', VisibleIsDurable', Stop
  PROVE  RegularInv'
<1>1. OrderInv /\ TypeOK /\ Distinct
  BY DEF RegularInv, OrderInv
<1>2. Crash /\ UNCHANGED <<writes, acked>> /\ ended' = 1 .. Len(writes) /\ Len(writes) \in Nat
  BY <1>1 DEF Stop, TypeOK
<1>3. PICK out, fin, prec, now : PastType(out, fin, prec, now) /\ Past(out, fin, prec, now)
  BY DEF RegularInv
<1>4. StorePast(out, fin, prec, now) /\ ConnPast(out, fin, now)
  BY <1>3 DEF Past
<1>5. ASSUME NEW o, o = 1 .. Len(writes) PROVE RegularInv'
  <2>1. StorePast(o, fin, prec, now)'
    <3>1. StorePast(1 .. Len(writes), fin, prec, now)'
      BY <1>1, <1>2, <1>3, <1>4, CrashPast
    <3>2. 1 .. Len(writes') = o
      BY <1>2, <1>5
    <3> QED BY <3>1, <3>2
  <2>2. out \subseteq o /\ PastType(o, fin, prec, now)
    BY <1>2, <1>3, <1>4, <1>5 DEF StorePast, PastType
  <2>3. ASSUME NEW c \in Conn
        PROVE  /\ conn'[c] = NoConn \/ (conn'[c] \in ConnType /\ Calmer(conn[c], conn'[c]) /\ conn'[c].link # "open")
    <3>1. IF IsOpen(c) THEN conn'[c] \in Shut(c, TRUE) ELSE conn'[c] = conn[c]
      BY DEF Stop
    <3>2. conn[c] \in ConnType /\ Len(conn[c].answers) \in Nat
      BY <1>1, ConnFacts
    <3>3. CASE IsOpen(c)
      BY <3>1, <3>3, <1>1, ShutCalmer
    <3>4. CASE ~ IsOpen(c)
      <4>1. Calmer(conn[c], conn[c])
        BY <3>2 DEF Calmer
      <4> QED BY <4>1, <3>1, <3>2, <3>4 DEF IsOpen
    <3> QED BY <3>3, <3>4
  <2>4. ASSUME NEW c \in Conn
        PROVE  /\ Regular(conn'[c], o, fin) /\ InLine(conn'[c], o) /\ RunOk(conn'[c], now[c])
               /\ conn'[c].sent = conn[c].sent \/ conn'[c].sent = <<>>
    <3>1. conn[c] \in ConnType
      BY <1>1, ConnFacts
    <3>2. Regular(conn[c], out, fin) /\ InLine(conn[c], out) /\ RunOk(conn[c], now[c])
      BY <1>4 DEF ConnPast
    <3>3. CASE conn'[c] = NoConn
      BY <3>3, NoConnRegular DEF NoConn
    <3>4. CASE conn'[c] \in ConnType /\ Calmer(conn[c], conn'[c]) /\ conn'[c].link # "open"
      <4>1. Regular(conn'[c], out, fin) /\ RunOk(conn'[c], now[c])
        BY <3>1, <3>2, <3>4, CalmerRegular
      <4>2. fin \subseteq fin
        OBVIOUS
      <4>3. Regular(conn'[c], o, fin)
        BY <4>1, <4>2, <2>2, RegularMore
      <4>4. InLine(conn'[c], o) /\ conn'[c].sent = conn[c].sent
        BY <3>4 DEF InLine, Calmer
      <4> QED BY <4>1, <4>3, <4>4
    <3> QED BY <3>3, <3>4, <2>3
  <2>5. \A x : Regular(x, o, fin)' = Regular(x, o, fin) /\ InLine(x, o)' = InLine(x, o)
    BY <1>2, RegularSame
  <2>6. \A c \in Conn : Regular(conn[c], o, fin)' /\ InLine(conn[c], o)' /\ RunOk(conn[c], now[c])'
    BY <2>4, <2>5
  <2>7. ended' \subseteq o /\ acked' \subseteq fin
    BY <1>2, <1>4, <1>5 DEF ConnPast
  <2>8. ConnPast(o, fin, now)'
    BY <2>6, <2>7 DEF ConnPast
  <2>9. Distinct'
    BY <2>4, <1>1, DistinctStays
  <2> QED BY <2>1, <2>2, <2>8, <2>9, PastRegular
<1> QED
  BY <1>5

\* The server starts again, or nothing happens.
LEMMA StartRegular ==
  ASSUME RegularInv, OrderInv', VisibleIsDurable', Start \/ UNCHANGED vars
  PROVE  RegularInv'
<1>1. UNCHANGED <<pend, may, rivals, conn, writes, ended, acked>>
  BY DEF Start, Restart, vars, storeVars, history
<1>2. TypeOK /\ Distinct /\ Len(writes) \in Nat
  BY DEF RegularInv, OrderInv, TypeOK
<1>3. PICK out, fin, prec, now : PastType(out, fin, prec, now) /\ Past(out, fin, prec, now)
  BY DEF RegularInv
<1>4. StorePast(out, fin, prec, now)'
  BY <1>1, <1>2, <1>3, QuietPast DEF Past
<1>5. \A x : Regular(x, out, fin)' = Regular(x, out, fin) /\ InLine(x, out)' = InLine(x, out)
  BY <1>1, RegularSame
<1>6. ConnPast(out, fin, now)'
  BY <1>1, <1>3, <1>5 DEF Past, ConnPast
<1>7. Distinct'
  BY <1>1, <1>2, DistinctStays
<1> QED
  BY <1>3, <1>4, <1>6, <1>7, PastRegular

\* Writes that are sent change nothing for a connection.
LEMMA RegularGrows ==
  ASSUME Len(writes) \in Nat, Len(writes') \in Nat, Len(writes) <= Len(writes'),
         \A i \in 1 .. Len(writes) : writes'[i] = writes[i],
         NEW out, NEW fin, fin \subseteq 1 .. Len(writes),
         NEW x \in ConnType, Orderly(x), x.taken <= Len(x.sent), x.task # "idle" <=> x.link = "open",
         Regular(x, out, fin), InLine(x, out)
  PROVE  Regular(x, out, fin)' /\ InLine(x, out)'
<1>1. 1 .. Len(writes) \subseteq 1 .. Len(writes') /\ Len(x.sent) \in Nat /\ Len(x.answers) \in Nat /\ x.taken \in Nat
  BY DEF ConnType
<1>2. \A f : FrameOk(f, fin) => FrameOk(f, fin)'
  BY <1>1 DEF FrameOk, Wrote
<1>3. ASSUME NEW k, NEW v, NEW known, known \subseteq fin, Explains(k, v, known)
      PROVE  Explains(k, v, known)'
  <2>1. \A w \in known : writes'[w] = writes[w]
    BY <1>3
  <2> QED BY <2>1, <1>1, <1>3 DEF Explains
<1>4. ASSUME NEW r, NEW a, NEW known, known \subseteq fin, ReadOk(r, a, known) PROVE ReadOk(r, a, known)'
  <2>1. CASE r.cmd = "Get"
    BY <2>1, <1>3, <1>4 DEF ReadOk
  <2>2. CASE r.cmd = "Keys"
    BY <2>2, <1>3, <1>4 DEF ReadOk
  <2>3. CASE r.cmd \notin {"Get", "Keys"}
    BY <2>3 DEF ReadOk
  <2> QED BY <2>1, <2>2, <2>3
<1>5. ASSUME NEW n \in 1 .. Len(x.sent), n <= Len(x.answers) + 1, NEW a, AnswerOk(x, n, a, fin)
      PROVE  AnswerOk(x, n, a, fin)'
  <2>1. KnownTo(x, n) \subseteq fin
    BY <1>5, KnownFin
  <2> QED BY <2>1, <1>4, <1>5 DEF AnswerOk
<1>6. ASSUME NEW n \in 1 .. Len(x.answers), n <= Len(x.sent)
      PROVE  (IsWrite(x.sent[n].req) => x.sent[n].id \in out) /\ AnswerOk(x, n, x.answers[n], fin)'
  <2>1. n \in 1 .. Len(x.sent) /\ n <= Len(x.answers) + 1
    BY <1>1, <1>6
  <2>2. (IsWrite(x.sent[n].req) => x.sent[n].id \in out) /\ AnswerOk(x, n, x.answers[n], fin)
    BY <1>6 DEF Regular
  <2> QED BY <2>1, <2>2, <1>5
<1>7. ASSUME x.task = "reply", x.peer # "gone" PROVE AnswerOk(x, x.taken, x.reply, fin)'
  <2>1. x.taken = Len(x.answers) + 1
    BY <1>7 DEF Orderly, Owed
  <2>2. x.taken \in 1 .. Len(x.sent) /\ x.taken <= Len(x.answers) + 1
    BY <2>1, <1>1
  <2>3. AnswerOk(x, x.taken, x.reply, fin)
    BY <1>7 DEF Regular
  <2> QED BY <2>2, <2>3, <1>5
<1>8. \A n \in 1 .. Len(x.sent) : FrameOk(x.sent[n], fin)'
  BY <1>2 DEF Regular
<1>9. Regular(x, out, fin)'
  BY <1>6, <1>7, <1>8 DEF Regular
<1>10. \A n \in 1 .. Len(x.sent) : IsWrite(x.sent[n].req) => writes'[x.sent[n].id] = writes[x.sent[n].id]
  BY DEF Regular, FrameOk, Wrote
<1>11. InLine(x, out)'
  BY <1>10 DEF InLine
<1> QED
  BY <1>9, <1>11

\* One more frame at the end of a connection.
LEMMA SentRegular ==
  ASSUME NEW out, NEW fin, NEW x \in ConnType, NEW y \in ConnType, NEW f,
         y.sent = Append(x.sent, f), y.answers = x.answers, y.taken = x.taken, y.task = x.task,
         y.link = x.link, y.peer = x.peer, y.reply = x.reply,
         x.taken <= Len(x.sent), Len(x.answers) <= Len(x.sent), x.task = "reply" => x.taken > 0,
         Regular(x, out, fin)', InLine(x, out)', FrameOk(f, fin)',
         IsWrite(f.req) => /\ f.id \notin out
                           /\ writes'[f.id].before
                                \subseteq out \cup ({x.sent[i].id : i \in 1 .. Len(x.sent)} \ {0})
  PROVE  Regular(y, out, fin)' /\ InLine(y, out)'
<1> DEFINE s == Len(x.sent)
<1>1. /\ s \in Nat /\ Len(x.answers) \in Nat /\ x.taken \in Nat /\ x.sent \in Seq(FrameType)
  BY DEF ConnType
<1>2. Len(y.sent) = s + 1 /\ y.sent[s + 1] = f /\ \A i \in 1 .. s : y.sent[i] = x.sent[i]
  BY <1>1
<1> HIDE DEF s
<1>3. ASSUME NEW n \in 1 .. s PROVE KnownTo(y, n) = KnownTo(x, n)
  <2>1. \A j \in 1 .. n - 1 : j \in 1 .. s
    BY <1>1
  <2>2. y.sent[n] = x.sent[n]
    BY <1>2, Zenon
  <2>3. \A j \in 1 .. n - 1 : y.sent[j] = x.sent[j]
    BY <2>1, <1>2, Zenon
  <2>4. \A j \in 1 .. n - 1 : y.answers[j] = x.answers[j]
    OBVIOUS
  <2> QED BY <2>2, <2>3, <2>4, KnownSame, Zenon
<1>4. \A n \in 1 .. s : \A a : AnswerOk(x, n, a, fin)' => AnswerOk(y, n, a, fin)'
  BY <1>2, <1>3 DEF AnswerOk
<1>5. ASSUME NEW n \in 1 .. Len(y.answers), n <= Len(y.sent)
      PROVE  (IsWrite(y.sent[n].req) => y.sent[n].id \in out) /\ AnswerOk(y, n, y.answers[n], fin)'
  <2>1. n \in 1 .. s /\ n \in 1 .. Len(x.answers) /\ n <= Len(x.sent)
    BY <1>1, <1>5 DEF s
  <2>2. (IsWrite(x.sent[n].req) => x.sent[n].id \in out) /\ AnswerOk(x, n, x.answers[n], fin)'
    BY <2>1 DEF Regular
  <2> QED BY <2>1, <2>2, <1>2, <1>4
<1>6. ASSUME y.task = "reply", y.peer # "gone" PROVE AnswerOk(y, y.taken, y.reply, fin)'
  <2>1. y.taken \in 1 .. s
    BY <1>1, <1>6 DEF s
  <2>2. AnswerOk(x, x.taken, x.reply, fin)'
    BY <1>6 DEF Regular
  <2> QED BY <2>1, <2>2, <1>4
<1>7. ASSUME NEW n \in 1 .. Len(y.sent) PROVE FrameOk(y.sent[n], fin)'
  <2>1. CASE n = s + 1
    BY <2>1, <1>2
  <2>2. CASE n \in 1 .. s
    BY <2>2, <1>2 DEF Regular, s
  <2> QED BY <2>1, <2>2, <1>1, <1>2
<1>8. Regular(y, out, fin)'
  BY <1>5, <1>6, <1>7 DEF Regular
<1>9. ASSUME NEW n \in 1 .. s + 1
      PROVE  {y.sent[i].id : i \in 1 .. n - 1} = {x.sent[i].id : i \in 1 .. n - 1}
  <2>1. \A i \in 1 .. n - 1 : y.sent[i] = x.sent[i]
    BY <1>1, <1>2
  <2> QED BY <2>1
<1>10. ASSUME y.link = "open", NEW n \in 1 .. Len(y.sent), IsWrite(y.sent[n].req)
       PROVE  IF n < y.taken \/ (n = y.taken /\ y.task # "run") THEN y.sent[n].id \in out
              ELSE /\ y.sent[n].id \notin out
                   /\ writes'[y.sent[n].id].before \subseteq out \cup ({y.sent[i].id : i \in 1 .. n - 1} \ {0})
  <2>1. CASE n = s + 1
    <3>1. n > y.taken /\ n - 1 = s
      BY <2>1, <1>1 DEF s
    <3>2. {y.sent[i].id : i \in 1 .. n - 1} = {x.sent[i].id : i \in 1 .. s}
      BY <2>1, <3>1, <1>1, <1>9
    <3>3. /\ y.sent[n].id \notin out
          /\ writes'[y.sent[n].id].before \subseteq out \cup ({x.sent[i].id : i \in 1 .. s} \ {0})
      BY <2>1, <1>2, <1>10 DEF s
    <3>4. ~ (n < y.taken) /\ n # y.taken
      BY <3>1, <2>1, <1>1
    <3> QED BY <3>2, <3>3, <3>4
  <2>2. CASE n \in 1 .. s
    <3>1. y.sent[n] = x.sent[n] /\ {y.sent[i].id : i \in 1 .. n - 1} = {x.sent[i].id : i \in 1 .. n - 1}
      BY <2>2, <1>1, <1>2, <1>9
    <3>2. IF n < x.taken \/ (n = x.taken /\ x.task # "run") THEN x.sent[n].id \in out
          ELSE /\ x.sent[n].id \notin out
               /\ writes'[x.sent[n].id].before \subseteq out \cup ({x.sent[i].id : i \in 1 .. n - 1} \ {0})
      BY <3>1, <2>2, <1>10 DEF InLine, s
    <3> QED BY <3>1, <3>2
  <2> QED BY <2>1, <2>2, <1>1, <1>2
<1> QED
  BY <1>8, <1>10 DEF InLine

\* A client sends a frame: a write comes after those that had ended and after
\* the earlier ones of its connection, and is not begun yet.
LEMMA SendRegular ==
  ASSUME RegularInv, OrderInv', VisibleIsDurable', NEW c \in Conn, NEW r \in Requests, Send(c, r)
  PROVE  RegularInv'
<1> DEFINE id == IF IsWrite(r) THEN Len(writes) + 1 ELSE 0
           mine == {conn[c].sent[i].id : i \in 1 .. Len(conn[c].sent)} \ {0}
           f == [req |-> r, id |-> id, after |-> acked]
           w == [key |-> r.key, val |-> r.val, before |-> ended \cup mine]
           y == [conn[c] EXCEPT !.sent = Append(@, f)]
           W == [key : Key, val : Value \cup {None}, before : SUBSET Nat]
<1>1. OrderInv /\ TypeOK /\ Distinct
  BY DEF RegularInv, OrderInv
<1>2. Len(writes) \in Nat /\ writes \in Seq(W) /\ Len(writes') \in Nat /\ acked \subseteq Nat
  BY <1>1 DEF TypeOK, OrderInv
<1>3. /\ conn[c].link = "open" /\ conn[c].peer = "here" /\ conn' = [conn EXCEPT ![c] = y]
      /\ writes' = IF IsWrite(r) THEN Append(writes, w) ELSE writes
      /\ UNCHANGED <<pend, may, rivals, ended, acked>>
  <2>1. /\ IsOpen(c) /\ conn[c].peer = "here" /\ conn' = [conn EXCEPT ![c] = y]
        /\ writes' = (IF id = 0 THEN writes ELSE Append(writes, w))
        /\ UNCHANGED <<storeVars, ended, acked>>
    BY <1>1 DEF Send, TypeOK
  <2>2. id = 0 <=> ~ IsWrite(r)
    BY <1>2
  <2> HIDE DEF id, w, y
  <2> QED BY <2>1, <2>2 DEF IsOpen, storeVars
<1>4. f \in FrameType /\ f.req = r /\ f.id = id /\ f.after = acked
  <2>1. id \in Nat
    BY <1>2
  <2> HIDE DEF id
  <2> QED BY <1>2, <2>1 DEF FrameType
<1>5. w.key = r.key /\ w.val = r.val /\ w.before = ended \cup mine
  OBVIOUS
<1> HIDE DEF f, w
<1>6. /\ conn[c] \in ConnType /\ Orderly(conn[c]) /\ conn[c].sent \in Seq(FrameType)
      /\ conn[c].taken \in 0 .. Len(conn[c].sent)
      /\ Len(conn[c].sent) \in Nat /\ Len(conn[c].answers) \in Nat
  BY <1>1, ConnFacts
<1>7. /\ y \in ConnType /\ y.sent = Append(conn[c].sent, f) /\ y.taken = conn[c].taken
      /\ y.answers = conn[c].answers /\ y.task = conn[c].task /\ y.link = conn[c].link
      /\ y.reply = conn[c].reply /\ y.peer = conn[c].peer
  <2>1. 0 \in Nat
    OBVIOUS
  <2> QED BY <1>4, <1>6, <2>1, ClientFields, Zenon
<1> HIDE DEF y
<1>8. /\ Len(writes) <= Len(writes') /\ \A i \in 1 .. Len(writes) : writes'[i] = writes[i]
      /\ IsWrite(r) => Len(writes') = Len(writes) + 1 /\ writes'[Len(writes) + 1] = w
  BY <1>2, <1>3
<1>9. PICK out, fin, prec, now : PastType(out, fin, prec, now) /\ Past(out, fin, prec, now)
  BY DEF RegularInv
<1>10. StorePast(out, fin, prec, now) /\ ConnPast(out, fin, now)
  BY <1>9 DEF Past
<1>11. /\ out \subseteq 1 .. Len(writes) /\ fin \subseteq 1 .. Len(writes)
       /\ ended \subseteq out /\ acked \subseteq fin
  BY <1>10 DEF StorePast, ConnPast
<1>12. StorePast(out, fin, prec, now)'
  BY <1>1, <1>2, <1>3, <1>8, <1>9, <1>10, QuietPast
<1>13. ASSUME NEW d \in Conn, NEW x, x = conn[d]
       PROVE  Regular(x, out, fin)' /\ InLine(x, out)' /\ RunOk(x, now[d])
  <2>1. Regular(x, out, fin) /\ InLine(x, out) /\ RunOk(x, now[d])
    BY <1>10, <1>13 DEF ConnPast
  <2>2. x \in ConnType /\ Orderly(x) /\ x.taken <= Len(x.sent) /\ (x.task # "idle" <=> x.link = "open")
    BY <1>1, <1>13, ConnFacts DEF Coherent
  <2> QED BY <2>1, <2>2, <1>2, <1>8, <1>11, RegularGrows
<1>14. ASSUME NEW g, g = f PROVE FrameOk(g, fin)'
  <2>1. IsWrite(r) => g.id = Len(writes) + 1
    BY <1>4, <1>14
  <2>2. IsWrite(r) => Wrote(g.id, r.key, r.val)'
    BY <2>1, <1>2, <1>5, <1>8 DEF Wrote
  <2>3. g.req = r /\ g.after \subseteq fin /\ (~ IsWrite(r) => g.id = 0)
    BY <1>4, <1>11, <1>14
  <2> QED BY <2>2, <2>3 DEF FrameOk
<1>15. IsWrite(f.req) => /\ f.id \notin out
                         /\ writes'[f.id].before \subseteq out \cup mine
  <2>1. IsWrite(r) => id = Len(writes) + 1 /\ id \notin out
    BY <1>2, <1>11
  <2> HIDE DEF id, mine
  <2> QED BY <2>1, <1>4, <1>5, <1>8, <1>11
<1>16. ASSUME NEW z, z = y PROVE Regular(z, out, fin)' /\ InLine(z, out)' /\ RunOk(z, now[c])
  <2>1. ASSUME NEW x, x = conn[c], NEW g, g = f PROVE Regular(z, out, fin)' /\ InLine(z, out)'
    <3>1. Len(x.answers) <= Len(x.sent)
      <4>1. Len(x.answers) \in 1 .. Len(x.answers) => Len(x.answers) <= Len(x.sent)
        BY <2>1, <1>3, <1>6 DEF Orderly, InOrder
      <4> QED BY <4>1, <2>1, <1>6
    <3>2. x.task = "reply" => x.taken > 0
      BY <2>1, <1>3, <1>6 DEF Orderly, Owed
    <3>3. IsWrite(g.req) => /\ g.id \notin out
                            /\ writes'[g.id].before
                                 \subseteq out \cup ({x.sent[i].id : i \in 1 .. Len(x.sent)} \ {0})
      BY <2>1, <1>15
    <3>4. x \in ConnType /\ x.taken <= Len(x.sent) /\ Regular(x, out, fin)' /\ InLine(x, out)'
      BY <2>1, <1>6, <1>13
    <3>5. /\ z \in ConnType /\ z.sent = Append(x.sent, g) /\ z.taken = x.taken
          /\ z.answers = x.answers /\ z.task = x.task /\ z.link = x.link
          /\ z.reply = x.reply /\ z.peer = x.peer
      BY <2>1, <1>7, <1>16
    <3>6. FrameOk(g, fin)'
      BY <2>1, <1>14
    <3> QED BY <3>1, <3>2, <3>3, <3>4, <3>5, <3>6, SentRegular
  <2>2. RunOk(conn[c], now[c])
    BY <1>13
  <2>3. Len(y.sent) = Len(conn[c].sent) + 1 /\ \A i \in 1 .. Len(conn[c].sent) : y.sent[i] = conn[c].sent[i]
    BY <1>4, <1>6, <1>7
  <2>4. RunOk(z, now[c])
    BY <2>2, <2>3, <1>6, <1>7, <1>16 DEF RunOk
  <2> QED BY <2>1, <2>4
<1>17. conn'[c] = y /\ \A d \in Conn : d # c => conn'[d] = conn[d]
  BY <1>1, <1>3 DEF TypeOK
<1>18. \A d \in Conn : Regular(conn[d], out, fin)' /\ InLine(conn[d], out)' /\ RunOk(conn[d], now[d])'
  <2> SUFFICES ASSUME NEW d \in Conn
               PROVE  Regular(conn[d], out, fin)' /\ InLine(conn[d], out)' /\ RunOk(conn[d], now[d])'
    OBVIOUS
  <2>1. CASE d = c
    BY <2>1, <1>16, <1>17
  <2>2. CASE d # c
    BY <2>2, <1>13, <1>17
  <2> QED BY <2>1, <2>2
<1>19. ConnPast(out, fin, now)'
  BY <1>3, <1>11, <1>18 DEF ConnPast
<1>20. Distinct'
  <2>1. /\ Len(y.sent) = Len(conn[c].sent) + 1 /\ y.sent[Len(conn[c].sent) + 1] = f
        /\ \A i \in 1 .. Len(conn[c].sent) : y.sent[i] = conn[c].sent[i]
    BY <1>4, <1>6, <1>7
  <2>2. \A d \in Conn : \A n \in 1 .. Len(conn[d].sent) : IsWrite(conn[d].sent[n].req) => conn[d].sent[n].id # Len(writes) + 1
    <3> SUFFICES ASSUME NEW d \in Conn, NEW n \in 1 .. Len(conn[d].sent), IsWrite(conn[d].sent[n].req)
                 PROVE  conn[d].sent[n].id # Len(writes) + 1
      OBVIOUS
    <3>1. conn[d].sent[n].id \in 1 .. Len(writes)
      BY <1>10 DEF ConnPast, Regular, FrameOk, Wrote
    <3> QED BY <3>1, <1>2
  <2>3. IsWrite(f.req) => f.id = Len(writes) + 1
    BY <1>4
  <2>4. ASSUME NEW d \in Conn, NEW n \in 1 .. Len(conn'[d].sent), IsWrite(conn'[d].sent[n].req)
        PROVE  \/ n \in 1 .. Len(conn[d].sent) /\ conn'[d].sent[n] = conn[d].sent[n]
               \/ d = c /\ n = Len(conn[c].sent) + 1 /\ conn'[d].sent[n] = f
    <3>1. CASE d = c
      BY <3>1, <2>1, <2>4, <1>6, <1>17
    <3>2. CASE d # c
      BY <3>2, <2>4, <1>17
    <3> QED BY <3>1, <3>2
  <2> SUFFICES ASSUME NEW a \in Conn, NEW b \in Conn,
                      NEW n \in 1 .. Len(conn'[a].sent), NEW m \in 1 .. Len(conn'[b].sent),
                      a # b \/ n # m, IsWrite(conn'[a].sent[n].req), IsWrite(conn'[b].sent[m].req)
               PROVE  conn'[a].sent[n].id # conn'[b].sent[m].id
    BY DEF Distinct
  <2> DEFINE old(d, i) == i \in 1 .. Len(conn[d].sent) /\ conn'[d].sent[i] = conn[d].sent[i]
             new(d, i) == d = c /\ i = Len(conn[c].sent) + 1 /\ conn'[d].sent[i] = f
  <2>5. (old(a, n) \/ new(a, n)) /\ (old(b, m) \/ new(b, m))
    BY <2>4
  <2>6. CASE old(a, n) /\ old(b, m)
    BY <2>6, <1>1 DEF Distinct
  <2>7. CASE old(a, n) /\ new(b, m)
    BY <2>7, <2>2, <2>3
  <2>8. CASE new(a, n) /\ old(b, m)
    BY <2>8, <2>2, <2>3
  <2>9. ~ (new(a, n) /\ new(b, m))
    OBVIOUS
  <2> QED BY <2>5, <2>6, <2>7, <2>8, <2>9
<1> QED
  BY <1>9, <1>12, <1>19, <1>20, PastRegular

\* Every step leaves a past that explains the state.
LEMMA RegularStep == RegularInv /\ [Next]_vars => RegularInv'
<1> SUFFICES ASSUME RegularInv, [Next]_vars PROVE RegularInv'
  OBVIOUS
<1>1. OrderInv' /\ VisibleIsDurable'
  <2>1. OrderInv /\ TypeOK /\ VisibleIsDurable /\ StoreTypeOK
    BY DEF RegularInv, OrderInv, TypeOK
  <2>2. [StoreNext]_storeVars
    BY <2>1, StepUsesStore
  <2> QED BY <2>1, <2>2, OrderStep, VisibleStep DEF StoreInv
<1>2. ASSUME NEW c \in Conn, Panic(c) \/ Lost(c) \/ ReadEnd(c) PROVE RegularInv'
  <2>1. Close(c) /\ UNCHANGED <<pend, may, rivals, writes, ended, acked>>
    BY <1>2 DEF Panic, Lost, ReadEnd, storeVars, history
  <2> QED BY <2>1, <1>1, CloseRegular
<1>3. ASSUME NEW c \in Conn, ClientStep(c) PROVE RegularInv'
  BY <1>1, <1>2, <1>3, SendRegular, CalmSteps, HearRegular DEF ClientStep
<1>4. ASSUME NEW c \in Conn, TaskStep(c) PROVE RegularInv'
  BY <1>1, <1>2, <1>4, ReadRegular, BeginRegular, ReturnRegular, AnswerRegular, CalmSteps DEF TaskStep
<1> QED
  BY <1>1, <1>3, <1>4, AcceptRegular, StopRegular, StartRegular DEF Next

\* At the beginning nothing has been written.
LEMMA RegularInit == Init => RegularInv
<1> SUFFICES ASSUME Init PROVE RegularInv
  OBVIOUS
<1>1. /\ \A c \in Conn : conn[c] = NoConn /\ pend[c] = NoWrite
      /\ writes = <<>> /\ ended = {} /\ acked = {} /\ ~ up /\ \A k \in Key : may[k] = {None}
  BY DEF Init, StoreInit, NobodyWrites, Conn
<1>2. OrderInv /\ VisibleIsDurable
  BY <1>1, TypeInit, NoConnOrderly DEF OrderInv, VisibleIsDurable
<1>3. Distinct
  BY <1>1 DEF Distinct, NoConn
<1> DEFINE prec == [n \in Nat |-> {}]
           now == [c \in Conn |-> 0]
<1>4. PastType({}, {}, prec, now)
  BY DEF PastType
<1> HIDE DEF prec, now
<1>5. StorePast({}, {}, prec, now)
  BY <1>1 DEF StorePast, Current
<1>6. ConnPast({}, {}, now)
  BY <1>1, NoConnRegular DEF ConnPast
<1> QED
  BY <1>2, <1>3, <1>4, <1>5, <1>6 DEF RegularInv, Past

\* A state with a past has only reads that are explained.
LEMMA PastExplainsReads == RegularInv => ReadsRegular
<1> SUFFICES ASSUME RegularInv, NEW c \in Conn, NEW n \in 1 .. Len(conn[c].answers), n <= Len(conn[c].sent)
             PROVE  ReadOk(conn[c].sent[n].req, conn[c].answers[n], Known(c, n))
  BY DEF ReadsRegular, ReadOk
<1>1. PICK out, fin, prec, now : Past(out, fin, prec, now)
  BY DEF RegularInv
<1>2. AnswerOk(conn[c], n, conn[c].answers[n], fin)
  BY <1>1 DEF Past, ConnPast, Regular
<1>3. KnownTo(conn[c], n) = Known(c, n)
  BY DEF KnownTo, Known
<1> QED
  BY <1>2, <1>3 DEF AnswerOk

\* What a client reads, on any connection and across restarts of the server,
\* was written, and not before a write of that key that was acknowledged when
\* the client asked, nor before one it sent earlier itself: whatever number of
\* clients write and read at once, whichever writes fail, and wherever the
\* server stops.
THEOREM RegularCorrect == Spec => []ReadsRegular
  BY RegularInit, RegularStep, PastExplainsReads, PTL DEF Spec

=============================================================================
