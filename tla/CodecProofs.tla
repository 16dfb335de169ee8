---------------------------- MODULE CodecProofs ----------------------------
(***************************************************************************)
(* What the byte formats promise, for every width, radix and value: the    *)
(* decoders of RecordCodec and Protocol return what the encoders were      *)
(* given, wherever in a file or a stream the bytes stand.                  *)
(*                                                                         *)
(* The operators are recursive functions over bounded domains.  That such  *)
(* a function exists is shown by induction over its domain, and induction  *)
(* is the fact that a set of numbers has a smallest member.                *)
(***************************************************************************)
EXTENDS RecordCodec, Protocol, FiniteSetTheorems, WellFoundedInduction, TLAPS

-----------------------------------------------------------------------------
(***************************************************************************)
(* Numbers.                                                                *)
(***************************************************************************)

\* A set of numbers with 0 and with every successor has every number.
LEMMA Induction ==
  ASSUME NEW S, 0 \in S, \A n \in Nat : n \in S => n + 1 \in S
  PROVE  \A n \in Nat : n \in S
<1> DEFINE T == {n \in Nat : n \notin S}
           less == OpToRel(<, Nat)
<1>1. SUFFICES ASSUME T # {} PROVE FALSE
  OBVIOUS
<1>2. IsWellFoundedOn(less, Nat)
  BY NatLessThanWellFounded
<1>3. PICK m \in T : \A n \in T : ~ (<<n, m>> \in less)
  <2>1. T \subseteq Nat
    OBVIOUS
  <2> HIDE DEF less, T
  <2> QED BY <1>1, <1>2, <2>1, WFMin
<1>4. m \in Nat /\ m \notin S /\ m # 0
  OBVIOUS
<1>5. m - 1 \in Nat /\ m - 1 < m
  BY <1>4
<1>6. m - 1 \notin T
  BY <1>3, <1>4, <1>5 DEF OpToRel
<1> QED
  BY <1>4, <1>5, <1>6

\* Induction down from the end of a range.
LEMMA InductionDown ==
  ASSUME NEW S, NEW k \in Nat, k \in S, \A n \in Nat : n < k /\ n + 1 \in S => n \in S
  PROVE  \A n \in 0 .. k : n \in S
<1> DEFINE T == {n \in Nat : n > k \/ k - n \in S}
<1>1. 0 \in T
  OBVIOUS
<1>2. ASSUME NEW n \in Nat, n \in T PROVE n + 1 \in T
  <2>1. CASE n + 1 > k
    BY <2>1
  <2>2. CASE n + 1 <= k
    <3>1. k - (n + 1) \in Nat /\ k - (n + 1) < k /\ k - (n + 1) + 1 = k - n
      BY <2>2
    <3> QED BY <1>2, <2>2, <3>1
  <2> QED BY <2>1, <2>2
<1>3. \A n \in Nat : n \in T
  <2> HIDE DEF T
  <2> QED BY <1>1, <1>2, Induction
<1>4. ASSUME NEW n \in 0 .. k PROVE n \in S
  <2>1. k - n \in Nat /\ k - n \in T
    BY <1>3
  <2>2. k - (k - n) = n
    OBVIOUS
  <2> QED BY <2>1, <2>2
<1> QED BY <1>4

\* The function Pow is the one its definition asks for: for every n there is
\* one up to n, they agree where both are defined, and together they are Pow.
LEMMA PowDef == Pow = [w \in Nat |-> IF w = 0 THEN 1 ELSE Radix * Pow[w - 1]]
<1> DEFINE Good(n, f) == f = [w \in 0 .. n |-> IF w = 0 THEN 1 ELSE Radix * f[w - 1]]
           S == {n \in Nat : \E f : Good(n, f)}
<1>1. 0 \in S
  <2>1. Good(0, [w \in 0 .. 0 |-> 1])
    OBVIOUS
  <2> QED BY <2>1
<1>2. ASSUME NEW n \in Nat, n \in S PROVE n + 1 \in S
  <2>1. PICK f : Good(n, f)
    BY <1>2
  <2> DEFINE g == [w \in 0 .. n + 1 |-> IF w = n + 1 THEN Radix * f[n] ELSE f[w]]
  <2>2. \A w \in 0 .. n + 1 : g[w] = IF w = 0 THEN 1 ELSE Radix * g[w - 1]
    <3> TAKE w \in 0 .. n + 1
    <3>1. CASE w = 0
      BY <2>1, <3>1
    <3>2. CASE w = n + 1
      <4>1. w # 0 /\ w - 1 = n /\ n \in 0 .. n + 1 /\ n # n + 1
        BY <3>2
      <4> QED BY <3>2, <4>1
    <3>3. CASE w # 0 /\ w # n + 1
      <4>1. w \in 0 .. n /\ w - 1 \in 0 .. n /\ w - 1 \in 0 .. n + 1 /\ w - 1 # n + 1
        BY <3>3
      <4>2. f[w] = Radix * f[w - 1]
        BY <2>1, <3>3, <4>1
      <4> QED BY <3>3, <4>1, <4>2
    <3> QED BY <3>1, <3>2, <3>3
  <2>3. Good(n + 1, g)
    BY <2>2
  <2> HIDE DEF g
  <2> QED BY <2>3
<1>3. \A n \in Nat : \E f : Good(n, f)
  <2> HIDE DEF Good
  <2>1. \A n \in Nat : n \in S
    <3> HIDE DEF S
    <3> QED BY <1>1, <1>2, Induction
  <2> QED BY <2>1
<1> DEFINE F(n) == CHOOSE f : Good(n, f)
           U == {m \in Nat : \A n \in Nat : m <= n => F(n)[m] = F(m)[m]}
           P == [w \in Nat |-> F(w)[w]]
<1>4. \A n \in Nat : Good(n, F(n))
  <2> HIDE DEF Good
  <2> QED BY <1>3
<1>5. \A n \in Nat : F(n)[0] = 1 /\ \A w \in 1 .. n : F(n)[w] = Radix * F(n)[w - 1]
  <2> TAKE n \in Nat
  <2>1. Good(n, F(n))
    BY <1>4
  <2> HIDE DEF F
  <2> QED BY <2>1
<1> HIDE DEF F, Good
<1>6. 0 \in U
  BY <1>5
<1>7. ASSUME NEW m \in Nat, m \in U PROVE m + 1 \in U
  <2> SUFFICES ASSUME NEW n \in Nat, m + 1 <= n PROVE F(n)[m + 1] = F(m + 1)[m + 1]
    OBVIOUS
  <2>1. F(n)[m] = F(m)[m] /\ F(m + 1)[m] = F(m)[m]
    BY <1>7
  <2>2. m + 1 \in 1 .. n /\ m + 1 \in 1 .. (m + 1) /\ (m + 1) - 1 = m
    OBVIOUS
  <2>3. F(n)[m + 1] = Radix * F(n)[m] /\ F(m + 1)[m + 1] = Radix * F(m + 1)[m]
    BY <1>5, <2>2
  <2> QED BY <2>1, <2>3
<1>8. \A m \in Nat : m \in U
  <2> HIDE DEF U
  <2> QED BY <1>6, <1>7, Induction
<1>9. \A w \in Nat : P[w] = IF w = 0 THEN 1 ELSE Radix * P[w - 1]
  <2> TAKE w \in Nat
  <2>1. CASE w = 0
    BY <1>5, <2>1
  <2>2. CASE w # 0
    <3>1. w - 1 \in Nat /\ w - 1 <= w /\ w \in 1 .. w
      BY <2>2
    <3>2. F(w)[w - 1] = F(w - 1)[w - 1]
      BY <1>8, <3>1
    <3>3. F(w)[w] = Radix * F(w)[w - 1]
      BY <1>5, <3>1
    <3> QED BY <2>2, <3>1, <3>2, <3>3
  <2> QED BY <2>1, <2>2
<1>10. P = [w \in Nat |-> IF w = 0 THEN 1 ELSE Radix * P[w - 1]]
  BY <1>9
<1> HIDE DEF P
<1> QED
  BY <1>10, Zenon DEF Pow

\* Pow at 0 and at a successor.
LEMMA PowStep == Pow[0] = 1 /\ \A w \in Nat : Pow[w + 1] = Radix * Pow[w]
<1>1. Pow[0] = 1
  BY PowDef, Zenon
<1>2. ASSUME NEW w \in Nat PROVE Pow[w + 1] = Radix * Pow[w]
  <2>1. w + 1 \in Nat /\ w + 1 # 0 /\ (w + 1) - 1 = w
    OBVIOUS
  <2>2. Pow[w + 1] = IF w + 1 = 0 THEN 1 ELSE Radix * Pow[(w + 1) - 1]
    BY PowDef, <2>1, Zenon
  <2> HIDE DEF Pow
  <2> QED BY <2>1, <2>2
<1> QED BY <1>1, <1>2

\* There are many more numbers of w bytes than w.
LEMMA PowType == \A w \in Nat : Pow[w] \in Nat /\ Pow[w] > 11 * w
<1> DEFINE S == {w \in Nat : Pow[w] \in Nat /\ Pow[w] >= 11 * w + 1}
<1>1. 0 \in S
  BY PowStep
<1>2. ASSUME NEW w \in Nat, w \in S PROVE w + 1 \in S
  <2>1. Pow[w + 1] = Radix * Pow[w]
    BY PowStep
  <2>2. Pow[w] \in Nat /\ Pow[w] >= 11 * w + 1
    BY <1>2
  <2>3. Radix \in Nat /\ Radix >= 12
    BY WidthAssumption
  <2>4. \A p, r \in Nat : r >= 12 /\ p >= 11 * w + 1 => r * p \in Nat /\ r * p >= 11 * (w + 1) + 1
    <3> TAKE p, r \in Nat
    <3> HAVE r >= 12 /\ p >= 11 * w + 1
    <3>1. r * p >= 12 * p
      OBVIOUS
    <3> QED BY <3>1
  <2>5. Pow[w + 1] \in Nat /\ Pow[w + 1] >= 11 * (w + 1) + 1
    BY <2>1, <2>2, <2>3, <2>4
  <2> QED BY <2>5
<1>3. \A w \in Nat : w \in S
  <2> HIDE DEF S
  <2> QED BY <1>1, <1>2, Induction
<1> QED BY <1>3

-----------------------------------------------------------------------------
(***************************************************************************)
(* Integers as bytes.                                                      *)
(***************************************************************************)

\* LE cuts a number into bytes.
LEMMA LEType ==
  ASSUME NEW n \in Nat, NEW w \in Nat
  PROVE  LE(n, w) \in Seq(Byte) /\ Len(LE(n, w)) = w
<1>1. ASSUME NEW i \in 1 .. w PROVE (n \div Pow[i - 1]) % Radix \in Byte
  <2>1. i - 1 \in Nat
    OBVIOUS
  <2>2. Pow[i - 1] \in Nat /\ Pow[i - 1] > 0
    BY <2>1, PowType
  <2>3. \A p, r \in Nat : p > 0 /\ r > 0 => (n \div p) % r \in 0 .. r - 1
    OBVIOUS
  <2> QED BY <2>2, <2>3, WidthAssumption DEF Byte
<1> QED BY <1>1 DEF LE

\* What UnLE makes of the bytes from each position on.
LEMMA UnLEDef ==
  ASSUME NEW b \in Seq(Byte)
  PROVE  \E f : /\ UnLE(b) = f[1] /\ f[Len(b) + 1] = 0
                /\ \A i \in 1 .. Len(b) : f[i] = b[i] + Radix * f[i + 1]
<1> DEFINE n == Len(b)
           Good(m, f) == f = [i \in m .. n + 1 |-> IF i > n THEN 0 ELSE b[i] + Radix * f[i + 1]]
           S == {m \in Nat : \E f : Good(m + 1, f)}
<1>0. n \in Nat
  OBVIOUS
<1> HIDE DEF n
<1>1. n \in S
  <2>1. Good(n + 1, [i \in n + 1 .. n + 1 |-> 0])
    BY <1>0
  <2> QED BY <1>0, <2>1
<1>2. ASSUME NEW m \in Nat, m < n, m + 1 \in S PROVE m \in S
  <2>1. PICK f : Good((m + 1) + 1, f)
    BY <1>2
  <2> DEFINE g == [i \in m + 1 .. n + 1 |-> IF i = m + 1 THEN b[i] + Radix * f[i + 1] ELSE f[i]]
  <2>2. \A i \in m + 1 .. n + 1 : g[i] = IF i > n THEN 0 ELSE b[i] + Radix * g[i + 1]
    <3> TAKE i \in m + 1 .. n + 1
    <3>1. CASE i = m + 1
      <4>1. ~ (i > n) /\ i + 1 \in m + 1 .. n + 1 /\ i + 1 # m + 1
        BY <1>0, <1>2, <3>1
      <4> QED BY <3>1, <4>1
    <3>2. CASE i # m + 1
      <4>1. i \in (m + 1) + 1 .. n + 1 /\ (i <= n => i + 1 \in m + 1 .. n + 1 /\ i + 1 # m + 1)
        BY <1>0, <1>2, <3>2
      <4>2. f[i] = IF i > n THEN 0 ELSE b[i] + Radix * f[i + 1]
        BY <2>1, <4>1
      <4> QED BY <1>0, <3>2, <4>1, <4>2
    <3> QED BY <3>1, <3>2
  <2>3. Good(m + 1, g)
    BY <2>2
  <2> HIDE DEF g
  <2> QED BY <2>3
<1>3. \E f : Good(1, f)
  <2>1. 0 \in S
    <3>1. 0 \in 0 .. n
      BY <1>0
    <3> HIDE DEF S
    <3> QED BY <1>0, <1>1, <1>2, <3>1, InductionDown
  <2> QED BY <2>1
<1> DEFINE from == CHOOSE f : Good(1, f)
<1>4. Good(1, from)
  <2> HIDE DEF Good
  <2> QED BY <1>3
<1>5. UnLE(b) = from[1]
  BY Zenon DEF UnLE, n
<1> HIDE DEF from
<1>6. from[n + 1] = 0 /\ \A i \in 1 .. n : from[i] = b[i] + Radix * from[i + 1]
  BY <1>0, <1>4
<1> QED
  BY <1>5, <1>6 DEF n

\* A number of b's bytes is a number below the power of its width.
LEMMA UnLEType ==
  ASSUME NEW b \in Seq(Byte)
  PROVE  UnLE(b) \in Nat /\ UnLE(b) < Pow[Len(b)]
<1>1. PICK f : /\ UnLE(b) = f[1] /\ f[Len(b) + 1] = 0
               /\ \A i \in 1 .. Len(b) : f[i] = b[i] + Radix * f[i + 1]
  BY UnLEDef
<1> DEFINE n == Len(b)
           S == {m \in Nat : m <= n => f[(n + 1) - m] \in Nat /\ f[(n + 1) - m] < Pow[m]}
<1>2. n \in Nat /\ Radix \in Nat
  BY WidthAssumption
<1> HIDE DEF n
<1>3. 0 \in S
  <2>1. (n + 1) - 0 = n + 1
    BY <1>2
  <2> QED BY <1>1, <2>1, PowStep, SMTT(30) DEF n
<1>4. ASSUME NEW m \in Nat, m \in S PROVE m + 1 \in S
  <2> SUFFICES ASSUME m + 1 <= n PROVE f[(n + 1) - (m + 1)] \in Nat /\ f[(n + 1) - (m + 1)] < Pow[m + 1]
    OBVIOUS
  <2>1. PICK i : i = (n + 1) - (m + 1) /\ i \in 1 .. n /\ i + 1 = (n + 1) - m
    BY <1>2
  <2>2. f[i] = b[i] + Radix * f[i + 1]
    BY <1>1, <2>1 DEF n
  <2>3. f[i + 1] \in Nat /\ f[i + 1] < Pow[m]
    BY <1>2, <1>4, <2>1
  <2>4. b[i] \in Nat /\ b[i] < Radix
    BY <1>2, <2>1 DEF n, Byte
  <2>5. Pow[m + 1] = Radix * Pow[m] /\ Pow[m] \in Nat
    BY PowStep, PowType
  <2>6. \A d, v, r, p \in Nat : d < r /\ v < p => d + r * v \in Nat /\ d + r * v < r * p
    <3> TAKE d, v, r, p \in Nat
    <3> HAVE d < r /\ v < p
    <3>1. r * v + r = r * (v + 1) /\ r * (v + 1) <= r * p
      OBVIOUS
    <3> QED BY <3>1
  <2>7. f[i] \in Nat /\ f[i] < Pow[m + 1]
    <3>1. b[i] + Radix * f[i + 1] \in Nat /\ b[i] + Radix * f[i + 1] < Radix * Pow[m]
      BY <1>2, <2>3, <2>4, <2>5, <2>6, Zenon
    <3> QED BY <2>2, <2>5, <3>1, Zenon
  <2> QED BY <2>1, <2>7
<1>5. n \in S
  <2> HIDE DEF S
  <2> QED BY <1>2, <1>3, <1>4, Induction
<1>6. (n + 1) - n = 1
  BY <1>2
<1> QED
  BY <1>1, <1>2, <1>5, <1>6 DEF n

\* The low w bytes of a number spell the number, if it has no more.
LEMMA UnLEOfLE ==
  ASSUME NEW w \in Nat, NEW n \in Nat, n < Pow[w]
  PROVE  UnLE(LE(n, w)) = n
<1> DEFINE b == LE(n, w)
<1>1. b \in Seq(Byte) /\ Len(b) = w /\ \A i \in 1 .. w : b[i] = (n \div Pow[i - 1]) % Radix
  <2>1. \A i \in 1 .. w : b[i] = (n \div Pow[i - 1]) % Radix
    BY DEF LE
  <2> QED BY <2>1, LEType
<1> HIDE DEF b
<1>2. PICK f : /\ UnLE(b) = f[1] /\ f[w + 1] = 0
               /\ \A i \in 1 .. w : f[i] = b[i] + Radix * f[i + 1]
  BY <1>1, UnLEDef
<1> DEFINE S == {i \in Nat : i <= w => f[i + 1] = n \div Pow[i]}
<1>3. w \in S
  <2>1. Pow[w] \in Nat
    BY PowType
  <2>2. n \div Pow[w] = 0
    BY <2>1
  <2> QED BY <1>2, <2>2
<1>4. ASSUME NEW i \in Nat, i < w, i + 1 \in S PROVE i \in S
  <2>1. f[(i + 1) + 1] = n \div Pow[i + 1]
    BY <1>4
  <2>2. f[i + 1] = b[i + 1] + Radix * f[(i + 1) + 1]
    BY <1>2, <1>4
  <2>3. b[i + 1] = (n \div Pow[i]) % Radix
    <3>1. i + 1 \in 1 .. w /\ (i + 1) - 1 = i
      BY <1>4
    <3> QED BY <1>1, <3>1
  <2>4. Pow[i + 1] = Radix * Pow[i] /\ Pow[i] \in Nat /\ Pow[i] > 0 /\ Radix \in Nat /\ Radix > 0
    BY PowStep, PowType, WidthAssumption, SMTT(30)
  <2>5. \A p, r \in Nat : p > 0 /\ r > 0 => ((n \div p) % r) + r * (n \div (r * p)) = n \div p
    <3> TAKE p, r \in Nat
    <3> HAVE p > 0 /\ r > 0
    <3>1. n \div (r * p) = (n \div p) \div r
      OBVIOUS
    <3>2. \A q \in Nat : (q % r) + r * (q \div r) = q
      OBVIOUS
    <3>3. n \div p \in Nat
      OBVIOUS
    <3>4. ((n \div p) % r) + r * ((n \div p) \div r) = n \div p
      BY <3>2, <3>3, Zenon
    <3> QED BY <3>1, <3>4, Zenon
  <2>6. ((n \div Pow[i]) % Radix) + Radix * (n \div (Radix * Pow[i])) = n \div Pow[i]
    BY <2>4, <2>5, Zenon
  <2>7. f[i + 1] = n \div Pow[i]
    BY <2>1, <2>2, <2>3, <2>4, <2>6, Zenon
  <2> QED BY <2>7
<1>5. 0 \in S
  <2> HIDE DEF S
  <2> QED BY <1>3, <1>4, InductionDown
<1>6. f[1] = n \div 1
  BY <1>5, PowStep
<1> QED
  BY <1>2, <1>6 DEF b

\* Reverse keeps the bytes and their number, and undoes itself.
LEMMA ReverseFacts ==
  ASSUME NEW s \in Seq(Byte)
  PROVE  Reverse(s) \in Seq(Byte) /\ Len(Reverse(s)) = Len(s) /\ Reverse(Reverse(s)) = s
BY DEF Reverse

\* BE cuts a number into bytes too.
LEMMA BEType ==
  ASSUME NEW n \in Nat, NEW w \in Nat
  PROVE  BE(n, w) \in Seq(Byte) /\ Len(BE(n, w)) = w
BY LEType, ReverseFacts DEF BE

\* A big-endian number is below the power of its width.
LEMMA UnBEType ==
  ASSUME NEW b \in Seq(Byte)
  PROVE  UnBE(b) \in Nat /\ UnBE(b) < Pow[Len(b)]
BY UnLEType, ReverseFacts DEF UnBE

\* The bytes BE makes spell the number, if it fits into them.
LEMMA UnBEOfBE ==
  ASSUME NEW w \in Nat, NEW n \in Nat, n < Pow[w]
  PROVE  UnBE(BE(n, w)) = n
BY LEType, ReverseFacts, UnLEOfLE DEF BE, UnBE

-----------------------------------------------------------------------------
(***************************************************************************)
(* Sequences.                                                              *)
(***************************************************************************)

\* b has the bytes s after its first pos bytes.
Holds(b, pos, s) == pos + Len(s) <= Len(b) /\ \A i \in 1 .. Len(s) : b[pos + i] = s[i]

\* Concatenation is associative and has a neutral element.
LEMMA ConcatFacts ==
  ASSUME NEW a \in Seq(Byte), NEW b \in Seq(Byte), NEW c \in Seq(Byte)
  PROVE  /\ a \o b \in Seq(Byte) /\ Len(a \o b) = Len(a) + Len(b)
         /\ (a \o b) \o c = a \o (b \o c)
         /\ a \o <<>> = a /\ <<>> \o a = a
<1>1. a \o b \in Seq(Byte) /\ b \o c \in Seq(Byte) /\ Len(a \o b) = Len(a) + Len(b)
  OBVIOUS
<1>2. (a \o b) \o c = a \o (b \o c)
  OBVIOUS
<1> QED BY <1>1, <1>2

\* Its associativity alone.
LEMMA ConcatAssoc ==
  ASSUME NEW a \in Seq(Byte), NEW b \in Seq(Byte), NEW c \in Seq(Byte)
  PROVE  (a \o b) \o c = a \o (b \o c)
BY ConcatFacts

\* A slice is a sequence of the same bytes.
LEMMA SliceType ==
  ASSUME NEW b \in Seq(Byte), NEW pos \in Nat, NEW n \in Nat, pos + n <= Len(b)
  PROVE  /\ Slice(b, pos, n) \in Seq(Byte) /\ Len(Slice(b, pos, n)) = n
         /\ \A i \in 1 .. n : Slice(b, pos, n)[i] = b[pos + i]
BY SMTT(30) DEF Slice

\* What stands at a position is what a slice there cuts out.
LEMMA HoldsSlice ==
  ASSUME NEW b \in Seq(Byte), NEW s \in Seq(Byte), NEW pos \in Nat
  PROVE  Holds(b, pos, s) <=> pos + Len(s) <= Len(b) /\ Slice(b, pos, Len(s)) = s
<1>1. ASSUME pos + Len(s) <= Len(b) 
      PROVE  /\ Slice(b, pos, Len(s)) \in Seq(Byte) /\ Len(Slice(b, pos, Len(s))) = Len(s)
             /\ \A i \in 1 .. Len(s) : Slice(b, pos, Len(s))[i] = b[pos + i]
  BY <1>1, SliceType
<1> QED BY <1>1 DEF Holds

\* Two pieces stand one after the other.
LEMMA HoldsConcat ==
  ASSUME NEW b \in Seq(Byte), NEW s \in Seq(Byte), NEW t \in Seq(Byte), NEW pos \in Nat
  PROVE  Holds(b, pos, s \o t) <=> Holds(b, pos, s) /\ Holds(b, pos + Len(s), t)
<1> DEFINE st == s \o t
<1>1. /\ st \in Seq(Byte) /\ Len(st) = Len(s) + Len(t)
      /\ \A i \in 1 .. Len(s) : st[i] = s[i]
      /\ \A i \in 1 .. Len(t) : st[Len(s) + i] = t[i]
  OBVIOUS
<1> HIDE DEF st
<1>2. ASSUME Holds(b, pos, st) PROVE Holds(b, pos, s) /\ Holds(b, pos + Len(s), t)
  <2>1. \A i \in 1 .. Len(s) : b[pos + i] = s[i]
    BY <1>1, <1>2 DEF Holds
  <2>2. ASSUME NEW i \in 1 .. Len(t) PROVE b[(pos + Len(s)) + i] = t[i]
    <3>1. Len(s) + i \in 1 .. Len(st) /\ (pos + Len(s)) + i = pos + (Len(s) + i)
      BY <1>1
    <3> QED BY <1>1, <1>2, <3>1 DEF Holds
  <2> QED BY <1>1, <1>2, <2>1, <2>2 DEF Holds
<1>3. ASSUME Holds(b, pos, s), Holds(b, pos + Len(s), t) PROVE Holds(b, pos, st)
  <2>1. ASSUME NEW i \in 1 .. Len(st) PROVE b[pos + i] = st[i]
    <3>1. CASE i <= Len(s)
      BY <1>1, <1>3, <3>1 DEF Holds
    <3>2. CASE i > Len(s)
      <4>1. PICK j \in 1 .. Len(t) : i = Len(s) + j /\ pos + i = (pos + Len(s)) + j
        <5>1. i - Len(s) \in 1 .. Len(t) /\ i = Len(s) + (i - Len(s)) /\ pos + i = (pos + Len(s)) + (i - Len(s))
          BY <1>1, <3>2
        <5> QED BY <5>1
      <4> QED BY <1>1, <1>3, <4>1 DEF Holds
    <3> QED BY <3>1, <3>2
  <2> QED BY <1>1, <1>3, <2>1 DEF Holds
<1> QED BY <1>2, <1>3 DEF st

\* A piece stands where its concatenation put it.
LEMMA HoldsMiddle ==
  ASSUME NEW a \in Seq(Byte), NEW s \in Seq(Byte), NEW c \in Seq(Byte)
  PROVE  Holds((a \o s) \o c, Len(a), s)
<1> DEFINE b == (a \o s) \o c
<1>1. /\ b \in Seq(Byte) /\ Len(b) = Len(a) + Len(s) + Len(c)
      /\ \A i \in 1 .. Len(s) : b[Len(a) + i] = s[i]
  OBVIOUS
<1> QED BY <1>1 DEF Holds

\* A sequence stands at its own beginning.
LEMMA HoldsWhole ==
  ASSUME NEW s \in Seq(Byte)
  PROVE  Holds(s, 0, s)
BY DEF Holds

\* More bytes behind do not move a piece.
LEMMA HoldsPrefix ==
  ASSUME NEW b \in Seq(Byte), NEW c \in Seq(Byte), NEW s \in Seq(Byte), NEW pos \in Nat, Holds(b, pos, s)
  PROVE  Holds(b \o c, pos, s)
<1>1. \A i \in 1 .. Len(b) : (b \o c)[i] = b[i]
  OBVIOUS
<1>2. Len(b \o c) = Len(b) + Len(c)
  OBVIOUS
<1> QED BY <1>1, <1>2 DEF Holds

\* FlattenSeq concatenates from the left.
LEMMA FlattenDef ==
  ASSUME NEW ss \in Seq(Seq(Byte))
  PROVE  \E f : /\ f \in [0 .. Len(ss) -> Seq(Byte)] /\ f[0] = <<>> /\ FlattenSeq(ss) = f[Len(ss)]
                /\ \A i \in 1 .. Len(ss) : f[i] = f[i - 1] \o ss[i]
<1> DEFINE n == Len(ss)
           Good(m, f) == f = [i \in 1 .. m |-> IF i = 1 THEN ss[i] ELSE f[i - 1] \o ss[i]]
           T == {m \in Nat : \E f : Good(m, f)}
<1>0. n \in Nat
  OBVIOUS
<1> HIDE DEF n
<1>1. 0 \in T
  <2>1. Good(0, <<>>)
    OBVIOUS
  <2> QED BY <2>1
<1>2. ASSUME NEW m \in Nat, m \in T PROVE m + 1 \in T
  <2>1. PICK f : Good(m, f)
    BY <1>2
  <2> DEFINE g == [i \in 1 .. m + 1 |-> IF i = m + 1 THEN (IF i = 1 THEN ss[i] ELSE f[i - 1] \o ss[i]) ELSE f[i]]
  <2>2. \A i \in 1 .. m + 1 : g[i] = IF i = 1 THEN ss[i] ELSE g[i - 1] \o ss[i]
    <3> TAKE i \in 1 .. m + 1
    <3>1. CASE i = 1
      BY <2>1, <3>1
    <3>2. CASE i # 1
      <4>1. i - 1 \in 1 .. m + 1 /\ i - 1 # m + 1 /\ g[i - 1] = f[i - 1]
        BY <3>2
      <4>2. CASE i = m + 1
        BY <3>2, <4>1, <4>2
      <4>3. CASE i # m + 1
        <5>1. i \in 1 .. m
          BY <4>3
        <5>2. f[i] = f[i - 1] \o ss[i]
          BY <2>1, <3>2, <5>1
        <5> QED BY <3>2, <4>1, <4>3, <5>2
      <4> QED BY <4>2, <4>3
    <3> QED BY <3>1, <3>2
  <2>3. Good(m + 1, g)
    BY <2>2
  <2> HIDE DEF g, Good
  <2> QED BY <2>3
<1>3. \E f : Good(n, f)
  <2>1. n \in T
    <3> HIDE DEF T
    <3> QED BY <1>0, <1>1, <1>2, Induction
  <2> QED BY <2>1
<1> DEFINE flatten == CHOOSE f : Good(n, f)
<1>4. Good(n, flatten)
  <2> HIDE DEF Good
  <2> QED BY <1>3
<1>5. FlattenSeq(ss) = IF n = 0 THEN ss ELSE flatten[n]
  BY Zenon DEF FlattenSeq, n
<1> HIDE DEF flatten
<1>6. \A i \in 1 .. n : flatten[i] = IF i = 1 THEN ss[i] ELSE flatten[i - 1] \o ss[i]
  BY <1>4
<1> HIDE DEF Good
<1> DEFINE V == {m \in Nat : m \in 1 .. n => flatten[m] \in Seq(Byte)}
<1>7. \A m \in 1 .. n : flatten[m] \in Seq(Byte)
  <2>1. 0 \in V
    OBVIOUS
  <2>2. ASSUME NEW m \in Nat, m \in V PROVE m + 1 \in V
    <3> SUFFICES ASSUME m + 1 \in 1 .. n PROVE flatten[m + 1] \in Seq(Byte)
      OBVIOUS
    <3>1. ss[m + 1] \in Seq(Byte)
      BY DEF n
    <3>2. flatten[m + 1] = IF m = 0 THEN ss[m + 1] ELSE flatten[m] \o ss[m + 1]
      <4>1. (m + 1) - 1 = m /\ (m + 1 = 1 <=> m = 0)
        OBVIOUS
      <4> QED BY <1>6, <4>1
    <3>3. m # 0 => flatten[m] \in Seq(Byte)
      BY <1>0, <2>2
    <3> QED BY <3>1, <3>2, <3>3
  <2>3. \A m \in Nat : m \in V
    <3> HIDE DEF V
    <3> QED BY <2>1, <2>2, Induction
  <2> QED BY <2>3
<1> DEFINE h == [i \in 0 .. n |-> IF i = 0 THEN <<>> ELSE flatten[i]]
<1>8. h \in [0 .. n -> Seq(Byte)] /\ h[0] = <<>>
  <2>1. <<>> \in Seq(Byte) /\ 0 \in 0 .. n
    BY <1>0
  <2>2. \A i \in 0 .. n : i # 0 => i \in 1 .. n
    BY <1>0
  <2> QED BY <1>7, <2>1, <2>2
<1>9. FlattenSeq(ss) = h[n]
  <2>1. n = 0 => ss = <<>>
    BY DEF n
  <2>2. n \in 0 .. n
    BY <1>0
  <2> QED BY <1>5, <2>1, <2>2
<1>10. ASSUME NEW i \in 1 .. n PROVE h[i] = h[i - 1] \o ss[i]
  <2>1. h[i] = flatten[i] /\ ss[i] \in Seq(Byte) /\ i - 1 \in 0 .. n
    BY <1>0 DEF n
  <2>2. CASE i = 1
    <3>1. h[i - 1] = <<>>
      BY <1>8, <2>2
    <3>2. <<>> \o ss[i] = ss[i]
      BY <2>1
    <3> QED BY <1>6, <2>1, <2>2, <3>1, <3>2
  <2>3. CASE i # 1
    <3>1. i - 1 # 0 /\ h[i - 1] = flatten[i - 1]
      BY <2>1, <2>3
    <3> QED BY <1>6, <2>1, <2>3, <3>1
  <2> QED BY <2>2, <2>3
<1> HIDE DEF h
<1> QED BY <1>8, <1>9, <1>10 DEF n

\* Nothing flattens to nothing.
LEMMA FlattenEmpty == FlattenSeq(<<>>) = <<>>
BY DEF FlattenSeq

\* Flattened bytes are bytes.
LEMMA FlattenType ==
  ASSUME NEW ss \in Seq(Seq(Byte))
  PROVE  FlattenSeq(ss) \in Seq(Byte)
<1>1. PICK f : f \in [0 .. Len(ss) -> Seq(Byte)] /\ FlattenSeq(ss) = f[Len(ss)]
  BY FlattenDef
<1>2. Len(ss) \in 0 .. Len(ss)
  OBVIOUS
<1> QED BY <1>1, <1>2

\* One more piece at the end.
LEMMA FlattenAppend ==
  ASSUME NEW ss \in Seq(Seq(Byte)), NEW x \in Seq(Byte)
  PROVE  FlattenSeq(Append(ss, x)) = FlattenSeq(ss) \o x
<1> DEFINE n == Len(ss)
           tt == Append(ss, x)
<1>1. tt \in Seq(Seq(Byte)) /\ Len(tt) = n + 1 /\ tt[n + 1] = x /\ n \in Nat /\ \A i \in 1 .. n : tt[i] = ss[i]
  OBVIOUS
<1>2. PICK f : /\ f \in [0 .. Len(ss) -> Seq(Byte)] /\ f[0] = <<>> /\ FlattenSeq(ss) = f[Len(ss)]
               /\ \A i \in 1 .. Len(ss) : f[i] = f[i - 1] \o ss[i]
  BY FlattenDef, Zenon
<1> HIDE DEF n, tt
<1>3. PICK g : /\ g[0] = <<>> /\ FlattenSeq(tt) = g[n + 1]
               /\ \A i \in 1 .. n + 1 : g[i] = g[i - 1] \o tt[i]
  <2>1. PICK g : /\ g \in [0 .. Len(tt) -> Seq(Byte)] /\ g[0] = <<>> /\ FlattenSeq(tt) = g[Len(tt)]
                 /\ \A i \in 1 .. Len(tt) : g[i] = g[i - 1] \o tt[i]
    BY <1>1, FlattenDef, Zenon
  <2> QED BY <1>1, <2>1
<1> DEFINE T == {i \in Nat : i <= n => f[i] = g[i]}
<1>4. 0 \in T
  BY <1>2, <1>3
<1>5. ASSUME NEW i \in Nat, i \in T PROVE i + 1 \in T
  <2> SUFFICES ASSUME i + 1 <= n PROVE f[i + 1] = g[i + 1]
    OBVIOUS
  <2>1. i + 1 \in 1 .. n /\ i + 1 \in 1 .. n + 1 /\ (i + 1) - 1 = i /\ i <= n
    BY <1>1
  <2>2. f[i + 1] = f[i] \o ss[i + 1] /\ g[i + 1] = g[i] \o tt[i + 1]
    BY <1>2, <1>3, <2>1 DEF n
  <2> QED BY <1>1, <1>5, <2>1, <2>2
<1>6. n \in T
  <2> HIDE DEF T
  <2> QED BY <1>1, <1>4, <1>5, Induction
<1>7. g[n + 1] = g[n] \o x
  <2>1. n + 1 \in 1 .. n + 1 /\ (n + 1) - 1 = n
    BY <1>1
  <2>2. g[n + 1] = g[(n + 1) - 1] \o tt[n + 1]
    BY <1>3, <2>1, Zenon
  <2> QED BY <1>1, <2>1, <2>2, Zenon
<1>8. f[n] = g[n] /\ FlattenSeq(ss) = f[n]
  BY <1>1, <1>2, <1>6 DEF n
<1> QED BY <1>3, <1>7, <1>8, Zenon DEF tt

\* Pieces in two groups: each group is flattened.
LEMMA FlattenConcat ==
  ASSUME NEW ss \in Seq(Seq(Byte)), NEW tt \in Seq(Seq(Byte))
  PROVE  FlattenSeq(ss \o tt) = FlattenSeq(ss) \o FlattenSeq(tt)
<1> DEFINE F(m) == FlattenSeq(ss \o SubSeq(tt, 1, m)) = FlattenSeq(ss) \o FlattenSeq(SubSeq(tt, 1, m))
           T == {m \in Nat : m <= Len(tt) => F(m)}
<1>1. 0 \in T
  <2>1. SubSeq(tt, 1, 0) = <<>> /\ ss \o <<>> = ss
    OBVIOUS
  <2>2. FlattenSeq(ss) \o <<>> = FlattenSeq(ss)
    BY FlattenType
  <2> QED BY <2>1, <2>2, FlattenEmpty
<1>2. ASSUME NEW m \in Nat, m \in T PROVE m + 1 \in T
  <2> SUFFICES ASSUME m + 1 <= Len(tt) PROVE F(m + 1)
    OBVIOUS
  <2> DEFINE u == SubSeq(tt, 1, m)
             x == tt[m + 1]
  <2>1. u \in Seq(Seq(Byte)) /\ x \in Seq(Byte) /\ SubSeq(tt, 1, m + 1) = Append(u, x)
    OBVIOUS
  <2>2. F(m)
    BY <1>2
  <2> HIDE DEF u, x
  <2>3. ss \o Append(u, x) = Append(ss \o u, x) /\ ss \o u \in Seq(Seq(Byte))
    <3> DEFINE B == Seq(Byte)
    <3>1. ss \in Seq(B) /\ u \in Seq(B) /\ x \in B
      BY <2>1
    <3> HIDE DEF B
    <3>2. ss \o Append(u, x) = Append(ss \o u, x) /\ ss \o u \in Seq(B)
      BY <3>1
    <3> QED BY <3>2 DEF B
  <2>4. FlattenSeq(ss \o u) = FlattenSeq(ss) \o FlattenSeq(u)
    BY <2>2 DEF u
  <2>5. FlattenSeq(Append(ss \o u, x)) = FlattenSeq(ss \o u) \o x /\ FlattenSeq(Append(u, x)) = FlattenSeq(u) \o x
    BY <2>1, <2>3, FlattenAppend
  <2>6. FlattenSeq(ss) \in Seq(Byte) /\ FlattenSeq(u) \in Seq(Byte)
    BY <2>1, FlattenType
  <2>7. (FlattenSeq(ss) \o FlattenSeq(u)) \o x = FlattenSeq(ss) \o (FlattenSeq(u) \o x)
    BY <2>1, <2>6, ConcatAssoc
  <2> QED BY <2>1, <2>3, <2>4, <2>5, <2>7
<1>3. \A m \in Nat : m \in T
  <2> HIDE DEF T
  <2> QED BY <1>1, <1>2, Induction
<1>4. F(Len(tt))
  BY <1>3
<1>5. SubSeq(tt, 1, Len(tt)) = tt
  OBVIOUS
<1> QED BY <1>4, <1>5

\* The pieces before the i-th, the i-th, and the pieces after it.
LEMMA FlattenSplit ==
  ASSUME NEW ss \in Seq(Seq(Byte)), NEW i \in 1 .. Len(ss)
  PROVE  /\ FlattenSeq(ss) = (FlattenSeq(SubSeq(ss, 1, i - 1)) \o ss[i]) \o FlattenSeq(SubSeq(ss, i + 1, Len(ss)))
         /\ SubSeq(ss, 1, i - 1) \in Seq(Seq(Byte)) /\ SubSeq(ss, i + 1, Len(ss)) \in Seq(Seq(Byte))
         /\ ss[i] \in Seq(Byte)
<1> DEFINE B == Seq(Byte)
           u == SubSeq(ss, 1, i - 1)
           v == SubSeq(ss, i + 1, Len(ss))
           x == ss[i]
<1>1. ss \in Seq(B) 
  OBVIOUS
<1> HIDE DEF B
<1>2. u \in Seq(B) /\ v \in Seq(B) /\ x \in B /\ Append(u, x) \in Seq(B) /\ ss = Append(u, x) \o v
  <2>1. /\ u \in Seq(B) /\ Len(u) = i - 1 /\ \A j \in 1 .. i - 1 : u[j] = ss[j]
        /\ v \in Seq(B) /\ Len(v) = Len(ss) - i /\ \A j \in 1 .. Len(ss) - i : v[j] = ss[i + j]
        /\ x \in B
    BY <1>1
  <2> HIDE DEF u, v
  <2> DEFINE ux == Append(u, x)
  <2>2. ux \in Seq(B) /\ Len(ux) = i /\ \A j \in 1 .. i : ux[j] = ss[j]
    BY <2>1
  <2> HIDE DEF ux
  <2> DEFINE w == ux \o v
  <2>3. w \in Seq(B) /\ Len(w) = Len(ss) /\ \A j \in 1 .. Len(ss) : w[j] = ss[j]
    <3>1. w \in Seq(B) /\ Len(w) = Len(ss) /\ \A j \in 1 .. Len(ss) : w[j] = IF j <= i THEN ux[j] ELSE v[j - i]
      <4>1. /\ w \in Seq(B) /\ Len(w) = Len(ux) + Len(v)
            /\ \A j \in 1 .. Len(ux) + Len(v) : w[j] = IF j <= Len(ux) THEN ux[j] ELSE v[j - Len(ux)]
        BY <2>1, <2>2, SMTT(30)
      <4>2. Len(ux) = i /\ Len(ux) + Len(v) = Len(ss)
        <5>1. Len(ss) \in Nat /\ i \in Nat
          BY <1>1
        <5>2. Len(ux) = i /\ Len(v) = Len(ss) - i
          BY <2>1, <2>2
        <5> QED BY <5>1, <5>2
      <4> QED BY <4>1, <4>2
    <3>2. ASSUME NEW j \in 1 .. Len(ss), j > i PROVE v[j - i] = ss[j]
      <4>1. j - i \in 1 .. Len(ss) - i /\ i + (j - i) = j
        BY <3>2
      <4> QED BY <2>1, <4>1
    <3> HIDE DEF w
    <3> QED BY <2>2, <3>1, <3>2, SMTT(30)
  <2> HIDE DEF w
  <2>4. w = ss
    BY <1>1, <2>3
  <2> QED BY <2>1, <2>2, <2>4 DEF w, ux
<1>3. FlattenSeq(Append(u, x) \o v) = FlattenSeq(Append(u, x)) \o FlattenSeq(v)
  <2> HIDE DEF u, v, x
  <2> QED BY <1>2, FlattenConcat DEF B
<1>4. FlattenSeq(Append(u, x)) = FlattenSeq(u) \o x
  <2> HIDE DEF u, v, x
  <2> QED BY <1>2, FlattenAppend DEF B
<1> HIDE DEF u, v, x
<1>5. FlattenSeq(ss) = (FlattenSeq(u) \o x) \o FlattenSeq(v)
  BY <1>2, <1>3, <1>4, Zenon
<1> QED BY <1>2, <1>5 DEF B, u, v, x

\* Where the i-th piece ends.
Off(ss, i) == Len(FlattenSeq(SubSeq(ss, 1, i)))

\* The ends of the pieces follow from their lengths.
LEMMA OffFacts ==
  ASSUME NEW ss \in Seq(Seq(Byte))
  PROVE  /\ Off(ss, 0) = 0 /\ Off(ss, Len(ss)) = Len(FlattenSeq(ss))
         /\ \A i \in 0 .. Len(ss) : Off(ss, i) \in Nat
         /\ \A i \in 1 .. Len(ss) : Off(ss, i) = Off(ss, i - 1) + Len(ss[i])
<1> DEFINE B == Seq(Byte)
<1>0. ss \in Seq(B)
  OBVIOUS
<1>1. Off(ss, 0) = 0
  <2>1. SubSeq(ss, 1, 0) = <<>>
    OBVIOUS
  <2>2. Len(<<>>) = 0
    OBVIOUS
  <2> QED BY <2>1, <2>2, FlattenEmpty, Zenon DEF Off
<1>2. Off(ss, Len(ss)) = Len(FlattenSeq(ss))
  <2>1. SubSeq(ss, 1, Len(ss)) = ss
    OBVIOUS
  <2> QED BY <2>1 DEF Off
<1>3. ASSUME NEW i \in 0 .. Len(ss) PROVE Off(ss, i) \in Nat
  <2>1. SubSeq(ss, 1, i) \in Seq(B)
    <3> HIDE DEF B
    <3> QED BY <1>0
  <2>2. FlattenSeq(SubSeq(ss, 1, i)) \in Seq(Byte)
    BY <2>1, FlattenType
  <2> QED BY <2>2 DEF Off
<1>4. ASSUME NEW i \in 1 .. Len(ss) PROVE Off(ss, i) = Off(ss, i - 1) + Len(ss[i])
  <2> DEFINE u == SubSeq(ss, 1, i - 1)
             x == ss[i]
  <2>1. u \in Seq(B) /\ x \in B /\ SubSeq(ss, 1, i) = Append(u, x)
    <3> HIDE DEF B
    <3> QED BY <1>0
  <2> HIDE DEF u, x
  <2>2. FlattenSeq(Append(u, x)) = FlattenSeq(u) \o x /\ FlattenSeq(u) \in Seq(Byte)
    BY <2>1, FlattenAppend, FlattenType
  <2>3. Len(FlattenSeq(u) \o x) = Len(FlattenSeq(u)) + Len(x)
    BY <2>1, <2>2
  <2> QED BY <2>1, <2>2, <2>3 DEF Off, u, x
<1> QED BY <1>1, <1>2, <1>3, <1>4

\* Behind some bytes, the i-th piece stands where the one before it ends.
LEMMA FlattenHolds ==
  ASSUME NEW pre \in Seq(Byte), NEW ss \in Seq(Seq(Byte)), NEW i \in 1 .. Len(ss)
  PROVE  Holds(pre \o FlattenSeq(ss), Len(pre) + Off(ss, i - 1), ss[i])
<1> DEFINE u == FlattenSeq(SubSeq(ss, 1, i - 1))
           v == FlattenSeq(SubSeq(ss, i + 1, Len(ss)))
           x == ss[i]
<1>1. FlattenSeq(ss) = (u \o x) \o v /\ u \in Seq(Byte) /\ v \in Seq(Byte) /\ x \in Seq(Byte)
  BY FlattenSplit, FlattenType
<1>2. Off(ss, i - 1) = Len(u)
  BY DEF Off
<1> HIDE DEF u, v, x
<1>3. pre \o ((u \o x) \o v) = ((pre \o u) \o x) \o v /\ pre \o u \in Seq(Byte) /\ Len(pre \o u) = Len(pre) + Len(u)
  <2>1. u \o x \in Seq(Byte) /\ pre \o u \in Seq(Byte) /\ Len(pre \o u) = Len(pre) + Len(u)
    BY <1>1
  <2>2. pre \o ((u \o x) \o v) = (pre \o (u \o x)) \o v
    <3> DEFINE ux == u \o x
    <3>1. ux \in Seq(Byte)
      BY <2>1
    <3> HIDE DEF ux
    <3>2. (pre \o ux) \o v = pre \o (ux \o v)
      BY <1>1, <3>1, ConcatAssoc, ZenonT(60)
    <3> QED BY <3>2 DEF ux
  <2>3. pre \o (u \o x) = (pre \o u) \o x
    BY <1>1, ConcatAssoc
  <2> QED BY <2>1, <2>2, <2>3, Zenon
<1>4. Holds(((pre \o u) \o x) \o v, Len(pre \o u), x)
  <2> DEFINE pu == pre \o u
  <2>1. pu \in Seq(Byte)
    BY <1>3
  <2> HIDE DEF pu
  <2>2. Holds((pu \o x) \o v, Len(pu), x)
    BY <1>1, <2>1, HoldsMiddle
  <2> QED BY <2>2 DEF pu
<1> QED BY <1>1, <1>2, <1>3, <1>4 DEF x

\* A piece replaced by one of its length leaves the others where they are.
LEMMA FlattenReplace ==
  ASSUME NEW ss \in Seq(Seq(Byte)), NEW i \in 1 .. Len(ss), NEW y \in Seq(Byte)
  PROVE  LET tt == [ss EXCEPT ![i] = y]
         IN /\ tt \in Seq(Seq(Byte)) /\ Len(tt) = Len(ss)
            /\ SubSeq(tt, 1, i - 1) = SubSeq(ss, 1, i - 1)
            /\ FlattenSeq(tt) = (FlattenSeq(SubSeq(ss, 1, i - 1)) \o y) \o FlattenSeq(SubSeq(ss, i + 1, Len(ss)))
<1> DEFINE B == Seq(Byte)
           tt == [ss EXCEPT ![i] = y]
<1>1. /\ tt \in Seq(B) /\ Len(tt) = Len(ss) /\ tt[i] = y
      /\ SubSeq(tt, 1, i - 1) = SubSeq(ss, 1, i - 1)
      /\ SubSeq(tt, i + 1, Len(tt)) = SubSeq(ss, i + 1, Len(ss))
  <2>1. ss \in Seq(B) /\ y \in B
    OBVIOUS
  <2> HIDE DEF B
  <2>2. tt \in Seq(B) /\ Len(tt) = Len(ss) /\ tt[i] = y /\ \A j \in 1 .. Len(ss) : j # i => tt[j] = ss[j]
    BY <2>1
  <2> HIDE DEF tt
  <2>3. SubSeq(tt, 1, i - 1) = SubSeq(ss, 1, i - 1)
    BY <2>1, <2>2
  <2>4. SubSeq(tt, i + 1, Len(tt)) = SubSeq(ss, i + 1, Len(ss))
    BY <2>1, <2>2
  <2> QED BY <2>2, <2>3, <2>4
<1> HIDE DEF tt
<1>2. FlattenSeq(tt) = (FlattenSeq(SubSeq(tt, 1, i - 1)) \o tt[i]) \o FlattenSeq(SubSeq(tt, i + 1, Len(tt)))
  BY <1>1, FlattenSplit
<1>3. FlattenSeq(tt) = (FlattenSeq(SubSeq(ss, 1, i - 1)) \o y) \o FlattenSeq(SubSeq(ss, i + 1, Len(ss)))
  BY <1>1, <1>2
<1> QED BY <1>1, <1>3 DEF tt

-----------------------------------------------------------------------------
(***************************************************************************)
(* The loop of the decoders.                                               *)
(***************************************************************************)

\* A turn that finds an item moves the cursor.
Advances(turn, k) ==
  /\ DOMAIN turn = 0 .. k - 1
  /\ \A pos \in 0 .. k - 1 : turn[pos].out = "ok" => turn[pos].next \in Nat /\ turn[pos].next > pos

\* What DecodeAll makes of the turn at pos and of the rest.
Turned(item, rest) ==
  IF item.out # "ok" THEN item
  ELSE IF rest.out # "ok" THEN rest
  ELSE Ok(<<item.val>> \o rest.val, rest.next)

\* A loop whose turns advance ends: DecodeAll is defined by its equation.
LEMMA DecodeAllStep ==
  ASSUME NEW turn, NEW k \in Nat, Advances(turn, k)
  PROVE  \A pos \in Nat :
           DecodeAll(turn, pos) =
             IF pos \notin 0 .. k - 1 THEN Ok(<<>>, pos)
             ELSE Turned(turn[pos], DecodeAll(turn, turn[pos].next))
<1> DEFINE Body(f, pos) == IF pos \notin DOMAIN turn THEN Ok(<<>>, pos)
                           ELSE LET item == turn[pos]
                                    rest == f[item.next]
                                IN IF item.out # "ok" THEN item
                                   ELSE IF rest.out # "ok" THEN rest
                                   ELSE Ok(<<item.val>> \o rest.val, rest.next)
           Above(m) == {pos \in Nat : pos >= m}
           Good(m, f) == f = [pos \in Above(m) |-> Body(f, pos)]
           S == {m \in Nat : \E f : Good(m, f)}
<1>0. DOMAIN turn = 0 .. k - 1
  BY DEF Advances
<1>a. ASSUME NEW f, NEW g, NEW pos, pos \in DOMAIN turn /\ turn[pos].out = "ok" => f[turn[pos].next] = g[turn[pos].next]
      PROVE  Body(f, pos) = Body(g, pos)
  BY <1>a, Zenon
<1> HIDE DEF Body
<1>1. k \in S
  <2> DEFINE f == [pos \in Above(k) |-> Ok(<<>>, pos)]
  <2>1. ASSUME NEW pos \in Above(k) PROVE Body(f, pos) = Ok(<<>>, pos)
    <3>1. pos \notin DOMAIN turn
      BY <1>0
    <3> HIDE DEF f
    <3> QED BY <3>1, Zenon DEF Body
  <2>2. Good(k, f)
    <3> HIDE DEF Above
    <3> QED BY <2>1, Zenon
  <2> HIDE DEF f, Good
  <2> QED BY <2>2
<1>2. ASSUME NEW m \in Nat, m < k, m + 1 \in S PROVE m \in S
  <2>1. PICK f : Good(m + 1, f)
    <3> HIDE DEF Good
    <3> QED BY <1>2
  <2> DEFINE g == [pos \in Above(m) |-> IF pos = m THEN Body(f, m) ELSE f[pos]]
  <2>2. ASSUME NEW pos \in Above(m) PROVE Body(f, pos) = Body(g, pos)
    <3>1. ASSUME pos \in DOMAIN turn, turn[pos].out = "ok" PROVE f[turn[pos].next] = g[turn[pos].next]
      <4>1. turn[pos].next \in Nat /\ turn[pos].next > pos
        BY <1>0, <3>1 DEF Advances
      <4>2. turn[pos].next \in Above(m) /\ turn[pos].next # m
        BY <4>1
      <4> QED BY <4>2
    <3> HIDE DEF g
    <3> QED BY <1>a, <3>1
  <2>3. ASSUME NEW pos \in Above(m) PROVE g[pos] = Body(g, pos)
    <3>1. CASE pos = m
      BY <2>2, <3>1
    <3>2. CASE pos # m
      <4>1. pos \in Above(m + 1)
        BY <3>2
      <4>2. f[pos] = Body(f, pos)
        BY <2>1, <4>1
      <4> QED BY <2>2, <3>2, <4>2
    <3> QED BY <3>1, <3>2
  <2>4. g = [pos \in Above(m) |-> g[pos]]
    OBVIOUS
  <2> HIDE DEF g, Above
  <2>5. Good(m, g)
    BY <2>3, <2>4
  <2> HIDE DEF Good
  <2> QED BY <2>5
<1>3. \E f : Good(0, f)
  <2>1. 0 \in S
    <3> HIDE DEF S
    <3> QED BY <1>1, <1>2, InductionDown
  <2> HIDE DEF Good
  <2> QED BY <2>1
<1>4. Above(0) = Nat
  OBVIOUS
<1> DEFINE from == CHOOSE f : f = [pos \in Nat |-> Body(f, pos)]
<1>5. from = [pos \in Nat |-> Body(from, pos)]
  <2>1. \E f : f = [pos \in Nat |-> Body(f, pos)]
    <3> HIDE DEF Above
    <3> QED BY <1>3, <1>4, Zenon
  <2> QED BY <2>1, Zenon
<1>6. \A pos \in Nat : DecodeAll(turn, pos) = from[pos]
  BY Zenon DEF DecodeAll, Body
<1> HIDE DEF from
<1>7. ASSUME NEW pos \in Nat
      PROVE  from[pos] = IF pos \notin 0 .. k - 1 THEN Ok(<<>>, pos) ELSE Turned(turn[pos], from[turn[pos].next])
  <2>1. from[pos] = Body(from, pos)
    BY <1>5, Zenon
  <2> QED BY <1>0, <2>1, Zenon DEF Body, Turned
<1>8. ASSUME NEW pos \in Nat
      PROVE  DecodeAll(turn, pos) = IF pos \notin 0 .. k - 1 THEN Ok(<<>>, pos)
                                    ELSE Turned(turn[pos], DecodeAll(turn, turn[pos].next))
  <2>1. CASE pos \in 0 .. k - 1 /\ turn[pos].out = "ok"
    <3>1. turn[pos].next \in Nat
      BY <2>1 DEF Advances
    <3>2. DecodeAll(turn, turn[pos].next) = from[turn[pos].next]
      BY <1>6, <3>1
    <3> QED BY <1>6, <1>7, <3>2, Zenon
  <2>2. CASE ~ (pos \in 0 .. k - 1 /\ turn[pos].out = "ok")
    BY <1>6, <1>7, <2>2, Zenon DEF Turned
  <2> QED BY <2>1, <2>2
<1> QED BY <1>8

\* The parts of a result.
LEMMA OkFields == \A v, n : Ok(v, n).out = "ok" /\ Ok(v, n).val = v /\ Ok(v, n).next = n
BY DEF Ok


\* Results that are not ok.
LEMMA ErrFields == Err.out # "ok" /\ Panic.out # "ok"
BY DEF Err, Panic

\* At the end of the buffer there are no more items.
LEMMA DecodeAllEnd ==
  ASSUME NEW turn, NEW k \in Nat, Advances(turn, k), NEW pos \in Nat, pos >= k
  PROVE  DecodeAll(turn, pos) = Ok(<<>>, pos)
<1>1. pos \notin 0 .. k - 1
  OBVIOUS
<1> QED BY <1>1, DecodeAllStep

\* A turn that is an error is the answer.
LEMMA DecodeAllFails ==
  ASSUME NEW turn, NEW k \in Nat, Advances(turn, k), NEW pos \in 0 .. k - 1, turn[pos].out # "ok"
  PROVE  DecodeAll(turn, pos) = turn[pos]
<1>1. pos \in Nat
  OBVIOUS
<1> QED BY <1>1, DecodeAllStep DEF Turned

\* The turns at p[0], p[1], ... find vals; what the loop makes of the rest, r,
\* follows them.
Walks(turn, k, p, vals) ==
  /\ p \in [0 .. Len(vals) -> Nat]
  /\ \A i \in 1 .. Len(vals) : p[i - 1] \in 0 .. k - 1 /\ turn[p[i - 1]] = Ok(vals[i], p[i])

\* Items that are found one after the other are what the loop returns.
LEMMA DecodeAllWalk ==
  ASSUME NEW turn, NEW k \in Nat, Advances(turn, k),
         NEW V, NEW vals \in Seq(V), NEW p, Walks(turn, k, p, vals),
         NEW r, r = DecodeAll(turn, p[Len(vals)]),
         r.out = "ok" => r = Ok(r.val, r.next) /\ r.val \in Seq(V)
  PROVE  DecodeAll(turn, p[0]) = IF r.out # "ok" THEN r ELSE Ok(vals \o r.val, r.next)
<1> DEFINE n == Len(vals)
           Rest(j) == IF r.out # "ok" THEN r ELSE Ok(SubSeq(vals, j + 1, n) \o r.val, r.next)
           S == {j \in Nat : j <= n => DecodeAll(turn, p[j]) = Rest(j)}
<1>0. n \in Nat
  OBVIOUS
<1>1. n \in S
  <2>1. SubSeq(vals, n + 1, n) = <<>>
    OBVIOUS
  <2>2. r.out = "ok" => <<>> \o r.val = r.val
    OBVIOUS
  <2>3. DecodeAll(turn, p[n]) = Rest(n)
    BY <2>1, <2>2, Zenon
  <2> HIDE DEF Rest
  <2> QED BY <2>3
<1>2. ASSUME NEW j \in Nat, j < n, j + 1 \in S PROVE j \in S
  <2>1. j + 1 \in 1 .. n /\ (j + 1) - 1 = j /\ j \in 0 .. n
    BY <1>2
  <2>2. p[j] \in 0 .. k - 1 /\ turn[p[j]] = Ok(vals[j + 1], p[j + 1]) /\ p[j] \in Nat
    BY <2>1 DEF Walks
  <2>3. DecodeAll(turn, p[j]) = Turned(turn[p[j]], DecodeAll(turn, turn[p[j]].next))
    BY <2>2, DecodeAllStep
  <2>4. turn[p[j]].out = "ok" /\ turn[p[j]].val = vals[j + 1] /\ turn[p[j]].next = p[j + 1]
    BY <2>2 DEF Ok
  <2>5. DecodeAll(turn, p[j + 1]) = Rest(j + 1)
    <3> HIDE DEF Rest
    <3> QED BY <1>2
  <2>6. CASE r.out # "ok"
    <3>1. Rest(j + 1) = r /\ Rest(j) = r
      BY <2>6
    <3>2. DecodeAll(turn, p[j]) = r
      BY <2>3, <2>4, <2>5, <2>6, <3>1, Zenon DEF Turned
    <3> HIDE DEF Rest
    <3> QED BY <3>1, <3>2
  <2>7. CASE r.out = "ok"
    <3> DEFINE t == SubSeq(vals, (j + 1) + 1, n)
    <3>1. Rest(j + 1) = Ok(t \o r.val, r.next) /\ Rest(j) = Ok(SubSeq(vals, j + 1, n) \o r.val, r.next)
      BY <2>7
    <3>2. t \in Seq(V) /\ vals[j + 1] \in V /\ SubSeq(vals, j + 1, n) = <<vals[j + 1]>> \o t
      <4>1. t \in Seq(V) /\ vals[j + 1] \in V
        BY <2>1
      <4>2. SubSeq(vals, j + 1, n) = <<vals[j + 1]>> \o t
        BY <2>1
      <4> QED BY <4>1, <4>2
    <3> HIDE DEF t
    <3>3. (<<vals[j + 1]>> \o t) \o r.val = <<vals[j + 1]>> \o (t \o r.val)
      <4>1. \A a, b, c \in Seq(V) : (a \o b) \o c = a \o (b \o c)
        BY SMTT(30)
      <4>2. <<vals[j + 1]>> \in Seq(V) /\ r.val \in Seq(V)
        BY <2>7, <3>2
      <4> QED BY <3>2, <4>1, <4>2, ZenonT(60)
    <3>4. Rest(j + 1).out = "ok" /\ Rest(j + 1).val = t \o r.val /\ Rest(j + 1).next = r.next
      <4> HIDE DEF Rest
      <4> QED BY <3>1, SMTT(30) DEF Ok
    <3>5. Turned(turn[p[j]], Rest(j + 1)) = Ok(<<vals[j + 1]>> \o (t \o r.val), r.next)
      <4> HIDE DEF Rest
      <4> QED BY <2>4, <3>4, Zenon DEF Turned
    <3>6. DecodeAll(turn, p[j]) = Rest(j)
      <4> HIDE DEF Rest
      <4> QED BY <2>3, <2>4, <2>5, <3>1, <3>2, <3>3, <3>5, Zenon
    <3> HIDE DEF Rest
    <3> QED BY <3>6
  <2> QED BY <2>6, <2>7
<1>3. 0 \in S
  <2> HIDE DEF S, n
  <2> QED BY <1>0, <1>1, <1>2, InductionDown
<1>4. DecodeAll(turn, p[0]) = Rest(0)
  <2> HIDE DEF Rest
  <2> QED BY <1>0, <1>3
<1>5. SubSeq(vals, 0 + 1, n) = vals
  OBVIOUS
<1> QED BY <1>4, <1>5, Zenon

-----------------------------------------------------------------------------
(***************************************************************************)
(* Primitives.                                                             *)
(***************************************************************************)

\* The widths as numbers.
LEMMA Widths ==
  /\ W16 \in Nat /\ W16 > 0 /\ W32 \in Nat /\ W32 > 0 /\ W64 \in Nat /\ W64 > 0
  /\ Radix \in Nat /\ Radix >= 12 /\ ArrayTag \in Nat /\ ArrayTag > 5 /\ 2 * ArrayTag <= Radix
BY WidthAssumption

\* Small numbers are bytes.
LEMMA SmallBytes == 0 .. 5 \subseteq Byte
BY Widths DEF Byte

\* What bytes_from_primitive writes, kind by kind.
LEMMA PrimitiveBytes ==
  ASSUME NEW p, IsPrimitive(p)
  PROVE  /\ p.dt \in Scalar /\ p = Prim(p.dt, p.val)
         /\ p.dt \in {Integer, Float} =>
              BytesFromPrimitive(p) = LE(p.val, W64) /\ p.val \in Nat /\ p.val < Pow[W64]
         /\ p.dt = Boolean => BytesFromPrimitive(p) = <<p.val>> /\ p.val \in {0, 1}
         /\ p.dt = String =>
              /\ BytesFromPrimitive(p) = LE(Len(p.val), W32) \o p.val
              /\ p.val \in Seq(Byte) /\ IsUtf8(p.val) /\ Len(p.val) < Pow[W32]
<1>1. Pow[W64] \in Nat
  BY PowType, Widths
<1>2. p.dt \in Scalar /\ p = Prim(p.dt, p.val)
  BY DEF IsPrimitive, Scalar
<1>3. p.dt \in {Integer, Float} => BytesFromPrimitive(p) = LE(p.val, W64) /\ p.val \in Nat /\ p.val < Pow[W64]
  <2> SUFFICES ASSUME p.dt \in {Integer, Float} PROVE BytesFromPrimitive(p) = LE(p.val, W64) /\ p.val \in Nat /\ p.val < Pow[W64]
    OBVIOUS
  <2>1. BytesFromPrimitive(p) = LE(p.val, W64)
    BY DEF BytesFromPrimitive, Integer, Float, String, Boolean
  <2>2. p.val \in 0 .. Pow[W64] - 1
    BY DEF IsPrimitive, Integer, Float, String, Boolean
  <2> QED BY <1>1, <2>1, <2>2
<1>4. p.dt = Boolean => BytesFromPrimitive(p) = <<p.val>> /\ p.val \in {0, 1}
  BY DEF BytesFromPrimitive, IsPrimitive, Integer, Float, String, Boolean
<1>5. p.dt = String => BytesFromPrimitive(p) = LE(Len(p.val), W32) \o p.val
  <2>1. String \notin {Integer, Float} /\ String # Boolean
    BY DEF Integer, Float, String, Boolean
  <2> QED BY <2>1, Zenon DEF BytesFromPrimitive
<1>6. p.dt = String => p.val \in Seq(Byte) /\ IsUtf8(p.val) /\ Len(p.val) < Pow[W32]
  BY DEF IsPrimitive, Integer, Float, String, Boolean
<1> QED BY <1>2, <1>3, <1>4, <1>5, <1>6, Zenon

\* The four kinds of primitive.
LEMMA ScalarCases ==
  ASSUME NEW dt \in Scalar
  PROVE  dt \in {Integer, Float} \/ dt = Boolean \/ dt = String
BY DEF Scalar

\* A primitive is at least one byte.
LEMMA PrimitiveBytesType ==
  ASSUME NEW p, IsPrimitive(p)
  PROVE  BytesFromPrimitive(p) \in Seq(Byte) /\ Len(BytesFromPrimitive(p)) > 0
<1>1. CASE p.dt \in {Integer, Float}
  <2>1. BytesFromPrimitive(p) = LE(p.val, W64) /\ p.val \in Nat
    BY <1>1, PrimitiveBytes
  <2>2. LE(p.val, W64) \in Seq(Byte) /\ Len(LE(p.val, W64)) = W64
    BY <2>1, LEType, Widths
  <2> QED BY <2>1, <2>2, Widths
<1>2. CASE p.dt = Boolean
  <2>1. BytesFromPrimitive(p) = <<p.val>> /\ p.val \in {0, 1}
    BY <1>2, PrimitiveBytes
  <2> QED BY <2>1, SmallBytes
<1>3. CASE p.dt = String
  <2>1. BytesFromPrimitive(p) = LE(Len(p.val), W32) \o p.val /\ p.val \in Seq(Byte)
    BY <1>3, PrimitiveBytes
  <2>2. LE(Len(p.val), W32) \in Seq(Byte) /\ Len(LE(Len(p.val), W32)) = W32
    BY <2>1, LEType, Widths
  <2>3. LE(Len(p.val), W32) \o p.val \in Seq(Byte) /\ Len(LE(Len(p.val), W32) \o p.val) = W32 + Len(p.val)
    BY <2>1, <2>2, ConcatFacts
  <2>4. W32 + Len(p.val) > 0
    BY <2>1, Widths
  <2> QED BY <2>1, <2>3, <2>4
<1> QED BY <1>1, <1>2, <1>3, PrimitiveBytes, ScalarCases

\* A number of n bytes that stands in b is read back as it was.
LEMMA HoldsLE ==
  ASSUME NEW b \in Seq(Byte), NEW pos \in Nat, NEW w \in Nat, NEW n \in Nat, n < Pow[w], Holds(b, pos, LE(n, w))
  PROVE  UnLE(Slice(b, pos, w)) = n /\ pos + w <= Len(b)
<1>1. LE(n, w) \in Seq(Byte) /\ Len(LE(n, w)) = w
  BY LEType
<1>2. pos + w <= Len(b) /\ Slice(b, pos, w) = LE(n, w)
  BY <1>1, HoldsSlice
<1> QED BY <1>2, UnLEOfLE

\* The same of a big-endian number.
LEMMA HoldsBE ==
  ASSUME NEW b \in Seq(Byte), NEW pos \in Nat, NEW w \in Nat, NEW n \in Nat, n < Pow[w], Holds(b, pos, BE(n, w))
  PROVE  UnBE(Slice(b, pos, w)) = n /\ pos + w <= Len(b)
<1>1. BE(n, w) \in Seq(Byte) /\ Len(BE(n, w)) = w
  BY BEType
<1>2. pos + w <= Len(b) /\ Slice(b, pos, w) = BE(n, w)
  BY <1>1, HoldsSlice
<1> QED BY <1>2, UnBEOfBE

\* What primitive_from_bytes does, kind by kind.
LEMMA PrimitiveCases ==
  ASSUME NEW buf, NEW dt
  PROVE  /\ dt \in {Integer, Float} =>
              PrimitiveFromBytes(dt, buf) =
                IF Len(buf) < W64 THEN Err ELSE Ok(Prim(dt, UnLE(Slice(buf, 0, W64))), W64)
         /\ dt = Boolean =>
              PrimitiveFromBytes(dt, buf) =
                IF buf = <<>> THEN Panic ELSE Ok(Prim(dt, IF buf[1] # 0 THEN 1 ELSE 0), 1)
         /\ dt = String =>
              PrimitiveFromBytes(dt, buf) =
                LET len == UnLE(Slice(buf, 0, W32))
                    s == Slice(buf, W32, len)
                IN IF Len(buf) < W32 THEN Err
                   ELSE IF Len(buf) < W32 + len THEN Panic
                   ELSE IF ~ IsUtf8(s) THEN Err
                   ELSE Ok(Prim(dt, s), W32 + len)
         /\ dt \notin Scalar => PrimitiveFromBytes(dt, buf) = Err
<1>1. /\ String \notin {Integer, Float} /\ Boolean \notin {Integer, Float} /\ String # Boolean
  BY DEF Integer, Float, String, Boolean
<1>2. dt \notin Scalar => dt \notin {Integer, Float} /\ dt # Boolean /\ dt # String
  BY DEF Scalar
<1>3. dt \in {Integer, Float} => dt # Boolean /\ dt # String
  BY <1>1
<1>4. dt \in {Integer, Float} =>
         PrimitiveFromBytes(dt, buf) = IF Len(buf) < W64 THEN Err ELSE Ok(Prim(dt, UnLE(Slice(buf, 0, W64))), W64)
  BY <1>3, Zenon DEF PrimitiveFromBytes
<1>5. dt = Boolean =>
         PrimitiveFromBytes(dt, buf) = IF buf = <<>> THEN Panic ELSE Ok(Prim(dt, IF buf[1] # 0 THEN 1 ELSE 0), 1)
  BY <1>1, Zenon DEF PrimitiveFromBytes
<1>6. dt = String =>
         PrimitiveFromBytes(dt, buf) =
           LET len == UnLE(Slice(buf, 0, W32))
               s == Slice(buf, W32, len)
           IN IF Len(buf) < W32 THEN Err
              ELSE IF Len(buf) < W32 + len THEN Panic
              ELSE IF ~ IsUtf8(s) THEN Err
              ELSE Ok(Prim(dt, s), W32 + len)
  BY <1>1, Zenon DEF PrimitiveFromBytes
<1>7. dt \notin Scalar => PrimitiveFromBytes(dt, buf) = Err
  BY <1>2, Zenon DEF PrimitiveFromBytes
<1> QED BY <1>4, <1>5, <1>6, <1>7, Zenon

\* primitive_from_bytes returns the primitive whose bytes begin its buffer and
\* moves the cursor behind them.
LEMMA PrimitiveRoundTrip ==
  ASSUME NEW p, IsPrimitive(p), NEW buf \in Seq(Byte), Holds(buf, 0, BytesFromPrimitive(p))
  PROVE  PrimitiveFromBytes(p.dt, buf) = Ok(p, Len(BytesFromPrimitive(p)))
<1> DEFINE dt == p.dt
           v == p.val
<1>0. p = Prim(dt, v) /\ dt \in Scalar
  BY PrimitiveBytes
<1>1. CASE dt \in {Integer, Float}
  <2>1. BytesFromPrimitive(p) = LE(v, W64) /\ v \in Nat /\ v < Pow[W64]
    BY <1>1, PrimitiveBytes
  <2>2. Holds(buf, 0, LE(v, W64)) /\ Len(LE(v, W64)) = W64
    BY <2>1, LEType, Widths
  <2>3. UnLE(Slice(buf, 0, W64)) = v /\ 0 + W64 <= Len(buf)
    BY <2>1, <2>2, HoldsLE, Widths
  <2>4. ~ (Len(buf) < W64)
    BY <2>3, Widths
  <2> HIDE DEF dt, v
  <2>5. PrimitiveFromBytes(dt, buf) = Ok(Prim(dt, v), W64)
    BY <1>1, <2>3, <2>4, PrimitiveCases
  <2> QED BY <1>0, <2>1, <2>2, <2>5 DEF dt
<1>2. CASE dt = Boolean
  <2>1. BytesFromPrimitive(p) = <<v>> /\ v \in {0, 1}
    BY <1>2, PrimitiveBytes
  <2>2. Holds(buf, 0, <<v>>)
    BY <2>1
  <2> HIDE DEF dt, v
  <2>3. buf # <<>> /\ buf[1] = v
    BY <2>2 DEF Holds
  <2>4. PrimitiveFromBytes(dt, buf) = Ok(Prim(dt, IF buf[1] # 0 THEN 1 ELSE 0), 1)
    BY <1>2, <2>3, PrimitiveCases
  <2>5. (IF buf[1] # 0 THEN 1 ELSE 0) = v
    BY <2>1, <2>3
  <2>6. Len(<<v>>) = 1
    OBVIOUS
  <2> QED BY <1>0, <2>1, <2>4, <2>5, <2>6, Zenon DEF dt
<1>3. CASE dt = String
  <2>1. BytesFromPrimitive(p) = LE(Len(v), W32) \o v /\ v \in Seq(Byte) /\ IsUtf8(v) /\ Len(v) < Pow[W32]
    BY <1>3, PrimitiveBytes
  <2> HIDE DEF v
  <2>2. LE(Len(v), W32) \in Seq(Byte) /\ Len(LE(Len(v), W32)) = W32 /\ Len(v) \in Nat
    BY <2>1, LEType, Widths
  <2>3. Holds(buf, 0, LE(Len(v), W32)) /\ Holds(buf, 0 + Len(LE(Len(v), W32)), v)
    <3>1. Holds(buf, 0, LE(Len(v), W32) \o v)
      BY <2>1
    <3> QED BY <2>1, <2>2, <3>1, HoldsConcat
  <2>4. UnLE(Slice(buf, 0, W32)) = Len(v) /\ 0 + W32 <= Len(buf)
    BY <2>1, <2>2, <2>3, HoldsLE, Widths
  <2>5. Holds(buf, W32, v)
    BY <2>2, <2>3, Widths
  <2>6. Slice(buf, W32, Len(v)) = v /\ W32 + Len(v) <= Len(buf)
    BY <2>1, <2>5, HoldsSlice, Widths
  <2>7. ~ (Len(buf) < W32) /\ ~ (Len(buf) < W32 + Len(v))
    BY <2>2, <2>4, <2>6, Widths
  <2> HIDE DEF dt
  <2>8. PrimitiveFromBytes(dt, buf) = Ok(Prim(dt, v), W32 + Len(v))
    BY <1>3, <2>1, <2>4, <2>6, <2>7, PrimitiveCases, Zenon
  <2>9. Len(LE(Len(v), W32) \o v) = W32 + Len(v)
    <3> DEFINE l == LE(Len(v), W32)
    <3>1. l \in Seq(Byte) /\ Len(l) = W32
      BY <2>2
    <3> HIDE DEF l
    <3>2. v \in Seq(Byte)
      BY <2>1
    <3>3. Len(l \o v) = Len(l) + Len(v)
      BY <3>1, <3>2
    <3> QED BY <3>1, <3>3 DEF l
  <2> QED BY <1>0, <2>1, <2>8, <2>9, Zenon DEF dt, v
<1> QED BY <1>0, <1>1, <1>2, <1>3, ScalarCases

\* Whatever primitive_from_bytes accepts is a primitive of the dtype asked for,
\* and the bytes it consumed are as many as that primitive is written with.
LEMMA PrimitiveSound ==
  ASSUME NEW dt, NEW buf \in Seq(Byte), PrimitiveFromBytes(dt, buf).out = "ok"
  PROVE  LET r == PrimitiveFromBytes(dt, buf)
         IN /\ IsPrimitive(r.val) /\ r.val.dt = dt
            /\ r.next \in Nat /\ r.next > 0 /\ r.next <= Len(buf) /\ Len(BytesFromPrimitive(r.val)) = r.next
<1> DEFINE r == PrimitiveFromBytes(dt, buf)
<1>0. dt \in Scalar
  BY PrimitiveCases, ErrFields
<1>a. ASSUME NEW v, NEW n, r = Ok(Prim(dt, v), n) PROVE r.val = Prim(dt, v) /\ r.next = n /\ Prim(dt, v).dt = dt /\ Prim(dt, v).val = v
  <2>1. Prim(dt, v).dt = dt /\ Prim(dt, v).val = v
    BY DEF Prim
  <2> HIDE DEF r
  <2> QED BY <1>a, <2>1, OkFields
<1>1. CASE dt \in {Integer, Float}
  <2> DEFINE v == UnLE(Slice(buf, 0, W64))
  <2>1. ~ (Len(buf) < W64) /\ r = Ok(Prim(dt, v), W64)
    BY <1>1, PrimitiveCases, ErrFields
  <2>2. Slice(buf, 0, W64) \in Seq(Byte) /\ Len(Slice(buf, 0, W64)) = W64
    BY <2>1, SliceType, Widths
  <2>3. v \in Nat /\ v < Pow[W64]
    BY <2>2, UnLEType
  <2> HIDE DEF r, v
  <2>4. r.val = Prim(dt, v) /\ r.next = W64 /\ Prim(dt, v).dt = dt /\ Prim(dt, v).val = v
    BY <1>a, <2>1
  <2>5. IsPrimitive(Prim(dt, v))
    <3>0. Pow[W64] \in Nat
      BY PowType, Widths
    <3>1. v \in 0 .. Pow[W64] - 1
      BY <2>3, <3>0
    <3> QED BY <1>1, <2>4, <3>1, Zenon DEF IsPrimitive
  <2>6. Len(BytesFromPrimitive(Prim(dt, v))) = W64
    <3>1. BytesFromPrimitive(Prim(dt, v)) = LE(v, W64)
      BY <1>1, <2>4, <2>5, PrimitiveBytes
    <3> QED BY <2>3, <3>1, LEType, Widths
  <2>7. W64 \in Nat /\ W64 > 0 /\ W64 <= Len(buf)
    BY <2>1, Widths
  <2> QED BY <2>4, <2>5, <2>6, <2>7, Zenon DEF r
<1>2. CASE dt = Boolean
  <2> DEFINE v == IF buf[1] # 0 THEN 1 ELSE 0
  <2>1. buf # <<>> /\ r = Ok(Prim(dt, v), 1)
    BY <1>2, PrimitiveCases, ErrFields
  <2>2. v \in {0, 1}
    OBVIOUS
  <2> HIDE DEF r, v
  <2>4. r.val = Prim(dt, v) /\ r.next = 1 /\ Prim(dt, v).dt = dt /\ Prim(dt, v).val = v
    BY <1>a, <2>1
  <2>5. IsPrimitive(Prim(dt, v))
    BY <1>2, <2>2, <2>4, Zenon DEF IsPrimitive
  <2>6. Len(BytesFromPrimitive(Prim(dt, v))) = 1
    <3>1. BytesFromPrimitive(Prim(dt, v)) = <<v>>
      BY <1>2, <2>4, <2>5, PrimitiveBytes
    <3> QED BY <3>1
  <2>7. 1 \in Nat /\ 1 > 0 /\ 1 <= Len(buf)
    BY <2>1
  <2> QED BY <2>4, <2>5, <2>6, <2>7, Zenon DEF r
<1>3. CASE dt = String
  <2> DEFINE len == UnLE(Slice(buf, 0, W32))
             v == Slice(buf, W32, len)
  <2>1. ~ (Len(buf) < W32) /\ ~ (Len(buf) < W32 + len) /\ IsUtf8(v) /\ r = Ok(Prim(dt, v), W32 + len)
    BY <1>3, PrimitiveCases, ErrFields, Zenon
  <2>2. len \in Nat /\ len < Pow[W32]
    <3>1. Slice(buf, 0, W32) \in Seq(Byte) /\ Len(Slice(buf, 0, W32)) = W32
      BY <2>1, SliceType, Widths
    <3> QED BY <3>1, UnLEType
  <2> HIDE DEF len
  <2>3. v \in Seq(Byte) /\ Len(v) = len
    BY <2>1, <2>2, SliceType, Widths
  <2> HIDE DEF r, v
  <2>4. r.val = Prim(dt, v) /\ r.next = W32 + len /\ Prim(dt, v).dt = dt /\ Prim(dt, v).val = v
    BY <1>a, <2>1
  <2>5. IsPrimitive(Prim(dt, v))
    <3>1. Len(v) < Pow[W32]
      BY <2>2, <2>3
    <3> QED BY <1>3, <2>1, <2>3, <2>4, <3>1, Zenon DEF IsPrimitive
  <2>6. Len(BytesFromPrimitive(Prim(dt, v))) = W32 + len
    <3>1. BytesFromPrimitive(Prim(dt, v)) = LE(Len(v), W32) \o v
      BY <1>3, <2>4, <2>5, PrimitiveBytes
    <3>2. LE(Len(v), W32) \in Seq(Byte) /\ Len(LE(Len(v), W32)) = W32
      BY <2>2, <2>3, LEType, Widths
    <3> QED BY <2>3, <3>1, <3>2, ConcatFacts
  <2>7. W32 + len \in Nat /\ W32 + len > 0 /\ W32 + len <= Len(buf)
    BY <2>1, <2>2, Widths
  <2> QED BY <2>4, <2>5, <2>6, <2>7, Zenon DEF r
<1> QED BY <1>0, <1>1, <1>2, <1>3, ScalarCases

-----------------------------------------------------------------------------
(***************************************************************************)
(* Fields.                                                                 *)
(***************************************************************************)

\* The dtypes by their first byte: scalars, raw bytes, and arrays of them.
LEMMA DtypeCases ==
  ASSUME NEW b \in Nat
  PROVE  /\ Raw \notin Scalar /\ Raw \in Byte /\ Scalar \subseteq Byte /\ Scalar \subseteq Nat
         /\ IsDtype(Raw) /\ (b \in Scalar => IsDtype(b))
         /\ b \in {Raw} \cup Scalar =>
              /\ ArrayTag + b \in Byte /\ IsDtype(ArrayTag + b) /\ ArrayTag + b \notin {Raw} \cup Scalar
              /\ (ArrayTag + b) - ArrayTag = b
         /\ IsDtype(b) /\ b \notin {Raw} \cup Scalar =>
              /\ b - ArrayTag \in Nat /\ ArrayTag + (b - ArrayTag) = b
              /\ IsDtype(b - ArrayTag) => b - ArrayTag \in {Raw} \cup Scalar
BY Widths DEF IsDtype, Scalar, Raw, Integer, Float, String, Boolean, Byte

\* What field_from_bytes does with a field that is not an array.
LEMMA FieldCases ==
  ASSUME NEW buf
  PROVE  /\ buf = <<>> \/ ~ IsDtype(buf[1]) => FieldFromBytes(buf) = Err
         /\ buf # <<>> /\ buf[1] \in Scalar =>
              FieldFromBytes(buf) =
                LET p == PrimitiveFromBytes(buf[1], Tail(buf))
                IN IF p.out # "ok" THEN p ELSE Ok(PrimitiveField(p.val), 1 + p.next)
         /\ buf # <<>> /\ buf[1] = Raw => FieldFromBytes(buf) = Ok(RawField(Tail(buf)), Len(buf))
         /\ buf # <<>> /\ IsDtype(buf[1]) /\ buf[1] \notin {Raw} \cup Scalar
              /\ (Len(Tail(buf)) < W32 \/ ~ IsDtype(buf[1] - ArrayTag)) =>
              FieldFromBytes(buf) = Err
<1>0. IsDtype(Raw) /\ Raw \notin Scalar /\ \A d \in Scalar : IsDtype(d)
  BY DEF IsDtype, Scalar, Raw, Integer, Float, String, Boolean
<1>1. buf = <<>> \/ ~ IsDtype(buf[1]) => FieldFromBytes(buf) = Err
  BY Zenon DEF FieldFromBytes
<1>2. buf # <<>> /\ buf[1] \in Scalar =>
        FieldFromBytes(buf) =
          LET p == PrimitiveFromBytes(buf[1], Tail(buf))
          IN IF p.out # "ok" THEN p ELSE Ok(PrimitiveField(p.val), 1 + p.next)
  BY <1>0, Zenon DEF FieldFromBytes
<1>3. buf # <<>> /\ buf[1] = Raw => FieldFromBytes(buf) = Ok(RawField(Tail(buf)), Len(buf))
  BY <1>0, Zenon DEF FieldFromBytes
<1>4. ASSUME buf # <<>>, IsDtype(buf[1]), buf[1] \notin {Raw} \cup Scalar,
             Len(Tail(buf)) < W32 \/ ~ IsDtype(buf[1] - ArrayTag)
      PROVE  FieldFromBytes(buf) = Err
  BY <1>4, Zenon DEF FieldFromBytes
<1> QED BY <1>1, <1>2, <1>3, <1>4, Zenon

\* One turn of the loop over the items of an array.
LoopTurn(got, item) ==
  IF got.out # "ok" THEN got
  ELSE IF item.out # "ok" THEN item
  ELSE Ok(Append(got.val, item.val), got.next + item.next)

\* What field_from_bytes makes of an array of count items of dtype of in payload:
\* f[n] is what it has after n of them.
LoopResult(buf, payload, of, count) ==
  \E f : /\ f[0] = Ok(<<>>, W32)
         /\ \A n \in 1 .. count :
              f[n] = LoopTurn(f[n - 1], PrimitiveFromBytes(of, SubSeq(payload, f[n - 1].next + 1, Len(payload))))
         /\ FieldFromBytes(buf) =
              IF f[count].out # "ok" THEN f[count] ELSE Ok(ArrayField(of, f[count].val), 1 + f[count].next)

\* The loop exists and is the one of the definition.
LEMMA FieldArray ==
  ASSUME NEW buf, buf # <<>>, IsDtype(buf[1]), buf[1] \notin {Raw} \cup Scalar,
         UnLE(Slice(Tail(buf), 0, W32)) \in Nat, ~ (Len(Tail(buf)) < W32), IsDtype(buf[1] - ArrayTag)
  PROVE  LoopResult(buf, Tail(buf), buf[1] - ArrayTag, UnLE(Slice(Tail(buf), 0, W32)))
<1> DEFINE pl == Tail(buf)
           o == buf[1] - ArrayTag
           c == UnLE(Slice(pl, 0, W32))
           Turn(got) == LoopTurn(got, PrimitiveFromBytes(o, SubSeq(pl, got.next + 1, Len(pl))))
           Good(m, f) == f = [n \in 0 .. m |-> IF n = 0 THEN Ok(<<>>, W32) ELSE Turn(f[n - 1])]
           S == {m \in Nat : \E f : Good(m, f)}
<1>a. c \in Nat /\ ~ (Len(pl) < W32) /\ IsDtype(o)
  OBVIOUS
<1> HIDE DEF pl, o, c, Turn
<1>1. 0 \in S
  <2>1. Good(0, [n \in 0 .. 0 |-> Ok(<<>>, W32)])
    OBVIOUS
  <2> QED BY <2>1
<1>2. ASSUME NEW m \in Nat, m \in S PROVE m + 1 \in S
  <2>1. PICK f : Good(m, f)
    BY <1>2
  <2> DEFINE g == [n \in 0 .. m + 1 |-> IF n = m + 1 THEN Turn(f[m]) ELSE f[n]]
  <2>2. \A n \in 0 .. m + 1 : g[n] = IF n = 0 THEN Ok(<<>>, W32) ELSE Turn(g[n - 1])
    <3> TAKE n \in 0 .. m + 1
    <3>1. CASE n = 0
      BY <2>1, <3>1
    <3>2. CASE n = m + 1
      <4>1. n # 0 /\ n - 1 = m /\ m \in 0 .. m + 1 /\ m # m + 1
        BY <3>2
      <4> QED BY <3>2, <4>1
    <3>3. CASE n # 0 /\ n # m + 1
      <4>1. n \in 0 .. m /\ n - 1 \in 0 .. m /\ n - 1 \in 0 .. m + 1 /\ n - 1 # m + 1
        BY <3>3
      <4>2. f[n] = Turn(f[n - 1])
        BY <2>1, <3>3, <4>1
      <4> QED BY <3>3, <4>1, <4>2
    <3> QED BY <3>1, <3>2, <3>3
  <2>3. Good(m + 1, g)
    BY <2>2
  <2> HIDE DEF g
  <2> QED BY <2>3
<1>3. \E f : Good(c, f)
  <2>1. c \in S
    <3> HIDE DEF S
    <3> QED BY <1>a, <1>1, <1>2, Induction
  <2> HIDE DEF Good
  <2> QED BY <2>1
<1> DEFINE after == CHOOSE f : Good(c, f)
<1>4. Good(c, after)
  <2> HIDE DEF Good
  <2> QED BY <1>3
<1>5. FieldFromBytes(buf) =
        IF after[c].out # "ok" THEN after[c] ELSE Ok(ArrayField(o, after[c].val), 1 + after[c].next)
  BY <1>a, Zenon DEF FieldFromBytes, Turn, LoopTurn, pl, o, c
<1> HIDE DEF after
<1>6. after[0] = Ok(<<>>, W32) /\ \A n \in 1 .. c : after[n] = Turn(after[n - 1])
  <2>1. 0 \in 0 .. c /\ \A n \in 1 .. c : n \in 0 .. c /\ n # 0
    BY <1>a
  <2> QED BY <1>4, <2>1
<1>7. LoopResult(buf, pl, o, c)
  BY <1>5, <1>6, Zenon DEF Turn, LoopResult
<1> QED BY <1>7, Zenon DEF pl, o, c

\* What is left behind the cursor begins with what stands there.
LEMMA HoldsSuffix ==
  ASSUME NEW b \in Seq(Byte), NEW pos \in Nat, NEW s \in Seq(Byte), Holds(b, pos, s)
  PROVE  SubSeq(b, pos + 1, Len(b)) \in Seq(Byte) /\ Holds(SubSeq(b, pos + 1, Len(b)), 0, s)
<1> DEFINE t == SubSeq(b, pos + 1, Len(b))
<1>0. pos <= Len(b) /\ Len(b) \in Nat
  BY DEF Holds
<1>1. t \in Seq(Byte) /\ Len(t) = Len(b) - pos /\ \A i \in 1 .. Len(b) - pos : t[i] = b[pos + i]
  BY <1>0
<1> HIDE DEF t
<1>2. Holds(t, 0, s)
  <2>1. Len(s) \in Nat /\ Len(s) <= Len(b) - pos
    BY <1>0 DEF Holds
  <2>2. ASSUME NEW i \in 1 .. Len(s) PROVE t[0 + i] = s[i]
    <3>1. i \in 1 .. Len(b) - pos /\ 0 + i = i
      BY <1>0, <2>1
    <3> QED BY <1>1, <3>1 DEF Holds
  <2> QED BY <1>0, <1>1, <2>1, <2>2 DEF Holds
<1> QED BY <1>1, <1>2 DEF t

\* The bytes of the items of an array.
ItemBytes(items) == [i \in 1 .. Len(items) |-> BytesFromPrimitive(items[i])]

\* They are pieces of at least one byte each.
LEMMA ItemBytesType ==
  ASSUME NEW items, Len(items) \in Nat, \A i \in 1 .. Len(items) : IsPrimitive(items[i])
  PROVE  /\ ItemBytes(items) \in Seq(Seq(Byte)) /\ Len(ItemBytes(items)) = Len(items)
         /\ \A i \in 1 .. Len(items) : ItemBytes(items)[i] = BytesFromPrimitive(items[i])
<1>1. \A i \in 1 .. Len(items) : BytesFromPrimitive(items[i]) \in Seq(Byte)
  BY PrimitiveBytesType
<1> DEFINE B == Seq(Byte)
<1> HIDE DEF B
<1>2. ItemBytes(items) \in [1 .. Len(items) -> B]
  BY <1>1 DEF ItemBytes, B
<1>3. ItemBytes(items) \in Seq(B) /\ Len(ItemBytes(items)) = Len(items)
  BY <1>2
<1> QED BY <1>3 DEF B, ItemBytes

\* The three kinds of field.
LEMMA FieldKinds ==
  ASSUME NEW f, IsField(f)
  PROVE  \/ \E p : /\ IsPrimitive(p) /\ f = PrimitiveField(p)
                   /\ BytesFromField(f) = <<p.dt>> \o BytesFromPrimitive(p)
         \/ \E s \in Seq(Byte) : f = RawField(s) /\ BytesFromField(f) = <<Raw>> \o s
         \/ \E items, of :
              /\ f = ArrayField(of, items) /\ of \in {Raw} \cup Scalar
              /\ items \in Seq(Range(items)) /\ Len(items) < Pow[W32]
              /\ \A i \in 1 .. Len(items) : IsPrimitive(items[i]) /\ items[i].dt = of
              /\ BytesFromField(f) = (<<ArrayTag + of>> \o LE(Len(items), W32)) \o FlattenSeq(ItemBytes(items))
<1>1. CASE f.kind = "primitive"
  <2>1. f = PrimitiveField(f.items[1]) /\ IsPrimitive(f.items[1])
    BY <1>1 DEF IsField
  <2>2. PICK p : p = f.items[1]
    OBVIOUS
  <2>3. f = [kind |-> "primitive", of |-> p.dt, items |-> <<p>>]
    BY <2>1, <2>2, Zenon DEF PrimitiveField
  <2>4. f.of = p.dt /\ f.items = <<p>>
    BY <2>3
  <2>5. BytesFromField(f) = <<f.of>> \o BytesFromPrimitive(f.items[1])
    BY <1>1, Zenon DEF BytesFromField
  <2> QED BY <2>1, <2>2, <2>4, <2>5, Zenon
<1>2. CASE f.kind = "raw"
  <2>1. f = RawField(f.items) /\ f.items \in Seq(Byte)
    BY <1>2 DEF IsField
  <2>2. BytesFromField(f) = <<Raw>> \o f.items
    BY <1>2 DEF BytesFromField
  <2> QED BY <2>1, <2>2, Zenon
<1>3. CASE f.kind = "array"
  <2>1. /\ f = ArrayField(f.of, f.items) /\ f.of \in {Raw} \cup Scalar
        /\ f.items \in Seq(Range(f.items)) /\ Len(f.items) < Pow[W32]
        /\ \A i \in 1 .. Len(f.items) : IsPrimitive(f.items[i]) /\ f.items[i].dt = f.of
    BY <1>3 DEF IsField
  <2>2. BytesFromField(f) = (<<ArrayTag + f.of>> \o LE(Len(f.items), W32)) \o FlattenSeq(ItemBytes(f.items))
    BY <1>3 DEF BytesFromField, ItemBytes
  <2> QED BY <2>1, <2>2, Zenon
<1> QED BY <1>1, <1>2, <1>3 DEF IsField

\* A sequence with its first element.
LEMMA HeadTail ==
  ASSUME NEW x \in Byte, NEW s \in Seq(Byte)
  PROVE  LET b == <<x>> \o s
         IN b \in Seq(Byte) /\ b # <<>> /\ Len(b) = 1 + Len(s) /\ b[1] = x /\ Tail(b) = s
<1> DEFINE b == <<x>> \o s
<1>1. b \in Seq(Byte) /\ Len(b) = 1 + Len(s) /\ b[1] = x /\ \A i \in 1 .. Len(s) : b[i + 1] = s[i]
  OBVIOUS
<1> HIDE DEF b
<1>2. b # <<>> /\ Tail(b) \in Seq(Byte) /\ Len(Tail(b)) = Len(s) /\ \A i \in 1 .. Len(s) : Tail(b)[i] = b[i + 1]
  BY <1>1
<1>3. Tail(b) = s
  BY <1>1, <1>2
<1> QED BY <1>1, <1>2, <1>3 DEF b

\* The bytes of a field are bytes, at least one.
LEMMA FieldBytesType ==
  ASSUME NEW f, IsField(f)
  PROVE  BytesFromField(f) \in Seq(Byte) /\ Len(BytesFromField(f)) > 0
<1>1. ASSUME NEW p, IsPrimitive(p), BytesFromField(f) = <<p.dt>> \o BytesFromPrimitive(p)
      PROVE  BytesFromField(f) \in Seq(Byte) /\ Len(BytesFromField(f)) > 0
  <2>1. p.dt \in Byte
    <3>1. p.dt \in Scalar /\ 0 \in Nat
      BY <1>1, PrimitiveBytes
    <3> QED BY <3>1, DtypeCases
  <2>2. BytesFromPrimitive(p) \in Seq(Byte)
    BY <1>1, PrimitiveBytesType
  <2> QED BY <1>1, <2>1, <2>2, HeadTail
<1>2. ASSUME NEW s \in Seq(Byte), BytesFromField(f) = <<Raw>> \o s
      PROVE  BytesFromField(f) \in Seq(Byte) /\ Len(BytesFromField(f)) > 0
  BY <1>2, HeadTail, DtypeCases
<1>3. ASSUME NEW items, NEW of, of \in {Raw} \cup Scalar, items \in Seq(Range(items)),
             \A i \in 1 .. Len(items) : IsPrimitive(items[i]),
             BytesFromField(f) = (<<ArrayTag + of>> \o LE(Len(items), W32)) \o FlattenSeq(ItemBytes(items))
      PROVE  BytesFromField(f) \in Seq(Byte) /\ Len(BytesFromField(f)) > 0
  <2>1. Len(items) \in Nat
    BY <1>3
  <2>2. FlattenSeq(ItemBytes(items)) \in Seq(Byte)
    BY <1>3, <2>1, ItemBytesType, FlattenType
  <2>3. LE(Len(items), W32) \in Seq(Byte)
    BY <2>1, LEType, Widths
  <2>4. ArrayTag + of \in Byte
    <3>1. of \in Nat
      BY <1>3 DEF Raw, Scalar, Integer, Float, String, Boolean
    <3> QED BY <1>3, <3>1, DtypeCases
  <2> DEFINE t == <<ArrayTag + of>>
             l == LE(Len(items), W32)
             v == FlattenSeq(ItemBytes(items))
  <2>5. t \in Seq(Byte) /\ Len(t) = 1 /\ l \in Seq(Byte) /\ v \in Seq(Byte)
    BY <2>2, <2>3, <2>4
  <2> HIDE DEF t, l, v
  <2>6. (t \o l) \o v \in Seq(Byte) /\ Len((t \o l) \o v) = 1 + Len(l) + Len(v)
    <3> DEFINE tl == t \o l
    <3>1. tl \in Seq(Byte) /\ Len(tl) = Len(t) + Len(l)
      BY <2>5, ConcatFacts
    <3> HIDE DEF tl
    <3>2. tl \o v \in Seq(Byte) /\ Len(tl \o v) = Len(tl) + Len(v)
      BY <2>5, <3>1, ConcatFacts
    <3> QED BY <2>5, <3>1, <3>2 DEF tl
  <2>7. Len(l) \in Nat /\ Len(v) \in Nat
    BY <2>5
  <2> QED BY <1>3, <2>6, <2>7 DEF t, l, v
<1> QED BY <1>1, <1>2, <1>3, FieldKinds, Zenon

\* The loop over the bytes of an array of primitives finds them all.
LEMMA ArrayLoop ==
  ASSUME NEW items, items \in Seq(Range(items)), NEW of,
         \A i \in 1 .. Len(items) : IsPrimitive(items[i]) /\ items[i].dt = of,
         NEW payload \in Seq(Byte), NEW l \in Seq(Byte), Len(l) = W32,
         payload = l \o FlattenSeq(ItemBytes(items)),
         NEW f, f[0] = Ok(<<>>, W32),
         \A n \in 1 .. Len(items) :
           f[n] = LoopTurn(f[n - 1], PrimitiveFromBytes(of, SubSeq(payload, f[n - 1].next + 1, Len(payload))))
  PROVE  f[Len(items)] = Ok(items, W32 + Len(FlattenSeq(ItemBytes(items))))
<1> DEFINE ss == ItemBytes(items)
           c == Len(items)
           S == {n \in Nat : n <= c => f[n] = Ok(SubSeq(items, 1, n), W32 + Off(ss, n))}
<1>0. c \in Nat
  OBVIOUS
<1>1. /\ ss \in Seq(Seq(Byte)) /\ Len(ss) = c
      /\ \A i \in 1 .. c : ss[i] = BytesFromPrimitive(items[i]) /\ ss[i] \in Seq(Byte)
  <2>1. /\ ss \in Seq(Seq(Byte)) /\ Len(ss) = c
        /\ \A i \in 1 .. c : ss[i] = BytesFromPrimitive(items[i])
    BY <1>0, ItemBytesType
  <2>2. \A i \in 1 .. c : BytesFromPrimitive(items[i]) \in Seq(Byte)
    BY PrimitiveBytesType
  <2> QED BY <2>1, <2>2
<1> HIDE DEF ss
<1>2. /\ Off(ss, 0) = 0 /\ Off(ss, c) = Len(FlattenSeq(ss))
      /\ \A i \in 0 .. c : Off(ss, i) \in Nat
      /\ \A i \in 1 .. c : Off(ss, i) = Off(ss, i - 1) + Len(ss[i])
  <2>1. /\ Off(ss, 0) = 0 /\ Off(ss, Len(ss)) = Len(FlattenSeq(ss))
        /\ \A i \in 0 .. Len(ss) : Off(ss, i) \in Nat
        /\ \A i \in 1 .. Len(ss) : Off(ss, i) = Off(ss, i - 1) + Len(ss[i])
    BY <1>1, OffFacts
  <2> QED BY <1>1, <2>1
<1>3. 0 \in S
  <2>1. SubSeq(items, 1, 0) = <<>> /\ W32 + 0 = W32
    BY Widths
  <2> QED BY <1>2, <2>1
<1>4. ASSUME NEW n \in Nat, n \in S PROVE n + 1 \in S
  <2> SUFFICES ASSUME n + 1 <= c PROVE f[n + 1] = Ok(SubSeq(items, 1, n + 1), W32 + Off(ss, n + 1))
    OBVIOUS
  <2>1. n + 1 \in 1 .. c /\ n \in 0 .. c /\ (n + 1) - 1 = n /\ n <= c
    BY <1>0
  <2> DEFINE p == items[n + 1]
             at == W32 + Off(ss, n)
             rest == SubSeq(payload, at + 1, Len(payload))
             item == PrimitiveFromBytes(of, rest)
  <2>2. f[n] = Ok(SubSeq(items, 1, n), at)
    BY <1>4, <2>1
  <2>3. IsPrimitive(p) /\ p.dt = of /\ ss[n + 1] = BytesFromPrimitive(p) /\ ss[n + 1] \in Seq(Byte)
    BY <1>1, <2>1
  <2>4. at \in Nat /\ Holds(payload, at, ss[n + 1])
    <3>1. Off(ss, n) \in Nat
      BY <1>2, <2>1
    <3>2. Holds(l \o FlattenSeq(ss), Len(l) + Off(ss, (n + 1) - 1), ss[n + 1])
      BY <1>1, <2>1, FlattenHolds
    <3> QED BY <2>1, <3>1, <3>2, Widths DEF ss
  <2> HIDE DEF p, at
  <2>5. rest \in Seq(Byte) /\ Holds(rest, 0, ss[n + 1])
    BY <2>3, <2>4, HoldsSuffix
  <2> HIDE DEF rest
  <2>6. item = Ok(p, Len(ss[n + 1]))
    BY <2>3, <2>5, PrimitiveRoundTrip
  <2>7. f[n + 1] = LoopTurn(f[n], item)
    <3>1. f[n + 1] = LoopTurn(f[(n + 1) - 1], PrimitiveFromBytes(of, SubSeq(payload, f[(n + 1) - 1].next + 1, Len(payload))))
      BY <2>1, Zenon
    <3>2. f[n].next = at
      BY <2>2, OkFields
    <3> QED BY <2>1, <3>1, <3>2, Zenon DEF rest
  <2> HIDE DEF item
  <2>8. LoopTurn(f[n], item) = Ok(Append(SubSeq(items, 1, n), p), at + Len(ss[n + 1]))
    <3>1. f[n].out = "ok" /\ f[n].val = SubSeq(items, 1, n) /\ f[n].next = at
      BY <2>2 DEF Ok
    <3>2. item.out = "ok" /\ item.val = p /\ item.next = Len(ss[n + 1])
      BY <2>6, OkFields
    <3> QED BY <3>1, <3>2, Zenon DEF LoopTurn
  <2>9. Append(SubSeq(items, 1, n), p) = SubSeq(items, 1, n + 1)
    BY <2>1 DEF p
  <2>10. at + Len(ss[n + 1]) = W32 + Off(ss, n + 1)
    <3>1. Off(ss, n + 1) = Off(ss, n) + Len(ss[n + 1]) /\ Off(ss, n) \in Nat /\ Len(ss[n + 1]) \in Nat
      BY <1>2, <2>1, <2>3
    <3> QED BY <3>1, Widths DEF at
  <2> QED BY <2>7, <2>8, <2>9, <2>10, Zenon
<1>5. c \in S
  <2> HIDE DEF S
  <2> QED BY <1>0, <1>3, <1>4, Induction
<1>6. SubSeq(items, 1, c) = items
  OBVIOUS
<1>7. f[c] = Ok(SubSeq(items, 1, c), W32 + Off(ss, c))
  BY <1>0, <1>5
<1> QED BY <1>2, <1>6, <1>7, Zenon DEF ss

\* field_from_bytes returns the field that bytes_from_field was given.
THEOREM FieldRoundTrip ==
  ASSUME NEW f, IsField(f)
  PROVE  FieldFromBytes(BytesFromField(f)) = Ok(f, Len(BytesFromField(f)))
<1> DEFINE buf == BytesFromField(f)
<1>1. ASSUME NEW p, IsPrimitive(p), f = PrimitiveField(p), buf = <<p.dt>> \o BytesFromPrimitive(p)
      PROVE  FieldFromBytes(buf) = Ok(f, Len(buf))
  <2> DEFINE s == BytesFromPrimitive(p)
  <2>1. s \in Seq(Byte) /\ p.dt \in Scalar /\ p.dt \in Byte
    <3>1. p.dt \in Scalar /\ 0 \in Nat
      BY <1>1, PrimitiveBytes
    <3> QED BY <1>1, <3>1, DtypeCases, PrimitiveBytesType
  <2>2. PrimitiveFromBytes(p.dt, s) = Ok(p, Len(s))
    <3>1. Holds(s, 0, s)
      BY <2>1, HoldsWhole
    <3> QED BY <1>1, <2>1, <3>1, PrimitiveRoundTrip
  <2> HIDE DEF s, buf
  <2>3. buf # <<>> /\ Len(buf) = 1 + Len(s) /\ buf[1] = p.dt /\ Tail(buf) = s
    BY <1>1, <2>1, HeadTail DEF s
  <2>4. FieldFromBytes(buf) = Ok(PrimitiveField(p), 1 + Len(s))
    <3>1. PICK r : r = PrimitiveFromBytes(p.dt, s)
      OBVIOUS
    <3>2. r.out = "ok" /\ r.val = p /\ r.next = Len(s)
      BY <2>2, <3>1, OkFields
    <3>3. FieldFromBytes(buf) = IF r.out # "ok" THEN r ELSE Ok(PrimitiveField(r.val), 1 + r.next)
      BY <2>1, <2>3, <3>1, FieldCases, Zenon
    <3> QED BY <3>2, <3>3, Zenon
  <2> QED BY <1>1, <2>3, <2>4, Zenon
<1>2. ASSUME NEW s \in Seq(Byte), f = RawField(s), buf = <<Raw>> \o s
      PROVE  FieldFromBytes(buf) = Ok(f, Len(buf))
  <2> HIDE DEF buf
  <2>1. buf # <<>> /\ buf[1] = Raw /\ Tail(buf) = s
    BY <1>2, HeadTail, DtypeCases
  <2> QED BY <1>2, <2>1, FieldCases, Zenon
<1>3. ASSUME NEW items, NEW of, f = ArrayField(of, items), of \in {Raw} \cup Scalar,
             items \in Seq(Range(items)), Len(items) < Pow[W32],
             \A i \in 1 .. Len(items) : IsPrimitive(items[i]) /\ items[i].dt = of,
             buf = (<<ArrayTag + of>> \o LE(Len(items), W32)) \o FlattenSeq(ItemBytes(items))
      PROVE  FieldFromBytes(buf) = Ok(f, Len(buf))
  <2> DEFINE c == Len(items)
             l == LE(c, W32)
             v == FlattenSeq(ItemBytes(items))
             t == ArrayTag + of
             payload == l \o v
  <2>1. c \in Nat /\ c < Pow[W32]
    BY <1>3
  <2>2. v \in Seq(Byte)
    BY <1>3, <2>1, ItemBytesType, FlattenType
  <2>3. l \in Seq(Byte) /\ Len(l) = W32
    BY <2>1, LEType, Widths
  <2>4. t \in Byte /\ IsDtype(t) /\ t \notin {Raw} \cup Scalar /\ t - ArrayTag = of /\ IsDtype(of)
    <3>1. of \in Nat
      BY <1>3 DEF Raw, Scalar, Integer, Float, String, Boolean
    <3> QED BY <1>3, <3>1, DtypeCases
  <2> HIDE DEF c, l, v, t, buf
  <2>5. payload \in Seq(Byte) /\ Len(payload) = W32 + Len(v) /\ Len(v) \in Nat
    BY <2>2, <2>3
  <2>6. buf = <<t>> \o payload
    <3>1. <<t>> \in Seq(Byte)
      BY <2>4
    <3>2. buf = (<<t>> \o l) \o v
      BY <1>3 DEF t, l, v, c
    <3> QED BY <2>2, <2>3, <3>1, <3>2, ConcatAssoc
  <2>7. UnLE(Slice(payload, 0, W32)) = c
    <3>1. Holds(payload, 0, l)
      <4>1. Holds(l, 0, l)
        BY <2>3, HoldsWhole
      <4> QED BY <2>2, <2>3, <4>1, HoldsPrefix
    <3> QED BY <2>1, <2>5, <3>1, HoldsLE, Widths DEF l
  <2>8. ~ (Len(payload) < W32)
    BY <2>5, Widths
  <2>p. PICK pl : pl = payload
    OBVIOUS
  <2> HIDE DEF payload
  <2>9. buf # <<>> /\ Len(buf) = 1 + Len(pl) /\ buf[1] = t /\ Tail(buf) = pl
    BY <2>4, <2>5, <2>6, <2>p, HeadTail
  <2>10. PICK g : /\ g[0] = Ok(<<>>, W32)
                  /\ \A n \in 1 .. c :
                       g[n] = LoopTurn(g[n - 1], PrimitiveFromBytes(of, SubSeq(pl, g[n - 1].next + 1, Len(pl))))
                  /\ FieldFromBytes(buf) =
                       IF g[c].out # "ok" THEN g[c] ELSE Ok(ArrayField(of, g[c].val), 1 + g[c].next)
    <3>1. buf # <<>> /\ IsDtype(buf[1]) /\ buf[1] \notin {Raw} \cup Scalar /\ IsDtype(of)
      BY <2>4, <2>9
    <3>2. pl = Tail(buf) /\ of = buf[1] - ArrayTag /\ c = UnLE(Slice(Tail(buf), 0, W32))
      BY <2>1, <2>4, <2>7, <2>8, <2>9, <2>p
    <3>3. UnLE(Slice(Tail(buf), 0, W32)) \in Nat /\ ~ (Len(Tail(buf)) < W32) /\ IsDtype(buf[1] - ArrayTag)
      BY <2>1, <2>8, <2>p, <3>1, <3>2
    <3>4. LoopResult(buf, Tail(buf), buf[1] - ArrayTag, UnLE(Slice(Tail(buf), 0, W32)))
      BY <3>1, <3>3, FieldArray, Zenon
    <3>5. LoopResult(buf, pl, of, c)
      BY <3>2, <3>4, Zenon
    <3> QED BY <3>5, Zenon DEF LoopResult
  <2>11. g[c] = Ok(items, W32 + Len(v))
    <3>1. pl \in Seq(Byte) /\ pl = l \o FlattenSeq(ItemBytes(items)) /\ l \in Seq(Byte) /\ Len(l) = W32
      BY <2>3, <2>5, <2>p DEF v, payload
    <3>2. \A n \in 1 .. Len(items) :
            g[n] = LoopTurn(g[n - 1], PrimitiveFromBytes(of, SubSeq(pl, g[n - 1].next + 1, Len(pl))))
      BY <2>10 DEF c
    <3>3. g[Len(items)] = Ok(items, W32 + Len(FlattenSeq(ItemBytes(items))))
      BY <1>3, <2>10, <3>1, <3>2, ArrayLoop, ZenonT(60)
    <3> QED BY <3>3 DEF c, v
  <2>12. FieldFromBytes(buf) = Ok(ArrayField(of, items), 1 + (W32 + Len(v)))
    <3>1. g[c].out = "ok" /\ g[c].val = items /\ g[c].next = W32 + Len(v)
      BY <2>11 DEF Ok
    <3> QED BY <2>10, <3>1, Zenon
  <2>13. Len(buf) = 1 + (W32 + Len(v))
    BY <2>5, <2>9, <2>p
  <2> QED BY <1>3, <2>12, <2>13, Zenon
<1> QED BY <1>1, <1>2, <1>3, FieldKinds, Zenon

\* A sequence whose elements are in U is a sequence of U.
LEMMA ElementsIn ==
  ASSUME NEW T, NEW U, NEW s \in Seq(T), \A i \in 1 .. Len(s) : s[i] \in U
  PROVE  s \in Seq(U)
<1>1. Len(s) \in Nat /\ s = [i \in 1 .. Len(s) |-> s[i]]
  OBVIOUS
<1>2. ASSUME NEW n \in Nat, \A i \in 1 .. n : s[i] \in U PROVE [i \in 1 .. n |-> s[i]] \in Seq(U)
  BY <1>2
<1>3. [i \in 1 .. Len(s) |-> s[i]] \in Seq(U)
  BY <1>1, <1>2
<1> QED BY <1>1, <1>3, Zenon

\* What is left of a buffer after its first at bytes.
LEMMA SuffixFacts ==
  ASSUME NEW b \in Seq(Byte), NEW at \in Nat, at <= Len(b)
  PROVE  SubSeq(b, at + 1, Len(b)) \in Seq(Byte) /\ Len(SubSeq(b, at + 1, Len(b))) = Len(b) - at
<1>1. Len(b) \in Nat
  OBVIOUS
<1> DEFINE B == Byte
<1>2. b \in Seq(B)
  OBVIOUS
<1> HIDE DEF B
<1>3. SubSeq(b, at + 1, Len(b)) \in Seq(B) /\ Len(SubSeq(b, at + 1, Len(b))) = Len(b) - at
  BY <1>1, <1>2
<1> QED BY <1>3 DEF B

\* The count items the loop has read from payload up to next.
ItemsRead(items, next, of, count, payload) ==
  /\ items \in Seq(Range(items)) /\ Len(items) = count
  /\ \A i \in 1 .. Len(items) : IsPrimitive(items[i]) /\ items[i].dt = of
  /\ next = W32 + Len(FlattenSeq(ItemBytes(items))) /\ next <= Len(payload)

\* The loop over the items accepts only primitives of the dtype, and consumes
\* as many bytes as they are written with.
LEMMA ArrayLoopSound ==
  ASSUME NEW of, NEW payload \in Seq(Byte), Len(payload) >= W32, NEW count \in Nat,
         NEW f, f[0] = Ok(<<>>, W32),
         \A n \in 1 .. count :
           f[n] = LoopTurn(f[n - 1], PrimitiveFromBytes(of, SubSeq(payload, f[n - 1].next + 1, Len(payload)))),
         f[count].out = "ok"
  PROVE  ItemsRead(f[count].val, f[count].next, of, count, payload)
<1> DEFINE Good(n, items, next) ==
             /\ items \in Seq(Range(items)) /\ Len(items) = n
             /\ \A i \in 1 .. n : IsPrimitive(items[i]) /\ items[i].dt = of
             /\ next = W32 + Len(FlattenSeq(ItemBytes(items))) /\ next <= Len(payload)
           S == {n \in Nat : n <= count /\ f[n].out = "ok" => Good(n, f[n].val, f[n].next)}
<1>1. 0 \in S
  <2>1. f[0].val = <<>> /\ f[0].next = W32
    BY DEF Ok
  <2>2. Good(0, <<>>, W32)
    <3>1. <<>> \in Seq(Range(<<>>)) /\ Len(<<>>) = 0
      OBVIOUS
    <3>2. ItemBytes(<<>>) = <<>>
      BY DEF ItemBytes
    <3>3. Len(FlattenSeq(ItemBytes(<<>>))) = 0
      BY <3>1, <3>2, FlattenEmpty, Zenon
    <3> QED BY <3>1, <3>3, Widths
  <2> HIDE DEF Good
  <2> QED BY <2>1, <2>2
<1>2. ASSUME NEW n \in Nat, n \in S PROVE n + 1 \in S
  <2> SUFFICES ASSUME n + 1 <= count, f[n + 1].out = "ok" PROVE Good(n + 1, f[n + 1].val, f[n + 1].next)
    BY DEF S
  <2> DEFINE s == f[n].val
             at == f[n].next
             rest == SubSeq(payload, at + 1, Len(payload))
             item == PrimitiveFromBytes(of, rest)
             p == item.val
  <2>1. f[n + 1] = LoopTurn(f[n], item)
    <3>1. n + 1 \in 1 .. count /\ (n + 1) - 1 = n
      OBVIOUS
    <3> QED BY <3>1, Zenon
  <2>2. f[n].out = "ok" /\ item.out = "ok"
    <3> HIDE DEF item
    <3> QED BY <2>1, Zenon DEF LoopTurn
  <2>3. f[n + 1] = Ok(Append(s, p), at + item.next)
    <3> HIDE DEF item
    <3> QED BY <2>1, <2>2, Zenon DEF LoopTurn
  <2>4. Good(n, s, at)
    <3> HIDE DEF Good
    <3> QED BY <1>2, <2>2 DEF S
  <2>5. /\ s \in Seq(Range(s)) /\ Len(s) = n /\ \A i \in 1 .. n : IsPrimitive(s[i]) /\ s[i].dt = of
        /\ at = W32 + Len(FlattenSeq(ItemBytes(s))) /\ at <= Len(payload)
    BY <2>4
  <2> HIDE DEF s, at, Good
  <2>6. FlattenSeq(ItemBytes(s)) \in Seq(Byte) /\ ItemBytes(s) \in Seq(Seq(Byte))
    BY <2>5, ItemBytesType, FlattenType
  <2>7. at \in Nat
    BY <2>5, <2>6, Widths
  <2>8. rest \in Seq(Byte) /\ Len(rest) = Len(payload) - at
    <3>1. at \in Nat /\ at <= Len(payload)
      BY <2>5, <2>7
    <3> QED BY <3>1, SuffixFacts
  <2> HIDE DEF rest
  <2>9. /\ IsPrimitive(p) /\ p.dt = of /\ item.next \in Nat /\ item.next <= Len(rest)
        /\ Len(BytesFromPrimitive(p)) = item.next
    BY <2>2, <2>8, PrimitiveSound
  <2> HIDE DEF p, item
  <2> DEFINE t == Append(s, p)
  <2>10. /\ t \in Seq(Range(s) \cup {p}) /\ Len(t) = n + 1 /\ t[n + 1] = p
         /\ \A i \in 1 .. n : t[i] = s[i]
    BY <2>5
  <2>11. t \in Seq(Range(t))
    <3> HIDE DEF t
    <3>1. \A i \in 1 .. Len(t) : t[i] \in Range(t)
      <4>1. DOMAIN t = 1 .. Len(t)
        BY <2>10
      <4> QED BY <4>1, Zenon DEF Range
    <3> DEFINE U == Range(s) \cup {p}
               W == Range(t)
    <3>2. t \in Seq(U) /\ \A i \in 1 .. Len(t) : t[i] \in W
      BY <2>10, <3>1
    <3> HIDE DEF U, W
    <3>3. t \in Seq(W)
      BY <3>2, ElementsIn, Zenon
    <3> QED BY <3>3 DEF W
  <2>12. ItemBytes(t) = Append(ItemBytes(s), BytesFromPrimitive(p))
    <3> DEFINE B == Seq(Byte)
               ib == ItemBytes(s)
               x == BytesFromPrimitive(p)
    <3>1. ib \in Seq(B) /\ Len(ib) = n /\ x \in B
      BY <2>5, <2>6, <2>9, ItemBytesType, PrimitiveBytesType
    <3>2. \A i \in 1 .. n : ib[i] = BytesFromPrimitive(s[i])
      BY <2>5 DEF ItemBytes
    <3> HIDE DEF B, ib, x
    <3>3. Append(ib, x) = [i \in 1 .. n + 1 |-> IF i = n + 1 THEN x ELSE ib[i]]
      <4> HIDE DEF t, S
      <4> DEFINE a == Append(ib, x)
      <4>1. a \in Seq(B) /\ Len(a) = n + 1 /\ \A i \in 1 .. n + 1 : a[i] = IF i = n + 1 THEN x ELSE ib[i]
        BY <3>1
      <4> HIDE DEF a
      <4>2. a = [i \in 1 .. n + 1 |-> a[i]]
        BY <4>1
      <4>3. a = [i \in 1 .. n + 1 |-> IF i = n + 1 THEN x ELSE ib[i]]
        BY <4>1, <4>2
      <4> QED BY <4>3 DEF a
    <3>4. ItemBytes(t) = [i \in 1 .. n + 1 |-> BytesFromPrimitive(t[i])]
      BY <2>10 DEF ItemBytes
    <3>5. \A i \in 1 .. n + 1 : BytesFromPrimitive(t[i]) = IF i = n + 1 THEN x ELSE ib[i]
      <4> TAKE i \in 1 .. n + 1
      <4>1. CASE i = n + 1
        BY <2>10, <4>1 DEF x
      <4>2. CASE i # n + 1
        <5>1. i \in 1 .. n
          BY <4>2
        <5> QED BY <2>10, <3>2, <4>2, <5>1
      <4> QED BY <4>1, <4>2
    <3> HIDE DEF t
    <3> QED BY <3>3, <3>4, <3>5 DEF ib, x
  <2>13. FlattenSeq(ItemBytes(t)) = FlattenSeq(ItemBytes(s)) \o BytesFromPrimitive(p)
    <3>1. BytesFromPrimitive(p) \in Seq(Byte)
      BY <2>9, PrimitiveBytesType
    <3>2. FlattenSeq(Append(ItemBytes(s), BytesFromPrimitive(p))) = FlattenSeq(ItemBytes(s)) \o BytesFromPrimitive(p)
      BY <2>6, <3>1, FlattenAppend
    <3> HIDE DEF t
    <3> QED BY <2>12, <3>2, Zenon
  <2>14. Len(FlattenSeq(ItemBytes(t))) = Len(FlattenSeq(ItemBytes(s))) + item.next
    <3>1. BytesFromPrimitive(p) \in Seq(Byte)
      BY <2>9, PrimitiveBytesType
    <3>2. Len(FlattenSeq(ItemBytes(s)) \o BytesFromPrimitive(p)) = Len(FlattenSeq(ItemBytes(s))) + Len(BytesFromPrimitive(p))
      BY <2>6, <3>1, ConcatFacts
    <3> HIDE DEF t
    <3> QED BY <2>9, <2>13, <3>2, Zenon
  <2>15. \A i \in 1 .. n + 1 : IsPrimitive(t[i]) /\ t[i].dt = of
    <3> TAKE i \in 1 .. n + 1
    <3>1. CASE i = n + 1
      BY <2>9, <2>10, <3>1
    <3>2. CASE i # n + 1
      <4>1. i \in 1 .. n
        BY <3>2
      <4> QED BY <2>5, <2>10, <4>1
    <3> QED BY <3>1, <3>2
  <2> HIDE DEF t
  <2>16. at + item.next = W32 + Len(FlattenSeq(ItemBytes(t))) /\ at + item.next <= Len(payload)
    <3>1. Len(FlattenSeq(ItemBytes(s))) \in Nat
      BY <2>6
    <3>2. at + item.next = W32 + Len(FlattenSeq(ItemBytes(t)))
      BY <2>5, <2>9, <2>14, <3>1, Widths
    <3>3. at + item.next <= Len(payload)
      BY <2>7, <2>8, <2>9
    <3> QED BY <3>2, <3>3
  <2>17. Good(n + 1, t, at + item.next)
    BY <2>10, <2>11, <2>15, <2>16 DEF Good
  <2>18. f[n + 1].val = t /\ f[n + 1].next = at + item.next
    BY <2>3 DEF Ok, t
  <2> QED BY <2>17, <2>18
<1>3. \A n \in Nat : n \in S
  <2> HIDE DEF S
  <2> QED BY <1>1, <1>2, Induction
<1>4. Good(count, f[count].val, f[count].next)
  <2> HIDE DEF Good
  <2> QED BY <1>3
<1> QED BY <1>4, Zenon DEF ItemsRead

\* The three kinds of fields a decoder makes, and the bytes they have.
LEMMA MadePrimitive ==
  ASSUME NEW p, IsPrimitive(p)
  PROVE  IsField(PrimitiveField(p)) /\ Len(BytesFromField(PrimitiveField(p))) = 1 + Len(BytesFromPrimitive(p))
<1> DEFINE f == PrimitiveField(p)
<1>1. f.kind = "primitive" /\ f.items[1] = p /\ f.of = p.dt
  BY DEF PrimitiveField
<1> HIDE DEF f
<1>2. IsField(f)
  BY <1>1 DEF IsField, f
<1>3. BytesFromField(f) = <<p.dt>> \o BytesFromPrimitive(p)
  BY <1>1, Zenon DEF BytesFromField
<1>4. BytesFromPrimitive(p) \in Seq(Byte) /\ p.dt \in Byte
  <2>1. p.dt \in Scalar /\ 0 \in Nat
    BY PrimitiveBytes
  <2> QED BY <2>1, DtypeCases, PrimitiveBytesType
<1>5. Len(<<p.dt>> \o BytesFromPrimitive(p)) = 1 + Len(BytesFromPrimitive(p))
  BY <1>4, HeadTail
<1> QED BY <1>2, <1>3, <1>5, Zenon DEF f

\* Raw bytes.
LEMMA MadeRaw ==
  ASSUME NEW s \in Seq(Byte)
  PROVE  IsField(RawField(s)) /\ Len(BytesFromField(RawField(s))) = 1 + Len(s)
<1> DEFINE f == RawField(s)
<1>1. f.kind = "raw" /\ f.items = s
  BY DEF RawField
<1> HIDE DEF f
<1>2. IsField(f)
  BY <1>1 DEF IsField, f
<1>3. BytesFromField(f) = <<Raw>> \o s
  BY <1>1 DEF BytesFromField
<1>4. Len(<<Raw>> \o s) = 1 + Len(s)
  BY HeadTail, DtypeCases
<1> QED BY <1>2, <1>3, <1>4, Zenon DEF f

\* An array.
LEMMA MadeArray ==
  ASSUME NEW of, NEW items, of \in {Raw} \cup Scalar, items \in Seq(Range(items)), Len(items) < Pow[W32],
         \A i \in 1 .. Len(items) : IsPrimitive(items[i]) /\ items[i].dt = of
  PROVE  /\ IsField(ArrayField(of, items))
         /\ Len(BytesFromField(ArrayField(of, items))) = 1 + (W32 + Len(FlattenSeq(ItemBytes(items))))
<1> DEFINE f == ArrayField(of, items)
           l == LE(Len(items), W32)
           v == FlattenSeq(ItemBytes(items))
           t == <<ArrayTag + of>>
<1>1. f.kind = "array" /\ f.items = items /\ f.of = of
  BY DEF ArrayField
<1> HIDE DEF f
<1>2. IsField(f)
  BY <1>1 DEF IsField, f
<1>3. BytesFromField(f) = (t \o l) \o v
  BY <1>1 DEF BytesFromField, ItemBytes
<1>4. Len(items) \in Nat
  OBVIOUS
<1>5. l \in Seq(Byte) /\ Len(l) = W32
  BY <1>4, LEType, Widths
<1>6. v \in Seq(Byte)
  BY <1>4, ItemBytesType, FlattenType
<1>7. ArrayTag + of \in Byte
  <2>1. of \in Nat
    BY DEF Raw, Scalar, Integer, Float, String, Boolean
  <2> QED BY <2>1, DtypeCases
<1>8. t \in Seq(Byte) /\ Len(t) = 1
  BY <1>7
<1> HIDE DEF t, l, v
<1>9. Len((t \o l) \o v) = 1 + (W32 + Len(v))
  <2> DEFINE tl == t \o l
  <2>1. tl \in Seq(Byte) /\ Len(tl) = Len(t) + Len(l)
    BY <1>5, <1>8, ConcatFacts
  <2> HIDE DEF tl
  <2>2. Len(tl \o v) = Len(tl) + Len(v)
    BY <1>6, <2>1, ConcatFacts
  <2>3. Len(v) \in Nat
    BY <1>6
  <2> QED BY <1>5, <1>8, <2>1, <2>2, <2>3, Widths DEF tl
<1> QED BY <1>2, <1>3, <1>9, Zenon DEF f, v

\* A field that was decoded from some of the bytes of buf.
Sound(r, buf) ==
  /\ IsField(r.val) /\ r = Ok(r.val, r.next)
  /\ r.next \in Nat /\ r.next > 0 /\ r.next <= Len(buf) /\ Len(BytesFromField(r.val)) = r.next

\* Whatever field_from_bytes accepts is a field, and it is written back with as
\* many bytes as it was read from.
THEOREM FieldSound ==
  ASSUME NEW buf \in Seq(Byte), FieldFromBytes(buf).out = "ok"
  PROVE  Sound(FieldFromBytes(buf), buf)
<1> DEFINE rest == Tail(buf)
           dt == buf[1]
<1>1. buf # <<>> /\ IsDtype(dt)
  <2>1. FieldFromBytes(buf) # Err
    BY ErrFields
  <2> QED BY <2>1, FieldCases
<1>2. rest \in Seq(Byte) /\ Len(buf) = 1 + Len(rest) /\ dt \in Byte /\ dt \in Nat /\ Len(rest) \in Nat
  BY <1>1, Widths DEF Byte
<1> HIDE DEF rest, dt
<1>3. CASE dt \in Scalar
  <2> DEFINE p == PrimitiveFromBytes(dt, rest)
  <2>1. FieldFromBytes(buf) = IF p.out # "ok" THEN p ELSE Ok(PrimitiveField(p.val), 1 + p.next)
    BY <1>1, <1>3, FieldCases, Zenon DEF rest, dt
  <2>2. p.out = "ok"
    <3> HIDE DEF p
    <3> QED BY <2>1
  <2>3. IsPrimitive(p.val) /\ p.next \in Nat /\ p.next <= Len(rest) /\ Len(BytesFromPrimitive(p.val)) = p.next
    BY <1>2, <2>2, PrimitiveSound
  <2> HIDE DEF p
  <2> DEFINE f == PrimitiveField(p.val)
  <2>4. IsField(f) /\ Len(BytesFromField(f)) = 1 + p.next
    BY <2>3, MadePrimitive
  <2>5. FieldFromBytes(buf) = Ok(f, 1 + p.next)
    BY <2>1, <2>2, Zenon
  <2> HIDE DEF f
  <2>6. 1 + p.next \in Nat /\ 1 + p.next > 0 /\ 1 + p.next <= Len(buf)
    BY <1>2, <2>3
  <2>7. FieldFromBytes(buf).val = f /\ FieldFromBytes(buf).next = 1 + p.next
    BY <2>5, OkFields
  <2> QED BY <2>4, <2>5, <2>6, <2>7, Zenon DEF Sound
<1>4. CASE dt = Raw
  <2> DEFINE f == RawField(rest)
  <2>1. FieldFromBytes(buf) = Ok(f, Len(buf))
    BY <1>1, <1>4, FieldCases, Zenon DEF rest, dt
  <2>2. IsField(f) /\ Len(BytesFromField(f)) = 1 + Len(rest)
    BY <1>2, MadeRaw
  <2> HIDE DEF f
  <2>3. Len(buf) \in Nat /\ Len(buf) > 0 /\ Len(buf) <= Len(buf) /\ Len(BytesFromField(f)) = Len(buf)
    BY <1>2, <2>2
  <2>4. FieldFromBytes(buf).val = f /\ FieldFromBytes(buf).next = Len(buf)
    BY <2>1, OkFields
  <2> QED BY <2>1, <2>2, <2>3, <2>4, Zenon DEF Sound
<1>5. CASE dt \notin {Raw} \cup Scalar
  <2> DEFINE of == dt - ArrayTag
             count == UnLE(Slice(rest, 0, W32))
  <2>1. ~ (Len(rest) < W32) /\ IsDtype(of)
    <3>1. FieldFromBytes(buf) # Err
      BY ErrFields
    <3> QED BY <1>1, <1>5, <3>1, FieldCases, Zenon DEF rest, dt
  <2>2. count \in Nat /\ count < Pow[W32]
    <3>1. Slice(rest, 0, W32) \in Seq(Byte) /\ Len(Slice(rest, 0, W32)) = W32
      BY <1>2, <2>1, SliceType, Widths
    <3> QED BY <3>1, UnLEType
  <2>3. of \in {Raw} \cup Scalar
    BY <1>1, <1>2, <1>5, <2>1, DtypeCases, Zenon
  <2>4. LoopResult(buf, rest, of, count)
    BY <1>1, <1>5, <2>1, <2>2, FieldArray, Zenon DEF rest, dt
  <2> HIDE DEF of, count
  <2>5. PICK f : /\ f[0] = Ok(<<>>, W32)
                 /\ \A n \in 1 .. count :
                      f[n] = LoopTurn(f[n - 1], PrimitiveFromBytes(of, SubSeq(rest, f[n - 1].next + 1, Len(rest))))
                 /\ FieldFromBytes(buf) =
                      IF f[count].out # "ok" THEN f[count] ELSE Ok(ArrayField(of, f[count].val), 1 + f[count].next)
    BY <2>4, Zenon DEF LoopResult
  <2> DEFINE items == f[count].val
             at == f[count].next
  <2>6. f[count].out = "ok"
    BY <2>5
  <2>7. /\ items \in Seq(Range(items)) /\ Len(items) = count
        /\ \A i \in 1 .. Len(items) : IsPrimitive(items[i]) /\ items[i].dt = of
        /\ at = W32 + Len(FlattenSeq(ItemBytes(items))) /\ at <= Len(rest)
    <3>1. Len(rest) >= W32
      BY <1>2, <2>1, Widths
    <3>2. ItemsRead(f[count].val, f[count].next, of, count, rest)
      BY <1>2, <2>2, <2>5, <2>6, <3>1, ArrayLoopSound, Zenon
    <3> QED BY <3>2, Zenon DEF ItemsRead
  <2>8. FieldFromBytes(buf) = Ok(ArrayField(of, items), 1 + at)
    BY <2>5, <2>6, Zenon
  <2> HIDE DEF items, at
  <2> DEFINE v == FlattenSeq(ItemBytes(items))
  <2>9. v \in Seq(Byte)
    <3>1. Len(items) \in Nat
      BY <2>2, <2>7
    <3> QED BY <2>7, <3>1, ItemBytesType, FlattenType
  <2>10. IsField(ArrayField(of, items)) /\ Len(BytesFromField(ArrayField(of, items))) = 1 + (W32 + Len(v))
    BY <2>2, <2>3, <2>7, MadeArray
  <2> DEFINE g == ArrayField(of, items)
  <2> HIDE DEF v, g
  <2>11. 1 + at \in Nat /\ 1 + at > 0 /\ 1 + at <= Len(buf) /\ 1 + (W32 + Len(v)) = 1 + at
    <3>1. at = W32 + Len(v) /\ at <= Len(rest)
      BY <2>7 DEF v
    <3>2. Len(v) \in Nat
      BY <2>9
    <3> QED BY <1>2, <3>1, <3>2, Widths
  <2>12. FieldFromBytes(buf).val = g /\ FieldFromBytes(buf).next = 1 + at
    BY <2>8, OkFields DEF g
  <2> QED BY <2>8, <2>10, <2>11, <2>12, Zenon DEF Sound, g
<1> QED BY <1>3, <1>4, <1>5

-----------------------------------------------------------------------------
(***************************************************************************)
(* Records of the .db file.                                                *)
(***************************************************************************)

\* A checksum is a number of W32 bytes.
LEMMA ChecksumType ==
  ASSUME NEW s \in Seq(Byte)
  PROVE  Checksum(s) \in Nat /\ Checksum(s) < Pow[W32]
<1> DEFINE Next(n, x) == x + (n + 1) * (s[n] + 1)
           Good(m, f) == f = [n \in 0 .. m |-> IF n = 0 THEN 0 ELSE Next(n, f[n - 1])]
           S == {m \in Nat : m <= Len(s) => \E f : Good(m, f) /\ \A n \in 0 .. m : f[n] \in Nat}
<1>0. Len(s) \in Nat
  OBVIOUS
<1>n. \A n \in 1 .. Len(s) : \A x \in Nat : Next(n, x) \in Nat
  <2> TAKE n \in 1 .. Len(s)
  <2>1. s[n] \in Byte
    OBVIOUS
  <2>2. s[n] \in Nat
    BY <2>1, Widths DEF Byte
  <2> QED BY <2>2
<1> HIDE DEF Next
<1>1. 0 \in S
  <2> DEFINE f == [n \in 0 .. 0 |-> 0]
  <2>1. Good(0, f) /\ \A n \in 0 .. 0 : f[n] \in Nat
    OBVIOUS
  <2> HIDE DEF f
  <2> QED BY <2>1
<1>2. ASSUME NEW m \in Nat, m \in S PROVE m + 1 \in S
  <2> SUFFICES ASSUME m + 1 <= Len(s) PROVE \E f : Good(m + 1, f) /\ \A n \in 0 .. m + 1 : f[n] \in Nat
    OBVIOUS
  <2>1. PICK f : Good(m, f) /\ \A n \in 0 .. m : f[n] \in Nat
    BY <1>0, <1>2
  <2> DEFINE g == [n \in 0 .. m + 1 |-> IF n = m + 1 THEN Next(m + 1, f[m]) ELSE f[n]]
  <2>2. \A n \in 0 .. m + 1 : g[n] = IF n = 0 THEN 0 ELSE Next(n, g[n - 1])
    <3> TAKE n \in 0 .. m + 1
    <3>1. CASE n = 0
      BY <2>1, <3>1
    <3>2. CASE n = m + 1
      <4>1. n # 0 /\ n - 1 = m /\ m \in 0 .. m + 1 /\ m # m + 1
        BY <3>2
      <4> QED BY <3>2, <4>1
    <3>3. CASE n # 0 /\ n # m + 1
      <4>1. n \in 0 .. m /\ n - 1 \in 0 .. m /\ n - 1 \in 0 .. m + 1 /\ n - 1 # m + 1
        BY <3>3
      <4>2. f[n] = Next(n, f[n - 1])
        BY <2>1, <3>3, <4>1
      <4> QED BY <3>3, <4>1, <4>2
    <3> QED BY <3>1, <3>2, <3>3
  <2>3. Good(m + 1, g)
    BY <2>2
  <2>4. \A n \in 0 .. m + 1 : g[n] \in Nat
    <3>1. Next(m + 1, f[m]) \in Nat
      <4>1. m + 1 \in 1 .. Len(s) /\ f[m] \in Nat
        BY <1>0, <2>1
      <4> QED BY <1>n, <4>1
    <3>2. ASSUME NEW n \in 0 .. m + 1, n # m + 1 PROVE f[n] \in Nat
      <4>1. n \in 0 .. m
        BY <3>2
      <4> QED BY <2>1, <4>1
    <3> QED BY <3>1, <3>2
  <2> HIDE DEF g
  <2> QED BY <2>3, <2>4
<1>3. \E f : Good(Len(s), f)
  <2>1. Len(s) \in S
    <3> HIDE DEF S
    <3> QED BY <1>0, <1>1, <1>2, Induction
  <2> HIDE DEF Good
  <2> QED BY <1>0, <2>1
<1> DEFINE sum == CHOOSE f : Good(Len(s), f)
<1>4. Good(Len(s), sum)
  <2> HIDE DEF Good
  <2> QED BY <1>3
<1>5. Checksum(s) = sum[Len(s)] % Pow[W32]
  BY Zenon DEF Checksum, Next
<1> HIDE DEF sum
<1> DEFINE T == {n \in Nat : n <= Len(s) => sum[n] \in Nat}
<1>6. 0 \in T
  BY <1>0, <1>4
<1>7. ASSUME NEW n \in Nat, n \in T PROVE n + 1 \in T
  <2> SUFFICES ASSUME n + 1 <= Len(s) PROVE sum[n + 1] \in Nat
    OBVIOUS
  <2>1. n + 1 \in 0 .. Len(s) /\ n + 1 # 0 /\ (n + 1) - 1 = n /\ sum[n] \in Nat /\ n + 1 \in 1 .. Len(s)
    BY <1>0, <1>7
  <2>2. sum[n + 1] = Next(n + 1, sum[n])
    BY <1>4, <2>1
  <2> QED BY <1>n, <2>1, <2>2
<1>8. Len(s) \in T
  <2> HIDE DEF T
  <2> QED BY <1>0, <1>6, <1>7, Induction
<1>9. sum[Len(s)] \in Nat
  BY <1>0, <1>8
<1>10. Pow[W32] \in Nat /\ Pow[W32] > 0
  <2>1. Pow[W32] \in Nat /\ Pow[W32] > 11 * W32
    BY PowType, Widths
  <2> QED BY <2>1, Widths
<1> QED BY <1>5, <1>9, <1>10

\* Five pieces in a row from pos.
Five(b, pos, s1, s2, s3, s4, s5) ==
  /\ Holds(b, pos, s1) /\ Holds(b, pos + Len(s1), s2) /\ Holds(b, pos + Len(s1) + Len(s2), s3)
  /\ Holds(b, pos + Len(s1) + Len(s2) + Len(s3), s4)
  /\ Holds(b, pos + Len(s1) + Len(s2) + Len(s3) + Len(s4), s5)

\* The bytes s are these five pieces.
IsFive(s, s1, s2, s3, s4, s5) ==
  /\ s \in Seq(Byte) /\ Len(s) = Len(s1) + Len(s2) + Len(s3) + Len(s4) + Len(s5)
  /\ \A b \in Seq(Byte), pos \in Nat : Holds(b, pos, s) <=> Five(b, pos, s1, s2, s3, s4, s5)

\* The concatenation of five pieces.
LEMMA Concat5 ==
  ASSUME NEW s1 \in Seq(Byte), NEW s2 \in Seq(Byte), NEW s3 \in Seq(Byte), NEW s4 \in Seq(Byte), NEW s5 \in Seq(Byte),
         NEW s, s = s1 \o s2 \o s3 \o s4 \o s5
  PROVE  IsFive(s, s1, s2, s3, s4, s5)
<1> DEFINE t2 == s1 \o s2
           t3 == t2 \o s3
           t4 == t3 \o s4
           t5 == t4 \o s5
<1>1. t2 \in Seq(Byte) /\ Len(t2) = Len(s1) + Len(s2)
  BY ConcatFacts
<1>2. t3 \in Seq(Byte) /\ Len(t3) = Len(t2) + Len(s3)
  <2> HIDE DEF t2
  <2> QED BY <1>1, ConcatFacts
<1>3. t4 \in Seq(Byte) /\ Len(t4) = Len(t3) + Len(s4)
  <2> HIDE DEF t3
  <2> QED BY <1>2, ConcatFacts
<1>4. t5 \in Seq(Byte) /\ Len(t5) = Len(t4) + Len(s5)
  <2> HIDE DEF t4
  <2> QED BY <1>3, ConcatFacts
<1>5. Len(s1) \in Nat /\ Len(s2) \in Nat /\ Len(s3) \in Nat /\ Len(s4) \in Nat /\ Len(s5) \in Nat
  OBVIOUS
<1>6. ASSUME NEW b \in Seq(Byte), NEW pos \in Nat
      PROVE  Holds(b, pos, t5) <=> Five(b, pos, s1, s2, s3, s4, s5)
  <2>1. Holds(b, pos, t2) <=> Holds(b, pos, s1) /\ Holds(b, pos + Len(s1), s2)
    BY HoldsConcat
  <2> HIDE DEF t2
  <2>2. Holds(b, pos, t3) <=> Holds(b, pos, t2) /\ Holds(b, pos + Len(t2), s3)
    BY <1>1, HoldsConcat
  <2> HIDE DEF t3
  <2>3. Holds(b, pos, t4) <=> Holds(b, pos, t3) /\ Holds(b, pos + Len(t3), s4)
    BY <1>2, HoldsConcat
  <2> HIDE DEF t4
  <2>4. Holds(b, pos, t5) <=> Holds(b, pos, t4) /\ Holds(b, pos + Len(t4), s5)
    BY <1>3, HoldsConcat
  <2>5. /\ pos + Len(t2) = pos + Len(s1) + Len(s2) /\ pos + Len(t3) = pos + Len(s1) + Len(s2) + Len(s3)
        /\ pos + Len(t4) = pos + Len(s1) + Len(s2) + Len(s3) + Len(s4)
    BY <1>1, <1>2, <1>3, <1>5
  <2> HIDE DEF t5
  <2> QED BY <2>1, <2>2, <2>3, <2>4, <2>5, Zenon DEF Five
<1>7. Len(t5) = Len(s1) + Len(s2) + Len(s3) + Len(s4) + Len(s5)
  <2> HIDE DEF t2, t3, t4, t5
  <2> QED BY <1>1, <1>2, <1>3, <1>4, <1>5
<1>8. s = t5
  OBVIOUS
<1> HIDE DEF t2, t3, t4, t5
<1> QED BY <1>4, <1>6, <1>7, <1>8, Zenon DEF IsFive

\* Both kinds of records: magic, lengths, checksum, key and field.
RecordBytes(m, kl, fl, c, k, p) == m \o Lengths(kl, fl) \o c \o k \o p

\* What the decoders read of a record at pos.
Reads(b, pos, m, kl, fl, c, k, p) ==
  /\ MagicAt(b, pos) = m /\ KeyLenAt(b, pos) = kl /\ FieldLenAt(b, pos) = fl
  /\ Slice(b, (pos + RecordHead) - W32, W32) = c /\ Slice(b, pos + RecordHead, kl) = k
  /\ Slice(b, pos + RecordHead + kl, fl) = p
  /\ pos + RecordHead + kl + fl <= Len(b)

\* A record's lengths are bytes.
LEMMA LengthsType ==
  ASSUME NEW kl \in Nat, NEW fl \in Nat
  PROVE  Lengths(kl, fl) \in Seq(Byte) /\ Len(Lengths(kl, fl)) = W16 + W32
<1>1. LE(kl, W16) \in Seq(Byte) /\ Len(LE(kl, W16)) = W16
  BY LEType, Widths
<1>2. LE(fl, W32) \in Seq(Byte) /\ Len(LE(fl, W32)) = W32
  BY LEType, Widths
<1> DEFINE x == LE(kl, W16)
           y == LE(fl, W32)
<1>3. x \o y \in Seq(Byte) /\ Len(x \o y) = Len(x) + Len(y)
  <2>1. x \in Seq(Byte) /\ y \in Seq(Byte)
    BY <1>1, <1>2
  <2> HIDE DEF x, y
  <2> QED BY <2>1, ConcatFacts
<1> QED BY <1>1, <1>2, <1>3 DEF Lengths

\* The magic number and the head of a record.
LEMMA HeadType ==
  /\ Magic \in Seq(Byte) /\ Len(Magic) \in Nat /\ Len(Magic) > 0 /\ Magic # Zeros(Len(Magic))
  /\ RecordHead = Len(Magic) + W16 + W32 + W32 /\ RecordHead \in Nat
  /\ \A n \in Nat : Zeros(n) \in Seq(Byte) /\ Len(Zeros(n)) = n
<1>1. Magic \in Seq(Byte) /\ Magic # Zeros(Len(Magic))
  BY FormatAssumption
<1>2. Len(Magic) \in Nat
  BY <1>1
<1>3. Len(Magic) # 0
  <2> SUFFICES ASSUME Len(Magic) = 0 PROVE FALSE
    OBVIOUS
  <2>1. Magic = <<>>
    BY <1>1
  <2>2. Zeros(0) = <<>>
    BY DEF Zeros
  <2> QED BY <1>1, <2>1, <2>2
<1>4. ASSUME NEW n \in Nat PROVE Zeros(n) \in Seq(Byte) /\ Len(Zeros(n)) = n
  <2>1. 0 \in Byte
    BY Widths DEF Byte
  <2> DEFINE z == Zeros(n)
  <2>2. z = [i \in 1 .. n |-> 0]
    BY DEF Zeros
  <2>3. z \in [1 .. n -> Byte]
    BY <2>1, <2>2
  <2> HIDE DEF z
  <2>4. z \in Seq(Byte) /\ Len(z) = n
    <3>1. z \in Seq(Byte)
      BY <2>3
    <3>2. DOMAIN z = 1 .. n
      BY <2>3
    <3> QED BY <3>1, <3>2
  <2> QED BY <2>4 DEF z
<1> QED BY <1>1, <1>2, <1>3, <1>4, Widths, SMTT(30) DEF RecordHead

\* The bytes r are a record of these parts.
IsRecord(r, m, kl, fl, c, k, p) ==
  /\ r \in Seq(Byte) /\ Len(r) = RecordHead + kl + fl
  /\ \A b \in Seq(Byte), pos \in Nat : Holds(b, pos, r) => Reads(b, pos, m, kl, fl, c, k, p)

\* A record is as long as its parts, and where it stands the decoders read them.
LEMMA RecordParts ==
  ASSUME NEW m \in Seq(Byte), Len(m) = Len(Magic), NEW kl \in Nat, kl < Pow[W16], NEW fl \in Nat, fl < Pow[W32],
         NEW c \in Seq(Byte), Len(c) = W32, NEW k \in Seq(Byte), Len(k) = kl, NEW p \in Seq(Byte), Len(p) = fl
  PROVE  IsRecord(RecordBytes(m, kl, fl, c, k, p), m, kl, fl, c, k, p)
<1> DEFINE r == RecordBytes(m, kl, fl, c, k, p)
           lens == Lengths(kl, fl)
           ML == Len(Magic)
<1>1. lens \in Seq(Byte) /\ Len(lens) = W16 + W32
  BY LengthsType
<1>2. ML \in Nat /\ RecordHead = ML + W16 + W32 + W32
  BY HeadType
<1>3. /\ r \in Seq(Byte) /\ Len(r) = Len(m) + Len(lens) + Len(c) + Len(k) + Len(p)
      /\ \A b \in Seq(Byte), pos \in Nat : Holds(b, pos, r) => Five(b, pos, m, lens, c, k, p)
  <2>1. r = m \o lens \o c \o k \o p
    BY DEF RecordBytes
  <2> HIDE DEF r, lens
  <2>2. IsFive(r, m, lens, c, k, p)
    BY <1>1, <2>1, Concat5, Zenon
  <2> QED BY <2>2, Zenon DEF IsFive
<1>4. Len(r) = RecordHead + kl + fl
  <2> HIDE DEF r, lens, ML
  <2>1. Len(m) = ML
    BY DEF ML
  <2> QED BY <1>1, <1>2, <1>3, <2>1, Widths
<1>5. ASSUME NEW b \in Seq(Byte), NEW pos \in Nat, Holds(b, pos, r)
      PROVE  Reads(b, pos, m, kl, fl, c, k, p)
  <2>1. /\ Holds(b, pos, m) /\ Holds(b, pos + Len(m), lens) /\ Holds(b, pos + Len(m) + Len(lens), c)
        /\ Holds(b, pos + Len(m) + Len(lens) + Len(c), k)
        /\ Holds(b, pos + Len(m) + Len(lens) + Len(c) + Len(k), p)
    <3> HIDE DEF r, lens
    <3> QED BY <1>3, <1>5, Zenon DEF Five
  <2> DEFINE h == pos + RecordHead
  <2>2. /\ Len(m) = ML /\ pos + Len(m) + Len(lens) = h - W32 /\ h - W32 \in Nat
        /\ pos + Len(m) + Len(lens) + Len(c) = h /\ h \in Nat
        /\ pos + Len(m) + Len(lens) + Len(c) + Len(k) = h + kl /\ h + kl \in Nat
        /\ pos + ML \in Nat /\ pos + ML + W16 \in Nat
    <3> HIDE DEF lens, ML
    <3>1. Len(m) = ML
      BY DEF ML
    <3> QED BY <1>1, <1>2, <3>1, Widths
  <2> HIDE DEF h, r
  <2>3. /\ Holds(b, pos, m) /\ Holds(b, pos + ML, lens) /\ Holds(b, h - W32, c) /\ Holds(b, h, k)
        /\ Holds(b, h + kl, p)
    <3> HIDE DEF lens, ML
    <3> QED BY <2>1, <2>2, Zenon
  <2>4. Holds(b, pos + ML, LE(kl, W16)) /\ Holds(b, pos + ML + W16, LE(fl, W32))
    <3>1. LE(kl, W16) \in Seq(Byte) /\ Len(LE(kl, W16)) = W16 /\ LE(fl, W32) \in Seq(Byte)
      BY LEType, Widths
    <3>2. Holds(b, pos + ML, LE(kl, W16) \o LE(fl, W32))
      BY <2>3 DEF Lengths
    <3> HIDE DEF ML, lens
    <3> QED BY <2>2, <3>1, <3>2, HoldsConcat
  <2>5. KeyLenAt(b, pos) = kl
    <3> HIDE DEF ML, lens
    <3> QED BY <2>2, <2>4, HoldsLE, Widths DEF KeyLenAt, ML
  <2>6. FieldLenAt(b, pos) = fl
    <3>1. UnLE(Slice(b, pos + ML + W16, W32)) = fl
      <4> HIDE DEF ML, lens
      <4> QED BY <2>2, <2>4, HoldsLE, Widths
    <3> QED BY <3>1 DEF FieldLenAt
  <2>7. MagicAt(b, pos) = m
    BY <2>3, HoldsSlice DEF MagicAt
  <2>8. Slice(b, h - W32, W32) = c /\ Slice(b, h, kl) = k /\ Slice(b, h + kl, fl) = p /\ h + kl + fl <= Len(b)
    <3>1. Slice(b, h - W32, W32) = c
      BY <2>2, <2>3, HoldsSlice
    <3>2. Slice(b, h, kl) = k
      BY <2>2, <2>3, HoldsSlice
    <3>3. Slice(b, h + kl, fl) = p /\ h + kl + fl <= Len(b)
      BY <2>2, <2>3, HoldsSlice
    <3> QED BY <3>1, <3>2, <3>3
  <2>9. /\ Slice(b, (pos + RecordHead) - W32, W32) = c /\ Slice(b, pos + RecordHead, kl) = k
        /\ Slice(b, pos + RecordHead + kl, fl) = p /\ pos + RecordHead + kl + fl <= Len(b)
    <3> HIDE DEF lens, ML
    <3> QED BY <2>8 DEF h
  <2> HIDE DEF lens, ML
  <2> QED BY <2>5, <2>6, <2>7, <2>9, Zenon DEF Reads
<1> HIDE DEF r
<1>6. IsRecord(r, m, kl, fl, c, k, p)
  BY <1>3, <1>4, <1>5, Zenon DEF IsRecord
<1> QED BY <1>6 DEF r

\* The bytes of a record and of a tombstone, in parts.
LEMMA EncodeParts ==
  ASSUME NEW k \in Seq(Byte), NEW f, IsField(f)
  PROVE  LET payload == BytesFromField(f)
             crc == Checksum(Lengths(Len(k), Len(payload)) \o Zeros(W32) \o k \o payload)
         IN /\ crc \in Nat /\ crc < Pow[W32]
            /\ LE(crc, W32) \in Seq(Byte) /\ Len(LE(crc, W32)) = W32 /\ UnLE(LE(crc, W32)) = crc
            /\ Encode(k, f) = RecordBytes(Magic, Len(k), Len(payload), LE(crc, W32), k, payload)
<1> DEFINE payload == BytesFromField(f)
           lens == Lengths(Len(k), Len(payload))
           z == Zeros(W32)
           all == lens \o z \o k \o payload
           crc == Checksum(all)
<1>1. payload \in Seq(Byte)
  BY FieldBytesType
<1>2. lens \in Seq(Byte)
  <2>1. Len(k) \in Nat /\ Len(payload) \in Nat
    BY <1>1
  <2> QED BY <2>1, LengthsType
<1>3. z \in Seq(Byte)
  BY HeadType, Widths
<1>4. all \in Seq(Byte)
  <2> HIDE DEF payload, lens, z
  <2> QED BY <1>1, <1>2, <1>3, ConcatFacts
<1>5. crc \in Nat /\ crc < Pow[W32]
  <2> HIDE DEF all
  <2> QED BY <1>4, ChecksumType
<1>6. LE(crc, W32) \in Seq(Byte) /\ Len(LE(crc, W32)) = W32 /\ UnLE(LE(crc, W32)) = crc
  <2> HIDE DEF crc
  <2>1. LE(crc, W32) \in Seq(Byte) /\ Len(LE(crc, W32)) = W32
    BY <1>5, LEType, Widths
  <2>2. UnLE(LE(crc, W32)) = crc
    BY <1>5, UnLEOfLE, Widths
  <2> QED BY <2>1, <2>2
<1>7. Encode(k, f) = RecordBytes(Magic, Len(k), Len(payload), LE(crc, W32), k, payload)
  BY Zenon DEF Encode, RecordBytes
<1> HIDE DEF crc
<1> QED BY <1>5, <1>6, <1>7, Zenon DEF crc

\* A record is found where it stands: DBDecoder returns its key and field, and
\* IndexFromDBDecoder its place and lengths.
LEMMA LiveRecordAt ==
  ASSUME NEW k \in Seq(Byte), Len(k) < Pow[W16], NEW f, IsField(f), Len(BytesFromField(f)) < Pow[W32],
         NEW b \in Seq(Byte), NEW pos \in Nat, Holds(b, pos, Encode(k, f))
  PROVE  LET next == pos + RecordHead + Len(k) + Len(BytesFromField(f))
         IN /\ RecordAt(b, pos) = Ok([live |-> TRUE, key |-> k, field |-> f], next)
            /\ IndexedRecordAt(b, pos) =
                 IF Len(k) = 0 THEN Err
                 ELSE Ok([live |-> TRUE, key |-> k, key_len |-> Len(k),
                          field_len |-> Len(BytesFromField(f)), offset |-> pos], next)
<1> DEFINE p == BytesFromField(f)
           crc == Checksum(Lengths(Len(k), Len(p)) \o Zeros(W32) \o k \o p)
           c == LE(crc, W32)
           kl == Len(k)
           fl == Len(p)
           head == pos + RecordHead
<1>1. /\ c \in Seq(Byte) /\ Len(c) = W32 /\ UnLE(c) = crc
      /\ Encode(k, f) = RecordBytes(Magic, kl, fl, c, k, p)
  BY EncodeParts
<1>2. p \in Seq(Byte) /\ kl \in Nat /\ fl \in Nat
  <2>1. p \in Seq(Byte)
    BY FieldBytesType
  <2> QED BY <2>1
<1>3. FieldFromBytes(p) = Ok(f, fl)
  BY FieldRoundTrip
<1>4. Reads(b, pos, Magic, kl, fl, c, k, p)
  <2> HIDE DEF c, p
  <2>1. IsRecord(RecordBytes(Magic, kl, fl, c, k, p), Magic, kl, fl, c, k, p)
    <3>1. Magic \in Seq(Byte) /\ Len(Magic) = Len(Magic)
      BY HeadType
    <3>2. kl < Pow[W16] /\ fl < Pow[W32]
      BY DEF p
    <3>3. Len(k) = kl /\ Len(p) = fl
      OBVIOUS
    <3> HIDE DEF kl, fl
    <3> QED BY <1>1, <1>2, <3>1, <3>2, <3>3, RecordParts, Zenon
  <2> QED BY <1>1, <2>1, Zenon DEF IsRecord
<1>5. /\ MagicAt(b, pos) = Magic /\ KeyLenAt(b, pos) = kl /\ FieldLenAt(b, pos) = fl
      /\ Slice(b, head - W32, W32) = c /\ Slice(b, head, kl) = k /\ Slice(b, head + kl, fl) = p
      /\ head + kl + fl <= Len(b)
  <2> HIDE DEF p, c, kl, fl
  <2> QED BY <1>4 DEF Reads
<1>6. head \in Nat /\ W32 \in Nat /\ RecordHead \in Nat /\ Len(b) \in Nat
  <2>1. RecordHead \in Nat
    BY HeadType
  <2> QED BY <2>1, Widths
<1>7. ~ (Len(b) < head) /\ ~ (Len(b) < head + kl + fl) /\ ~ (Len(b) < head - W32) /\ ~ (Len(b) < head + kl)
  <2> HIDE DEF p, kl, fl, head
  <2> QED BY <1>2, <1>5, <1>6
<1>8. RecordAt(b, pos) = Ok([live |-> TRUE, key |-> k, field |-> f], head + kl + fl)
  <2>1. FieldFromBytes(p).out = "ok" /\ FieldFromBytes(p).val = f
    BY <1>3, OkFields
  <2>2. UnLE(c) = Checksum(Lengths(kl, fl) \o Zeros(W32) \o k \o p)
    BY <1>1
  <2>3. RecordAt(b, pos) =
          LET crc2 == UnLE(Slice(b, head - W32, W32))
              key == Slice(b, head, kl)
              payload == Slice(b, head + kl, fl)
              field == FieldFromBytes(payload)
          IN IF Len(b) < head THEN Err
             ELSE IF Magic \notin {Magic, Zeros(Len(Magic))} THEN Err
             ELSE IF Len(b) < head + kl + fl THEN Err
             ELSE IF Magic # Magic THEN Ok([live |-> FALSE], head + kl + fl)
             ELSE IF crc2 # Checksum(Lengths(kl, fl) \o Zeros(W32) \o key \o payload) THEN Err
             ELSE IF field.out # "ok" THEN field
             ELSE Ok([live |-> TRUE, key |-> key, field |-> field.val], head + kl + fl)
    <3> HIDE DEF p, c, kl, fl
    <3> QED BY <1>5, Zenon DEF RecordAt
  <2> HIDE DEF p, c, kl, fl, head
  <2> QED BY <1>5, <1>7, <2>1, <2>2, <2>3, Zenon
<1>9. IndexedRecordAt(b, pos) =
        IF Len(k) = 0 THEN Err
        ELSE Ok([live |-> TRUE, key |-> k, key_len |-> kl, field_len |-> fl, offset |-> pos], head + kl + fl)
  <2>1. IndexedRecordAt(b, pos) =
          IF Len(b) < head - W32 THEN Err
          ELSE IF Magic \notin {Magic, Zeros(Len(Magic))} THEN Err
          ELSE IF kl > 0 /\ Len(b) < head + kl THEN Err
          ELSE IF Magic # Magic THEN Ok([live |-> FALSE], head + kl + fl)
          ELSE IF kl = 0 THEN Err
          ELSE Ok([live |-> TRUE, key |-> k, key_len |-> kl, field_len |-> fl, offset |-> pos], head + kl + fl)
    <3> HIDE DEF p, c, kl, fl
    <3> QED BY <1>5, Zenon DEF IndexedRecordAt
  <2> HIDE DEF p, c, fl, head
  <2> QED BY <1>7, <2>1, Zenon
<1> QED BY <1>8, <1>9, Zenon

\* The bytes of a record are as many as its head, key and field have.
LEMMA EncodeType ==
  ASSUME NEW k \in Seq(Byte), Len(k) < Pow[W16], NEW f, IsField(f), Len(BytesFromField(f)) < Pow[W32]
  PROVE  Encode(k, f) \in Seq(Byte) /\ Len(Encode(k, f)) = RecordHead + Len(k) + Len(BytesFromField(f))
<1> DEFINE p == BytesFromField(f)
           crc == Checksum(Lengths(Len(k), Len(p)) \o Zeros(W32) \o k \o p)
           c == LE(crc, W32)
           kl == Len(k)
           fl == Len(p)
<1>1. /\ c \in Seq(Byte) /\ Len(c) = W32
      /\ Encode(k, f) = RecordBytes(Magic, kl, fl, c, k, p)
  BY EncodeParts
<1>2. p \in Seq(Byte) /\ kl \in Nat /\ fl \in Nat
  <2>1. p \in Seq(Byte)
    BY FieldBytesType
  <2> QED BY <2>1
<1> HIDE DEF c
<1>3. IsRecord(RecordBytes(Magic, kl, fl, c, k, p), Magic, kl, fl, c, k, p)
  <2>1. Magic \in Seq(Byte) /\ Len(Magic) = Len(Magic)
    BY HeadType
  <2>2. kl < Pow[W16] /\ fl < Pow[W32] /\ Len(k) = kl /\ Len(p) = fl
    OBVIOUS
  <2> HIDE DEF kl, fl, p
  <2> QED BY <1>1, <1>2, <2>1, <2>2, RecordParts, Zenon
<1> QED BY <1>1, <1>3, Zenon DEF IsRecord

\* A tombstone is as long as the record it covers, and it is found as one.
LEMMA TombstoneType ==
  ASSUME NEW kl \in Nat, kl < Pow[W16], NEW fl \in Nat, fl < Pow[W32]
  PROVE  Tombstone(kl, fl) \in Seq(Byte) /\ Len(Tombstone(kl, fl)) = RecordHead + kl + fl
<1> DEFINE m == Zeros(Len(Magic))
           z == Zeros(W32)
           k == Zeros(kl)
           p == Zeros(fl)
<1>1. m \in Seq(Byte) /\ Len(m) = Len(Magic) /\ z \in Seq(Byte) /\ Len(z) = W32
  BY HeadType, Widths
<1>2. k \in Seq(Byte) /\ Len(k) = kl /\ p \in Seq(Byte) /\ Len(p) = fl
  BY HeadType
<1>3. Tombstone(kl, fl) = RecordBytes(m, kl, fl, z, k, p)
  BY Zenon DEF Tombstone, RecordBytes
<1> HIDE DEF m, z, k, p
<1>4. IsRecord(RecordBytes(m, kl, fl, z, k, p), m, kl, fl, z, k, p)
  BY <1>1, <1>2, RecordParts, Zenon
<1> QED BY <1>3, <1>4, Zenon DEF IsRecord

\* Whatever of the checksum, key and field is left under it.
LEMMA DeadRecordAt ==
  ASSUME NEW b \in Seq(Byte), NEW pos \in Nat, NEW kl \in Nat, NEW fl \in Nat,
         MagicAt(b, pos) = Zeros(Len(Magic)), KeyLenAt(b, pos) = kl, FieldLenAt(b, pos) = fl,
         pos + RecordHead + kl + fl <= Len(b)
  PROVE  /\ RecordAt(b, pos) = Ok([live |-> FALSE], pos + RecordHead + kl + fl)
         /\ IndexedRecordAt(b, pos) = Ok([live |-> FALSE], pos + RecordHead + kl + fl)
<1> DEFINE m == Zeros(Len(Magic))
           head == pos + RecordHead
<1>1. m # Magic /\ RecordHead \in Nat
  BY HeadType
<1>2. head \in Nat /\ W32 \in Nat /\ Len(b) \in Nat
  BY <1>1, Widths
<1>3. ~ (Len(b) < head) /\ ~ (Len(b) < head + kl + fl) /\ ~ (Len(b) < head - W32) /\ ~ (Len(b) < head + kl)
  <2>1. head + kl + fl <= Len(b)
    OBVIOUS
  <2> HIDE DEF head
  <2> QED BY <1>2, <2>1
<1>4. RecordAt(b, pos) = Ok([live |-> FALSE], head + kl + fl)
  BY <1>1, <1>3, Zenon DEF RecordAt
<1>5. IndexedRecordAt(b, pos) = Ok([live |-> FALSE], head + kl + fl)
  BY <1>1, <1>3, Zenon DEF IndexedRecordAt
<1> QED BY <1>4, <1>5, Zenon

\* In particular a whole tombstone.
LEMMA TombstoneAt ==
  ASSUME NEW kl \in Nat, kl < Pow[W16], NEW fl \in Nat, fl < Pow[W32],
         NEW b \in Seq(Byte), NEW pos \in Nat, Holds(b, pos, Tombstone(kl, fl))
  PROVE  /\ RecordAt(b, pos) = Ok([live |-> FALSE], pos + RecordHead + kl + fl)
         /\ IndexedRecordAt(b, pos) = Ok([live |-> FALSE], pos + RecordHead + kl + fl)
<1> DEFINE m == Zeros(Len(Magic))
           z == Zeros(W32)
           k == Zeros(kl)
           p == Zeros(fl)
<1>1. m \in Seq(Byte) /\ Len(m) = Len(Magic) /\ z \in Seq(Byte) /\ Len(z) = W32
  BY HeadType, Widths
<1>2. k \in Seq(Byte) /\ Len(k) = kl /\ p \in Seq(Byte) /\ Len(p) = fl
  BY HeadType
<1>3. Tombstone(kl, fl) = RecordBytes(m, kl, fl, z, k, p)
  BY Zenon DEF Tombstone, RecordBytes
<1> HIDE DEF m, z, k, p
<1>4. IsRecord(RecordBytes(m, kl, fl, z, k, p), m, kl, fl, z, k, p)
  BY <1>1, <1>2, RecordParts, Zenon
<1>5. Reads(b, pos, m, kl, fl, z, k, p)
  BY <1>3, <1>4, Zenon DEF IsRecord
<1>6. /\ MagicAt(b, pos) = Zeros(Len(Magic)) /\ KeyLenAt(b, pos) = kl /\ FieldLenAt(b, pos) = fl
      /\ pos + RecordHead + kl + fl <= Len(b)
  BY <1>5, Zenon DEF Reads, m
<1> QED BY <1>6, DeadRecordAt

\* A number read from w bytes inside the buffer.
LEMMA NumberAt ==
  ASSUME NEW b \in Seq(Byte), NEW pos \in Nat, NEW w \in Nat, pos + w <= Len(b)
  PROVE  /\ UnLE(Slice(b, pos, w)) \in Nat /\ UnLE(Slice(b, pos, w)) < Pow[w]
         /\ UnBE(Slice(b, pos, w)) \in Nat /\ UnBE(Slice(b, pos, w)) < Pow[w]
<1>1. Slice(b, pos, w) \in Seq(Byte) /\ Len(Slice(b, pos, w)) = w
  BY SliceType
<1> QED BY <1>1, UnLEType, UnBEType

\* The lengths of a record whose head is in the buffer.
LEMMA LengthsAt ==
  ASSUME NEW b \in Seq(Byte), NEW pos \in Nat, ~ (Len(b) < (pos + RecordHead) - W32)
  PROVE  /\ KeyLenAt(b, pos) \in Nat /\ KeyLenAt(b, pos) < Pow[W16]
         /\ FieldLenAt(b, pos) \in Nat /\ FieldLenAt(b, pos) < Pow[W32]
         /\ pos + RecordHead + KeyLenAt(b, pos) + FieldLenAt(b, pos) \in Nat
         /\ pos + RecordHead + KeyLenAt(b, pos) + FieldLenAt(b, pos) > pos
<1> DEFINE ML == Len(Magic)
<1>1. ML \in Nat /\ ML > 0 /\ RecordHead = ML + W16 + W32 + W32
  BY HeadType
<1>2. Len(b) \in Nat
  OBVIOUS
<1>3. /\ pos + ML \in Nat /\ pos + ML + W16 <= Len(b)
      /\ pos + ML + W16 \in Nat /\ pos + ML + W16 + W32 <= Len(b) /\ RecordHead \in Nat /\ RecordHead > 0
  <2> HIDE DEF ML
  <2> QED BY <1>1, <1>2, Widths
<1>4. KeyLenAt(b, pos) \in Nat /\ KeyLenAt(b, pos) < Pow[W16]
  BY <1>3, NumberAt, Widths DEF KeyLenAt
<1>5. FieldLenAt(b, pos) \in Nat /\ FieldLenAt(b, pos) < Pow[W32]
  BY <1>3, NumberAt, Widths DEF FieldLenAt
<1> QED BY <1>3, <1>4, <1>5

\* Both decoders of .db move forward with every record, so their loops end.
LEMMA RecordsAdvance ==
  ASSUME NEW b \in Seq(Byte)
  PROVE  /\ Advances([pos \in Cursor(b) |-> RecordAt(b, pos)], Len(b))
         /\ Advances([pos \in Cursor(b) |-> IndexedRecordAt(b, pos)], Len(b))
<1> DEFINE Forward(r, pos) == r.out = "ok" => r.next \in Nat /\ r.next > pos
<1>1. ASSUME NEW pos \in Nat PROVE Forward(RecordAt(b, pos), pos)
  <2> DEFINE r == RecordAt(b, pos)
             next == pos + RecordHead + KeyLenAt(b, pos) + FieldLenAt(b, pos)
  <2>1. \/ r = Err \/ \E v : r = Ok(v, next) /\ ~ (Len(b) < pos + RecordHead)
        \/ r.out # "ok"
    BY Zenon DEF RecordAt
  <2>2. ASSUME ~ (Len(b) < pos + RecordHead) PROVE Forward(r, pos)
    <3>1. ~ (Len(b) < (pos + RecordHead) - W32)
      <4>1. RecordHead \in Nat /\ Len(b) \in Nat
        BY HeadType
      <4> QED BY <2>2, <4>1, Widths
    <3>2. next \in Nat /\ next > pos
      BY <3>1, LengthsAt
    <3> HIDE DEF r, next
    <3> QED BY <2>1, <3>2, ErrFields, OkFields
  <2>3. ASSUME Len(b) < pos + RecordHead PROVE Forward(r, pos)
    <3> HIDE DEF r, next
    <3> QED BY <2>1, <2>3, ErrFields
  <2> QED BY <2>2, <2>3
<1>2. ASSUME NEW pos \in Nat PROVE Forward(IndexedRecordAt(b, pos), pos)
  <2> DEFINE r == IndexedRecordAt(b, pos)
             next == pos + RecordHead + KeyLenAt(b, pos) + FieldLenAt(b, pos)
  <2>1. \/ r = Err
        \/ \E v : r = Ok(v, next) /\ ~ (Len(b) < (pos + RecordHead) - W32)
    BY Zenon DEF IndexedRecordAt
  <2>2. ASSUME ~ (Len(b) < (pos + RecordHead) - W32) PROVE Forward(r, pos)
    <3>1. next \in Nat /\ next > pos
      BY <2>2, LengthsAt
    <3> HIDE DEF r, next
    <3> QED BY <2>1, <3>1, ErrFields, OkFields
  <2>3. ASSUME Len(b) < (pos + RecordHead) - W32 PROVE Forward(r, pos)
    <3> HIDE DEF r, next
    <3> QED BY <2>1, <2>3, ErrFields
  <2> QED BY <2>2, <2>3
<1>3. Cursor(b) = 0 .. Len(b) - 1 /\ \A pos \in 0 .. Len(b) - 1 : pos \in Nat
  BY DEF Cursor
<1> QED BY <1>1, <1>2, <1>3 DEF Advances

-----------------------------------------------------------------------------
(***************************************************************************)
(* Entries of the log.                                                     *)
(***************************************************************************)

\* No field is the mark of a Delete.
LEMMA FieldIsNoMark ==
  ASSUME NEW f, IsField(f)
  PROVE  f # NoFieldEntry
<1>1. f.kind \in {"primitive", "raw", "array"}
  BY DEF IsField
<1>2. NoFieldEntry.kind = "none"
  BY DEF NoFieldEntry
<1> QED BY <1>1, <1>2

\* A length of w little-endian bytes and that many bytes, where they stand.
LEMMA CountedLE ==
  ASSUME NEW s \in Seq(Byte), NEW w \in Nat, Len(s) < Pow[w]
  PROVE  /\ LE(Len(s), w) \o s \in Seq(Byte) /\ Len(LE(Len(s), w) \o s) = w + Len(s)
         /\ \A b \in Seq(Byte), pos \in Nat :
              Holds(b, pos, LE(Len(s), w) \o s) =>
                /\ UnLE(Slice(b, pos, w)) = Len(s) /\ Slice(b, pos + w, Len(s)) = s
                /\ pos + w + Len(s) <= Len(b)
<1> DEFINE l == LE(Len(s), w)
           n == Len(s)
<1>1. n \in Nat
  OBVIOUS
<1>2. l \in Seq(Byte) /\ Len(l) = w
  BY <1>1, LEType
<1>3. l \o s \in Seq(Byte) /\ Len(l \o s) = w + n
  <2> HIDE DEF l
  <2> QED BY <1>2, ConcatFacts
<1>4. ASSUME NEW b \in Seq(Byte), NEW pos \in Nat, Holds(b, pos, l \o s)
      PROVE  UnLE(Slice(b, pos, w)) = n /\ Slice(b, pos + w, n) = s /\ pos + w + n <= Len(b)
  <2>1. Holds(b, pos, l) /\ Holds(b, pos + w, s)
    <3> HIDE DEF l
    <3> QED BY <1>2, <1>4, HoldsConcat
  <2>2. UnLE(Slice(b, pos, w)) = n
    BY <1>1, <2>1, HoldsLE
  <2>3. pos + w \in Nat
    OBVIOUS
  <2>4. pos + w + n <= Len(b) /\ Slice(b, pos + w, n) = s
    <3> HIDE DEF l
    <3> QED BY <2>1, <2>3, HoldsSlice
  <2> QED BY <2>2, <2>4
<1> QED BY <1>3, <1>4

\* The length of an entry.
EntrySize(k, f) ==
  1 + W16 + Len(k) + (IF f = NoFieldEntry THEN 0 ELSE W32 + Len(BytesFromField(f)))

\* What WalDecoder finds where an entry stands.
EntryHolds(k, f) ==
  LET e == [key |-> k, field |-> f]
  IN /\ EncodeEntry(e) \in Seq(Byte) /\ Len(EncodeEntry(e)) = EntrySize(k, f)
     /\ \A b \in Seq(Byte), pos \in Nat :
          Holds(b, pos, EncodeEntry(e)) => EntryAt(b, pos) = Ok(e, pos + EntrySize(k, f))

\* A Delete is decoded as it was logged.
LEMMA DeleteEntry ==
  ASSUME NEW k \in Seq(Byte), Len(k) < Pow[W16]
  PROVE  EntryHolds(k, NoFieldEntry)
<1> DEFINE e == [key |-> k, field |-> NoFieldEntry]
           K == LE(Len(k), W16) \o k
           kl == Len(k)
           size == 1 + W16 + kl
<1>1. EncodeEntry(e) = <<2>> \o K
  BY DEF EncodeEntry, EncodeKeyLE
<1>2. /\ K \in Seq(Byte) /\ Len(K) = W16 + kl
      /\ \A b \in Seq(Byte), pos \in Nat :
           Holds(b, pos, K) =>
             UnLE(Slice(b, pos, W16)) = kl /\ Slice(b, pos + W16, kl) = k /\ pos + W16 + kl <= Len(b)
  BY CountedLE, Widths
<1>3. 2 \in Byte /\ <<2>> \in Seq(Byte) /\ Len(<<2>>) = 1 /\ kl \in Nat
  BY SmallBytes
<1>4. EntrySize(k, NoFieldEntry) = size
  BY <1>3, Widths DEF EntrySize
<1>5. EncodeEntry(e) \in Seq(Byte) /\ Len(EncodeEntry(e)) = size
  <2> HIDE DEF K, e
  <2>1. <<2>> \o K \in Seq(Byte) /\ Len(<<2>> \o K) = 1 + Len(K)
    BY <1>2, <1>3, HeadTail
  <2> QED BY <1>1, <1>2, <1>3, <2>1, Widths
<1>6. ASSUME NEW b \in Seq(Byte), NEW pos \in Nat, Holds(b, pos, EncodeEntry(e))
      PROVE  EntryAt(b, pos) = Ok(e, pos + size)
  <2>1. Holds(b, pos, <<2>>) /\ Holds(b, pos + 1, K)
    <3>1. Holds(b, pos, <<2>> \o K)
      BY <1>1, <1>6, Zenon
    <3>2. K \in Seq(Byte)
      BY <1>2
    <3> HIDE DEF K
    <3> QED BY <1>3, <3>1, <3>2, HoldsConcat
  <2>2. b[pos + 1] = 2
    <3>1. \A i \in 1 .. 1 : b[pos + i] = <<2>>[i]
      BY <1>3, <2>1, Zenon DEF Holds
    <3> QED BY <3>1
  <2>3. /\ UnLE(Slice(b, pos + 1, W16)) = kl /\ Slice(b, pos + 1 + W16, kl) = k
        /\ pos + 1 + W16 + kl <= Len(b)
    <3> HIDE DEF K, kl
    <3> QED BY <1>2, <2>1
  <2>4. ~ (Len(b) < pos + 1 + W16) /\ ~ (Len(b) < pos + 1 + W16 + kl)
    <3>1. Len(b) \in Nat
      OBVIOUS
    <3> HIDE DEF kl
    <3> QED BY <1>3, <2>3, <3>1, Widths
  <2>5. EntryAt(b, pos) = Ok([key |-> k, field |-> NoFieldEntry], pos + 1 + W16 + kl)
    <3>1. 2 \in {1, 2}
      OBVIOUS
    <3> HIDE DEF kl
    <3> QED BY <2>2, <2>3, <2>4, <3>1, Zenon DEF EntryAt
  <2>6. pos + 1 + W16 + kl = pos + size
    BY <1>3, Widths
  <2> QED BY <2>5, <2>6, Zenon
<1> QED BY <1>4, <1>5, <1>6, Zenon DEF EntryHolds

\* And so is a Set.
LEMMA SetEntry ==
  ASSUME NEW k \in Seq(Byte), Len(k) < Pow[W16], NEW f, IsField(f), Len(BytesFromField(f)) < Pow[W32]
  PROVE  EntryHolds(k, f)
<1> DEFINE e == [key |-> k, field |-> f]
           K == LE(Len(k), W16) \o k
           p == BytesFromField(f)
           P == LE(Len(p), W32) \o p
           kl == Len(k)
           fl == Len(p)
           size == 1 + W16 + kl + (W32 + fl)
<1>0. p \in Seq(Byte) /\ LE(Len(p), W32) \in Seq(Byte) /\ kl \in Nat /\ fl \in Nat
  <2>1. p \in Seq(Byte)
    BY FieldBytesType
  <2> HIDE DEF p
  <2> QED BY <2>1, LEType, Widths
<1>1. 1 \in Byte /\ <<1>> \in Seq(Byte) /\ Len(<<1>>) = 1
  BY SmallBytes
<1>2. /\ K \in Seq(Byte) /\ Len(K) = W16 + kl
      /\ \A b \in Seq(Byte), pos \in Nat :
           Holds(b, pos, K) =>
             UnLE(Slice(b, pos, W16)) = kl /\ Slice(b, pos + W16, kl) = k /\ pos + W16 + kl <= Len(b)
  BY CountedLE, Widths
<1>3. /\ P \in Seq(Byte) /\ Len(P) = W32 + fl
      /\ \A b \in Seq(Byte), pos \in Nat :
           Holds(b, pos, P) =>
             UnLE(Slice(b, pos, W32)) = fl /\ Slice(b, pos + W32, fl) = p /\ pos + W32 + fl <= Len(b)
  <2> HIDE DEF p
  <2> QED BY <1>0, CountedLE, Widths DEF p
<1>4. EncodeEntry(e) = (<<1>> \o K) \o P
  <2>1. EncodeEntry(e) = <<1>> \o K \o LE(Len(p), W32) \o p
    <3>1. e.key = k /\ e.field = f /\ f # NoFieldEntry
      BY FieldIsNoMark
    <3> HIDE DEF e
    <3> QED BY <3>1, Zenon DEF EncodeEntry, EncodeKeyLE
  <2> DEFINE a == <<1>> \o K
             l == LE(Len(p), W32)
  <2>2. a \in Seq(Byte) /\ l \in Seq(Byte)
    <3> HIDE DEF K, l
    <3> QED BY <1>0, <1>1, <1>2, ConcatFacts DEF l
  <2> HIDE DEF a, l, p
  <2>3. (a \o l) \o p = a \o (l \o p)
    BY <1>0, <2>2, ConcatAssoc, SMTT(30)
  <2> QED BY <2>1, <2>3, Zenon DEF a, l
<1>5. EntrySize(k, f) = size
  BY FieldIsNoMark, Zenon DEF EntrySize
<1> DEFINE a == <<1>> \o K
<1>a. a \in Seq(Byte) /\ Len(a) = 1 + W16 + kl
  <2>1. <<1>> \o K \in Seq(Byte) /\ Len(<<1>> \o K) = 1 + Len(K)
    <3> HIDE DEF K
    <3> QED BY <1>1, <1>2, HeadTail
  <2> HIDE DEF K, kl
  <2> QED BY <1>0, <1>2, <2>1, Widths
<1>6. EncodeEntry(e) \in Seq(Byte) /\ Len(EncodeEntry(e)) = size
  <2> HIDE DEF a, P, e
  <2>1. a \o P \in Seq(Byte) /\ Len(a \o P) = Len(a) + Len(P)
    BY <1>3, <1>a, ConcatFacts
  <2> HIDE DEF kl, fl
  <2> QED BY <1>0, <1>3, <1>4, <1>a, <2>1, Widths DEF a
<1>7. ASSUME NEW b \in Seq(Byte), NEW pos \in Nat, Holds(b, pos, EncodeEntry(e))
      PROVE  EntryAt(b, pos) = Ok(e, pos + size)
  <2>1. Holds(b, pos, a) /\ Holds(b, pos + Len(a), P)
    <3>1. Holds(b, pos, a \o P)
      BY <1>4, <1>7, Zenon
    <3>2. a \in Seq(Byte) /\ P \in Seq(Byte)
      BY <1>3, <1>a
    <3> HIDE DEF a, P
    <3> QED BY <3>1, <3>2, HoldsConcat
  <2>2. Holds(b, pos, <<1>>) /\ Holds(b, pos + 1, K)
    <3> HIDE DEF K, P
    <3> QED BY <1>1, <1>2, <2>1, HoldsConcat
  <2>3. b[pos + 1] = 1
    <3>1. \A i \in 1 .. 1 : b[pos + i] = <<1>>[i]
      BY <1>1, <2>2, Zenon DEF Holds
    <3> QED BY <3>1
  <2> DEFINE mid == pos + 1 + W16 + kl
  <2>4. pos + Len(a) = mid /\ mid \in Nat /\ pos + 1 \in Nat /\ Len(b) \in Nat
    <3>1. Len(b) \in Nat
      OBVIOUS
    <3> HIDE DEF a, kl
    <3> QED BY <1>0, <1>a, <3>1, Widths
  <2>5. /\ UnLE(Slice(b, pos + 1, W16)) = kl /\ Slice(b, pos + 1 + W16, kl) = k
        /\ mid <= Len(b)
    <3> HIDE DEF K, kl
    <3> QED BY <1>2, <2>2, <2>4
  <2> HIDE DEF mid
  <2>6. /\ UnLE(Slice(b, mid, W32)) = fl /\ Slice(b, mid + W32, fl) = p /\ mid + W32 + fl <= Len(b)
    <3>1. Holds(b, mid, P)
      <4> HIDE DEF a, P
      <4> QED BY <2>1, <2>4
    <3> HIDE DEF P, fl, p
    <3> QED BY <1>3, <2>4, <3>1
  <2>7. ~ (Len(b) < pos + 1 + W16) /\ ~ (Len(b) < mid) /\ ~ (Len(b) < mid + W32) /\ ~ (Len(b) < mid + W32 + fl)
    <3>1. mid = (pos + 1 + W16) + kl
      BY DEF mid
    <3> HIDE DEF kl, fl
    <3> QED BY <1>0, <2>4, <2>6, <3>1, Widths
  <2>8. FieldFromBytes(p).out = "ok" /\ FieldFromBytes(p).val = f
    BY FieldRoundTrip, OkFields
  <2>9. EntryAt(b, pos) = Ok([key |-> k, field |-> f], mid + W32 + fl)
    <3>1. 1 \in {1, 2} /\ 1 # 2
      OBVIOUS
    <3>2. mid = pos + 1 + W16 + kl
      BY DEF mid
    <3> HIDE DEF kl, fl, p
    <3> QED BY <2>3, <2>5, <2>6, <2>7, <2>8, <3>1, <3>2, Zenon DEF EntryAt
  <2>10. mid + W32 + fl = pos + size
    <3> HIDE DEF kl, fl
    <3> QED BY <1>0, Widths DEF mid
  <2> QED BY <2>9, <2>10, Zenon
<1> QED BY <1>5, <1>6, <1>7, Zenon DEF EntryHolds

\* The decoder of the log moves forward with every entry.
LEMMA EntriesAdvance ==
  ASSUME NEW b \in Seq(Byte)
  PROVE  Advances([pos \in Cursor(b) |-> EntryAt(b, pos)], Len(b))
<1>1. ASSUME NEW pos \in Nat PROVE EntryAt(b, pos).out = "ok" => EntryAt(b, pos).next \in Nat /\ EntryAt(b, pos).next > pos
  <2> DEFINE r == EntryAt(b, pos)
             kl == UnLE(Slice(b, pos + 1, W16))
             mid == pos + 1 + W16 + kl
             fl == UnLE(Slice(b, mid, W32))
  <2>1. \/ r = Err \/ r.out # "ok"
        \/ \E v : r = Ok(v, mid) /\ ~ (Len(b) < pos + 1 + W16)
        \/ \E v : r = Ok(v, mid + W32 + fl) /\ ~ (Len(b) < pos + 1 + W16) /\ ~ (Len(b) < mid + W32)
    BY Zenon DEF EntryAt
  <2>2. Len(b) \in Nat
    OBVIOUS
  <2>3. ASSUME ~ (Len(b) < pos + 1 + W16) PROVE kl \in Nat
    <3>1. pos + 1 \in Nat /\ pos + 1 + W16 <= Len(b)
      BY <2>2, <2>3, Widths
    <3> QED BY <3>1, NumberAt, Widths
  <2>4. ASSUME kl \in Nat, ~ (Len(b) < mid + W32) PROVE fl \in Nat
    <3>1. mid \in Nat
      <4> HIDE DEF kl
      <4> QED BY <2>4, Widths
    <3>2. mid + W32 <= Len(b)
      <4> HIDE DEF mid
      <4> QED BY <2>2, <2>4, <3>1, Widths
    <3> HIDE DEF mid
    <3> QED BY <3>1, <3>2, NumberAt, Widths
  <2>5. /\ kl \in Nat => mid \in Nat /\ mid > pos
        /\ kl \in Nat /\ fl \in Nat => mid + W32 + fl \in Nat /\ mid + W32 + fl > pos
    <3> HIDE DEF kl, fl
    <3> QED BY Widths
  <2>6. r.out = "ok" => r.next \in Nat /\ r.next > pos
    <3> HIDE DEF r, kl, mid, fl
    <3> QED BY <2>1, <2>3, <2>4, <2>5, ErrFields, OkFields
  <2> QED BY <2>6
<1>2. Cursor(b) = 0 .. Len(b) - 1 /\ \A pos \in 0 .. Len(b) - 1 : pos \in Nat
  BY DEF Cursor
<1> QED BY <1>1, <1>2 DEF Advances

-----------------------------------------------------------------------------
(***************************************************************************)
(* Rows of the index.                                                      *)
(***************************************************************************)

\* A row as IndexEncoder is given it.
IsRow(r) ==
  /\ r.key \in Seq(Byte) /\ r.key_len = Len(r.key) /\ r.key_len < Pow[W16]
  /\ r.field_len \in Nat /\ r.field_len < Pow[W32] /\ r.offset \in Nat /\ r.offset < Pow[W64]

\* What IndexDecoder makes of it.
ShownRow(r) == [live |-> TRUE, key |-> r.key, key_len |-> r.key_len, field_len |-> r.field_len, offset |-> r.offset]

\* What IndexDecoder finds where a row stands.
RowHolds(r) ==
  /\ EncodeRow(r) \in Seq(Byte) /\ Len(EncodeRow(r)) = W16 + Len(r.key) + W32 + W64
  /\ \A b \in Seq(Byte), pos \in Nat :
       Holds(b, pos, EncodeRow(r)) => RowAt(b, pos) = Ok(ShownRow(r), pos + W16 + Len(r.key) + W32 + W64)

\* A row is decoded as it was written.
LEMMA RowDecodes ==
  ASSUME NEW r, IsRow(r)
  PROVE  RowHolds(r)
<1> DEFINE k == r.key
           kl == Len(k)
           l == LE(kl, W16)
           x == LE(r.field_len, W32)
           y == LE(r.offset, W64)
           e == EncodeRow(r)
<1>1. /\ k \in Seq(Byte) /\ r.key_len = kl /\ kl < Pow[W16]
      /\ r.field_len \in Nat /\ r.field_len < Pow[W32] /\ r.offset \in Nat /\ r.offset < Pow[W64]
  BY Zenon DEF IsRow
<1>2. kl \in Nat
  BY <1>1
<1>3. l \in Seq(Byte) /\ Len(l) = W16 /\ x \in Seq(Byte) /\ Len(x) = W32 /\ y \in Seq(Byte) /\ Len(y) = W64
  <2> HIDE DEF kl
  <2> QED BY <1>1, <1>2, LEType, Widths
<1>4. <<>> \in Seq(Byte) /\ Len(<<>>) = 0
  OBVIOUS
<1>5. e = l \o k \o x \o y
  BY <1>1, Zenon DEF EncodeRow
<1>6. e = l \o k \o x \o y \o <<>>
  <2> HIDE DEF e, l, x, y, k
  <2>1. l \o k \o x \o y \in Seq(Byte)
    BY <1>1, <1>3, ConcatFacts
  <2> QED BY <1>4, <1>5, <2>1, ConcatFacts
<1> HIDE DEF e, l, x, y, k
<1>7. IsFive(e, l, k, x, y, <<>>)
  BY <1>1, <1>3, <1>4, <1>6, Concat5, Zenon
<1>8. e \in Seq(Byte) /\ Len(e) = W16 + kl + W32 + W64
  <2>1. e \in Seq(Byte) /\ Len(e) = Len(l) + Len(k) + Len(x) + Len(y) + Len(<<>>)
    BY <1>7, Zenon DEF IsFive
  <2> QED BY <1>2, <1>3, <1>4, <2>1, Widths
<1>9. ASSUME NEW b \in Seq(Byte), NEW pos \in Nat, Holds(b, pos, e)
      PROVE  RowAt(b, pos) = Ok(ShownRow(r), pos + W16 + kl + W32 + W64)
  <2> DEFINE mid == pos + W16 + kl
  <2>1. Five(b, pos, l, k, x, y, <<>>)
    BY <1>7, <1>9, Zenon DEF IsFive
  <2>2. /\ Holds(b, pos, l) /\ Holds(b, pos + W16, k) /\ Holds(b, mid, x) /\ Holds(b, mid + W32, y)
    BY <1>3, <2>1, Zenon DEF Five
  <2>3. pos + W16 \in Nat /\ mid \in Nat /\ mid + W32 \in Nat /\ Len(b) \in Nat
    <3>1. Len(b) \in Nat
      OBVIOUS
    <3> HIDE DEF kl
    <3> QED BY <1>2, <3>1, Widths
  <2> HIDE DEF mid
  <2>4. UnLE(Slice(b, pos, W16)) = kl
    <3> HIDE DEF kl
    <3> QED BY <1>1, <1>2, <2>2, HoldsLE, Widths DEF l
  <2>5. Slice(b, pos + W16, kl) = k
    BY <1>1, <2>2, <2>3, HoldsSlice
  <2>6. UnLE(Slice(b, mid, W32)) = r.field_len
    BY <1>1, <2>2, <2>3, HoldsLE, Widths DEF x
  <2>7. UnLE(Slice(b, mid + W32, W64)) = r.offset /\ mid + W32 + W64 <= Len(b)
    BY <1>1, <2>2, <2>3, HoldsLE, Widths DEF y
  <2>8. ~ (Len(b) < pos + W16) /\ ~ (Len(b) < mid + W32 + W64)
    <3>1. mid = (pos + W16) + kl
      BY DEF mid
    <3> HIDE DEF kl
    <3> QED BY <1>2, <2>3, <2>7, <3>1, Widths
  <2>9. RowAt(b, pos) = Ok([live |-> TRUE, key |-> k, key_len |-> kl,
                            field_len |-> r.field_len, offset |-> r.offset], mid + W32 + W64)
    <3>1. mid = pos + W16 + kl
      BY DEF mid
    <3> HIDE DEF kl
    <3> QED BY <2>4, <2>5, <2>6, <2>7, <2>8, <3>1, Zenon DEF RowAt
  <2> QED BY <1>1, <2>9, Zenon DEF mid, ShownRow, k
<1> QED BY <1>8, <1>9, Zenon DEF RowHolds, e, k

\* The decoder of the index moves forward with every row.
LEMMA RowsAdvance ==
  ASSUME NEW b \in Seq(Byte)
  PROVE  Advances([pos \in Cursor(b) |-> RowAt(b, pos)], Len(b))
<1>1. ASSUME NEW pos \in Nat PROVE RowAt(b, pos).out = "ok" => RowAt(b, pos).next \in Nat /\ RowAt(b, pos).next > pos
  <2> DEFINE r == RowAt(b, pos)
             kl == UnLE(Slice(b, pos, W16))
             next == pos + W16 + kl + W32 + W64
  <2>1. r = Err \/ \E v : r = Ok(v, next) /\ ~ (Len(b) < pos + W16)
    BY Zenon DEF RowAt
  <2>2. Len(b) \in Nat
    OBVIOUS
  <2>3. ASSUME ~ (Len(b) < pos + W16) PROVE next \in Nat /\ next > pos
    <3>1. pos + W16 <= Len(b)
      BY <2>2, <2>3, Widths
    <3>2. kl \in Nat
      BY <3>1, NumberAt, Widths
    <3> HIDE DEF kl
    <3> QED BY <3>2, Widths
  <2>4. r.out = "ok" => r.next \in Nat /\ r.next > pos
    <3> HIDE DEF r, next
    <3> QED BY <2>1, <2>3, ErrFields, OkFields
  <2> QED BY <2>4
<1>2. Cursor(b) = 0 .. Len(b) - 1 /\ \A pos \in 0 .. Len(b) - 1 : pos \in Nat
  BY DEF Cursor
<1> QED BY <1>1, <1>2 DEF Advances

-----------------------------------------------------------------------------
(***************************************************************************)
(* Files of many items.                                                    *)
(***************************************************************************)

\* The items of ss follow pre, and the loop reads val after val of them.
Reads1(turn, pre, ss, vals) ==
  /\ Len(vals) <= Len(ss)
  /\ \A i \in 1 .. Len(vals) :
       /\ Len(ss[i]) > 0
       /\ turn[Len(pre) + Off(ss, i - 1)] = Ok(vals[i], Len(pre) + Off(ss, i))

\* The loop over a file reads its items one after the other, and goes on behind
\* them.
LEMMA DecodeFlat ==
  ASSUME NEW turn, NEW pre \in Seq(Byte), NEW ss \in Seq(Seq(Byte)), NEW k, k = Len(pre \o FlattenSeq(ss)),
         Advances(turn, k), NEW V, NEW vals \in Seq(V), Reads1(turn, pre, ss, vals),
         NEW r, r = DecodeAll(turn, Len(pre) + Off(ss, Len(vals))),
         r.out = "ok" => r = Ok(r.val, r.next) /\ r.val \in Seq(V)
  PROVE  DecodeAll(turn, Len(pre)) = IF r.out # "ok" THEN r ELSE Ok(vals \o r.val, r.next)
<1> DEFINE n == Len(vals)
           p == [i \in 0 .. n |-> Len(pre) + Off(ss, i)]
           b == pre \o FlattenSeq(ss)
<1>1. n \in Nat /\ Len(pre) \in Nat /\ Len(ss) \in Nat
  <2> DEFINE B == Seq(Byte)
  <2>1. ss \in Seq(B) /\ pre \in B
    OBVIOUS
  <2> HIDE DEF B
  <2>2. Len(ss) \in Nat
    BY <2>1
  <2> QED BY <2>2
<1>a. n <= Len(ss)
  BY DEF Reads1
<1>2. FlattenSeq(ss) \in Seq(Byte) /\ b \in Seq(Byte) /\ Len(b) = k /\ k \in Nat
  <2>1. FlattenSeq(ss) \in Seq(Byte)
    BY FlattenType
  <2>2. b \in Seq(Byte)
    <3> DEFINE fl == FlattenSeq(ss)
    <3> HIDE DEF fl
    <3> QED BY <2>1, ConcatFacts DEF fl
  <2> HIDE DEF b
  <2> QED BY <2>1, <2>2 DEF b
<1>3. \A i \in 0 .. n : Off(ss, i) \in Nat
  <2>1. \A i \in 0 .. n : i \in 0 .. Len(ss)
    BY <1>1, <1>a
  <2> QED BY <2>1, OffFacts
<1>4. ASSUME NEW i \in 1 .. n PROVE p[i - 1] \in 0 .. k - 1 /\ turn[p[i - 1]] = Ok(vals[i], p[i])
  <2>1. i - 1 \in 0 .. n /\ i \in 0 .. n /\ i \in 1 .. Len(ss)
    BY <1>1, <1>a
  <2>2. p[i - 1] = Len(pre) + Off(ss, i - 1) /\ p[i] = Len(pre) + Off(ss, i)
    BY <2>1, Zenon
  <2>3. Holds(b, Len(pre) + Off(ss, i - 1), ss[i])
    BY <2>1, FlattenHolds
  <2>4. Len(ss[i]) > 0 /\ turn[Len(pre) + Off(ss, i - 1)] = Ok(vals[i], Len(pre) + Off(ss, i))
    BY Zenon DEF Reads1
  <2>5. Len(pre) + Off(ss, i - 1) + Len(ss[i]) <= Len(b)
    BY <2>3, Zenon DEF Holds
  <2>6. Len(ss[i]) \in Nat /\ Off(ss, i - 1) \in Nat
    <3>1. ss[i] \in Seq(Byte)
      BY <2>1
    <3> QED BY <1>3, <2>1, <3>1
  <2>7. Len(pre) + Off(ss, i - 1) \in 0 .. k - 1
    <3> DEFINE o == Off(ss, i - 1)
               l == Len(ss[i])
               q == Len(pre)
               m == Len(b)
    <3>1. q \in Nat
      BY <1>1
    <3>2. l \in Nat /\ o \in Nat /\ l > 0 /\ q + o + l <= m /\ m = k /\ k \in Nat
      BY <1>2, <2>4, <2>5, <2>6, Zenon
    <3> HIDE DEF o, l, q, m, b, p, n
    <3>3. q + o \in 0 .. k - 1
      BY <3>1, <3>2
    <3> QED BY <3>3 DEF o, q
  <2> QED BY <2>2, <2>4, <2>7, Zenon
<1>5. p \in [0 .. n -> Nat] /\ p[0] = Len(pre) /\ p[n] = Len(pre) + Off(ss, n)
  <2>1. 0 \in 0 .. n /\ n \in 0 .. n
    BY <1>1
  <2>2. Off(ss, 0) = 0
    BY OffFacts
  <2>3. \A i \in 0 .. n : Len(pre) + Off(ss, i) \in Nat
    BY <1>1, <1>3
  <2> QED BY <1>1, <2>1, <2>2, <2>3
<1>6. Walks(turn, k, p, vals)
  <2> HIDE DEF p
  <2> QED BY <1>4, <1>5 DEF Walks
<1>7. r = DecodeAll(turn, p[n])
  BY <1>5
<1> HIDE DEF p
<1>8. DecodeAll(turn, p[0]) = IF r.out # "ok" THEN r ELSE Ok(vals \o r.val, r.next)
  BY <1>2, <1>6, <1>7, DecodeAllWalk
<1> QED BY <1>5, <1>8

-----------------------------------------------------------------------------
(***************************************************************************)
(* Messages.                                                               *)
(***************************************************************************)

\* A length of w big-endian bytes and that many bytes.
Count(s, w) == BE(Len(s), w) \o s

\* What Counted finds where they stand.
CountHolds(s, w) ==
  /\ Count(s, w) \in Seq(Byte) /\ Len(Count(s, w)) = w + Len(s)
  /\ \A b \in Seq(Byte), pos \in Nat :
       Holds(b, pos, Count(s, w)) => Counted(b, pos, w) = Ok(s, pos + w + Len(s))

\* They are read as they were written.
LEMMA CountedBE ==
  ASSUME NEW s \in Seq(Byte), NEW w \in Nat, Len(s) < Pow[w]
  PROVE  CountHolds(s, w)
<1> DEFINE l == BE(Len(s), w)
           n == Len(s)
<1>1. n \in Nat
  OBVIOUS
<1>2. l \in Seq(Byte) /\ Len(l) = w
  BY <1>1, BEType
<1>3. l \o s \in Seq(Byte) /\ Len(l \o s) = w + n
  <2> HIDE DEF l
  <2> QED BY <1>2, ConcatFacts
<1>4. ASSUME NEW b \in Seq(Byte), NEW pos \in Nat, Holds(b, pos, l \o s)
      PROVE  Counted(b, pos, w) = Ok(s, pos + w + n)
  <2>1. Holds(b, pos, l) /\ Holds(b, pos + w, s)
    <3> HIDE DEF l
    <3> QED BY <1>2, <1>4, HoldsConcat
  <2>2. UnBE(Slice(b, pos, w)) = n
    BY <1>1, <2>1, HoldsBE
  <2>3. pos + w \in Nat
    OBVIOUS
  <2>4. pos + w + n <= Len(b) /\ Slice(b, pos + w, n) = s
    <3> HIDE DEF l
    <3> QED BY <2>1, <2>3, HoldsSlice
  <2>5. ~ (Len(b) < pos + w) /\ ~ (Len(b) < pos + w + n)
    <3>1. Len(b) \in Nat
      OBVIOUS
    <3> HIDE DEF n
    <3> QED BY <1>1, <2>3, <2>4, <3>1
  <2> HIDE DEF n
  <2> QED BY <2>2, <2>4, <2>5, Zenon DEF Counted
<1> QED BY <1>3, <1>4, Zenon DEF CountHolds, Count

\* The bytes r has read from pos of b.
CountRead(r, b, pos, w) ==
  /\ r = Ok(r.val, r.next) /\ r.val \in Seq(Byte) /\ Len(r.val) < Pow[w]
  /\ r.next \in Nat /\ r.next > pos /\ r.next <= Len(b)

\* What Counted returns it has read.
LEMMA CountedReads ==
  ASSUME NEW b \in Seq(Byte), NEW pos \in Nat, NEW w \in Nat, w > 0
  PROVE  Counted(b, pos, w) = Err \/ CountRead(Counted(b, pos, w), b, pos, w)
<1> DEFINE r == Counted(b, pos, w)
           len == UnBE(Slice(b, pos, w))
           s == Slice(b, pos + w, len)
<1>1. \/ r = Err
      \/ r = Ok(s, pos + w + len) /\ ~ (Len(b) < pos + w) /\ ~ (Len(b) < pos + w + len)
  BY Zenon DEF Counted
<1>2. ASSUME r = Ok(s, pos + w + len), ~ (Len(b) < pos + w), ~ (Len(b) < pos + w + len)
      PROVE  CountRead(r, b, pos, w)
  <2>1. Len(b) \in Nat /\ pos + w \in Nat
    OBVIOUS
  <2>2. pos + w <= Len(b)
    BY <1>2, <2>1
  <2>3. len \in Nat /\ len < Pow[w]
    BY <2>2, NumberAt
  <2>4. pos + w + len <= Len(b) /\ pos + w + len \in Nat /\ pos + w + len > pos
    <3> HIDE DEF len
    <3> QED BY <1>2, <2>1, <2>3
  <2>5. s \in Seq(Byte) /\ Len(s) = len
    <3> HIDE DEF len
    <3> QED BY <2>1, <2>3, <2>4, SliceType
  <2>6. r.val = s /\ r.next = pos + w + len
    BY <1>2, OkFields
  <2> HIDE DEF r, s, len
  <2> QED BY <1>2, <2>3, <2>4, <2>5, <2>6 DEF CountRead
<1> HIDE DEF r, s, len
<1>3. r = Err \/ CountRead(r, b, pos, w)
  BY <1>1, <1>2
<1> QED BY <1>3, Zenon DEF r

\* The decoder of a list of keys moves forward with every key.
LEMMA KeysAdvance ==
  ASSUME NEW b \in Seq(Byte)
  PROVE  Advances([pos \in Cursor(b) |-> Counted(b, pos, W16)], Len(b))
<1>1. ASSUME NEW pos \in Nat
      PROVE  Counted(b, pos, W16).out = "ok" => Counted(b, pos, W16).next \in Nat /\ Counted(b, pos, W16).next > pos
  <2> DEFINE r == Counted(b, pos, W16)
  <2>1. r = Err \/ CountRead(r, b, pos, W16)
    BY CountedReads, Widths
  <2> HIDE DEF r
  <2>2. r.out = "ok" => r.next \in Nat /\ r.next > pos
    BY <2>1, ErrFields DEF CountRead
  <2> QED BY <2>2 DEF r
<1>2. Cursor(b) = 0 .. Len(b) - 1 /\ \A pos \in 0 .. Len(b) - 1 : pos \in Nat
  BY DEF Cursor
<1> QED BY <1>1, <1>2 DEF Advances

\* A file of items ss after pre that the loop reads to the end.
LEMMA DecodeWhole ==
  ASSUME NEW turn, NEW pre \in Seq(Byte), NEW ss \in Seq(Seq(Byte)), NEW k, k = Len(pre \o FlattenSeq(ss)),
         Advances(turn, k), NEW V, NEW vals \in Seq(V), Reads1(turn, pre, ss, vals), Len(vals) = Len(ss)
  PROVE  DecodeAll(turn, Len(pre)) = Ok(vals, k)
<1>1. FlattenSeq(ss) \in Seq(Byte)
  BY FlattenType
<1>2. Off(ss, Len(ss)) = Len(FlattenSeq(ss))
  BY OffFacts
<1>3. Len(pre) + Off(ss, Len(vals)) = k /\ k \in Nat
  <2> DEFINE fl == FlattenSeq(ss)
  <2>1. Len(pre \o fl) = Len(pre) + Len(fl) /\ Len(pre) \in Nat /\ Len(fl) \in Nat
    <3>1. fl \in Seq(Byte)
      BY <1>1
    <3> HIDE DEF fl
    <3> QED BY <3>1
  <2> QED BY <1>2, <2>1
<1>4. DecodeAll(turn, k) = Ok(<<>>, k)
  BY <1>3, DecodeAllEnd
<1> DEFINE r == DecodeAll(turn, k)
<1>5. r.out = "ok" /\ r.val = <<>> /\ r.next = k
  BY <1>4, OkFields
<1>6. r = Ok(r.val, r.next) /\ r.val \in Seq(V)
  <2>1. <<>> \in Seq(V)
    OBVIOUS
  <2> HIDE DEF r
  <2>2. r = Ok(<<>>, k)
    BY <1>4 DEF r
  <2> QED BY <1>5, <2>1, <2>2, Zenon
<1>7. r = DecodeAll(turn, Len(pre) + Off(ss, Len(vals)))
  BY <1>3
<1> HIDE DEF r
<1>8. DecodeAll(turn, Len(pre)) = IF r.out # "ok" THEN r ELSE Ok(vals \o r.val, r.next)
  BY <1>6, <1>7, DecodeFlat
<1>9. vals \o <<>> = vals
  OBVIOUS
<1> QED BY <1>5, <1>8, <1>9, Zenon

\* The loop reads the items of ss if it reads each of them wherever it stands.
LEMMA HoldsReads ==
  ASSUME NEW turn, NEW pre \in Seq(Byte), NEW ss \in Seq(Seq(Byte)), NEW b, b = pre \o FlattenSeq(ss),
         NEW vals, Len(vals) \in Nat, Len(vals) <= Len(ss),
         \A i \in 1 .. Len(vals) :
           /\ Len(ss[i]) > 0
           /\ \A pos \in Cursor(b) : Holds(b, pos, ss[i]) => turn[pos] = Ok(vals[i], pos + Len(ss[i]))
  PROVE  Reads1(turn, pre, ss, vals)
<1> SUFFICES ASSUME NEW i \in 1 .. Len(vals)
             PROVE  turn[Len(pre) + Off(ss, i - 1)] = Ok(vals[i], Len(pre) + Off(ss, i))
  BY DEF Reads1
<1> DEFINE at == Len(pre) + Off(ss, i - 1)
           n == Len(ss[i])
<1>0. Len(ss) \in Nat
  <2> DEFINE B == Seq(Byte)
  <2>1. ss \in Seq(B)
    OBVIOUS
  <2> HIDE DEF B
  <2> QED BY <2>1
<1>1. i \in 1 .. Len(ss) /\ i - 1 \in 0 .. Len(ss)
  BY <1>0
<1>2. Holds(b, at, ss[i])
  BY <1>1, FlattenHolds
<1>3. Off(ss, i - 1) \in Nat /\ Off(ss, i) = Off(ss, i - 1) + n
  BY <1>1, OffFacts
<1>4. n \in Nat /\ n > 0 /\ Len(pre) \in Nat
  <2>1. ss[i] \in Seq(Byte)
    BY <1>1
  <2> QED BY <2>1
<1>5. Len(b) \in Nat
  <2>1. FlattenSeq(ss) \in Seq(Byte)
    BY FlattenType
  <2> DEFINE fl == FlattenSeq(ss)
  <2>2. pre \o fl \in Seq(Byte)
    <3> HIDE DEF fl
    <3> QED BY <2>1, ConcatFacts DEF fl
  <2>3. b \in Seq(Byte)
    BY <2>2
  <2> QED BY <2>3
<1>6. at + n <= Len(b)
  BY <1>2, Zenon DEF Holds
<1>7. at \in Cursor(b) /\ at + n = Len(pre) + Off(ss, i)
  <2> HIDE DEF n
  <2> QED BY <1>3, <1>4, <1>5, <1>6, SMTT(30) DEF Cursor
<1>8. turn[at] = Ok(vals[i], at + n)
  BY <1>2, <1>7, Zenon
<1> QED BY <1>7, <1>8, Zenon

\* A list of keys in any order is decoded as it was written.
LEMMA KeyListDecodes ==
  ASSUME NEW keys \in Seq(Seq(Byte)), \A i \in 1 .. Len(keys) : Len(keys[i]) < Pow[W16]
  PROVE  KeyList(keys) \in Seq(Byte) /\ DecodeKeyList(KeyList(keys)) = Ok(keys, Len(KeyList(keys)))
<1> DEFINE n == Len(keys)
           ss == [i \in 1 .. n |-> EncodeKey(keys[i])]
           b == KeyList(keys)
           turn == [pos \in Cursor(b) |-> Counted(b, pos, W16)]
<1>1. n \in Nat /\ \A i \in 1 .. n : keys[i] \in Seq(Byte)
  <2> DEFINE B == Seq(Byte)
  <2>1. keys \in Seq(B)
    OBVIOUS
  <2> HIDE DEF B
  <2>2. Len(keys) \in Nat /\ \A i \in 1 .. Len(keys) : keys[i] \in B
    BY <2>1
  <2> QED BY <2>2 DEF B
<1>2. \A i \in 1 .. n : CountHolds(keys[i], W16) /\ EncodeKey(keys[i]) = Count(keys[i], W16)
  BY <1>1, CountedBE, Widths DEF Count, EncodeKey
<1>3. ss \in Seq(Seq(Byte)) /\ Len(ss) = n /\ \A i \in 1 .. n : ss[i] = Count(keys[i], W16)
  <2>1. \A i \in 1 .. n : EncodeKey(keys[i]) \in Seq(Byte)
    BY <1>2, Zenon DEF CountHolds
  <2> DEFINE B == Seq(Byte)
             e == [i \in 1 .. n |-> EncodeKey(keys[i])]
  <2>2. \A i \in 1 .. n : EncodeKey(keys[i]) \in B
    BY <2>1
  <2> HIDE DEF B, n
  <2>3. e \in Seq(B) /\ Len(e) = n /\ \A i \in 1 .. n : e[i] = EncodeKey(keys[i])
    BY <1>1, <2>2
  <2> HIDE DEF e
  <2> QED BY <1>2, <2>3 DEF B, e
<1>4. b = FlattenSeq(ss) /\ b \in Seq(Byte)
  <2>1. b = FlattenSeq(ss)
    BY DEF KeyList
  <2> HIDE DEF ss
  <2> QED BY <1>3, <2>1, FlattenType
<1>5. <<>> \in Seq(Byte) /\ Len(<<>>) = 0 /\ b = <<>> \o FlattenSeq(ss)
  <2>1. <<>> \in Seq(Byte) /\ Len(<<>>) = 0
    OBVIOUS
  <2> HIDE DEF b, ss
  <2> QED BY <1>4, <2>1, ConcatFacts
<1> HIDE DEF ss, b
<1>6. \A i \in 1 .. n :
        /\ Len(ss[i]) > 0
        /\ \A pos \in Cursor(b) : Holds(b, pos, ss[i]) => turn[pos] = Ok(keys[i], pos + Len(ss[i]))
  <2> TAKE i \in 1 .. n
  <2> DEFINE k == keys[i]
  <2>1. CountHolds(k, W16) /\ ss[i] = Count(k, W16) /\ Len(k) \in Nat
    <3>1. k \in Seq(Byte)
      BY <1>1
    <3> QED BY <1>2, <1>3, <3>1
  <2> HIDE DEF k
  <2>2. Len(ss[i]) = W16 + Len(k) /\ Len(ss[i]) > 0
    <3>1. Len(Count(k, W16)) = W16 + Len(k)
      BY <2>1, Zenon DEF CountHolds
    <3> QED BY <2>1, <3>1, Widths
  <2>3. ASSUME NEW pos \in Cursor(b), Holds(b, pos, ss[i]) PROVE turn[pos] = Ok(k, pos + Len(ss[i]))
    <3>1. pos \in Nat /\ pos + W16 + Len(k) = pos + (W16 + Len(k))
      BY <1>4, <2>1, Widths DEF Cursor
    <3>2. Counted(b, pos, W16) = Ok(k, pos + W16 + Len(k))
      BY <1>4, <2>1, <2>3, <3>1, Zenon DEF CountHolds
    <3> QED BY <2>2, <3>1, <3>2, Zenon
  <2> QED BY <2>2, <2>3 DEF k
<1> DEFINE B == Seq(Byte)
<1>7. Reads1(turn, <<>>, ss, keys)
  <2>1. n <= Len(ss)
    BY <1>1, <1>3
  <2> HIDE DEF turn
  <2> QED BY <1>1, <1>3, <1>5, <1>6, <2>1, HoldsReads
<1>8. Advances(turn, Len(b))
  BY <1>4, KeysAdvance
<1>9. DecodeAll(turn, Len(<<>>)) = Ok(keys, Len(b))
  <2>1. keys \in Seq(B) /\ Len(keys) = Len(ss) /\ Len(b) = Len(<<>> \o FlattenSeq(ss))
    BY <1>3, <1>5
  <2>2. <<>> \in Seq(Byte) /\ ss \in Seq(Seq(Byte))
    BY <1>3, <1>5
  <2> DEFINE pre == <<>>
             k == Len(b)
  <2>3. /\ pre \in Seq(Byte) /\ Advances(turn, k) /\ Reads1(turn, pre, ss, keys) /\ k = Len(pre \o FlattenSeq(ss))
        /\ keys \in Seq(B) /\ Len(keys) = Len(ss)
    BY <1>7, <1>8, <2>1, <2>2, Zenon
  <2> HIDE DEF turn, B, pre, k
  <2>4. DecodeAll(turn, Len(pre)) = Ok(keys, k)
    BY <2>2, <2>3, DecodeWhole
  <2> QED BY <2>4 DEF pre, k
<1>10. DecodeAll(turn, 0) = Ok(keys, Len(b))
  <2> HIDE DEF turn
  <2> QED BY <1>5, <1>9, Zenon
<1> QED BY <1>4, <1>10, Zenon DEF DecodeKeyList, b

\* The numbers of the commands and of the statuses are distinct bytes.
LEMMA CmdNumbers ==
  ASSUME NEW c \in {"Ping", "Get", "Set", "Del", "Keys"}
  PROVE  /\ DOMAIN Cmd = {"Ping", "Get", "Set", "Del", "Keys"}
         /\ Cmd[c] \in 1 .. 5
         /\ (CHOOSE d \in DOMAIN Cmd : Cmd[d] = Cmd[c]) = c
<1>1. DOMAIN Cmd = {"Ping", "Get", "Set", "Del", "Keys"}
  BY DEF Cmd
<1>2. Cmd["Ping"] = 1 /\ Cmd["Get"] = 2 /\ Cmd["Set"] = 3 /\ Cmd["Del"] = 4 /\ Cmd["Keys"] = 5
  BY DEF Cmd
<1>3. \A d \in DOMAIN Cmd : Cmd[d] = Cmd[c] => d = c
  BY <1>1, <1>2
<1>4. (CHOOSE d \in DOMAIN Cmd : Cmd[d] = Cmd[c]) = c
  BY <1>1, <1>3
<1> QED BY <1>1, <1>2, <1>4

\* Likewise the statuses.
LEMMA StatusNumbers ==
  ASSUME NEW s \in {"Ok", "NotFound", "TypeError", "ServerError", "InvalidRequest", "Keys"}
  PROVE  /\ s \in DOMAIN Status /\ Status[s] \in 0 .. 5
         /\ (CHOOSE d \in DOMAIN Status : Status[d] = Status[s]) = s
<1>1. DOMAIN Status = {"Ok", "NotFound", "TypeError", "ServerError", "InvalidRequest", "Keys"}
  BY DEF Status
<1>2. /\ Status["Ok"] = 0 /\ Status["NotFound"] = 1 /\ Status["TypeError"] = 2 /\ Status["ServerError"] = 3
      /\ Status["InvalidRequest"] = 4 /\ Status["Keys"] = 5
  BY DEF Status
<1>3. \A d \in DOMAIN Status : Status[d] = Status[s] => d = s
  BY <1>1, <1>2
<1>4. (CHOOSE d \in DOMAIN Status : Status[d] = Status[s]) = s
  BY <1>1, <1>3
<1> QED BY <1>1, <1>2, <1>4

\* A request the client can send.
IsRequest(req) ==
  /\ req = Request(req.cmd, req.key, req.field) /\ req.cmd \in {"Ping", "Get", "Set", "Del", "Keys"}
  /\ IF req.cmd \in {"Get", "Del", "Set"} THEN req.key \in Seq(Byte) /\ Len(req.key) < Pow[W16] ELSE req.key = <<>>
  /\ IF req.cmd = "Set" THEN IsField(req.field) /\ Len(BytesFromField(req.field)) < Pow[W32] ELSE req.field = NoField

\* The first two bytes of a request.
LEMMA CommandAt ==
  ASSUME NEW c \in {"Ping", "Get", "Set", "Del", "Keys"}, NEW t \in Seq(Byte)
  PROVE  LET h == <<Version, Cmd[c]>>
             b == h \o t
         IN /\ h \in Seq(Byte) /\ Len(h) = 2 /\ b \in Seq(Byte) /\ Len(b) = 2 + Len(t)
            /\ b[1] = Version /\ b[2] = Cmd[c] /\ ~ (Len(b) < 2) /\ Holds(b, 2, t)
<1> DEFINE h == <<Version, Cmd[c]>>
           b == h \o t
<1>1. Version \in Byte /\ Cmd[c] \in Byte
  BY CmdNumbers, SmallBytes DEF Version
<1> DEFINE y == Cmd[c]
<1>2. h \in Seq(Byte) /\ Len(h) = 2 /\ h[1] = Version /\ h[2] = y
  <2>1. y \in Byte
    BY <1>1
  <2> HIDE DEF y
  <2> QED BY <1>1, <2>1 DEF y
<1> HIDE DEF h, y
<1>3. b \in Seq(Byte) /\ Len(b) = 2 + Len(t)
  BY <1>2, ConcatFacts
<1>4. Len(t) \in Nat
  OBVIOUS
<1>5. Holds(b, 0, h) /\ Holds(b, 2, t)
  <2>1. Holds(b, 0, b)
    BY <1>3, HoldsWhole
  <2>2. 0 + Len(h) = 2
    BY <1>2
  <2>3. Holds(b, 0, h) /\ Holds(b, 0 + Len(h), t)
    BY <1>2, <1>3, <2>1, HoldsConcat
  <2> QED BY <2>2, <2>3
<1> HIDE DEF b
<1>6. b[1] = Version /\ b[2] = y /\ ~ (Len(b) < 2)
  <2>1. \A i \in 1 .. 2 : b[0 + i] = h[i]
    BY <1>2, <1>5 DEF Holds
  <2>2. b[0 + 1] = h[1] /\ b[0 + 2] = h[2]
    BY <2>1
  <2> QED BY <1>2, <1>3, <1>4, <2>2
<1> QED BY <1>2, <1>3, <1>5, <1>6, Zenon DEF b, h, y

\* Every request arrives as it was sent.
THEOREM RequestRoundTrip ==
  ASSUME NEW req, IsRequest(req)
  PROVE  DecodeRequest(EncodeRequest(req)) = Ok(req, Len(EncodeRequest(req)))
<1> DEFINE c == req.cmd
           k == req.key
           f == req.field
           h == <<Version, Cmd[c]>>
           b == EncodeRequest(req)
           cmd == CHOOSE d \in DOMAIN Cmd : Cmd[d] = b[2]
<1>1. c \in {"Ping", "Get", "Set", "Del", "Keys"} /\ req = Request(c, k, f)
  BY Zenon DEF IsRequest
<1>2. ASSUME NEW t \in Seq(Byte), b = h \o t
      PROVE  /\ b \in Seq(Byte) /\ Len(b) = 2 + Len(t) /\ Holds(b, 2, t) /\ ~ (Len(b) < 2) /\ b[1] = Version
             /\ ~ (\A d \in DOMAIN Cmd : Cmd[d] # b[2]) /\ cmd = c
  <2>1. /\ b \in Seq(Byte) /\ Len(b) = 2 + Len(t) /\ Holds(b, 2, t) /\ ~ (Len(b) < 2) /\ b[1] = Version
        /\ b[2] = Cmd[c]
    <3> DEFINE g == h \o t
    <3>1. g \in Seq(Byte) /\ Len(g) = 2 + Len(t) /\ Holds(g, 2, t) /\ ~ (Len(g) < 2) /\ g[1] = Version /\ g[2] = Cmd[c]
      BY <1>1, CommandAt, ZenonT(60)
    <3>2. b = g
      BY <1>2
    <3> HIDE DEF b, g
    <3> QED BY <3>1, <3>2, Zenon
  <2>2. c \in DOMAIN Cmd /\ (CHOOSE d \in DOMAIN Cmd : Cmd[d] = Cmd[c]) = c
    BY <1>1, CmdNumbers
  <2> HIDE DEF b
  <2> QED BY <2>1, <2>2, Zenon
<1>3. CASE c \in {"Ping", "Keys"}
  <2>1. c \notin {"Get", "Del", "Set"} /\ c # "Set"
    BY <1>3
  <2>2. k = <<>> /\ f = NoField
    BY <2>1, Zenon DEF IsRequest
  <2>3. b = (h \o <<>>) \o <<>>
    BY <2>1, Zenon DEF EncodeRequest
  <2>4. <<>> \in Seq(Byte) /\ Len(<<>>) = 0
    OBVIOUS
  <2>5. h \in Seq(Byte)
    BY <1>1, <2>4, CommandAt
  <2>6. b = h \o <<>>
    <3> HIDE DEF h, b
    <3> QED BY <2>3, <2>4, <2>5, ConcatFacts
  <2>7. Len(b) = 2 + Len(<<>>) /\ ~ (Len(b) < 2) /\ b[1] = Version /\ ~ (\A d \in DOMAIN Cmd : Cmd[d] # b[2]) /\ cmd = c
    BY <1>2, <2>4, <2>6, Zenon
  <2>8. DecodeRequest(b) = Ok(Request(c, <<>>, NoField), 2)
    <3> HIDE DEF b, c
    <3> QED BY <1>3, <2>7, Zenon DEF DecodeRequest
  <2>9. Len(b) = 2
    <3> HIDE DEF b
    <3> QED BY <2>4, <2>7
  <2> QED BY <1>1, <2>2, <2>8, <2>9, Zenon
<1>4. ASSUME c \in {"Get", "Del", "Set"} PROVE CountHolds(k, W16) /\ EncodeKey(k) = Count(k, W16) /\ Len(k) \in Nat
  <2>1. k \in Seq(Byte) /\ Len(k) < Pow[W16]
    BY <1>4, Zenon DEF IsRequest
  <2> HIDE DEF k
  <2> QED BY <2>1, CountedBE, Widths DEF Count, EncodeKey
<1>5. CASE c \in {"Get", "Del"}
  <2>1. c \in {"Get", "Del", "Set"} /\ c # "Set" /\ c \notin {"Ping", "Keys"}
    BY <1>5
  <2>2. f = NoField
    BY <2>1, Zenon DEF IsRequest
  <2> DEFINE K == Count(k, W16)
  <2>3. CountHolds(k, W16) /\ EncodeKey(k) = K /\ K \in Seq(Byte) /\ Len(K) = W16 + Len(k)
    BY <1>4, <2>1, Zenon DEF CountHolds
  <2>4. b = (h \o K) \o <<>>
    BY <2>1, <2>3, Zenon DEF EncodeRequest
  <2> HIDE DEF K
  <2>5. h \in Seq(Byte)
    BY <1>1, <2>3, CommandAt
  <2>6. b = h \o K
    <3>1. h \o K \in Seq(Byte)
      <4> HIDE DEF h
      <4> QED BY <2>3, <2>5, ConcatFacts
    <3> HIDE DEF h, b
    <3> QED BY <2>4, <3>1, ConcatFacts
  <2>7. /\ b \in Seq(Byte) /\ Len(b) = 2 + Len(K) /\ Holds(b, 2, K)
        /\ ~ (Len(b) < 2) /\ b[1] = Version /\ ~ (\A d \in DOMAIN Cmd : Cmd[d] # b[2]) /\ cmd = c
    BY <1>2, <2>3, <2>6, Zenon
  <2>8. Counted(b, 2, W16) = Ok(k, 2 + W16 + Len(k))
    <3>1. 2 \in Nat
      OBVIOUS
    <3> HIDE DEF b, k
    <3> QED BY <2>3, <2>7, <3>1, Zenon DEF CountHolds, K
  <2> DEFINE key == Counted(b, 2, W16)
  <2>9. key.out = "ok" /\ key.val = k /\ key.next = 2 + W16 + Len(k)
    BY <2>8, OkFields
  <2>10. DecodeRequest(b) = Ok(Request(c, key.val, NoField), key.next)
    <3> HIDE DEF b, c
    <3> QED BY <2>1, <2>7, <2>9, Zenon DEF DecodeRequest
  <2>11. Len(b) = 2 + W16 + Len(k)
    <3>1. Len(k) \in Nat
      BY <1>4, <2>1
    <3> HIDE DEF b, k
    <3> QED BY <2>3, <2>7, <3>1, Widths
  <2> HIDE DEF key, b
  <2> QED BY <1>1, <2>2, <2>9, <2>10, <2>11, Zenon DEF b
<1>6. CASE c = "Set"
  <2>1. c \in {"Get", "Del", "Set"} /\ c # "Ping" /\ c # "Keys" /\ c \notin {"Ping", "Keys"}
    BY <1>6
  <2> DEFINE K == Count(k, W16)
             p == BytesFromField(f)
             P == Count(p, W32)
             t == K \o P
             mid == 2 + W16 + Len(k)
  <2>2. IsField(f) /\ Len(p) < Pow[W32]
    BY <1>6, Zenon DEF IsRequest
  <2>3. CountHolds(k, W16) /\ EncodeKey(k) = K /\ K \in Seq(Byte) /\ Len(K) = W16 + Len(k) /\ Len(k) \in Nat
    BY <1>4, <2>1, Zenon DEF CountHolds
  <2>4. p \in Seq(Byte) /\ Len(p) \in Nat
    <3>1. p \in Seq(Byte)
      BY <2>2, FieldBytesType
    <3> HIDE DEF p
    <3> QED BY <3>1
  <2>5. CountHolds(p, W32) /\ EncodeField(f) = P
    <3>1. CountHolds(p, W32)
      <4> HIDE DEF p
      <4> QED BY <2>2, <2>4, CountedBE, Widths
    <3> QED BY <3>1, Zenon DEF EncodeField, Count
  <2>6. P \in Seq(Byte) /\ Len(P) = W32 + Len(p)
    BY <2>5, Zenon DEF CountHolds
  <2>7. b = (h \o K) \o P
    BY <1>6, <2>1, <2>3, <2>5, Zenon DEF EncodeRequest
  <2> HIDE DEF K, P
  <2>8. t \in Seq(Byte) /\ Len(t) = Len(K) + Len(P)
    BY <2>3, <2>6, ConcatFacts
  <2>9. h \in Seq(Byte)
    BY <1>1, <2>3, CommandAt
  <2>10. b = h \o t
    <3> HIDE DEF h, b
    <3> QED BY <2>3, <2>6, <2>7, <2>9, ConcatAssoc
  <2>11. /\ b \in Seq(Byte) /\ Len(b) = 2 + Len(t) /\ Holds(b, 2, t)
         /\ ~ (Len(b) < 2) /\ b[1] = Version /\ ~ (\A d \in DOMAIN Cmd : Cmd[d] # b[2]) /\ cmd = c
    BY <1>2, <2>8, <2>10, Zenon
  <2>12. 2 \in Nat /\ mid \in Nat /\ 2 + Len(K) = mid /\ Len(b) = mid + W32 + Len(p)
    <3> HIDE DEF b, p, k, t
    <3> QED BY <2>3, <2>4, <2>6, <2>8, <2>11, Widths
  <2>13. Holds(b, 2, K) /\ Holds(b, mid, P)
    <3> HIDE DEF b, mid
    <3>1. Holds(b, 2, K) /\ Holds(b, 2 + Len(K), P)
      BY <2>3, <2>6, <2>11, <2>12, HoldsConcat
    <3> QED BY <2>12, <3>1
  <2>14. Counted(b, 2, W16) = Ok(k, mid)
    <3> HIDE DEF b, k
    <3> QED BY <2>3, <2>11, <2>12, <2>13, Zenon DEF CountHolds, K
  <2>15. Counted(b, mid, W32) = Ok(p, mid + W32 + Len(p))
    <3> HIDE DEF b, p, mid
    <3> QED BY <2>5, <2>11, <2>12, <2>13, Zenon DEF CountHolds, P
  <2> DEFINE key == Counted(b, 2, W16)
             payload == Counted(b, mid, W32)
             field == FieldFromBytes(p)
  <2>16. /\ key.out = "ok" /\ key.val = k /\ key.next = mid
         /\ payload.out = "ok" /\ payload.val = p /\ payload.next = mid + W32 + Len(p)
         /\ field.out = "ok" /\ field.val = f
    <3>1. field = Ok(f, Len(p))
      BY <2>2, FieldRoundTrip
    <3> HIDE DEF key, payload, field, mid, p
    <3> QED BY <2>14, <2>15, <3>1, OkFields DEF key, payload
  <2>17. DecodeRequest(b) = Ok(Request("Set", k, f), mid + W32 + Len(p))
    <3> HIDE DEF b, c, mid, k, p, f
    <3> QED BY <1>6, <2>1, <2>11, <2>16, Zenon DEF DecodeRequest
  <2> HIDE DEF b, mid, p
  <2> QED BY <1>1, <1>6, <2>12, <2>17, Zenon DEF b
<1> QED BY <1>1, <1>3, <1>5, <1>6

\* The bytes of a response's body.
Body(res) ==
  CASE res.status = "Ok" /\ res.body # <<>> -> BytesFromField(res.body[1])
    [] res.status = "ServerError" -> res.body
    [] res.status = "Keys" -> KeyList(res.body)
    [] OTHER -> <<>>

\* A response the server can give: its body is no longer than a u32 counts.
IsResponse(res) ==
  /\ res = Response(res.status, res.body)
  /\ \/ res.status \in {"Ok", "NotFound", "TypeError", "InvalidRequest"} /\ res.body = <<>>
     \/ res.status = "Ok" /\ \E f : res.body = <<f>> /\ IsField(f) /\ Len(BytesFromField(f)) < Pow[W32]
     \/ res.status = "ServerError" /\ res.body \in Seq(Byte) /\ IsUtf8(res.body) /\ Len(res.body) < Pow[W32]
     \/ /\ res.status = "Keys" /\ res.body \in Seq(Seq(Byte)) /\ Len(KeyList(res.body)) < Pow[W32]
        /\ \A i \in 1 .. Len(res.body) : Len(res.body[i]) < Pow[W16]

\* The body decides what a response is decoded to.
LEMMA ResponseFrom ==
  ASSUME NEW s \in {"Ok", "NotFound", "TypeError", "ServerError", "InvalidRequest", "Keys"}, NEW res, res.status = s,
         NEW p \in Seq(Byte), Len(p) < Pow[W32], Body(res) = p
  PROVE  LET b == EncodeResponse(res)
             field == FieldFromBytes(p)
             keys == DecodeKeyList(p)
         IN /\ b \in Seq(Byte) /\ Len(b) = 1 + W32 + Len(p)
            /\ DecodeResponse(b) =
                 IF s = "Ok" /\ p # <<>>
                 THEN IF field.out = "ok" THEN Ok(Response(s, <<field.val>>), Len(b)) ELSE field
                 ELSE IF s = "Keys" THEN IF keys.out = "ok" THEN Ok(Response(s, keys.val), Len(b)) ELSE keys
                 ELSE IF s = "ServerError" THEN IF IsUtf8(p) THEN Ok(Response(s, p), Len(b)) ELSE Err
                 ELSE Ok(Response(s, <<>>), Len(b))
<1> DEFINE b == EncodeResponse(res)
           x == Status[s]
           P == Count(p, W32)
           l == BE(Len(p), W32)
           status == CHOOSE d \in DOMAIN Status : Status[d] = b[1]
<1>1. s \in DOMAIN Status /\ x \in Byte /\ (CHOOSE d \in DOMAIN Status : Status[d] = x) = s
  BY StatusNumbers, SmallBytes
<1>2. CountHolds(p, W32) /\ P \in Seq(Byte) /\ Len(P) = W32 + Len(p) /\ Len(p) \in Nat
  <2>1. CountHolds(p, W32) /\ Len(p) \in Nat
    BY CountedBE, Widths
  <2> QED BY <2>1, Zenon DEF CountHolds
<1>3. b = (<<x>> \o l) \o p
  BY Zenon DEF EncodeResponse, Body
<1>4. <<x>> \in Seq(Byte) /\ l \in Seq(Byte)
  <2>1. l \in Seq(Byte)
    BY <1>2, BEType, Widths
  <2> HIDE DEF x
  <2> QED BY <1>1, <2>1
<1>5. b = <<x>> \o P
  <2>1. (<<x>> \o l) \o p = <<x>> \o (l \o p)
    <3> HIDE DEF x, l
    <3> QED BY <1>4, ConcatAssoc
  <2> QED BY <1>3, <2>1, Zenon DEF Count
<1>6. b \in Seq(Byte) /\ b # <<>> /\ Len(b) = 1 + Len(P) /\ b[1] = x
  <2> DEFINE c == <<x>> \o P
  <2>1. c \in Seq(Byte) /\ c # <<>> /\ Len(c) = 1 + Len(P) /\ c[1] = x
    <3> HIDE DEF x, P
    <3> QED BY <1>1, <1>2, HeadTail
  <2> HIDE DEF c, b
  <2> QED BY <1>5, <2>1, Zenon DEF c
<1>7. Holds(b, 1, P)
  <2> HIDE DEF x, P, b
  <2>1. Holds(b, 0, b)
    BY <1>6, HoldsWhole
  <2>2. Holds(b, 0 + Len(<<x>>), P)
    BY <1>2, <1>4, <1>5, <1>6, <2>1, HoldsConcat
  <2>3. 0 + Len(<<x>>) = 1
    OBVIOUS
  <2> QED BY <2>2, <2>3
<1>8. Len(b) = 1 + W32 + Len(p) /\ 1 \in Nat
  <2> HIDE DEF P, b
  <2> QED BY <1>2, <1>6, Widths
<1>9. Counted(b, 1, W32) = Ok(p, Len(b))
  <2> HIDE DEF b
  <2> QED BY <1>2, <1>6, <1>7, <1>8, Zenon DEF CountHolds
<1> DEFINE payload == Counted(b, 1, W32)
<1>10. payload.out = "ok" /\ payload.val = p /\ payload.next = Len(b)
  BY <1>9, OkFields
<1>11. ~ (\A d \in DOMAIN Status : Status[d] # b[1]) /\ status = s
  <2> HIDE DEF b
  <2> QED BY <1>1, <1>6, Zenon
<1> DEFINE field == FieldFromBytes(p)
           keys == DecodeKeyList(p)
<1>12. DecodeResponse(b) =
         IF s = "Ok" /\ p # <<>>
         THEN IF field.out = "ok" THEN Ok(Response(s, <<field.val>>), Len(b)) ELSE field
         ELSE IF s = "Keys" THEN IF keys.out = "ok" THEN Ok(Response(s, keys.val), Len(b)) ELSE keys
         ELSE IF s = "ServerError" THEN IF IsUtf8(p) THEN Ok(Response(s, p), Len(b)) ELSE Err
         ELSE Ok(Response(s, <<>>), Len(b))
  <2> HIDE DEF b
  <2> QED BY <1>6, <1>10, <1>11, Zenon DEF DecodeResponse
<1> QED BY <1>6, <1>8, <1>12, Zenon

\* Every response arrives as it was sent.
THEOREM ResponseRoundTrip ==
  ASSUME NEW res, IsResponse(res)
  PROVE  /\ DecodeResponse(EncodeResponse(res)) = Ok(res, Len(EncodeResponse(res)))
         /\ EncodeResponse(res) \in Seq(Byte) /\ Len(EncodeResponse(res)) = 1 + W32 + Len(Body(res))
<1> DEFINE s == res.status
           b == EncodeResponse(res)
           Good == DecodeResponse(b) = Ok(res, Len(b)) /\ b \in Seq(Byte) /\ Len(b) = 1 + W32 + Len(Body(res))
           Statuses == {"Ok", "NotFound", "TypeError", "ServerError", "InvalidRequest", "Keys"}
<1>0. res = Response(s, res.body)
  BY Zenon DEF IsResponse
<1>1. ASSUME s \in {"Ok", "NotFound", "TypeError", "InvalidRequest"}, res.body = <<>> PROVE Good
  <2>1. Body(res) = <<>>
    <3>1. s # "ServerError" /\ s # "Keys"
      BY <1>1
    <3> QED BY <1>1, <3>1, Zenon DEF Body
  <2>2. <<>> \in Seq(Byte) /\ Len(<<>>) < Pow[W32] /\ s \in Statuses
    <3>1. Pow[W32] > 11 * W32 /\ Pow[W32] \in Nat
      BY PowType, Widths
    <3> QED BY <1>1, <3>1, Widths
  <2>3. b \in Seq(Byte) /\ Len(b) = 1 + W32 + Len(<<>>) /\ DecodeResponse(b) = Ok(Response(s, <<>>), Len(b))
    <3>1. ~ (s = "Ok" /\ <<>> # <<>>) /\ s # "Keys" /\ s # "ServerError"
      BY <1>1
    <3>2. s = res.status
      OBVIOUS
    <3> HIDE DEF s
    <3> QED BY <2>1, <2>2, <3>1, <3>2, ResponseFrom
  <2> QED BY <1>0, <1>1, <2>1, <2>3, Zenon
<1>2. ASSUME s = "Ok", NEW f, res.body = <<f>>, IsField(f), Len(BytesFromField(f)) < Pow[W32] PROVE Good
  <2> DEFINE p == BytesFromField(f)
  <2>1. Body(res) = p
    <3>1. res.body # <<>> /\ res.body[1] = f
      BY <1>2
    <3> QED BY <1>2, <3>1, Zenon DEF Body
  <2>2. p \in Seq(Byte) /\ Len(p) < Pow[W32] /\ p # <<>>
    BY <1>2, FieldBytesType
  <2>3. FieldFromBytes(p).out = "ok" /\ FieldFromBytes(p).val = f
    BY <1>2, FieldRoundTrip, OkFields
  <2> HIDE DEF p
  <2>4. /\ b \in Seq(Byte) /\ Len(b) = 1 + W32 + Len(p)
        /\ DecodeResponse(b) = Ok(Response("Ok", <<FieldFromBytes(p).val>>), Len(b))
    BY <1>2, <2>1, <2>2, <2>3, ResponseFrom
  <2> QED BY <1>0, <1>2, <2>1, <2>3, <2>4, Zenon
<1>3. ASSUME s = "ServerError", res.body \in Seq(Byte), IsUtf8(res.body), Len(res.body) < Pow[W32] PROVE Good
  <2> DEFINE p == res.body
  <2>1. Body(res) = p
    BY <1>3, Zenon DEF Body
  <2>2. b \in Seq(Byte) /\ Len(b) = 1 + W32 + Len(p) /\ DecodeResponse(b) = Ok(Response("ServerError", p), Len(b))
    BY <1>3, <2>1, ResponseFrom
  <2> QED BY <1>0, <1>3, <2>1, <2>2, Zenon
<1>4. ASSUME s = "Keys", res.body \in Seq(Seq(Byte)), Len(KeyList(res.body)) < Pow[W32],
             \A i \in 1 .. Len(res.body) : Len(res.body[i]) < Pow[W16] PROVE Good
  <2> DEFINE p == KeyList(res.body)
  <2>1. Body(res) = p
    BY <1>4, Zenon DEF Body
  <2>2. p \in Seq(Byte) /\ DecodeKeyList(p) = Ok(res.body, Len(p)) /\ Len(p) < Pow[W32]
    BY <1>4, KeyListDecodes
  <2>3. DecodeKeyList(p).out = "ok" /\ DecodeKeyList(p).val = res.body
    BY <2>2, OkFields
  <2> HIDE DEF p
  <2>4. /\ b \in Seq(Byte) /\ Len(b) = 1 + W32 + Len(p)
        /\ DecodeResponse(b) = Ok(Response("Keys", DecodeKeyList(p).val), Len(b))
    BY <1>4, <2>1, <2>2, <2>3, ResponseFrom
  <2> QED BY <1>0, <1>4, <2>1, <2>3, <2>4, Zenon
<1> HIDE DEF Good
<1>5. Good
  BY <1>1, <1>2, <1>3, <1>4, Zenon DEF IsResponse
<1> QED BY <1>5, Zenon DEF Good

\* A framed message is read whole, and the next one begins where it ends.
THEOREM FrameRoundTrip ==
  ASSUME NEW m \in Seq(Byte), Len(m) < Pow[W32], NEW b \in Seq(Byte), NEW pos \in Nat, Holds(b, pos, Frame(m))
  PROVE  ReadMessage(b, pos) = Ok(m, pos + W32 + Len(m))
<1>1. Frame(m) = Count(m, W32)
  BY DEF Frame, Count
<1>2. CountHolds(m, W32)
  BY CountedBE, Widths
<1> QED BY <1>1, <1>2, Zenon DEF CountHolds, ReadMessage

\* Whatever follows the key of a set request: if it is accepted, its field is
\* one that bytes_from_field writes with a length a u32 counts.
LEMMA SetAccepted ==
  ASSUME NEW k \in Seq(Byte), Len(k) < Pow[W16], NEW t \in Seq(Byte), NEW b,
         b = <<Version, Cmd["Set"]>> \o (EncodeKey(k) \o t), DecodeRequest(b).out = "ok"
  PROVE  LET f == DecodeRequest(b).val.field
         IN IsField(f) /\ Len(BytesFromField(f)) < Pow[W32]
<1> DEFINE K == Count(k, W16)
           u == K \o t
           h == <<Version, Cmd["Set"]>>
           mid == 2 + W16 + Len(k)
           key == Counted(b, 2, W16)
           payload == Counted(b, mid, W32)
           field == FieldFromBytes(payload.val)
           cmd == CHOOSE d \in DOMAIN Cmd : Cmd[d] = b[2]
<1>1. CountHolds(k, W16) /\ EncodeKey(k) = K /\ K \in Seq(Byte) /\ Len(K) = W16 + Len(k) /\ Len(k) \in Nat
  <2>1. CountHolds(k, W16) /\ EncodeKey(k) = K /\ Len(k) \in Nat
    BY CountedBE, Widths DEF Count, EncodeKey
  <2> QED BY <2>1, Zenon DEF CountHolds
<1>2. u \in Seq(Byte) /\ Len(u) = Len(K) + Len(t) /\ Len(t) \in Nat
  <2>1. Len(t) \in Nat
    OBVIOUS
  <2> HIDE DEF K
  <2> QED BY <1>1, <2>1, ConcatFacts
<1>3. b = h \o u
  BY <1>1, Zenon
<1>4. /\ b \in Seq(Byte) /\ Len(b) = 2 + Len(u) /\ Holds(b, 2, u) /\ ~ (Len(b) < 2) /\ b[1] = Version
      /\ b[2] = Cmd["Set"]
  <2> DEFINE g == h \o u
  <2>1. g \in Seq(Byte) /\ Len(g) = 2 + Len(u) /\ Holds(g, 2, u) /\ ~ (Len(g) < 2) /\ g[1] = Version /\ g[2] = Cmd["Set"]
    <3> HIDE DEF u
    <3> QED BY <1>2, CommandAt
  <2> HIDE DEF g
  <2> QED BY <1>3, <2>1, Zenon DEF g
<1>5. "Set" \in DOMAIN Cmd /\ (CHOOSE d \in DOMAIN Cmd : Cmd[d] = Cmd["Set"]) = "Set"
  BY CmdNumbers
<1>6. cmd = "Set" /\ ~ (\A d \in DOMAIN Cmd : Cmd[d] # b[2])
  BY <1>4, <1>5, Zenon
<1>7. 2 \in Nat /\ mid \in Nat /\ Holds(b, 2, K)
  <2> HIDE DEF K
  <2>1. Holds(b, 2, K)
    BY <1>1, <1>2, <1>4, HoldsConcat
  <2> QED BY <1>1, <2>1, Widths
<1>8. key = Ok(k, mid)
  BY <1>1, <1>4, <1>7, Zenon DEF CountHolds
<1>9. key.out = "ok" /\ key.val = k /\ key.next = mid
  BY <1>8, OkFields
<1>10. DecodeRequest(b) =
         IF payload.out # "ok" THEN Err
         ELSE IF field.out # "ok" THEN field
         ELSE Ok(Request("Set", k, field.val), payload.next)
  <2>1. "Set" \notin {"Ping", "Keys"}
    OBVIOUS
  <2> HIDE DEF mid
  <2> QED BY <1>4, <1>6, <1>9, <2>1, Zenon DEF DecodeRequest
<1>11. payload.out = "ok" /\ field.out = "ok"
  <2> HIDE DEF payload, field
  <2> QED BY <1>10, ErrFields
<1>12. payload = Err \/ CountRead(payload, b, mid, W32)
  <2> HIDE DEF mid
  <2> QED BY <1>4, <1>7, CountedReads, Widths
<1>13. payload.val \in Seq(Byte) /\ Len(payload.val) < Pow[W32]
  <2> HIDE DEF payload, mid
  <2> QED BY <1>11, <1>12, ErrFields DEF CountRead
<1>14. Sound(field, payload.val)
  <2> HIDE DEF payload
  <2> QED BY <1>11, <1>13, FieldSound
<1>15. DecodeRequest(b) = Ok(Request("Set", k, field.val), payload.next)
  BY <1>10, <1>11, Zenon
<1>16. DecodeRequest(b).val = Request("Set", k, field.val)
  BY <1>15, OkFields
<1>17. DecodeRequest(b).val.field = field.val
  <2> DEFINE v == field.val
             r == DecodeRequest(b).val
  <2>1. r = Request("Set", k, v)
    BY <1>16
  <2> HIDE DEF v, r
  <2>2. r.field = v
    BY <2>1 DEF Request
  <2> QED BY <2>2 DEF v, r
<1>18. IsField(field.val) /\ Len(BytesFromField(field.val)) < Pow[W32]
  <2> DEFINE n == Len(payload.val)
             m == Len(BytesFromField(field.val))
  <2>1. IsField(field.val) /\ m <= n /\ m \in Nat /\ n < Pow[W32]
    <3> HIDE DEF field, payload
    <3> QED BY <1>13, <1>14 DEF Sound
  <2>2. n \in Nat /\ Pow[W32] \in Nat
    <3>1. Pow[W32] \in Nat
      BY PowType, Widths
    <3> HIDE DEF payload
    <3> QED BY <1>13, <3>1
  <2> HIDE DEF n, m
  <2>3. m < Pow[W32]
    BY <2>1, <2>2
  <2> QED BY <2>1, <2>3 DEF m
<1> QED BY <1>17, <1>18, Zenon

=============================================================================
